---------------------------- MODULE IngestProofs ----------------------------
(***************************************************************************)
(* Theorems about Ingest.tla for any ingesters, runs and flags, any number *)
(* of events, and any failing statements and cut-off ingesters.            *)
(***************************************************************************)
EXTENDS Ingest, FiniteSetTheorems, WellFoundedInduction, TLAPS

(* Rows and locals.                                                        *)
RunIds == Runs \cup {NoRun}
EventRow == [id : Ids, type : Types, run : RunIds, match : RunIds]
EdgeRow == [kind : {"scope", "caused", "call"}, from : Ids \cup {NoEvent}, to : Ids \cup {NoEvent}]
BatchRow == [run : RunIds, ids : SUBSET Ids]
Rows == [events : SUBSET EventRow, edges : SUBSET EdgeRow, batches : SUBSET BatchRow,
         decided : SUBSET Ids]
Tallies == {<<>>} \cup {[q \in R |-> Tally(d, q)] : R \in SUBSET Runs, d \in Rows}
Job == [at : {"idle", "reading", "edges", "cause", "link", "readback", "rebuild", "windows"},
        ids : SUBSET Ids, hand : EventRow \cup {NoHand}, cause : Ids \cup {NoEvent},
        tally : Tallies]

Open == draft.by # NoOne
TypeInv ==
  /\ db \in Rows
  /\ draft = NoDraft \/ draft \in [by : Transactional, rows : Rows]
  /\ job \in [Ingesters -> Job]
  /\ prune \in [left : SUBSET Ids, victim : Ids \cup {NoEvent}]
  /\ judged \in Ids \cup {NoEvent}
  /\ clock \in 1 .. MaxEvents + 1
  /\ overlap \in BOOLEAN
  /\ raced \subseteq Runs /\ shaken \subseteq Runs

(* Where an ingester is with a line, and who has a transaction open.       *)
Handles == {"edges", "cause", "link", "readback"}
LineOf(i) ==
  /\ job[i].at = "idle" => job[i] = NoJob
  /\ job[i].at \in Handles <=> job[i].hand # NoHand
  /\ job[i].hand.run \in Scope(i) \cup {NoRun}
  /\ job[i].at \in {"edges", "cause", "link"} => job[i].hand.run \in Scope(i)
  /\ job[i].at = "cause" => job[i].hand.type # "request"
  /\ job[i].at = "link" => job[i].hand.type # "request" /\ job[i].cause # NoEvent
  /\ job[i].at # "link" => job[i].cause = NoEvent
  /\ draft.by = i => job[i].at \in Handles \cup {"reading"}
  /\ i \in Transactional /\ job[i].at \in Handles => draft.by = i
LineInv == \A i \in Ingesters : LineOf(i)

(* An id is drawn once, so it tells its event for ever.                    *)
Unique(E) == \A e, o \in E : e.id = o.id => e = o
Known == db.events \cup (IF Open THEN draft.rows.events ELSE {})
         \cup ({job[i].hand : i \in Ingesters} \ {NoHand})
KnownEdges == db.edges \cup (IF Open THEN draft.rows.edges ELSE {})
IdInv == /\ Unique(Known) /\ \A e \in Known : e.id < clock
         /\ \A g \in KnownEdges : g.from < clock
         /\ \A i \in Ingesters : job[i].cause < clock

(* The event that an ingester is about to name as a cause.                 *)
CauseOf(i) == job[i].at = "link" => \A e \in Known : e.id = job[i].cause =>
  e.run = job[i].hand.run /\ (job[i].hand.type = "response" => e.type = "request")
CauseInv == \A i \in Ingesters : CauseOf(i)

(* Two who are busy with the same run race on it and shake its windows;    *)
(* what a transaction adds is of its ingester's runs.                      *)
SharedInv ==
  \A i, j \in Busy : i # j => Scope(i) \cap Scope(j) \subseteq raced \cap shaken
AddedInv == Open =>
  /\ db.events \subseteq draft.rows.events
  /\ \A e \in draft.rows.events \ db.events : e.run \in Scope(draft.by) \cup {NoRun}
  /\ \A g \in draft.rows.edges \ db.edges, e \in draft.rows.events :
       g.kind = "call" /\ e.id = g.from => e.run \in Scope(draft.by)

(* What is named exists, or will once it is written.                       *)
Kept(d) == Stored(d) \cup dropped \cup {NoEvent}
HeldIds(i) == job[i].ids \cup {job[i].hand.id, job[i].cause}
NamedInv == ~overlap =>
  /\ Named(db) \subseteq Kept(db) /\ (Open => Named(draft.rows) \subseteq Kept(draft.rows))
  /\ \A i \in Ingesters : HeldIds(i) \subseteq Kept(Sees(i))
  /\ judged \in Kept(db)
  /\ Pruning => Busy = {} /\ judged = NoEvent
  /\ prune.victim \notin Named(db) \ {NoEvent}

(* What the windows of a run count while one ingester is busy with it.     *)
Of(d, r) == {e \in d.events : e.run = r}
Count(E) == [resolved   |-> Cardinality({e \in E : ~Unresolved(e)}),
             unresolved |-> Cardinality({e \in E : Unresolved(e)})]
Rest(i, r) == {e \in Of(Sees(i), r) : e.id \notin job[i].ids \cup {job[i].hand.id}}
Counted(i, r) ==
  IF job[i].at = "windows"
  THEN IF r \in DOMAIN job[i].tally THEN job[i].tally[r] = Tally(db, r)
                                    ELSE windows[r] = Tally(db, r)
  ELSE windows[r] = Count(Rest(i, r))
WindowInv ==
  \A r \in Runs \ shaken :
    /\ (\A i \in Busy : r \notin Scope(i)) => windows[r] = Tally(db, r)
    /\ \A i \in Busy : r \in Scope(i) => Counted(i, r)
TallyInv == \A i \in Ingesters : DOMAIN job[i].tally \subseteq Scope(i)

(* A request has one call edge, and who is about to add one sees none.     *)
OneCallIn(d) ==
  \A g \in d.edges :
    g.kind = "call" /\ (\E e \in d.events : e.id = g.from /\ e.run \notin raced) =>
      /\ g.from < g.to
      /\ \A h \in d.edges : h.kind = "call" /\ h.from = g.from => h = g
LastOf(i) == \A e \in Sees(i).events :
  e.run = job[i].hand.run /\ e.run \in Runs \ raced /\ job[i].hand # NoHand => e.id <= job[i].hand.id
LinkOf(i) == job[i].at = "link" /\ job[i].hand.type = "response" =>
  \A e \in Sees(i).events :
    e.id = job[i].cause /\ e.run \notin raced => ~HasCall(Sees(i), job[i].cause)
CallInv == /\ OneCallIn(db) /\ (Open => OneCallIn(draft.rows))
           /\ \A i \in Ingesters : LastOf(i) /\ LinkOf(i)

-----------------------------------------------------------------------------
(* Constants.                                                              *)
LEMMA ScopeIsRuns ==
  ASSUME NEW i \in Ingesters
  PROVE  /\ Scope(i) \subseteq Runs /\ NoRun \notin Scope(i)
         /\ Configured(i) = NoRun => Scope(i) = Runs
         /\ Configured(i) # NoRun => Configured(i) \in Runs /\ Scope(i) = {Configured(i)}
  BY IngestAssumption DEF Scope

LEMMA IdsAreNat ==
  /\ Ids \subseteq Nat /\ NoEvent \notin Ids /\ MaxEvents \in Nat
  /\ NoHand.id = NoEvent /\ NoHand.run = NoRun /\ NoHand \notin EventRow
  BY IngestAssumption DEF Ids, NoEvent, NoHand, EventRow

LEMMA IdOrNone == Ids \cup {NoEvent} \subseteq Nat
  BY IdsAreNat DEF NoEvent

(* What a transaction, and who has none, sees.                             *)
LEMMA OpenIs ==
  ASSUME TypeInv
  PROVE  /\ Open <=> draft # NoDraft
         /\ Open => draft.by \in Transactional /\ draft.by \in Ingesters /\ draft.rows \in Rows
         /\ ~Open => draft = NoDraft /\ draft.by = NoOne
         /\ \A i \in Ingesters : /\ draft.by = i => Open /\ Sees(i) = draft.rows
                                 /\ draft.by # i => Sees(i) = db
                                 /\ Sees(i) \in Rows
  BY IngestAssumption DEF TypeInv, Open, NoDraft, Sees

(* A statement changes what its ingester sees; others see it only if it is *)
(* committed, and then all of them saw the same before.                    *)
LEMMA WriteIs ==
  ASSUME TypeInv, NEW i \in Ingesters, NEW d, Writes(i, d)
  PROVE  /\ Sees(i)' = d
         /\ \A j \in Ingesters \ {i} : \/ Sees(j)' = Sees(j) /\ Sees(j) = db
                                       \/ Sees(j) = Sees(i) /\ Sees(i) = db /\ Sees(j)' = d
         /\ \/ /\ i \in Transactional /\ db' = db
               /\ draft' = [by |-> i, rows |-> d] /\ (Open => Sees(i) = draft.rows)
               /\ (~Open => Sees(i) = db)
            \/ /\ i \notin Transactional /\ db' = d /\ Sees(i) = db
               /\ draft = NoDraft /\ draft' = NoDraft
<1>1. draft.by \in {NoOne, i}
  BY DEF Writes, MayWrite
<1>2. CASE i \in Transactional
  <2>1. draft' = [by |-> i, rows |-> d] /\ db' = db
    BY <1>2 DEF Writes
  <2>2. draft'.by = i /\ draft'.rows = d
    BY <2>1
  <2> QED
    BY <1>1, <1>2, <2>1, <2>2, OpenIs DEF Sees, Open
<1>3. CASE i \notin Transactional
  <2>1. db' = d /\ draft' = draft
    BY <1>3 DEF Writes
  <2>2. draft = NoDraft /\ draft.by = NoOne
    BY <1>1, <1>3, OpenIs DEF Open
  <2> QED
    BY <1>3, <2>1, <2>2, IngestAssumption DEF Sees
<1> QED
  BY <1>2, <1>3

-----------------------------------------------------------------------------
(* Rows.                                                                   *)
LEMMA RowUpdate ==
  ASSUME NEW d \in Rows
  PROVE  /\ d.events \subseteq EventRow /\ d.edges \subseteq EdgeRow
         /\ d.batches \subseteq BatchRow /\ d.decided \subseteq Ids
         /\ \A E \in SUBSET EventRow :
              /\ [d EXCEPT !.events = E] \in Rows /\ [d EXCEPT !.events = E].events = E
              /\ [d EXCEPT !.events = E].edges = d.edges
              /\ [d EXCEPT !.events = E].batches = d.batches
              /\ [d EXCEPT !.events = E].decided = d.decided
         /\ \A G \in SUBSET EdgeRow :
              /\ [d EXCEPT !.edges = G] \in Rows /\ [d EXCEPT !.edges = G].edges = G
              /\ [d EXCEPT !.edges = G].events = d.events
              /\ [d EXCEPT !.edges = G].batches = d.batches
              /\ [d EXCEPT !.edges = G].decided = d.decided
         /\ \A B \in SUBSET BatchRow :
              /\ [d EXCEPT !.batches = B] \in Rows /\ [d EXCEPT !.batches = B].batches = B
              /\ [d EXCEPT !.batches = B].events = d.events
              /\ [d EXCEPT !.batches = B].edges = d.edges
              /\ [d EXCEPT !.batches = B].decided = d.decided
         /\ \A D \in SUBSET Ids :
              /\ [d EXCEPT !.decided = D] \in Rows /\ [d EXCEPT !.decided = D].decided = D
              /\ [d EXCEPT !.decided = D].events = d.events
              /\ [d EXCEPT !.decided = D].edges = d.edges
              /\ [d EXCEPT !.decided = D].batches = d.batches
<1>1. /\ d.events \subseteq EventRow /\ d.edges \subseteq EdgeRow
      /\ d.batches \subseteq BatchRow /\ d.decided \subseteq Ids
  BY DEF Rows
<1>2. ASSUME NEW E \in SUBSET EventRow
      PROVE  /\ [d EXCEPT !.events = E] \in Rows /\ [d EXCEPT !.events = E].events = E
             /\ [d EXCEPT !.events = E].edges = d.edges
             /\ [d EXCEPT !.events = E].batches = d.batches
             /\ [d EXCEPT !.events = E].decided = d.decided
  BY DEF Rows
<1>3. ASSUME NEW G \in SUBSET EdgeRow
      PROVE  /\ [d EXCEPT !.edges = G] \in Rows /\ [d EXCEPT !.edges = G].edges = G
             /\ [d EXCEPT !.edges = G].events = d.events
             /\ [d EXCEPT !.edges = G].batches = d.batches
             /\ [d EXCEPT !.edges = G].decided = d.decided
  BY DEF Rows
<1>4. ASSUME NEW B \in SUBSET BatchRow
      PROVE  /\ [d EXCEPT !.batches = B] \in Rows /\ [d EXCEPT !.batches = B].batches = B
             /\ [d EXCEPT !.batches = B].events = d.events
             /\ [d EXCEPT !.batches = B].edges = d.edges
             /\ [d EXCEPT !.batches = B].decided = d.decided
  BY DEF Rows
<1>5. ASSUME NEW D \in SUBSET Ids
      PROVE  /\ [d EXCEPT !.decided = D] \in Rows /\ [d EXCEPT !.decided = D].decided = D
             /\ [d EXCEPT !.decided = D].events = d.events
             /\ [d EXCEPT !.decided = D].edges = d.edges
             /\ [d EXCEPT !.decided = D].batches = d.batches
  BY DEF Rows
<1> QED
  BY <1>1, <1>2, <1>3, <1>4, <1>5

(* recentScopedEvent returns an event of the run and the type, or none: of *)
(* some stamps one is the last.                                            *)
LEMMA RecentIs ==
  ASSUME NEW d \in Rows, NEW type, NEW run, NEW now,
         Recent(d, type, run, now) # NoEvent
  PROVE  \E e \in d.events : /\ e.id = Recent(d, type, run, now)
                             /\ e.run = run /\ e.type = type
<1> DEFINE S == {e \in d.events : /\ e.run = run /\ e.type = type
                                  /\ Lexical(e.id) <= Lexical(now)}
           B == 9 * MaxEvents + 8
           T == {B - Lexical(e.id) : e \in S}
<1>1. S # {} /\ Recent(d, type, run, now)
                  = (CHOOSE e \in S : \A o \in S : Lexical(o.id) <= Lexical(e.id)).id
  BY DEF Recent
<1>2. \A n \in Ids : Lexical(n) \in 0 .. B
  <2>1. \A n \in Nat : n \div 4 \in Nat /\ n \div 4 <= n /\ (n \div 2) % 2 \in 0 .. 1
    OBVIOUS
  <2> QED
    BY <2>1, IdsAreNat DEF Ids, Lexical
<1>3. \A e \in S : Lexical(e.id) \in 0 .. B
  BY <1>2, RowUpdate DEF EventRow
<1> HIDE DEF S
<1>4. T # {} /\ T \subseteq Nat
  BY <1>1, <1>3, IdsAreNat
<1>5. PICK x \in T : \A y \in T : ~(<<y, x>> \in OpToRel(<, Nat))
  <2> HIDE DEF T
  <2> QED
    BY <1>4, NatLessThanWellFounded, WFMin
<1>6. PICK e \in S : x = B - Lexical(e.id)
  BY <1>5
<1>7. ASSUME NEW o \in S PROVE Lexical(o.id) <= Lexical(e.id)
  <2>1. B - Lexical(o.id) \in T
    OBVIOUS
  <2>2. ~(B - Lexical(o.id) < x)
    BY <1>4, <1>5, <2>1 DEF OpToRel
  <2> QED
    BY <1>3, <1>6, <2>2, IdsAreNat
<1>8. \E f \in S : Recent(d, type, run, now) = f.id
  BY <1>1, <1>7
<1> QED
  BY <1>8 DEF S

(* inferSingleRunID returns a run only if the events are of no other.      *)
LEMMA InferRunIs ==
  ASSUME NEW d \in Rows, NEW ids \in SUBSET Ids, Unique(d.events)
  PROVE  /\ InferRun(d, ids) \in RunIds
         /\ InferRun(d, ids) # NoRun =>
              \A e \in d.events : e.id \in ids => e.run \in {InferRun(d, ids), NoRun}
<1> DEFINE E == {e \in d.events : e.id \in ids}
           R == {e.run : e \in E} \ {NoRun}
           q == CHOOSE r \in R : TRUE
<1>1. InferRun(d, ids) = IF Cardinality(R) = 1 THEN q ELSE NoRun
  BY DEF InferRun
<1>2. R \subseteq Runs
  BY RowUpdate DEF EventRow, RunIds
<1>3. CASE Cardinality(R) = 1
  <2>1. R # {}
    BY <1>3, FS_EmptySet
  <2>2. q \in R
    BY <2>1
  <2>3. IsFiniteSet(R)
    <3>1. IsFiniteSet(ids)
      <4>1. IsFiniteSet(1 .. MaxEvents)
        BY IdsAreNat, FS_Interval
      <4> QED
        BY <4>1, FS_Subset DEF Ids
    <3> DEFINE f == [n \in ids |-> (CHOOSE e \in E : e.id = n).run]
               Im == {f[n] : n \in ids}
    <3>2. IsFiniteSet(Im)
      <4>1. f \in Surjection(ids, Im)
        BY DEF Surjection
      <4> HIDE DEF f, Im
      <4> QED
        BY <3>1, <4>1, FS_Surjection
    <3>3. R \subseteq Im
      <4>1. ASSUME NEW e \in E PROVE e.run \in Im
        <5>1. (CHOOSE o \in E : o.id = e.id) = e
          BY DEF Unique
        <5> QED
          BY <5>1
      <4> QED
        BY <4>1
    <3> QED
      BY <3>2, <3>3, FS_Subset
  <2>4. ASSUME NEW r \in R PROVE r = q
    <3> HIDE DEF R, q
    <3>1. IsFiniteSet(R \ {q}) /\ Cardinality(R \ {q}) = 0
      BY <1>3, <2>2, <2>3, FS_RemoveElement
    <3>2. R \ {q} = {}
      BY <3>1, FS_EmptySet
    <3> QED
      BY <3>2
  <2> QED
    BY <1>1, <1>2, <1>3, <2>2, <2>4 DEF RunIds
<1>4. CASE Cardinality(R) # 1
  BY <1>1, <1>4 DEF RunIds
<1> QED
  BY <1>3, <1>4

-----------------------------------------------------------------------------
(* What a step makes of its ingester's locals.                             *)
Ats == {"idle", "reading", "edges", "cause", "link", "readback", "rebuild", "windows"}
Like(j, k) == j.at = k.at /\ j.ids = k.ids /\ j.hand = k.hand /\ j.cause = k.cause
              /\ j.tally = k.tally

LEMMA JobUpdate ==
  ASSUME NEW j \in Job, NEW a \in Ats
  PROVE  /\ [j EXCEPT !.at = a] \in Job
         /\ Like([j EXCEPT !.at = a],
                 [at |-> a, ids |-> j.ids, hand |-> j.hand, cause |-> j.cause, tally |-> j.tally])
         /\ \A h \in EventRow \cup {NoHand} :
              /\ [j EXCEPT !.at = a, !.hand = h] \in Job
              /\ Like([j EXCEPT !.at = a, !.hand = h],
                      [at |-> a, ids |-> j.ids, hand |-> h, cause |-> j.cause, tally |-> j.tally])
         /\ \A c \in Ids \cup {NoEvent} :
              /\ [j EXCEPT !.at = a, !.cause = c] \in Job
              /\ Like([j EXCEPT !.at = a, !.cause = c],
                      [at |-> a, ids |-> j.ids, hand |-> j.hand, cause |-> c, tally |-> j.tally])
         /\ \A h \in EventRow \cup {NoHand}, ids \in SUBSET Ids :
              /\ [j EXCEPT !.at = a, !.hand = h, !.ids = ids] \in Job
              /\ Like([j EXCEPT !.at = a, !.hand = h, !.ids = ids],
                      [at |-> a, ids |-> ids, hand |-> h, cause |-> j.cause, tally |-> j.tally])
         /\ \A t \in Tallies :
              /\ [j EXCEPT !.at = a, !.tally = t] \in Job
              /\ Like([j EXCEPT !.at = a, !.tally = t],
                      [at |-> a, ids |-> j.ids, hand |-> j.hand, cause |-> j.cause, tally |-> t])
<1>1. [j EXCEPT !.at = a] \in Job
  BY DEF Job, Ats
<1>2. Like([j EXCEPT !.at = a],
         [at |-> a, ids |-> j.ids, hand |-> j.hand, cause |-> j.cause, tally |-> j.tally])
  BY DEF Job, Ats, Like
<1>3. ASSUME NEW h \in EventRow \cup {NoHand} PROVE [j EXCEPT !.at = a, !.hand = h] \in Job
  BY DEF Job, Ats
<1>4. ASSUME NEW h \in EventRow \cup {NoHand}
      PROVE Like([j EXCEPT !.at = a, !.hand = h],
         [at |-> a, ids |-> j.ids, hand |-> h, cause |-> j.cause, tally |-> j.tally])
  BY DEF Job, Ats, Like
<1>5. ASSUME NEW c \in Ids \cup {NoEvent} PROVE [j EXCEPT !.at = a, !.cause = c] \in Job
  BY DEF Job, Ats
<1>6. ASSUME NEW c \in Ids \cup {NoEvent}
      PROVE Like([j EXCEPT !.at = a, !.cause = c],
         [at |-> a, ids |-> j.ids, hand |-> j.hand, cause |-> c, tally |-> j.tally])
  BY DEF Job, Ats, Like
<1>7. ASSUME NEW h \in EventRow \cup {NoHand}, NEW ids \in SUBSET Ids
      PROVE [j EXCEPT !.at = a, !.hand = h, !.ids = ids] \in Job
  BY DEF Job, Ats
<1>8. ASSUME NEW h \in EventRow \cup {NoHand}, NEW ids \in SUBSET Ids
      PROVE Like([j EXCEPT !.at = a, !.hand = h, !.ids = ids],
         [at |-> a, ids |-> ids, hand |-> h, cause |-> j.cause, tally |-> j.tally])
  BY DEF Job, Ats, Like
<1>9. ASSUME NEW t \in Tallies PROVE [j EXCEPT !.at = a, !.tally = t] \in Job
  BY DEF Job, Ats
<1>10. ASSUME NEW t \in Tallies
      PROVE Like([j EXCEPT !.at = a, !.tally = t],
         [at |-> a, ids |-> j.ids, hand |-> j.hand, cause |-> j.cause, tally |-> t])
  BY DEF Job, Ats, Like
<1> QED
  BY <1>1, <1>2, <1>3, <1>4, <1>5, <1>6, <1>7, <1>8, <1>9, <1>10

LEMMA NoJobIs ==
  /\ NoJob \in Job /\ NoJob.at = "idle" /\ NoJob.ids = {} /\ NoJob.hand = NoHand
  /\ NoJob.cause = NoEvent /\ DOMAIN NoJob.tally = {}
<1>1. <<>> \in Tallies
  BY DEF Tallies
<1>2. NoJob \in Job
  BY <1>1 DEF NoJob, Job
<1> QED
  BY <1>2 DEF NoJob

NewJob(i, a, ids, h, c, t) ==
  /\ job' \in [Ingesters -> Job] /\ \A j \in Ingesters \ {i} : job'[j] = job[j]
  /\ job'[i].at = a /\ job'[i].ids = ids /\ job'[i].hand = h /\ job'[i].cause = c
  /\ job'[i].tally = t

LEMMA NewJobIs ==
  ASSUME TypeInv, NEW i \in Ingesters, NEW k \in Job, job' = [job EXCEPT ![i] = k]
  PROVE  NewJob(i, k.at, k.ids, k.hand, k.cause, k.tally)
<1>1. job'[i] = k /\ job' \in [Ingesters -> Job] /\ \A j \in Ingesters \ {i} : job'[j] = job[j]
  BY DEF TypeInv
<1> QED
  BY <1>1 DEF NewJob

LEMMA MovesTo ==
  ASSUME TypeInv, NEW i \in Ingesters, NEW a \in Ats
  PROVE  /\ job' = [job EXCEPT ![i].at = a] =>
              NewJob(i, a, job[i].ids, job[i].hand, job[i].cause, job[i].tally)
         /\ \A h \in EventRow \cup {NoHand} :
              job' = [job EXCEPT ![i].at = a, ![i].hand = h] =>
                NewJob(i, a, job[i].ids, h, job[i].cause, job[i].tally)
         /\ \A c \in Ids \cup {NoEvent} :
              job' = [job EXCEPT ![i].at = a, ![i].cause = c] =>
                NewJob(i, a, job[i].ids, job[i].hand, c, job[i].tally)
         /\ \A h \in EventRow \cup {NoHand}, ids \in SUBSET Ids :
              job' = [job EXCEPT ![i].at = a, ![i].hand = h, ![i].ids = ids] =>
                NewJob(i, a, ids, h, job[i].cause, job[i].tally)
         /\ \A t \in Tallies :
              job' = [job EXCEPT ![i].at = a, ![i].tally = t] =>
                NewJob(i, a, job[i].ids, job[i].hand, job[i].cause, t)
<1> DEFINE j == job[i]
<1>1. j \in Job
  BY DEF TypeInv
<1>2. ASSUME NEW k \in Job, job' = [job EXCEPT ![i] = k], NEW ids, NEW h, NEW c, NEW t,
             Like(k, [at |-> a, ids |-> ids, hand |-> h, cause |-> c, tally |-> t])
      PROVE  NewJob(i, a, ids, h, c, t)
  <2>1. k.at = a /\ k.ids = ids /\ k.hand = h /\ k.cause = c /\ k.tally = t
    BY <1>2 DEF Like
  <2> QED
    BY <1>2, <2>1, NewJobIs
<1>3. ASSUME job' = [job EXCEPT ![i].at = a]
      PROVE  NewJob(i, a, j.ids, j.hand, j.cause, j.tally)
  <2>1. job' = [job EXCEPT ![i] = [j EXCEPT !.at = a]]
    BY <1>3 DEF TypeInv
  <2> QED
    BY <1>1, <1>2, <2>1, JobUpdate
<1>4. ASSUME NEW h \in EventRow \cup {NoHand}, job' = [job EXCEPT ![i].at = a, ![i].hand = h]
      PROVE  NewJob(i, a, j.ids, h, j.cause, j.tally)
  <2>1. job' = [job EXCEPT ![i] = [j EXCEPT !.at = a, !.hand = h]]
    BY <1>4 DEF TypeInv
  <2> QED
    BY <1>1, <1>2, <2>1, JobUpdate
<1>5. ASSUME NEW c \in Ids \cup {NoEvent}, job' = [job EXCEPT ![i].at = a, ![i].cause = c]
      PROVE  NewJob(i, a, j.ids, j.hand, c, j.tally)
  <2>1. job' = [job EXCEPT ![i] = [j EXCEPT !.at = a, !.cause = c]]
    BY <1>5 DEF TypeInv
  <2> QED
    BY <1>1, <1>2, <2>1, JobUpdate
<1>6. ASSUME NEW h \in EventRow \cup {NoHand}, NEW ids \in SUBSET Ids,
             job' = [job EXCEPT ![i].at = a, ![i].hand = h, ![i].ids = ids]
      PROVE  NewJob(i, a, ids, h, j.cause, j.tally)
  <2>1. job' = [job EXCEPT ![i] = [j EXCEPT !.at = a, !.hand = h, !.ids = ids]]
    BY <1>6 DEF TypeInv
  <2> QED
    BY <1>1, <1>2, <2>1, JobUpdate
<1>7. ASSUME NEW t \in Tallies, job' = [job EXCEPT ![i].at = a, ![i].tally = t]
      PROVE  NewJob(i, a, j.ids, j.hand, j.cause, t)
  <2>1. job' = [job EXCEPT ![i] = [j EXCEPT !.at = a, !.tally = t]]
    BY <1>7 DEF TypeInv
  <2> QED
    BY <1>1, <1>2, <2>1, JobUpdate
<1> QED
  BY <1>3, <1>4, <1>5, <1>6, <1>7

(* One after the other, what the steps of an ingester do.                  *)
LEMMA BeginIs ==
  ASSUME TypeInv, LineInv, NEW i \in Ingesters, Begin(i)
  PROVE  /\ job[i].at = "idle" /\ job[i] = NoJob
         /\ NewJob(i, "reading", {}, NoHand, NoEvent, job[i].tally)
<1>1. job[i].at = "idle" /\ job[i] = NoJob /\ job[i] \in Job
  BY DEF Begin, LineInv, LineOf, TypeInv
<1>2. job' = [job EXCEPT ![i].at = "reading"] /\ "reading" \in Ats
  BY DEF Begin, Moves, Ats
<1>3. NewJob(i, "reading", job[i].ids, job[i].hand, job[i].cause, job[i].tally)
  BY <1>2, MovesTo
<1> QED
  BY <1>1, <1>3, NoJobIs

LEMMA StoreIs ==
  ASSUME TypeInv, LineInv, NEW i \in Ingesters, NEW type \in Types, NEW match \in RunIds,
         Store(i, type, match)
  PROVE  \E e \in EventRow :
           /\ job[i].at = "reading" /\ clock \in Ids /\ e.id = clock /\ clock' = clock + 1
           /\ e.run \in Scope(i) \cup {NoRun}
           /\ Writes(i, [Sees(i) EXCEPT !.events = Sees(i).events \cup {e}])
           /\ NewJob(i, IF e.run = NoRun THEN "readback" ELSE "edges", job[i].ids, e,
                     NoEvent, job[i].tally)
<1> DEFINE run == IF Configured(i) = NoRun THEN match ELSE Configured(i)
           e == [id |-> clock, type |-> type, run |-> run, match |-> match]
           a == IF run = NoRun THEN "readback" ELSE "edges"
<1>1. clock \in Ids /\ job[i].at = "reading" /\ clock' = clock + 1
  BY IdsAreNat DEF Store, TypeInv, Ids
<1>2. run \in Scope(i) \cup {NoRun} /\ run \in RunIds
  BY ScopeIsRuns DEF RunIds
<1> HIDE DEF run
<1>3. e \in EventRow /\ e.id = clock /\ e.run = run
  BY <1>1, <1>2 DEF EventRow
<1>4. /\ Writes(i, [Sees(i) EXCEPT !.events = @ \cup {e}])
      /\ job' = [job EXCEPT ![i].at = a, ![i].hand = e]
  BY DEF Store, run
<1> HIDE DEF e
<1>5. job[i] \in Job /\ a \in Ats
  BY DEF TypeInv, Ats
<1>8. job[i].cause = NoEvent
  BY <1>1 DEF LineInv, LineOf
<1>9. NewJob(i, a, job[i].ids, e, NoEvent, job[i].tally)
  BY <1>3, <1>4, <1>5, <1>8, MovesTo
<1> QED
  BY <1>1, <1>2, <1>3, <1>4, <1>9

LEMMA EdgeIs ==
  ASSUME TypeInv, LineInv, NEW i \in Ingesters, ScopeEdges(i) \/ LinkCause(i)
  PROVE  /\ job[i].at \in {"edges", "link"} /\ job[i].hand \in EventRow
         /\ \/ db' = db /\ draft' = draft
            \/ \E g \in EdgeRow :
                 /\ Writes(i, [Sees(i) EXCEPT !.edges = Sees(i).edges \cup {g}])
                 /\ g.from = job[i].cause /\ g.to = job[i].hand.id
                 /\ g.kind = "call" => job[i].at = "link" /\ job[i].hand.type = "response"
         /\ \E a \in {"readback", "cause"} :
              /\ NewJob(i, a, job[i].ids, job[i].hand, NoEvent, job[i].tally)
              /\ a = "cause" => job[i].at = "edges" /\ job[i].hand.type # "request"
<1>1. /\ job[i] \in Job /\ job[i].at \in {"edges", "link"} /\ job[i].hand # NoHand
      /\ job[i].at = "link" => job[i].hand.type # "request" /\ job[i].cause # NoEvent
      /\ job[i].at = "edges" => job[i].cause = NoEvent
  BY DEF ScopeEdges, LinkCause, LineInv, LineOf, TypeInv, Handles
<1>2. job[i].hand \in EventRow /\ job[i].hand.id \in Ids /\ job[i].cause \in Ids \cup {NoEvent}
  BY <1>1 DEF Job, EventRow
<1>3. CASE ScopeEdges(i)
  <2> DEFINE g == [kind |-> "scope", from |-> NoEvent, to |-> job[i].hand.id]
             a == IF job[i].hand.type = "request" THEN "readback" ELSE "cause"
  <2>1. job[i].at = "edges" /\ job[i].cause = NoEvent
    BY <1>1, <1>3 DEF ScopeEdges
  <2>2. g \in EdgeRow /\ g.from = job[i].cause /\ g.to = job[i].hand.id /\ g.kind # "call"
    BY <1>2, <2>1 DEF EdgeRow
  <2> HIDE DEF g
  <2>3. \/ db' = db /\ draft' = draft
        \/ Writes(i, [Sees(i) EXCEPT !.edges = Sees(i).edges \cup {g}])
    BY <1>3 DEF ScopeEdges, AddEdge, g
  <2>4. job' = [job EXCEPT ![i].at = a] /\ a \in Ats
    BY <1>3 DEF ScopeEdges, Moves, Ats
  <2>6. NewJob(i, a, job[i].ids, job[i].hand, NoEvent, job[i].tally)
    BY <2>1, <2>4, MovesTo
  <2> QED
    BY <1>1, <1>2, <2>1, <2>2, <2>3, <2>6
<1>4. CASE LinkCause(i)
  <2> DEFINE kind == IF job[i].hand.type = "action" THEN "caused" ELSE "call"
             g == [kind |-> kind, from |-> job[i].cause, to |-> job[i].hand.id]
  <2>1. job[i].at = "link" /\ job[i].hand.type # "request"
    BY <1>1, <1>4 DEF LinkCause
  <2>2. job[i].hand.type \in Types
    BY <1>2 DEF EventRow
  <2>3. g \in EdgeRow /\ g.from = job[i].cause /\ g.to = job[i].hand.id
    BY <1>2 DEF EdgeRow
  <2>4. g.kind = "call" => job[i].hand.type = "response"
    BY <2>1, <2>2 DEF Types
  <2> HIDE DEF g
  <2>5. \/ db' = db /\ draft' = draft
        \/ Writes(i, [Sees(i) EXCEPT !.edges = Sees(i).edges \cup {g}])
    BY <1>4 DEF LinkCause, AddEdge, g
  <2>6. job' = [job EXCEPT ![i].at = "readback", ![i].cause = NoEvent]
    BY <1>4 DEF LinkCause
  <2>8. "readback" \in Ats
    BY DEF Ats
  <2>9. NewJob(i, "readback", job[i].ids, job[i].hand, NoEvent, job[i].tally)
    BY <2>6, <2>8, MovesTo
  <2> QED
    BY <1>1, <1>2, <2>1, <2>3, <2>4, <2>5, <2>9
<1> QED
  BY <1>3, <1>4

LEMMA FindCauseIs ==
  ASSUME TypeInv, LineInv, NEW i \in Ingesters, FindCause(i)
  PROVE  /\ job[i].at = "cause" /\ job[i].hand \in EventRow /\ job[i].hand.type # "request"
         /\ \/ NewJob(i, "readback", job[i].ids, job[i].hand, NoEvent, job[i].tally)
            \/ \E c \in Ids :
                 /\ NewJob(i, "link", job[i].ids, job[i].hand, c, job[i].tally)
                 /\ \E e \in Sees(i).events :
                      /\ e.id = c /\ e.run = job[i].hand.run
                      /\ job[i].hand.type = "response" => e.type = "request"
                 /\ job[i].hand.type = "response" => ~HasCall(Sees(i), c)
<1> DEFINE t == IF job[i].hand.type = "action" THEN "response" ELSE "request"
           c == Recent(Sees(i), t, job[i].hand.run, job[i].hand.id)
<1>1. /\ job[i] \in Job /\ job[i].at = "cause" /\ job[i].hand # NoHand
      /\ job[i].hand.type # "request" /\ job[i].cause = NoEvent
  BY DEF FindCause, LineInv, LineOf, TypeInv, Handles
<1>2. job[i].hand \in EventRow
  BY <1>1 DEF Job
<1>3. IF c = NoEvent \/ (job[i].hand.type = "response" /\ HasCall(Sees(i), c))
      THEN job' = [job EXCEPT ![i].at = "readback"]
      ELSE job' = [job EXCEPT ![i].at = "link", ![i].cause = c]
  BY DEF FindCause, Moves
<1>4. "readback" \in Ats /\ "link" \in Ats /\ Sees(i) \in Rows
  BY OpenIs DEF Ats
<1> HIDE DEF c
<1>5. CASE job' = [job EXCEPT ![i].at = "readback"]
  <2>2. NewJob(i, "readback", job[i].ids, job[i].hand, NoEvent, job[i].tally)
    BY <1>1, <1>4, <1>5, MovesTo
  <2> QED
    BY <1>1, <1>2, <2>2
<1>6. CASE /\ c # NoEvent /\ (job[i].hand.type = "response" => ~HasCall(Sees(i), c))
           /\ job' = [job EXCEPT ![i].at = "link", ![i].cause = c]
  <2>1. \E e \in Sees(i).events : e.id = c /\ e.run = job[i].hand.run /\ e.type = t
    BY <1>4, <1>6, RecentIs DEF c
  <2>2. c \in Ids
    BY <1>4, <2>1, RowUpdate DEF EventRow
  <2>4. NewJob(i, "link", job[i].ids, job[i].hand, c, job[i].tally)
    BY <1>4, <1>6, <2>2, MovesTo
  <2> QED
    BY <1>1, <1>2, <1>6, <2>1, <2>2, <2>4
<1> QED
  BY <1>3, <1>5, <1>6

LEMMA ReadBackIs ==
  ASSUME TypeInv, LineInv, NEW i \in Ingesters, ReadBack(i)
  PROVE  /\ job[i].at = "readback" /\ job[i].hand \in EventRow
         /\ NewJob(i, "reading", IF job[i].hand.id \in Stored(Sees(i))
                                 THEN job[i].ids \cup {job[i].hand.id} ELSE job[i].ids,
                   NoHand, NoEvent, job[i].tally)
<1> DEFINE ids == IF job[i].hand.id \in Stored(Sees(i))
                  THEN job[i].ids \cup {job[i].hand.id} ELSE job[i].ids
<1>1. job[i] \in Job /\ job[i].at = "readback" /\ job[i].hand # NoHand /\ job[i].cause = NoEvent
  BY DEF ReadBack, LineInv, LineOf, TypeInv, Handles
<1>2. job[i].hand \in EventRow /\ ids \in SUBSET Ids
  BY <1>1 DEF Job, EventRow
<1>3. job' = [job EXCEPT ![i].at = "reading", ![i].hand = NoHand, ![i].ids = ids]
  BY DEF ReadBack, TypeInv
<1>4. "reading" \in Ats
  BY DEF Ats
<1> HIDE DEF ids
<1>5. NewJob(i, "reading", ids, NoHand, NoEvent, job[i].tally)
  BY <1>1, <1>2, <1>3, <1>4, MovesTo
<1> QED
  BY <1>1, <1>2, <1>5 DEF ids

LEMMA DropIs ==
  ASSUME TypeInv, LineInv, NEW i \in Ingesters, DropUncorrelated(i)
  PROVE  /\ job[i].at = "readback" /\ job[i].hand \in EventRow /\ i \notin Transactional
         /\ Writes(i, [Sees(i) EXCEPT !.events = Sees(i).events \ {job[i].hand}])
         /\ dropped' = dropped \cup {job[i].hand.id}
         /\ NewJob(i, "reading", job[i].ids, NoHand, NoEvent, job[i].tally)
<1>1. job[i] \in Job /\ job[i].at = "readback" /\ job[i].hand # NoHand /\ job[i].cause = NoEvent
  BY DEF DropUncorrelated, LineInv, LineOf, TypeInv, Handles
<1>2. job[i].hand \in EventRow /\ i \notin Transactional
  BY <1>1, IngestAssumption DEF Job, DropUncorrelated, Drops
<1>3. job' = [job EXCEPT ![i].at = "reading", ![i].hand = NoHand] /\ "reading" \in Ats
  BY DEF DropUncorrelated, Ats
<1>4. NewJob(i, "reading", job[i].ids, NoHand, NoEvent, job[i].tally)
  BY <1>1, <1>3, MovesTo
<1> QED
  BY <1>1, <1>2, <1>4 DEF DropUncorrelated

(* In either case the rows are committed as the ingester saw them.         *)
LEMMA PersistIs ==
  ASSUME TypeInv, LineInv, Unique(Known), NEW i \in Ingesters, PersistBatch(i)
  PROVE  /\ job[i].at = "reading" /\ job[i].hand = NoHand
         /\ draft.by \in {NoOne, i} /\ draft' = NoDraft
         /\ \E b \in BatchRow :
              b.ids = job[i].ids /\ db' = [Sees(i) EXCEPT !.batches = Sees(i).batches \cup {b}]
         /\ NewJob(i, "rebuild", job[i].ids, NoHand, NoEvent, job[i].tally)
<1> DEFINE d == Sees(i)
           b == [run |-> BatchRun(i, d), ids |-> job[i].ids]
<1>1. /\ job[i] \in Job /\ job[i].at = "reading" /\ job[i].hand = NoHand
      /\ job[i].cause = NoEvent
  BY DEF PersistBatch, LineInv, LineOf, TypeInv, Handles
<1>2. d \in Rows /\ Unique(d.events) /\ job[i].ids \in SUBSET Ids
  BY <1>1, OpenIs DEF Unique, Known, Sees, Job
<1>3. b \in BatchRow
  <2>1. BatchRun(i, d) \in RunIds
    BY <1>2, InferRunIs, ScopeIsRuns DEF BatchRun, RunIds
  <2> QED
    BY <1>2, <2>1 DEF BatchRow
<1>4. draft.by \in {NoOne, i} /\ draft' = NoDraft
      /\ db' = [d EXCEPT !.batches = d.batches \cup {b}]
  <2>1. CASE i \in Transactional
    BY <2>1 DEF PersistBatch, MayWrite
  <2>2. CASE i \notin Transactional
    <3>1. Writes(i, [d EXCEPT !.batches = d.batches \cup {b}])
      BY <2>2 DEF PersistBatch
    <3> QED
      BY <2>2, <3>1, WriteIs DEF NoDraft
  <2> QED
    BY <2>1, <2>2
<1>5. job' = [job EXCEPT ![i].at = "rebuild"] /\ "rebuild" \in Ats
  BY DEF PersistBatch, Moves, Ats
<1>6. NewJob(i, "rebuild", job[i].ids, NoHand, NoEvent, job[i].tally)
  BY <1>1, <1>5, MovesTo
<1> QED
  BY <1>1, <1>3, <1>4, <1>6

LEMMA ReadEventsIs ==
  ASSUME TypeInv, LineInv, Unique(Known), NEW i \in Ingesters, ReadEvents(i)
  PROVE  /\ job[i].at = "rebuild" /\ job[i].hand = NoHand /\ Sees(i) = db
         /\ \E R \in SUBSET Scope(i) :
              /\ shaken' = shaken \ (R \ Overlaps(i))
              /\ NewJob(i, "windows", job[i].ids, NoHand, NoEvent, [q \in R |-> Tally(db, q)])
              /\ \A r \in Scope(i) \ R, e \in db.events : e.id \in job[i].ids => e.run # r
<1> DEFINE r == IF Configured(i) # NoRun THEN Configured(i)
                ELSE IF job[i].ids \subseteq Stored(db) THEN InferRun(db, job[i].ids) ELSE NoRun
           R == IF r = NoRun THEN Runs ELSE {r}
           t == [q \in R |-> Tally(db, q)]
<1>1. /\ job[i] \in Job /\ job[i].at = "rebuild" /\ job[i].hand = NoHand
      /\ job[i].cause = NoEvent /\ draft.by # i
  BY DEF ReadEvents, LineInv, LineOf, TypeInv, Handles
<1>2. db \in Rows /\ Unique(db.events) /\ job[i].ids \in SUBSET Ids /\ Sees(i) = db
  BY <1>1 DEF TypeInv, Unique, Known, Job, Sees
<1>3. r \in RunIds /\ (r # NoRun => r \in Runs)
  BY <1>2, InferRunIs, ScopeIsRuns DEF RunIds
<1>4. R \subseteq Scope(i)
  BY <1>3, ScopeIsRuns
<1>5. ASSUME NEW q \in Scope(i) \ R, NEW e \in db.events, e.id \in job[i].ids
      PROVE  e.run # q
  <2>1. r # NoRun /\ q # r /\ q # NoRun
    BY <1>3, ScopeIsRuns
  <2>2. Configured(i) = NoRun
    BY <2>1, ScopeIsRuns
  <2>3. r = InferRun(db, job[i].ids)
    BY <2>1, <2>2
  <2> HIDE DEF r
  <2> QED
    BY <1>2, <1>5, <2>1, <2>3, InferRunIs
<1>6. shaken' = shaken \ (R \ Overlaps(i)) /\ job' = [job EXCEPT ![i].at = "windows", ![i].tally = t]
  BY DEF ReadEvents
<1>7. t \in Tallies /\ "windows" \in Ats
  <2>1. R \in SUBSET Runs
    BY <1>4, ScopeIsRuns
  <2> HIDE DEF R
  <2>2. t \in {[q \in Q |-> Tally(d, q)] : Q \in SUBSET Runs, d \in Rows}
    BY <1>2, <2>1
  <2> QED
    BY <2>2 DEF Tallies, Ats
<1> HIDE DEF t
<1>8. NewJob(i, "windows", job[i].ids, NoHand, NoEvent, t)
  BY <1>1, <1>6, <1>7, MovesTo
<1> QED
  BY <1>1, <1>2, <1>4, <1>5, <1>6, <1>8 DEF t

LEMMA EndIs ==
  ASSUME TypeInv, LineInv, NEW i \in Ingesters, WriteWindows(i) \/ Abandon(i)
  PROVE  /\ job[i].at # "idle" /\ (WriteWindows(i) => draft' = draft /\ ~Open)
         /\ job' = [job EXCEPT ![i] = NoJob]
         /\ NewJob(i, "idle", {}, NoHand, NoEvent, NoJob.tally)
         /\ db' = db /\ draft' \in {draft, NoDraft} /\ draft'.by # i
         /\ \A j \in Ingesters : Sees(j)' = IF j = i THEN db ELSE Sees(j)
<1>1. job' = [job EXCEPT ![i] = NoJob] /\ db' = db /\ job[i].at # "idle"
  BY DEF WriteWindows, Abandon
<1>2. NewJob(i, "idle", {}, NoHand, NoEvent, NoJob.tally)
  BY <1>1, NoJobIs, NewJobIs
<1>3. draft' \in {draft, NoDraft} /\ (draft' # draft => draft.by = i) /\ draft'.by # i
      /\ (WriteWindows(i) => draft' = draft /\ ~Open)
  BY IngestAssumption DEF WriteWindows, Abandon, NoDraft, LineInv, LineOf, Handles, Open, MayWrite
<1>4. ASSUME NEW j \in Ingesters PROVE Sees(j)' = IF j = i THEN db ELSE Sees(j)
  BY <1>1, <1>3, IngestAssumption DEF Sees, NoDraft
<1> QED
  BY <1>1, <1>2, <1>3, <1>4

(* Pruning and evaluating take events away, or note a decision.            *)
Outside == PruneRawEvents \/ EvaluateEvent
LEMMA OutsideIs ==
  ASSUME TypeInv, Outside
  PROVE  /\ job' = job /\ draft' = draft /\ windows' = windows /\ clock' = clock
         /\ raced' = raced /\ dropped' = dropped /\ faults' = faults
         /\ overlap' \in BOOLEAN /\ (overlap => overlap')
         /\ prune' \in [left : SUBSET Ids, victim : Ids \cup {NoEvent}]
         /\ judged' \in Ids \cup {NoEvent}
         /\ db' \in Rows /\ (db' # db => ~Open)
         /\ db'.events \subseteq db.events /\ db'.edges = db.edges /\ db'.batches = db.batches
         /\ shaken \subseteq shaken' /\ shaken' \subseteq Runs
         /\ \A r \in Runs \ shaken' : Of(db', r) = Of(db, r)
<1>1. db \in Rows /\ prune \in [left : SUBSET Ids, victim : Ids \cup {NoEvent}] /\ NoEvent \notin Ids
  BY IdsAreNat DEF TypeInv
<1>2. ASSUME NEW cutoff \in 2 .. clock, PruneBegin(cutoff)
      PROVE  prune' \in [left : SUBSET Ids, victim : Ids \cup {NoEvent}] /\ overlap' \in BOOLEAN
             /\ (overlap => overlap')
  <2>1. \A E \in SUBSET EventRow : {e.id : e \in E} \in SUBSET Ids
    BY DEF EventRow
  <2>2. {e \in db.events : Lexical(e.id) < Lexical(cutoff)} \in SUBSET EventRow
    BY <1>1, RowUpdate
  <2>3. {e.id : e \in {e \in db.events : Lexical(e.id) < Lexical(cutoff)}} \in SUBSET Ids
    BY <2>1, <2>2
  <2> QED
    BY <1>1, <1>2, <2>3 DEF PruneBegin, NoPrune, TypeInv
<1>3. ASSUME NEW cutoff \in 2 .. clock, PruneBegin(cutoff)
      PROVE  db' = db /\ shaken' = shaken
  BY <1>3 DEF PruneBegin
<1>4. ASSUME NEW id \in Ids, PruneCheck(id)
      PROVE  /\ prune' \in [left : SUBSET Ids, victim : Ids \cup {NoEvent}]
             /\ db' = db /\ shaken' = shaken /\ overlap' = overlap
  BY <1>1, <1>4 DEF PruneCheck
<1>5. ASSUME PruneDelete
      PROVE  /\ prune' \in [left : SUBSET Ids, victim : Ids \cup {NoEvent}]
             /\ overlap' = overlap /\ db' \in Rows /\ ~Open
             /\ db'.events \subseteq db.events /\ db'.edges = db.edges /\ db'.batches = db.batches
             /\ shaken \subseteq shaken' /\ shaken' \subseteq Runs
             /\ \A r \in Runs \ shaken' : Of(db', r) = Of(db, r)
  <2> DEFINE E == {e \in db.events : e.id # prune.victim}
             S == {e.run : e \in {e \in db.events : e.id = prune.victim}} \ {NoRun}
  <2>1. E \in SUBSET EventRow /\ S \subseteq Runs
    BY <1>1, RowUpdate DEF EventRow, RunIds
  <2>2. db' = [db EXCEPT !.events = E] /\ shaken' = shaken \cup S /\ overlap' = overlap
    BY <1>5 DEF PruneDelete
  <2>3. /\ db' \in Rows /\ db'.events = E /\ db'.edges = db.edges /\ db'.batches = db.batches
    BY <1>1, <2>1, <2>2, RowUpdate
  <2>4. prune' \in [left : SUBSET Ids, victim : Ids \cup {NoEvent}] /\ ~Open
    BY <1>1, <1>5, OpenIs DEF PruneDelete
  <2>5. ASSUME NEW r \in Runs \ shaken' PROVE Of(db', r) = Of(db, r)
    BY <2>2, <2>3, IngestAssumption DEF Of
  <2> QED
    BY <2>1, <2>2, <2>3, <2>4, <2>5 DEF TypeInv
<1>6. ASSUME NEW id \in Ids, JudgeRead(id)
      PROVE  /\ judged' \in Ids /\ db' = db /\ shaken' = shaken
             /\ overlap' \in BOOLEAN /\ (overlap => overlap')
  BY <1>6 DEF JudgeRead, TypeInv
<1>7. ASSUME JudgeDecide
      PROVE  /\ judged' = NoEvent /\ overlap' = overlap /\ db' \in Rows /\ ~Open
             /\ db'.events = db.events /\ db'.edges = db.edges /\ db'.batches = db.batches
             /\ shaken' = shaken
  <2>1. db' = [db EXCEPT !.decided = db.decided \cup {judged}] /\ judged \in Ids
    BY <1>7 DEF JudgeDecide, TypeInv
  <2> QED
    BY <1>1, <1>7, <2>1, RowUpdate, OpenIs DEF JudgeDecide
<1>8. \A r : db' = db \/ db'.events = db.events => Of(db', r) = Of(db, r)
  BY DEF Of
<1>9. /\ job' = job /\ draft' = draft /\ windows' = windows /\ clock' = clock
      /\ raced' = raced /\ dropped' = dropped /\ faults' = faults
  BY DEF Outside, PruneRawEvents, EvaluateEvent, PruneBegin, PruneCheck, PruneDelete, JudgeRead,
         JudgeDecide
<1>10. CASE \E cutoff \in 2 .. clock : PruneBegin(cutoff)
  BY <1>1, <1>2, <1>3, <1>8, <1>9, <1>10 DEF TypeInv, PruneBegin
<1>11. CASE \E id \in Ids : PruneCheck(id)
  BY <1>1, <1>4, <1>8, <1>9, <1>11 DEF TypeInv, PruneCheck
<1>12. CASE PruneDelete
  BY <1>5, <1>9, <1>12 DEF TypeInv, PruneDelete
<1>13. CASE \E id \in Ids : JudgeRead(id)
  BY <1>1, <1>6, <1>8, <1>9, <1>13 DEF TypeInv, JudgeRead
<1>14. CASE JudgeDecide
  BY <1>1, <1>7, <1>8, <1>9, <1>14 DEF TypeInv, JudgeDecide
<1> QED
  BY <1>10, <1>11, <1>12, <1>13, <1>14 DEF Outside, PruneRawEvents, EvaluateEvent

-----------------------------------------------------------------------------
(* Types and program counters.                                             *)
DraftType == draft = NoDraft \/ draft \in [by : Transactional, rows : Rows]

LEMMA WriteType ==
  ASSUME TypeInv, NEW i \in Ingesters, NEW d \in Rows, Writes(i, d)
  PROVE  /\ db' \in Rows /\ DraftType'
         /\ draft'.by = i <=> i \in Transactional
         /\ \A j \in Ingesters \ {i} : draft'.by # j
<1>1. CASE i \in Transactional
  <2>1. db' = db /\ draft' = [by |-> i, rows |-> d]
    BY <1>1 DEF Writes
  <2>2. draft'.by = i /\ draft' \in [by : Transactional, rows : Rows]
    BY <1>1, <2>1
  <2> QED
    BY <1>1, <2>1, <2>2 DEF DraftType, TypeInv
<1>2. CASE i \notin Transactional
  BY <1>2, WriteIs, IngestAssumption DEF DraftType, NoDraft
<1> QED
  BY <1>1, <1>2

LEMMA OutsideLine ==
  ASSUME TypeInv, LineInv, Outside
  PROVE  TypeInv' /\ LineInv'
<1>1. LineInv'
  BY OutsideIs DEF LineInv, LineOf
<1> QED
  BY <1>1, OutsideIs DEF TypeInv

OthersDraft(i) == \A j \in Ingesters \ {i} : draft'.by = j <=> draft.by = j

LEMMA OthersLine ==
  ASSUME LineInv, NEW i \in Ingesters, NEW a, NEW ids, NEW h, NEW c, NEW t,
         NewJob(i, a, ids, h, c, t), LineOf(i)', OthersDraft(i)
  PROVE  LineInv'
<1>1. ASSUME NEW j \in Ingesters \ {i} PROVE LineOf(j)'
  <2>1. job'[j] = job[j] /\ (draft'.by = j <=> draft.by = j) /\ LineOf(j)
    BY DEF NewJob, OthersDraft, LineInv
  <2> QED
    BY <2>1 DEF LineOf
<1> QED
  BY <1>1 DEF LineInv

LEMMA WriteDraft ==
  ASSUME TypeInv, NEW i \in Ingesters, NEW d, Writes(i, d)
  PROVE  OthersDraft(i) /\ (draft'.by = i <=> i \in Transactional)
<1>1. draft.by \in {NoOne, i}
  BY DEF Writes, MayWrite
<1>2. CASE i \in Transactional
  <2>1. draft'.by = i
    BY <1>2 DEF Writes
  <2> QED
    BY <1>1, <1>2, <2>1, IngestAssumption DEF OthersDraft
<1>3. CASE i \notin Transactional
  <2>1. draft' = NoDraft /\ draft = NoDraft
    BY <1>3, WriteIs
  <2> QED
    BY <1>3, <2>1, IngestAssumption DEF OthersDraft, NoDraft
<1> QED
  BY <1>2, <1>3

LEMMA QuietType ==
  ASSUME TypeInv, db' \in Rows, DraftType', job' \in [Ingesters -> Job],
         prune' = prune, judged' = judged, clock' \in 1 .. MaxEvents + 1,
         overlap' \in BOOLEAN, raced' \subseteq Runs, shaken' \subseteq Runs
  PROVE  TypeInv'
  BY DEF TypeInv, DraftType

LEMMA IngestLine ==
  ASSUME TypeInv, LineInv, Unique(Known), NEW i \in Ingesters, Ingest(i)
  PROVE  TypeInv' /\ LineInv'
<1>1. /\ db \in Rows /\ DraftType /\ Sees(i) \in Rows /\ clock \in 1 .. MaxEvents + 1
      /\ overlap \in BOOLEAN /\ raced \subseteq Runs /\ shaken \subseteq Runs
      /\ LineOf(i) /\ Scope(i) \subseteq Runs /\ NoRun \notin Scope(i)
  BY OpenIs, ScopeIsRuns DEF TypeInv, LineInv, DraftType
<1>2. draft' = draft => OthersDraft(i) /\ (DraftType => DraftType')
  BY DEF OthersDraft, DraftType
<1>3. CASE Begin(i)
  <2>1. /\ job[i].at = "idle" /\ NewJob(i, "reading", {}, NoHand, NoEvent, job[i].tally)
        /\ db' = db /\ draft' = draft /\ overlap' \in BOOLEAN
        /\ raced' = raced \cup Overlaps(i) /\ shaken' = shaken \cup Overlaps(i)
        /\ prune' = prune /\ judged' = judged /\ clock' = clock
    BY <1>1, <1>3, BeginIs DEF Begin, Pruning
  <2>2. Overlaps(i) \subseteq Runs
    BY <1>1 DEF Overlaps
  <2>3. TypeInv'
    BY <1>1, <1>2, <2>1, <2>2, QuietType DEF NewJob
  <2>4. LineOf(i)'
    BY <1>1, <2>1, IdsAreNat DEF LineOf, NewJob, Handles
  <2> QED
    BY <1>2, <2>1, <2>3, <2>4, OthersLine
<1>4. ASSUME NEW type \in Types, NEW match \in RunIds, Store(i, type, match)
      PROVE  TypeInv' /\ LineInv'
  <2>1. PICK e \in EventRow :
           /\ job[i].at = "reading" /\ clock \in Ids /\ e.id = clock /\ clock' = clock + 1
           /\ e.run \in Scope(i) \cup {NoRun}
           /\ Writes(i, [Sees(i) EXCEPT !.events = Sees(i).events \cup {e}])
           /\ NewJob(i, IF e.run = NoRun THEN "readback" ELSE "edges", job[i].ids, e,
                     NoEvent, job[i].tally)
    BY <1>4, StoreIs
  <2>2. [Sees(i) EXCEPT !.events = Sees(i).events \cup {e}] \in Rows
    BY <1>1, RowUpdate
  <2>3. TypeInv'
    <3>1. db' \in Rows /\ DraftType'
      BY <2>1, <2>2, WriteType
    <3>2. clock' \in 1 .. MaxEvents + 1
      BY <2>1, IdsAreNat DEF Ids
    <3>3. prune' = prune /\ judged' = judged /\ overlap' = overlap /\ raced' = raced
          /\ shaken' = shaken
      BY <1>4 DEF Store
    <3> QED
      BY <1>1, <2>1, <3>1, <3>2, <3>3, QuietType DEF NewJob
  <2>4. OthersDraft(i) /\ (draft'.by = i <=> i \in Transactional)
    BY <2>1, WriteDraft
  <2>5. LineOf(i)'
    BY <1>1, <2>1, <2>4, IdsAreNat DEF LineOf, NewJob, Handles
  <2> QED
    BY <2>1, <2>3, <2>4, <2>5, OthersLine
<1>5. CASE ScopeEdges(i) \/ LinkCause(i)
  <2>1. /\ job[i].at \in {"edges", "link"} /\ job[i].hand \in EventRow
        /\ \/ db' = db /\ draft' = draft
           \/ \E g \in EdgeRow : Writes(i, [Sees(i) EXCEPT !.edges = Sees(i).edges \cup {g}])
    BY <1>5, EdgeIs
  <2>2. PICK a \in {"readback", "cause"} :
              /\ NewJob(i, a, job[i].ids, job[i].hand, NoEvent, job[i].tally)
              /\ a = "cause" => job[i].at = "edges" /\ job[i].hand.type # "request"
    BY <1>5, EdgeIs
  <2>3. /\ db' \in Rows /\ DraftType' /\ OthersDraft(i)
        /\ draft'.by = i <=> i \in Transactional
    <3>1. CASE db' = db /\ draft' = draft
      <4>1. i \in Transactional => draft.by = i
        BY <1>1, <2>1 DEF LineOf, Handles
      <4>2. draft.by = i => i \in Transactional
        BY OpenIs DEF TypeInv
      <4> QED
        BY <1>1, <1>2, <3>1, <4>1, <4>2
    <3>2. ASSUME NEW g \in EdgeRow, Writes(i, [Sees(i) EXCEPT !.edges = Sees(i).edges \cup {g}])
          PROVE  /\ db' \in Rows /\ DraftType' /\ OthersDraft(i)
                 /\ draft'.by = i <=> i \in Transactional
      <4>1. [Sees(i) EXCEPT !.edges = Sees(i).edges \cup {g}] \in Rows
        BY <1>1, RowUpdate
      <4> QED
        BY <3>2, <4>1, WriteType, WriteDraft
    <3> QED
      BY <2>1, <3>1, <3>2
  <2>4. prune' = prune /\ judged' = judged /\ overlap' = overlap /\ raced' = raced
        /\ shaken' = shaken /\ clock' = clock
    BY <1>5 DEF ScopeEdges, LinkCause
  <2>5. TypeInv'
    BY <1>1, <2>2, <2>3, <2>4, QuietType DEF NewJob
  <2>6. LineOf(i)'
    BY <1>1, <2>1, <2>2, <2>3, IdsAreNat DEF LineOf, NewJob, Handles
  <2> QED
    BY <2>2, <2>3, <2>5, <2>6, OthersLine
<1>6. CASE FindCause(i)
  <2>1. PICK a \in {"readback", "link"}, c \in Ids \cup {NoEvent} :
             /\ NewJob(i, a, job[i].ids, job[i].hand, c, job[i].tally)
             /\ a = "link" <=> c # NoEvent
    BY <1>6, FindCauseIs, IdsAreNat
  <2>2. job[i].at = "cause" /\ job[i].hand \in EventRow /\ job[i].hand.type # "request"
    BY <1>6, FindCauseIs
  <2>3. /\ db' = db /\ draft' = draft /\ prune' = prune /\ judged' = judged
        /\ overlap' = overlap /\ raced' = raced /\ shaken' = shaken /\ clock' = clock
    BY <1>6 DEF FindCause
  <2>4. TypeInv'
    BY <1>1, <1>2, <2>1, <2>3, QuietType DEF NewJob
  <2>5. LineOf(i)'
    BY <1>1, <2>1, <2>2, <2>3, IdsAreNat DEF LineOf, NewJob, Handles
  <2> QED
    BY <1>2, <2>1, <2>3, <2>4, <2>5, OthersLine
<1>7. CASE ReadBack(i)
  <2>1. PICK ids \in {job[i].ids, job[i].ids \cup {job[i].hand.id}} :
           NewJob(i, "reading", ids, NoHand, NoEvent, job[i].tally)
    BY <1>7, ReadBackIs
  <2>2. /\ db' = db /\ draft' = draft /\ prune' = prune /\ judged' = judged
        /\ overlap' = overlap /\ raced' = raced /\ shaken' = shaken /\ clock' = clock
    BY <1>7 DEF ReadBack
  <2>3. TypeInv'
    BY <1>1, <1>2, <2>1, <2>2, QuietType DEF NewJob
  <2>4. LineOf(i)'
    BY <1>1, <2>1, <2>2, IdsAreNat DEF LineOf, NewJob, Handles
  <2> QED
    BY <1>2, <2>1, <2>2, <2>3, <2>4, OthersLine
<1>8. CASE DropUncorrelated(i)
  <2>1. /\ i \notin Transactional
        /\ Writes(i, [Sees(i) EXCEPT !.events = Sees(i).events \ {job[i].hand}])
        /\ NewJob(i, "reading", job[i].ids, NoHand, NoEvent, job[i].tally)
    BY <1>8, DropIs
  <2>2. [Sees(i) EXCEPT !.events = Sees(i).events \ {job[i].hand}] \in Rows
    BY <1>1, RowUpdate
  <2>3. prune' = prune /\ judged' = judged /\ overlap' = overlap /\ raced' = raced
        /\ shaken' = shaken /\ clock' = clock
    BY <1>8 DEF DropUncorrelated
  <2>4. /\ db' \in Rows /\ DraftType' /\ OthersDraft(i) /\ draft'.by # i
    BY <2>1, <2>2, WriteType, WriteDraft
  <2>5. TypeInv'
    BY <1>1, <2>1, <2>3, <2>4, QuietType DEF NewJob
  <2>6. LineOf(i)'
    BY <1>1, <2>1, <2>4, IdsAreNat DEF LineOf, NewJob, Handles
  <2> QED
    BY <2>1, <2>4, <2>5, <2>6, OthersLine
<1>9. CASE PersistBatch(i)
  <2>1. PICK b \in BatchRow :
           b.ids = job[i].ids /\ db' = [Sees(i) EXCEPT !.batches = Sees(i).batches \cup {b}]
    BY <1>9, PersistIs
  <2>2. /\ draft.by \in {NoOne, i} /\ draft' = NoDraft
        /\ NewJob(i, "rebuild", job[i].ids, NoHand, NoEvent, job[i].tally)
    BY <1>9, PersistIs
  <2>3. db' \in Rows /\ DraftType' /\ OthersDraft(i) /\ draft'.by # i
    <3>1. db' \in Rows
      BY <1>1, <2>1, RowUpdate
    <3> QED
      BY <2>2, <3>1, IngestAssumption DEF DraftType, OthersDraft, NoDraft
  <2>4. prune' = prune /\ judged' = judged /\ overlap' = overlap /\ raced' = raced
        /\ shaken' = shaken /\ clock' = clock
    BY <1>9 DEF PersistBatch
  <2>5. TypeInv'
    BY <1>1, <2>2, <2>3, <2>4, QuietType DEF NewJob
  <2>6. LineOf(i)'
    BY <1>1, <2>2, <2>3, IdsAreNat DEF LineOf, NewJob, Handles
  <2> QED
    BY <2>2, <2>3, <2>5, <2>6, OthersLine
<1>10. CASE ReadEvents(i)
  <2>1. PICK R \in SUBSET Scope(i) :
              /\ shaken' = shaken \ (R \ Overlaps(i))
              /\ NewJob(i, "windows", job[i].ids, NoHand, NoEvent, [q \in R |-> Tally(db, q)])
    BY <1>10, ReadEventsIs
  <2>2. job[i].at = "rebuild"
    BY <1>10, ReadEventsIs
  <2>3. /\ db' = db /\ draft' = draft /\ prune' = prune /\ judged' = judged
        /\ overlap' = overlap /\ raced' = raced /\ clock' = clock
    BY <1>10 DEF ReadEvents
  <2>4. TypeInv'
    BY <1>1, <1>2, <2>1, <2>3, QuietType DEF NewJob
  <2>5. LineOf(i)'
    BY <1>1, <2>1, <2>2, <2>3, IdsAreNat DEF LineOf, NewJob, Handles
  <2> QED
    BY <1>2, <2>1, <2>3, <2>4, <2>5, OthersLine
<1>11. CASE WriteWindows(i) \/ Abandon(i)
  <2>1. /\ job' = [job EXCEPT ![i] = NoJob]
        /\ NewJob(i, "idle", {}, NoHand, NoEvent, NoJob.tally)
        /\ db' = db /\ draft' \in {draft, NoDraft} /\ draft'.by # i
    BY <1>11, EndIs
  <2>2. DraftType' /\ OthersDraft(i)
    <3>1. draft' # draft => draft.by = i /\ draft' = NoDraft
      BY <1>11 DEF WriteWindows, Abandon
    <3> QED
      BY <1>2, <1>1, <3>1, IngestAssumption DEF DraftType, OthersDraft, NoDraft
  <2>3. prune' = prune /\ judged' = judged /\ overlap' = overlap /\ raced' = raced
        /\ shaken' \subseteq Runs /\ clock' = clock
    BY <1>1, <1>11 DEF WriteWindows, Abandon
  <2>4. TypeInv'
    BY <1>1, <2>1, <2>2, <2>3, QuietType DEF NewJob
  <2>5. job'[i] = NoJob
    BY <2>1 DEF TypeInv
  <2>6. LineOf(i)'
    BY <1>1, <2>1, <2>5, IdsAreNat DEF LineOf, NewJob, Handles
  <2> QED
    BY <2>1, <2>2, <2>4, <2>6, OthersLine
<1> QED
  BY <1>3, <1>4, <1>5, <1>6, <1>7, <1>8, <1>9, <1>10, <1>11 DEF Ingest, RunIds

-----------------------------------------------------------------------------
(* Ids.                                                                    *)
LEMMA SeenIsKnown ==
  ASSUME TypeInv, NEW i \in Ingesters
  PROVE  /\ Sees(i).events \subseteq Known /\ Sees(i).edges \subseteq KnownEdges
         /\ db.events \subseteq Known /\ db.edges \subseteq KnownEdges
         /\ job[i].hand # NoHand => job[i].hand \in Known
         /\ Unique(Known) => Unique(Sees(i).events) /\ Unique(db.events)
BY OpenIs DEF Known, KnownEdges, Unique

(* Nothing is known of that was not known before or just written.          *)
LEMMA KnownWrites ==
  ASSUME TypeInv, NEW i \in Ingesters, NEW d, Writes(i, d),
         NEW a, NEW ids, NEW h, NEW c, NEW t, NewJob(i, a, ids, h, c, t)
  PROVE  /\ Known' \subseteq Known \cup d.events \cup ({h} \ {NoHand})
         /\ KnownEdges' \subseteq KnownEdges \cup d.edges
<1>1. \A j \in Ingesters : job'[j].hand \in {job[j].hand, h}
  BY DEF NewJob
<1>2. {job'[j].hand : j \in Ingesters} \ {NoHand}
        \subseteq ({job[j].hand : j \in Ingesters} \cup {h}) \ {NoHand}
  BY <1>1
<1>3. \/ db' = db /\ draft'.rows = d
      \/ db' = d /\ draft' = NoDraft
  BY WriteIs
<1>4. draft' = NoDraft => ~Open'
  BY DEF Open, NoDraft
<1> QED
  BY <1>2, <1>3, <1>4 DEF Known, KnownEdges

LEMMA KnownQuiet ==
  ASSUME TypeInv, NEW i \in Ingesters, db' = db, draft' \in {draft, NoDraft},
         NEW a, NEW ids, NEW h, NEW c, NEW t, NewJob(i, a, ids, h, c, t)
  PROVE  Known' \subseteq Known \cup ({h} \ {NoHand}) /\ KnownEdges' \subseteq KnownEdges
<1>1. \A j \in Ingesters : job'[j].hand \in {job[j].hand, h}
  BY DEF NewJob
<1>2. {job'[j].hand : j \in Ingesters} \ {NoHand}
        \subseteq ({job[j].hand : j \in Ingesters} \cup {h}) \ {NoHand}
  BY <1>1
<1>3. Open' => Open /\ draft' = draft
  BY DEF Open, NoDraft
<1> QED
  BY <1>2, <1>3 DEF Known, KnownEdges

(* Apart from the event that is being stored under the next id.            *)
Fresh == {e \in EventRow : e.id = clock /\ clock' = clock + 1}
LEMMA IngestKnown ==
  ASSUME TypeInv, LineInv, IdInv, NEW i \in Ingesters, Ingest(i)
  PROVE  /\ clock <= clock'
         /\ \/ Known' \subseteq Known
            \/ \E e \in Fresh : Known' \subseteq Known \cup {e}
         /\ \A g \in KnownEdges' : g \in KnownEdges \/ g.from = job[i].cause
         /\ \A j \in Ingesters \ {i} : job'[j] = job[j]
         /\ job'[i].cause = NoEvent \/ job'[i].cause = job[i].cause
            \/ \E e \in Known : e.id = job'[i].cause
<1>1. /\ db \in Rows /\ Sees(i) \in Rows /\ clock \in Nat /\ job[i] \in Job
      /\ Sees(i).events \subseteq Known /\ Sees(i).edges \subseteq KnownEdges
      /\ job[i].hand # NoHand => job[i].hand \in Known
      /\ Unique(Known) /\ LineOf(i)
  BY OpenIs, SeenIsKnown DEF TypeInv, IdInv, LineInv
<1>2. CASE Begin(i)
  <2>1. /\ NewJob(i, "reading", {}, NoHand, NoEvent, job[i].tally)
        /\ db' = db /\ draft' = draft /\ clock' = clock
    BY <1>2, BeginIs DEF Begin
  <2> QED
    BY <1>1, <2>1, KnownQuiet DEF NewJob
<1>3. ASSUME NEW type \in Types, NEW match \in RunIds, Store(i, type, match)
      PROVE  /\ \E e \in Fresh : Known' \subseteq Known \cup {e}
             /\ clock' = clock + 1 /\ KnownEdges' \subseteq KnownEdges
             /\ job'[i].cause = NoEvent
             /\ \A j \in Ingesters \ {i} : job'[j] = job[j]
  <2>1. PICK e \in EventRow :
           /\ e.id = clock /\ clock' = clock + 1
           /\ Writes(i, [Sees(i) EXCEPT !.events = Sees(i).events \cup {e}])
           /\ NewJob(i, IF e.run = NoRun THEN "readback" ELSE "edges", job[i].ids, e,
                     NoEvent, job[i].tally)
    BY <1>3, StoreIs
  <2> DEFINE d == [Sees(i) EXCEPT !.events = Sees(i).events \cup {e}]
  <2>2. d.events = Sees(i).events \cup {e} /\ d.edges = Sees(i).edges
    BY <1>1, RowUpdate
  <2> HIDE DEF d
  <2>3. Writes(i, d)
    BY <2>1 DEF d
  <2>4. Known' \subseteq Known \cup d.events \cup {e} /\ KnownEdges' \subseteq KnownEdges \cup d.edges
    BY <1>1, <2>1, <2>3, KnownWrites
  <2> QED
    BY <1>1, <2>1, <2>2, <2>4 DEF Fresh, NewJob
<1>4. CASE ScopeEdges(i) \/ LinkCause(i)
  <2>1. PICK a \in {"readback", "cause"} :
              NewJob(i, a, job[i].ids, job[i].hand, NoEvent, job[i].tally)
    BY <1>4, EdgeIs
  <2>2. job[i].hand \in Known /\ clock' = clock
    BY <1>1, <1>4, EdgeIs, IdsAreNat DEF ScopeEdges, LinkCause
  <2>4. ASSUME NEW g \in EdgeRow, g.from = job[i].cause,
               Writes(i, [Sees(i) EXCEPT !.edges = Sees(i).edges \cup {g}])
        PROVE  Known' \subseteq Known /\ KnownEdges' \subseteq KnownEdges \cup {g}
    <3> DEFINE d == [Sees(i) EXCEPT !.edges = Sees(i).edges \cup {g}]
    <3>1. d.events = Sees(i).events /\ d.edges = Sees(i).edges \cup {g}
      BY <1>1, RowUpdate
    <3> HIDE DEF d
    <3>2. Writes(i, d)
      BY <2>4 DEF d
    <3>3. Known' \subseteq Known \cup d.events \cup ({job[i].hand} \ {NoHand})
          /\ KnownEdges' \subseteq KnownEdges \cup d.edges
      BY <2>1, <3>2, KnownWrites
    <3> QED
      BY <1>1, <2>2, <3>1, <3>3
  <2>5. \/ db' = db /\ draft' = draft
        \/ \E g \in EdgeRow : /\ Writes(i, [Sees(i) EXCEPT !.edges = Sees(i).edges \cup {g}])
                              /\ g.from = job[i].cause
    BY <1>4, EdgeIs
  <2>6. Known' \subseteq Known /\ \A g \in KnownEdges' : g \in KnownEdges \/ g.from = job[i].cause
    <3>1. CASE db' = db /\ draft' = draft
      BY <2>1, <2>2, <3>1, KnownQuiet
    <3> QED
      BY <2>4, <2>5, <3>1
  <2> QED
    BY <1>1, <2>1, <2>2, <2>6 DEF NewJob
<1>5. CASE FindCause(i)
  <2>1. PICK a \in {"readback", "link"}, c \in Ids \cup {NoEvent} :
             /\ NewJob(i, a, job[i].ids, job[i].hand, c, job[i].tally)
             /\ c = NoEvent \/ \E e \in Sees(i).events : e.id = c
    BY <1>5, FindCauseIs, IdsAreNat
  <2>2. db' = db /\ draft' = draft /\ clock' = clock /\ job[i].hand \in Known
    BY <1>1, <1>5, FindCauseIs, IdsAreNat DEF FindCause
  <2> QED
    BY <1>1, <2>1, <2>2, KnownQuiet DEF NewJob
<1>6. CASE ReadBack(i)
  <2>1. PICK ids : NewJob(i, "reading", ids, NoHand, NoEvent, job[i].tally)
    BY <1>6, ReadBackIs
  <2>2. db' = db /\ draft' = draft /\ clock' = clock
    BY <1>6 DEF ReadBack
  <2> QED
    BY <1>1, <2>1, <2>2, KnownQuiet DEF NewJob
<1>7. CASE DropUncorrelated(i)
  <2> DEFINE d == [Sees(i) EXCEPT !.events = Sees(i).events \ {job[i].hand}]
  <2>1. Writes(i, d) /\ NewJob(i, "reading", job[i].ids, NoHand, NoEvent, job[i].tally)
        /\ clock' = clock
    BY <1>7, DropIs DEF DropUncorrelated
  <2>2. d.events \subseteq Sees(i).events /\ d.edges = Sees(i).edges
    BY <1>1, RowUpdate
  <2> HIDE DEF d
  <2>3. Known' \subseteq Known \cup d.events /\ KnownEdges' \subseteq KnownEdges \cup d.edges
    BY <2>1, KnownWrites
  <2> QED
    BY <1>1, <2>1, <2>2, <2>3 DEF NewJob
<1>8. CASE PersistBatch(i)
  <2>1. PICK b \in BatchRow :
           b.ids = job[i].ids /\ db' = [Sees(i) EXCEPT !.batches = Sees(i).batches \cup {b}]
    BY <1>8, PersistIs DEF IdInv
  <2>2. /\ draft' = NoDraft /\ clock' = clock
        /\ NewJob(i, "rebuild", job[i].ids, NoHand, NoEvent, job[i].tally)
    BY <1>8, PersistIs DEF PersistBatch, IdInv
  <2>3. db'.events = Sees(i).events /\ db'.edges = Sees(i).edges
    BY <1>1, <2>1, RowUpdate
  <2>4. ~Open'
    BY <2>2 DEF Open, NoDraft
  <2>5. \A j \in Ingesters : job'[j].hand \in {job[j].hand, NoHand}
    BY <2>2 DEF NewJob
  <2>6. Known' \subseteq Known /\ KnownEdges' \subseteq KnownEdges
    BY <1>1, <2>3, <2>4, <2>5 DEF Known, KnownEdges
  <2> QED
    BY <1>1, <2>2, <2>6 DEF NewJob
<1>9. CASE ReadEvents(i)
  <2>1. PICK R \in SUBSET Scope(i) :
           NewJob(i, "windows", job[i].ids, NoHand, NoEvent, [q \in R |-> Tally(db, q)])
    BY <1>9, ReadEventsIs DEF IdInv
  <2>2. db' = db /\ draft' = draft /\ clock' = clock
    BY <1>9 DEF ReadEvents
  <2>3. Known' \subseteq Known /\ KnownEdges' \subseteq KnownEdges
    BY <2>1, <2>2, KnownQuiet
  <2> QED
    BY <1>1, <2>1, <2>2, <2>3 DEF NewJob
<1>10. CASE WriteWindows(i) \/ Abandon(i)
  <2>1. /\ NewJob(i, "idle", {}, NoHand, NoEvent, NoJob.tally)
        /\ db' = db /\ draft' \in {draft, NoDraft} /\ clock' = clock
    BY <1>10, EndIs DEF WriteWindows, Abandon
  <2> QED
    BY <1>1, <2>1, KnownQuiet DEF NewJob
<1> QED
  BY <1>1, <1>2, <1>3, <1>4, <1>5, <1>6, <1>7, <1>8, <1>9, <1>10 DEF Ingest, RunIds

Base == TypeInv /\ LineInv /\ IdInv

LEMMA BaseStep ==
  ASSUME Base, [IngestNext]_ingestVars
  PROVE  Base'
<1>1. TypeInv /\ LineInv /\ IdInv /\ Unique(Known) /\ clock \in Nat
  BY DEF Base, IdInv, TypeInv
<1>2. ASSUME NEW i \in Ingesters, Ingest(i) PROVE Base'
  <2>1. TypeInv' /\ LineInv' /\ clock' \in Nat
    BY <1>1, <1>2, IngestLine DEF TypeInv
  <2>2. clock <= clock'
        /\ (\/ Known' \subseteq Known \/ \E e \in Fresh : Known' \subseteq Known \cup {e})
    BY <1>1, <1>2, IngestKnown
  <2>3. \A e \in Known : e.id \in Nat
    <3>1. Known \subseteq EventRow
      BY <1>1, OpenIs, RowUpdate DEF Known, TypeInv, Job
    <3> QED
      BY <3>1, IdsAreNat DEF EventRow
  <2>4. \A j \in Ingesters : job[j].cause \in Nat /\ job'[j].cause \in Nat
    <3>1. \A k \in Job : k.cause \in Nat
      BY IdOrNone DEF Job
    <3> QED
      BY <1>1, <2>1, <3>1 DEF TypeInv
  <2>5. Unique(Known)' /\ \A e \in Known' : e.id < clock'
    <3>1. CASE Known' \subseteq Known
      BY <1>1, <2>1, <2>2, <2>3, <3>1 DEF IdInv, Unique
    <3>2. ASSUME NEW e \in Fresh, Known' \subseteq Known \cup {e}
          PROVE  Unique(Known)' /\ \A o \in Known' : o.id < clock'
      <4>1. e.id = clock /\ clock' = clock + 1
        BY DEF Fresh
      <4>2. \A o \in Known : o.id < clock
        BY <1>1 DEF IdInv
      <4> QED
        BY <1>1, <2>3, <3>2, <4>1, <4>2 DEF Unique
    <3> QED
      BY <2>2, <3>1, <3>2
  <2>6. \A g \in KnownEdges' : g.from < clock'
    <3>1. \A g \in KnownEdges' : g.from \in Nat
      <4>1. KnownEdges' \subseteq EdgeRow
        <5>1. db'.edges \subseteq EdgeRow
          BY <2>1, RowUpdate DEF TypeInv
        <5>2. Open' => draft'.rows \in Rows
          BY <2>1 DEF TypeInv, Open, NoDraft
        <5> QED
          BY <5>1, <5>2, RowUpdate DEF KnownEdges
      <4>2. \A g \in EdgeRow : g.from \in Nat
        BY IdOrNone DEF EdgeRow
      <4> QED
        BY <4>1, <4>2
    <3>2. \A g \in KnownEdges' : g.from < clock
      BY <1>1, <1>2, IngestKnown DEF IdInv
    <3> QED
      BY <1>1, <2>1, <2>2, <3>1, <3>2
  <2>7. \A j \in Ingesters : job'[j].cause < clock'
    <3>1. \A j \in Ingesters : job'[j].cause < clock
      <4>1. \A j \in Ingesters \ {i} : job'[j] = job[j] /\ job[j].cause < clock
        BY <1>1, <1>2, IngestKnown DEF IdInv
      <4>2. job'[i].cause < clock
        <5>1. \/ job'[i].cause = NoEvent \/ job'[i].cause = job[i].cause
              \/ \E e \in Known : e.id = job'[i].cause
          BY <1>1, <1>2, IngestKnown
        <5>2. NoEvent < clock
          BY <1>1 DEF TypeInv, NoEvent
        <5> QED
          BY <1>1, <5>1, <5>2 DEF IdInv
      <4> QED
        BY <4>1, <4>2
    <3> QED
      BY <1>1, <2>1, <2>2, <2>4, <3>1
  <2> QED
    BY <2>1, <2>5, <2>6, <2>7 DEF Base, IdInv
<1>3. CASE Outside
  <2>1. TypeInv' /\ LineInv' /\ job' = job /\ draft' = draft /\ clock' = clock
        /\ db'.events \subseteq db.events /\ db'.edges = db.edges
    BY <1>1, <1>3, OutsideIs, OutsideLine
  <2>2. Known' \subseteq Known /\ KnownEdges' = KnownEdges
    BY <2>1 DEF Known, KnownEdges, Open
  <2> QED
    BY <1>1, <2>1, <2>2 DEF Base, IdInv, Unique
<1>4. CASE UNCHANGED ingestVars
  BY <1>1, <1>4 DEF ingestVars, Base, TypeInv, LineInv, LineOf, IdInv, Unique, Known, KnownEdges, Open
<1> QED
  BY <1>2, <1>3, <1>4 DEF IngestNext, Outside

LEMMA BaseInit ==
  ASSUME IngestInit PROVE Base
<1>1. TypeInv
  <2>1. db \in Rows
    BY DEF IngestInit, Rows
  <2>2. 1 \in 1 .. MaxEvents + 1
    BY IngestAssumption
  <2>3. draft = NoDraft /\ job \in [Ingesters -> Job]
    BY NoJobIs DEF IngestInit
  <2> QED
    BY <2>1, <2>2, <2>3, NoJobIs DEF IngestInit, TypeInv, NoPrune
<1>2. \A i \in Ingesters : job[i] = NoJob
  BY DEF IngestInit
<1>3. LineInv
  BY <1>2, NoJobIs, IdsAreNat, IngestAssumption DEF LineInv, LineOf, Handles, IngestInit, NoDraft
<1>4. Known = {} /\ KnownEdges = {}
  BY <1>2, NoJobIs DEF Known, KnownEdges, Open, IngestInit, NoDraft
<1> QED
  BY <1>1, <1>2, <1>3, <1>4, NoJobIs DEF Base, IdInv, Unique, IngestInit, NoEvent

-----------------------------------------------------------------------------
(* The cause that is looked up stays the event it was.                     *)
LEMMA LinkBegins ==
  ASSUME TypeInv, LineInv, Unique(Known), NEW i \in Ingesters, Ingest(i), job'[i].at = "link"
  PROVE  FindCause(i)
<1>1. ASSUME NEW type \in Types, NEW match \in RunIds, Store(i, type, match)
      PROVE  job'[i].at # "link"
  BY <1>1, StoreIs DEF NewJob
<1>2. ~Begin(i) /\ ~ScopeEdges(i) /\ ~LinkCause(i)
  BY BeginIs, EdgeIs DEF NewJob
<1>3. ~ReadBack(i) /\ ~DropUncorrelated(i)
  BY ReadBackIs, DropIs DEF NewJob
<1>4. ~PersistBatch(i) /\ ~ReadEvents(i)
  BY PersistIs, ReadEventsIs DEF NewJob
<1>5. ~WriteWindows(i) /\ ~Abandon(i)
  BY EndIs DEF NewJob
<1> QED
  BY <1>1, <1>2, <1>3, <1>4, <1>5 DEF Ingest, RunIds

LEMMA CauseStep ==
  ASSUME Base, CauseInv, [IngestNext]_ingestVars
  PROVE  CauseInv'
<1>1. TypeInv /\ LineInv /\ IdInv /\ Unique(Known) /\ clock \in Nat
  BY DEF Base, IdInv, TypeInv
<1>2. ASSUME NEW i \in Ingesters, Ingest(i), NEW j \in Ingesters PROVE CauseOf(j)'
  <2> SUFFICES ASSUME job'[j].at = "link", NEW o \in Known', o.id = job'[j].cause
               PROVE  /\ o.run = job'[j].hand.run
                      /\ job'[j].hand.type = "response" => o.type = "request"
    BY DEF CauseOf
  <2>1. CASE j # i
    <3>1. job'[j] = job[j] /\ job[j].cause < clock /\ CauseOf(j)
      BY <1>1, <1>2, <2>1, IngestKnown DEF IdInv, CauseInv
    <3>2. job[j].cause \in Nat
      <4>1. \A k \in Job : k.cause \in Nat
        BY IdOrNone DEF Job
      <4> QED
        BY <1>1, <4>1 DEF TypeInv
    <3>3. o \in Known \/ o.id = clock
      BY <1>1, <1>2, IngestKnown DEF Fresh
    <3>4. o \in Known
      BY <1>1, <3>1, <3>2, <3>3
    <3> QED
      BY <3>1, <3>4 DEF CauseOf
  <2>2. CASE j = i
    <3>1. FindCause(i)
      BY <1>1, <1>2, <2>2, LinkBegins
    <3>2. PICK c \in Ids :
                 /\ NewJob(i, "link", job[i].ids, job[i].hand, c, job[i].tally)
                 /\ \E e \in Sees(i).events :
                      /\ e.id = c /\ e.run = job[i].hand.run
                      /\ job[i].hand.type = "response" => e.type = "request"
      BY <1>1, <2>2, <3>1, FindCauseIs DEF NewJob
    <3>3. PICK e \in Known : /\ e.id = c /\ e.run = job[i].hand.run
                             /\ job[i].hand.type = "response" => e.type = "request"
      BY <1>1, <3>2, SeenIsKnown
    <3>4. o \in Known
      <4>1. db' = db /\ draft' = draft
        BY <3>1 DEF FindCause
      <4>2. Known' \subseteq Known \cup ({job[i].hand} \ {NoHand})
        BY <1>1, <3>2, <4>1, KnownQuiet
      <4> QED
        BY <1>1, <4>2, SeenIsKnown
    <3> QED
      BY <1>1, <2>2, <3>2, <3>3, <3>4 DEF NewJob, Unique
  <2> QED
    BY <2>1, <2>2
<1>3. CASE Outside
  <2>1. job' = job /\ draft' = draft /\ db'.events \subseteq db.events
    BY <1>1, <1>3, OutsideIs
  <2>2. Known' \subseteq Known
    BY <2>1 DEF Known, Open
  <2> QED
    BY <2>1, <2>2 DEF CauseInv, CauseOf
<1>4. CASE UNCHANGED ingestVars
  BY <1>4 DEF ingestVars, CauseInv, CauseOf, Known, Open
<1> QED
  BY <1>2, <1>3, <1>4 DEF IngestNext, Outside, CauseInv

(* Two who are busy with the same run.                                     *)
LEMMA IngestBusy ==
  ASSUME TypeInv, LineInv, Unique(Known), NEW i \in Ingesters, Ingest(i)
  PROVE  /\ \A j \in Ingesters \ {i} : job'[j] = job[j]
         /\ job[i].at = "idle" => Begin(i)
         /\ raced \subseteq raced'
         /\ shaken \ shaken' \subseteq Scope(i) \ Overlaps(i)
         /\ \/ shaken \subseteq shaken'
            \/ ReadEvents(i) /\ i \in Busy /\ i \in Busy'
         /\ Begin(i) => Overlaps(i) \subseteq raced' \cap shaken'
<1>1. CASE Begin(i)
  BY <1>1, BeginIs DEF Begin, NewJob
<1>2. ASSUME NEW type \in Types, NEW match \in RunIds, Store(i, type, match)
      PROVE  /\ \A j \in Ingesters \ {i} : job'[j] = job[j]
             /\ raced' = raced /\ shaken' = shaken /\ job[i].at # "idle"
  BY <1>2, StoreIs DEF NewJob, Store
<1>3. CASE ScopeEdges(i) \/ LinkCause(i)
  BY <1>3, EdgeIs DEF NewJob, ScopeEdges, LinkCause, Begin
<1>4. CASE FindCause(i)
  BY <1>4, FindCauseIs DEF NewJob, FindCause, Begin
<1>5. CASE ReadBack(i)
  BY <1>5, ReadBackIs DEF NewJob, ReadBack, Begin
<1>6. CASE DropUncorrelated(i)
  BY <1>6, DropIs DEF NewJob, DropUncorrelated, Begin
<1>7. CASE PersistBatch(i)
  BY <1>7, PersistIs DEF NewJob, PersistBatch, Begin
<1>8. CASE ReadEvents(i)
  <2>1. raced' = raced /\ job[i].at = "rebuild"
    BY <1>8 DEF ReadEvents
  <2>2. PICK R \in SUBSET Scope(i) :
              /\ shaken' = shaken \ (R \ Overlaps(i))
              /\ NewJob(i, "windows", job[i].ids, NoHand, NoEvent, [q \in R |-> Tally(db, q)])
    BY <1>8, ReadEventsIs
  <2> QED
    BY <1>8, <2>1, <2>2 DEF NewJob, Busy, Begin
<1>9. CASE WriteWindows(i) \/ Abandon(i)
  BY <1>9, EndIs DEF NewJob, WriteWindows, Abandon, Begin
<1> QED
  BY <1>1, <1>2, <1>3, <1>4, <1>5, <1>6, <1>7, <1>8, <1>9 DEF Ingest, RunIds, Begin

LEMMA SharedStep ==
  ASSUME Base, SharedInv, [IngestNext]_ingestVars
  PROVE  SharedInv'
<1>1. TypeInv /\ LineInv /\ Unique(Known)
  BY DEF Base, IdInv
<1>2. ASSUME NEW i \in Ingesters, Ingest(i) PROVE SharedInv'
  <2>1. ASSUME NEW j \in Busy', NEW k \in Busy', j # k, NEW r \in Scope(j) \cap Scope(k)
        PROVE  r \in raced' /\ r \in shaken'
    <3>1. CASE j \in Busy /\ k \in Busy
      <4>1. r \in raced /\ r \in shaken
        BY <2>1, <3>1 DEF SharedInv
      <4>2. r \notin Scope(i) \ Overlaps(i) \/ shaken \subseteq shaken'
        <5>1. CASE i \in Busy /\ r \in Scope(i)
          BY <2>1, <3>1, <5>1 DEF Overlaps
        <5> QED
          BY <1>1, <1>2, <5>1, IngestBusy
      <4> QED
        BY <1>1, <1>2, <4>1, <4>2, IngestBusy
    <3>2. ASSUME NEW m \in Ingesters, m \in Busy', m \notin Busy
          PROVE  m = i /\ job[i].at = "idle" /\ Begin(i)
      BY <1>1, <1>2, <3>2, IngestBusy DEF Busy
    <3>3. CASE j \notin Busy
      <4>1. j = i /\ Begin(i) /\ k \in Busy
        BY <2>1, <3>2, <3>3 DEF Busy
      <4>2. r \in Overlaps(i)
        BY <2>1, <4>1 DEF Overlaps
      <4> QED
        BY <1>1, <1>2, <4>1, <4>2, IngestBusy
    <3>4. CASE k \notin Busy
      <4>1. k = i /\ Begin(i) /\ j \in Busy
        BY <2>1, <3>2, <3>4 DEF Busy
      <4>2. r \in Overlaps(i)
        BY <2>1, <4>1 DEF Overlaps
      <4> QED
        BY <1>1, <1>2, <4>1, <4>2, IngestBusy
    <3> QED
      BY <3>1, <3>3, <3>4
  <2>2. \A j : Scope(j)' = Scope(j)
    BY DEF Scope
  <2> QED
    BY <2>1, <2>2 DEF SharedInv
<1>3. CASE Outside
  BY <1>1, <1>3, OutsideIs DEF SharedInv, Busy, Scope
<1>4. CASE UNCHANGED ingestVars
  BY <1>4 DEF ingestVars, SharedInv, Busy, Scope
<1> QED
  BY <1>2, <1>3, <1>4 DEF IngestNext, Outside

-----------------------------------------------------------------------------
(* What an ingester's step does to the rows it sees.                       *)
Adds(i, d) == \E e \in EventRow :
  /\ e.id = clock /\ e.run \in Scope(i) \cup {NoRun}
  /\ d.events = Sees(i).events \cup {e} /\ d.edges = Sees(i).edges
  /\ d.batches = Sees(i).batches /\ d.decided = Sees(i).decided
  /\ dropped' = dropped
Links(i, d) == \E g \in EdgeRow :
  /\ g.from = job[i].cause /\ g.to = job[i].hand.id /\ job[i].hand \in EventRow
  /\ job[i].at \in {"edges", "link"}
  /\ g.kind = "call" => job[i].at = "link" /\ job[i].hand.type = "response"
  /\ d.events = Sees(i).events /\ d.edges = Sees(i).edges \cup {g}
  /\ d.batches = Sees(i).batches /\ d.decided = Sees(i).decided
  /\ dropped' = dropped
Removes(i, d) ==
  /\ i \notin Transactional /\ job[i].hand \in EventRow
  /\ d.events = Sees(i).events \ {job[i].hand} /\ d.edges = Sees(i).edges
  /\ d.batches = Sees(i).batches /\ d.decided = Sees(i).decided
  /\ dropped' = dropped \cup {job[i].hand.id}
Commits(i) == \E b \in BatchRow :
  /\ draft.by \in {NoOne, i} /\ draft' = NoDraft /\ b.ids = job[i].ids
  /\ db'.events = Sees(i).events /\ db'.edges = Sees(i).edges
  /\ db'.batches = Sees(i).batches \cup {b} /\ db'.decided = Sees(i).decided
  /\ dropped' = dropped

LEMMA Effect ==
  ASSUME Base, NEW i \in Ingesters, Ingest(i)
  PROVE  \/ db' = db /\ draft' = draft /\ dropped' = dropped
         \/ db' = db /\ draft' = NoDraft /\ draft.by = i /\ dropped' = dropped /\ Abandon(i)
         \/ \E d \in Rows : Writes(i, d) /\ (Adds(i, d) \/ Links(i, d) \/ Removes(i, d))
         \/ Commits(i)
<1>1. TypeInv /\ LineInv /\ Unique(Known) /\ Sees(i) \in Rows
  BY OpenIs DEF Base, IdInv
<1>2. ASSUME NEW type \in Types, NEW match \in RunIds, Store(i, type, match)
      PROVE  \E d \in Rows : Writes(i, d) /\ Adds(i, d)
  <2>1. PICK e \in EventRow :
           /\ e.id = clock /\ e.run \in Scope(i) \cup {NoRun}
           /\ Writes(i, [Sees(i) EXCEPT !.events = Sees(i).events \cup {e}])
    BY <1>1, <1>2, StoreIs
  <2> DEFINE d == [Sees(i) EXCEPT !.events = Sees(i).events \cup {e}]
  <2>2. /\ d \in Rows /\ d.events = Sees(i).events \cup {e} /\ d.edges = Sees(i).edges
        /\ d.batches = Sees(i).batches /\ d.decided = Sees(i).decided
    BY <1>1, RowUpdate
  <2>3. Writes(i, d) /\ dropped' = dropped
    BY <1>2, <2>1 DEF Store
  <2> HIDE DEF d
  <2> QED
    BY <2>1, <2>2, <2>3 DEF Adds
<1>3. ASSUME ScopeEdges(i) \/ LinkCause(i), ~(db' = db /\ draft' = draft)
      PROVE  \E d \in Rows : Writes(i, d) /\ Links(i, d)
  <2>1. job[i].at \in {"edges", "link"} /\ job[i].hand \in EventRow /\ dropped' = dropped
    BY <1>1, <1>3, EdgeIs DEF ScopeEdges, LinkCause
  <2>2. PICK g \in EdgeRow :
                 /\ Writes(i, [Sees(i) EXCEPT !.edges = Sees(i).edges \cup {g}])
                 /\ g.from = job[i].cause /\ g.to = job[i].hand.id
                 /\ g.kind = "call" => job[i].at = "link" /\ job[i].hand.type = "response"
    BY <1>1, <1>3, EdgeIs
  <2> DEFINE d == [Sees(i) EXCEPT !.edges = Sees(i).edges \cup {g}]
  <2>3. /\ d \in Rows /\ d.events = Sees(i).events /\ d.edges = Sees(i).edges \cup {g}
        /\ d.batches = Sees(i).batches /\ d.decided = Sees(i).decided
    BY <1>1, RowUpdate
  <2>4. Writes(i, d)
    BY <2>2
  <2> HIDE DEF d
  <2> QED
    BY <2>1, <2>2, <2>3, <2>4 DEF Links
<1>4. ASSUME ScopeEdges(i) \/ LinkCause(i) PROVE dropped' = dropped
  BY <1>4 DEF ScopeEdges, LinkCause
<1>5. CASE DropUncorrelated(i)
  <2> DEFINE d == [Sees(i) EXCEPT !.events = Sees(i).events \ {job[i].hand}]
  <2>1. /\ d \in Rows /\ d.events = Sees(i).events \ {job[i].hand} /\ d.edges = Sees(i).edges
        /\ d.batches = Sees(i).batches /\ d.decided = Sees(i).decided
    BY <1>1, RowUpdate
  <2>2. /\ i \notin Transactional /\ job[i].hand \in EventRow /\ Writes(i, d)
        /\ dropped' = dropped \cup {job[i].hand.id}
    BY <1>1, <1>5, DropIs
  <2> HIDE DEF d
  <2> QED
    BY <2>1, <2>2 DEF Removes
<1>6. CASE PersistBatch(i)
  <2>1. draft.by \in {NoOne, i} /\ draft' = NoDraft /\ dropped' = dropped
    BY <1>1, <1>6, PersistIs DEF PersistBatch
  <2>2. PICK b \in BatchRow :
          b.ids = job[i].ids /\ db' = [Sees(i) EXCEPT !.batches = Sees(i).batches \cup {b}]
    BY <1>1, <1>6, PersistIs
  <2>3. /\ db'.events = Sees(i).events /\ db'.edges = Sees(i).edges
        /\ db'.batches = Sees(i).batches \cup {b} /\ db'.decided = Sees(i).decided
    BY <1>1, <2>2, RowUpdate
  <2> QED
    BY <2>1, <2>2, <2>3 DEF Commits
<1>7. Begin(i) \/ FindCause(i) \/ ReadBack(i) \/ ReadEvents(i) \/ WriteWindows(i)
        => db' = db /\ draft' = draft /\ dropped' = dropped
  BY DEF Begin, FindCause, ReadBack, ReadEvents, WriteWindows
<1>8. Abandon(i) => db' = db /\ dropped' = dropped
                    /\ (draft' = draft \/ (draft.by = i /\ draft' = NoDraft))
  BY DEF Abandon
<1> QED
  BY <1>2, <1>3, <1>4, <1>5, <1>6, <1>7, <1>8 DEF Ingest, RunIds

(* The others see what is committed.                                       *)
LEMMA OthersSee ==
  ASSUME Base, NEW i \in Ingesters, Ingest(i), NEW j \in Ingesters \ {i}
  PROVE  Sees(j)' = Sees(j) \/ (Sees(j) = db /\ Sees(j)' = db')
<1>1. TypeInv
  BY DEF Base
<1>2. CASE db' = db /\ draft' = draft
  BY <1>2 DEF Sees
<1>3. CASE draft.by \in {NoOne, i} /\ draft'.by \in {NoOne, i}
  BY <1>3, IngestAssumption DEF Sees
<1>4. ASSUME NEW d, Writes(i, d) PROVE draft.by \in {NoOne, i} /\ draft'.by \in {NoOne, i}
  <2>1. draft.by \in {NoOne, i}
    BY <1>4 DEF Writes, MayWrite
  <2> QED
    BY <1>4, <2>1 DEF Writes
<1>5. Commits(i) => draft.by \in {NoOne, i} /\ draft'.by \in {NoOne, i}
  BY DEF Commits, NoDraft
<1> QED
  BY <1>2, <1>3, <1>4, <1>5, Effect DEF NoDraft

(* A cause is of the run of the line that is being linked.                 *)
LEMMA LinkScope ==
  ASSUME Base, CauseInv, NEW i \in Ingesters, job[i].at = "link",
         NEW e \in Known, e.id = job[i].cause
  PROVE  e.run = job[i].hand.run /\ e.run \in Scope(i)
BY DEF Base, LineInv, LineOf, CauseInv, CauseOf

LEMMA AddedStep ==
  ASSUME Base, CauseInv, AddedInv, [IngestNext]_ingestVars
  PROVE  AddedInv'
<1>1. TypeInv /\ IdInv /\ clock \in Nat
  BY DEF Base, TypeInv
<1>2. ASSUME NEW i \in Ingesters, Ingest(i) PROVE AddedInv'
  <2>1. CASE db' = db /\ draft' = draft
    BY <2>1 DEF AddedInv, Open, Scope
  <2>2. CASE draft' = NoDraft
    BY <2>2 DEF AddedInv, Open, NoDraft
  <2>3. ASSUME NEW d \in Rows, Writes(i, d), Adds(i, d) \/ Links(i, d), i \in Transactional
        PROVE  AddedInv'
    <3>1. /\ db' = db /\ draft'.by = i /\ draft'.rows = d
          /\ \/ Open /\ draft.by = i /\ Sees(i) = draft.rows
             \/ Sees(i) = db
      <4>1. db' = db /\ draft' = [by |-> i, rows |-> d]
        BY <2>3 DEF Writes
      <4>2. draft.by \in {NoOne, i}
        BY <2>3 DEF Writes, MayWrite
      <4> QED
        BY <4>1, <4>2, IngestAssumption DEF Open, Sees
    <3>2. /\ db.events \subseteq Sees(i).events
          /\ \A e \in Sees(i).events \ db.events : e.run \in Scope(i) \cup {NoRun}
          /\ \A g \in Sees(i).edges \ db.edges, e \in Sees(i).events :
               g.kind = "call" /\ e.id = g.from => e.run \in Scope(i)
      BY <3>1 DEF AddedInv
    <3>3. CASE Adds(i, d)
      <4>1. PICK e \in EventRow :
               /\ e.id = clock /\ e.run \in Scope(i) \cup {NoRun}
               /\ d.events = Sees(i).events \cup {e} /\ d.edges = Sees(i).edges
        BY <3>3 DEF Adds
      <4>2. \A g \in d.edges : g.from # e.id
        <5>1. \A g \in KnownEdges : g.from < clock
          BY <1>1 DEF IdInv
        <5>2. \A g \in d.edges : g.from < clock
          BY <1>1, <4>1, <5>1, SeenIsKnown
        <5> QED
          BY <1>1, <4>1, <5>2
      <4>3. /\ db.events \subseteq d.events
            /\ \A o \in d.events \ db.events : o.run \in Scope(i) \cup {NoRun}
            /\ \A g \in d.edges \ db.edges, o \in d.events :
                 g.kind = "call" /\ o.id = g.from => o.run \in Scope(i)
        BY <3>2, <4>1, <4>2
      <4> QED
        BY <3>1, <4>3 DEF AddedInv, Scope
    <3>4. CASE Links(i, d)
      <4>1. PICK g \in EdgeRow :
               /\ g.from = job[i].cause /\ (g.kind = "call" => job[i].at = "link")
               /\ d.events = Sees(i).events /\ d.edges = Sees(i).edges \cup {g}
        BY <3>4 DEF Links
      <4>2. \A o \in d.events : g.kind = "call" /\ o.id = g.from => o.run \in Scope(i)
        BY <1>1, <4>1, LinkScope, SeenIsKnown
      <4>3. /\ db.events \subseteq d.events
            /\ \A o \in d.events \ db.events : o.run \in Scope(i) \cup {NoRun}
            /\ \A h \in d.edges \ db.edges, o \in d.events :
                 h.kind = "call" /\ o.id = h.from => o.run \in Scope(i)
        BY <3>2, <4>1, <4>2
      <4> QED
        BY <3>1, <4>3 DEF AddedInv, Scope
    <3> QED
      BY <2>3, <3>3, <3>4
  <2>4. ASSUME NEW d \in Rows, Writes(i, d), i \notin Transactional PROVE draft' = NoDraft
    BY <1>1, <2>4, WriteIs
  <2> QED
    BY <1>2, <2>1, <2>2, <2>3, <2>4, Effect DEF Removes, Commits
<1>3. CASE Outside
  <2>1. draft' = draft /\ (db' # db => ~Open)
    BY <1>1, <1>3, OutsideIs
  <2> QED
    BY <2>1 DEF AddedInv, Open, Scope
<1>4. CASE UNCHANGED ingestVars
  BY <1>4 DEF ingestVars, AddedInv, Open, Scope
<1> QED
  BY <1>2, <1>3, <1>4 DEF IngestNext, Outside

(* What is committed changes for the runs of the ingester only.            *)
LEMMA DbStep ==
  ASSUME Base, CauseInv, AddedInv, NEW i \in Ingesters, Ingest(i)
  PROVE  /\ \A e \in db.events \ db'.events : e.id \in dropped' /\ e = job[i].hand
         /\ \A e \in db'.events \ db.events : e.run \in Scope(i) \cup {NoRun}
         /\ \A g \in db'.edges \ db.edges, e \in db'.events :
              g.kind = "call" /\ e.id = g.from => e.run \in Scope(i)
         /\ dropped \subseteq dropped'
<1>1. TypeInv /\ IdInv /\ clock \in Nat
  BY DEF Base, TypeInv
<1>2. CASE db' = db /\ dropped' = dropped
  BY <1>2
<1>3. ASSUME NEW d \in Rows, Writes(i, d), Adds(i, d) \/ Links(i, d) \/ Removes(i, d)
      PROVE  \/ db' = db
             \/ db' = d /\ Sees(i) = db
  BY <1>1, <1>3, WriteIs
<1>4. ASSUME NEW d \in Rows, Adds(i, d), db' = d, Sees(i) = db
      PROVE  /\ db.events \subseteq db'.events /\ db'.edges = db.edges
             /\ \A e \in db'.events \ db.events : e.run \in Scope(i) \cup {NoRun}
  BY <1>4 DEF Adds
<1>5. ASSUME NEW d \in Rows, Links(i, d), db' = d, Sees(i) = db
      PROVE  /\ db'.events = db.events
             /\ \A g \in db'.edges \ db.edges, e \in db'.events :
                  g.kind = "call" /\ e.id = g.from => e.run \in Scope(i)
  <2>1. PICK g \in EdgeRow :
           /\ g.from = job[i].cause /\ (g.kind = "call" => job[i].at = "link")
           /\ d.events = Sees(i).events /\ d.edges = Sees(i).edges \cup {g}
    BY <1>5 DEF Links
  <2>2. \A o \in d.events : g.kind = "call" /\ o.id = g.from => o.run \in Scope(i)
    BY <1>1, <2>1, LinkScope, SeenIsKnown
  <2> QED
    BY <1>5, <2>1, <2>2
<1>6. ASSUME NEW d \in Rows, Removes(i, d), db' = d, Sees(i) = db
      PROVE  /\ db'.events = db.events \ {job[i].hand} /\ db'.edges = db.edges
             /\ dropped' = dropped \cup {job[i].hand.id}
  BY <1>6 DEF Removes
<1>7. ASSUME Commits(i)
      PROVE  /\ db.events \subseteq db'.events /\ dropped' = dropped
             /\ \A e \in db'.events \ db.events : e.run \in Scope(i) \cup {NoRun}
             /\ \A g \in db'.edges \ db.edges, e \in db'.events :
                  g.kind = "call" /\ e.id = g.from => e.run \in Scope(i)
  <2>1. /\ draft.by \in {NoOne, i} /\ dropped' = dropped
        /\ db'.events = Sees(i).events /\ db'.edges = Sees(i).edges
    BY <1>7 DEF Commits
  <2>2. CASE draft.by = i
    BY <1>1, <2>1, <2>2, IngestAssumption DEF AddedInv, Open, Sees
  <2>3. CASE draft.by # i
    BY <2>1, <2>3 DEF Sees
  <2> QED
    BY <2>2, <2>3
<1>8. ASSUME NEW d \in Rows, Adds(i, d) \/ Links(i, d) \/ Removes(i, d)
      PROVE  dropped \subseteq dropped'
  BY <1>8 DEF Adds, Links, Removes
<1> QED
  BY <1>2, <1>3, <1>4, <1>5, <1>6, <1>7, <1>8, Effect

-----------------------------------------------------------------------------
(* What is named is there.                                                 *)
LEMMA HeldStep ==
  ASSUME Base, NEW i \in Ingesters, Ingest(i)
  PROVE  /\ HeldIds(i)' \subseteq HeldIds(i) \cup Stored(Sees(i))' \cup {NoEvent}
         /\ Abandon(i) => HeldIds(i)' = {NoEvent}
<1>1. TypeInv /\ LineInv /\ Unique(Known) /\ Sees(i) \in Rows
  BY OpenIs DEF Base, IdInv
<1>2. ASSUME NEW a, NEW ids, NEW h, NEW c, NEW t, NewJob(i, a, ids, h, c, t)
      PROVE  HeldIds(i)' = ids \cup {h.id, c}
  BY <1>2 DEF NewJob, HeldIds
<1>3. NoHand.id = NoEvent
  BY DEF NoHand
<1>20. Abandon(i) => HeldIds(i)' = {NoEvent}
  BY <1>1, <1>2, <1>3, EndIs
<1>4. CASE Begin(i)
  BY <1>1, <1>2, <1>3, <1>4, BeginIs DEF Begin
<1>5. ASSUME NEW type \in Types, NEW match \in RunIds, Store(i, type, match)
      PROVE  HeldIds(i)' \subseteq HeldIds(i) \cup Stored(Sees(i))' \cup {NoEvent}
  <2>1. PICK e \in EventRow :
           /\ Writes(i, [Sees(i) EXCEPT !.events = Sees(i).events \cup {e}])
           /\ NewJob(i, IF e.run = NoRun THEN "readback" ELSE "edges", job[i].ids, e,
                     NoEvent, job[i].tally)
    BY <1>1, <1>5, StoreIs
  <2>2. HeldIds(i)' = job[i].ids \cup {e.id, NoEvent}
    BY <1>2, <2>1
  <2>3. Sees(i)' = [Sees(i) EXCEPT !.events = Sees(i).events \cup {e}]
    BY <1>1, <2>1, WriteIs
  <2>4. e \in Sees(i)'.events
    BY <1>1, <2>3, RowUpdate
  <2> QED
    BY <2>2, <2>4 DEF HeldIds, Stored
<1>6. CASE ScopeEdges(i) \/ LinkCause(i)
  <2>1. PICK a : NewJob(i, a, job[i].ids, job[i].hand, NoEvent, job[i].tally)
    BY <1>1, <1>6, EdgeIs
  <2>2. HeldIds(i)' = job[i].ids \cup {job[i].hand.id, NoEvent}
    BY <1>2, <2>1
  <2> QED
    BY <1>20, <2>2 DEF HeldIds
<1>7. CASE FindCause(i)
  <2>1. PICK a, c : /\ NewJob(i, a, job[i].ids, job[i].hand, c, job[i].tally)
                    /\ c = NoEvent \/ \E e \in Sees(i).events : e.id = c
    BY <1>1, <1>7, FindCauseIs
  <2>2. Sees(i)' = Sees(i)
    BY <1>7 DEF FindCause, Sees
  <2>3. HeldIds(i)' = job[i].ids \cup {job[i].hand.id, c}
    BY <1>2, <2>1
  <2> QED
    BY <1>20, <2>1, <2>2, <2>3 DEF HeldIds, Stored
<1>8. CASE ReadBack(i)
  <2>1. PICK ids \in {job[i].ids, job[i].ids \cup {job[i].hand.id}} :
          NewJob(i, "reading", ids, NoHand, NoEvent, job[i].tally)
    BY <1>1, <1>8, ReadBackIs
  <2>2. HeldIds(i)' = ids \cup {NoEvent}
    BY <1>2, <1>3, <2>1
  <2> QED
    BY <1>20, <2>1, <2>2 DEF HeldIds
<1>9. CASE DropUncorrelated(i)
  <2>0. NewJob(i, "reading", job[i].ids, NoHand, NoEvent, job[i].tally)
    BY <1>1, <1>9, DropIs
  <2>1. HeldIds(i)' = job[i].ids \cup {NoEvent}
    BY <1>2, <1>3, <2>0
  <2> QED
    BY <1>20, <2>1 DEF HeldIds
<1>10. CASE PersistBatch(i)
  <2>1. HeldIds(i)' = job[i].ids \cup {NoEvent}
    BY <1>1, <1>2, <1>3, <1>10, PersistIs
  <2> QED
    BY <1>20, <2>1 DEF HeldIds
<1>11. CASE ReadEvents(i)
  <2>1. PICK t : NewJob(i, "windows", job[i].ids, NoHand, NoEvent, t)
    BY <1>1, <1>11, ReadEventsIs
  <2>2. HeldIds(i)' = job[i].ids \cup {NoEvent}
    BY <1>2, <1>3, <2>1
  <2> QED
    BY <1>20, <2>2 DEF HeldIds
<1>12. WriteWindows(i) \/ Abandon(i) => HeldIds(i)' = {NoEvent}
  BY <1>1, <1>2, <1>3, EndIs
<1> QED
  BY <1>4, <1>5, <1>6, <1>7, <1>8, <1>9, <1>10, <1>11, <1>12, <1>20 DEF Ingest, RunIds

LEMMA NamedIs ==
  ASSUME NEW d, NEW x
  PROVE  x \in Named(d) <=> \/ \E g \in d.edges : x = g.from \/ x = g.to
                            \/ \E b \in d.batches : x \in b.ids
                            \/ x \in d.decided
BY DEF Named

(* What a row set names grows by what its ingester holds.                  *)
LEMMA NamesStep ==
  ASSUME Base, NEW i \in Ingesters, NEW d,
         Adds(i, d) \/ Links(i, d) \/ Removes(i, d)
  PROVE  /\ Named(d) \subseteq Named(Sees(i)) \cup HeldIds(i)
         /\ Stored(Sees(i)) \subseteq Stored(d) \cup dropped'
         /\ dropped \subseteq dropped'
<1>1. CASE Adds(i, d)
  BY <1>1 DEF Adds, Named, Stored
<1>2. CASE Links(i, d)
  <2>1. PICK g \in EdgeRow :
          /\ g.from = job[i].cause /\ g.to = job[i].hand.id
          /\ d.events = Sees(i).events /\ d.edges = Sees(i).edges \cup {g}
          /\ d.batches = Sees(i).batches /\ d.decided = Sees(i).decided
          /\ dropped' = dropped
    BY <1>2 DEF Links
  <2>2. {g.from, g.to} \subseteq HeldIds(i)
    BY <2>1 DEF HeldIds
  <2> QED
    BY <2>1, <2>2 DEF Named, Stored
<1>3. CASE Removes(i, d)
  BY <1>3 DEF Removes, Named, Stored
<1> QED
  BY <1>1, <1>2, <1>3

LEMMA KeptOthers ==
  ASSUME Base, CauseInv, AddedInv, NamedInv, ~overlap, NEW i \in Ingesters, Ingest(i)
  PROVE  /\ Kept(db) \subseteq Kept(db)'
         /\ \A j \in Ingesters \ {i} : HeldIds(j)' \subseteq Kept(Sees(j))'
<1>1. Kept(db) \subseteq Kept(db)' /\ dropped \subseteq dropped'
  BY DbStep DEF Kept, Stored
<1>2. ASSUME NEW j \in Ingesters \ {i} PROVE HeldIds(j)' \subseteq Kept(Sees(j))'
  <2>1. job'[j] = job[j]
    BY IngestKnown DEF Base
  <2>2. HeldIds(j)' = HeldIds(j)
    BY <2>1 DEF HeldIds
  <2>3. HeldIds(j) \subseteq Kept(Sees(j))
    BY DEF NamedInv
  <2>4. CASE Sees(j)' = Sees(j)
    BY <1>1, <2>2, <2>3, <2>4 DEF Kept
  <2>5. CASE Sees(j) = db /\ Sees(j)' = db'
    <3>1. Kept(Sees(j))' = Kept(db)'
      BY <2>5 DEF Kept
    <3> QED
      BY <1>1, <2>2, <2>3, <2>5, <3>1
  <2> QED
    BY <2>4, <2>5, OthersSee
<1> QED
  BY <1>1, <1>2

NamedRows ==
  /\ Named(db) \subseteq Kept(db) /\ (Open => Named(draft.rows) \subseteq Kept(draft.rows))
  /\ \A i \in Ingesters : HeldIds(i) \subseteq Kept(Sees(i))

LEMMA NamedIngest ==
  ASSUME Base, CauseInv, AddedInv, NamedInv, ~overlap, NEW i \in Ingesters, Ingest(i)
  PROVE  NamedRows'
<1>1. /\ TypeInv /\ HeldIds(i) \subseteq Kept(Sees(i))
      /\ Named(db) \subseteq Kept(db) /\ (Open => Named(draft.rows) \subseteq Kept(draft.rows))
  BY DEF Base, NamedInv
<1>2. Named(Sees(i)) \subseteq Kept(Sees(i))
  BY <1>1, OpenIs
<1>3. \A j \in Ingesters \ {i} : HeldIds(j)' \subseteq Kept(Sees(j))'
  BY KeptOthers
<1>4. HeldIds(i)' \subseteq HeldIds(i) \cup Stored(Sees(i))' \cup {NoEvent}
      /\ (Abandon(i) => HeldIds(i)' = {NoEvent})
  BY HeldStep
<1>5. Stored(Sees(i))' \cup {NoEvent} \subseteq Kept(Sees(i))'
  BY DEF Kept, Stored
<1>6. CASE db' = db /\ draft' = draft /\ dropped' = dropped
  <2>1. Sees(i)' = Sees(i)
    BY <1>6 DEF Sees
  <2>2. Kept(Sees(i))' = Kept(Sees(i))
    BY <1>6, <2>1 DEF Kept, Stored
  <2>3. HeldIds(i)' \subseteq Kept(Sees(i))'
    BY <1>1, <1>4, <1>5, <2>2
  <2>4. /\ Named(db)' \subseteq Kept(db)'
        /\ Open' => Named(draft.rows)' \subseteq Kept(draft.rows)'
    BY <1>1, <1>6 DEF Named, Kept, Stored, Open
  <2> QED
    BY <1>3, <2>3, <2>4 DEF NamedRows
<1>7. CASE db' = db /\ draft' = NoDraft /\ dropped' = dropped /\ Abandon(i)
  <2>1. Named(db)' \subseteq Kept(db)' /\ ~Open'
    BY <1>1, <1>7 DEF Named, Kept, Stored, Open, NoDraft
  <2>2. HeldIds(i)' \subseteq Kept(Sees(i))'
    BY <1>4, <1>5, <1>7
  <2> QED
    BY <1>3, <2>1, <2>2 DEF NamedRows
<1>8. ASSUME NEW d \in Rows, Writes(i, d), Adds(i, d) \/ Links(i, d) \/ Removes(i, d)
      PROVE  NamedRows'
  <2>1. /\ Named(d) \subseteq Named(Sees(i)) \cup HeldIds(i)
        /\ Stored(Sees(i)) \subseteq Stored(d) \cup dropped'
        /\ dropped \subseteq dropped'
    BY <1>8, NamesStep
  <2> DEFINE K == Stored(d) \cup dropped' \cup {NoEvent}
  <2>2. Kept(Sees(i)) \subseteq K
    BY <2>1 DEF Kept
  <2>3. Named(d) \subseteq K
    BY <1>1, <1>2, <2>1, <2>2
  <2>4. Sees(i)' = d
    BY <1>1, <1>8, WriteIs
  <2>5. Kept(Sees(i))' = K
    BY <2>4 DEF Kept, Stored
  <2>6. HeldIds(i)' \subseteq Kept(Sees(i))'
    BY <1>1, <1>4, <1>5, <2>2, <2>5
  <2>7. \/ db' = db /\ draft'.rows = d
        \/ db' = d /\ draft' = NoDraft
    BY <1>1, <1>8, WriteIs
  <2>8. Named(db)' \subseteq Kept(db)'
    <3>1. CASE db' = db
      BY <1>1, <2>1, <3>1 DEF Named, Kept, Stored
    <3>2. CASE db' = d
      <4>1. Named(db)' = Named(d) /\ Kept(db)' = K
        BY <3>2 DEF Named, Kept, Stored
      <4> QED
        BY <2>3, <4>1
    <3> QED
      BY <2>7, <3>1, <3>2
  <2>9. Open' => Named(draft.rows)' \subseteq Kept(draft.rows)'
    <3>1. CASE draft'.rows = d
      <4>1. Named(draft.rows)' = Named(d) /\ Kept(draft.rows)' = K
        BY <3>1 DEF Named, Kept, Stored
      <4> QED
        BY <2>3, <4>1
    <3>2. CASE draft' = NoDraft
      BY <3>2 DEF Open, NoDraft
    <3> QED
      BY <2>7, <3>1, <3>2
  <2> QED
    BY <1>3, <2>6, <2>8, <2>9 DEF NamedRows
<1>9. CASE Commits(i)
  <2>1. PICK b \in BatchRow :
          /\ draft' = NoDraft /\ b.ids = job[i].ids
          /\ db'.events = Sees(i).events /\ db'.edges = Sees(i).edges
          /\ db'.batches = Sees(i).batches \cup {b} /\ db'.decided = Sees(i).decided
          /\ dropped' = dropped
    BY <1>9 DEF Commits
  <2>2. Sees(i)' = db' /\ ~Open'
    BY <2>1, IngestAssumption DEF Sees, Open, NoDraft
  <2>3. Kept(db)' = Kept(Sees(i)) /\ Kept(Sees(i))' = Kept(db)'
    BY <2>1, <2>2 DEF Kept, Stored
  <2>4. Named(db)' \subseteq Named(Sees(i)) \cup HeldIds(i)
    BY <2>1 DEF Named, HeldIds
  <2> QED
    BY <1>1, <1>2, <1>3, <1>4, <1>5, <2>2, <2>3, <2>4 DEF NamedRows
<1> QED
  BY <1>6, <1>7, <1>8, <1>9, Effect

LEMMA NamedStep ==
  ASSUME Base, CauseInv, AddedInv, NamedInv, [IngestNext]_ingestVars
  PROVE  NamedInv'
<1> SUFFICES ASSUME ~overlap' PROVE
      /\ NamedRows' /\ judged' \in Kept(db)'
      /\ Pruning' => Busy' = {} /\ judged' = NoEvent
      /\ prune'.victim \notin Named(db)' \ {NoEvent}
  BY DEF NamedInv, NamedRows
<1>1. TypeInv /\ LineInv /\ Unique(Known) /\ NoEvent \notin Ids
  BY IdsAreNat DEF Base, IdInv
<1>2. ASSUME ~overlap
      PROVE  /\ NamedRows /\ judged \in Kept(db)
             /\ Pruning => Busy = {} /\ judged = NoEvent
             /\ prune.victim \notin Named(db) \ {NoEvent}
  BY <1>2 DEF NamedInv, NamedRows
<1>3. ASSUME NEW i \in Ingesters, Ingest(i)
      PROVE  /\ NamedRows' /\ judged' \in Kept(db)'
             /\ Pruning' => Busy' = {} /\ judged' = NoEvent
             /\ prune'.victim \notin Named(db)' \ {NoEvent}
  <2>1. prune' = prune /\ judged' = judged
    BY <1>3 DEF Ingest, Begin, Store, ScopeEdges, FindCause, LinkCause, ReadBack, DropUncorrelated,
                PersistBatch, ReadEvents, WriteWindows, Abandon
  <2>2. ~overlap /\ (Begin(i) => ~Pruning)
    <3>1. Begin(i) => ~overlap /\ ~Pruning
      BY DEF Begin
    <3>2. Begin(i) \/ overlap' = overlap
      BY <1>3 DEF Ingest, Store, ScopeEdges, FindCause, LinkCause, ReadBack, DropUncorrelated,
                  PersistBatch, ReadEvents, WriteWindows, Abandon
    <3> QED
      BY <3>1, <3>2
  <2>3. ~Pruning
    <3>1. CASE job[i].at = "idle"
      BY <1>1, <1>3, <2>2, <3>1, IngestBusy
    <3>2. CASE job[i].at # "idle"
      BY <1>2, <2>2, <3>2 DEF Busy
    <3> QED
      BY <3>1, <3>2
  <2>4. ~Pruning' /\ prune'.victim = NoEvent
    BY <2>1, <2>3 DEF Pruning, NoPrune
  <2> QED
    BY <1>2, <1>3, <2>1, <2>2, <2>4, NamedIngest, KeptOthers
<1>4. ASSUME job' = job, draft' = draft, dropped' = dropped, db' = db, ~overlap
      PROVE  NamedRows'
  BY <1>2, <1>4 DEF NamedRows, Named, Kept, Stored, HeldIds, Sees, Open
<1>5. ASSUME NEW cutoff \in 2 .. clock, PruneBegin(cutoff)
      PROVE  /\ NamedRows' /\ judged' \in Kept(db)'
             /\ Pruning' => Busy' = {} /\ judged' = NoEvent
             /\ prune'.victim \notin Named(db)' \ {NoEvent}
  <2>1. /\ ~overlap /\ Busy = {} /\ judged = NoEvent /\ prune'.victim = NoEvent
        /\ db' = db /\ draft' = draft /\ job' = job /\ judged' = judged /\ dropped' = dropped
    BY <1>5 DEF PruneBegin, NoPrune
  <2> QED
    BY <1>4, <2>1 DEF Busy, Kept
<1>6. ASSUME NEW id \in Ids, PruneCheck(id)
      PROVE  /\ NamedRows' /\ judged' \in Kept(db)'
             /\ Pruning' => Busy' = {} /\ judged' = NoEvent
             /\ prune'.victim \notin Named(db)' \ {NoEvent}
  <2>1. /\ ~overlap /\ (prune'.victim = NoEvent \/ (prune'.victim = id /\ id \notin Named(db)))
        /\ db' = db /\ draft' = draft /\ job' = job /\ judged' = judged /\ dropped' = dropped
    BY <1>6 DEF PruneCheck, EventProtected
  <2>2. Pruning
    BY <1>6 DEF PruneCheck, Pruning, NoPrune
  <2>3. Named(db)' = Named(db) /\ Kept(db)' = Kept(db)
    BY <2>1 DEF Named, Kept, Stored
  <2> QED
    BY <1>2, <1>4, <2>1, <2>2, <2>3 DEF Busy
<1>7. ASSUME PruneDelete
      PROVE  /\ NamedRows' /\ judged' \in Kept(db)'
             /\ Pruning' => Busy' = {} /\ judged' = NoEvent
             /\ prune'.victim \notin Named(db)' \ {NoEvent}
  <2>1. /\ ~overlap /\ draft = NoDraft /\ prune.victim # NoEvent
        /\ draft' = draft /\ job' = job /\ judged' = judged /\ dropped' = dropped
        /\ prune' = [prune EXCEPT !.victim = NoEvent]
        /\ db' = [db EXCEPT !.events = {e \in db.events : e.id # prune.victim}]
    BY <1>7 DEF PruneDelete
  <2>2. Pruning /\ Busy = {} /\ judged = NoEvent
    BY <1>2, <2>1 DEF Pruning, NoPrune
  <2>3. prune'.victim = NoEvent
    BY <1>1, <2>1 DEF TypeInv
  <2>4. /\ db'.events = {e \in db.events : e.id # prune.victim} /\ db'.edges = db.edges
        /\ db'.batches = db.batches /\ db'.decided = db.decided
    <3>1. db \in Rows /\ {e \in db.events : e.id # prune.victim} \in SUBSET EventRow
      BY <1>1, RowUpdate DEF TypeInv
    <3> QED
      BY <2>1, <3>1, RowUpdate
  <2>5. Named(db)' = Named(db) /\ prune.victim \notin Named(db)
    BY <1>2, <2>1, <2>4 DEF Named
  <2>6. Kept(db) \subseteq Kept(db)' \cup {prune.victim}
    BY <2>1, <2>4 DEF Kept, Stored
  <2>7. Named(db)' \subseteq Kept(db)'
    BY <1>2, <2>1, <2>5, <2>6 DEF NamedRows
  <2>8. ~Open'
    BY <2>1 DEF Open, NoDraft
  <2>9. ASSUME NEW j \in Ingesters PROVE HeldIds(j)' \subseteq Kept(Sees(j))'
    <3>1. job[j] = NoJob
      BY <1>1, <2>2 DEF Busy, LineInv, LineOf
    <3>2. HeldIds(j)' = {NoEvent}
      BY <2>1, <3>1 DEF HeldIds, NoJob, NoHand
    <3> QED
      BY <3>2 DEF Kept
  <2> QED
    BY <2>1, <2>2, <2>3, <2>7, <2>8, <2>9 DEF NamedRows, Busy, Kept
<1>8. ASSUME NEW id \in Ids, JudgeRead(id)
      PROVE  /\ NamedRows' /\ judged' \in Kept(db)'
             /\ Pruning' => Busy' = {} /\ judged' = NoEvent
             /\ prune'.victim \notin Named(db)' \ {NoEvent}
  <2>1. /\ ~overlap /\ ~Pruning /\ judged' = id /\ id \in Stored(db) /\ prune' = prune
        /\ db' = db /\ draft' = draft /\ job' = job /\ dropped' = dropped
    BY <1>8 DEF JudgeRead
  <2>2. ~Pruning' /\ prune'.victim = NoEvent
    BY <2>1 DEF Pruning, NoPrune
  <2> QED
    BY <1>4, <2>1, <2>2 DEF Kept, Stored
<1>9. ASSUME JudgeDecide
      PROVE  /\ NamedRows' /\ judged' \in Kept(db)'
             /\ Pruning' => Busy' = {} /\ judged' = NoEvent
             /\ prune'.victim \notin Named(db)' \ {NoEvent}
  <2>1. /\ ~overlap /\ draft = NoDraft /\ judged # NoEvent /\ judged' = NoEvent
        /\ draft' = draft /\ job' = job /\ prune' = prune /\ dropped' = dropped
        /\ db' = [db EXCEPT !.decided = db.decided \cup {judged}]
    BY <1>9 DEF JudgeDecide
  <2>2. ~Pruning /\ ~Pruning' /\ prune'.victim = NoEvent
    BY <1>2, <2>1 DEF Pruning, NoPrune
  <2>3. /\ db'.events = db.events /\ db'.edges = db.edges
        /\ db'.batches = db.batches /\ db'.decided = db.decided \cup {judged}
    <3>1. db \in Rows /\ db.decided \cup {judged} \in SUBSET Ids
      BY <1>1, <2>1, RowUpdate DEF TypeInv
    <3> QED
      BY <2>1, <3>1, RowUpdate
  <2>4. Named(db)' \subseteq Named(db) \cup {judged} /\ Kept(db)' = Kept(db)
    <3>1. Named(db)' \subseteq Named(db) \cup {judged}
      <4>1. ASSUME NEW x \in Named(db') PROVE x \in Named(db) \cup {judged}
        BY <2>3, NamedIs
      <4> QED
        BY <4>1
    <3>2. Kept(db)' = Kept(db)
      BY <2>1, <2>3 DEF Kept, Stored
    <3> QED
      BY <3>1, <3>2
  <2>5. ~Open' /\ ~Open
    BY <2>1 DEF Open, NoDraft
  <2>6. \A j \in Ingesters : HeldIds(j)' \subseteq Kept(Sees(j))'
    <3>1. \A j \in Ingesters : HeldIds(j)' = HeldIds(j) /\ Sees(j) = db /\ Sees(j)' = db'
      BY <2>1, IngestAssumption DEF HeldIds, Sees, NoDraft
    <3>2. \A j \in Ingesters : Kept(Sees(j))' = Kept(Sees(j))
      BY <2>1, <2>3, <3>1 DEF Kept, Stored
    <3> QED
      BY <1>2, <2>1, <3>1, <3>2 DEF NamedRows
  <2> QED
    BY <1>2, <2>1, <2>2, <2>4, <2>5, <2>6 DEF NamedRows, Kept
<1>10. CASE UNCHANGED ingestVars
  <2>1. /\ ~overlap /\ judged' = judged /\ prune' = prune
        /\ db' = db /\ draft' = draft /\ job' = job /\ dropped' = dropped
    BY <1>10 DEF ingestVars
  <2>2. Named(db)' = Named(db) /\ Kept(db)' = Kept(db) /\ Busy' = Busy /\ Pruning' = Pruning
    BY <2>1 DEF Named, Kept, Stored, Busy, Pruning
  <2> QED
    BY <1>2, <1>4, <2>1, <2>2
<1> QED
  BY <1>3, <1>5, <1>6, <1>7, <1>8, <1>9, <1>10 DEF IngestNext, PruneRawEvents, EvaluateEvent

-----------------------------------------------------------------------------
(* One call per request.                                                   *)
LEMMA HandStep ==
  ASSUME Base, NEW i \in Ingesters, Ingest(i), job'[i].hand # NoHand
  PROVE  \/ job'[i].hand \in Fresh
         \/ job'[i].hand = job[i].hand /\ Sees(i)'.events = Sees(i).events
<1>1. TypeInv /\ LineInv /\ Unique(Known) /\ Sees(i) \in Rows
  BY OpenIs DEF Base, IdInv
<1>2. ASSUME NEW type \in Types, NEW match \in RunIds, Store(i, type, match)
      PROVE  job'[i].hand \in Fresh
  BY <1>1, <1>2, StoreIs DEF NewJob, Fresh
<1>3. CASE ScopeEdges(i) \/ LinkCause(i)
  <2>1. job'[i].hand = job[i].hand
    BY <1>1, <1>3, EdgeIs DEF NewJob
  <2>2. CASE db' = db /\ draft' = draft
    BY <2>1, <2>2 DEF Sees
  <2>3. ASSUME NEW g \in EdgeRow, Writes(i, [Sees(i) EXCEPT !.edges = Sees(i).edges \cup {g}])
        PROVE  Sees(i)'.events = Sees(i).events
    <3>1. Sees(i)' = [Sees(i) EXCEPT !.edges = Sees(i).edges \cup {g}]
      BY <1>1, <2>3, WriteIs
    <3> QED
      BY <1>1, <3>1, RowUpdate
  <2> QED
    BY <1>1, <1>3, <2>1, <2>2, <2>3, EdgeIs
<1>4. CASE FindCause(i)
  <2>1. job'[i].hand = job[i].hand
    BY <1>1, <1>4, FindCauseIs DEF NewJob
  <2> QED
    BY <1>4, <2>1 DEF FindCause, Sees
<1>5. ~Begin(i) /\ ~ReadBack(i) /\ ~DropUncorrelated(i)
  BY <1>1, BeginIs, ReadBackIs, DropIs DEF NewJob
<1>6. ~PersistBatch(i) /\ ~ReadEvents(i)
  BY <1>1, PersistIs, ReadEventsIs DEF NewJob
<1>7. ~WriteWindows(i) /\ ~Abandon(i)
  BY <1>1, EndIs DEF NewJob
<1> QED
  BY <1>2, <1>3, <1>4, <1>5, <1>6, <1>7 DEF Ingest, RunIds

(* A run that another one is busy with is raced, if one's step changes it. *)
LEMMA Raced ==
  ASSUME Base, SharedInv, NEW i \in Ingesters, Ingest(i), db' # db,
         NEW j \in Ingesters \ {i}, job[j].at # "idle", NEW r \in Scope(i) \cap Scope(j)
  PROVE  r \in raced /\ r \in shaken
<1>1. TypeInv /\ LineInv /\ Unique(Known)
  BY DEF Base, IdInv
<1>2. job[i].at # "idle"
  BY <1>1, IngestBusy DEF Begin
<1> QED
  BY <1>2 DEF SharedInv, Busy

LEMMA OneCallWrites ==
  ASSUME Base, CauseInv, CallInv, NEW i \in Ingesters, NEW d \in Rows, raced' = raced,
         Adds(i, d) \/ Links(i, d) \/ Removes(i, d), OneCallIn(Sees(i))
  PROVE  OneCallIn(d)
<1>1. /\ TypeInv /\ LineInv /\ IdInv /\ Unique(Known) /\ clock \in Nat
      /\ Sees(i) \in Rows /\ Sees(i).events \subseteq Known /\ Sees(i).edges \subseteq KnownEdges
  BY OpenIs, SeenIsKnown DEF Base, IdInv, TypeInv
<1>2. CASE Adds(i, d)
  <2>1. PICK e \in EventRow : /\ e.id = clock /\ d.events = Sees(i).events \cup {e}
                              /\ d.edges = Sees(i).edges
    BY <1>2 DEF Adds
  <2>2. \A g \in d.edges : g.from < clock
    BY <1>1, <2>1 DEF IdInv
  <2> QED
    BY <1>1, <2>1, <2>2 DEF OneCallIn
<1>3. CASE Links(i, d)
  <2>1. PICK g \in EdgeRow :
          /\ g.from = job[i].cause /\ g.to = job[i].hand.id /\ job[i].hand \in EventRow
          /\ g.kind = "call" => job[i].at = "link" /\ job[i].hand.type = "response"
          /\ d.events = Sees(i).events /\ d.edges = Sees(i).edges \cup {g}
    BY <1>3 DEF Links
  <2>2. CASE g.kind # "call"
    BY <2>1, <2>2 DEF OneCallIn
  <2>3. CASE g.kind = "call"
    <3>1. job[i].at = "link" /\ job[i].hand.type = "response" /\ job[i].hand \in Known
      BY <1>1, <2>1, <2>3, SeenIsKnown, IdsAreNat
    <3>2. ASSUME NEW e \in Sees(i).events, e.id = g.from, e.run \notin raced
          PROVE  g.from < g.to /\ ~HasCall(Sees(i), g.from)
      <4>1. e \in Known /\ e.run = job[i].hand.run /\ e.type = "request" /\ e.run \in Runs
        BY <1>1, <2>1, <3>1, <3>2, LinkScope, ScopeIsRuns DEF CauseInv, CauseOf
      <4>2. e # job[i].hand
        BY <3>1, <4>1
      <4>3. e.id # job[i].hand.id
        BY <1>1, <3>1, <4>1, <4>2 DEF Unique
      <4>4. e.id <= job[i].hand.id /\ ~HasCall(Sees(i), job[i].cause)
        BY <2>1, <3>1, <3>2, <4>1, IdsAreNat DEF CallInv, LastOf, LinkOf
      <4>5. e.id \in Nat /\ job[i].hand.id \in Nat
        BY <1>1, <2>1, <3>2, RowUpdate, IdsAreNat DEF EventRow
      <4> QED
        BY <2>1, <3>2, <4>3, <4>4, <4>5
    <3>3. ASSUME NEW h \in d.edges, h.kind = "call",
                 NEW e \in d.events, e.id = h.from, e.run \notin raced
          PROVE  /\ h.from < h.to
                 /\ \A k \in d.edges : k.kind = "call" /\ k.from = h.from => k = h
      <4>1. CASE h.from = g.from
        <5>1. g.from < g.to /\ \A k \in Sees(i).edges : ~(k.kind = "call" /\ k.from = g.from)
          BY <2>1, <3>2, <3>3, <4>1 DEF HasCall
        <5>2. \A k \in d.edges : k.kind = "call" /\ k.from = g.from => k = g
          BY <2>1, <5>1
        <5> QED
          BY <3>3, <4>1, <5>1, <5>2
      <4>2. CASE h.from # g.from
        BY <2>1, <3>3, <4>2 DEF OneCallIn
      <4> QED
        BY <4>1, <4>2
    <3> QED
      BY <3>3 DEF OneCallIn
  <2> QED
    BY <2>2, <2>3
<1>4. CASE Removes(i, d)
  BY <1>4 DEF Removes, OneCallIn
<1> QED
  BY <1>2, <1>3, <1>4

LEMMA CallOthers ==
  ASSUME Base, CauseInv, SharedInv, AddedInv, CallInv, Base', CauseInv',
         NEW i \in Ingesters, Ingest(i), NEW j \in Ingesters \ {i}
  PROVE  LastOf(j)' /\ LinkOf(j)'
<1>1. /\ TypeInv /\ LineInv /\ Unique(Known) /\ LineOf(j)
      /\ raced \subseteq raced' /\ job'[j] = job[j] /\ LastOf(j) /\ LinkOf(j)
  BY IngestBusy DEF Base, IdInv, LineInv, CallInv
<1>2. CASE Sees(j)' = Sees(j)
  BY <1>1, <1>2 DEF LastOf, LinkOf, HasCall
<1>3. CASE Sees(j) = db /\ Sees(j)' = db' /\ db' # db
  <2>1. ASSUME NEW r \in Scope(i), r \in Scope(j), job[j].at # "idle" PROVE r \in raced'
    BY <1>1, <1>3, <2>1, Raced
  <2>2. LastOf(j)'
    <3> SUFFICES ASSUME NEW e \in db'.events, e.run = job[j].hand.run, e.run \in Runs \ raced',
                        job[j].hand # NoHand
                 PROVE  e.id <= job[j].hand.id
      BY <1>1, <1>3 DEF LastOf
    <3>1. CASE e \in db.events
      BY <1>1, <1>3, <3>1 DEF LastOf
    <3>2. CASE e \notin db.events
      <4>1. e.run \in Scope(i)
        BY <3>2, DbStep, IngestAssumption
      <4>2. e.run \in Scope(j) /\ job[j].at # "idle"
        BY <1>1, IngestAssumption DEF LineOf, Handles
      <4> QED
        BY <2>1, <4>1, <4>2
    <3> QED
      BY <3>1, <3>2
  <2>3. LinkOf(j)'
    <3> SUFFICES ASSUME job[j].at = "link", job[j].hand.type = "response",
                        NEW e \in db'.events, e.id = job[j].cause, e.run \notin raced',
                        NEW g \in db'.edges, g.kind = "call", g.from = job[j].cause
                 PROVE  FALSE
      BY <1>1, <1>3 DEF LinkOf, HasCall
    <3>1. e.run \in Scope(j)
      <4>1. e \in Known' /\ job'[j].at = "link" /\ e.id = job'[j].cause
        BY <1>1 DEF Known
      <4>2. e.run = job'[j].hand.run
        BY <4>1 DEF CauseInv, CauseOf
      <4> QED
        BY <1>1, <4>2 DEF LineOf
    <3>2. e.run \in Scope(i)
      <4>1. CASE g \in db.edges /\ e \in db.events
        BY <1>1, <1>3, <4>1 DEF LinkOf, HasCall
      <4>2. CASE g \notin db.edges
        BY <4>2, DbStep
      <4>3. CASE e \notin db.events
        BY <3>1, <4>3, DbStep, ScopeIsRuns
      <4> QED
        BY <4>1, <4>2, <4>3
    <3> QED
      BY <2>1, <3>1, <3>2
  <2> QED
    BY <2>2, <2>3
<1>4. Sees(j)' = Sees(j) \/ (Sees(j) = db /\ Sees(j)' = db')
  BY OthersSee
<1> QED
  BY <1>2, <1>3, <1>4

LEMMA CallStep ==
  ASSUME Base, CauseInv, SharedInv, AddedInv, CallInv, Base', CauseInv', [IngestNext]_ingestVars
  PROVE  CallInv'
<1>1. /\ TypeInv /\ LineInv /\ IdInv /\ Unique(Known) /\ clock \in Nat
      /\ OneCallIn(db) /\ (Open => OneCallIn(draft.rows))
  BY DEF Base, IdInv, TypeInv, CallInv
<1>2. ASSUME NEW i \in Ingesters, Ingest(i) PROVE CallInv'
  <2>1. raced \subseteq raced' /\ Sees(i) \in Rows /\ OneCallIn(Sees(i))
    BY <1>1, <1>2, IngestBusy, OpenIs
  <2>2. OneCallIn(db)' /\ (Open' => OneCallIn(draft.rows)')
    <3>1. CASE db' = db /\ draft' = draft
      BY <1>1, <2>1, <3>1 DEF OneCallIn, Open
    <3>2. CASE db' = db /\ draft' = NoDraft
      BY <1>1, <2>1, <3>2 DEF OneCallIn, Open, NoDraft
    <3>3. ASSUME NEW d \in Rows, Writes(i, d), Adds(i, d) \/ Links(i, d) \/ Removes(i, d)
          PROVE  OneCallIn(db)' /\ (Open' => OneCallIn(draft.rows)')
      <4>1. CASE raced' = raced
        <5>1. OneCallIn(d)
          BY <2>1, <3>3, <4>1, OneCallWrites
        <5>2. \/ db' = db /\ draft'.rows = d
              \/ db' = d /\ draft' = NoDraft
          BY <1>1, <3>3, WriteIs
        <5> QED
          BY <1>1, <4>1, <5>1, <5>2 DEF OneCallIn, Open, NoDraft
      <4>2. CASE raced' # raced
        <5>1. Begin(i)
          BY <1>2, <4>2 DEF Ingest, Store, ScopeEdges, FindCause, LinkCause, ReadBack,
             DropUncorrelated, PersistBatch, ReadEvents, WriteWindows, Abandon
        <5>2. db' = db /\ draft' = draft
          BY <5>1 DEF Begin
        <5> QED
          BY <3>1, <5>2
      <4> QED
        BY <4>1, <4>2
    <3>4. CASE Commits(i)
      <4>1. /\ draft' = NoDraft
            /\ db'.events = Sees(i).events /\ db'.edges = Sees(i).edges
        BY <3>4 DEF Commits
      <4>2. OneCallIn(db)'
        BY <2>1, <4>1 DEF OneCallIn
      <4> QED
        BY <4>1, <4>2 DEF Open, NoDraft
    <3> QED
      BY <1>2, <3>1, <3>2, <3>3, <3>4, Effect
  <2>3. LastOf(i)'
    <3>1. CASE job'[i].hand \in Fresh
      <4>1. TypeInv' /\ Sees(i)'.events \subseteq Known' /\ \A e \in Known' : e.id < clock'
        <5>1. Sees(i)'.events \subseteq Known'
          BY IngestAssumption DEF Sees, Known, Open
        <5> QED
          BY <5>1 DEF Base, IdInv
      <4>2. \A e \in Sees(i)'.events : e.id < clock + 1
        BY <3>1, <4>1 DEF Fresh
      <4>3. \A e \in Sees(i)'.events : e.id \in Nat
        <5>1. Sees(i)' \in Rows
          BY <4>1, IngestAssumption DEF TypeInv, Sees, NoDraft
        <5> QED
          BY <5>1, RowUpdate, IdsAreNat DEF EventRow
      <4>4. job'[i].hand.id = clock
        BY <3>1 DEF Fresh
      <4> QED
        BY <1>1, <4>2, <4>3, <4>4 DEF LastOf
    <3>2. CASE job'[i].hand = job[i].hand /\ Sees(i)'.events = Sees(i).events
      BY <2>1, <3>2 DEF CallInv, LastOf
    <3>3. CASE job'[i].hand = NoHand
      BY <3>3 DEF LastOf
    <3> QED
      BY <1>2, <3>1, <3>2, <3>3, HandStep
  <2>4. LinkOf(i)'
    <3>1. CASE job'[i].at = "link"
      <4>1. FindCause(i)
        BY <1>1, <1>2, <3>1, LinkBegins
      <4>2. /\ Sees(i)' = Sees(i)
            /\ job[i].hand.type = "response" => ~HasCall(Sees(i), job'[i].cause)
            /\ job'[i].hand = job[i].hand
        BY <1>1, <3>1, <4>1, FindCauseIs DEF NewJob, FindCause, Sees
      <4> QED
        BY <4>2 DEF LinkOf, HasCall
    <3>2. CASE job'[i].at # "link"
      BY <3>2 DEF LinkOf
    <3> QED
      BY <3>1, <3>2
  <2>5. \A j \in Ingesters \ {i} : LastOf(j)' /\ LinkOf(j)'
    BY <1>2, CallOthers
  <2> QED
    BY <2>2, <2>3, <2>4, <2>5 DEF CallInv
<1>3. CASE Outside
  <2>1. /\ job' = job /\ draft' = draft /\ raced' = raced
        /\ db'.events \subseteq db.events /\ db'.edges = db.edges
    BY <1>1, <1>3, OutsideIs
  <2>2. \A j \in Ingesters : Sees(j)'.events \subseteq Sees(j).events /\ Sees(j)'.edges = Sees(j).edges
    BY <2>1 DEF Sees
  <2>3. OneCallIn(db)' /\ (Open' => OneCallIn(draft.rows)')
    BY <1>1, <2>1 DEF OneCallIn, Open
  <2>4. \A j \in Ingesters : LastOf(j)' /\ LinkOf(j)'
    BY <2>1, <2>2 DEF CallInv, LastOf, LinkOf, HasCall
  <2> QED
    BY <2>3, <2>4 DEF CallInv
<1>4. CASE UNCHANGED ingestVars
  BY <1>4 DEF ingestVars, CallInv, OneCallIn, LastOf, LinkOf, HasCall, Sees, Open
<1> QED
  BY <1>2, <1>3, <1>4 DEF IngestNext, Outside

-----------------------------------------------------------------------------
(* What the windows count.                                                 *)
LEMMA TallyIs == \A d, r : Tally(d, r) = Count(Of(d, r))
BY DEF Tally, Count, Of

LEMMA TallyStep ==
  ASSUME Base, TallyInv, [IngestNext]_ingestVars
  PROVE  TallyInv'
<1>1. TypeInv /\ LineInv /\ Unique(Known)
  BY DEF Base, IdInv
<1>2. \A i : Scope(i)' = Scope(i)
  BY DEF Scope
<1>3. ASSUME NEW i \in Ingesters, Ingest(i) PROVE TallyInv'
  <2>1. \A j \in Ingesters \ {i} : job'[j] = job[j]
    BY <1>1, <1>3, IngestBusy
  <2>2. DOMAIN job[i].tally \subseteq Scope(i)
    BY DEF TallyInv
  <2>3. DOMAIN job'[i].tally \subseteq Scope(i)
    <3>1. ASSUME NEW type \in Types, NEW match \in RunIds, Store(i, type, match)
          PROVE  job'[i].tally = job[i].tally
      BY <1>1, <3>1, StoreIs DEF NewJob
    <3>2. CASE Begin(i) \/ ScopeEdges(i) \/ LinkCause(i)
      BY <1>1, <2>2, <3>2, BeginIs, EdgeIs DEF NewJob
    <3>3. CASE FindCause(i) \/ ReadBack(i)
      BY <1>1, <2>2, <3>3, FindCauseIs, ReadBackIs DEF NewJob
    <3>4. CASE DropUncorrelated(i) \/ PersistBatch(i)
      BY <1>1, <2>2, <3>4, DropIs, PersistIs DEF NewJob
    <3>5. CASE ReadEvents(i)
      <4>1. PICK R \in SUBSET Scope(i) : job'[i].tally = [q \in R |-> Tally(db, q)]
        BY <1>1, <3>5, ReadEventsIs DEF NewJob
      <4> QED
        BY <4>1
    <3>6. CASE WriteWindows(i) \/ Abandon(i)
      BY <1>1, <3>6, EndIs, NoJobIs DEF NewJob
    <3> QED
      BY <1>3, <2>2, <3>1, <3>2, <3>3, <3>4, <3>5, <3>6 DEF Ingest, RunIds
  <2> QED
    BY <1>2, <2>1, <2>3 DEF TallyInv
<1>4. CASE Outside \/ UNCHANGED ingestVars
  BY <1>1, <1>2, <1>4, OutsideIs DEF TallyInv, ingestVars
<1> QED
  BY <1>3, <1>4 DEF IngestNext, Outside

(* A step does nothing to the runs of others, or to their windows.         *)
LEMMA OthersOf ==
  ASSUME Base, CauseInv, AddedInv, TallyInv, NEW i \in Ingesters, Ingest(i),
         NEW r \in Runs, r \notin Scope(i)
  PROVE  /\ Of(db', r) = Of(db, r) /\ windows'[r] = windows[r]
         /\ \A j \in Ingesters \ {i} : Of(Sees(j)', r) = Of(Sees(j), r)
<1>1. Of(db', r) = Of(db, r)
  <2>1. job[i].hand.run \in Scope(i) \cup {NoRun} /\ r # NoRun
    BY IngestAssumption DEF Base, LineInv, LineOf
  <2>2. \A e \in db.events \ db'.events : e.run # r
    BY <2>1, DbStep
  <2>3. \A e \in db'.events \ db.events : e.run # r
    BY <2>1, DbStep
  <2> QED
    BY <2>2, <2>3 DEF Of
<1>2. windows'[r] = windows[r]
  <2>1. CASE WriteWindows(i)
    <3>1. r \notin DOMAIN job[i].tally
      BY DEF TallyInv
    <3> QED
      BY <2>1, <3>1 DEF WriteWindows
  <2>2. CASE ~WriteWindows(i)
    BY <2>2 DEF Ingest, Begin, Store, ScopeEdges, FindCause, LinkCause, ReadBack, DropUncorrelated,
                PersistBatch, ReadEvents, Abandon
  <2> QED
    BY <2>1, <2>2
<1>3. ASSUME NEW j \in Ingesters \ {i} PROVE Of(Sees(j)', r) = Of(Sees(j), r)
  BY <1>1, OthersSee
<1> QED
  BY <1>1, <1>2, <1>3

(* The events of a line that is under way are not counted yet, those of    *)
(* the lines before never were.                                            *)
LEMMA RestStep ==
  ASSUME Base, NEW i \in Ingesters, Ingest(i), NEW r,
         ~Begin(i), ~ReadEvents(i), ~WriteWindows(i), ~Abandon(i)
  PROVE  Rest(i, r)' = Rest(i, r) /\ job'[i].at # "windows" /\ job[i].at # "windows"
<1>1. /\ TypeInv /\ LineInv /\ IdInv /\ Unique(Known) /\ clock \in Nat
      /\ Sees(i) \in Rows /\ Sees(i).events \subseteq Known
      /\ \A e \in Sees(i).events : e.id \in Nat /\ e.id # NoEvent
  <2>1. TypeInv /\ LineInv /\ IdInv /\ Unique(Known) /\ clock \in Nat
    BY DEF Base, IdInv, TypeInv
  <2>2. Sees(i) \in Rows /\ Sees(i).events \subseteq Known
    BY <2>1, OpenIs, SeenIsKnown
  <2> QED
    BY <2>1, <2>2, RowUpdate, IdsAreNat DEF EventRow
<1>2. NoHand.id = NoEvent
  BY DEF NoHand
<1>3. ASSUME NEW type \in Types, NEW match \in RunIds, Store(i, type, match)
      PROVE  Rest(i, r)' = Rest(i, r) /\ job'[i].at # "windows" /\ job[i].at # "windows"
  <2>1. PICK e \in EventRow :
           /\ job[i].at = "reading" /\ e.id = clock
           /\ Writes(i, [Sees(i) EXCEPT !.events = Sees(i).events \cup {e}])
           /\ NewJob(i, IF e.run = NoRun THEN "readback" ELSE "edges", job[i].ids, e,
                     NoEvent, job[i].tally)
    BY <1>1, <1>3, StoreIs
  <2>2. Sees(i)' = [Sees(i) EXCEPT !.events = Sees(i).events \cup {e}]
    BY <1>1, <2>1, WriteIs
  <2>3. Sees(i)'.events = Sees(i).events \cup {e}
    BY <1>1, <2>2, RowUpdate
  <2>4. job[i].hand.id = NoEvent
    BY <1>1, <1>2, <2>1 DEF LineInv, LineOf, Handles
  <2>5. job'[i].ids = job[i].ids /\ job'[i].hand.id = clock /\ job'[i].at # "windows"
    BY <2>1 DEF NewJob
  <2>6. \A o \in Sees(i).events : o.id # clock
    BY <1>1 DEF IdInv
  <2> QED
    BY <1>1, <2>1, <2>3, <2>4, <2>5, <2>6 DEF Rest, Of
<1>4. CASE ScopeEdges(i) \/ LinkCause(i) \/ FindCause(i)
  <2>1. /\ job'[i].ids = job[i].ids /\ job'[i].hand = job[i].hand
        /\ job'[i].at # "windows" /\ job[i].at # "windows" /\ job[i].hand \in EventRow
    BY <1>1, <1>4, EdgeIs, FindCauseIs DEF NewJob
  <2>2. job'[i].hand # NoHand /\ job[i].hand # NoHand /\ job[i].hand \in Known
    BY <1>1, <2>1, IdsAreNat, SeenIsKnown
  <2>3. job'[i].hand \notin Fresh
    BY <1>1, <2>1, <2>2 DEF Fresh, IdInv
  <2>4. Sees(i)'.events = Sees(i).events
    BY <2>2, <2>3, HandStep
  <2> QED
    BY <2>1, <2>4 DEF Rest, Of
<1>5. CASE ReadBack(i)
  <2>1. /\ job[i].at = "readback" /\ job'[i].at = "reading" /\ job'[i].hand = NoHand
        /\ job'[i].ids = IF job[i].hand.id \in Stored(Sees(i))
                         THEN job[i].ids \cup {job[i].hand.id} ELSE job[i].ids
    BY <1>1, <1>5, ReadBackIs DEF NewJob
  <2>2. Sees(i)' = Sees(i)
    BY <1>5 DEF ReadBack, Sees
  <2>3. \A e \in Sees(i).events :
          e.id \in job'[i].ids \cup {NoEvent} <=> e.id \in job[i].ids \cup {job[i].hand.id}
    BY <1>1, <2>1 DEF Stored
  <2> QED
    BY <1>2, <2>1, <2>2, <2>3 DEF Rest, Of
<1>6. CASE DropUncorrelated(i)
  <2>1. /\ job[i].at = "readback" /\ job[i].hand \in EventRow
        /\ Writes(i, [Sees(i) EXCEPT !.events = Sees(i).events \ {job[i].hand}])
        /\ job'[i].at = "reading" /\ job'[i].hand = NoHand /\ job'[i].ids = job[i].ids
    BY <1>1, <1>6, DropIs DEF NewJob
  <2>2. Sees(i)' = [Sees(i) EXCEPT !.events = Sees(i).events \ {job[i].hand}]
    BY <1>1, <2>1, WriteIs
  <2>3. Sees(i)'.events = Sees(i).events \ {job[i].hand}
    BY <1>1, <2>2, RowUpdate
  <2>4. job[i].hand \in Known
    BY <1>1, <2>1, IdsAreNat, SeenIsKnown
  <2>5. \A e \in Sees(i).events : e # job[i].hand <=> e.id # job[i].hand.id
    BY <1>1, <2>4 DEF Unique
  <2> QED
    BY <1>1, <1>2, <2>1, <2>3, <2>5 DEF Rest, Of
<1>7. CASE PersistBatch(i)
  <2>1. /\ job[i].at = "reading" /\ job[i].hand = NoHand /\ draft' = NoDraft
        /\ job'[i].at = "rebuild" /\ job'[i].hand = NoHand /\ job'[i].ids = job[i].ids
    BY <1>1, <1>7, PersistIs DEF NewJob
  <2>2. PICK b \in BatchRow : db' = [Sees(i) EXCEPT !.batches = Sees(i).batches \cup {b}]
    BY <1>1, <1>7, PersistIs
  <2>3. db'.events = Sees(i).events
    BY <1>1, <2>2, RowUpdate
  <2>4. Sees(i)' = db'
    BY <2>1, IngestAssumption DEF Sees, NoDraft
  <2> QED
    BY <2>1, <2>3, <2>4 DEF Rest, Of
<1> QED
  BY <1>3, <1>4, <1>5, <1>6, <1>7 DEF Ingest, RunIds

(* Only the end of the work ends it.                                       *)
LEMMA StaysBusy ==
  ASSUME TypeInv, LineInv, Unique(Known), NEW i \in Ingesters, Ingest(i),
         ~WriteWindows(i), ~Abandon(i)
  PROVE  i \in Busy'
<1>1. ASSUME NEW type \in Types, NEW match \in RunIds, Store(i, type, match)
      PROVE  job'[i].at # "idle"
  BY <1>1, StoreIs DEF NewJob
<1>2. CASE Begin(i) \/ ScopeEdges(i) \/ LinkCause(i)
  BY <1>2, BeginIs, EdgeIs DEF NewJob, Busy
<1>3. CASE FindCause(i) \/ ReadBack(i)
  BY <1>3, FindCauseIs, ReadBackIs DEF NewJob, Busy
<1>4. CASE DropUncorrelated(i) \/ PersistBatch(i)
  BY <1>4, DropIs, PersistIs DEF NewJob, Busy
<1>5. CASE ReadEvents(i)
  BY <1>5, ReadEventsIs DEF NewJob, Busy
<1> QED
  BY <1>1, <1>2, <1>3, <1>4, <1>5 DEF Ingest, RunIds, Busy

LEMMA EndsBusy ==
  ASSUME TypeInv, LineInv, Unique(Known), NEW i \in Ingesters, Ingest(i), i \notin Busy'
  PROVE  /\ i \in Busy /\ shaken \subseteq shaken'
<1>1. WriteWindows(i) \/ Abandon(i)
  BY StaysBusy
<1>2. i \in Busy
  BY <1>1, EndIs DEF Busy
<1> QED
  BY <1>1, <1>2 DEF WriteWindows, Abandon

WindowOf(r) ==
  /\ (\A i \in Busy : r \notin Scope(i)) => windows[r] = Tally(db, r)
  /\ \A i \in Busy : r \in Scope(i) => Counted(i, r)

(* The runs of the ingester that takes the step.                           *)
LEMMA WindowOwn ==
  ASSUME Base, SharedInv, WindowInv, NEW i \in Ingesters, Ingest(i),
         NEW r \in Scope(i), r \notin shaken'
  PROVE  IF i \in Busy' THEN Counted(i, r)' ELSE windows'[r] = Tally(db, r)'
<1>1. /\ TypeInv /\ LineInv /\ IdInv /\ Unique(Known) /\ LineOf(i) /\ r \in Runs
      /\ r \notin shaken \/ ReadEvents(i)
  BY IngestBusy, ScopeIsRuns DEF Base, IdInv, LineInv
<1>2. ASSUME r \notin shaken, i \in Busy PROVE Counted(i, r)
  BY <1>1, <1>2 DEF WindowInv
<1>3. ASSUME NEW d \in Rows PROVE \A e \in d.events : e.id # NoEvent
  BY RowUpdate, IdsAreNat DEF EventRow
<1>4. CASE Begin(i)
  <2>1. r \notin shaken /\ r \notin Overlaps(i)
    BY <1>4 DEF Begin
  <2>2. job[i].at = "idle" /\ draft.by # i
    BY <1>1, <1>4 DEF Begin, LineOf, Handles
  <2>3. \A j \in Busy : r \notin Scope(j)
    BY <2>1, <2>2 DEF Overlaps, Busy
  <2>4. windows[r] = Count(Of(db, r))
    BY <1>1, <2>1, <2>3, TallyIs DEF WindowInv
  <2>5. /\ job'[i].at = "reading" /\ job'[i].ids = {} /\ job'[i].hand.id = NoEvent
        /\ windows' = windows /\ db' = db /\ draft' = draft
    BY <1>1, <1>4, BeginIs DEF Begin, NewJob, NoHand
  <2>6. Sees(i)' = db
    BY <2>2, <2>5 DEF Sees
  <2>7. Rest(i, r)' = Of(db, r)
    <3>1. \A e \in db.events : e.id # NoEvent
      BY <1>1, <1>3 DEF TypeInv
    <3> QED
      BY <2>5, <2>6, <3>1 DEF Rest, Of
  <2>8. i \in Busy' /\ Count(Rest(i, r))' = Count(Rest(i, r)')
    BY <2>5 DEF Busy, Count, Unresolved
  <2> QED
    BY <2>4, <2>5, <2>7, <2>8 DEF Counted
<1>5. CASE ReadEvents(i)
  <2>1. job[i].at = "rebuild" /\ job[i].hand = NoHand /\ Sees(i) = db
    BY <1>1, <1>5, ReadEventsIs
  <2>2. PICK R \in SUBSET Scope(i) :
              /\ shaken' = shaken \ (R \ Overlaps(i))
              /\ NewJob(i, "windows", job[i].ids, NoHand, NoEvent, [q \in R |-> Tally(db, q)])
              /\ \A q \in Scope(i) \ R, e \in db.events : e.id \in job[i].ids => e.run # q
    BY <1>1, <1>5, ReadEventsIs
  <2>3. db' = db /\ windows' = windows /\ Tally(db, r)' = Tally(db, r)
    BY <1>5 DEF ReadEvents, Tally
  <2>4. i \in Busy' /\ job'[i].at = "windows" /\ job'[i].tally = [q \in R |-> Tally(db, q)]
    BY <2>2 DEF NewJob, Busy
  <2>5. CASE r \in R
    <3>1. r \in DOMAIN job'[i].tally /\ job'[i].tally[r] = Tally(db, r)
      BY <2>4, <2>5
    <3> QED
      BY <2>3, <2>4, <3>1 DEF Counted
  <2>6. CASE r \notin R
    <3>1. r \notin shaken /\ i \in Busy
      BY <2>1, <2>2, <2>6 DEF Busy
    <3>2. windows[r] = Count(Rest(i, r))
      BY <1>2, <2>1, <3>1 DEF Counted
    <3>3. Rest(i, r) = Of(db, r)
      <4>1. \A e \in db.events : e.id # NoEvent
        BY <1>1, <1>3 DEF TypeInv
      <4>2. job[i].hand.id = NoEvent
        BY <2>1 DEF NoHand
      <4>3. \A e \in db.events : e.run = r => e.id \notin job[i].ids \cup {job[i].hand.id}
        BY <2>2, <2>6, <4>1, <4>2
      <4> QED
        BY <2>1, <4>3 DEF Rest, Of
    <3>4. r \notin DOMAIN job'[i].tally
      BY <2>4, <2>6
    <3>5. windows[r] = Tally(db, r)
      BY <3>2, <3>3, TallyIs
    <3> QED
      BY <2>3, <2>4, <3>4, <3>5 DEF Counted
  <2> QED
    BY <2>5, <2>6
<1>6. CASE WriteWindows(i)
  <2>1. /\ job[i].at = "windows" /\ db' = db /\ r \notin shaken
        /\ windows'[r] = IF r \in DOMAIN job[i].tally THEN job[i].tally[r] ELSE windows[r]
    BY <1>1, <1>6 DEF WriteWindows
  <2>2. Counted(i, r)
    BY <1>2, <2>1 DEF Busy
  <2>3. i \notin Busy'
    BY <1>1, <1>6, EndIs DEF NewJob, Busy
  <2>4. Tally(db, r)' = Tally(db, r)
    BY <2>1 DEF Tally
  <2> QED
    BY <2>1, <2>2, <2>3, <2>4 DEF Counted
<1>7. ~Abandon(i)
  BY DEF Abandon
<1>8. CASE ~Begin(i) /\ ~ReadEvents(i) /\ ~WriteWindows(i)
  <2>1. Rest(i, r)' = Rest(i, r) /\ job'[i].at # "windows" /\ job[i].at # "windows"
    BY <1>7, <1>8, RestStep
  <2>2. windows' = windows /\ job[i].at # "idle" /\ r \notin shaken
    BY <1>1, <1>7, <1>8 DEF Ingest, Store, ScopeEdges, FindCause, LinkCause, ReadBack,
       DropUncorrelated, PersistBatch
  <2>3. windows[r] = Count(Rest(i, r))
    BY <1>2, <2>1, <2>2 DEF Counted, Busy
  <2>4. Counted(i, r)'
    BY <2>1, <2>2, <2>3 DEF Counted, Count, Unresolved
  <2>5. i \in Busy'
    BY <1>1, <1>7, <1>8, StaysBusy
  <2> QED
    BY <2>4, <2>5
<1> QED
  BY <1>4, <1>5, <1>6, <1>8

LEMMA WindowStep ==
  ASSUME Base, CauseInv, SharedInv, AddedInv, TallyInv, WindowInv, SharedInv',
         [IngestNext]_ingestVars
  PROVE  WindowInv'
<1>1. TypeInv /\ LineInv /\ Unique(Known) /\ \A i : Scope(i)' = Scope(i)
  BY DEF Base, IdInv, Scope
<1>2. \A r \in Runs \ shaken : WindowOf(r)
  BY DEF WindowInv, WindowOf
<1>3. ASSUME NEW i \in Ingesters, Ingest(i), NEW r \in Runs \ shaken' PROVE WindowOf(r)'
  <2>1. \A j \in Ingesters \ {i} : job'[j] = job[j] /\ (j \in Busy' <=> j \in Busy)
    BY <1>1, <1>3, IngestBusy DEF Busy
  <2>2. CASE r \notin Scope(i)
    <3>1. r \notin shaken
      BY <1>1, <1>3, <2>2, IngestBusy
    <3>2. /\ Of(db', r) = Of(db, r) /\ windows'[r] = windows[r]
          /\ \A j \in Ingesters \ {i} : Of(Sees(j)', r) = Of(Sees(j), r)
      BY <1>3, <2>2, OthersOf
    <3>3. Tally(db, r)' = Tally(db, r)
      <4>1. Tally(db', r) = Tally(db, r)
        BY <3>2, TallyIs
      <4> QED
        BY <4>1 DEF Tally
    <3>4. (\A j \in Busy' : r \notin Scope(j)) => windows'[r] = Tally(db, r)'
      <4>1. (\A j \in Busy' : r \notin Scope(j)) => \A j \in Busy : r \notin Scope(j)
        BY <2>1, <2>2 DEF Busy
      <4> QED
        BY <1>2, <3>1, <3>2, <3>3, <4>1 DEF WindowOf
    <3>5. ASSUME NEW j \in Busy', r \in Scope(j) PROVE Counted(j, r)'
      <4>1. j \in Ingesters \ {i} /\ j \in Busy /\ job'[j] = job[j]
        BY <2>1, <2>2, <3>5 DEF Busy
      <4>2. Counted(j, r)
        BY <1>2, <3>1, <3>5, <4>1 DEF WindowOf
      <4>3. Rest(j, r)' = Rest(j, r)
        BY <3>2, <4>1 DEF Rest, Of
      <4> QED
        BY <3>2, <3>3, <4>1, <4>2, <4>3 DEF Counted, Count, Unresolved
    <3> QED
      BY <1>1, <3>4, <3>5 DEF WindowOf
  <2>3. CASE r \in Scope(i)
    <3>1. IF i \in Busy' THEN Counted(i, r)' ELSE windows'[r] = Tally(db, r)'
      BY <1>3, <2>3, WindowOwn
    <3>2. CASE i \in Busy'
      <4>1. \A j \in Busy' \ {i} : r \notin Scope(j)
        BY <1>1, <1>3, <2>3, <3>2 DEF SharedInv
      <4> QED
        BY <1>1, <2>3, <3>1, <3>2, <4>1 DEF WindowOf
    <3>3. CASE i \notin Busy'
      <4>1. i \in Busy /\ r \notin shaken
        BY <1>1, <1>3, <3>3, EndsBusy
      <4>2. \A j \in Busy \ {i} : r \notin Scope(j)
        BY <2>3, <4>1 DEF SharedInv
      <4>3. \A j \in Busy' : r \notin Scope(j)
        BY <2>1, <3>3, <4>2 DEF Busy
      <4> QED
        BY <1>1, <3>1, <3>3, <4>3 DEF WindowOf
    <3> QED
      BY <3>2, <3>3
  <2> QED
    BY <2>2, <2>3
<1>4. ASSUME Outside, NEW r \in Runs \ shaken' PROVE WindowOf(r)'
  <2>1. /\ job' = job /\ draft' = draft /\ windows' = windows /\ (db' # db => ~Open)
        /\ r \notin shaken /\ Of(db', r) = Of(db, r)
    BY <1>1, <1>4, OutsideIs
  <2>2. \A j \in Ingesters : Of(Sees(j)', r) = Of(Sees(j), r)
    BY <2>1 DEF Sees
  <2>3. Tally(db, r)' = Tally(db, r)
    <3>1. Tally(db', r) = Tally(db, r)
      BY <2>1, TallyIs
    <3> QED
      BY <3>1 DEF Tally
  <2>4. \A j \in Ingesters : Rest(j, r)' = Rest(j, r)
    BY <2>1, <2>2 DEF Rest, Of
  <2>5. \A j \in Ingesters : Counted(j, r) => Counted(j, r)'
    BY <2>1, <2>3, <2>4 DEF Counted, Count, Unresolved
  <2>6. Busy' = Busy
    BY <2>1 DEF Busy
  <2> QED
    BY <1>1, <1>2, <2>1, <2>3, <2>5, <2>6 DEF WindowOf, Busy
<1>5. ASSUME UNCHANGED ingestVars, NEW r \in Runs \ shaken' PROVE WindowOf(r)'
  BY SMTT(30), <1>2, <1>5 DEF ingestVars, WindowOf, Counted, Rest, Of, Count, Unresolved, Sees, Busy, Scope,
     Tally
<1> QED
  BY <1>3, <1>4, <1>5 DEF IngestNext, Outside, WindowInv, WindowOf

-----------------------------------------------------------------------------
Kernel == Base /\ CauseInv /\ SharedInv /\ AddedInv

LEMMA InitAll ==
  ASSUME IngestInit
  PROVE  Kernel /\ NamedInv /\ CallInv /\ TallyInv /\ WindowInv
<1>1. Base
  BY BaseInit
<1>2. /\ \A i \in Ingesters : job[i] = NoJob
      /\ db.events = {} /\ db.edges = {} /\ db.batches = {} /\ db.decided = {}
      /\ draft = NoDraft /\ prune = NoPrune /\ judged = NoEvent
  BY DEF IngestInit
<1>3. Busy = {} /\ ~Open /\ ~Pruning /\ \A i \in Ingesters : Sees(i) = db
  BY <1>2, NoJobIs, IngestAssumption DEF Busy, Open, NoDraft, Pruning, Sees
<1>4. Kernel
  BY <1>1, <1>2, <1>3, NoJobIs DEF Kernel, CauseInv, CauseOf, SharedInv, AddedInv
<1>5. NamedInv
  <2>1. \A x : x \notin Named(db)
    BY <1>2, NamedIs
  <2>2. \A i \in Ingesters : HeldIds(i) = {NoEvent}
    BY <1>2, NoJobIs DEF HeldIds, NoHand
  <2> QED
    BY <1>2, <1>3, <2>1, <2>2 DEF NamedInv, Kept
<1>6. CallInv
  BY <1>2, <1>3, NoJobIs DEF CallInv, OneCallIn, LastOf, LinkOf
<1>7. TallyInv
  BY <1>2, NoJobIs DEF TallyInv
<1>8. WindowInv
  <2>1. ASSUME NEW r \in Runs PROVE windows[r] = Tally(db, r)
    <3>1. windows[r] = NoWindows
      BY DEF IngestInit
    <3>2. Of(db, r) = {}
      BY <1>2 DEF Of
    <3>3. Count({}) = NoWindows
      BY FS_EmptySet DEF Count, NoWindows
    <3> QED
      BY <3>1, <3>2, <3>3, TallyIs
  <2> QED
    BY <1>3, <2>1 DEF WindowInv
<1> QED
  BY <1>4, <1>5, <1>6, <1>7, <1>8

LEMMA KernelStep ==
  ASSUME Kernel, [IngestNext]_ingestVars
  PROVE  Kernel'
BY BaseStep, CauseStep, SharedStep, AddedStep DEF Kernel

(* graph verify wants every event that an edge, a batch row or a decision  *)
(* names: as long as nothing is pruned beside an ingest or an evaluation,  *)
(* each one is stored, or was removed as uncorrelated.                     *)
THEOREM NamedKept == IngestSpec => []NamedAreKept
<1>1. IngestInit => Kernel /\ NamedInv
  BY InitAll
<1>2. Kernel /\ NamedInv /\ [IngestNext]_ingestVars => (Kernel /\ NamedInv)'
  BY KernelStep, NamedStep DEF Kernel
<1>3. Kernel /\ NamedInv => NamedAreKept
  BY DEF NamedInv, NamedAreKept, Kept
<1> QED
  BY <1>1, <1>2, <1>3, PTL DEF IngestSpec

(* The windows of a run count the stored events of the run whenever nobody *)
(* is writing it, but for the runs that two wrote at once, a cut-off       *)
(* ingester left, or pruning has touched since they were last rebuilt.     *)
THEOREM WindowsCount == IngestSpec => []WindowsAgree
<1>1. IngestInit => Kernel /\ TallyInv /\ WindowInv
  BY InitAll
<1>2. Kernel /\ TallyInv /\ WindowInv /\ [IngestNext]_ingestVars
        => (Kernel /\ TallyInv /\ WindowInv)'
  BY KernelStep, TallyStep, WindowStep DEF Kernel
<1>3. Kernel /\ TallyInv /\ WindowInv => WindowsAgree
  BY DEF WindowInv, WindowsAgree
<1> QED
  BY <1>1, <1>2, <1>3, PTL DEF IngestSpec

(* A request of a run that one process ingests has at most one call edge,  *)
(* and it leads to a later event.                                          *)
THEOREM OneCallPerRequest == IngestSpec => []OneCall
<1>1. IngestInit => Kernel /\ CallInv
  BY InitAll
<1>2. Kernel /\ CallInv /\ [IngestNext]_ingestVars => (Kernel /\ CallInv)'
  BY KernelStep, CallStep DEF Kernel
<1>3. Kernel /\ CallInv => OneCall
  BY DEF CallInv, OneCallIn, OneCall
<1> QED
  BY <1>1, <1>2, <1>3, PTL DEF IngestSpec
=============================================================================
