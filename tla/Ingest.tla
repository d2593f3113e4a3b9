------------------------------- MODULE Ingest -------------------------------
(***************************************************************************)
(* The ingest of telemetry into the event store, and what hangs on the     *)
(* stored events: causality edges, batch rows, policy decisions, and the   *)
(* windows that count events; beside it the pruning of old events.         *)
(*                                                                         *)
(* Every ingester is a process of its own (the daemon, the streaming       *)
(* sensor, a sandbox, the command line), and so is whoever prunes.  Those  *)
(* in Transactional run IngestFalco, the others IngestJSONLReader.  A step *)
(* is a SQL statement, or a transaction where the code uses one.           *)
(***************************************************************************)
EXTENDS Naturals, FiniteSets

CONSTANTS
  Ingesters,      \* processes that ingest, one input each at a time
  Transactional,  \* those whose whole input is one transaction (IngestFalco)
  Dropping,       \* streaming ones with DropUncorrelated
  Runs, NoRun,    \* runs; NoRun is the empty string
  Configured(_),  \* the --run of an ingester, or NoRun
  NoOne,          \* nobody has a transaction open
  MaxEvents,      \* bound on stored events
  MaxFaults       \* bound on failing statements and cut-off ingesters

(* The flags of the ingesters. *)
ASSUME IngestAssumption ==
  /\ Transactional \subseteq Ingesters /\ Dropping \subseteq Ingesters \ Transactional
  /\ \A i \in Ingesters : Configured(i) \in Runs \cup {NoRun}
  /\ NoRun \notin Runs /\ NoOne \notin Ingesters
  /\ MaxEvents \in Nat /\ MaxFaults \in Nat

VARIABLES
  db,       \* committed rows: events, edges, batches, event ids of decisions
  draft,    \* the open write transaction: who, and the rows as it sees them
  windows,  \* telemetry_event_windows: counts by run
  job,      \* program counter and locals of each ingester
  prune,    \* program counter and locals of PruneRawEvents
  judged,   \* the event a policy evaluation has read and not yet decided on
  clock,    \* time; the stamp of an event is its id
  faults,   \* failing statements so far
  overlap,  \* history: pruning ran beside an ingest or an evaluation
  shaken,   \* history: runs whose windows no ingest has had a chance to put right
  raced,    \* history: runs that two ingesters wrote at the same time
  dropped   \* history: events of a run that were removed as uncorrelated

ingestVars == <<db, draft, windows, job, prune, judged, clock, faults, overlap, shaken, raced, dropped>>

-----------------------------------------------------------------------------
(* Rows.  An event is known by the time of its insertion.  match is what   *)
(* correlation.Resolve found for it, run what was configured or else that. *)

NoEvent == 0
Ids == 1 .. MaxEvents
Types == {"request", "response", "action"}    \* tls_write, tls_read, execve and such
NoHand == [id |-> NoEvent, type |-> "none", run |-> NoRun, match |-> NoRun]
NoJob == [at |-> "idle", ids |-> {}, hand |-> NoHand, cause |-> NoEvent, tally |-> <<>>]
NoPrune == [left |-> {}, victim |-> NoEvent]

Stored(d) == {e.id : e \in d.events}
Unresolved(e) == e.match = NoRun
Named(d) == {g.from : g \in d.edges} \cup {g.to : g \in d.edges}
            \cup (UNION {b.ids : b \in d.batches}) \cup d.decided

(* RFC3339Nano drops trailing zeros of the fraction, and SQL compares the  *)
(* text: two binary digits stand for the nine, and where a stamp ends its  *)
(* Z sorts after every digit.                                              *)
Lexical(t) ==
  LET low  == IF t % 2 = 0 THEN 2 ELSE 1
      high == IF t % 4 = 0 THEN 2 ELSE (t \div 2) % 2
  IN  9 * (t \div 4) + 3 * high + low

\* recentScopedEvent: by the text of its stamp, the last event of a type in the run up to now.
Recent(d, type, run, now) ==
  LET S == {e \in d.events : /\ e.run = run /\ e.type = type
                             /\ Lexical(e.id) <= Lexical(now)}
  IN  IF S = {} THEN NoEvent
      ELSE (CHOOSE e \in S : \A o \in S : Lexical(o.id) <= Lexical(e.id)).id

VariantInferRun(d, ids) ==
  LET R == {e.run : e \in {e \in d.events : e.id \in ids}} \ {NoRun}
  IN  IF R # {} THEN CHOOSE r \in R : TRUE ELSE NoRun

\* inferSingleRunID: the one run the events belong to, or none.
InferRun(d, ids) ==
  LET R == {e.run : e \in {e \in d.events : e.id \in ids}} \ {NoRun}
  IN  IF Cardinality(R) = 1 THEN CHOOSE r \in R : TRUE ELSE NoRun

\* What the windows of a run count.
Tally(d, r) ==
  LET E == {e \in d.events : e.run = r}
  IN  [resolved   |-> Cardinality({e \in E : ~Unresolved(e)}),
       unresolved |-> Cardinality({e \in E : Unresolved(e)})]
NoWindows == [resolved |-> 0, unresolved |-> 0]

(* A statement of a transaction sees and changes the draft; SQLite lets    *)
(* one writer in at a time, and readers outside see what is committed.     *)
NoDraft == [by |-> NoOne, rows |-> <<>>]
Sees(i) == IF draft.by = i THEN draft.rows ELSE db
MayWrite(i) == draft.by \in {NoOne, i}
Writes(i, d) ==
  /\ MayWrite(i)
  /\ IF i \in Transactional THEN draft' = [by |-> i, rows |-> d] /\ UNCHANGED db
                            ELSE db' = d /\ UNCHANGED draft

Fault == faults < MaxFaults /\ faults' = faults + 1
NoFault == UNCHANGED faults

(* History.  The runs an ingester may write, and those it shares right now.*)
Scope(i) == IF Configured(i) = NoRun THEN Runs ELSE {Configured(i)}
Busy == {i \in Ingesters : job[i].at # "idle"}
Overlaps(i) == UNION {Scope(i) \cap Scope(j) : j \in Busy \ {i}}
Pruning == prune # NoPrune

IngestInit ==
  /\ db = [events |-> {}, edges |-> {}, batches |-> {}, decided |-> {}]
  /\ draft = NoDraft
  /\ windows = [r \in Runs |-> NoWindows]
  /\ job = [i \in Ingesters |-> NoJob]
  /\ prune = NoPrune
  /\ judged = NoEvent
  /\ clock = 1
  /\ faults = 0
  /\ overlap = FALSE
  /\ shaken = {}
  /\ raced = {}
  /\ dropped = {}

-----------------------------------------------------------------------------
(* An ingester reads its input line by line.                               *)

Moves(i, at) == job' = [job EXCEPT ![i].at = at]

Begin(i) ==
  /\ job[i].at = "idle"
  /\ Moves(i, "reading")
  /\ overlap' = (overlap \/ Pruning)
  /\ shaken' = shaken \cup Overlaps(i)
  /\ raced' = raced \cup Overlaps(i)
  /\ UNCHANGED <<db, draft, windows, prune, judged, clock, faults, dropped>>

\* Resolve and INSERT.  Lines that do not parse, that the filter or the exclusions of
\* self-noise reject, and inserts that fail only count; the loop goes on.
Store(i, type, match) ==
  /\ job[i].at = "reading"
  /\ clock <= MaxEvents
  /\ LET run == IF Configured(i) = NoRun THEN match ELSE Configured(i)
         e == [id |-> clock, type |-> type, run |-> run, match |-> match]
     IN  /\ Writes(i, [Sees(i) EXCEPT !.events = @ \cup {e}])
         /\ job' = [job EXCEPT ![i].at = IF run = NoRun THEN "readback" ELSE "edges",
                               ![i].hand = e]
  /\ clock' = clock + 1
  /\ UNCHANGED <<windows, prune, judged, faults, overlap, shaken, raced, dropped>>

AddEdge(i, g) == Writes(i, [Sees(i) EXCEPT !.edges = @ \cup {g}])

\* The edges from tool call, process, attempt, snapshot and pid, as far as the line
\* names them or Resolve did; errors are ignored.
ScopeEdges(i) ==
  /\ job[i].at = "edges"
  /\ \/ AddEdge(i, [kind |-> "scope", from |-> NoEvent, to |-> job[i].hand.id]) /\ NoFault
     \/ Unresolved(job[i].hand) /\ UNCHANGED <<db, draft>> /\ NoFault
     \/ UNCHANGED <<db, draft>> /\ Fault
  /\ Moves(i, IF job[i].hand.type = "request" THEN "readback" ELSE "cause")
  /\ UNCHANGED <<windows, prune, judged, clock, overlap, shaken, raced, dropped>>

VariantHasCall(d, id) == \E g \in db.edges : g.kind = "call" /\ g.to = id

HasCall(d, id) == \E g \in d.edges : g.kind = "call" /\ g.from = id

\* recentLLMIntent for an action; for a response recentLLMRequest, then edgeExists.
FindCause(i) ==
  /\ job[i].at = "cause"
  /\ LET e == job[i].hand
         c == Recent(Sees(i), IF e.type = "action" THEN "response" ELSE "request", e.run, e.id)
     IN  IF c = NoEvent \/ (e.type = "response" /\ HasCall(Sees(i), c))
         THEN Moves(i, "readback")
         ELSE job' = [job EXCEPT ![i].at = "link", ![i].cause = c]
  /\ UNCHANGED <<db, draft, windows, prune, judged, clock, faults, overlap, shaken, raced, dropped>>

LinkCause(i) ==
  /\ job[i].at = "link"
  /\ LET kind == IF job[i].hand.type = "action" THEN "caused" ELSE "call"
     IN  \/ AddEdge(i, [kind |-> kind, from |-> job[i].cause, to |-> job[i].hand.id]) /\ NoFault
         \/ UNCHANGED <<db, draft>> /\ Fault
  /\ job' = [job EXCEPT ![i].at = "readback", ![i].cause = NoEvent]
  /\ UNCHANGED <<windows, prune, judged, clock, overlap, shaken, raced, dropped>>

\* eventRecordByID; an event that is gone counts as failed.  DropUncorrelated deletes
\* the event after the fact, and nothing but the event.
Drops(i) == i \in Dropping /\ Unresolved(job[i].hand)
ReadBack(i) ==
  /\ job[i].at = "readback"
  /\ job[i].hand.id \in Stored(Sees(i)) => ~Drops(i)
  /\ job' = [job EXCEPT ![i].at = "reading", ![i].hand = NoHand,
                        ![i].ids = IF job[i].hand.id \in Stored(Sees(i))
                                   THEN @ \cup {job[i].hand.id} ELSE @]
  /\ UNCHANGED <<db, draft, windows, prune, judged, clock, faults, overlap, shaken, raced, dropped>>

DropUncorrelated(i) ==
  /\ job[i].at = "readback"
  /\ Drops(i) /\ job[i].hand.id \in Stored(Sees(i))
  /\ Writes(i, [Sees(i) EXCEPT !.events = @ \ {job[i].hand}])
  /\ dropped' = dropped \cup {job[i].hand.id}
  /\ job' = [job EXCEPT ![i].at = "reading", ![i].hand = NoHand]
  /\ UNCHANGED <<windows, prune, judged, clock, faults, overlap, shaken, raced>>

-----------------------------------------------------------------------------
(* At the end of the input: the batch row, the commit, the windows.        *)

BatchRun(i, d) == IF Configured(i) # NoRun THEN Configured(i) ELSE InferRun(d, job[i].ids)

\* persistJSONLBatch; when a run has to be inferred every event is looked up.
PersistBatch(i) ==
  /\ job[i].at = "reading"
  /\ Configured(i) = NoRun => job[i].ids \subseteq Stored(Sees(i))
  /\ LET d == Sees(i)
         b == [run |-> BatchRun(i, d), ids |-> job[i].ids]
         done == [d EXCEPT !.batches = @ \cup {b}]
     IN  IF i \in Transactional
         THEN MayWrite(i) /\ db' = done /\ draft' = NoDraft
         ELSE Writes(i, done)
  /\ Moves(i, "rebuild")
  /\ UNCHANGED <<windows, prune, judged, clock, faults, overlap, shaken, raced, dropped>>

\* resultRunID, then the SELECT of RebuildEventWindows, outside of its transaction: of
\* one run, or of all when the events belong to several or to none.
ReadEvents(i) ==
  /\ job[i].at = "rebuild"
  /\ LET r == IF Configured(i) # NoRun THEN Configured(i)
              ELSE IF job[i].ids \subseteq Stored(db) THEN InferRun(db, job[i].ids) ELSE NoRun
         R == IF r = NoRun THEN Runs ELSE {r}
     IN  /\ job' = [job EXCEPT ![i].at = "windows", ![i].tally = [q \in R |-> Tally(db, q)]]
         /\ shaken' = shaken \ (R \ Overlaps(i))
  /\ UNCHANGED <<db, draft, windows, prune, judged, clock, faults, overlap, raced, dropped>>

\* One transaction deletes the old windows and inserts the new.
WriteWindows(i) ==
  /\ job[i].at = "windows"
  /\ MayWrite(i)
  /\ windows' = [r \in Runs |-> IF r \in DOMAIN job[i].tally THEN job[i].tally[r] ELSE windows[r]]
  /\ job' = [job EXCEPT ![i] = NoJob]
  /\ UNCHANGED <<db, draft, prune, judged, clock, faults, overlap, shaken, raced, dropped>>

\* A read error of the input, a refused statement that is not ignored, or the end of
\* the process: an open transaction is rolled back, everything else stays.
Abandon(i) ==
  /\ job[i].at # "idle"
  /\ Fault
  /\ job' = [job EXCEPT ![i] = NoJob]
  /\ draft' = IF draft.by = i THEN NoDraft ELSE draft
  /\ shaken' = shaken \cup Scope(i)
  /\ UNCHANGED <<db, windows, prune, judged, clock, overlap, raced, dropped>>

-----------------------------------------------------------------------------
(* Pruning: candidates, then for each a check and a DELETE.                *)

PruneBegin(cutoff) ==
  /\ ~Pruning
  /\ LET old == {e.id : e \in {e \in db.events : Lexical(e.id) < Lexical(cutoff)}}
     IN  old # {} /\ prune' = [NoPrune EXCEPT !.left = old]
  /\ overlap' = (overlap \/ Busy # {} \/ judged # NoEvent)
  /\ UNCHANGED <<db, draft, windows, job, judged, clock, faults, shaken, raced, dropped>>

VariantEventProtected(id) == id \in Named([db EXCEPT !.batches = {}])

\* eventProtected: decisions, edges and batches name it.
EventProtected(id) == id \in Named(db)

PruneCheck(id) ==
  /\ prune.victim = NoEvent /\ id \in prune.left
  /\ prune' = [left |-> prune.left \ {id},
               victim |-> IF EventProtected(id) THEN NoEvent ELSE id]
  /\ UNCHANGED <<db, draft, windows, job, judged, clock, faults, overlap, shaken, raced, dropped>>

\* The windows are left as they are.
PruneDelete ==
  /\ prune.victim # NoEvent
  /\ draft = NoDraft
  /\ db' = [db EXCEPT !.events = {e \in @ : e.id # prune.victim}]
  /\ prune' = [prune EXCEPT !.victim = NoEvent]
  /\ shaken' = shaken \cup ({e.run : e \in {e \in db.events : e.id = prune.victim}} \ {NoRun})
  /\ UNCHANGED <<draft, windows, job, judged, clock, faults, overlap, raced, dropped>>

-----------------------------------------------------------------------------
(* EvaluateEvent: reads an event, later inserts the decision that names it.*)

JudgeRead(id) ==
  /\ judged = NoEvent
  /\ id \in Stored(db) \ db.decided
  /\ judged' = id
  /\ overlap' = (overlap \/ Pruning)
  /\ UNCHANGED <<db, draft, windows, job, prune, clock, faults, shaken, raced, dropped>>

JudgeDecide ==
  /\ judged # NoEvent
  /\ draft = NoDraft
  /\ db' = [db EXCEPT !.decided = @ \cup {judged}]
  /\ judged' = NoEvent
  /\ UNCHANGED <<draft, windows, job, prune, clock, faults, overlap, shaken, raced, dropped>>

Ingest(i) ==
  \/ Begin(i)
  \/ \E type \in Types, match \in Runs \cup {NoRun} : Store(i, type, match)
  \/ ScopeEdges(i) \/ FindCause(i) \/ LinkCause(i)
  \/ ReadBack(i) \/ DropUncorrelated(i)
  \/ PersistBatch(i) \/ ReadEvents(i) \/ WriteWindows(i)
  \/ Abandon(i)
PruneRawEvents ==
  \/ \E cutoff \in 2 .. clock : PruneBegin(cutoff)
  \/ \E id \in Ids : PruneCheck(id)
  \/ PruneDelete
EvaluateEvent ==
  \/ \E id \in Ids : JudgeRead(id)
  \/ JudgeDecide

IngestNext ==
  \/ \E i \in Ingesters : Ingest(i)
  \/ PruneRawEvents
  \/ EvaluateEvent

IngestSpec == IngestInit /\ [][IngestNext]_ingestVars
-----------------------------------------------------------------------------
(* Properties.                                                             *)

\* graph verify wants every event that a batch, a decision or an edge names.  As long as
\* nobody ingests or evaluates while old events are pruned, all of them are there, but
\* for the events of a run that were removed as uncorrelated (retention.go:105-122).
NamedAreKept ==
  ~overlap => Named(db) \ {NoEvent} \subseteq Stored(db) \cup dropped

\* The windows count what is stored (windows.go:53-138): whenever nobody is writing a run
\* that the last undisturbed rebuild saw, also across transactions, inferred runs and
\* events that were removed.
WindowsAgree ==
  \A r \in Runs \ shaken :
    (\A i \in Busy : r \notin Scope(i)) => windows[r] = Tally(db, r)

\* A streamed response surfaces as many events, and the request gets one call edge only,
\* to a later response of its run (service.go:529-541), when one process ingests the run.
OneCall ==
  \A g \in db.edges :
    g.kind = "call" /\ (\E e \in db.events : e.id = g.from /\ e.run \notin raced) =>
      /\ g.from < g.to
      /\ \A h \in db.edges : h.kind = "call" /\ h.from = g.from => h = g

=============================================================================
