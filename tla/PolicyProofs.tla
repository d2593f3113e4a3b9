---------------------------- MODULE PolicyProofs ----------------------------
(***************************************************************************)
(* Theorems about PolicyLayer.tla for any writers, events, rule sets, and  *)
(* any number of reevaluations, refusals and crashes.                      *)
(***************************************************************************)
EXTENDS PolicyLayer, FiniteSetTheorems, WellFoundedInduction, TLAPS

(* The rows that `graph verify` misses when the decision of chain c lacks  *)
(* them, and the deletion of ReevaluateRun that each falls under.          *)
Needed(c) ==
  {"event_edge", "risk", "signal", "action"}
    \cup (IF c[1] \in WithSession THEN {"session_edge"} ELSE {})
ClearedAt(kind) ==
  CASE kind \in Edges -> 1 [] kind = "signal" -> 2 [] kind = "action" -> 3 [] kind = "risk" -> 4

(* A reevaluation has deleted rows of this kind and not yet the decisions. *)
Deleting(kind) ==
  \E w \in Writers :
    job[w].at = "clear" /\ ClearedAt(kind) < job[w].step /\ job[w].step <= 5

(* A writer of chain c has not got to the row of this kind.                *)
ToCome(c, kind) ==
  \E w \in Writers :
    /\ job[w].at = "persist" /\ Chain(w) = c
    /\ \E i \in job[w].step .. Len(Statements(job[w].event)) : Statements(job[w].event)[i] = kind

(* A deletion is one of the six; a row is one of those of the event after  *)
(* the decision; a recorder is at its orphan, or has been.                 *)
StepOf(j) ==
  /\ j.at = "clear" => j.step \in 1 .. 6
  /\ j.at = "persist" => j.event \in Events /\ j.step \in 2 .. Len(Statements(j.event))
OrphanOf(j) ==
  j.kind = "orphan" => /\ j.at \in {"evaluate", "persist"}
                       /\ j.todo \subseteq Orphans
                       /\ j.todo = {} => j.event \in Orphans
StepInv == \A w \in Writers : StepOf(job[w])
OrphanInv == \A w \in Writers : OrphanOf(job[w])

WholeInv ==
  \A c \in Chains \ torn : "decision" \in rows[c] =>
    \A kind \in Needed(c) : kind \in rows[c] \/ Deleting(kind) \/ ToCome(c, kind)

-----------------------------------------------------------------------------
(* Events are read in the order of created_at: the first is one of them.   *)
LEMMA FirstInSet ==
  ASSUME NEW S \in SUBSET Events, S # {}
  PROVE  First(S) \in S
<1>1. S \subseteq Nat
  BY EnginesAssumption DEF EnginesAssumption
<1>2. PICK x \in S : \A y \in S : ~(<<y, x>> \in OpToRel(<, Nat))
  BY <1>1, NatLessThanWellFounded, WFMin
<1>3. \A y \in S : ~(y < x)
  BY <1>1, <1>2 DEF OpToRel
<1>4. \A y \in S : x <= y
  BY <1>1, <1>3
<1> QED
  BY <1>4 DEF First

(* What a job becomes is a job.                                            *)
JobRow == [at : {"idle", "clear", "select", "evaluate", "persist"},
           kind : {"none", "live", "orphan", "replay"}, engine : Engines,
           n : 0 .. MaxReplays, todo : SUBSET Events, event : Events \cup {0}, step : 0 .. 9]


LEMMA IdleIsJob == Idle \in JobRow
  BY EnginesAssumption DEF EnginesAssumption, Idle, JobRow

(* Each of the ways in which an action changes a job.                      *)
LEMMA JobUpdate ==
  ASSUME NEW j \in JobRow
  PROVE  /\ [j EXCEPT !.at = "select", !.step = 0] \in JobRow
         /\ [j EXCEPT !.at = "evaluate", !.step = 0] \in JobRow
         /\ \A k \in 0 .. 9 : [j EXCEPT !.step = k] \in JobRow
         /\ \A rest \in SUBSET Events :
              /\ [j EXCEPT !.todo = rest] \in JobRow
              /\ [j EXCEPT !.at = "evaluate", !.todo = rest] \in JobRow
              /\ [j EXCEPT !.at = "evaluate", !.step = 0, !.todo = rest] \in JobRow
         /\ \A rest \in SUBSET Events, kind \in {"live", "orphan"} :
              [j EXCEPT !.at = "evaluate", !.kind = kind, !.todo = rest] \in JobRow
         /\ \A rest \in SUBSET Events, e \in Events :
              [j EXCEPT !.at = "persist", !.step = 2, !.event = e, !.todo = rest] \in JobRow
         /\ \A engine \in Engines, n \in 0 .. MaxReplays :
              [j EXCEPT !.at = "clear", !.kind = "replay", !.engine = engine, !.n = n, !.step = 1]
                \in JobRow
<1> DEFINE At == {"idle", "clear", "select", "evaluate", "persist"}
           Kind == {"none", "live", "orphan", "replay"}
<1>1. ASSUME NEW a \in At, NEW k \in 0 .. 9
      PROVE  [j EXCEPT !.at = a, !.step = k] \in JobRow
  BY DEF JobRow
<1>2. ASSUME NEW k \in 0 .. 9 PROVE [j EXCEPT !.step = k] \in JobRow
  BY DEF JobRow
<1>3. ASSUME NEW rest \in SUBSET Events PROVE [j EXCEPT !.todo = rest] \in JobRow
  BY DEF JobRow
<1>4. ASSUME NEW rest \in SUBSET Events
      PROVE  [j EXCEPT !.at = "evaluate", !.todo = rest] \in JobRow
  BY DEF JobRow
<1>5. ASSUME NEW a \in At, NEW k \in 0 .. 9, NEW rest \in SUBSET Events
      PROVE  [j EXCEPT !.at = a, !.step = k, !.todo = rest] \in JobRow
  BY DEF JobRow
<1>6. ASSUME NEW rest \in SUBSET Events, NEW kind \in {"live", "orphan"}
      PROVE  [j EXCEPT !.at = "evaluate", !.kind = kind, !.todo = rest] \in JobRow
  BY DEF JobRow
<1>7. ASSUME NEW a \in At, NEW k \in 0 .. 9, NEW e \in Events \cup {0},
             NEW rest \in SUBSET Events
      PROVE  [j EXCEPT !.at = a, !.step = k, !.event = e, !.todo = rest] \in JobRow
  BY DEF JobRow
<1>8. ASSUME NEW a \in At, NEW kind \in Kind, NEW engine \in Engines, NEW n \in 0 .. MaxReplays,
             NEW k \in 0 .. 9
      PROVE  [j EXCEPT !.at = a, !.kind = kind, !.engine = engine, !.n = n, !.step = k] \in JobRow
  BY DEF JobRow
<1>9. 0 \in 0 .. 9 /\ 1 \in 0 .. 9 /\ 2 \in 0 .. 9
  OBVIOUS
<1>10. At = {"idle", "clear", "select", "evaluate", "persist"}
  OBVIOUS
<1>11. Kind = {"none", "live", "orphan", "replay"}
  OBVIOUS
<1> HIDE DEF At, Kind
<1>12. [j EXCEPT !.at = "select", !.step = 0] \in JobRow
  BY <1>1, <1>9, <1>10
<1>13. [j EXCEPT !.at = "evaluate", !.step = 0] \in JobRow
  BY <1>1, <1>9, <1>10
<1>14. ASSUME NEW rest \in SUBSET Events
       PROVE  [j EXCEPT !.at = "evaluate", !.step = 0, !.todo = rest] \in JobRow
  BY <1>5, <1>9, <1>10
<1>15. ASSUME NEW rest \in SUBSET Events, NEW e \in Events
       PROVE  [j EXCEPT !.at = "persist", !.step = 2, !.event = e, !.todo = rest] \in JobRow
  BY <1>7, <1>9, <1>10
<1>16. ASSUME NEW engine \in Engines, NEW n \in 0 .. MaxReplays
       PROVE  [j EXCEPT !.at = "clear", !.kind = "replay", !.engine = engine, !.n = n,
                        !.step = 1] \in JobRow
  BY <1>8, <1>9, <1>10, <1>11
<1> QED
  BY <1>2, <1>3, <1>4, <1>6, <1>12, <1>13, <1>14, <1>15, <1>16

(* The statements after the decision: none is a decision, and each row     *)
(* that a decision needs is among them.                                    *)
LEMMA AfterTheDecision ==
  ASSUME NEW e \in Events
  PROVE  /\ Len(Statements(e)) \in 8 .. 9
         /\ \A i \in 2 .. Len(Statements(e)) :
              Statements(e)[i] \in Kinds \ {"decision", "zero_cost"}
         /\ \A n \in 0 .. MaxReplays : \A kind \in Needed(<<e, n>>) :
              \E i \in 2 .. Len(Statements(e)) : Statements(e)[i] = kind
<1>1. CASE e \in WithSession
  <2> DEFINE s == <<"decision", "risk", "signal", "risk_edge", "event_edge", "session_edge",
                    "action", "action_edge", "cost">>
  <2>1. Statements(e) = s
    BY <1>1 DEF Statements
  <2>2. Len(s) = 9 /\ 2 .. 9 = {2, 3, 4, 5, 6, 7, 8, 9}
    OBVIOUS
  <2>3. /\ s[2] = "risk" /\ s[3] = "signal" /\ s[4] = "risk_edge" /\ s[5] = "event_edge"
        /\ s[6] = "session_edge" /\ s[7] = "action" /\ s[8] = "action_edge" /\ s[9] = "cost"
    OBVIOUS
  <2> HIDE DEF s
  <2>4. \A i \in 2 .. Len(s) : s[i] \in Kinds \ {"decision", "zero_cost"}
    BY <2>2, <2>3 DEF Kinds, Edges
  <2>5. ASSUME NEW n \in 0 .. MaxReplays, NEW kind \in Needed(<<e, n>>)
        PROVE  \E i \in 2 .. Len(s) : s[i] = kind
    <3>1. kind \in {"event_edge", "risk", "signal", "action", "session_edge"}
      BY DEF Needed
    <3> QED
      BY <2>2, <2>3, <3>1
  <2> QED
    BY <2>1, <2>2, <2>4, <2>5
<1>2. CASE e \notin WithSession
  <2> DEFINE s == <<"decision", "risk", "signal", "risk_edge", "event_edge", "action",
                    "action_edge", "cost">>
  <2>1. Statements(e) = s
    BY <1>2 DEF Statements
  <2>2. Len(s) = 8 /\ 2 .. 8 = {2, 3, 4, 5, 6, 7, 8}
    OBVIOUS
  <2>3. /\ s[2] = "risk" /\ s[3] = "signal" /\ s[4] = "risk_edge" /\ s[5] = "event_edge"
        /\ s[6] = "action" /\ s[7] = "action_edge" /\ s[8] = "cost"
    OBVIOUS
  <2> HIDE DEF s
  <2>4. \A i \in 2 .. Len(s) : s[i] \in Kinds \ {"decision", "zero_cost"}
    BY <2>2, <2>3 DEF Kinds, Edges
  <2>5. ASSUME NEW n \in 0 .. MaxReplays, NEW kind \in Needed(<<e, n>>)
        PROVE  \E i \in 2 .. Len(s) : s[i] = kind
    <3>1. kind \in {"event_edge", "risk", "signal", "action"}
      BY <1>2 DEF Needed
    <3> QED
      BY <2>2, <2>3, <3>1
  <2> QED
    BY <2>1, <2>2, <2>4, <2>5
<1> QED
  BY <1>1, <1>2

-----------------------------------------------------------------------------
(* What a writer's action does to its own job, for each kind of step.      *)
LEMMA JobStep ==
  ASSUME job \in [Writers -> JobRow], StepInv, stored \subseteq Events, stored' \subseteq Events,
         replays \in 0 .. MaxReplays, Next
  PROVE  job' \in [Writers -> JobRow]
<1> SUFFICES ASSUME NEW w \in Writers,
                    \/ \E batch \in SUBSET Events : Ingest(w, batch)
                    \/ \E e \in Orphans : RecordOrphan(w, e)
                    \/ \E engine \in Engines : ReevaluateRun(w, engine)
                    \/ Clear(w) \/ Select(w) \/ Evaluate(w) \/ Finish(w)
                    \/ EvaluateRefused(w) \/ Persist(w) \/ PersistRefused(w) \/ Dies(w)
             PROVE  job' \in [Writers -> JobRow]
  BY DEF Next
<1>1. ASSUME NEW j \in JobRow, Becomes(w, j) PROVE job' \in [Writers -> JobRow]
  BY <1>1 DEF Becomes
<1>2. job[w] \in JobRow
  OBVIOUS
<1>3. job[w].todo \subseteq Events /\ job[w].step \in 0 .. 9
  BY <1>2 DEF JobRow
<1>4. ASSUME NEW batch \in SUBSET Events, Ingest(w, batch) PROVE job' \in [Writers -> JobRow]
  BY <1>1, <1>4, IdleIsJob, JobUpdate DEF Ingest
<1>5. ASSUME NEW e \in Orphans, RecordOrphan(w, e) PROVE job' \in [Writers -> JobRow]
  <2>1. {e} \in SUBSET Events
    BY EnginesAssumption DEF EnginesAssumption
  <2> QED
    BY <1>1, <1>5, <2>1, IdleIsJob, JobUpdate DEF RecordOrphan
<1>6. ASSUME NEW engine \in Engines, ReevaluateRun(w, engine)
      PROVE  job' \in [Writers -> JobRow]
  <2>1. MaxReplays \in Nat
    BY EnginesAssumption DEF EnginesAssumption
  <2>2. replays < MaxReplays
    BY <1>6 DEF ReevaluateRun
  <2>3. replays + 1 \in 0 .. MaxReplays
    BY <2>1, <2>2
  <2> QED
    BY <1>1, <1>6, <2>3, IdleIsJob, JobUpdate DEF ReevaluateRun
<1>7. CASE Clear(w)
  <2>1. job[w].step + 1 \in 0 .. 9
    BY <1>3, <1>7 DEF StepInv, StepOf, Clear
  <2>2. [job[w] EXCEPT !.at = "select", !.step = 0] \in JobRow
    BY <1>2, JobUpdate
  <2>3. [job[w] EXCEPT !.step = @ + 1] \in JobRow
    BY <1>2, <2>1, JobUpdate
  <2> QED
    BY <1>1, <1>7, <2>2, <2>3 DEF Clear
<1>8. CASE Select(w)
  BY <1>1, <1>2, <1>8, JobUpdate DEF Select
<1>9. CASE Evaluate(w)
  <2> DEFINE e == First(job[w].todo)
             rest == job[w].todo \ {e}
  <2>1. e \in Events /\ rest \in SUBSET Events
    BY <1>3, <1>9, FirstInSet DEF Evaluate
  <2>2. [job[w] EXCEPT !.todo = rest] \in JobRow
    BY <1>2, <2>1, JobUpdate
  <2>3. [job[w] EXCEPT !.at = "persist", !.step = 2, !.event = e, !.todo = rest] \in JobRow
    BY <1>2, <2>1, JobUpdate
  <2> QED
    BY <1>1, <1>9, <2>2, <2>3 DEF Evaluate
<1>10. CASE Finish(w)
  BY <1>1, <1>10, IdleIsJob DEF Finish
<1>11. ASSUME NEW rest \in SUBSET Events, Fails(w, rest) PROVE job' \in [Writers -> JobRow]
  <2>1. [job[w] EXCEPT !.at = "evaluate", !.step = 0, !.todo = rest] \in JobRow
    BY <1>2, JobUpdate
  <2> QED
    BY <1>1, <1>11, <2>1, IdleIsJob DEF Fails
<1>12. ASSUME job[w].at = "persist", Advances(w) PROVE job' \in [Writers -> JobRow]
  <2>1. job[w].event \in Events
    BY <1>12 DEF StepInv, StepOf
  <2>2. ASSUME job[w].step < Len(Statements(job[w].event)) PROVE job[w].step + 1 \in 0 .. 9
    <3>1. Len(Statements(job[w].event)) \in 8 .. 9
      BY <2>1, AfterTheDecision
    <3>2. \A x \in 0 .. 9, l \in 8 .. 9 : x < l => x + 1 \in 0 .. 9
      OBVIOUS
    <3> QED
      BY <1>3, <2>2, <3>1, <3>2
  <2>3. [job[w] EXCEPT !.at = "evaluate", !.step = 0] \in JobRow
    BY <1>2, JobUpdate
  <2>4. job[w].step + 1 \in 0 .. 9 => [job[w] EXCEPT !.step = @ + 1] \in JobRow
    BY <1>2, JobUpdate
  <2> QED
    BY <1>1, <1>12, <2>2, <2>3, <2>4 DEF Advances
<1>13. CASE EvaluateRefused(w)
  BY <1>3, <1>11, <1>13 DEF EvaluateRefused
<1>14. CASE Persist(w)
  BY <1>12, <1>14 DEF Persist
<1>15. CASE PersistRefused(w)
  BY <1>3, <1>11, <1>12, <1>15 DEF PersistRefused
<1>16. CASE Dies(w)
  BY <1>1, <1>16, IdleIsJob DEF Dies
<1> QED
  BY <1>4, <1>5, <1>6, <1>7, <1>8, <1>9, <1>10, <1>13, <1>14, <1>15, <1>16

(* A writer's action leaves the jobs of the others alone.                  *)
Acts(w) ==
  \/ \E batch \in SUBSET Events : Ingest(w, batch)
  \/ \E e \in Orphans : RecordOrphan(w, e)
  \/ \E engine \in Engines : ReevaluateRun(w, engine)
  \/ Clear(w) \/ Select(w) \/ Evaluate(w) \/ Finish(w)
  \/ EvaluateRefused(w) \/ Persist(w) \/ PersistRefused(w) \/ Dies(w)

LEMMA OthersAsTheyWere ==
  ASSUME job \in [Writers -> JobRow], NEW w \in Writers, Acts(w)
  PROVE  \A v \in Writers \ {w} : job'[v] = job[v]
<1>1. ASSUME NEW j, Becomes(w, j) PROVE \A v \in Writers \ {w} : job'[v] = job[v]
  BY <1>1 DEF Becomes
<1>2. ASSUME NEW batch \in SUBSET Events, Ingest(w, batch)
      PROVE  \A v \in Writers \ {w} : job'[v] = job[v]
  BY <1>1, <1>2 DEF Ingest
<1>3. ASSUME NEW e \in Orphans, RecordOrphan(w, e)
      PROVE  \A v \in Writers \ {w} : job'[v] = job[v]
  BY <1>1, <1>3 DEF RecordOrphan
<1>4. ASSUME NEW engine \in Engines, ReevaluateRun(w, engine)
      PROVE  \A v \in Writers \ {w} : job'[v] = job[v]
  BY <1>1, <1>4 DEF ReevaluateRun
<1>5. CASE Clear(w)
  BY <1>1, <1>5 DEF Clear
<1>6. CASE Select(w)
  BY <1>1, <1>6 DEF Select
<1>7. CASE Evaluate(w)
  BY <1>1, <1>7 DEF Evaluate
<1>8. CASE Finish(w)
  BY <1>1, <1>8 DEF Finish
<1>9. CASE EvaluateRefused(w)
  BY <1>1, <1>9 DEF EvaluateRefused, Fails
<1>10. CASE Persist(w)
  BY <1>1, <1>10 DEF Persist, Advances
<1>11. CASE PersistRefused(w)
  BY <1>1, <1>11 DEF PersistRefused, Fails, Advances
<1>12. CASE Dies(w)
  BY <1>1, <1>12 DEF Dies
<1> QED
  BY <1>2, <1>3, <1>4, <1>5, <1>6, <1>7, <1>8, <1>9, <1>10, <1>11, <1>12 DEF Acts

(* The step and the orphan of each job stay in range.                      *)
LEMMA StepStep ==
  ASSUME job \in [Writers -> JobRow], StepInv, OrphanInv, NEW w \in Writers, Acts(w)
  PROVE  StepInv' /\ OrphanInv'
<1> DEFINE Good(j) == StepOf(j) /\ OrphanOf(j)
<1>1. ASSUME NEW j, Becomes(w, j), Good(j) PROVE StepInv' /\ OrphanInv'
  <2>1. job'[w] = j
    BY <1>1 DEF Becomes
  <2>2. \A v \in Writers : Good(job'[v])
    BY <1>1, <2>1, OthersAsTheyWere DEF StepInv, OrphanInv
  <2> QED
    BY <2>2 DEF StepInv, OrphanInv
<1>2. job[w] \in JobRow /\ Good(job[w])
  BY DEF StepInv, OrphanInv
<1>3. job[w].todo \subseteq Events /\ job[w].step \in 0 .. 9
  BY <1>2 DEF JobRow
<1>4. Good(Idle)
  BY DEF Idle, StepOf, OrphanOf
<1>5. ASSUME NEW batch \in SUBSET Events, Ingest(w, batch) PROVE StepInv' /\ OrphanInv'
  <2>1. Good([Idle EXCEPT !.at = "evaluate", !.kind = "live", !.todo = batch])
    BY DEF Idle, StepOf, OrphanOf
  <2> HIDE DEF Good
  <2> QED
    BY <1>1, <1>5, <2>1 DEF Ingest
<1>6. ASSUME NEW e \in Orphans, RecordOrphan(w, e) PROVE StepInv' /\ OrphanInv'
  <2>1. Good([Idle EXCEPT !.at = "evaluate", !.kind = "orphan", !.todo = {e}])
    BY DEF Idle, StepOf, OrphanOf
  <2> HIDE DEF Good
  <2> QED
    BY <1>1, <1>6, <2>1 DEF RecordOrphan
<1>7. ASSUME NEW engine \in Engines, ReevaluateRun(w, engine) PROVE StepInv' /\ OrphanInv'
  <2>1. Good([Idle EXCEPT !.at = "clear", !.kind = "replay", !.engine = engine,
                          !.n = replays + 1, !.step = 1])
    BY DEF Idle, StepOf, OrphanOf
  <2> HIDE DEF Good
  <2> QED
    BY <1>1, <1>7, <2>1 DEF ReevaluateRun
<1>8. CASE Clear(w)
  <2>1. job[w].at = "clear" /\ job[w].step \in 1 .. 6 /\ job[w].kind # "orphan"
    BY <1>2, <1>8 DEF Clear, StepOf, OrphanOf
  <2>2. Good([job[w] EXCEPT !.at = "select", !.step = 0])
    BY <1>2, <2>1 DEF StepOf, OrphanOf, JobRow
  <2>3. ASSUME job[w].step # 6 PROVE Good([job[w] EXCEPT !.step = @ + 1])
    <3>1. job[w].step + 1 \in 1 .. 6
      BY <2>1, <2>3
    <3> QED
      BY <1>2, <2>1, <3>1 DEF StepOf, OrphanOf, JobRow
  <2>4. Len(Clears) = 6
    BY DEF Clears
  <2> HIDE DEF Good
  <2> QED
    BY <1>1, <1>8, <2>2, <2>3, <2>4 DEF Clear
<1>9. CASE Select(w)
  <2>1. job[w].at = "select" /\ job[w].kind # "orphan"
    BY <1>2, <1>9 DEF Select, OrphanOf
  <2>2. Good([job[w] EXCEPT !.at = "evaluate", !.todo = stored])
    BY <1>2, <2>1 DEF StepOf, OrphanOf, JobRow
  <2> HIDE DEF Good
  <2> QED
    BY <1>1, <1>9, <2>2 DEF Select
<1>10. CASE Evaluate(w)
  <2> DEFINE e == First(job[w].todo)
             rest == job[w].todo \ {e}
  <2>1. e \in job[w].todo /\ e \in Events /\ job[w].at = "evaluate"
    BY <1>3, <1>10, FirstInSet DEF Evaluate
  <2>2. job[w].kind = "orphan" => Decision(w, e) # "allow"
    BY DEF Decision
  <2>3. job[w].kind = "orphan" => e \in Orphans /\ rest \subseteq Orphans
    BY <1>2, <2>1 DEF OrphanOf
  <2> HIDE DEF e, rest
  <2>4. Decision(w, e) = "allow" => Good([job[w] EXCEPT !.todo = rest])
    BY <1>2, <2>1, <2>2 DEF StepOf, OrphanOf, JobRow
  <2>5. 2 \in 2 .. Len(Statements(e))
    <3>1. Len(Statements(e)) \in 8 .. 9
      BY <2>1, AfterTheDecision
    <3>2. \A l \in 8 .. 9 : 2 \in 2 .. l
      OBVIOUS
    <3> QED
      BY <3>1, <3>2
  <2>6. Good([job[w] EXCEPT !.at = "persist", !.step = 2, !.event = e, !.todo = rest])
    BY <1>2, <2>1, <2>3, <2>5 DEF StepOf, OrphanOf, JobRow
  <2> HIDE DEF Good
  <2> QED
    BY <1>1, <1>10, <2>4, <2>6 DEF Evaluate, e, rest
<1>11. CASE Finish(w)
  BY <1>1, <1>4, <1>11 DEF Finish
<1>12. ASSUME NEW rest \in SUBSET Events, Fails(w, rest) PROVE StepInv' /\ OrphanInv'
  <2>1. job[w].kind = "live" => Good([job[w] EXCEPT !.at = "evaluate", !.step = 0, !.todo = rest])
    BY <1>2 DEF StepOf, OrphanOf, JobRow
  <2> HIDE DEF Good
  <2> QED
    BY <1>1, <1>4, <1>12, <2>1 DEF Fails
<1>13. ASSUME job[w].at = "persist", Advances(w) PROVE StepInv' /\ OrphanInv'
  <2> DEFINE l == Len(Statements(job[w].event))
  <2>1. job[w].event \in Events /\ job[w].step \in 2 .. l
    BY <1>2, <1>13 DEF StepOf
  <2>2. l \in 8 .. 9
    BY <2>1, AfterTheDecision
  <2>3. ASSUME job[w].step < l PROVE Good([job[w] EXCEPT !.step = @ + 1])
    <3>1. \A x \in 0 .. 9, y \in 8 .. 9 : x \in 2 .. y /\ x < y => x + 1 \in 2 .. y
      OBVIOUS
    <3>2. job[w].step + 1 \in 2 .. l
      BY <1>3, <2>1, <2>2, <2>3, <3>1
    <3> QED
      BY <1>2, <1>13, <2>1, <3>2 DEF StepOf, OrphanOf, JobRow
  <2>4. Good([job[w] EXCEPT !.at = "evaluate", !.step = 0])
    BY <1>2, <1>13 DEF StepOf, OrphanOf, JobRow
  <2> HIDE DEF Good
  <2> QED
    BY <1>1, <1>13, <2>3, <2>4 DEF Advances
<1>14. CASE EvaluateRefused(w)
  BY <1>3, <1>12, <1>14 DEF EvaluateRefused
<1>15. CASE Persist(w)
  BY <1>13, <1>15 DEF Persist
<1>16. CASE PersistRefused(w)
  BY <1>3, <1>12, <1>13, <1>16 DEF PersistRefused
<1>17. CASE Dies(w)
  BY <1>1, <1>4, <1>17 DEF Dies
<1> QED
  BY <1>5, <1>6, <1>7, <1>8, <1>9, <1>10, <1>11, <1>14, <1>15, <1>16, <1>17 DEF Acts

-----------------------------------------------------------------------------
(* Type correctness.                                                       *)

Inv == TypeOK /\ StepInv /\ OrphanInv

LEMMA JobTyped == TypeOK => job \in [Writers -> JobRow]
  BY DEF TypeOK, JobRow

LEMMA TypeInit == Init => Inv
<1> SUFFICES ASSUME Init PROVE Inv
  OBVIOUS
<1>1. StepInv /\ OrphanInv
  BY DEF Init, Idle, StepInv, StepOf, OrphanInv, OrphanOf
<1>2. job \in [Writers -> JobRow]
  BY IdleIsJob DEF Init
<1>3. replays \in 0 .. MaxReplays /\ faults \in 0 .. MaxFaults
  BY EnginesAssumption DEF Init, EnginesAssumption
<1> QED
  BY <1>1, <1>2, <1>3 DEF Init, Inv, TypeOK, JobRow

LEMMA TypeStep ==
  ASSUME Inv, NEW w \in Writers, Acts(w)
  PROVE  Inv'
<1>1. job \in [Writers -> JobRow] /\ job[w] \in JobRow
  BY JobTyped DEF Inv
<1>2. StepInv' /\ OrphanInv'
  BY <1>1, StepStep DEF Inv
<1>3. StepOf(job[w]) /\ OrphanOf(job[w])
  BY DEF Inv, StepInv, OrphanInv
<1>4. stored' \subseteq Events
  <2>1. \A e \in Orphans : e \in Events
    BY EnginesAssumption DEF EnginesAssumption
  <2> QED
    BY <2>1 DEF Inv, TypeOK, Acts, Ingest, RecordOrphan, ReevaluateRun, Clear, Select, Evaluate,
                Finish, EvaluateRefused, Persist, PersistRefused, Dies
<1>5. job' \in [Writers -> JobRow]
  BY <1>1, <1>4, JobStep DEF Next, Acts, Inv, TypeOK
<1>6. rows' \in [Chains -> SUBSET Kinds]
  <2>1. rows \in [Chains -> SUBSET Kinds]
    BY DEF Inv, TypeOK
  <2>2. CASE Clear(w)
    BY <2>1, <2>2 DEF Clear
  <2>3. CASE Evaluate(w)
    BY <2>1, <2>3 DEF Evaluate, Kinds
  <2>4. CASE Persist(w)
    <3>1. job[w].event \in Events /\ job[w].step \in 2 .. Len(Statements(job[w].event))
      BY <1>3, <2>4 DEF Persist, StepOf
    <3>2. Row(w) \in Kinds
      <4>1. Current(w) \in Kinds
        BY <3>1, AfterTheDecision DEF Current
      <4> QED
        BY <4>1 DEF Row, Kinds
    <3> QED
      BY <2>1, <2>4, <3>2 DEF Persist
  <2> QED
    BY <2>1, <2>2, <2>3, <2>4 DEF Acts, Ingest, RecordOrphan, ReevaluateRun, Select, Finish,
                                  EvaluateRefused, PersistRefused, Dies
<1>7. status' \in {"running", "quarantined", "stopped"}
  BY DEF Inv, TypeOK, Acts, Ingest, RecordOrphan, ReevaluateRun, Clear, Select, Evaluate,
         Finish, EvaluateRefused, Persist, StatusAfter, PersistRefused, Dies
<1>8. evidence' \subseteq Orphans
  <2>1. evidence \subseteq Orphans
    BY DEF Inv, TypeOK
  <2>2. CASE Finish(w)
    BY <1>3, <2>1, <2>2 DEF Finish, OrphanOf
  <2> QED
    BY <2>1, <2>2 DEF Acts, Ingest, RecordOrphan, ReevaluateRun, Clear, Select, Evaluate,
                      EvaluateRefused, Persist, PersistRefused, Dies
<1>9. replays' \in 0 .. MaxReplays
  <2>1. MaxReplays \in Nat /\ replays \in 0 .. MaxReplays
    BY EnginesAssumption DEF EnginesAssumption, Inv, TypeOK
  <2>2. ASSUME NEW engine \in Engines, ReevaluateRun(w, engine) PROVE replays' \in 0 .. MaxReplays
    <3>1. replays < MaxReplays /\ replays' = replays + 1
      BY <2>2 DEF ReevaluateRun
    <3> QED
      BY <2>1, <3>1
  <2> QED
    BY <2>1, <2>2 DEF Acts, Ingest, RecordOrphan, Clear, Select, Evaluate, Finish,
                      EvaluateRefused, Persist, PersistRefused, Dies
<1>10. faults' \in 0 .. MaxFaults
  <2>1. MaxFaults \in Nat /\ faults \in 0 .. MaxFaults
    BY EnginesAssumption DEF EnginesAssumption, Inv, TypeOK
  <2>2. Fault => faults' \in 0 .. MaxFaults
    BY <2>1 DEF Fault
  <2> QED
    BY <2>1, <2>2 DEF Acts, Ingest, RecordOrphan, ReevaluateRun, Clear, Select, Evaluate, Finish,
                      EvaluateRefused, Persist, PersistRefused, Dies
<1>11. torn' \subseteq Chains
  <2>1. torn \subseteq Chains
    BY DEF Inv, TypeOK
  <2>2. job[w].at = "persist" => Chain(w) \in Chains
    BY <1>1, <1>3 DEF StepOf, Chain, Chains, JobRow
  <2>3. Dies(w) \/ PersistRefused(w) \/ Clear(w) \/ torn' = torn
    BY DEF Acts, Ingest, RecordOrphan, ReevaluateRun, Select, Evaluate, Finish,
           EvaluateRefused, Persist
  <2>4. CASE Dies(w)
    BY <2>1, <2>2, <2>4 DEF Dies
  <2>5. CASE PersistRefused(w)
    BY <2>1, <2>2, <2>5 DEF PersistRefused
  <2>6. CASE Clear(w)
    BY <2>1, <2>6 DEF Clear
  <2> QED
    BY <2>1, <2>3, <2>4, <2>5, <2>6
<1>12. alone' \subseteq Writers
  BY DEF Inv, TypeOK, Acts, Ingest, RecordOrphan, ReevaluateRun, Begins, Clear, Select, Evaluate,
         Finish, EvaluateRefused, Persist, PersistRefused, Dies
<1>13. latest' \subseteq Engines
  <2>1. job[w].engine \in Engines
    BY <1>1 DEF JobRow
  <2> QED
    BY <2>1 DEF Inv, TypeOK, Acts, Ingest, RecordOrphan, ReevaluateRun, Begins, Clear, Select,
                Evaluate, Finish, EvaluateRefused, Persist, PersistRefused, Dies
<1> QED
  BY <1>2, <1>4, <1>5, <1>6, <1>7, <1>8, <1>9, <1>10, <1>11, <1>12, <1>13 DEF Inv, TypeOK, JobRow

LEMMA TypeStutter == Inv /\ UNCHANGED vars => Inv'
  BY DEF Inv, vars, TypeOK, StepInv, OrphanInv

(* Every variable stays in its type: the writers' steps stay within the    *)
(* statements of the code, and an orphan's evidence names an orphan.       *)
THEOREM TypeCorrect == Spec => []TypeOK
<1>1. Inv /\ [Next]_vars => Inv'
  BY TypeStep, TypeStutter DEF Next, Acts
<1>2. Inv => TypeOK
  BY DEF Inv
<1> QED
  BY TypeInit, <1>1, <1>2, PTL DEF Spec

-----------------------------------------------------------------------------
(* A decision stands whole.                                                *)

(* What still explains a missing row, split by the writer that explains    *)
(* it: nothing but a step of that writer can end the explanation.          *)
DeletedBy(w, kind) ==
  job[w].at = "clear" /\ ClearedAt(kind) < job[w].step /\ job[w].step <= 5
ComesFrom(w, c, kind) ==
  /\ job[w].at = "persist" /\ Chain(w) = c
  /\ \E i \in job[w].step .. Len(Statements(job[w].event)) : Statements(job[w].event)[i] = kind
Explained(c, kind) ==
  kind \in rows[c] \/ \E w \in Writers : DeletedBy(w, kind) \/ ComesFrom(w, c, kind)

LEMMA ExplainedIs ==
  WholeInv <=> \A c \in Chains \ torn : "decision" \in rows[c] =>
                 \A kind \in Needed(c) : Explained(c, kind)
  BY DEF WholeInv, Deleting, ToCome, DeletedBy, ComesFrom, Explained

LEMMA OthersExplain ==
  ASSUME NEW v \in Writers, job'[v] = job[v], NEW c, NEW kind
  PROVE  /\ DeletedBy(v, kind) => DeletedBy(v, kind)'
         /\ ComesFrom(v, c, kind) => ComesFrom(v, c, kind)'
  BY DEF DeletedBy, ComesFrom, Chain

(* Where a writer neither persists nor deletes it explains nothing, so an  *)
(* action that leaves the rows and the torn chains as they are keeps the   *)
(* invariant.                                                              *)
LEMMA QuietStep ==
  ASSUME job \in [Writers -> JobRow], WholeInv, NEW w \in Writers, Acts(w),
         job[w].at \in {"idle", "select", "evaluate"}, rows' = rows, torn' = torn
  PROVE  WholeInv'
<1> SUFFICES ASSUME NEW c \in Chains \ torn, "decision" \in rows[c], NEW kind \in Needed(c)
             PROVE  Explained(c, kind)'
  <2>1. WholeInv' <=> \A c \in Chains \ torn' : "decision" \in rows'[c] =>
                        \A kind \in Needed(c) : Explained(c, kind)'
    BY DEF WholeInv, Deleting, ToCome, DeletedBy, ComesFrom, Explained
  <2> QED
    BY <2>1
<1>1. Explained(c, kind)
  BY ExplainedIs
<1>2. CASE kind \in rows[c]
  BY <1>2 DEF Explained
<1>3. ASSUME NEW v \in Writers, DeletedBy(v, kind) \/ ComesFrom(v, c, kind)
      PROVE  Explained(c, kind)'
  <2>1. v # w
    BY <1>3 DEF DeletedBy, ComesFrom
  <2>2. job'[v] = job[v]
    BY <2>1, OthersAsTheyWere
  <2> QED
    BY <1>3, <2>2, OthersExplain DEF Explained
<1> QED
  BY <1>1, <1>2, <1>3 DEF Explained

LEMMA NeededKinds ==
  ASSUME NEW c, NEW kind \in Needed(c)
  PROVE  kind \in {"event_edge", "risk", "signal", "action", "session_edge"}
  BY DEF Needed

(* A deletion is explained until the decisions themselves are deleted.     *)
LEMMA WholeClear ==
  ASSUME Inv, WholeInv, NEW w \in Writers, Clear(w)
  PROVE  WholeInv'
<1> SUFFICES ASSUME NEW c \in Chains \ torn', "decision" \in rows'[c], NEW kind \in Needed(c)
             PROVE  Explained(c, kind)'
  <2>1. WholeInv' <=> \A c \in Chains \ torn' : "decision" \in rows'[c] =>
                        \A kind \in Needed(c) : Explained(c, kind)'
    BY DEF WholeInv, Deleting, ToCome, DeletedBy, ComesFrom, Explained
  <2> QED
    BY <2>1
<1>1. job \in [Writers -> JobRow] /\ job[w] \in JobRow
  BY JobTyped DEF Inv
<1>2. job[w].at = "clear" /\ job[w].step \in 1 .. 6
  BY DEF Clear, Inv, StepInv, StepOf
<1>3. rows'[c] = rows[c] \ Clears[job[w].step]
  BY DEF Clear
<1>4. /\ Clears[1] = Edges /\ Clears[2] = {"signal"} /\ Clears[3] = {"action"}
      /\ Clears[4] = {"risk"} /\ Clears[5] = {"decision"} /\ Clears[6] = {"cost"}
      /\ Len(Clears) = 6
  BY DEF Clears
<1>5. "decision" \in rows[c] /\ job[w].step # 5
  BY <1>3, <1>4
<1>6. c \notin torn
  BY <1>5 DEF Clear, Exists
<1>7. Explained(c, kind)
  BY <1>5, <1>6, ExplainedIs
<1>8. Acts(w)
  BY DEF Acts
<1>9. ASSUME job[w].step <= 4 PROVE job'[w].at = "clear" /\ job'[w].step = job[w].step + 1
  <2>0. job[w].step # Len(Clears)
    BY <1>2, <1>4, <1>9
  <2>1. job' = [job EXCEPT ![w] = [job[w] EXCEPT !.step = @ + 1]]
    BY <2>0 DEF Clear, Becomes
  <2>2. job'[w] = [job[w] EXCEPT !.step = @ + 1]
    BY <1>1, <2>1
  <2> QED
    BY <1>1, <1>2, <2>2 DEF JobRow
<1>10. CASE kind \in rows[c]
  <2>1. CASE kind \in rows'[c]
    BY <2>1 DEF Explained
  <2>2. CASE kind \in Clears[job[w].step]
    <3>1. kind \in {"event_edge", "risk", "signal", "action", "session_edge"}
      BY NeededKinds
    <3>2. job[w].step \in {1, 2, 3, 4, 5, 6}
      BY <1>2
    <3>3. job[w].step \in {1, 2, 3, 4} /\ ClearedAt(kind) = job[w].step
      BY <1>4, <1>5, <2>2, <3>1, <3>2 DEF ClearedAt, Edges
    <3>4. DeletedBy(w, kind)'
      BY <1>9, <3>3 DEF DeletedBy
    <3> QED
      BY <3>4 DEF Explained
  <2> QED
    BY <1>3, <1>10, <2>1, <2>2
<1>11. ASSUME NEW v \in Writers, DeletedBy(v, kind) \/ ComesFrom(v, c, kind)
       PROVE  Explained(c, kind)'
  <2>1. CASE v = w
    <3>1. ClearedAt(kind) < job[w].step /\ job[w].step <= 4
      BY <1>2, <1>5, <1>11, <2>1 DEF DeletedBy, ComesFrom
    <3>2. kind \in {"event_edge", "risk", "signal", "action", "session_edge"}
      BY NeededKinds
    <3>3. ClearedAt(kind) \in 1 .. 4
      BY <3>2 DEF ClearedAt, Edges
    <3>4. DeletedBy(w, kind)'
      BY <1>2, <1>9, <3>1, <3>3 DEF DeletedBy
    <3> QED
      BY <3>4 DEF Explained
  <2>2. CASE v # w
    <3>1. job'[v] = job[v]
      BY <1>1, <1>8, <2>2, OthersAsTheyWere
    <3> QED
      BY <1>11, <3>1, OthersExplain DEF Explained
  <2> QED
    BY <2>1, <2>2
<1> QED
  BY <1>7, <1>10, <1>11 DEF Explained

(* A new decision has all of its other rows still to come.                 *)
LEMMA WholeEvaluate ==
  ASSUME Inv, WholeInv, NEW w \in Writers, Evaluate(w)
  PROVE  WholeInv'
<1> DEFINE e == First(job[w].todo)
           rest == job[w].todo \ {e}
           d == <<e, job[w].n>>
<1>1. job \in [Writers -> JobRow] /\ job[w] \in JobRow
  BY JobTyped DEF Inv
<1>2. Acts(w) /\ job[w].at = "evaluate" /\ torn' = torn
  BY DEF Acts, Evaluate
<1>3. CASE Decision(w, e) = "allow"
  BY <1>1, <1>2, <1>3, QuietStep DEF Evaluate
<1>4. CASE Decision(w, e) # "allow"
  <2> SUFFICES ASSUME NEW c \in Chains \ torn, "decision" \in rows'[c], NEW kind \in Needed(c)
               PROVE  Explained(c, kind)'
    <3>1. WholeInv' <=> \A c \in Chains \ torn' : "decision" \in rows'[c] =>
                          \A kind \in Needed(c) : Explained(c, kind)'
      BY DEF WholeInv, Deleting, ToCome, DeletedBy, ComesFrom, Explained
    <3> QED
      BY <1>2, <3>1
  <2>1. e \in Events
    BY <1>1, FirstInSet DEF Evaluate, JobRow
  <2>2. rows' = [rows EXCEPT ![d] = {"decision"}]
    BY <1>4 DEF Evaluate
  <2>3. job' = [job EXCEPT ![w] = [job[w] EXCEPT !.at = "persist", !.step = 2, !.event = e,
                                                 !.todo = rest]]
    BY <1>4 DEF Evaluate, Becomes
  <2>4. CASE c = d
    <3> HIDE DEF e, rest
    <3>1. job'[w] = [job[w] EXCEPT !.at = "persist", !.step = 2, !.event = e, !.todo = rest]
      BY <1>1, <2>3
    <3>2. /\ job'[w].at = "persist" /\ job'[w].step = 2 /\ job'[w].event = e
          /\ job'[w].n = job[w].n
      BY <1>1, <3>1 DEF JobRow
    <3>3. PICK i \in 2 .. Len(Statements(e)) : Statements(e)[i] = kind
      <4>1. job[w].n \in 0 .. MaxReplays
        BY <1>1 DEF JobRow
      <4> QED
        BY <2>1, <2>4, <4>1, AfterTheDecision
    <3>4. ComesFrom(w, c, kind)'
      BY <2>4, <3>2, <3>3 DEF ComesFrom, Chain
    <3> QED
      BY <3>4 DEF Explained
  <2>5. CASE c # d
    <3>1. rows'[c] = rows[c]
      BY <2>2, <2>5 DEF Inv, TypeOK
    <3>2. Explained(c, kind)
      BY <3>1, ExplainedIs
    <3>3. ASSUME NEW v \in Writers, DeletedBy(v, kind) \/ ComesFrom(v, c, kind)
          PROVE  Explained(c, kind)'
      <4>1. v # w
        BY <1>2, <3>3 DEF DeletedBy, ComesFrom
      <4>2. job'[v] = job[v]
        BY <1>1, <1>2, <4>1, OthersAsTheyWere
      <4> QED
        BY <3>3, <4>2, OthersExplain DEF Explained
    <3> QED
      BY <3>1, <3>2, <3>3 DEF Explained
  <2> QED
    BY <2>4, <2>5
<1> QED
  BY <1>3, <1>4

(* A row that no longer is to come is there.                               *)
LEMMA WholePersist ==
  ASSUME Inv, WholeInv, NEW w \in Writers, Persist(w)
  PROVE  WholeInv'
<1> SUFFICES ASSUME NEW c \in Chains \ torn, "decision" \in rows'[c], NEW kind \in Needed(c)
             PROVE  Explained(c, kind)'
  <2>1. WholeInv' <=> \A c \in Chains \ torn' : "decision" \in rows'[c] =>
                        \A kind \in Needed(c) : Explained(c, kind)'
    BY DEF WholeInv, Deleting, ToCome, DeletedBy, ComesFrom, Explained
  <2>2. torn' = torn
    BY DEF Persist
  <2> QED
    BY <2>1, <2>2
<1>1. job \in [Writers -> JobRow] /\ job[w] \in JobRow
  BY JobTyped DEF Inv
<1>2. Acts(w) /\ job[w].at = "persist"
  BY DEF Acts, Persist
<1> DEFINE s == Statements(job[w].event)
           k == job[w].step
<1>3. /\ job[w].event \in Events /\ k \in 2 .. Len(s) /\ Len(s) \in 8 .. 9
      /\ s[k] \in Kinds \ {"decision", "zero_cost"}
  <2>1. job[w].event \in Events /\ k \in 2 .. Len(s)
    BY <1>2 DEF Inv, StepInv, StepOf
  <2> QED
    BY <2>1, AfterTheDecision
<1>4. rows \in [Chains -> SUBSET Kinds] /\ rows' = [rows EXCEPT ![Chain(w)] = @ \cup {Row(w)}]
  BY DEF Inv, TypeOK, Persist
<1>5. Row(w) # "decision" /\ (s[k] # "cost" => Row(w) = s[k])
  BY <1>3 DEF Row, Current
<1>6. "decision" \in rows[c] /\ rows[c] \subseteq rows'[c]
  BY <1>4, <1>5
<1>7. Explained(c, kind)
  BY <1>6, ExplainedIs
<1>8. CASE kind \in rows[c]
  BY <1>6, <1>8 DEF Explained
<1>9. ASSUME NEW v \in Writers, v # w, DeletedBy(v, kind) \/ ComesFrom(v, c, kind)
      PROVE  Explained(c, kind)'
  <2>1. job'[v] = job[v]
    BY <1>1, <1>2, <1>9, OthersAsTheyWere
  <2> QED
    BY <1>9, <2>1, OthersExplain DEF Explained
<1>10. ASSUME ComesFrom(w, c, kind)
       PROVE  Explained(c, kind)'
  <2>1. PICK i \in k .. Len(s) : s[i] = kind
    BY <1>10 DEF ComesFrom
  <2>2. Chain(w) = c /\ kind # "cost"
    BY <1>10, NeededKinds DEF ComesFrom
  <2>3. CASE i = k
    <3>1. kind \in rows'[c]
      BY <1>4, <1>5, <2>1, <2>2, <2>3
    <3> QED
      BY <3>1 DEF Explained
  <2>4. CASE i # k
    <3>1. k < Len(s) /\ i \in k + 1 .. Len(s)
      <4> DEFINE l == Len(s)
      <4>1. l \in Nat /\ k \in Nat /\ i \in k .. l
        BY <1>3, <2>1
      <4> HIDE DEF l, k
      <4> QED
        BY <2>4, <4>1
    <3>2. job' = [job EXCEPT ![w] = [job[w] EXCEPT !.step = k + 1]]
      BY <3>1 DEF Persist, Advances, Becomes
    <3>3. job'[w] = [job[w] EXCEPT !.step = k + 1]
      BY <1>1, <3>2
    <3>4. /\ job'[w].at = "persist" /\ job'[w].step = k + 1 /\ job'[w].event = job[w].event
          /\ job'[w].n = job[w].n
      BY <1>1, <1>2, <3>3 DEF JobRow
    <3>5. ComesFrom(w, c, kind)'
      BY <2>1, <2>2, <3>1, <3>4 DEF ComesFrom, Chain
    <3> QED
      BY <3>5 DEF Explained
  <2> QED
    BY <2>3, <2>4
<1>11. ~DeletedBy(w, kind)
  BY <1>2 DEF DeletedBy
<1> QED
  BY <1>7, <1>8, <1>9, <1>10, <1>11 DEF Explained

(* The chain of a writer that is refused a row, or dies, is torn; so is    *)
(* every chain when a reevaluation dies while it deletes.                  *)
LEMMA WholeTorn ==
  ASSUME Inv, WholeInv, NEW w \in Writers, PersistRefused(w) \/ Dies(w),
         job[w].at \in {"clear", "persist"}
  PROVE  WholeInv'
<1>1. job \in [Writers -> JobRow]
  BY JobTyped DEF Inv
<1>2. Acts(w) /\ rows' = rows
  BY DEF Acts, PersistRefused, Dies
<1> SUFFICES ASSUME NEW c \in Chains \ torn', "decision" \in rows[c], NEW kind \in Needed(c)
             PROVE  Explained(c, kind)'
  <2>1. WholeInv' <=> \A c \in Chains \ torn' : "decision" \in rows'[c] =>
                        \A kind \in Needed(c) : Explained(c, kind)'
    BY DEF WholeInv, Deleting, ToCome, DeletedBy, ComesFrom, Explained
  <2> QED
    BY <1>2, <2>1
<1>3. c \notin torn
  BY DEF PersistRefused, Dies
<1>4. Explained(c, kind)
  BY <1>3, ExplainedIs
<1>5. job[w].at = "persist" /\ Chain(w) # c
  BY DEF PersistRefused, Dies, Exists
<1>6. ASSUME NEW v \in Writers, DeletedBy(v, kind) \/ ComesFrom(v, c, kind)
      PROVE  Explained(c, kind)'
  <2>1. v # w
    BY <1>5, <1>6 DEF DeletedBy, ComesFrom
  <2>2. job'[v] = job[v]
    BY <1>1, <1>2, <2>1, OthersAsTheyWere
  <2> QED
    BY <1>6, <2>2, OthersExplain DEF Explained
<1> QED
  BY <1>2, <1>4, <1>6 DEF Explained

LEMMA WholeStep ==
  ASSUME Inv, WholeInv, [Next]_vars
  PROVE  WholeInv'
<1>1. CASE UNCHANGED vars
  BY <1>1 DEF vars, WholeInv, Deleting, ToCome, Chain
<1>2. ASSUME NEW w \in Writers, Acts(w) PROVE WholeInv'
  <2>1. job \in [Writers -> JobRow] /\ job[w] \in JobRow
    BY JobTyped DEF Inv
  <2>2. CASE Clear(w)
    BY <2>2, WholeClear
  <2>3. CASE Evaluate(w)
    BY <2>3, WholeEvaluate
  <2>4. CASE Persist(w)
    BY <2>4, WholePersist
  <2>5. CASE PersistRefused(w)
    BY <2>5, WholeTorn DEF PersistRefused
  <2>6. CASE Dies(w)
    <3>1. CASE job[w].at \in {"clear", "persist"}
      BY <2>6, <3>1, WholeTorn
    <3>2. CASE job[w].at \notin {"clear", "persist"}
      <4>1. job[w].at \in {"idle", "select", "evaluate"}
        BY <2>1, <3>2 DEF JobRow
      <4>2. rows' = rows /\ torn' = torn
        BY <2>6, <3>2 DEF Dies
      <4> QED
        BY <1>2, <2>1, <4>1, <4>2, QuietStep
    <3> QED
      BY <3>1, <3>2
  <2>7. ASSUME ~Clear(w), ~Evaluate(w), ~Persist(w), ~PersistRefused(w), ~Dies(w)
        PROVE  WholeInv'
    <3>1. /\ job[w].at \in {"idle", "select", "evaluate"}
          /\ rows' = rows /\ torn' = torn
      BY <1>2, <2>7 DEF Acts, Ingest, RecordOrphan, ReevaluateRun, Busy, Select, Finish,
                        EvaluateRefused
    <3> QED
      BY <1>2, <2>1, <3>1, QuietStep
  <2> QED
    BY <2>2, <2>3, <2>4, <2>5, <2>6, <2>7
<1> QED
  BY <1>1, <1>2 DEF Next, Acts

(* Whatever runs side by side, dies or is refused, and however often a run *)
(* is reevaluated: a decision outside torn and unfinished chains has every *)
(* row that hangs on it whenever no reevaluation is deleting.              *)
THEOREM DecisionsAreWhole == Spec => []DecisionsStandWhole
<1>1. Init => Inv /\ WholeInv
  BY TypeInit DEF Init, WholeInv
<1>2. Inv /\ WholeInv /\ [Next]_vars => (Inv /\ WholeInv)'
  BY TypeStep, TypeStutter, WholeStep DEF Next, Acts
<1>3. Inv /\ WholeInv => DecisionsStandWhole
  <2> SUFFICES ASSUME Inv, WholeInv, ~Clearing,
                      NEW c \in Chains \ (torn \cup Written), "decision" \in rows[c]
               PROVE  Needed(c) \subseteq rows[c]
    BY DEF DecisionsStandWhole, DecisionVerifies, Needed
  <2>1. ASSUME NEW kind \in Needed(c) PROVE kind \in rows[c]
    <3>1. ~Deleting(kind) /\ ~ToCome(c, kind)
      BY DEF Deleting, Clearing, ToCome, Written
    <3> QED
      BY <3>1 DEF WholeInv
  <2> QED
    BY <2>1
<1> QED
  BY <1>1, <1>2, <1>3, PTL DEF Spec
-----------------------------------------------------------------------------
(* A reevaluation that nothing runs beside.                                *)

(* The rows of a whole chain, but for the cost sample; what the rules of   *)
(* an engine leave of chain c once the reevaluation went through S.        *)
Full(c) == {Statements(c[1])[i] : i \in 1 .. Len(Statements(c[1]))} \ {"cost"}
Left(c, S, engine) ==
  IF c[1] \in S /\ c[2] = replays /\ Decide[engine][c[1]] # "allow"
  THEN Full(c) \subseteq rows[c]
  ELSE rows[c] \subseteq {"zero_cost"}

AloneAt(j) ==
  /\ j.kind = "replay" /\ j.n = replays
  /\ j.at \in {"clear", "select", "evaluate", "persist"}
  /\ j.at = "clear" => \A c \in Chains, i \in 1 .. j.step - 1 : rows[c] \cap Clears[i] = {}
  /\ j.at = "select" => \A c \in Chains : Left(c, {}, j.engine)
  /\ j.at \in {"evaluate", "persist"} => j.todo \subseteq stored
  /\ j.at = "evaluate" => \A c \in Chains : Left(c, stored \ j.todo, j.engine)
  /\ j.at = "persist" =>
       /\ j.event \in stored \ j.todo /\ Decide[j.engine][j.event] # "allow"
       /\ \A c \in Chains \ {<<j.event, j.n>>} : Left(c, stored \ j.todo, j.engine)
       /\ \A i \in 1 .. j.step - 1 :
            Statements(j.event)[i] \in rows[<<j.event, j.n>>] \cup {"cost"}
AloneInv ==
  \A w \in alone : /\ AloneAt(job[w])
                   /\ latest = {} /\ \A v \in Writers \ {w} : job[v].at = "idle"
LatestInv ==
  \A engine \in latest : /\ \A v \in Writers : job[v].at = "idle"
                         /\ \A c \in Chains : Left(c, stored, engine)

LEMMA FirstIsDecision ==
  ASSUME NEW e \in Events
  PROVE  /\ Statements(e)[1] = "decision"
         /\ Len(Statements(e)) \in {8, 9}
         /\ \A i \in 1 .. Len(Statements(e)) : Statements(e)[i] # "zero_cost"
<1>1. Statements(e)[1] = "decision"
  BY DEF Statements
<1>2. Len(Statements(e)) \in {8, 9}
  BY DEF Statements
<1>3. ASSUME NEW i \in 1 .. Len(Statements(e)) PROVE Statements(e)[i] # "zero_cost"
  <2>1. i = 1 \/ i \in 2 .. Len(Statements(e))
    BY <1>2
  <2> QED
    BY <1>1, <2>1, AfterTheDecision
<1> QED
  BY <1>1, <1>2, <1>3

(* A whole chain passes the checks of `graph verify`.                      *)
LEMMA FullVerifies ==
  ASSUME NEW c \in Chains, Full(c) \subseteq rows[c]
  PROVE  Verifies(c) /\ "decision" \in rows[c]
<1> DEFINE e == c[1]
<1>1. e \in Events /\ (e \in WithSession \/ e \notin WithSession)
  BY DEF Chains
<1>2. \A i \in 1 .. Len(Statements(e)) : Statements(e)[i] \in rows[c] \cup {"cost"}
  BY DEF Full
<1>3. CASE e \in WithSession
  <2> DEFINE s == <<"decision", "risk", "signal", "risk_edge", "event_edge", "session_edge",
                    "action", "action_edge", "cost">>
  <2>1. Statements(e) = s
    BY <1>3 DEF Statements
  <2>2. Len(s) = 9
    OBVIOUS
  <2>3. /\ s[1] = "decision" /\ s[2] = "risk" /\ s[3] = "signal" /\ s[4] = "risk_edge"
        /\ s[5] = "event_edge" /\ s[6] = "session_edge" /\ s[7] = "action"
        /\ s[8] = "action_edge"
    OBVIOUS
  <2> HIDE DEF s
  <2>4. \A i \in 1 .. 9 : s[i] \in rows[c] \cup {"cost"}
    BY <1>2, <2>1, <2>2
  <2>5. \A i \in {1, 2, 3, 4, 5, 6, 7, 8} : i \in 1 .. 9
    OBVIOUS
  <2>6. {"decision", "risk", "signal", "risk_edge", "event_edge", "session_edge", "action",
         "action_edge"} \subseteq rows[c]
    BY <2>3, <2>4, <2>5
  <2> QED
    BY <2>6 DEF Verifies, DecisionVerifies, RiskVerifies, ActionVerifies
<1>4. CASE e \notin WithSession
  <2> DEFINE s == <<"decision", "risk", "signal", "risk_edge", "event_edge", "action",
                    "action_edge", "cost">>
  <2>1. Statements(e) = s
    BY <1>4 DEF Statements
  <2>2. Len(s) = 8
    OBVIOUS
  <2>3. /\ s[1] = "decision" /\ s[2] = "risk" /\ s[3] = "signal" /\ s[4] = "risk_edge"
        /\ s[5] = "event_edge" /\ s[6] = "action" /\ s[7] = "action_edge"
    OBVIOUS
  <2> HIDE DEF s
  <2>4. \A i \in 1 .. 8 : s[i] \in rows[c] \cup {"cost"}
    BY <1>2, <2>1, <2>2
  <2>5. \A i \in {1, 2, 3, 4, 5, 6, 7} : i \in 1 .. 8
    OBVIOUS
  <2>6. {"decision", "risk", "signal", "risk_edge", "event_edge", "action", "action_edge"}
          \subseteq rows[c]
    BY <2>3, <2>4, <2>5
  <2> QED
    BY <1>4, <2>6 DEF Verifies, DecisionVerifies, RiskVerifies, ActionVerifies
<1> QED
  BY <1>1, <1>3, <1>4

(* While one reevaluation is alone nobody else does anything.              *)
LEMMA Sole ==
  ASSUME AloneInv, LatestInv, NEW w \in Writers, job[w].at # "idle"
  PROVE  alone \subseteq {w} /\ latest = {}
  BY DEF AloneInv, LatestInv

(* A reevaluation begins with nothing deleted yet; whoever else begins     *)
(* ends what was alone.                                                    *)
LEMMA AloneBegins ==
  ASSUME Inv, AloneInv, LatestInv, NEW w \in Writers,
         \/ \E batch \in SUBSET Events : Ingest(w, batch)
         \/ \E e \in Orphans : RecordOrphan(w, e)
         \/ \E engine \in Engines : ReevaluateRun(w, engine)
  PROVE  AloneInv' /\ LatestInv'
<1>1. latest' = {} /\ LatestInv'
  BY DEF Ingest, RecordOrphan, ReevaluateRun, Begins, LatestInv
<1>2. ASSUME NEW engine \in Engines, ReevaluateRun(w, engine), Busy = {} PROVE AloneInv'
  <2> DEFINE j == [Idle EXCEPT !.at = "clear", !.kind = "replay", !.engine = engine,
                               !.n = replays + 1, !.step = 1]
  <2>1. job' = [job EXCEPT ![w] = j] /\ replays' = replays + 1 /\ alone' = {w}
    BY <1>2 DEF ReevaluateRun, Becomes, Begins
  <2>2. job \in [Writers -> JobRow]
    BY JobTyped DEF Inv
  <2>3. j.kind = "replay" /\ j.n = replays + 1 /\ j.at = "clear" /\ j.step = 1
    BY DEF Idle
  <2> HIDE DEF j
  <2>4. job'[w] = j /\ \A v \in Writers \ {w} : job'[v] = job[v]
    BY <2>1, <2>2
  <2>5. AloneAt(job[w])'
    BY <2>1, <2>3, <2>4 DEF AloneAt
  <2>6. \A v \in Writers : job[v].at = "idle"
    BY <1>2 DEF Busy
  <2> QED
    BY <1>1, <2>1, <2>4, <2>5, <2>6 DEF AloneInv
<1>3. CASE alone' = {}
  BY <1>1, <1>3 DEF AloneInv
<1>4. alone' = {} \/ (Busy = {} /\ \E engine \in Engines : ReevaluateRun(w, engine))
  BY DEF Ingest, RecordOrphan, ReevaluateRun, Begins
<1> QED
  BY <1>1, <1>2, <1>3, <1>4

(* What is refused or dies is not alone any more.                          *)
LEMMA AloneFails ==
  ASSUME Inv, AloneInv, LatestInv, NEW w \in Writers,
         EvaluateRefused(w) \/ PersistRefused(w) \/ Dies(w)
  PROVE  AloneInv' /\ LatestInv'
<1>1. job[w].at # "idle"
  BY DEF EvaluateRefused, PersistRefused, Dies, Busy
<1>2. alone' = alone \ {w} /\ latest' = latest
  BY DEF EvaluateRefused, PersistRefused, Dies
<1>3. alone' = {} /\ latest' = {}
  BY <1>1, <1>2, Sole
<1> QED
  BY <1>3 DEF AloneInv, LatestInv

(* What is left of the rows after the deletions are cost samples of zero.  *)
LEMMA AloneClear ==
  ASSUME Inv, NEW w \in Writers, AloneAt(job[w]), Clear(w)
  PROVE  AloneAt(job[w])'
<1>1. /\ job \in [Writers -> JobRow] /\ job[w] \in JobRow
      /\ rows \in [Chains -> SUBSET Kinds]
  BY JobTyped DEF Inv, TypeOK
<1>2. /\ job[w].at = "clear" /\ job[w].step \in 1 .. 6 /\ job[w].engine \in Engines
      /\ rows' = [c \in Chains |-> rows[c] \ Clears[job[w].step]]
      /\ replays' = replays /\ stored' = stored
  BY <1>1 DEF Clear, Inv, StepInv, StepOf, JobRow
<1>3. \A c \in Chains, i \in 1 .. job[w].step : rows'[c] \cap Clears[i] = {}
  <2> TAKE c \in Chains, i \in 1 .. job[w].step
  <2>1. rows'[c] = rows[c] \ Clears[job[w].step]
    BY <1>2
  <2>2. i = job[w].step \/ i \in 1 .. job[w].step - 1
    BY <1>2
  <2>3. i \in 1 .. job[w].step - 1 => rows[c] \cap Clears[i] = {}
    BY <1>2 DEF AloneAt
  <2> QED
    BY <2>1, <2>2, <2>3
<1>4. Len(Clears) = 6
  BY DEF Clears
<1>5. CASE job[w].step = 6
  <2>1. job'[w] = [job[w] EXCEPT !.at = "select", !.step = 0]
    BY <1>1, <1>4, <1>5 DEF Clear, Becomes
  <2>2. /\ job'[w].at = "select" /\ job'[w].kind = job[w].kind /\ job'[w].n = job[w].n
        /\ job'[w].engine = job[w].engine
    BY <1>1, <2>1 DEF JobRow
  <2>3. ASSUME NEW c \in Chains PROVE Left(c, {}, job[w].engine)'
    <3>1. \A i \in {1, 2, 3, 4, 5, 6} : rows'[c] \cap Clears[i] = {}
      BY <1>3, <1>5
    <3>2. rows'[c] \subseteq Kinds
      BY <1>1, <1>2
    <3>3. /\ Clears[1] = Edges /\ Clears[2] = {"signal"} /\ Clears[3] = {"action"}
          /\ Clears[4] = {"risk"} /\ Clears[5] = {"decision"} /\ Clears[6] = {"cost"}
      BY DEF Clears
    <3>4. rows'[c] \subseteq {"zero_cost"}
      BY <3>1, <3>2, <3>3 DEF Kinds
    <3> QED
      BY <3>4 DEF Left
  <2> QED
    BY <1>2, <2>2, <2>3 DEF AloneAt
<1>6. CASE job[w].step # 6
  <2>1. job'[w] = [job[w] EXCEPT !.step = job[w].step + 1]
    BY <1>1, <1>4, <1>6 DEF Clear, Becomes
  <2>2. /\ job'[w].at = "clear" /\ job'[w].kind = job[w].kind /\ job'[w].n = job[w].n
        /\ job'[w].step = job[w].step + 1
    BY <1>1, <1>2, <2>1 DEF JobRow
  <2>3. 1 .. job'[w].step - 1 = 1 .. job[w].step
    BY <1>2, <2>2
  <2> QED
    BY <1>2, <1>3, <2>2, <2>3 DEF AloneAt
<1> QED
  BY <1>5, <1>6

(* Every stored event is still to be evaluated.                            *)
LEMMA AloneSelect ==
  ASSUME Inv, NEW w \in Writers, AloneAt(job[w]), Select(w)
  PROVE  AloneAt(job[w])'
<1>1. job \in [Writers -> JobRow] /\ job[w] \in JobRow
  BY JobTyped DEF Inv
<1>2. /\ job[w].at = "select" /\ rows' = rows /\ replays' = replays /\ stored' = stored
      /\ job'[w] = [job[w] EXCEPT !.at = "evaluate", !.todo = stored]
  BY <1>1 DEF Select, Becomes
<1>3. /\ job'[w].at = "evaluate" /\ job'[w].kind = job[w].kind /\ job'[w].n = job[w].n
      /\ job'[w].engine = job[w].engine /\ job'[w].todo = stored
  BY <1>1, <1>2 DEF JobRow
<1>4. \A c \in Chains : Left(c, stored \ job[w].todo, job[w].engine)'
  <2>1. stored \ job'[w].todo = {}
    BY <1>3
  <2>2. \A c \in Chains : Left(c, {}, job[w].engine)
    BY <1>2 DEF AloneAt
  <2> QED
    BY <1>2, <1>3, <2>1, <2>2 DEF Left
<1> QED
  BY <1>2, <1>3, <1>4 DEF AloneAt

(* An event that the rules allow leaves no chain, another starts its own.  *)
LEMMA AloneEvaluate ==
  ASSUME Inv, NEW w \in Writers, AloneAt(job[w]), Evaluate(w)
  PROVE  AloneAt(job[w])'
<1> DEFINE e == First(job[w].todo)
           rest == job[w].todo \ {e}
           engine == job[w].engine
           n == job[w].n
<1>1. /\ job \in [Writers -> JobRow] /\ job[w] \in JobRow
      /\ rows \in [Chains -> SUBSET Kinds] /\ stored \subseteq Events
  BY JobTyped DEF Inv, TypeOK
<1>2. /\ job[w].at = "evaluate" /\ job[w].todo # {} /\ job[w].todo \subseteq stored
      /\ replays' = replays /\ stored' = stored /\ job[w].kind = "replay" /\ n = replays
  BY DEF Evaluate, AloneAt
<1>3. e \in job[w].todo /\ e \in stored /\ e \in Events
  BY <1>1, <1>2, FirstInSet
<1>4. Decision(w, e) = Decide[engine][e]
  BY <1>2 DEF Decision
<1>5. n \in 0 .. MaxReplays /\ engine \in Engines
  BY <1>1 DEF JobRow
<1>6. \A c \in Chains : Left(c, stored \ job[w].todo, engine)
  BY <1>2 DEF AloneAt
<1>7. IF Decide[engine][e] = "allow"
      THEN job' = [job EXCEPT ![w] = [job[w] EXCEPT !.todo = rest]] /\ rows' = rows
      ELSE /\ rows' = [rows EXCEPT ![<<e, n>>] = {"decision"}]
           /\ job' = [job EXCEPT ![w] = [job[w] EXCEPT !.at = "persist", !.step = 2,
                                                       !.event = e, !.todo = rest]]
  BY <1>4 DEF Evaluate, Becomes
<1> HIDE DEF e
<1>8. \A c \in Chains : c[1] \in stored \ rest <=> c[1] \in stored \ job[w].todo \/ c[1] = e
  BY <1>3
<1>9. CASE Decide[engine][e] = "allow"
  <2>1. rows' = rows /\ job'[w] = [job[w] EXCEPT !.todo = rest]
    BY <1>1, <1>7, <1>9
  <2>2. /\ job'[w].at = "evaluate" /\ job'[w].kind = job[w].kind /\ job'[w].n = n
        /\ job'[w].engine = engine /\ job'[w].todo = rest
    BY <1>1, <1>2, <2>1 DEF JobRow
  <2>3. ASSUME NEW c \in Chains PROVE Left(c, stored \ job[w].todo, job[w].engine)'
    <3>1. Left(c, stored \ job[w].todo, engine)
      BY <1>6
    <3>2. stored' \ job'[w].todo = stored \ rest
      BY <1>2, <2>2
    <3> QED
      BY <1>2, <1>8, <1>9, <2>1, <2>2, <3>1, <3>2 DEF Left
  <2> QED
    BY <1>2, <2>2, <2>3 DEF AloneAt
<1>10. CASE Decide[engine][e] # "allow"
  <2>1. /\ rows' = [rows EXCEPT ![<<e, n>>] = {"decision"}]
        /\ job'[w] = [job[w] EXCEPT !.at = "persist", !.step = 2, !.event = e, !.todo = rest]
    BY <1>1, <1>7, <1>10
  <2>2. /\ job'[w].at = "persist" /\ job'[w].kind = job[w].kind /\ job'[w].n = n
        /\ job'[w].engine = engine /\ job'[w].todo = rest /\ job'[w].event = e
        /\ job'[w].step = 2
    BY <1>1, <1>2, <2>1 DEF JobRow
  <2>3. <<e, n>> \in Chains
    BY <1>3, <1>5 DEF Chains
  <2>4. rows'[<<e, n>>] = {"decision"} /\ \A c \in Chains \ {<<e, n>>} : rows'[c] = rows[c]
    BY <1>1, <2>1, <2>3
  <2>5. ASSUME NEW c \in Chains \ {<<e, n>>} PROVE Left(c, stored \ job[w].todo, job[w].engine)'
    <3>1. Left(c, stored \ job[w].todo, engine)
      BY <1>6
    <3>2. ~(c[1] = e /\ c[2] = replays)
      BY <1>2 DEF Chains
    <3>3. stored' \ job'[w].todo = stored \ rest
      BY <1>2, <2>2
    <3> QED
      BY <1>2, <1>8, <2>2, <2>4, <3>1, <3>2, <3>3 DEF Left
  <2>6. Statements(e)[1] = "decision"
    BY <1>3, FirstIsDecision
  <2>7. \A i \in 1 .. 2 - 1 : Statements(e)[i] \in rows'[<<e, n>>] \cup {"cost"}
    BY <2>4, <2>6
  <2> QED
    BY <1>2, <1>3, <1>10, <2>2, <2>5, <2>7 DEF AloneAt
<1> QED
  BY <1>9, <1>10

(* A chain is whole when its last row is written.                          *)
LEMMA AlonePersist ==
  ASSUME Inv, NEW w \in Writers, AloneAt(job[w]), Persist(w)
  PROVE  AloneAt(job[w])'
<1> DEFINE e == job[w].event
           k == job[w].step
           l == Len(Statements(e))
           d == <<e, job[w].n>>
           S == stored \ job[w].todo
<1>1. /\ job \in [Writers -> JobRow] /\ job[w] \in JobRow
      /\ rows \in [Chains -> SUBSET Kinds] /\ StepOf(job[w])
  BY JobTyped DEF Inv, TypeOK, StepInv
<1>2. /\ job[w].at = "persist" /\ job[w].todo \subseteq stored
      /\ replays' = replays /\ stored' = stored /\ job[w].kind = "replay"
      /\ job[w].n = replays /\ Chain(w) = d
      /\ e \in S /\ Decide[job[w].engine][e] # "allow"
      /\ \A c \in Chains \ {d} : Left(c, S, job[w].engine)
      /\ \A i \in 1 .. k - 1 : Statements(e)[i] \in rows[d] \cup {"cost"}
  BY DEF Persist, AloneAt, Chain
<1>3. /\ e \in Events /\ k \in 2 .. l /\ l \in {8, 9} /\ d \in Chains
  BY <1>1, <1>2, FirstIsDecision DEF StepOf, Chains, JobRow
<1>4. /\ rows' = [rows EXCEPT ![d] = rows[d] \cup {Row(w)}]
      /\ Row(w) = Statements(e)[k] \/ Statements(e)[k] = "cost"
  BY <1>2 DEF Persist, Row, Current
<1>5. /\ \A i \in 1 .. k : Statements(e)[i] \in rows'[d] \cup {"cost"}
      /\ \A c \in Chains \ {d} : rows'[c] = rows[c]
  <2>1. \A i \in 1 .. k : i \in 1 .. k - 1 \/ i = k
    BY <1>3
  <2>2. rows'[d] = rows[d] \cup {Row(w)} /\ \A c \in Chains \ {d} : rows'[c] = rows[c]
    BY <1>1, <1>3, <1>4
  <2> QED
    BY <1>2, <1>4, <2>1, <2>2
<1>6. job' = [job EXCEPT ![w] = IF k < l THEN [job[w] EXCEPT !.step = k + 1]
                                ELSE [job[w] EXCEPT !.at = "evaluate", !.step = 0]]
  BY DEF Persist, Advances, Becomes
<1>7. CASE k < l
  <2>1. job'[w] = [job[w] EXCEPT !.step = k + 1]
    BY <1>1, <1>6, <1>7
  <2>2. /\ job'[w].at = "persist" /\ job'[w].kind = job[w].kind /\ job'[w].n = job[w].n
        /\ job'[w].engine = job[w].engine /\ job'[w].todo = job[w].todo /\ job'[w].event = e
        /\ job'[w].step = k + 1
    BY <1>1, <1>2, <2>1 DEF JobRow
  <2>3. 1 .. job'[w].step - 1 = 1 .. k
    BY <1>3, <2>2
  <2>4. ASSUME NEW c \in Chains \ {d} PROVE Left(c, stored \ job[w].todo, job[w].engine)'
    BY <1>2, <1>5, <2>2 DEF Left
  <2> HIDE DEF k, l
  <2> QED
    BY <1>2, <1>5, <2>2, <2>3, <2>4 DEF AloneAt
<1>8. CASE k = l
  <2>1. job'[w] = [job[w] EXCEPT !.at = "evaluate", !.step = 0]
    BY <1>1, <1>3, <1>6, <1>8
  <2>2. /\ job'[w].at = "evaluate" /\ job'[w].kind = job[w].kind /\ job'[w].n = job[w].n
        /\ job'[w].engine = job[w].engine /\ job'[w].todo = job[w].todo
    BY <1>1, <2>1 DEF JobRow
  <2>3. Full(d) \subseteq rows'[d]
    BY <1>5, <1>8 DEF Full
  <2>4. ASSUME NEW c \in Chains PROVE Left(c, stored \ job[w].todo, job[w].engine)'
    <3>1. CASE c = d
      BY <1>2, <2>2, <2>3, <3>1 DEF Left
    <3>2. CASE c # d
      BY <1>2, <1>5, <2>2, <3>2 DEF Left
    <3> QED
      BY <3>1, <3>2
  <2> QED
    BY <1>2, <2>2, <2>4 DEF AloneAt
<1> QED
  BY <1>3, <1>7, <1>8

(* A reevaluation that ends alone has been through all that is stored.     *)
LEMMA AloneFinish ==
  ASSUME Inv, AloneInv, LatestInv, NEW w \in Writers, Finish(w)
  PROVE  AloneInv' /\ LatestInv'
<1>1. job \in [Writers -> JobRow]
  BY JobTyped DEF Inv
<1>2. /\ job[w].at = "evaluate" /\ job[w].todo = {} /\ job' = [job EXCEPT ![w] = Idle]
      /\ latest' = (IF w \in alone THEN {job[w].engine} ELSE {})
      /\ alone' = alone \ {w} /\ rows' = rows /\ replays' = replays /\ stored' = stored
  BY DEF Finish, Becomes
<1>3. alone' = {} /\ AloneInv'
  BY <1>2, Sole DEF AloneInv
<1>4. ASSUME w \in alone PROVE LatestInv'
  <2>1. AloneAt(job[w]) /\ \A v \in Writers \ {w} : job[v].at = "idle"
    BY <1>4 DEF AloneInv
  <2>2. stored \ job[w].todo = stored
    BY <1>2
  <2>3. \A c \in Chains : Left(c, stored, job[w].engine)
    BY <1>2, <2>1, <2>2 DEF AloneAt
  <2>4. \A v \in Writers : job'[v].at = "idle"
    BY <1>1, <1>2, <2>1 DEF Idle
  <2> QED
    BY <1>2, <1>4, <2>3, <2>4 DEF LatestInv, Left
<1>5. w \notin alone => LatestInv'
  BY <1>2 DEF LatestInv
<1> QED
  BY <1>3, <1>4, <1>5

LEMMA AloneStep ==
  ASSUME Inv, AloneInv, LatestInv, NEW w \in Writers, Acts(w)
  PROVE  AloneInv' /\ LatestInv'
<1>1. CASE Clear(w) \/ Select(w) \/ Evaluate(w) \/ Persist(w)
  <2>1. job[w].at # "idle" /\ alone' = alone /\ latest' = latest
    BY <1>1 DEF Clear, Select, Evaluate, Persist
  <2>2. alone \subseteq {w} /\ latest = {}
    BY <2>1, Sole
  <2>3. \A v \in Writers \ {w} : job'[v] = job[v]
    BY JobTyped, OthersAsTheyWere DEF Inv
  <2>4. w \in alone => AloneAt(job[w])'
    BY <1>1, AloneClear, AloneSelect, AloneEvaluate, AlonePersist DEF AloneInv
  <2> QED
    BY <2>1, <2>2, <2>3, <2>4 DEF AloneInv, LatestInv
<1> QED
  BY <1>1, AloneBegins, AloneFails, AloneFinish DEF Acts

(* A reevaluation that nothing ran beside leaves one chain for each stored *)
(* event that its rules match, whole, and no other row but zero cost       *)
(* samples, whatever was torn, left over or cut off before it.             *)
THEOREM ReplayIsExact == Spec => []ReplayedExactly
<1> DEFINE All == Inv /\ AloneInv /\ LatestInv
<1>1. Init => All
  BY TypeInit DEF Init, AloneInv, LatestInv
<1>2. All /\ [Next]_vars => All'
  <2> SUFFICES ASSUME All, [Next]_vars PROVE All'
    OBVIOUS
  <2>1. CASE Next
    BY <2>1, TypeStep, AloneStep DEF Next, Acts
  <2>2. CASE UNCHANGED vars
    BY <2>2, TypeStutter DEF vars, AloneInv, AloneAt, LatestInv, Left
  <2> QED
    BY <2>1, <2>2
<1>3. All => ReplayedExactly
  <2> SUFFICES ASSUME All, NEW engine \in latest
               PROVE  /\ \A c \in Chains : Verifies(c)
                      /\ \A c \in Chains : "decision" \notin rows[c] =>
                                             rows[c] \subseteq {"zero_cost"}
                      /\ \A e \in stored :
                           Cardinality({c \in Chains : c[1] = e /\ "decision" \in rows[c]})
                             = IF Decide[engine][e] = "allow" THEN 0 ELSE 1
    BY DEF ReplayedExactly
  <2>1. \A c \in Chains : Left(c, stored, engine)
    BY DEF LatestInv
  <2>2. stored \subseteq Events /\ replays \in 0 .. MaxReplays
    BY DEF Inv, TypeOK
  <2>3. ASSUME NEW c \in Chains
        PROVE  /\ Verifies(c)
               /\ "decision" \notin rows[c] => rows[c] \subseteq {"zero_cost"}
               /\ "decision" \in rows[c] <=>
                    c[1] \in stored /\ c[2] = replays /\ Decide[engine][c[1]] # "allow"
    <3>1. CASE c[1] \in stored /\ c[2] = replays /\ Decide[engine][c[1]] # "allow"
      BY <2>1, <3>1, FullVerifies DEF Left
    <3>2. CASE ~(c[1] \in stored /\ c[2] = replays /\ Decide[engine][c[1]] # "allow")
      <4>1. rows[c] \subseteq {"zero_cost"}
        BY <2>1, <3>2 DEF Left
      <4> QED
        BY <3>2, <4>1 DEF Verifies, DecisionVerifies, RiskVerifies, ActionVerifies
    <3> QED
      BY <3>1, <3>2
  <2>4. ASSUME NEW e \in stored
        PROVE  Cardinality({c \in Chains : c[1] = e /\ "decision" \in rows[c]})
                 = IF Decide[engine][e] = "allow" THEN 0 ELSE 1
    <3> DEFINE C == {c \in Chains : c[1] = e /\ "decision" \in rows[c]}
    <3>1. CASE Decide[engine][e] = "allow"
      <4>1. C = {}
        BY <2>3, <3>1
      <4> QED
        BY <3>1, <4>1, FS_EmptySet
    <3>2. CASE Decide[engine][e] # "allow"
      <4>1. <<e, replays>> \in Chains
        BY <2>2 DEF Chains
      <4>2. \A c \in C : c = <<e, replays>>
        BY <2>3 DEF Chains
      <4>3. <<e, replays>> \in C
        BY <2>3, <3>2, <4>1
      <4>4. C = {<<e, replays>>}
        BY <4>2, <4>3
      <4> QED
        BY <3>2, <4>4, FS_Singleton
    <3> QED
      BY <3>1, <3>2
  <2> QED
    BY <2>3, <2>4
<1> HIDE DEF All
<1> QED
  BY <1>1, <1>2, <1>3, PTL DEF Spec
=============================================================================
