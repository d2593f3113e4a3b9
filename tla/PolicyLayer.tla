---------------------------- MODULE PolicyLayer ----------------------------
(***************************************************************************)
(* The rows a policy decision leaves behind: the decision, its risk signal *)
(* with the unified signal, the response action, the graph edges between   *)
(* them and a cost sample.  persistDecisionWithExistingEvent writes them   *)
(* one statement at a time and in no transaction; ReevaluateRun deletes    *)
(* them kind by kind and evaluates the stored events of the run again.     *)
(*                                                                         *)
(* Writers are the processes and threads that do so on one run and one     *)
(* session: the daemon after it ingested a batch, `record run` on a        *)
(* process that outlived its root, `security reevaluate` and the launcher. *)
(* Nothing keeps them apart: the daemon's mutex is its own.                *)
(***************************************************************************)
EXTENDS Naturals, FiniteSets, Sequences

CONSTANTS
  Writers,     \* processes that evaluate events of the run
  Events,      \* events of the run, numbered in the order of created_at
  WithSession, \* those that carry the session
  Orphans,     \* those that `record run` stores for a process that outlived its root
  Engines,     \* rule sets
  Default,     \* the built-in one
  Decide,      \* the decision of a rule set on an event
  MaxReplays,  \* bound on reevaluations
  MaxFaults    \* bound on refused statements and crashes

Decisions == {"allow", "audit", "deny", "quarantine", "kill"}
Enforcing == {"deny", "quarantine", "kill"}

ASSUME EnginesAssumption ==
  /\ Events \subseteq Nat \ {0} /\ Orphans \cup WithSession \subseteq Events
  /\ Default \in Engines /\ Decide \in [Engines -> [Events -> Decisions]]
  /\ MaxReplays \in Nat /\ MaxFaults \in Nat

\* The chain of rows of one decision is known by its event and by the reevaluation that
\* wrote it, 0 for the evaluation when the event was stored.
Chains == Events \X (0 .. MaxReplays)

VARIABLES
  stored,    \* events of the run that are stored
  rows,      \* the kinds of rows that exist of each chain
  status,    \* status of the session
  evidence,  \* orphans whose evidence names the decision made when they were stored
  job,       \* what each writer is doing
  replays,   \* reevaluations so far
  faults,    \* refusals and crashes so far
  torn,      \* history: chains whose writer was refused a row or died, or that existed
             \* when a reevaluation was cut off while it deleted
  alone,     \* history: the reevaluation that nothing ran beside since it began
  latest     \* history: rules of a reevaluation that ended alone, until a writer begins

vars == <<stored, rows, status, evidence, job, replays, faults, torn, alone, latest>>

-----------------------------------------------------------------------------
(* The statements of persistDecisionWithExistingEvent, in order.  The      *)
(* UPDATEs of the session follow the edge to it and are taken with it.     *)

Statements(e) ==
  IF e \in WithSession
  THEN <<"decision", "risk", "signal", "risk_edge", "event_edge", "session_edge", "action",
         "action_edge", "cost">>
  ELSE <<"decision", "risk", "signal", "risk_edge", "event_edge", "action", "action_edge", "cost">>
Edges == {"risk_edge", "event_edge", "session_edge", "action_edge"}
Kinds == {"decision", "risk", "signal", "action", "cost", "zero_cost"} \cup Edges

\* As Clears, with the decisions deleted before what hangs on them.
VariantClears == <<{"decision"}, {"risk"}, {"action"}, {"signal"}, Edges, {"cost"}>>

\* What ReevaluateRun deletes, in order.  Cost samples with both counters zero stay.
Clears == <<Edges, {"signal"}, {"action"}, {"risk"}, {"decision"}, {"cost"}>>

Idle == [at |-> "idle", kind |-> "none", engine |-> Default, n |-> 0, todo |-> {},
         event |-> 0, step |-> 0]
Busy == {w \in Writers : job[w].at # "idle"}
Clearing == \E w \in Writers : job[w].at = "clear"
Chain(w) == <<job[w].event, job[w].n>>
Written == {Chain(w) : w \in {v \in Writers : job[v].at = "persist"}}
Exists(c) == rows[c] # {} \/ c \in Written

First(S) == CHOOSE x \in S : \A y \in S : x <= y
Becomes(w, j) == job' = [job EXCEPT ![w] = j]
Fault == faults < MaxFaults /\ faults' = faults + 1

\* A writer begins; a reevaluation in S is alone until another does.
Begins(S) == alone' = (IF Busy = {} THEN S ELSE {}) /\ latest' = {}

-----------------------------------------------------------------------------
Init ==
  /\ stored = {}
  /\ rows = [c \in Chains |-> {}]
  /\ status = "running"
  /\ evidence = {}
  /\ job = [w \in Writers |-> Idle]
  /\ replays = 0 /\ faults = 0
  /\ torn = {} /\ alone = {} /\ latest = {}

\* A batch is stored in one transaction, then its events are evaluated one by one.
Ingest(w, batch) ==
  /\ w \notin Busy
  /\ batch # {} /\ batch \subseteq Events \ (stored \cup Orphans)
  /\ stored' = stored \cup batch
  /\ Becomes(w, [Idle EXCEPT !.at = "evaluate", !.kind = "live", !.todo = batch])
  /\ Begins({})
  /\ UNCHANGED <<rows, status, evidence, replays, faults, torn>>

\* PersistDecision on an orphan first stores the event.
RecordOrphan(w, e) ==
  /\ w \notin Busy
  /\ e \in Orphans \ stored
  /\ stored' = stored \cup {e}
  /\ Becomes(w, [Idle EXCEPT !.at = "evaluate", !.kind = "orphan", !.todo = {e}])
  /\ Begins({})
  /\ UNCHANGED <<rows, status, evidence, replays, faults, torn>>

ReevaluateRun(w, engine) ==
  /\ w \notin Busy
  /\ replays < MaxReplays /\ replays' = replays + 1
  /\ Becomes(w, [Idle EXCEPT !.at = "clear", !.kind = "replay", !.engine = engine,
                             !.n = replays + 1, !.step = 1])
  /\ Begins({w})
  /\ UNCHANGED <<stored, rows, status, evidence, faults, torn>>

\* As Clear, with only the rows deleted whose decision still exists.
VariantClear(w) ==
  LET kinds == Clears[job[w].step] IN
  /\ job[w].at = "clear"
  /\ rows' = [c \in Chains |-> IF "decision" \in rows[c] THEN rows[c] \ kinds ELSE rows[c]]
  /\ Becomes(w, IF job[w].step = Len(Clears) THEN [job[w] EXCEPT !.at = "select", !.step = 0]
                ELSE [job[w] EXCEPT !.step = @ + 1])
  /\ UNCHANGED <<stored, status, evidence, replays, faults, torn, alone, latest>>

Clear(w) ==
  /\ job[w].at = "clear"
  /\ rows' = [c \in Chains |-> rows[c] \ Clears[job[w].step]]
  /\ Becomes(w, IF job[w].step = Len(Clears) THEN [job[w] EXCEPT !.at = "select", !.step = 0]
                ELSE [job[w] EXCEPT !.step = @ + 1])
  /\ torn' = {c \in torn : Exists(c)}
  /\ UNCHANGED <<stored, status, evidence, replays, faults, alone, latest>>

Select(w) ==
  /\ job[w].at = "select"
  /\ Becomes(w, [job[w] EXCEPT !.at = "evaluate", !.todo = stored])
  /\ UNCHANGED <<stored, rows, status, evidence, replays, faults, torn, alone, latest>>

\* The recorder decides itself: an orphan is audited.
Decision(w, e) == IF job[w].kind = "orphan" THEN "audit" ELSE Decide[job[w].engine][e]

\* Reads the next event and, unless it is allowed, inserts its decision: nobody can tell
\* the two apart.
Evaluate(w) ==
  LET e == First(job[w].todo)
      rest == job[w].todo \ {e}
  IN
  /\ job[w].at = "evaluate"
  /\ job[w].todo # {}
  /\ IF Decision(w, e) = "allow"
     THEN Becomes(w, [job[w] EXCEPT !.todo = rest]) /\ UNCHANGED rows
     ELSE /\ rows' = [rows EXCEPT ![<<e, job[w].n>>] = {"decision"}]
          /\ Becomes(w, [job[w] EXCEPT !.at = "persist", !.step = 2, !.event = e, !.todo = rest])
  /\ UNCHANGED <<stored, status, evidence, replays, faults, torn, alone, latest>>

\* The end of a batch, of a reevaluation, or of a recording, which adds the evidence.
Finish(w) ==
  /\ job[w].at = "evaluate"
  /\ job[w].todo = {}
  /\ Becomes(w, Idle)
  /\ evidence' = evidence \cup (IF job[w].kind = "orphan" THEN {job[w].event} ELSE {})
  /\ latest' = IF w \in alone THEN {job[w].engine} ELSE {}
  /\ alone' = alone \ {w}
  /\ UNCHANGED <<stored, rows, status, replays, faults, torn>>

\* What follows a statement: the next one, or the next event.
Advances(w) ==
  Becomes(w, IF job[w].step < Len(Statements(job[w].event)) THEN [job[w] EXCEPT !.step = @ + 1]
             ELSE [job[w] EXCEPT !.at = "evaluate", !.step = 0])

Current(w) == Statements(job[w].event)[job[w].step]
Row(w) == IF Current(w) = "cost" /\ Decision(w, job[w].event) \notin Enforcing
          THEN "zero_cost" ELSE Current(w)

StatusAfter(decision) ==
  CASE decision = "kill" -> "stopped" [] decision = "quarantine" -> "quarantined" [] OTHER -> status

Persist(w) ==
  /\ job[w].at = "persist"
  /\ rows' = [rows EXCEPT ![Chain(w)] = @ \cup {Row(w)}]
  /\ status' = IF Current(w) = "session_edge" THEN StatusAfter(Decision(w, job[w].event))
               ELSE status
  /\ Advances(w)
  /\ UNCHANGED <<stored, evidence, replays, faults, torn, alone, latest>>

\* After an error the daemon goes on with the next event, the others end.
Fails(w, rest) ==
  Becomes(w, IF job[w].kind = "live"
             THEN [job[w] EXCEPT !.at = "evaluate", !.step = 0, !.todo = rest] ELSE Idle)

EvaluateRefused(w) ==
  LET e == First(job[w].todo) IN
  /\ job[w].at = "evaluate"
  /\ job[w].todo # {}
  /\ Decision(w, e) # "allow"
  /\ Fault
  /\ Fails(w, job[w].todo \ {e})
  /\ alone' = alone \ {w}
  /\ UNCHANGED <<stored, rows, status, evidence, replays, torn, latest>>

\* A refusal of the risk signal is an error too, the other refusals are ignored.
PersistRefused(w) ==
  /\ job[w].at = "persist"
  /\ Fault
  /\ torn' = torn \cup {Chain(w)}
  /\ IF Current(w) = "risk" THEN Fails(w, job[w].todo) ELSE Advances(w)
  /\ alone' = alone \ {w}
  /\ UNCHANGED <<stored, rows, status, evidence, replays, latest>>

\* The process dies, or a DELETE or SELECT of a reevaluation is refused, which ends it.
Dies(w) ==
  /\ w \in Busy
  /\ Fault
  /\ Becomes(w, Idle)
  /\ torn' = torn \cup CASE job[w].at = "persist" -> {Chain(w)}
                        [] job[w].at = "clear" -> {c \in Chains : Exists(c)}
                        [] OTHER -> {}
  /\ alone' = alone \ {w}
  /\ UNCHANGED <<stored, rows, status, evidence, replays, latest>>

Next ==
  \E w \in Writers :
    \/ \E batch \in SUBSET Events : Ingest(w, batch)
    \/ \E e \in Orphans : RecordOrphan(w, e)
    \/ \E engine \in Engines : ReevaluateRun(w, engine)
    \/ Clear(w) \/ Select(w) \/ Evaluate(w) \/ Finish(w)
    \/ EvaluateRefused(w) \/ Persist(w) \/ PersistRefused(w) \/ Dies(w)

Spec == Init /\ [][Next]_vars

-----------------------------------------------------------------------------
TypeOK ==
  /\ stored \subseteq Events
  /\ rows \in [Chains -> SUBSET Kinds]
  /\ status \in {"running", "quarantined", "stopped"}
  /\ evidence \subseteq Orphans
  /\ job \in [Writers -> [at : {"idle", "clear", "select", "evaluate", "persist"},
                          kind : {"none", "live", "orphan", "replay"}, engine : Engines,
                          n : 0 .. MaxReplays, todo : SUBSET Events,
                          event : Events \cup {0}, step : 0 .. 9]]
  /\ replays \in 0 .. MaxReplays /\ faults \in 0 .. MaxFaults
  /\ torn \subseteq Chains /\ alone \subseteq Writers /\ latest \subseteq Engines

(* The checks of `graph verify`, verifyPolicyDecisions and                 *)
(* verifyRiskAndResponses, for each of the rows they start from.           *)

DecisionVerifies(c) ==
  "decision" \in rows[c] =>
    /\ {"event_edge", "risk", "signal", "action"} \subseteq rows[c]
    /\ c[1] \in WithSession => "session_edge" \in rows[c]
RiskVerifies(c) == "risk" \in rows[c] => {"decision", "risk_edge", "action"} \subseteq rows[c]
ActionVerifies(c) == "action" \in rows[c] => {"decision", "risk", "action_edge"} \subseteq rows[c]
Verifies(c) == DecisionVerifies(c) /\ RiskVerifies(c) /\ ActionVerifies(c)

\* Whatever runs side by side, a decision whose writer got through has every row that hangs
\* on it, unless a reevaluation is deleting or was cut off at it: ReevaluateRun deletes the
\* decisions after what hangs on them, so one that it spares came after those deletions.
DecisionsStandWhole ==
  ~Clearing => \A c \in Chains \ (torn \cup Written) : DecisionVerifies(c)

\* A reevaluation that nothing ran beside leaves one chain for each stored event its rules
\* match and no other row but zero cost samples, whatever was torn, left over by writers that
\* overlapped, or cut off before (ReevaluateRun is safe to retry).
ReplayedExactly ==
  \A engine \in latest :
    /\ \A c \in Chains : Verifies(c)
    /\ \A c \in Chains : "decision" \notin rows[c] => rows[c] \subseteq {"zero_cost"}
    /\ \A e \in stored :
         Cardinality({c \in Chains : c[1] = e /\ "decision" \in rows[c]})
           = IF Decide[engine][e] = "allow" THEN 0 ELSE 1

\* verifyProcessObservations: the decision that the evidence of an orphan names exists.
OrphansExplained == \A e \in evidence : "decision" \in rows[<<e, 0>>]
=============================================================================
