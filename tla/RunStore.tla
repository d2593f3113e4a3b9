------------------------------ MODULE RunStore ------------------------------
(***************************************************************************)
(* One recorded run in the store of its host, and in the store of another  *)
(* host that replays it.  The recorder, `graph materialize`, the evidence  *)
(* worker of the daemon, `forensics export` and `forensics import` are     *)
(* processes of their own, with no transaction around what each does       *)
(* (import has one, around its rows).                                      *)
(***************************************************************************)
EXTENDS RunChecks

CONSTANTS
  Oversized,     \* subjects of objects that may exceed maxInlineContentBytes
  MaxRefused,    \* bound on the statements SQLite refuses
  MaxPasses, MaxExports, MaxImports      \* bounds

VARIABLES
  here, there,   \* rows and files of the recording and of the replaying host
  run,           \* recorder: part of Run, next statement of it, the process or
                 \* file it is about, what was seen, and what of that is left
  worker,        \* evidence worker: rows of its batch, step of the first
  pass,          \* materializer: step, subjects left, parents known, object in hand
  bundle,        \* exporter and its file: next table, rows, content
  load,          \* importer: state and objects left to restore
  large,         \* subjects whose object exceeds the inline cap
  refused,       \* statements refused so far
  early          \* history: "pass" or "export" began while the run was being recorded

storeVars == <<here, there, run, worker, pass, bundle, load, large, refused, early>>

Refusal == refused < MaxRefused /\ refused' = refused + 1
NoRefusal == UNCHANGED refused
First(S) == CHOOSE x \in S : TRUE          \* queries and loops have a fixed order

\* What a recording may turn out to have seen: whether the command started,
\* the descendants, the ones that outlived the root, the files that changed.
NothingSeen == [started |-> TRUE, kids |-> {}, orphans |-> {}, files |-> {}]
Outcomes ==
  {[started |-> TRUE, kids |-> ks, orphans |-> os, files |-> fs] :
     ks \in SUBSET Kids, os \in SUBSET Kids, fs \in SUBSET Files}
Sightings == {x \in Outcomes : x.orphans \subseteq x.kids} \cup {[NothingSeen EXCEPT !.started = FALSE]}

\* The parts of Run, and the statements of each.
Part(r) ==
  CASE r.at = "setup" -> Setup
    [] r.at = "links" -> Links
    [] r.at = "started" -> Started
    [] r.at = "process" -> Observed(r.who)
    [] r.at = "orphan" -> OrphanDecision(r.who)
    [] r.at = "file" -> Changed(r.who)
    [] r.at = "artifact" -> Objectified(r.who)
    [] r.at = "closing" -> Closing
    [] r.at = "not_started" -> NotStarted
Recording ==
  run.at \in {"setup", "links", "started", "process", "orphan", "file", "artifact",
              "closing", "not_started"}

StoreInit ==
  /\ here = {} /\ there = {}
  /\ run = [at |-> "setup", next |-> 1, who |-> "root", saw |-> NothingSeen,
            kids |-> {}, files |-> {}]
  /\ worker = [batch |-> {}, step |-> 1]
  /\ pass = [step |-> 0, left |-> {}, known |-> {}, put |-> {}, count |-> 0]
  /\ bundle = [at |-> "none", next |-> 1, rows |-> {}, blobs |-> {}, count |-> 0]
  /\ load = [at |-> "none", left |-> {}, count |-> 0]
  /\ large \in SUBSET Oversized
  /\ refused = 0
  /\ early = {}

-----------------------------------------------------------------------------
(* The recorder.                                                           *)
Advance(r) == [r EXCEPT !.next = @ + 1]
Record ==
  /\ Recording /\ run.next <= Len(Part(run))
  /\ LET s == Part(run)[run.next] IN
       \/ /\ s.after \subseteq here
          /\ here' = here \cup {s.row} /\ run' = Advance(run) /\ NoRefusal
       \/ /\ s.after \subseteq here /\ Refusal
          /\ run' = IF s.must THEN [run EXCEPT !.at = "error"] ELSE Advance(run)
          /\ UNCHANGED here
       \/ /\ ~(s.after \subseteq here)
          /\ run' = Advance(run) /\ UNCHANGED here /\ NoRefusal
  /\ UNCHANGED <<there, worker, pass, bundle, load, large, early>>

Finished(part) == run.at = part /\ run.next > Len(Part(run))
Enter(part) == [run EXCEPT !.at = part, !.next = 1]

\* The command runs; what the sampler and the diff see of it is known later.
Launch ==
  /\ Finished("links")
  /\ \E x \in Sightings :
       run' = [Enter(IF x.started THEN "started" ELSE "not_started")
                 EXCEPT !.saw = x, !.kids = x.kids, !.files = x.files]
  /\ UNCHANGED <<here, there, worker, pass, bundle, load, large, refused, early>>

\* The next part, within an iteration of a loop or past it.
SameSubject ==
  \/ Finished("setup") /\ run' = Enter("links")
  \/ Finished("process") /\ run.who \in run.saw.orphans /\ run' = Enter("orphan")
  \/ Finished("file") /\ run' = Enter("artifact")
NextObserved ==
  /\ run.kids # {}
  /\ run' = [Enter("process") EXCEPT !.who = First(run.kids), !.kids = @ \ {First(run.kids)}]
NextChanged ==
  /\ run.kids = {} /\ run.files # {}
  /\ run' = [Enter("file") EXCEPT !.who = First(run.files), !.files = @ \ {First(run.files)}]
Onward ==
  /\ \/ \E part \in {"started", "orphan", "artifact"} : Finished(part)
     \/ Finished("process") /\ run.who \notin run.saw.orphans
  /\ \/ NextObserved
     \/ NextChanged
     \/ run.kids = {} /\ run.files = {} /\ run' = Enter("closing")
NextPart ==
  /\ SameSubject \/ Onward
  /\ UNCHANGED <<here, there, worker, pass, bundle, load, large, refused, early>>

Return ==
  /\ \E part \in {"closing", "not_started"} : Finished(part)
  /\ run' = [run EXCEPT !.at = "returned"]
  /\ UNCHANGED <<here, there, worker, pass, bundle, load, large, refused, early>>

Interrupted ==
  /\ Recording
  /\ run' = [run EXCEPT !.at = "killed"]
  /\ UNCHANGED <<here, there, worker, pass, bundle, load, large, refused, early>>

-----------------------------------------------------------------------------
(* ProcessEvidence: five edges of each queued row, whatever becomes of     *)
(* them, then its status; an error there ends the batch.                   *)
Unprocessed == {e \in Telemetry : Evidence(e) \in here /\ Processed(e) \notin here}
WorkerEdge(i, e) == Edge(LinkTypes[i], e)
WorkerEdges == 5
ProcessEvidence ==
  /\ worker.batch = {} /\ Unprocessed # {}
  /\ worker' = [batch |-> Unprocessed, step |-> 1]
  /\ UNCHANGED <<here, there, run, pass, bundle, load, large, refused, early>>
InsertWorkerEdge ==
  /\ worker.batch # {} /\ worker.step <= WorkerEdges
  /\ \/ here' = here \cup {WorkerEdge(worker.step, First(worker.batch))} /\ NoRefusal
     \/ UNCHANGED here /\ Refusal
  /\ worker' = [worker EXCEPT !.step = @ + 1]
  /\ UNCHANGED <<there, run, pass, bundle, load, large, early>>
UpdateStatus ==
  /\ worker.batch # {} /\ worker.step > WorkerEdges
  /\ \/ /\ here' = here \cup {Processed(First(worker.batch))} /\ NoRefusal
        /\ worker' = [batch |-> worker.batch \ {First(worker.batch)}, step |-> 1]
     \/ UNCHANGED here /\ Refusal /\ worker' = [batch |-> {}, step |-> 1]
  /\ UNCHANGED <<there, run, pass, bundle, load, large, early>>

-----------------------------------------------------------------------------
(* MaterializeRun: it reads one table after another and puts an object for *)
(* each row, the file before the row.                                      *)
Materialize ==
  /\ pass.step = 0 /\ pass.count < MaxPasses /\ here # {}
  /\ pass' = [step |-> 1, left |-> Subjects(MaterializeOrder[1], here, run.saw.files),
              known |-> {}, put |-> {}, count |-> pass.count + 1]
  /\ early' = IF Recording THEN early \cup {"pass"} ELSE early
  /\ UNCHANGED <<here, there, run, worker, bundle, load, large, refused>>
NextTable ==
  /\ pass.step # 0 /\ pass.left = {}
  /\ pass' = IF pass.step = Len(MaterializeOrder) THEN [pass EXCEPT !.step = 0]
             ELSE [pass EXCEPT !.step = @ + 1,
                     !.left = Subjects(MaterializeOrder[pass.step + 1], here, run.saw.files)]
  /\ UNCHANGED <<here, there, run, worker, bundle, load, large, refused, early>>
\* put, first half: only parents this pass has put are named.
Turn == First(IF pass.left \cap Blames # {} THEN pass.left \cap Blames ELSE pass.left)
PutBlob ==
  /\ pass.left # {} /\ pass.put = {}
  /\ LET o == ObjectOf(Turn, Named(Turn) \cap pass.known, Body(Turn, here)) IN
       /\ here' = here \cup {Blob(o)}
       /\ pass' = [pass EXCEPT !.put = {o}]
  /\ UNCHANGED <<there, run, worker, bundle, load, large, refused, early>>
Blamed(row) == IF Table(row) = "diff_manifest" THEN {Blame(row[2])} ELSE {}
PutRow ==
  /\ \E o \in pass.put :
       /\ here' = here \cup {Object(o)}
       /\ pass' = [pass EXCEPT !.put = {}, !.left = (@ \ {o.of}) \cup Blamed(o.of),
                              !.known = @ \cup {o.of}]
  /\ UNCHANGED <<there, run, worker, bundle, load, large, refused, early>>
PassFails ==
  /\ pass.left # {} /\ Refusal
  /\ pass' = [pass EXCEPT !.step = 0, !.left = {}, !.known = {}, !.put = {}]
  /\ UNCHANGED <<here, there, run, worker, bundle, load, large, early>>

-----------------------------------------------------------------------------
(* ExportBundle: nineteen SELECTs, then the content of the objects.        *)
\* As DumpOrder, edges before the evidence they belong to.
VariantDumpOrder ==
  <<"leases", "sessions", "execution_context_bindings", "rollouts", "tool_calls", "processes",
    "fork_attempts", "snapshots", "events", "policy_decisions", "risk_signals", "signals",
    "response_actions", "graph_edges", "evidence_events", "cost_samples", "provenance_objects">>
DumpOrder ==
  <<"leases", "sessions", "execution_context_bindings", "rollouts", "tool_calls", "processes",
    "fork_attempts", "snapshots", "events", "policy_decisions", "risk_signals", "signals",
    "response_actions", "evidence_events", "graph_edges", "cost_samples", "provenance_objects">>
\* The rows of a table that its WHERE clause reaches from the run's id.
\* Snapshots of the run's sessions only.
VariantReached(t) ==
  {r \in here : /\ Table(r) = t
                /\ t = "processes" => Session \in here
                /\ t = "fork_attempts" => Rollout \in here
                /\ t # "snapshots"}
Reached(t) ==
  {r \in here : /\ Table(r) = t
                /\ t = "processes" => Session \in here
                /\ t \in {"fork_attempts", "snapshots"} => Rollout \in here}
Export ==
  /\ bundle.at # "dumping" /\ load.at # "restoring" /\ bundle.count < MaxExports /\ here # {}
  /\ bundle' = [at |-> "dumping", next |-> 1, rows |-> {}, blobs |-> {}, count |-> bundle.count + 1]
  /\ early' = IF Recording THEN early \cup {"export"} ELSE early
  /\ UNCHANGED <<here, there, run, worker, pass, load, large, refused>>
Dump ==
  /\ bundle.at = "dumping" /\ bundle.next <= Len(DumpOrder)
  /\ bundle' = [bundle EXCEPT !.next = @ + 1, !.rows = @ \cup Reached(DumpOrder[bundle.next])]
  /\ UNCHANGED <<here, there, run, worker, pass, load, large, refused, early>>
\* embedObjectBlobs: every file must be readable; large ones are left out.
Embed ==
  /\ bundle.at = "dumping" /\ bundle.next > Len(DumpOrder)
  /\ bundle' =
       IF \A o \in Objects(bundle.rows) : Readable(o, here)
       THEN [bundle EXCEPT !.at = "ready", !.blobs = {o \in Objects(bundle.rows) : o.of \notin large}]
       ELSE [bundle EXCEPT !.at = "failed"]
  /\ UNCHANGED <<here, there, run, worker, pass, load, large, refused, early>>

(* ImportBundle: the rows in one transaction, then one object at a time.   *)
Import ==
  /\ bundle.at = "ready" /\ load.at # "restoring" /\ load.count < MaxImports
  /\ there' = there \cup bundle.rows \cup {Foreign(o) : o \in Objects(bundle.rows)}
  /\ load' = [at |-> "restoring", left |-> bundle.blobs, count |-> load.count + 1]
  /\ UNCHANGED <<here, run, worker, pass, bundle, large, refused, early>>
RestoreObject ==
  /\ load.at = "restoring" /\ load.left # {}
  /\ LET o == First(load.left) IN
       \/ /\ there' = (there \cup {Blob(o)}) \ {Foreign(o)}
          /\ load' = [load EXCEPT !.left = @ \ {o}] /\ NoRefusal
       \/ there' = there \cup {Blob(o)} /\ load' = [load EXCEPT !.at = "failed"] /\ Refusal
  /\ UNCHANGED <<here, run, worker, pass, bundle, large, early>>
Imported ==
  /\ load.at = "restoring" /\ load.left = {}
  /\ load' = [load EXCEPT !.at = "done"]
  /\ UNCHANGED <<here, there, run, worker, pass, bundle, large, refused, early>>

RecorderSteps == Record \/ Launch \/ NextPart \/ Return \/ Interrupted
WorkerSteps == ProcessEvidence \/ InsertWorkerEdge \/ UpdateStatus
PassSteps == Materialize \/ NextTable \/ PutBlob \/ PutRow \/ PassFails
BundleSteps == Export \/ Dump \/ Embed \/ Import \/ RestoreObject \/ Imported
StoreNext == RecorderSteps \/ WorkerSteps \/ PassSteps \/ BundleSteps
StoreSpec == StoreInit /\ [][StoreNext]_storeVars

-----------------------------------------------------------------------------
References ==
  {"missing_snapshot", "missing_winner_attempt", "missing_tool_call", "missing_rollout",
   "missing_attempt", "missing_session", "missing_context", "missing_policy_event",
   "missing_policy_session", "missing_risk_policy_decision", "missing_risk_event",
   "missing_response_risk_signal", "missing_response_policy_decision",
   "missing_parent_object", "missing_provenance_object", "stale_process_status"}
Issues(rows) == Verify(rows, run.saw.orphans)

(* At every moment, and wherever a recorder or a pass is cut off, no row   *)
(* names a row, an object or a file that is not there, and every object of *)
(* a pass made after the recording names all the parents there are.  The   *)
(* attempt is the one exception, stored with the id of a tool call still   *)
(* to come; a refused update of the process leaves it behind its call.     *)
ReferencesHold ==
  /\ "pass" \notin early =>
       \A o \in Objects(here) :
         Named(o.of) \cap (here \cup {p.of : p \in Objects(here)}) \subseteq o.parents
  /\ Issues(here) \cap References
       \subseteq (IF Attempt \in here /\ ToolCall \notin here THEN {"missing_tool_call"} ELSE {})
                 \cup (IF refused > 0 THEN {"stale_process_status"} ELSE {})

(* A run whose recording returned with nothing refused verifies without an *)
(* error from then on, whatever the evidence worker and later passes of    *)
(* the materializer do.  A pass made while it was being recorded stored a  *)
(* record manifest that no longer agrees.                                  *)
CleanVerifies ==
  run.at = "returned" /\ refused = 0 /\ "pass" \notin early => Issues(here) = {}

(* A bundle begun after the recording, once imported, verifies on the      *)
(* replaying host as it does at home: no issue of its own, but for objects *)
(* too large to travel.  A recording cut off before its session is nothing *)
(* a bundle makes known, while a pass at home stores manifests of it.      *)
ReplayAgrees ==
  load.at = "done" /\ "export" \notin early
    => Issues(there) \subseteq Issues(here)
         \cup (IF \E o \in Objects(there) : o.of \in large THEN {"missing_provenance_object"} ELSE {})
         \cup (IF Session \in here THEN {} ELSE {"unknown_run"})

(* An evidence row reaches a replaying host as processed only together     *)
(* with the edges its processing made.                                     *)
ProcessedWithEdges ==
  refused = 0 =>
    \A e \in Telemetry : Processed(e) \in there =>
      {WorkerEdge(i, e) : i \in 1 .. WorkerEdges} \subseteq there
=============================================================================
