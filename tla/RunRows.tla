------------------------------ MODULE RunRows -------------------------------
(***************************************************************************)
(* The rows of one recorded run: what `record run` writes and in which     *)
(* order, what `graph materialize` makes of it, and what `graph verify`    *)
(* asks of it.  A row is a tuple, its table first, with what tells it from *)
(* the other rows of the table; a row that is updated later gets a second, *)
(* longer tuple for the update.                                            *)
(***************************************************************************)
EXTENDS Naturals, Sequences

CONSTANTS Kids,    \* pids of descendants the sampler may see
          Files    \* files of the workspace that may change

Snapshot == <<"snapshots", "base">>
Lease == <<"leases", "lease">>
Session == <<"sessions", "record">>
Rollout == <<"rollouts", "rollout">>
Attempt == <<"fork_attempts", "attempt">>
ToolCall == <<"tool_calls", "call">>
RootProcess == <<"processes", "root">>
Ended(row) == <<row[1], row[2], "ended">>      \* its final UPDATE
Failed(row) == <<row[1], row[2], "failed">>    \* the one of a rollout without a winner
Binding(pid) == <<"execution_context_bindings", pid>>
Event(e) == <<"events", e>>
Evidence(e) == <<"evidence_events", e>>
Processed(e) == <<"evidence_events", e, "processed">>     \* its UPDATE by the worker
Edge(type, x) == <<"graph_edges", type, x>>
Decision(k) == <<"policy_decisions", k>>
Risk(k) == <<"risk_signals", k>>
Signal(k) == <<"signals", k>>
Response(k) == <<"response_actions", k>>
Cost(k) == <<"cost_samples", k>>
Table(row) == row[1]
IsUpdate(row) == Len(row) = 3                  \* of a row that is no edge

(* A provenance object is told from others by what its hash covers: the    *)
(* row it describes, its parents, and the content a check compares.        *)
ObjectOf(row, parents, body) == [of |-> row, parents |-> parents, body |-> body]
Artifact(f) == ObjectOf(<<"artifact", f>>, {}, {})
Object(o) == <<"provenance_objects", o>>       \* its row
Blob(o) == <<"blob", o>>                       \* its file

Seen(k) == <<"process_observed", k>>           \* events, by type and subject
Written(f) == <<"file_write", f>>
Orphan(k) == <<"abnormal_process_tree", k>>
Mark(type) == <<type, "record">>
Telemetry == {Seen(k) : k \in Kids} \cup {Written(f) : f \in Files}
AllEvents == Telemetry \cup {Orphan(k) : k \in Kids}
             \cup {Mark("exec_start"), Mark("exec_end"), Mark("exec_error")}
Pid(e) == IF e[1] = "file_write" THEN "root" ELSE e[2]

-----------------------------------------------------------------------------
(* What Run writes, part by part, each a sequence of statements.  An error *)
(* of a statement that must succeed ends Run; any other error is dropped,  *)
(* and statements that come after a row are made only if that row was      *)
(* stored.                                                                 *)
Statement(row, must, after) == [row |-> row, must |-> must, after |-> after]
Must(row) == Statement(row, TRUE, {})
Try(row) == Statement(row, FALSE, {})
After(row, first) == Statement(row, FALSE, {first})
AllAfter(first, rows) == [i \in 1 .. Len(rows) |-> After(rows[i], first)]

Setup == <<Must(Snapshot), Must(Lease), Must(Session), Must(Rollout),
           Must(Attempt), Must(ToolCall), Must(RootProcess)>>
LinkTypes == <<"rollout_attempt", "snapshot_attempt", "attempt_tool_call",
               "attempt_session", "tool_call_session", "tool_call_process">>
Links == [i \in 1 .. 6 |-> Try(Edge(LinkTypes[i], <<"record">>))]
Started == <<Try(Binding("root")), Try(Event(Mark("exec_start")))>>

EventEdges(e) ==
  <<Edge("runtime_attempt_event", e), Edge("runtime_tool_call_process", <<"record">>),
    Edge("runtime_tool_call_event", e), Edge("runtime_process_event", e),
    Edge("runtime_snapshot_event", e),
    Edge("runtime_process_observed", <<Pid(e)>>), Edge("runtime_pid_event", e),
    Edge("runtime_process_parent", <<Pid(e)>>), Edge("runtime_process_child_of", <<Pid(e)>>)>>
\* The file is not linked to the attempt.
VariantFileEdges(f) ==
  <<Edge("runtime_event_file", Written(f)), Edge("runtime_process_file", <<f>>),
    Edge("runtime_tool_call_file", <<f>>)>>
FileEdges(f) ==
  <<Edge("runtime_event_file", Written(f)), Edge("runtime_process_file", <<f>>),
    Edge("runtime_tool_call_file", <<f>>), Edge("runtime_attempt_file", <<f>>)>>

\* IngestFiltered of an event whose whole context is given.
Ingested(e, edges) ==
  <<Try(Event(e))>> \o AllAfter(Event(e), edges \o <<Evidence(e)>>)

Observed(k) == <<Try(Binding(k))>> \o Ingested(Seen(k), EventEdges(Seen(k)))
\* PersistDecision of an audit verdict and the evidence row that follows it.
OrphanDecision(k) ==
  <<Try(Event(Orphan(k))), After(Decision(k), Event(Orphan(k))), After(Risk(k), Decision(k))>>
  \o AllAfter(Risk(k),
       <<Signal(k), Edge("policy_decision_risk_signal", <<k>>),
         Edge("runtime_event_policy_decision", <<k>>), Edge("policy_decision_session", <<k>>),
         Response(k), Edge("risk_signal_response_action", <<k>>), Cost(k), Evidence(Orphan(k))>>)

Changed(f) == Ingested(Written(f), EventEdges(Written(f)) \o FileEdges(f))
\* A file that is gone, or above maxObjectifyBytes, has no artifact: Blob is refused.
Objectified(f) == <<Try(Blob(Artifact(f))), After(Object(Artifact(f)), Blob(Artifact(f)))>>

\* The tool call is closed before its process.
VariantClosing ==
  <<Try(Ended(ToolCall)), Try(Ended(RootProcess)), Try(Ended(Session)), Try(Ended(Attempt)),
    Try(Ended(Rollout)), Try(Event(Mark("exec_end"))), Try(Ended(Binding("root")))>>
Closing ==
  <<Try(Ended(RootProcess)), Try(Ended(Session)), Try(Ended(ToolCall)), Try(Ended(Attempt)),
    Try(Ended(Rollout)), Try(Event(Mark("exec_end"))), Try(Ended(Binding("root")))>>
\* markFailed, and a binding that is closed from the start.
NotStarted ==
  <<Try(Ended(RootProcess)), Try(Ended(Session)), Try(Ended(ToolCall)), Try(Ended(Attempt)),
    Try(Failed(Rollout)), Try(Event(Mark("exec_error"))), Try(Binding("root"))>>
=============================================================================
