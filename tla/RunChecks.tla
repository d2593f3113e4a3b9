----------------------------- MODULE RunChecks ------------------------------
(***************************************************************************)
(* The provenance objects MaterializeRun makes of the rows of a run, and   *)
(* the checks of Verify, over a set of rows.  A check is named by the      *)
(* issue it reports; warnings are left out.                                *)
(***************************************************************************)
EXTENDS RunRows

(* The tables in the order MaterializeRun reads them, and the manifests it *)
(* derives; its steps for rows a recording never has are left out.         *)
MaterializeOrder ==
  <<"snapshots", "rollouts", "fork_attempts", "tool_calls", "processes", "evidence_events",
    "events", "policy_decisions", "risk_signals", "response_actions", "cost_samples",
    "replay_manifest", "trajectory_manifest", "diff_manifest", "audit_manifest",
    "record_manifest">>

RowsIn(t, rows) == {r \in rows : Table(r) = t /\ ~IsUpdate(r)}
Manifest(t) == <<t, "run">>
Diff(f) == <<"diff_manifest", f>>
Blame(f) == <<"blame_manifest", f>>
Blames == {Blame(f) : f \in Files}

\* BuildReplayRun: an attempt without its tool call is an error.
Replayable(rows) == Rollout \in rows /\ Snapshot \in rows /\ (Attempt \in rows => ToolCall \in rows)

\* What one step of MaterializeRun finds: the subjects of its objects.  The
\* blame of a file follows its diff.
Subjects(t, rows, files) ==
  CASE t \in {"replay_manifest", "trajectory_manifest"} ->
         IF Replayable(rows) THEN {Manifest(t)} ELSE {}
    [] t = "diff_manifest" -> IF Replayable(rows) THEN {Diff(f) : f \in files} ELSE {}
    [] t = "snapshots" -> IF Rollout \in rows THEN RowsIn(t, rows) ELSE {}
    [] t = "audit_manifest" -> {Manifest(t)}
    [] t = "record_manifest" -> IF Attempt \in rows THEN {Manifest(t)} ELSE {}
    [] OTHER -> RowsIn(t, rows)

(* What the object of a row names as its parents, one operator per step of *)
(* MaterializeRun.                                                         *)
RolloutParents == {Snapshot}
AttemptParents == {Rollout, Snapshot}
ToolCallParents == {Attempt, Rollout}
ProcessParents == {ToolCall}
Captured(row) == row[2] \in Telemetry       \* the rows that carry a snapshot_id
EvidenceParents(row) == {Attempt, ToolCall} \cup IF Captured(row) THEN {Snapshot} ELSE {}
EventParents(row) == {ToolCall, RootProcess} \cup IF Captured(row) THEN {Snapshot} ELSE {}
DecisionParents(k) == {Event(Orphan(k))}
RiskParents(k) == {Event(Orphan(k)), Decision(k), ToolCall, RootProcess}
ResponseParents(k) == {Risk(k), Decision(k), RootProcess}
ReplayParents == {Rollout}
TrajectoryParents == {Manifest("replay_manifest")}
DiffParents == {Manifest("trajectory_manifest"), Snapshot}
BlameParents(f) == {Diff(f)}
AuditParents == {Rollout, Manifest("replay_manifest"), Manifest("trajectory_manifest")}
RecordParents == {Rollout, Attempt, ToolCall, RootProcess, Snapshot}
Named(row) ==
  CASE Table(row) = "rollouts" -> RolloutParents
    [] Table(row) = "fork_attempts" -> AttemptParents
    [] Table(row) = "tool_calls" -> ToolCallParents
    [] Table(row) = "processes" -> ProcessParents
    [] Table(row) = "evidence_events" -> EvidenceParents(row)
    [] Table(row) = "events" -> EventParents(row)
    [] Table(row) = "policy_decisions" -> DecisionParents(row[2])
    [] Table(row) = "risk_signals" -> RiskParents(row[2])
    [] Table(row) = "response_actions" -> ResponseParents(row[2])
    [] Table(row) = "replay_manifest" -> ReplayParents
    [] Table(row) = "trajectory_manifest" -> TrajectoryParents
    [] Table(row) = "diff_manifest" -> DiffParents
    [] Table(row) = "blame_manifest" -> BlameParents(row[2])
    [] Table(row) = "audit_manifest" -> AuditParents
    [] Table(row) = "record_manifest" -> RecordParents
    [] OTHER -> {}

\* BuildRecordManifest: what it reads of the rows.
RecordManifest(rows) ==
  rows \cap ({Attempt, Ended(Attempt), Session, RootProcess, Ended(RootProcess),
              Binding("root"), Ended(Binding("root"))} \cup {Event(e) : e \in Telemetry})
Body(row, rows) == IF row = Manifest("record_manifest") THEN RecordManifest(rows) ELSE {}

-----------------------------------------------------------------------------
(* Verify, one operator per check.  Report(i, c) is issue i where c holds. *)
Report(issue, c) == IF c THEN {issue} ELSE {}
Lacks(rows, issue, S) == Report(issue, ~(S \subseteq rows))
Given(rows, row, issues) == IF row \in rows THEN issues ELSE {}
Events(rows) == {e \in AllEvents : Event(e) \in rows}
Decided(rows) == {k \in Kids : Decision(k) \in rows}
AtRisk(rows) == {k \in Kids : Risk(k) \in rows}
Answered(rows) == {k \in Kids : Response(k) \in rows}

CheckRollouts(rows) ==
  Given(rows, Rollout,
    Lacks(rows, "missing_snapshot", {Snapshot})
    \cup Given(rows, Ended(Rollout), Lacks(rows, "missing_winner_attempt", {Attempt})))
CheckAttempts(rows) ==
  Given(rows, Attempt,
    Lacks(rows, "missing_snapshot", {Snapshot}) \cup Lacks(rows, "missing_tool_call", {ToolCall}))
CheckToolCalls(rows) ==
  Given(rows, ToolCall,
    Lacks(rows, "missing_rollout", {Rollout}) \cup Lacks(rows, "missing_attempt", {Attempt})
    \cup Lacks(rows, "missing_session", {Session}))
CheckProcesses(rows) ==
  Given(rows, RootProcess,
    Lacks(rows, "missing_tool_call", {ToolCall})
    \cup Given(rows, Ended(ToolCall), Lacks(rows, "stale_process_status", {Ended(RootProcess)})))

\* A binding that names a container excuses what its scope does not have.
External(rows) == \E pid \in Kids \cup {"root"} : Binding(pid) \in rows
Context == {Session, ToolCall, RootProcess}
CheckEvents(rows) ==
  UNION {Report("missing_context", ~External(rows) /\ ~(Context \subseteq rows))
         \cup (IF e \in Telemetry THEN Lacks(rows, "missing_snapshot", {Snapshot}) ELSE {})
         : e \in Events(rows)}
CheckBindings(rows) ==
  Report("missing_execution_context_binding", Events(rows) \cap Telemetry # {} /\ ~External(rows))

DecisionIssues(rows, k) ==
  Lacks(rows, "missing_policy_event", {Event(Orphan(k))})
  \cup Lacks(rows, "missing_policy_decision_edge", {Edge("runtime_event_policy_decision", <<k>>)})
  \cup Report("missing_policy_session", Session \notin rows /\ ~External(rows))
  \cup Lacks(rows, "missing_policy_session_edge", {Edge("policy_decision_session", <<k>>)})
CheckDecisions(rows) == UNION {DecisionIssues(rows, k) : k \in Decided(rows)}
PolicyIssues(rows, k) ==
  Lacks(rows, "missing_policy_risk_signal", {Risk(k)})
  \cup Lacks(rows, "missing_policy_response_action", {Response(k)})
  \cup Lacks(rows, "missing_policy_unified_signal", {Signal(k), Risk(k)})
RiskIssues(rows, k) ==
  Lacks(rows, "missing_risk_policy_decision", {Decision(k)})
  \cup Lacks(rows, "missing_risk_event", {Event(Orphan(k))})
  \cup Lacks(rows, "missing_risk_signal_edge", {Edge("policy_decision_risk_signal", <<k>>)})
  \cup Lacks(rows, "missing_risk_response_action", {Response(k)})
ResponseIssues(rows, k) ==
  Lacks(rows, "missing_response_risk_signal", {Risk(k)})
  \cup Lacks(rows, "missing_response_policy_decision", {Decision(k)})
  \cup Lacks(rows, "missing_response_action_edge", {Edge("risk_signal_response_action", <<k>>)})
CheckRisks(rows) ==
  (UNION {PolicyIssues(rows, k) : k \in Decided(rows)})
  \cup (UNION {RiskIssues(rows, k) : k \in AtRisk(rows)})
  \cup (UNION {ResponseIssues(rows, k) : k \in Answered(rows)})

\* verifyRuntimeCausality, over the events that were correlated; the call
\* looks up its attempt through the tool call's row.
OfAttempt(rows, edges) == IF ToolCall \in rows THEN edges ELSE {}
EventIssues(rows, e) ==
  Lacks(rows, "missing_runtime_event_edge",
    {Edge("runtime_tool_call_event", e), Edge("runtime_process_event", e),
     Edge("runtime_tool_call_process", <<"record">>), Edge("runtime_process_observed", <<Pid(e)>>),
     Edge("runtime_process_parent", <<Pid(e)>>), Edge("runtime_process_child_of", <<Pid(e)>>)}
    \cup OfAttempt(rows, {Edge("runtime_attempt_event", e)}))
FileIssues(rows, f) ==
  Lacks(rows, "missing_runtime_file_edge",
    {Edge("runtime_event_file", Written(f)), Edge("runtime_process_file", <<f>>),
     Edge("runtime_tool_call_file", <<f>>)}
    \cup OfAttempt(rows, {Edge("runtime_attempt_file", <<f>>)}))
CheckCausality(rows) ==
  (UNION {EventIssues(rows, e) : e \in Events(rows) \cap Telemetry})
  \cup (UNION {FileIssues(rows, f) : f \in {f \in Files : Written(f) \in Events(rows)}})

CheckObservations(rows, orphans) ==
  UNION {Lacks(rows, "missing_orphan_lifecycle_evidence", {Evidence(Orphan(k))})
         \cup Lacks(rows, "missing_orphan_lifecycle_policy_decision", {Decision(k), Evidence(Orphan(k))})
         : k \in {k \in orphans : Seen(k) \in Events(rows)}}
CheckReplay(rows) == Given(rows, Rollout, Report("replay_manifest_failed", ~Replayable(rows)))

\* Importing a row leaves the path of the host it was recorded on, until
\* the file is restored here.
Foreign(o) == <<"foreign", o>>
Objects(rows) == {r[2] : r \in {r \in rows : Table(r) = "provenance_objects"}}
Readable(o, rows) == Blob(o) \in rows /\ Foreign(o) \notin rows
CheckObjects(rows) ==
  LET objects == Objects(rows) IN
  UNION {IF ~Readable(o, rows) THEN {"missing_provenance_object"}
         ELSE Report("record_manifest_mismatch",
                o.of = Manifest("record_manifest") /\ o.body # RecordManifest(rows))
              \cup Report("missing_parent_object", ~(o.parents \subseteq {p.of : p \in objects}))
         : o \in objects}

Exists(rows) ==
  \E r \in rows :
    Table(r) \in {"sessions", "rollouts", "tool_calls", "events", "provenance_objects"}
Verify(rows, orphans) ==
  IF ~Exists(rows) THEN {"unknown_run"}
  ELSE UNION {CheckRollouts(rows), CheckAttempts(rows), CheckToolCalls(rows),
              CheckProcesses(rows), CheckEvents(rows), CheckBindings(rows),
              CheckDecisions(rows), CheckRisks(rows), CheckCausality(rows),
              CheckObservations(rows, orphans), CheckReplay(rows), CheckObjects(rows)}
=============================================================================
