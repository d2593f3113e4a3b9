------------------------------ MODULE Sessions ------------------------------
(***************************************************************************)
(* The control plane of one daemon: the life of a session and of its       *)
(* container, of the processes executed in it, of its snapshots, and the   *)
(* verdicts of the policy engine and the taints of the telemetry ingest    *)
(* that act on the same rows.                                              *)
(*                                                                         *)
(* Handlers that create, resume, stop or remove a session hold writeMu     *)
(* over their calls to docker and the statements after them: op is the     *)
(* handler that holds it.  An exec holds writeMu only for its first and    *)
(* last statements, and runs its command in between without it.            *)
(***************************************************************************)
EXTENDS Naturals, FiniteSets

CONSTANTS
  MaxSessions,   \* number of session ids that can be drawn
  MaxExecs,      \* number of exec requests
  MaxSnapshots,  \* number of snapshots that can be taken
  MaxIds,        \* bound on sessions, execs and snapshots together
  MaxEvents,     \* bound on verdicts, taints, profile changes and dying containers
  MaxFaults      \* bound on refused calls, refused statements and crashes

ASSUME BoundsAssumption ==
  MaxSessions \in Nat \ {0} /\ MaxExecs \in Nat /\ MaxSnapshots \in Nat /\ MaxIds \in Nat
  /\ MaxEvents \in Nat /\ MaxFaults \in Nat

VARIABLES
  session,   \* rows of sessions: status, whether container_id is set, parent snapshot
  docker,    \* the container of a session as docker has it
  weight,    \* its CPU weight; "left" is the tool weight with nobody to reset it
  exec,      \* the threads of the exec requests
  process,   \* status column of the processes rows
  binding,   \* the execution context binding of each process
  snapshot,  \* rows of snapshots and snapshot_edges
  op,        \* the handler that holds writeMu over several calls
  events,    \* verdicts, taints, profile changes and dying containers so far
  faults     \* refusals and crashes so far

vars == <<session, docker, weight, exec, process, binding, snapshot, op, events, faults>>

-----------------------------------------------------------------------------
(* Identifiers are drawn in order, so a larger one is a later one; 0 is    *)
(* the empty string of an optional column.                                 *)

Sessions == 1 .. MaxSessions
Execs == 1 .. MaxExecs
Snapshots == 1 .. MaxSnapshots

NoSession == [status |-> "none", named |-> FALSE, from |-> 0]
NoExec == [pc |-> "idle", s |-> 0, named |-> FALSE, result |-> "none"]
NoSnapshot == [s |-> 0, parent |-> 0, edge |-> FALSE, marks |-> {}, late |-> FALSE]
NoOp == [kind |-> "none", s |-> 0, from |-> 0]

Known(s) == session[s].status # "none"
Taken(n) == snapshot[n].s # 0
Tainted(n) == snapshot[n].marks # {}
Present(s) == docker[s] \in {"up", "down"}
Active == {"inserted", "running", "returned", "restored"}

Drawn == Cardinality({s \in Sessions : docker[s] # "none"})
         + Cardinality({p \in Execs : exec[p].pc # "idle"})
         + Cardinality({n \in Snapshots : Taken(n)})
First(S) == CHOOSE x \in S : \A y \in S : x <= y
FreshSession == First({s \in Sessions : docker[s] = "none"})
FreshSnapshot == First({n \in Snapshots : ~Taken(n)})

\* The snapshot a new one of session s is compared with.
LatestSnapshot(s) ==
  LET mine == {n \in Snapshots : snapshot[n].s = s}
  IN  IF mine = {} THEN 0 ELSE CHOOSE n \in mine : \A m \in mine : m <= n

\* What resuming from n may pick: n or a snapshot taken after it, never a tainted one.
Usable(n) == {m \in Snapshots : /\ Taken(m)
                                /\ m = n \/ snapshot[m].parent = n
                                /\ ~Tainted(m)}

\* The snapshots that m was taken after, along snapshot_edges.
Lineage[m \in Snapshots] ==
  {m} \cup IF snapshot[m].edge THEN Lineage[snapshot[m].parent] ELSE {}

Fault == faults < MaxFaults /\ faults' = faults + 1
NoFault == UNCHANGED faults
Event == events < MaxEvents /\ events' = events + 1
UnlockedWrites == op = NoOp

-----------------------------------------------------------------------------
Init ==
  /\ session = [s \in Sessions |-> NoSession]
  /\ docker = [s \in Sessions |-> "none"]
  /\ weight = [s \in Sessions |-> "think"]
  /\ exec = [p \in Execs |-> NoExec]
  /\ process = [p \in Execs |-> "none"]
  /\ binding = [p \in Execs |-> "none"]
  /\ snapshot = [n \in Snapshots |-> NoSnapshot]
  /\ op = NoOp
  /\ events = 0
  /\ faults = 0

-----------------------------------------------------------------------------
(* Sessions: create, resume, stop, remove.                                 *)

CreateSession ==
  /\ UnlockedWrites
  /\ Drawn < MaxIds /\ \E s \in Sessions : docker[s] = "none"
  /\ op' = [kind |-> "create", s |-> FreshSession, from |-> 0]
  /\ UNCHANGED <<session, docker, weight, exec, process, binding, snapshot, events, faults>>

ResumeSnapshot(n) ==
  /\ UnlockedWrites
  /\ Drawn < MaxIds /\ \E s \in Sessions : docker[s] = "none"
  /\ \E m \in Usable(n) : op' = [kind |-> "create", s |-> FreshSession, from |-> m]
  /\ UNCHANGED <<session, docker, weight, exec, process, binding, snapshot, events, faults>>

\* A new container starts with docker's own weight, which is the tool weight;
\* failing to lower it is ignored.
CreateContainer ==
  /\ op.kind = "create"
  /\ docker' = [docker EXCEPT ![op.s] = "up"]
  /\ op' = [op EXCEPT !.kind = "insert"]
  /\ \/ weight' = [weight EXCEPT ![op.s] = "think"] /\ NoFault
     \/ weight' = [weight EXCEPT ![op.s] = "left"] /\ Fault
  /\ UNCHANGED <<session, exec, process, binding, snapshot, events>>

\* Docker refuses to create the container, or to start the one it created.
CreateFails ==
  /\ op.kind = "create"
  /\ Fault
  /\ \E d \in {"none", "down"} : docker' = [docker EXCEPT ![op.s] = d]
  /\ op' = NoOp
  /\ UNCHANGED <<session, weight, exec, process, binding, snapshot, events>>

InsertSession ==
  /\ op.kind = "insert"
  /\ \/ /\ session' = [session EXCEPT ![op.s] =
                         [status |-> "running", named |-> TRUE, from |-> op.from]]
        /\ NoFault
     \/ UNCHANGED session /\ Fault
  /\ op' = NoOp
  /\ UNCHANGED <<docker, weight, exec, process, binding, snapshot, events>>

\* The row is read first; without a container id docker is not called.
StopSession(s) ==
  /\ UnlockedWrites
  /\ Known(s)
  /\ op' = [kind |-> IF session[s].named THEN "stop" ELSE "stopped", s |-> s, from |-> 0]
  /\ UNCHANGED <<session, docker, weight, exec, process, binding, snapshot, events, faults>>

RemoveSession(s) ==
  /\ UnlockedWrites
  /\ Known(s)
  /\ op' = [kind |-> IF session[s].named THEN "remove" ELSE "removed", s |-> s, from |-> 0]
  /\ UNCHANGED <<session, docker, weight, exec, process, binding, snapshot, events, faults>>

StopContainer ==
  /\ op.kind = "stop"
  /\ docker' = [docker EXCEPT ![op.s] = IF @ = "up" THEN "down" ELSE @]
  /\ op' = [op EXCEPT !.kind = "stopped"]
  /\ UNCHANGED <<session, weight, exec, process, binding, snapshot, events, faults>>

RemoveContainer ==
  /\ op.kind = "remove"
  /\ docker' = [docker EXCEPT ![op.s] = "gone"]
  /\ op' = [op EXCEPT !.kind = "removed"]
  /\ UNCHANGED <<session, weight, exec, process, binding, snapshot, events, faults>>

\* As DockerRefuses, with the error of the driver ignored.
VariantDockerRefuses ==
  /\ op.kind \in {"stop", "remove"}
  /\ Fault
  /\ op' = [op EXCEPT !.kind = IF @ = "stop" THEN "stopped" ELSE "removed"]
  /\ UNCHANGED <<session, docker, weight, exec, process, binding, snapshot, events>>

DockerRefuses ==
  /\ op.kind \in {"stop", "remove"}
  /\ Fault
  /\ op' = NoOp
  /\ UNCHANGED <<session, docker, weight, exec, process, binding, snapshot, events>>

MarkStopped ==
  /\ op.kind = "stopped"
  /\ \/ session' = [session EXCEPT ![op.s].status = "stopped"] /\ NoFault
     \/ UNCHANGED session /\ Fault
  /\ op' = NoOp
  /\ UNCHANGED <<docker, weight, exec, process, binding, snapshot, events>>

\* As MarkRemoved, with container_id left in the row.
VariantMarkRemoved ==
  /\ op.kind = "removed"
  /\ session' = [session EXCEPT ![op.s].status = "removed"]
  /\ op' = NoOp
  /\ UNCHANGED <<docker, weight, exec, process, binding, snapshot, events, faults>>

MarkRemoved ==
  /\ op.kind = "removed"
  /\ \/ /\ session' = [session EXCEPT ![op.s].status = "removed", ![op.s].named = FALSE]
        /\ NoFault
     \/ UNCHANGED session /\ Fault
  /\ op' = NoOp
  /\ UNCHANGED <<docker, weight, exec, process, binding, snapshot, events>>

\* SetSessionCPUProfile, with writeMu; the call fails on a container that is gone.
SetSessionCPUProfile(s, profile) ==
  /\ UnlockedWrites
  /\ Known(s) /\ session[s].named /\ Present(s)
  /\ weight' = [weight EXCEPT ![s] = IF profile = "tool" THEN "left" ELSE "think"]
  /\ Event
  /\ UNCHANGED <<session, docker, exec, process, binding, snapshot, op, faults>>

\* The container ends by itself: out of memory, or on the SIGTERM of Interrupt.
ContainerDies(s) ==
  /\ docker[s] = "up"
  /\ docker' = [docker EXCEPT ![s] = "down"]
  /\ Event
  /\ UNCHANGED <<session, weight, exec, process, binding, snapshot, op, faults>>

-----------------------------------------------------------------------------
(* Exec.                                                                   *)

Goto(p, pc) == exec' = [exec EXCEPT ![p].pc = pc]

\* The row is read before writeMu is taken.
ExecSelect(p, s) ==
  /\ Drawn < MaxIds /\ exec[p].pc = "idle" /\ \A q \in Execs : q < p => exec[q].pc # "idle"
  /\ Known(s)
  /\ exec' = [exec EXCEPT ![p] = [pc |-> "selected", s |-> s, named |-> session[s].named,
                                  result |-> "none"]]
  /\ UNCHANGED <<session, docker, weight, process, binding, snapshot, op, events, faults>>

\* Failing to record the binding is ignored, failing to insert the row is not.
ExecInsert(p) ==
  /\ exec[p].pc = "selected"
  /\ UnlockedWrites
  /\ \/ /\ Goto(p, "inserted")
        /\ process' = [process EXCEPT ![p] = "running"]
        /\ \/ binding' = [binding EXCEPT ![p] = "open"] /\ NoFault
           \/ UNCHANGED binding /\ Fault
     \/ Goto(p, "refused") /\ UNCHANGED <<process, binding>> /\ Fault
  /\ UNCHANGED <<session, docker, weight, snapshot, op, events>>

\* Without the tool weight exec returns at once and leaves the rows as they are.
ExecToolWeight(p) ==
  LET s == exec[p].s
      reachable == exec[p].named /\ Present(s)
  IN
  /\ exec[p].pc = "inserted"
  /\ \/ /\ reachable
        /\ Goto(p, "running")
        /\ weight' = [weight EXCEPT ![s] = "tool"]
        /\ NoFault
     \/ /\ Goto(p, "abandoned")
        /\ UNCHANGED weight
        /\ IF reachable THEN Fault ELSE NoFault
  /\ UNCHANGED <<session, docker, process, binding, snapshot, op, events>>

ExecReturns(p) ==
  /\ exec[p].pc = "running"
  /\ \E r \in {"exited", "failed"} :
       /\ r = "exited" => docker[exec[p].s] = "up"
       /\ exec' = [exec EXCEPT ![p].pc = "returned", ![p].result = r]
  /\ UNCHANGED <<session, docker, weight, process, binding, snapshot, op, events, faults>>

\* As ExecThinkWeight, with the weight restored only after a command that succeeded.
VariantThinkOnSuccess(p) ==
  /\ exec[p].pc = "returned"
  /\ Goto(p, "restored")
  /\ weight' = [weight EXCEPT ![exec[p].s] = IF exec[p].result = "exited" THEN "think" ELSE @]
  /\ UNCHANGED <<session, docker, process, binding, snapshot, op, events, faults>>

ExecThinkWeight(p) ==
  LET s == exec[p].s IN
  /\ exec[p].pc = "returned"
  /\ Goto(p, "restored")
  /\ \/ /\ weight' = [weight EXCEPT ![s] = IF Present(s) THEN "think" ELSE @]
        /\ NoFault
     \/ /\ Present(s)
        /\ weight' = [weight EXCEPT ![s] = IF @ = "tool" THEN "left" ELSE @]
        /\ Fault
  /\ UNCHANGED <<session, docker, process, binding, snapshot, op, events>>

\* As ExecRecord, with the binding of a failed command left open.
VariantExecRecord(p) ==
  /\ exec[p].pc = "restored"
  /\ UnlockedWrites
  /\ Goto(p, "recorded")
  /\ process' = [process EXCEPT ![p] = exec[p].result]
  /\ binding' = [binding EXCEPT ![p] = IF exec[p].result = "exited" THEN "closed" ELSE @]
  /\ UNCHANGED <<session, docker, weight, snapshot, op, events, faults>>

\* Both statements ignore a refusal.
ExecRecord(p) ==
  LET Row == [process EXCEPT ![p] = exec[p].result]
      Close == [binding EXCEPT ![p] = IF @ = "open" THEN "closed" ELSE @]
  IN
  /\ exec[p].pc = "restored"
  /\ UnlockedWrites
  /\ \/ Goto(p, "recorded") /\ process' = Row /\ binding' = Close /\ NoFault
     \/ Goto(p, "damaged") /\ process' = Row /\ UNCHANGED binding /\ Fault
     \/ Goto(p, "damaged") /\ UNCHANGED process /\ binding' = Close /\ Fault
  /\ UNCHANGED <<session, docker, weight, snapshot, op, events>>

-----------------------------------------------------------------------------
(* Snapshots, verdicts and taints: handlers that make no slow call while   *)
(* they hold writeMu, so one step each.                                    *)

\* The row of the edge to the parent is inserted separately, a refusal is ignored.
CreateDirectorySnapshot(s) ==
  /\ UnlockedWrites
  /\ Known(s)
  /\ Drawn < MaxIds /\ \E n \in Snapshots : ~Taken(n)
  /\ LET parent == LatestSnapshot(s)
         Row(edge) == [s |-> s, parent |-> parent, edge |-> edge, marks |-> {},
                       late |-> session[s].status = "quarantined"
                                \/ (parent # 0 /\ "flag" \in snapshot[parent].marks)]
     IN  \/ snapshot' = [snapshot EXCEPT ![FreshSnapshot] = Row(parent # 0)] /\ NoFault
         \/ parent # 0 /\ snapshot' = [snapshot EXCEPT ![FreshSnapshot] = Row(FALSE)] /\ Fault
  /\ UNCHANGED <<session, docker, weight, exec, process, binding, op, events>>

\* As Effects, with snapshots tainted by a kill only.
VariantEffects(s, p, decision) ==
  (IF s = 0 THEN {} ELSE {"session"})
    \cup (IF s # 0 /\ decision = "kill" THEN {"snapshots"} ELSE {})
    \cup (IF p # 0 /\ decision = "kill" THEN {"process"} ELSE {})

\* A decision on an event of session s (0: none) and process p (0: none).  Each of
\* its UPDATEs ignores a refusal, and a crash may cut them short.
Effects(s, p, decision) ==
  (IF s = 0 THEN {} ELSE {"session", "snapshots"})
    \cup (IF p # 0 /\ decision = "kill" THEN {"process"} ELSE {})

Verdict(s, p, decision) ==
  /\ UnlockedWrites
  /\ s # 0 => Known(s)
  /\ p # 0 => process[p] # "none" /\ s \in {0, exec[p].s}
  /\ \E done \in SUBSET Effects(s, p, decision) :
       /\ IF done = Effects(s, p, decision) THEN NoFault ELSE Fault
       /\ session' = IF "session" \notin done THEN session
                     ELSE [session EXCEPT ![s].status =
                             IF decision = "kill" THEN "stopped" ELSE "quarantined"]
       /\ snapshot' = IF "snapshots" \notin done THEN snapshot
                      ELSE [n \in Snapshots |->
                              IF snapshot[n].s = s
                              THEN [snapshot[n] EXCEPT !.marks = @ \cup {"status"}]
                              ELSE snapshot[n]]
       /\ process' = IF "process" \notin done THEN process
                     ELSE [process EXCEPT ![p] = "killed"]
  /\ Event
  /\ UNCHANGED <<docker, weight, exec, binding, op>>

\* As TaintSnapshotAndDescendants, with the children but not their children.
VariantTaintChildren(n) ==
  /\ UnlockedWrites
  /\ Taken(n)
  /\ snapshot' = [m \in Snapshots |->
                    IF m = n \/ (snapshot[m].edge /\ snapshot[m].parent = n)
                    THEN [snapshot[m] EXCEPT !.marks = {"status", "flag"}] ELSE snapshot[m]]
  /\ Event
  /\ UNCHANGED <<session, docker, weight, exec, process, binding, op, faults>>

\* As TaintSnapshotAndDescendants, by an ingest that does not take writeMu.
VariantTaintUnlocked(n) ==
  /\ Taken(n)
  /\ snapshot' = [m \in Snapshots |->
                    IF n \in Lineage[m] THEN [snapshot[m] EXCEPT !.marks = {"status", "flag"}]
                    ELSE snapshot[m]]
  /\ Event
  /\ UNCHANGED <<session, docker, weight, exec, process, binding, op, faults>>

\* A high-risk event that names snapshot n taints what was taken after n too, in the
\* transaction of its batch.
TaintSnapshotAndDescendants(n) ==
  /\ UnlockedWrites
  /\ Taken(n)
  /\ snapshot' = [m \in Snapshots |->
                    IF n \in Lineage[m] THEN [snapshot[m] EXCEPT !.marks = {"status", "flag"}]
                    ELSE snapshot[m]]
  /\ Event
  /\ UNCHANGED <<session, docker, weight, exec, process, binding, op, faults>>

-----------------------------------------------------------------------------
\* The daemon dies and is started again: requests are lost, rows and containers stay.
Crash ==
  /\ Fault
  /\ op' = NoOp
  /\ exec' = [p \in Execs |-> IF exec[p].pc \in Active \cup {"selected"}
                              THEN [exec[p] EXCEPT !.pc = "lost"] ELSE exec[p]]
  /\ weight' = [s \in Sessions |-> IF weight[s] = "tool" THEN "left" ELSE weight[s]]
  /\ UNCHANGED <<session, docker, process, binding, snapshot, events>>

Handler ==
  \/ CreateContainer \/ CreateFails \/ InsertSession
  \/ StopContainer \/ RemoveContainer \/ DockerRefuses \/ MarkStopped \/ MarkRemoved

Exec(p) ==
  \/ \E s \in Sessions : ExecSelect(p, s)
  \/ ExecInsert(p) \/ ExecToolWeight(p) \/ ExecReturns(p)
  \/ ExecThinkWeight(p) \/ ExecRecord(p)

Request ==
  \/ CreateSession
  \/ \E n \in Snapshots : ResumeSnapshot(n) \/ TaintSnapshotAndDescendants(n)
  \/ \E s \in Sessions :
       \/ StopSession(s) \/ RemoveSession(s) \/ CreateDirectorySnapshot(s)
       \/ \E profile \in {"think", "tool"} : SetSessionCPUProfile(s, profile)
  \/ \E s \in Sessions \cup {0}, p \in Execs \cup {0}, decision \in {"quarantine", "kill"} :
       (s # 0 \/ p # 0) /\ Verdict(s, p, decision)

Next ==
  \/ Handler
  \/ \E p \in Execs : Exec(p)
  \/ Request
  \/ \E s \in Sessions : ContainerDies(s)
  \/ Crash

Spec == Init /\ [][Next]_vars

-----------------------------------------------------------------------------
TypeOK ==
  /\ session \in [Sessions -> [status : {"none", "running", "quarantined", "stopped", "removed"},
                               named : BOOLEAN, from : Snapshots \cup {0}]]
  /\ docker \in [Sessions -> {"none", "up", "down", "gone"}]
  /\ weight \in [Sessions -> {"think", "tool", "left"}]
  /\ exec \in [Execs -> [pc : Active \cup {"idle", "selected", "recorded", "damaged", "refused",
                                          "abandoned", "lost"},
                         s : Sessions \cup {0}, named : BOOLEAN,
                         result : {"none", "exited", "failed"}]]
  /\ process \in [Execs -> {"none", "running", "exited", "failed", "killed"}]
  /\ binding \in [Execs -> {"none", "open", "closed"}]
  /\ snapshot \in [Snapshots -> [s : Sessions \cup {0}, parent : Snapshots \cup {0},
                                 edge : BOOLEAN, marks : SUBSET {"status", "flag"}, late : BOOLEAN]]
  /\ op \in [kind : {"none", "create", "insert", "stop", "stopped", "remove", "removed"},
             s : Sessions \cup {0}, from : Snapshots \cup {0}]
  /\ events \in 0 .. MaxEvents /\ faults \in 0 .. MaxFaults

\* A session that names no container has none left in docker: the row is changed after
\* docker removed the container, whatever crashes or is refused in between (RemoveSession).
UnnamedIsGone == \A s \in Sessions : Known(s) /\ ~session[s].named => docker[s] = "gone"

\* Without a refusal or a crash, docker and the rows agree on which containers exist,
\* except for the session the handler with writeMu works on.
RowsMatchDocker ==
  faults = 0 => \A s \in Sessions : op.s # s => (session[s].named <=> Present(s))

\* An open binding belongs to an exec that is under way or was cut off before its last
\* statements; one whose exec was recorded is closed, and its process row final.
BindingSpansExec ==
  \A p \in Execs :
    /\ binding[p] = "open" => exec[p].pc \in Active \cup {"abandoned", "lost", "damaged"}
    /\ exec[p].pc = "recorded" => process[p] \in {"exited", "failed", "killed"}
    /\ exec[p].pc \in Active => process[p] \in {"running", "killed"}

\* No container keeps the tool weight of an exec that ended: of several execs in one
\* container the last to end lowers it (setContainerCPUProfile before and after execRuntime).
IdleAtThink ==
  \A s \in Sessions : Present(s) /\ weight[s] = "tool" =>
    \E p \in Execs : exec[p].s = s /\ exec[p].pc \in {"running", "returned"}

\* The snapshots a quarantined session had when it was quarantined are tainted, so that
\* nothing resumes from them (persistDecisionWithExistingEvent).
QuarantineTaints ==
  faults = 0 => \A s \in Sessions : session[s].status = "quarantined" =>
    \A n \in Snapshots : snapshot[n].s = s => Tainted(n) \/ snapshot[n].late

\* A snapshot tainted by telemetry taints, along the edges, every snapshot whose parent_id
\* leads to it at that time: the edges never miss a parent_id, unless their insert failed.
TaintReachesChildren ==
  \A m \in Snapshots : LET n == snapshot[m].parent IN
    n # 0 /\ "flag" \in snapshot[n].marks =>
      "flag" \in snapshot[m].marks \/ snapshot[m].late \/ (~snapshot[m].edge /\ faults > 0)

\* A session is resumed only from a snapshot that is untainted at the moment its row
\* appears: writeMu keeps the taint of a batch out of the copy and the container start.
ResumedClean ==
  [][\A s \in Sessions : ~Known(s) /\ Known(s)' /\ session'[s].from # 0
        => ~Tainted(session'[s].from)]_vars
=============================================================================
