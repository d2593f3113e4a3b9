--------------------------- MODULE SessionsProofs ---------------------------
(***************************************************************************)
(* Theorems about Sessions.tla for any number of sessions, execs and       *)
(* snapshots and any number of refusals and crashes.                       *)
(***************************************************************************)
EXTENDS Sessions, WellFoundedInduction, TLAPS

(* The row of a session, its container, and the handler that holds writeMu.*)
DockInv ==
  /\ \A s \in Sessions :
       /\ Known(s) => docker[s] # "none"
       /\ session[s].named => Known(s)
  /\ UnnamedIsGone
  /\ op.kind # "none" => op.s \in Sessions
  /\ op.kind = "create" => docker[op.s] = "none"
  /\ op.kind = "insert" => ~Known(op.s) /\ Present(op.s)
  /\ op.kind \in {"stop", "stopped", "remove", "removed"} => Known(op.s)
  /\ op.kind = "removed" => docker[op.s] = "gone"

(* A command that returned has a result, and its row and its binding are   *)
(* as BindingSpansExec says.                                               *)
ExecInv ==
  /\ BindingSpansExec
  /\ \A p \in Execs : exec[p].pc \in {"returned", "restored"} => exec[p].result \in {"exited", "failed"}

(* A raised weight is some command's to lower, and a session that has no   *)
(* container yet has no raised weight.                                     *)
WeightInv ==
  /\ IdleAtThink
  /\ \A s \in Sessions : docker[s] = "none" => weight[s] # "tool"

(* Without a refusal the rows agree with docker for the handler's own      *)
(* session too, at the points where it has changed neither or both.        *)
MatchInv ==
  faults = 0 => \A s \in Sessions :
    op.s # s \/ op.kind \in {"create", "stop", "stopped", "remove"}
      => (session[s].named <=> Present(s))

(* What a resume picked is untainted for as long as it holds writeMu.      *)
ResumeInv ==
  op.from # 0 =>
    op.kind \in {"create", "insert"} /\ op.from \in Snapshots /\ ~Tainted(op.from)

-----------------------------------------------------------------------------
(* Identifiers are drawn in order, so the first of some that are left is   *)
(* one of them.                                                            *)
LEMMA FirstInSet ==
  ASSUME NEW S \in SUBSET Nat, S # {}
  PROVE  First(S) \in S
<1>1. PICK x \in S : \A y \in S : ~(<<y, x>> \in OpToRel(<, Nat))
  BY NatLessThanWellFounded, WFMin
<1>2. \A y \in S : ~(y < x)
  BY <1>1 DEF OpToRel
<1>3. \A y \in S : x <= y
  BY <1>2
<1> QED
  BY <1>3 DEF First

(* The snapshot a new one is compared with is one of the session's.        *)
LEMMA LatestInSet ==
  ASSUME NEW s \in Sessions
  PROVE  LatestSnapshot(s) \in Snapshots \cup {0}
<1> DEFINE mine == {n \in Snapshots : snapshot[n].s = s}
           T == {MaxSnapshots - n : n \in mine}
<1>1. CASE mine = {}
  BY <1>1 DEF LatestSnapshot
<1>2. CASE mine # {}
  <2>1. T \subseteq Nat /\ T # {}
    BY <1>2, BoundsAssumption DEF BoundsAssumption, Snapshots
  <2>2. PICK t \in T : \A y \in T : ~(<<y, t>> \in OpToRel(<, Nat))
    <3> HIDE DEF T
    <3> QED BY <2>1, NatLessThanWellFounded, WFMin
  <2>3. PICK n \in mine : t = MaxSnapshots - n
    OBVIOUS
  <2>4. ASSUME NEW m \in mine
        PROVE  m <= n
    <3>1. ~(MaxSnapshots - m < t)
      BY <2>1, <2>2 DEF OpToRel
    <3> QED
      BY <3>1, <2>3, BoundsAssumption DEF BoundsAssumption, Snapshots
  <2> QED
    BY <1>2, <2>4 DEF LatestSnapshot
<1> QED
  BY <1>1, <1>2

(* The types of the rows, kept closed in the proof that a step keeps them. *)
SessionRow == [status : {"none", "running", "quarantined", "stopped", "removed"},
               named : BOOLEAN, from : Snapshots \cup {0}]
ExecThread == [pc : Active \cup {"idle", "selected", "recorded", "damaged", "refused",
                                 "abandoned", "lost"},
               s : Sessions \cup {0}, named : BOOLEAN, result : {"none", "exited", "failed"}]
SnapshotRow == [s : Sessions \cup {0}, parent : Snapshots \cup {0}, edge : BOOLEAN,
                marks : SUBSET {"status", "flag"}, late : BOOLEAN]
OpRow == [kind : {"none", "create", "insert", "stop", "stopped", "remove", "removed"},
          s : Sessions \cup {0}, from : Snapshots \cup {0}]

Rows ==
  /\ session \in [Sessions -> SessionRow]
  /\ docker \in [Sessions -> {"none", "up", "down", "gone"}]
  /\ weight \in [Sessions -> {"think", "tool", "left"}]
  /\ exec \in [Execs -> ExecThread]
  /\ process \in [Execs -> {"none", "running", "exited", "failed", "killed"}]
  /\ binding \in [Execs -> {"none", "open", "closed"}]
  /\ snapshot \in [Snapshots -> SnapshotRow]
  /\ op \in OpRow
  /\ events \in 0 .. MaxEvents /\ faults \in 0 .. MaxFaults

LEMMA TypeIsRows == (TypeOK <=> Rows) /\ (TypeOK' <=> Rows')
  BY DEF TypeOK, Rows, SessionRow, ExecThread, SnapshotRow, OpRow

(* A row whose field is overwritten with a value of its type stays a row.  *)
LEMMA OpUpdate ==
  ASSUME op \in OpRow
  PROVE  /\ NoOp \in OpRow
         /\ \A k \in {"insert", "stopped", "removed"} : [op EXCEPT !.kind = k] \in OpRow
         /\ \A k \in {"create", "stop", "stopped", "remove", "removed"}, s \in Sessions,
              n \in Snapshots \cup {0} : [kind |-> k, s |-> s, from |-> n] \in OpRow
  BY DEF NoOp, OpRow

LEMMA SessionUpdate ==
  ASSUME session \in [Sessions -> SessionRow]
  PROVE  \A s \in Sessions, x \in {"running", "quarantined", "stopped", "removed"} :
           /\ [session[s] EXCEPT !.status = x] \in SessionRow
           /\ [session[s] EXCEPT !.status = x, !.named = FALSE] \in SessionRow
  BY DEF SessionRow

LEMMA ExecUpdate ==
  ASSUME exec \in [Execs -> ExecThread]
  PROVE  \A p \in Execs, x \in Active \cup {"recorded", "damaged", "refused", "abandoned", "lost"} :
           /\ [exec[p] EXCEPT !.pc = x] \in ExecThread
           /\ \A r \in {"exited", "failed"} :
                [exec[p] EXCEPT !.pc = x, !.result = r] \in ExecThread
  BY DEF ExecThread

LEMMA SnapshotUpdate ==
  ASSUME snapshot \in [Snapshots -> SnapshotRow]
  PROVE  \A n \in Snapshots :
           /\ [snapshot[n] EXCEPT !.marks = @ \cup {"status"}] \in SnapshotRow
           /\ [snapshot[n] EXCEPT !.marks = {"status", "flag"}] \in SnapshotRow
  BY DEF SnapshotRow

LEMMA FreshSessionType ==
  (\E s \in Sessions : docker[s] = "none") =>
    FreshSession \in Sessions /\ docker[FreshSession] = "none"
<1> DEFINE free == {s \in Sessions : docker[s] = "none"}
<1>1. free \in SUBSET Nat
  BY BoundsAssumption DEF BoundsAssumption, Sessions
<1>2. ASSUME free # {}
      PROVE  First(free) \in free
  <2> HIDE DEF free
  <2> QED BY <1>1, <1>2, FirstInSet
<1> QED
  BY <1>2 DEF FreshSession

LEMMA FreshSnapshotType ==
  (\E n \in Snapshots : ~Taken(n)) =>
    FreshSnapshot \in Snapshots /\ ~Taken(FreshSnapshot)
<1> DEFINE free == {n \in Snapshots : ~Taken(n)}
<1>1. free \in SUBSET Nat
  BY BoundsAssumption DEF BoundsAssumption, Snapshots
<1>2. ASSUME free # {}
      PROVE  First(free) \in free
  <2> HIDE DEF free
  <2> QED BY <1>1, <1>2, FirstInSet
<1> QED
  BY <1>2 DEF FreshSnapshot

LEMMA TypeStep == TypeOK /\ [Next]_vars => TypeOK'
<1> SUFFICES ASSUME Rows, [Next]_vars PROVE Rows'
  BY TypeIsRows
<1> USE BoundsAssumption DEF BoundsAssumption, Rows
<1>a. op.from \in Snapshots \cup {0} /\ op.s \in Sessions \cup {0}
  BY DEF OpRow
<1>1. ASSUME Handler PROVE Rows'
  <2>1. CASE CreateContainer
    <3>1. docker' \in [Sessions -> {"none", "up", "down", "gone"}]
      BY <2>1 DEF CreateContainer
    <3>2. weight' \in [Sessions -> {"think", "tool", "left"}]
      BY <2>1 DEF CreateContainer
    <3>3. op' \in OpRow
      BY <2>1, OpUpdate DEF CreateContainer
    <3>4. faults' \in 0 .. MaxFaults
      BY <2>1 DEF CreateContainer, Fault, NoFault
    <3> QED
      BY <2>1, <3>1, <3>2, <3>3, <3>4 DEF CreateContainer, NoFault
  <2>2. CASE CreateFails
    <3>1. docker' \in [Sessions -> {"none", "up", "down", "gone"}]
      BY <2>2 DEF CreateFails
    <3>2. op' \in OpRow
      BY <2>2, OpUpdate DEF CreateFails
    <3>3. faults' \in 0 .. MaxFaults
      BY <2>2 DEF CreateFails, Fault
    <3> QED
      BY <2>2, <3>1, <3>2, <3>3 DEF CreateFails
  <2>3. CASE InsertSession
    <3>1. [status |-> "running", named |-> TRUE, from |-> op.from] \in SessionRow
      BY <1>a DEF SessionRow
    <3>2. session' \in [Sessions -> SessionRow]
      BY <2>3, <3>1 DEF InsertSession, SessionRow
    <3>3. op' \in OpRow
      BY <2>3, OpUpdate DEF InsertSession
    <3>4. faults' \in 0 .. MaxFaults
      BY <2>3 DEF InsertSession, Fault, NoFault
    <3> QED
      BY <2>3, <3>2, <3>3, <3>4 DEF InsertSession, NoFault
  <2>4. CASE StopContainer
    <3>1. docker' \in [Sessions -> {"none", "up", "down", "gone"}]
      BY <2>4 DEF StopContainer
    <3>2. op' \in OpRow
      BY <2>4, OpUpdate DEF StopContainer
    <3> QED
      BY <2>4, <3>1, <3>2 DEF StopContainer
  <2>5. CASE RemoveContainer
    <3>1. docker' \in [Sessions -> {"none", "up", "down", "gone"}]
      BY <2>5 DEF RemoveContainer
    <3>2. op' \in OpRow
      BY <2>5, OpUpdate DEF RemoveContainer
    <3> QED
      BY <2>5, <3>1, <3>2 DEF RemoveContainer
  <2>6. CASE DockerRefuses
    <3>1. op' \in OpRow
      BY <2>6, OpUpdate DEF DockerRefuses
    <3>2. faults' \in 0 .. MaxFaults
      BY <2>6 DEF DockerRefuses, Fault
    <3> QED
      BY <2>6, <3>1, <3>2 DEF DockerRefuses
  <2>7. CASE MarkStopped
    <3>1. session' \in [Sessions -> SessionRow]
      BY SMTT(30), <2>7 DEF MarkStopped, SessionRow
    <3>2. op' \in OpRow
      BY <2>7, OpUpdate DEF MarkStopped
    <3>3. faults' \in 0 .. MaxFaults
      BY <2>7 DEF MarkStopped, Fault, NoFault
    <3> QED
      BY <2>7, <3>1, <3>2, <3>3 DEF MarkStopped, NoFault
  <2>8. CASE MarkRemoved
    <3>1. session' \in [Sessions -> SessionRow]
      BY <2>8 DEF MarkRemoved, SessionRow
    <3>2. op' \in OpRow
      BY <2>8, OpUpdate DEF MarkRemoved
    <3>3. faults' \in 0 .. MaxFaults
      BY <2>8 DEF MarkRemoved, Fault, NoFault
    <3> QED
      BY <2>8, <3>1, <3>2, <3>3 DEF MarkRemoved, NoFault
  <2> QED
    BY <1>1, <2>1, <2>2, <2>3, <2>4, <2>5, <2>6, <2>7, <2>8 DEF Handler
<1>2. ASSUME NEW p \in Execs, Exec(p) PROVE Rows'
  <2>1. ASSUME NEW s \in Sessions, ExecSelect(p, s) PROVE Rows'
    <3>1. [pc |-> "selected", s |-> s, named |-> session[s].named, result |-> "none"]
            \in ExecThread
      BY DEF ExecThread, SessionRow
    <3>2. exec' \in [Execs -> ExecThread]
      BY <2>1, <3>1 DEF ExecSelect, Active, ExecThread
    <3> QED
      BY <2>1, <3>2 DEF ExecSelect
  <2>2. CASE ExecInsert(p)
    <3>1. exec' \in [Execs -> ExecThread]
      BY SMTT(30), <2>2 DEF ExecInsert, Goto, Active, ExecThread
    <3>2. process' \in [Execs -> {"none", "running", "exited", "failed", "killed"}]
      BY <2>2 DEF ExecInsert
    <3>3. binding' \in [Execs -> {"none", "open", "closed"}]
      BY <2>2 DEF ExecInsert
    <3>4. faults' \in 0 .. MaxFaults
      BY <2>2 DEF ExecInsert, Fault, NoFault
    <3> QED
      BY <2>2, <3>1, <3>2, <3>3, <3>4 DEF ExecInsert, NoFault
  <2>3. CASE ExecToolWeight(p)
    <3>1. exec' \in [Execs -> ExecThread]
      BY <2>3 DEF ExecToolWeight, Goto, Active, ExecThread
    <3>2. weight' \in [Sessions -> {"think", "tool", "left"}]
      BY <2>3 DEF ExecToolWeight
    <3>3. faults' \in 0 .. MaxFaults
      BY <2>3 DEF ExecToolWeight, Fault, NoFault
    <3> QED
      BY <2>3, <3>1, <3>2, <3>3 DEF ExecToolWeight, NoFault
  <2>4. CASE ExecReturns(p)
    <3>1. PICK r \in {"exited", "failed"} :
            exec' = [exec EXCEPT ![p].pc = "returned", ![p].result = r]
      BY <2>4 DEF ExecReturns
    <3>2. [exec[p] EXCEPT !.pc = "returned", !.result = r] \in ExecThread
      BY ExecUpdate DEF Active
    <3>3. exec' = [exec EXCEPT ![p] = [exec[p] EXCEPT !.pc = "returned", !.result = r]]
      BY <3>1
    <3> QED
      BY <2>4, <3>2, <3>3 DEF ExecReturns
  <2>5. CASE ExecThinkWeight(p)
    <3>1. exec' \in [Execs -> ExecThread]
      BY <2>5 DEF ExecThinkWeight, Goto, Active, ExecThread
    <3>2. weight' \in [Sessions -> {"think", "tool", "left"}]
      BY <2>5 DEF ExecThinkWeight
    <3>3. faults' \in 0 .. MaxFaults
      BY <2>5 DEF ExecThinkWeight, Fault, NoFault
    <3> QED
      BY <2>5, <3>1, <3>2, <3>3 DEF ExecThinkWeight, NoFault
  <2>6. CASE ExecRecord(p)
    <3>1. exec[p].pc = "restored" => exec[p].result \in {"none", "exited", "failed"}
      BY DEF ExecThread
    <3>2. exec' \in [Execs -> ExecThread]
      BY <2>6 DEF ExecRecord, Goto, Active, ExecThread
    <3>3. process' \in [Execs -> {"none", "running", "exited", "failed", "killed"}]
      BY <2>6, <3>1 DEF ExecRecord
    <3>4. binding' \in [Execs -> {"none", "open", "closed"}]
      BY <2>6 DEF ExecRecord
    <3>5. faults' \in 0 .. MaxFaults
      BY <2>6 DEF ExecRecord, Fault, NoFault
    <3> QED
      BY <2>6, <3>2, <3>3, <3>4, <3>5 DEF ExecRecord, NoFault
  <2> QED
    BY <1>2, <2>1, <2>2, <2>3, <2>4, <2>5, <2>6 DEF Exec
<1>3. ASSUME Request PROVE Rows'
  <2>1. CASE CreateSession
    <3>1. FreshSession \in Sessions
      BY <2>1, FreshSessionType DEF CreateSession
    <3>2. op' \in OpRow
      BY <2>1, <3>1, OpUpdate DEF CreateSession
    <3> QED
      BY <2>1, <3>2 DEF CreateSession
  <2>2. ASSUME NEW n \in Snapshots, ResumeSnapshot(n) PROVE Rows'
    <3>1. FreshSession \in Sessions
      BY <2>2, FreshSessionType DEF ResumeSnapshot
    <3>2. PICK m \in Usable(n) : op' = [kind |-> "create", s |-> FreshSession, from |-> m]
      BY <2>2 DEF ResumeSnapshot
    <3>3. m \in Snapshots
      BY DEF Usable
    <3>4. op' \in OpRow
      BY <3>1, <3>2, <3>3, OpUpdate
    <3> QED
      BY <2>2, <3>4 DEF ResumeSnapshot
  <2>3. ASSUME NEW n \in Snapshots, TaintSnapshotAndDescendants(n) PROVE Rows'
    <3>1. snapshot' \in [Snapshots -> SnapshotRow]
      BY <2>3, SnapshotUpdate DEF TaintSnapshotAndDescendants
    <3>2. events' \in 0 .. MaxEvents
      BY <2>3 DEF TaintSnapshotAndDescendants, Event
    <3> QED
      BY <2>3, <3>1, <3>2 DEF TaintSnapshotAndDescendants
  <2>4. ASSUME NEW s \in Sessions, StopSession(s) PROVE Rows'
    <3>1. op' \in OpRow
      BY <2>4, OpUpdate DEF StopSession
    <3> QED
      BY <2>4, <3>1 DEF StopSession
  <2>5. ASSUME NEW s \in Sessions, RemoveSession(s) PROVE Rows'
    <3>1. op' \in OpRow
      BY <2>5, OpUpdate DEF RemoveSession
    <3> QED
      BY <2>5, <3>1 DEF RemoveSession
  <2>6. ASSUME NEW s \in Sessions, CreateDirectorySnapshot(s) PROVE Rows'
    <3>1. FreshSnapshot \in Snapshots
      BY <2>6, FreshSnapshotType DEF CreateDirectorySnapshot
    <3>2. \A edge, late \in BOOLEAN :
            [s |-> s, parent |-> LatestSnapshot(s), edge |-> edge, marks |-> {}, late |-> late]
              \in SnapshotRow
      BY LatestInSet DEF SnapshotRow
    <3>3. snapshot' \in [Snapshots -> SnapshotRow]
      BY <2>6, <3>1, <3>2 DEF CreateDirectorySnapshot
    <3>4. faults' \in 0 .. MaxFaults
      BY <2>6 DEF CreateDirectorySnapshot, Fault, NoFault
    <3> QED
      BY <2>6, <3>3, <3>4 DEF CreateDirectorySnapshot, NoFault
  <2>7. ASSUME NEW s \in Sessions, NEW profile \in {"think", "tool"},
               SetSessionCPUProfile(s, profile)
        PROVE  Rows'
    <3>1. weight' \in [Sessions -> {"think", "tool", "left"}]
      BY <2>7 DEF SetSessionCPUProfile
    <3>2. events' \in 0 .. MaxEvents
      BY <2>7 DEF SetSessionCPUProfile, Event
    <3> QED
      BY <2>7, <3>1, <3>2 DEF SetSessionCPUProfile
  <2>8. ASSUME NEW s \in Sessions \cup {0}, NEW p \in Execs \cup {0},
               NEW decision \in {"quarantine", "kill"}, Verdict(s, p, decision)
        PROVE  Rows'
    <3>1. PICK done \in SUBSET Effects(s, p, decision) : Verdict(s, p, decision)!4!(done)
      BY <2>8 DEF Verdict
    <3>2. session' \in [Sessions -> SessionRow]
      BY <3>1, SessionUpdate
    <3>3. snapshot' \in [Snapshots -> SnapshotRow]
      BY <3>1, SnapshotUpdate
    <3>4. process' \in [Execs -> {"none", "running", "exited", "failed", "killed"}]
      BY <3>1
    <3>5. events' \in 0 .. MaxEvents
      BY <2>8 DEF Verdict, Event
    <3>6. faults' \in 0 .. MaxFaults
      BY <3>1 DEF Fault, NoFault
    <3> QED
      BY <2>8, <3>2, <3>3, <3>4, <3>5, <3>6 DEF Verdict
  <2> QED
    BY <1>3, <2>1, <2>2, <2>3, <2>4, <2>5, <2>6, <2>7, <2>8 DEF Request
<1>4. ASSUME NEW s \in Sessions, ContainerDies(s) PROVE Rows'
  <2>1. docker' \in [Sessions -> {"none", "up", "down", "gone"}]
    BY <1>4 DEF ContainerDies
  <2>2. events' \in 0 .. MaxEvents
    BY <1>4 DEF ContainerDies, Event
  <2> QED
    BY <1>4, <2>1, <2>2 DEF ContainerDies
<1>5. CASE Crash
  <2>1. exec' \in [Execs -> ExecThread]
    BY <1>5, ExecUpdate DEF Crash
  <2>2. weight' \in [Sessions -> {"think", "tool", "left"}]
    BY <1>5 DEF Crash
  <2>3. op' \in OpRow
    BY <1>5, OpUpdate DEF Crash
  <2>4. faults' \in 0 .. MaxFaults
    BY <1>5 DEF Crash, Fault
  <2> QED
    BY <1>5, <2>1, <2>2, <2>3, <2>4 DEF Crash
<1>6. CASE UNCHANGED vars
  BY <1>6 DEF vars
<1> QED
  BY <1>1, <1>2, <1>3, <1>4, <1>5, <1>6 DEF Next

(* Every reachable state of the control plane is type correct.             *)
THEOREM TypeCorrect == Spec => []TypeOK
<1>1. Init => TypeOK
  BY BoundsAssumption DEF Init, BoundsAssumption, TypeOK, NoSession, NoExec, NoSnapshot, NoOp, Active
<1> QED
  BY <1>1, TypeStep, PTL DEF Spec

-----------------------------------------------------------------------------
LEMMA DockStep == TypeOK /\ DockInv /\ [Next]_vars => DockInv'
<1> SUFFICES ASSUME Rows, DockInv, [Next]_vars PROVE DockInv'
  BY TypeIsRows
<1> USE DEF DockInv, UnnamedIsGone, Known, Present
<1>a. /\ session \in [Sessions -> SessionRow]
      /\ docker \in [Sessions -> {"none", "up", "down", "gone"}]
      /\ op \in OpRow
  BY DEF Rows
<1>b. 0 \notin Sessions
  BY DEF Sessions
<1>1. ASSUME Handler PROVE DockInv'
  <2>1. CASE CreateContainer
    BY <1>a, <2>1 DEF CreateContainer, OpRow
  <2>2. CASE CreateFails
    BY <1>a, <2>2 DEF CreateFails, NoOp
  <2>3. CASE InsertSession
    BY <1>a, <2>3 DEF InsertSession, NoOp
  <2>4. CASE StopContainer
    BY <1>a, <2>4 DEF StopContainer, OpRow
  <2>5. CASE RemoveContainer
    BY <1>a, <2>5 DEF RemoveContainer, OpRow
  <2>6. CASE DockerRefuses
    BY <1>a, <2>6 DEF DockerRefuses, NoOp
  <2>7. CASE MarkStopped
    BY <1>a, <2>7 DEF MarkStopped, NoOp, SessionRow
  <2>8. CASE MarkRemoved
    BY <1>a, <2>8 DEF MarkRemoved, NoOp, SessionRow
  <2> QED
    BY <1>1, <2>1, <2>2, <2>3, <2>4, <2>5, <2>6, <2>7, <2>8 DEF Handler
<1>2. ASSUME NEW p \in Execs, Exec(p) PROVE DockInv'
  BY <1>2 DEF Exec, ExecSelect, ExecInsert, ExecToolWeight, ExecReturns, ExecThinkWeight, ExecRecord
<1>3. ASSUME Request PROVE DockInv'
  <2>1. CASE CreateSession
    <3>1. FreshSession \in Sessions /\ docker[FreshSession] = "none"
      BY <2>1, FreshSessionType DEF CreateSession
    <3> QED
      BY <1>a, <2>1, <3>1 DEF CreateSession
  <2>2. ASSUME NEW n \in Snapshots, ResumeSnapshot(n) PROVE DockInv'
    <3>1. FreshSession \in Sessions /\ docker[FreshSession] = "none"
      BY <2>2, FreshSessionType DEF ResumeSnapshot
    <3>2. PICK m \in Usable(n) : op' = [kind |-> "create", s |-> FreshSession, from |-> m]
      BY <2>2 DEF ResumeSnapshot
    <3> QED
      BY <1>a, <2>2, <3>1, <3>2 DEF ResumeSnapshot
  <2>3. ASSUME NEW n \in Snapshots, TaintSnapshotAndDescendants(n) PROVE DockInv'
    BY <2>3 DEF TaintSnapshotAndDescendants
  <2>4. ASSUME NEW s \in Sessions, StopSession(s) PROVE DockInv'
    BY <1>a, <2>4 DEF StopSession
  <2>5. ASSUME NEW s \in Sessions, RemoveSession(s) PROVE DockInv'
    BY <1>a, <2>5 DEF RemoveSession
  <2>6. ASSUME NEW s \in Sessions, CreateDirectorySnapshot(s) PROVE DockInv'
    BY <2>6 DEF CreateDirectorySnapshot
  <2>7. ASSUME NEW s \in Sessions, NEW profile \in {"think", "tool"},
               SetSessionCPUProfile(s, profile)
        PROVE  DockInv'
    BY <2>7 DEF SetSessionCPUProfile
  <2>8. ASSUME NEW s \in Sessions \cup {0}, NEW p \in Execs \cup {0},
               NEW decision \in {"quarantine", "kill"}, Verdict(s, p, decision)
        PROVE  DockInv'
    <3>1. CASE session' = session
      BY <2>8, <3>1 DEF Verdict
    <3>2. CASE /\ s \in Sessions /\ Known(s)
               /\ \E x \in {"stopped", "quarantined"} :
                    session' = [session EXCEPT ![s].status = x]
      BY <1>a, <2>8, <3>2 DEF Verdict, SessionRow
    <3> QED
      BY <2>8, <3>1, <3>2 DEF Verdict, Effects
  <2> QED
    BY <1>3, <2>1, <2>2, <2>3, <2>4, <2>5, <2>6, <2>7, <2>8 DEF Request
<1>4. ASSUME NEW s \in Sessions, ContainerDies(s) PROVE DockInv'
  BY <1>a, <1>4 DEF ContainerDies
<1>5. CASE Crash
  BY <1>5 DEF Crash, NoOp
<1>6. CASE UNCHANGED vars
  BY <1>6 DEF vars
<1> QED
  BY <1>1, <1>2, <1>3, <1>4, <1>5, <1>6 DEF Next

LEMMA DockInvariant == Spec => []DockInv
<1>1. Init => DockInv
  BY DEF Init, DockInv, UnnamedIsGone, Known, NoSession, NoOp
<1> QED
  BY <1>1, DockStep, TypeCorrect, PTL DEF Spec

(* A session that names no container has none left in docker, whatever     *)
(* docker or SQLite refuses and whenever the daemon dies in RemoveSession. *)
THEOREM UnnamedGone == Spec => []UnnamedIsGone
<1>1. DockInv => UnnamedIsGone
  BY DEF DockInv
<1> QED
  BY <1>1, DockInvariant, PTL

-----------------------------------------------------------------------------
LEMMA ExecInvStep == TypeOK /\ ExecInv /\ [Next]_vars => ExecInv'
<1> SUFFICES ASSUME Rows, ExecInv, [Next]_vars PROVE ExecInv'
  BY TypeIsRows
<1> USE DEF ExecInv, BindingSpansExec, Active
<1>a. /\ exec \in [Execs -> ExecThread]
      /\ process \in [Execs -> {"none", "running", "exited", "failed", "killed"}]
      /\ binding \in [Execs -> {"none", "open", "closed"}]
  BY DEF Rows
<1>1. ASSUME Handler PROVE ExecInv'
  BY <1>1 DEF Handler, CreateContainer, CreateFails, InsertSession, StopContainer, RemoveContainer,
       DockerRefuses, MarkStopped, MarkRemoved
<1>2. ASSUME NEW p \in Execs, Exec(p) PROVE ExecInv'
  <2>1. ASSUME NEW s \in Sessions, ExecSelect(p, s) PROVE ExecInv'
    BY <1>a, <2>1 DEF ExecSelect
  <2>2. CASE ExecInsert(p)
    BY <1>a, <2>2 DEF ExecInsert, Goto, ExecThread
  <2>3. CASE ExecToolWeight(p)
    BY <1>a, <2>3 DEF ExecToolWeight, Goto, ExecThread
  <2>4. CASE ExecReturns(p)
    <3>1. PICK r \in {"exited", "failed"} :
            exec' = [exec EXCEPT ![p].pc = "returned", ![p].result = r]
      BY <2>4 DEF ExecReturns
    <3>2. /\ exec'[p].pc = "returned" /\ exec'[p].result = r
          /\ \A q \in Execs \ {p} : exec'[q] = exec[q]
      BY <1>a, <3>1 DEF ExecThread
    <3> QED
      BY <1>a, <2>4, <3>2 DEF ExecReturns
  <2>5. CASE ExecThinkWeight(p)
    BY <1>a, <2>5 DEF ExecThinkWeight, Goto, ExecThread
  <2>6. CASE ExecRecord(p)
    BY <1>a, <2>6 DEF ExecRecord, Goto, ExecThread
  <2> QED
    BY <1>2, <2>1, <2>2, <2>3, <2>4, <2>5, <2>6 DEF Exec
<1>3. ASSUME Request PROVE ExecInv'
  <2>1. ASSUME UNCHANGED <<exec, process, binding>> PROVE ExecInv'
    BY <2>1
  <2>2. ASSUME NEW s \in Sessions \cup {0}, NEW p \in Execs \cup {0},
               NEW decision \in {"quarantine", "kill"}, Verdict(s, p, decision)
        PROVE  ExecInv'
    <3>1. CASE process' = process
      BY <2>1, <2>2, <3>1 DEF Verdict
    <3>2. CASE process' = [process EXCEPT ![p] = "killed"]
      BY <1>a, <2>2, <3>2 DEF Verdict
    <3> QED
      BY <2>2, <3>1, <3>2 DEF Verdict
  <2> QED
    BY <1>3, <2>1, <2>2 DEF Request, CreateSession, ResumeSnapshot, TaintSnapshotAndDescendants,
         StopSession, RemoveSession, CreateDirectorySnapshot, SetSessionCPUProfile
<1>4. ASSUME NEW s \in Sessions, ContainerDies(s) PROVE ExecInv'
  BY <1>4 DEF ContainerDies
<1>5. CASE Crash
  <2>1. \A p \in Execs : \/ exec'[p] = exec[p] /\ exec[p].pc \notin Active
                        \/ exec'[p].pc = "lost"
    BY <1>a, <1>5 DEF Crash, ExecThread
  <2> QED
    BY <1>a, <1>5, <2>1 DEF Crash
<1>6. CASE UNCHANGED vars
  BY <1>6 DEF vars
<1> QED
  BY <1>1, <1>2, <1>3, <1>4, <1>5, <1>6 DEF Next

(* Bindings and process rows follow Service.exec: what is recorded is      *)
(* closed and final, and an open binding has an exec that was not.         *)
THEOREM BindingsSpanExecs == Spec => []BindingSpansExec
<1>1. Init => ExecInv
  BY DEF Init, ExecInv, BindingSpansExec, Active, NoExec
<1>2. ExecInv => BindingSpansExec
  BY DEF ExecInv
<1> QED
  BY <1>1, <1>2, ExecInvStep, TypeCorrect, PTL DEF Spec
-----------------------------------------------------------------------------
LEMMA WeightStep == TypeOK /\ DockInv /\ WeightInv /\ [Next]_vars => WeightInv'
<1> SUFFICES ASSUME Rows, DockInv, WeightInv, [Next]_vars PROVE WeightInv'
  BY TypeIsRows
<1> USE DEF WeightInv, IdleAtThink, Present
<1>a. /\ docker \in [Sessions -> {"none", "up", "down", "gone"}]
      /\ weight \in [Sessions -> {"think", "tool", "left"}]
      /\ exec \in [Execs -> ExecThread]
  BY DEF Rows
<1>1. ASSUME Handler PROVE WeightInv'
  <2>1. CASE CreateContainer
    BY <1>a, <2>1 DEF CreateContainer
  <2>2. CASE CreateFails
    BY <1>a, <2>2 DEF CreateFails, DockInv
  <2>3. CASE StopContainer
    BY <1>a, <2>3 DEF StopContainer
  <2>4. CASE RemoveContainer
    BY <1>a, <2>4 DEF RemoveContainer
  <2>5. CASE InsertSession \/ DockerRefuses \/ MarkStopped \/ MarkRemoved
    BY <2>5 DEF InsertSession, DockerRefuses, MarkStopped, MarkRemoved
  <2> QED
    BY <1>1, <2>1, <2>2, <2>3, <2>4, <2>5 DEF Handler
<1>2. ASSUME NEW p \in Execs, Exec(p) PROVE WeightInv'
  <2>1. ASSUME NEW s \in Sessions, ExecSelect(p, s) PROVE WeightInv'
    BY <1>a, <2>1 DEF ExecSelect
  <2>2. CASE ExecInsert(p)
    BY <1>a, <2>2 DEF ExecInsert, Goto, ExecThread
  <2>3. CASE ExecToolWeight(p)
    BY <1>a, <2>3 DEF ExecToolWeight, Goto, ExecThread
  <2>4. CASE ExecReturns(p)
    <3>1. PICK r \in {"exited", "failed"} :
            exec' = [exec EXCEPT ![p].pc = "returned", ![p].result = r]
      BY <2>4 DEF ExecReturns
    <3>2. /\ exec'[p].pc = "returned" /\ exec'[p].s = exec[p].s
          /\ \A q \in Execs \ {p} : exec'[q] = exec[q]
      BY <1>a, <3>1 DEF ExecThread
    <3> QED
      BY <1>a, <2>4, <3>2 DEF ExecReturns
  <2>5. CASE ExecThinkWeight(p)
    BY <1>a, <2>5 DEF ExecThinkWeight, Goto, ExecThread
  <2>6. CASE ExecRecord(p)
    BY <1>a, <2>6 DEF ExecRecord, Goto, ExecThread
  <2> QED
    BY <1>2, <2>1, <2>2, <2>3, <2>4, <2>5, <2>6 DEF Exec
<1>3. ASSUME Request PROVE WeightInv'
  <2>1. ASSUME UNCHANGED <<docker, weight, exec>> PROVE WeightInv'
    BY <2>1
  <2>2. ASSUME NEW s \in Sessions, NEW profile \in {"think", "tool"},
               SetSessionCPUProfile(s, profile)
        PROVE  WeightInv'
    BY <1>a, <2>2 DEF SetSessionCPUProfile
  <2> QED
    BY <1>3, <2>1, <2>2 DEF Request, CreateSession, ResumeSnapshot, TaintSnapshotAndDescendants,
         StopSession, RemoveSession, CreateDirectorySnapshot, Verdict
<1>4. ASSUME NEW s \in Sessions, ContainerDies(s) PROVE WeightInv'
  BY <1>a, <1>4 DEF ContainerDies
<1>5. CASE Crash
  BY <1>a, <1>5 DEF Crash
<1>6. CASE UNCHANGED vars
  BY <1>6 DEF vars
<1> QED
  BY <1>1, <1>2, <1>3, <1>4, <1>5, <1>6 DEF Next

(* No container keeps the tool weight of a command that ended, however     *)
(* execs in it overlap (setContainerCPUProfile around execRuntime).        *)
THEOREM WeightHasCommand == Spec => []IdleAtThink
<1>1. Init => WeightInv
  BY DEF Init, WeightInv, IdleAtThink
<1>2. WeightInv => IdleAtThink
  BY DEF WeightInv
<1> QED
  BY <1>1, <1>2, WeightStep, DockInvariant, TypeCorrect, PTL DEF Spec

-----------------------------------------------------------------------------
LEMMA MatchStep == TypeOK /\ DockInv /\ MatchInv /\ [Next]_vars => MatchInv'
<1> SUFFICES ASSUME Rows, DockInv, MatchInv, [Next]_vars, faults' = 0, NEW t \in Sessions,
                    op'.s # t \/ op'.kind \in {"create", "stop", "stopped", "remove"}
             PROVE  session'[t].named <=> Present(t)'
  BY TypeIsRows DEF MatchInv
<1> USE DEF Present
<1>a. /\ session \in [Sessions -> SessionRow]
      /\ docker \in [Sessions -> {"none", "up", "down", "gone"}]
      /\ op \in OpRow /\ faults \in Nat
  BY BoundsAssumption DEF Rows, BoundsAssumption
<1>b. 0 \notin Sessions
  BY DEF Sessions
<1>c. ASSUME faults = 0, op.s # t \/ op.kind \in {"create", "stop", "stopped", "remove"}
      PROVE  session[t].named <=> Present(t)
  BY <1>c DEF MatchInv
<1>1. ASSUME Handler PROVE session'[t].named <=> Present(t)'
  <2>1. CASE CreateContainer
    BY <1>a, <1>c, <2>1 DEF CreateContainer, Fault, NoFault, OpRow
  <2>2. CASE CreateFails
    BY <1>a, <2>2 DEF CreateFails, Fault
  <2>3. CASE InsertSession
    BY <1>a, <1>c, <2>3 DEF InsertSession, Fault, NoFault, DockInv
  <2>4. CASE StopContainer
    BY <1>a, <1>c, <2>4 DEF StopContainer, OpRow
  <2>5. CASE RemoveContainer
    BY <1>a, <1>c, <2>5 DEF RemoveContainer, OpRow
  <2>6. CASE DockerRefuses
    BY <1>a, <2>6 DEF DockerRefuses, Fault
  <2>7. CASE MarkStopped
    BY <1>a, <1>c, <2>7 DEF MarkStopped, Fault, NoFault, SessionRow
  <2>8. CASE MarkRemoved
    BY <1>a, <1>c, <2>8 DEF MarkRemoved, Fault, NoFault, SessionRow, DockInv
  <2> QED
    BY <1>1, <2>1, <2>2, <2>3, <2>4, <2>5, <2>6, <2>7, <2>8 DEF Handler
<1>2. ASSUME UNCHANGED <<session, docker, op>>, faults = 0
      PROVE  session'[t].named <=> Present(t)'
  BY <1>c, <1>2
<1>3. ASSUME NEW p \in Execs, Exec(p) PROVE session'[t].named <=> Present(t)'
  BY <1>a, <1>2, <1>3 DEF Exec, ExecSelect, ExecInsert, ExecToolWeight, ExecReturns,
       ExecThinkWeight, ExecRecord, Fault, NoFault
<1>4. ASSUME Request PROVE session'[t].named <=> Present(t)'
  <2>1. faults = 0
    BY <1>a, <1>4 DEF Request, CreateSession, ResumeSnapshot, TaintSnapshotAndDescendants,
         StopSession, RemoveSession, CreateDirectorySnapshot, SetSessionCPUProfile, Verdict,
         Fault, NoFault
  <2>2. op = NoOp
    BY <1>4 DEF Request, CreateSession, ResumeSnapshot, TaintSnapshotAndDescendants,
         StopSession, RemoveSession, CreateDirectorySnapshot, SetSessionCPUProfile, Verdict,
         UnlockedWrites
  <2>3. session[t].named <=> Present(t)
    BY <1>b, <1>c, <2>1, <2>2 DEF NoOp
  <2>4. docker' = docker
    BY <1>4 DEF Request, CreateSession, ResumeSnapshot, TaintSnapshotAndDescendants,
         StopSession, RemoveSession, CreateDirectorySnapshot, SetSessionCPUProfile, Verdict
  <2>5. session'[t].named = session[t].named
    <3>1. ASSUME NEW s \in Sessions \cup {0}, NEW p \in Execs \cup {0},
                 NEW decision \in {"quarantine", "kill"}, Verdict(s, p, decision)
          PROVE  session'[t].named = session[t].named
      BY <1>a, <3>1 DEF Verdict, SessionRow
    <3> QED
      BY <1>4, <3>1 DEF Request, CreateSession, ResumeSnapshot, TaintSnapshotAndDescendants,
           StopSession, RemoveSession, CreateDirectorySnapshot, SetSessionCPUProfile
  <2> QED
    BY <2>3, <2>4, <2>5
<1>5. ASSUME NEW s \in Sessions, ContainerDies(s) PROVE session'[t].named <=> Present(t)'
  BY <1>a, <1>c, <1>5 DEF ContainerDies
<1>6. CASE Crash
  BY <1>a, <1>6 DEF Crash, Fault
<1>7. CASE UNCHANGED vars
  BY <1>2, <1>7 DEF vars
<1> QED
  BY <1>1, <1>3, <1>4, <1>5, <1>6, <1>7 DEF Next

(* As long as neither docker nor SQLite refused anything, a session names  *)
(* a container exactly if there is one, but for the one being worked on.   *)
THEOREM RowsAgree == Spec => []RowsMatchDocker
<1>1. Init => MatchInv
  BY DEF Init, MatchInv, Present, NoSession, NoOp
<1>2. MatchInv => RowsMatchDocker
  BY DEF MatchInv, RowsMatchDocker
<1> QED
  BY <1>1, <1>2, MatchStep, DockInvariant, TypeCorrect, PTL DEF Spec

-----------------------------------------------------------------------------
LEMMA QuarantineStep == TypeOK /\ QuarantineTaints /\ [Next]_vars => QuarantineTaints'
<1> SUFFICES ASSUME Rows, QuarantineTaints, [Next]_vars, faults' = 0, NEW t \in Sessions,
                    session'[t].status = "quarantined", NEW m \in Snapshots,
                    snapshot'[m].s = t
             PROVE  Tainted(m)' \/ snapshot'[m].late
  BY TypeIsRows DEF QuarantineTaints
<1> USE DEF Tainted
<1>a. /\ session \in [Sessions -> SessionRow]
      /\ snapshot \in [Snapshots -> SnapshotRow]
      /\ faults \in Nat
  BY BoundsAssumption DEF Rows, BoundsAssumption
<1>b. ASSUME faults = 0, session[t].status = "quarantined", snapshot[m].s = t
      PROVE  Tainted(m) \/ snapshot[m].late
  BY <1>b DEF QuarantineTaints
<1>1. ASSUME Handler PROVE Tainted(m)' \/ snapshot'[m].late
  <2>1. faults = 0 /\ snapshot' = snapshot
    BY <1>a, <1>1 DEF Handler, CreateContainer, CreateFails, InsertSession, StopContainer,
         RemoveContainer, DockerRefuses, MarkStopped, MarkRemoved, Fault, NoFault
  <2>2. session[t].status = "quarantined"
    <3>1. CASE InsertSession
      BY <1>a, <3>1 DEF InsertSession, SessionRow
    <3>2. CASE MarkStopped
      BY <1>a, <3>2 DEF MarkStopped, SessionRow
    <3>3. CASE MarkRemoved
      BY <1>a, <3>3 DEF MarkRemoved, SessionRow
    <3> QED
      BY <1>1, <3>1, <3>2, <3>3 DEF Handler, CreateContainer, CreateFails, StopContainer,
           RemoveContainer, DockerRefuses
  <2> QED
    BY <1>b, <2>1, <2>2
<1>2. ASSUME UNCHANGED <<session, snapshot>>, faults = 0
      PROVE  Tainted(m)' \/ snapshot'[m].late
  BY <1>b, <1>2
<1>3. ASSUME NEW p \in Execs, Exec(p) PROVE Tainted(m)' \/ snapshot'[m].late
  BY <1>a, <1>2, <1>3 DEF Exec, ExecSelect, ExecInsert, ExecToolWeight, ExecReturns,
       ExecThinkWeight, ExecRecord, Fault, NoFault
<1>4. ASSUME Request PROVE Tainted(m)' \/ snapshot'[m].late
  <2>1. faults = 0
    BY <1>a, <1>4 DEF Request, CreateSession, ResumeSnapshot, TaintSnapshotAndDescendants,
         StopSession, RemoveSession, CreateDirectorySnapshot, SetSessionCPUProfile, Verdict,
         Fault, NoFault
  <2>2. ASSUME NEW n \in Snapshots, TaintSnapshotAndDescendants(n)
        PROVE  Tainted(m)' \/ snapshot'[m].late
    <3>1. snapshot'[m] = snapshot[m] \/ snapshot'[m].marks = {"status", "flag"}
      BY <1>a, <2>2 DEF TaintSnapshotAndDescendants, SnapshotRow
    <3> QED
      BY <1>b, <2>1, <2>2, <3>1 DEF TaintSnapshotAndDescendants
  <2>3. ASSUME NEW s \in Sessions, CreateDirectorySnapshot(s)
        PROVE  Tainted(m)' \/ snapshot'[m].late
    <3>1. CASE m = FreshSnapshot
      <4> DEFINE late == session[s].status = "quarantined"
                           \/ (LatestSnapshot(s) # 0
                                 /\ "flag" \in snapshot[LatestSnapshot(s)].marks)
                 Row(edge) == [s |-> s, parent |-> LatestSnapshot(s), edge |-> edge,
                               marks |-> {}, late |-> late]
      <4>1. PICK edge \in BOOLEAN : snapshot' = [snapshot EXCEPT ![FreshSnapshot] = Row(edge)]
        BY <2>3 DEF CreateDirectorySnapshot
      <4>2. snapshot'[m] = Row(edge)
        BY <1>a, <3>1, <4>1
      <4>3. s = t /\ session' = session
        BY <2>3, <4>2 DEF CreateDirectorySnapshot
      <4>4. late
        BY <4>3
      <4> HIDE DEF late
      <4> QED
        BY <4>2, <4>4
    <3>2. CASE m # FreshSnapshot
      BY <1>a, <1>b, <2>1, <2>3, <3>2 DEF CreateDirectorySnapshot
    <3> QED
      BY <3>1, <3>2
  <2>4. ASSUME NEW s \in Sessions \cup {0}, NEW p \in Execs \cup {0},
               NEW decision \in {"quarantine", "kill"}, Verdict(s, p, decision)
        PROVE  Tainted(m)' \/ snapshot'[m].late
    <3>1. PICK done \in SUBSET Effects(s, p, decision) : Verdict(s, p, decision)!4!(done)
      BY <2>4 DEF Verdict
    <3>2. done = Effects(s, p, decision)
      BY <1>a, <2>1, <3>1 DEF Fault
    <3>3. CASE s = 0
      BY <1>b, <2>1, <3>1, <3>2, <3>3 DEF Effects
    <3>4. CASE s # 0
      <4>1. session' = [session EXCEPT ![s].status =
                          IF decision = "kill" THEN "stopped" ELSE "quarantined"]
        BY <3>1, <3>2, <3>4 DEF Effects
      <4>2. snapshot' = [n \in Snapshots |-> IF snapshot[n].s = s
                          THEN [snapshot[n] EXCEPT !.marks = @ \cup {"status"}] ELSE snapshot[n]]
        BY <3>1, <3>2, <3>4 DEF Effects
      <4>3. CASE snapshot[m].s = s
        BY <1>a, <4>2, <4>3 DEF SnapshotRow
      <4>4. CASE snapshot[m].s # s
        <5>1. snapshot'[m] = snapshot[m] /\ t # s
          BY <4>2, <4>4
        <5>2. session'[t] = session[t]
          BY <1>a, <4>1, <5>1
        <5> QED
          BY <1>b, <2>1, <5>1, <5>2
      <4> QED
        BY <4>3, <4>4
    <3> QED
      BY <3>3, <3>4
  <2> QED
    BY <1>2, <1>4, <2>1, <2>2, <2>3, <2>4 DEF Request, CreateSession, ResumeSnapshot,
         StopSession, RemoveSession, SetSessionCPUProfile
<1>5. ASSUME NEW s \in Sessions, ContainerDies(s) PROVE Tainted(m)' \/ snapshot'[m].late
  BY <1>2, <1>5 DEF ContainerDies
<1>6. CASE Crash
  BY <1>a, <1>6 DEF Crash, Fault
<1>7. CASE UNCHANGED vars
  BY <1>2, <1>7 DEF vars
<1> QED
  BY <1>1, <1>3, <1>4, <1>5, <1>6, <1>7 DEF Next

(* What a session had stored when it was quarantined is tainted, as long as*)
(* no statement was refused (persistDecisionWithExistingEvent).            *)
THEOREM QuarantinedAreTainted == Spec => []QuarantineTaints
<1>1. Init => QuarantineTaints
  BY DEF Init, QuarantineTaints, NoSession
<1> QED
  BY <1>1, QuarantineStep, TypeCorrect, PTL DEF Spec
-----------------------------------------------------------------------------
LEMMA ResumeStep == TypeOK /\ ResumeInv /\ [Next]_vars => ResumeInv'
<1> SUFFICES ASSUME Rows, ResumeInv, [Next]_vars PROVE ResumeInv'
  BY TypeIsRows
<1> USE DEF ResumeInv, Tainted
<1>a. op \in OpRow
  BY DEF Rows
<1>1. ASSUME Handler PROVE ResumeInv'
  <2>1. snapshot' = snapshot
    BY <1>1 DEF Handler, CreateContainer, CreateFails, InsertSession, StopContainer,
         RemoveContainer, DockerRefuses, MarkStopped, MarkRemoved
  <2>2. op' = NoOp \/ (\E k \in {"insert", "stopped", "removed"} : op' = [op EXCEPT !.kind = k])
    BY <1>1 DEF Handler, CreateContainer, CreateFails, InsertSession, StopContainer,
         RemoveContainer, DockerRefuses, MarkStopped, MarkRemoved
  <2>3. op'.kind \in {"stopped", "removed"} => op.kind \in {"stop", "remove"} \/ op' = NoOp
    BY <1>1, <1>a DEF Handler, CreateContainer, CreateFails, InsertSession, StopContainer,
         RemoveContainer, DockerRefuses, MarkStopped, MarkRemoved, OpRow, NoOp
  <2> QED
    BY <1>a, <2>1, <2>2, <2>3 DEF OpRow, NoOp
<1>2. ASSUME NEW p \in Execs, Exec(p) PROVE ResumeInv'
  BY <1>2 DEF Exec, ExecSelect, ExecInsert, ExecToolWeight, ExecReturns, ExecThinkWeight,
       ExecRecord
<1>3. ASSUME Request PROVE ResumeInv'
  <2>1. ASSUME NEW n \in Snapshots, ResumeSnapshot(n) PROVE ResumeInv'
    BY <2>1 DEF ResumeSnapshot, Usable
  <2>2. ASSUME op' = op, op = NoOp PROVE ResumeInv'
    BY <2>2 DEF NoOp
  <2>3. ASSUME NEW s \in Sessions, StopSession(s) \/ RemoveSession(s) PROVE ResumeInv'
    BY <2>3 DEF StopSession, RemoveSession
  <2>4. CASE CreateSession
    BY <2>4 DEF CreateSession
  <2> QED
    BY <1>3, <2>1, <2>2, <2>3, <2>4 DEF Request, TaintSnapshotAndDescendants,
         CreateDirectorySnapshot, SetSessionCPUProfile, Verdict, UnlockedWrites
<1>4. ASSUME NEW s \in Sessions, ContainerDies(s) PROVE ResumeInv'
  BY <1>4 DEF ContainerDies
<1>5. CASE Crash
  BY <1>5 DEF Crash, NoOp
<1>6. CASE UNCHANGED vars
  BY <1>6 DEF vars
<1> QED
  BY <1>1, <1>2, <1>3, <1>4, <1>5, <1>6 DEF Next

(* A session is resumed from a snapshot that is untainted when its row     *)
(* appears: ResumeSnapshot holds writeMu from its plan to its INSERT.      *)
THEOREM ResumedAreClean == Spec => ResumedClean
<1>1. Init => ResumeInv
  BY DEF Init, ResumeInv, NoOp
<1>2. ASSUME Rows, DockInv, ResumeInv, [Next]_vars, NEW t \in Sessions,
             ~Known(t), Known(t)', session'[t].from # 0
      PROVE  ~Tainted(session'[t].from)
  <2>a. session \in [Sessions -> SessionRow]
    BY <1>2 DEF Rows
  <2>b. 0 \notin Sessions
    BY DEF Sessions
  <2>1. CASE InsertSession
    BY <1>2, <2>a, <2>1 DEF InsertSession, ResumeInv, Known
  <2>2. CASE MarkStopped \/ MarkRemoved
    BY <1>2, <2>a, <2>2 DEF MarkStopped, MarkRemoved, DockInv, Known
  <2>3. ASSUME NEW s \in Sessions \cup {0}, NEW p \in Execs \cup {0},
               NEW decision \in {"quarantine", "kill"}, Verdict(s, p, decision)
        PROVE  FALSE
    <3>1. session'[t] = session[t] \/ t = s
      BY <2>a, <2>3 DEF Verdict
    <3> QED
      BY <1>2, <2>b, <2>3, <3>1 DEF Verdict, Known
  <2>4. session' # session
    BY <1>2 DEF Known
  <2> QED
    BY <1>2, <2>1, <2>2, <2>3, <2>4 DEF Next, Handler, Exec, Request, CreateContainer, CreateFails,
         StopContainer, RemoveContainer, DockerRefuses, ExecSelect, ExecInsert, ExecToolWeight,
         ExecReturns, ExecThinkWeight, ExecRecord, CreateSession, ResumeSnapshot,
         TaintSnapshotAndDescendants, StopSession, RemoveSession, CreateDirectorySnapshot,
         SetSessionCPUProfile, ContainerDies, Crash, vars
<1>3. TypeOK /\ DockInv /\ ResumeInv /\ [Next]_vars
        => [\A s \in Sessions : ~Known(s) /\ Known(s)' /\ session'[s].from # 0
              => ~Tainted(session'[s].from)]_vars
  BY <1>2, TypeIsRows
<1> QED
  BY <1>1, <1>3, ResumeStep, DockInvariant, TypeCorrect, PTL DEF Spec, ResumedClean

-----------------------------------------------------------------------------
(* Taint along the edges.                                                  *)

(* An edge leads to the parent, and only a refused insert leaves one out.  *)
EdgeInv ==
  \A m \in Snapshots :
    /\ snapshot[m].edge => snapshot[m].parent \in Snapshots
    /\ snapshot[m].parent # 0 /\ ~snapshot[m].edge => faults > 0

(* Snapshots that the edges do not lead out of, and the least such set     *)
(* around m.                                                               *)
Closed(S) == \A y \in S : snapshot[y].edge => snapshot[y].parent \in S
Least(m) == {x \in Snapshots : \A S \in SUBSET Snapshots : m \in S /\ Closed(S) => x \in S}

(* The recursion along the edges has a solution, the least closed sets.    *)
LEMMA LeastIsLineage ==
  ASSUME EdgeInv, NEW m \in Snapshots
  PROVE  Least(m) = {m} \cup IF snapshot[m].edge THEN Least(snapshot[m].parent) ELSE {}
<1>1. ASSUME NEW n \in Snapshots PROVE n \in Least(n) /\ Closed(Least(n))
  <2>1. ASSUME NEW y \in Least(n), snapshot[y].edge PROVE snapshot[y].parent \in Least(n)
    BY <2>1 DEF EdgeInv, Least, Closed
  <2> QED
    BY <2>1 DEF Least, Closed
<1>2. ASSUME NEW n \in Snapshots, NEW S \in SUBSET Snapshots, n \in S, Closed(S)
      PROVE  Least(n) \subseteq S
  BY <1>2 DEF Least
<1>3. CASE snapshot[m].edge
  <2> DEFINE p == snapshot[m].parent
  <2>1. p \in Snapshots
    BY <1>3 DEF EdgeInv
  <2>2. {m} \cup Least(p) \in SUBSET Snapshots
    BY DEF Least
  <2>3. Closed({m} \cup Least(p))
    BY <1>1, <2>1 DEF Closed
  <2>4. Least(m) \subseteq {m} \cup Least(p)
    BY <1>2, <2>2, <2>3
  <2>5. p \in Least(m)
    BY <1>1, <1>3 DEF Closed
  <2>6. Least(p) \subseteq Least(m)
    <3>1. Least(m) \in SUBSET Snapshots
      BY DEF Least
    <3> QED
      BY <1>1, <1>2, <2>1, <2>5, <3>1
  <2> QED
    BY <1>1, <1>3, <2>4, <2>6
<1>4. CASE ~snapshot[m].edge
  <2>1. Closed({m})
    BY <1>4 DEF Closed
  <2> QED
    BY <1>1, <1>2, <1>4, <2>1
<1> QED
  BY <1>3, <1>4

LEMMA LineageIs ==
  ASSUME EdgeInv, NEW m \in Snapshots, snapshot[m].edge
  PROVE  Lineage[m] = {m} \cup Lineage[snapshot[m].parent]
<1> DEFINE Solves(f) == f = [k \in Snapshots |->
                               {k} \cup IF snapshot[k].edge THEN f[snapshot[k].parent] ELSE {}]
           least == [k \in Snapshots |-> Least(k)]
<1>1. Solves(least)
  <2>1. ASSUME NEW k \in Snapshots
        PROVE  Least(k) = {k} \cup IF snapshot[k].edge THEN least[snapshot[k].parent] ELSE {}
    <3>1. snapshot[k].edge => least[snapshot[k].parent] = Least(snapshot[k].parent)
      BY DEF EdgeInv
    <3> QED
      BY <3>1, LeastIsLineage
  <2> QED
    BY <2>1
<1>2. Lineage = CHOOSE f : Solves(f)
  BY DEF Lineage
<1>3. Solves(Lineage)
  BY <1>1, <1>2
<1> QED
  BY <1>3

(* Whatever neither takes a snapshot nor taints along the edges.           *)
LEMMA TaintCarries ==
  ASSUME EdgeInv, TaintReachesChildren, faults \in Nat, faults' \in Nat, faults <= faults',
         \A m \in Snapshots : /\ snapshot'[m].parent = snapshot[m].parent
                              /\ snapshot'[m].edge = snapshot[m].edge
                              /\ snapshot'[m].late = snapshot[m].late,
         \A m \in Snapshots : "flag" \in snapshot'[m].marks <=> "flag" \in snapshot[m].marks,
         \A m \in Snapshots : snapshot[m].parent \in Snapshots \cup {0}
  PROVE  EdgeInv' /\ TaintReachesChildren'
<1>1. faults > 0 => faults' > 0
  OBVIOUS
<1>2. EdgeInv'
  BY <1>1 DEF EdgeInv
<1>3. ASSUME NEW m \in Snapshots, snapshot'[m].parent # 0,
             "flag" \in snapshot'[snapshot'[m].parent].marks
      PROVE  \/ "flag" \in snapshot'[m].marks \/ snapshot'[m].late
             \/ (~snapshot'[m].edge /\ faults' > 0)
  BY <1>1, <1>3 DEF TaintReachesChildren
<1> QED
  BY <1>2, <1>3 DEF TaintReachesChildren

(* A snapshot is late if its parent is tainted when it is taken, and its   *)
(* own mark comes later than its edge.                                     *)
LEMMA TaintCreate ==
  ASSUME Rows, EdgeInv, TaintReachesChildren, NEW s \in Sessions, CreateDirectorySnapshot(s)
  PROVE  EdgeInv' /\ TaintReachesChildren'
<1> DEFINE new == FreshSnapshot
           p == LatestSnapshot(s)
           late == session[s].status = "quarantined"
                     \/ (p # 0 /\ "flag" \in snapshot[p].marks)
           Row(edge) == [s |-> s, parent |-> p, edge |-> edge, marks |-> {}, late |-> late]
<1>1. snapshot \in [Snapshots -> SnapshotRow] /\ faults \in Nat
  BY BoundsAssumption DEF Rows, BoundsAssumption
<1>2. /\ \E n \in Snapshots : ~Taken(n)
      /\ \/ snapshot' = [snapshot EXCEPT ![new] = Row(p # 0)] /\ faults' = faults
         \/ p # 0 /\ snapshot' = [snapshot EXCEPT ![new] = Row(FALSE)] /\ faults' = faults + 1
  BY DEF CreateDirectorySnapshot, Fault, NoFault
<1>3. PICK edge \in BOOLEAN : /\ snapshot' = [snapshot EXCEPT ![new] = Row(edge)]
                              /\ edge => p # 0
                              /\ p # 0 /\ ~edge => faults' > 0
                              /\ faults' \in Nat /\ faults' >= faults
  <2>1. CASE snapshot' = [snapshot EXCEPT ![new] = Row(p # 0)] /\ faults' = faults
    <3> WITNESS (p # 0) \in BOOLEAN
    <3> QED
      BY <1>1, <2>1
  <2>2. CASE p # 0 /\ snapshot' = [snapshot EXCEPT ![new] = Row(FALSE)] /\ faults' = faults + 1
    <3> WITNESS FALSE \in BOOLEAN
    <3> QED
      BY <1>1, <2>2
  <2> QED
    BY <1>2, <2>1, <2>2
<1>4. p \in Snapshots \cup {0}
  BY LatestInSet DEF LatestSnapshot
<1>5. new \in Snapshots /\ new \in Nat
  BY <1>2, FreshSnapshotType DEF Snapshots
<1>6. snapshot'[new] = Row(edge) /\ \A m \in Snapshots \ {new} : snapshot'[m] = snapshot[m]
  BY <1>1, <1>3, <1>5
<1> HIDE DEF new, p
<1>7. /\ snapshot'[new].parent = p /\ snapshot'[new].edge = edge
      /\ snapshot'[new].late = late /\ snapshot'[new].marks = {}
  BY <1>6
<1> HIDE DEF Row, late
<1>8. EdgeInv'
  <2>1. ASSUME NEW m \in Snapshots \ {new}
        PROVE  /\ snapshot'[m].edge => snapshot'[m].parent \in Snapshots
               /\ snapshot'[m].parent # 0 /\ ~snapshot'[m].edge => faults' > 0
    BY <1>1, <1>3, <1>6 DEF EdgeInv
  <2>2. /\ snapshot'[new].edge => snapshot'[new].parent \in Snapshots
        /\ snapshot'[new].parent # 0 /\ ~snapshot'[new].edge => faults' > 0
    BY <1>3, <1>4, <1>7
  <2> QED
    BY <2>1, <2>2 DEF EdgeInv
<1>9. ASSUME NEW m \in Snapshots, snapshot'[m].parent # 0,
             "flag" \in snapshot'[snapshot'[m].parent].marks
      PROVE  \/ "flag" \in snapshot'[m].marks \/ snapshot'[m].late
             \/ (~snapshot'[m].edge /\ faults' > 0)
  <2>1. snapshot'[m].parent # new
    BY <1>7, <1>9
  <2>2. CASE m = new
    <3>1. p \in Snapshots \ {new}
      BY <1>4, <1>7, <1>9, <2>1, <2>2
    <3>2. "flag" \in snapshot[p].marks
      BY <1>6, <1>7, <1>9, <2>2, <3>1
    <3>3. late
      BY <1>7, <1>9, <2>2, <3>2 DEF late
    <3> QED
      BY <1>7, <2>2, <3>3
  <2>3. CASE m # new
    <3>1. snapshot'[m] = snapshot[m] /\ snapshot[m].parent \in Snapshots \ {new}
      BY <1>1, <1>6, <1>9, <2>1, <2>3 DEF SnapshotRow
    <3>2. "flag" \in snapshot[snapshot[m].parent].marks
      BY <1>6, <1>9, <3>1
    <3>3. \/ "flag" \in snapshot[m].marks \/ snapshot[m].late
          \/ (~snapshot[m].edge /\ faults > 0)
      BY <1>9, <3>1, <3>2 DEF TaintReachesChildren
    <3> QED
      BY <1>1, <1>3, <3>1, <3>3
  <2> QED
    BY <2>2, <2>3
<1> QED
  BY <1>8, <1>9 DEF TaintReachesChildren

(* What taints a parent taints whatever an edge ties to it.                *)
LEMMA TaintSpreads ==
  ASSUME Rows, EdgeInv, TaintReachesChildren, NEW n \in Snapshots, TaintSnapshotAndDescendants(n)
  PROVE  EdgeInv' /\ TaintReachesChildren'
<1>1. snapshot \in [Snapshots -> SnapshotRow] /\ faults \in Nat /\ faults' = faults
  BY BoundsAssumption DEF Rows, BoundsAssumption, TaintSnapshotAndDescendants
<1>2. ASSUME NEW m \in Snapshots
      PROVE  snapshot'[m] = IF n \in Lineage[m]
                            THEN [snapshot[m] EXCEPT !.marks = {"status", "flag"}]
                            ELSE snapshot[m]
  BY DEF TaintSnapshotAndDescendants
<1>3. ASSUME NEW m \in Snapshots
      PROVE  /\ snapshot'[m].parent = snapshot[m].parent /\ snapshot'[m].edge = snapshot[m].edge
             /\ snapshot'[m].late = snapshot[m].late
             /\ n \in Lineage[m] => "flag" \in snapshot'[m].marks
             /\ n \notin Lineage[m] => snapshot'[m].marks = snapshot[m].marks
             /\ "flag" \in snapshot[m].marks => "flag" \in snapshot'[m].marks
  BY ZenonT(60), <1>1, <1>2 DEF SnapshotRow
<1>4. EdgeInv'
  BY <1>1, <1>3 DEF EdgeInv
<1>5. ASSUME NEW m \in Snapshots, snapshot'[m].parent # 0,
             "flag" \in snapshot'[snapshot'[m].parent].marks
      PROVE  \/ "flag" \in snapshot'[m].marks \/ snapshot'[m].late
             \/ (~snapshot'[m].edge /\ faults' > 0)
  <2> DEFINE p == snapshot[m].parent
  <2>1. snapshot'[m].parent = p /\ p # 0 /\ p \in Snapshots
    BY <1>1, <1>3, <1>5 DEF SnapshotRow
  <2>2. CASE n \in Lineage[p]
    <3>1. CASE snapshot[m].edge
      BY <1>3, <2>2, <3>1, LineageIs
    <3>2. CASE ~snapshot[m].edge
      BY <1>1, <1>3, <2>1, <3>2 DEF EdgeInv
    <3> QED
      BY <3>1, <3>2
  <2>3. CASE n \notin Lineage[p]
    <3>1. "flag" \in snapshot[p].marks
      BY <1>3, <1>5, <2>1, <2>3
    <3> QED
      BY <1>1, <1>3, <2>1, <3>1 DEF TaintReachesChildren
  <2> QED
    BY <2>2, <2>3
<1> QED
  BY <1>4, <1>5 DEF TaintReachesChildren

(* A verdict marks the status of the snapshots of its session, which is    *)
(* not what makes a taint spread.                                          *)
LEMMA VerdictMarks ==
  ASSUME Rows, NEW s \in Sessions \cup {0}, NEW p \in Execs \cup {0},
         NEW decision \in {"quarantine", "kill"}, Verdict(s, p, decision), NEW m \in Snapshots
  PROVE  /\ snapshot'[m].parent = snapshot[m].parent /\ snapshot'[m].edge = snapshot[m].edge
         /\ snapshot'[m].late = snapshot[m].late
         /\ "flag" \in snapshot'[m].marks <=> "flag" \in snapshot[m].marks
<1>1. snapshot \in [Snapshots -> SnapshotRow]
  BY DEF Rows
<1>2. \/ snapshot' = snapshot
      \/ snapshot' = [n \in Snapshots |-> IF snapshot[n].s = s
                        THEN [snapshot[n] EXCEPT !.marks = @ \cup {"status"}] ELSE snapshot[n]]
  BY DEF Verdict
<1>3. \/ snapshot'[m] = snapshot[m]
      \/ snapshot'[m] = [snapshot[m] EXCEPT !.marks = snapshot[m].marks \cup {"status"}]
  BY <1>2
<1>4. "flag" \in snapshot[m].marks \cup {"status"} <=> "flag" \in snapshot[m].marks
  OBVIOUS
<1> QED
  BY <1>1, <1>3, <1>4 DEF SnapshotRow

LEMMA FaultsGrow ==
  ASSUME Rows, [Next]_vars
  PROVE  faults \in Nat /\ faults' \in Nat /\ faults <= faults'
<1>1. faults \in Nat
  BY BoundsAssumption DEF Rows, BoundsAssumption
<1>2. faults' = faults \/ faults' = faults + 1
  BY DEF Next, Handler, Exec, Request, CreateContainer, CreateFails, InsertSession,
       StopContainer, RemoveContainer, DockerRefuses, MarkStopped, MarkRemoved, ExecSelect,
       ExecInsert, ExecToolWeight, ExecReturns, ExecThinkWeight, ExecRecord, CreateSession,
       ResumeSnapshot, TaintSnapshotAndDescendants, StopSession, RemoveSession,
       CreateDirectorySnapshot, SetSessionCPUProfile, Verdict, ContainerDies, Crash, vars,
       Fault, NoFault
<1> QED
  BY <1>1, <1>2

LEMMA TaintStep ==
  TypeOK /\ EdgeInv /\ TaintReachesChildren /\ [Next]_vars => EdgeInv' /\ TaintReachesChildren'
<1> SUFFICES ASSUME Rows, EdgeInv, TaintReachesChildren, [Next]_vars
             PROVE  EdgeInv' /\ TaintReachesChildren'
  BY TypeIsRows
<1>1. \A m \in Snapshots : snapshot[m].parent \in Snapshots \cup {0}
  BY DEF Rows, SnapshotRow
<1>2. ASSUME NEW s \in Sessions \cup {0}, NEW p \in Execs \cup {0},
             NEW decision \in {"quarantine", "kill"}, Verdict(s, p, decision)
      PROVE  EdgeInv' /\ TaintReachesChildren'
  BY <1>1, <1>2, FaultsGrow, TaintCarries, VerdictMarks
<1>3. ASSUME UNCHANGED snapshot PROVE EdgeInv' /\ TaintReachesChildren'
  BY <1>1, <1>3, FaultsGrow, TaintCarries
<1> QED
  BY <1>2, <1>3, TaintCreate, TaintSpreads
     DEF Next, Handler, Exec, Request, CreateContainer, CreateFails, InsertSession,
       StopContainer, RemoveContainer, DockerRefuses, MarkStopped, MarkRemoved, ExecSelect,
       ExecInsert, ExecToolWeight, ExecReturns, ExecThinkWeight, ExecRecord, CreateSession,
       ResumeSnapshot, StopSession, RemoveSession, SetSessionCPUProfile, ContainerDies, Crash,
       vars

(* Telemetry's taint reaches every snapshot below the one it names, unless *)
(* it was taken of a tainted parent afterwards or its edge was refused     *)
(* (TaintSnapshotAndDescendants).                                          *)
THEOREM TaintReaches == Spec => []TaintReachesChildren
<1>1. Init => EdgeInv /\ TaintReachesChildren
  BY DEF Init, EdgeInv, TaintReachesChildren, NoSnapshot
<1> QED
  BY <1>1, TaintStep, TypeCorrect, PTL DEF Spec
=============================================================================
