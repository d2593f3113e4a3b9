------------------------------- MODULE Forks --------------------------------
(***************************************************************************)
(* Directory snapshots, stacks and forked attempts as substrate/state      *)
(* keeps them: directories under the data dir, and the rows that name      *)
(* them.  Every client is a command-line process of its own (or a request  *)
(* to the daemon), no lock is shared between them, and the workspace that  *)
(* is copied belongs to a container that goes on writing.                  *)
(***************************************************************************)
EXTENDS Naturals, FiniteSets

CONSTANTS
  Clients,       \* processes that snapshot, build stacks and fork
  Files,         \* names of files, 1 .. n in the order WalkDir visits them
  Ready,         \* the one of them that is STACK_READY
  Budget,        \* AGENTPROV_IO_MAX_FANOUT_PER_LOWER
  Policies,      \* the snapshot source policies in use
  MaxCount,      \* bound on the attempts one request asks for
  MaxSnapshots, MaxAttempts, MaxEdits, MaxFailures   \* bounds

(* WalkDir visits a tree in one order; what ids.New and the flags allow.   *)
ASSUME ForksAssumption ==
  /\ Cardinality(Files) \in Nat /\ Files = 1 .. Cardinality(Files)
  /\ Ready \in Files
  /\ {Budget, MaxCount, MaxSnapshots, MaxAttempts, MaxEdits, MaxFailures} \subseteq Nat

VARIABLES
  dir,       \* directories by name: which version of each file they hold
  row,       \* snapshots: rows by id
  attempt,   \* fork_attempts: the snapshot each row was forked from
  edge,      \* snapshot_edges of type fork: <<snapshot, attempt>>
  request,       \* program counter and locals of each client
  now,     \* time, as the created_at stamps see it
  failures,    \* operations that failed so far
  crowded    \* history: snapshots that two clients forked at the same time

vars == <<dir, row, attempt, edge, request, now, failures, crowded>>

-----------------------------------------------------------------------------
Snap(n) == <<"snapshot", n>>
Work(k) == <<"attempt", k>>
Live == <<"session", 0>>
Absent == 0
NoFiles == [f \in Files |-> Absent]
NoPlan == 0
ByName == 0                                 \* the name "ready", shared by all
NoDelta == [added |-> 0, modified |-> 0, deleted |-> 0]
Idle == [at |-> "idle", kind |-> "none", from |-> Live, into |-> Live, next |-> 1,
         asked |-> ByName, left |-> 0, plan |-> NoPlan, parent |-> NoPlan,
         delta |-> NoDelta, stamp |-> 0]

Snapshots == {n \in 1 .. MaxSnapshots : Snap(n) \in DOMAIN dir}
Attempts == {k \in 1 .. MaxAttempts : Work(k) \in DOMAIN dir}
FreshSnapshot == Cardinality(Snapshots) + 1
FreshAttempt == Cardinality(Attempts) + 1
RoomForSnapshots(n) == Cardinality(Snapshots) + n <= MaxSnapshots
RoomForAttempts(n) == Cardinality(Attempts) + n <= MaxAttempts

Put(f, x, y) == [z \in DOMAIN f \cup {x} |-> IF z = x THEN y ELSE f[z]]
Goto(c, r) == request' = [request EXCEPT ![c] = r]
Failure == failures < MaxFailures /\ failures' = failures + 1
NoFailure == UNCHANGED failures

\* sharedLowerFanout: the attempts forked from a snapshot so far.
Fanout(n) == Cardinality({k \in DOMAIN attempt : attempt[k] = n})

\* diffManifests: files only in the new tree, in both but different, only in the old.
Delta(old, new) ==
  [added    |-> Cardinality({f \in Files : old[f] = Absent /\ new[f] # Absent}),
   modified |-> Cardinality({f \in Files : Absent \notin {old[f], new[f]} /\ old[f] # new[f]}),
   deleted  |-> Cardinality({f \in Files : old[f] # Absent /\ new[f] = Absent})]
Size(d) == d.added + d.modified + d.deleted

(* PlanWithPolicy.  An argument names a snapshot, or all of a name, or the *)
(* children of a snapshot along with it.  The newest wins under latest-    *)
(* ready, the smallest delta (the newest of those) under smallest-delta.   *)
Candidates(asked) ==
  {n \in DOMAIN row : asked = n \/ row[n].parent = asked \/ (asked = ByName /\ row[n].named)}
Beats(policy, m, n) ==
  IF policy = "smallest-delta" /\ Size(row[m].delta) # Size(row[n].delta)
  THEN Size(row[m].delta) < Size(row[n].delta)
  ELSE row[m].stamp > row[n].stamp
Best(policy, S) == CHOOSE n \in S : \A m \in S \ {n} : Beats(policy, n, m)

Init ==
  /\ dir = [x \in {Live} |-> [f \in Files |-> IF f = Ready THEN Absent ELSE 1]]
  /\ row = <<>> /\ attempt = <<>> /\ edge = {}
  /\ request = [c \in Clients |-> Idle]
  /\ now = 1
  /\ failures = 0
  /\ crowded = {}

-----------------------------------------------------------------------------
(* The container writes its workspace whenever it likes.                   *)
Edit(f) ==
  /\ f # Ready /\ now <= MaxEdits
  /\ \E v \in {Absent, now + 1} :
       /\ dir[Live][f] # v
       /\ dir' = [dir EXCEPT ![Live][f] = v]
  /\ now' = now + 1
  /\ UNCHANGED <<row, attempt, edge, request, failures, crowded>>

(* CopyDir visits the files in order and copies each as it then is.        *)
CopyFile(c) ==
  LET j == request[c] IN
  /\ j.at = "copy" /\ j.next \in Files
  /\ dir' = [dir EXCEPT ![j.into][j.next] = dir[j.from][j.next]]
  /\ Goto(c, [j EXCEPT !.next = @ + 1])
  /\ UNCHANGED <<row, attempt, edge, now, failures, crowded>>

(* An error while copying or inserting ends the request; what is on disk   *)
(* stays there.                                                            *)
GivesUp(c) ==
  /\ request[c].at \in {"copy", "parent", "insert", "template"}
  /\ Failure
  /\ Goto(c, Idle)
  /\ UNCHANGED <<dir, row, attempt, edge, now, crowded>>

(* CreateDirectorySnapshot: copy, hash the copy, stamp, look for the       *)
(* latest snapshot of the session, diff against its directory, insert.     *)
SnapshotSession(c) ==
  LET n == FreshSnapshot IN
  /\ request[c] = Idle /\ RoomForSnapshots(1)
  /\ dir' = Put(dir, Snap(n), NoFiles)
  /\ Goto(c, [Idle EXCEPT !.at = "copy", !.kind = "session", !.from = Live, !.into = Snap(n)])
  /\ UNCHANGED <<row, attempt, edge, now, failures, crowded>>

Copied(c) == request[c].at = "copy" /\ request[c].next \notin Files

StampSnapshot(c) ==
  /\ Copied(c) /\ request[c].kind = "session"
  /\ Goto(c, [request[c] EXCEPT !.at = "parent", !.stamp = now])
  /\ now' = now + 1
  /\ UNCHANGED <<dir, row, attempt, edge, failures, crowded>>

VariantFindParent(c) ==
  LET S == {n \in DOMAIN row : row[n].session}
      p == IF S = {} THEN NoPlan ELSE Best("latest-ready", S)
  IN
  /\ request[c].at = "parent"
  /\ Goto(c, [request[c] EXCEPT !.at = "insert", !.parent = p,
                !.delta = IF p = NoPlan THEN NoDelta ELSE Delta(dir[Snap(p)], dir[Live])])
  /\ UNCHANGED <<dir, row, attempt, edge, now, failures, crowded>>

\* latestSnapshotForSession.
FindParent(c) ==
  LET S == {n \in DOMAIN row : row[n].session}
      p == IF S = {} THEN NoPlan ELSE Best("latest-ready", S)
  IN
  /\ request[c].at = "parent"
  /\ Goto(c, [request[c] EXCEPT !.at = "insert", !.parent = p,
                !.delta = IF p = NoPlan THEN NoDelta
                          ELSE Delta(dir[Snap(p)], dir[request[c].into])])
  /\ UNCHANGED <<dir, row, attempt, edge, now, failures, crowded>>

InsertSnapshot(c) ==
  LET j == request[c] IN
  /\ j.at = "insert"
  /\ row' = Put(row, j.into[2], [named |-> TRUE, session |-> TRUE, parent |-> j.parent,
                                 hash |-> dir[j.into], delta |-> j.delta, stamp |-> j.stamp])
  /\ Goto(c, Idle)
  /\ UNCHANGED <<dir, attempt, edge, now, failures, crowded>>

(* CreateStack (and CreateStackFromTemplate): a template directory and its *)
(* row, a copy of it with STACK_READY added and its row, and one fork.     *)
CreateTemplate(c) ==
  LET n == FreshSnapshot IN
  /\ request[c] = Idle /\ RoomForSnapshots(2) /\ RoomForAttempts(1)
  /\ dir' = Put(dir, Snap(n), [f \in Files |-> IF f = 1 THEN 1 ELSE Absent])
  /\ Goto(c, [Idle EXCEPT !.at = "template", !.kind = "stack", !.from = Snap(n)])
  /\ UNCHANGED <<row, attempt, edge, now, failures, crowded>>

InsertTemplate(c) ==
  LET j == request[c]
      n == FreshSnapshot
  IN
  /\ j.at = "template" /\ RoomForSnapshots(1)
  /\ row' = Put(row, j.from[2], [named |-> FALSE, session |-> FALSE, parent |-> NoPlan,
                                 hash |-> dir[j.from], delta |-> NoDelta, stamp |-> now])
  /\ dir' = Put(dir, Snap(n), NoFiles)
  /\ Goto(c, [j EXCEPT !.at = "copy", !.into = Snap(n)])
  /\ now' = now + 1
  /\ UNCHANGED <<attempt, edge, failures, crowded>>

InsertStack(c) ==
  LET j == request[c]
      d == [dir[j.into] EXCEPT ![Ready] = 1]
  IN
  /\ Copied(c) /\ j.kind = "stack"
  /\ dir' = [dir EXCEPT ![j.into] = d]
  /\ row' = Put(row, j.into[2], [named |-> TRUE, session |-> FALSE, parent |-> j.from[2],
                                 hash |-> d, delta |-> NoDelta, stamp |-> now])
  /\ Goto(c, [Idle EXCEPT !.at = "plan", !.kind = "fork", !.asked = j.into[2], !.left = 1])
  /\ now' = now + 1
  /\ UNCHANGED <<attempt, edge, failures, crowded>>

(* Fork: plan, check the budget with what the plan counted, then copy and  *)
(* insert one attempt after the other.                                     *)
ForkRequest(c, asked, count) ==
  /\ request[c] = Idle /\ RoomForAttempts(count)
  /\ Goto(c, [Idle EXCEPT !.at = "plan", !.kind = "fork", !.asked = asked, !.left = count])
  /\ UNCHANGED <<dir, row, attempt, edge, now, failures, crowded>>

Forking(n) == {c \in Clients : request[c].plan = n}

VariantPlan(c, policy) ==
  LET j == request[c]
      n == Best(policy, Candidates(j.asked))
  IN
  /\ j.at = "plan" /\ Candidates(j.asked) # {}
  /\ IF Fanout(n) > Budget
     THEN Goto(c, Idle) /\ UNCHANGED crowded
     ELSE /\ Goto(c, [j EXCEPT !.at = "attempt", !.plan = n])
          /\ crowded' = IF Forking(n) = {} THEN crowded ELSE crowded \cup {n}
  /\ UNCHANGED <<dir, row, attempt, edge, now, failures>>

Plan(c, policy) ==
  LET j == request[c]
      n == Best(policy, Candidates(j.asked))
  IN
  /\ j.at = "plan" /\ Candidates(j.asked) # {}
  /\ IF Fanout(n) + j.left > Budget
     THEN Goto(c, Idle) /\ UNCHANGED crowded
     ELSE /\ Goto(c, [j EXCEPT !.at = "attempt", !.plan = n])
          /\ crowded' = IF Forking(n) = {} THEN crowded ELSE crowded \cup {n}
  /\ UNCHANGED <<dir, row, attempt, edge, now, failures>>

NothingToPlan(c) ==
  /\ request[c].at = "plan" /\ Candidates(request[c].asked) = {}
  /\ Goto(c, Idle)
  /\ UNCHANGED <<dir, row, attempt, edge, now, failures, crowded>>

VariantStartAttempt(c) ==
  LET k == FreshAttempt IN
  /\ request[c].at = "attempt" /\ RoomForAttempts(1)
  /\ dir' = Put(dir, Work(k), NoFiles)
  /\ attempt' = Put(attempt, k, request[c].plan)
  /\ Goto(c, [request[c] EXCEPT !.at = "copy", !.from = Snap(request[c].plan), !.into = Work(k), !.next = 1])
  /\ UNCHANGED <<row, edge, now, failures, crowded>>

StartAttempt(c) ==
  LET k == FreshAttempt IN
  /\ request[c].at = "attempt" /\ RoomForAttempts(1)
  /\ dir' = Put(dir, Work(k), NoFiles)
  /\ Goto(c, [request[c] EXCEPT !.at = "copy", !.from = Snap(request[c].plan), !.into = Work(k), !.next = 1])
  /\ UNCHANGED <<row, attempt, edge, now, failures, crowded>>

InsertAttempt(c) ==
  LET j == request[c]
      k == j.into[2]
  IN
  /\ Copied(c) /\ j.kind = "fork"
  /\ attempt' = Put(attempt, k, j.plan)
  /\ \/ NoFailure /\ edge' = edge \cup {<<j.plan, k>>}
     \/ Failure /\ UNCHANGED edge           \* the error of this statement is dropped
  /\ Goto(c, IF j.left = 1 THEN Idle ELSE [j EXCEPT !.at = "attempt", !.left = @ - 1])
  /\ UNCHANGED <<dir, row, now, crowded>>

-----------------------------------------------------------------------------
Snapshotting(c) == SnapshotSession(c) \/ StampSnapshot(c) \/ FindParent(c) \/ InsertSnapshot(c)
Stacking(c) == CreateTemplate(c) \/ InsertTemplate(c) \/ InsertStack(c)
ForkingSteps(c) ==
  \/ \E asked \in {ByName} \cup DOMAIN row, count \in 1 .. MaxCount : ForkRequest(c, asked, count)
  \/ \E policy \in Policies : Plan(c, policy)
  \/ NothingToPlan(c) \/ StartAttempt(c) \/ InsertAttempt(c)

Next ==
  \/ \E f \in Files : Edit(f)
  \/ \E c \in Clients : \/ CopyFile(c) \/ GivesUp(c)
                        \/ Snapshotting(c) \/ Stacking(c) \/ ForkingSteps(c)

Spec == Init /\ [][Next]_vars

-----------------------------------------------------------------------------
(* The budget of Fork: a snapshot has more attempts than the budget allows *)
(* only if two clients forked it at the same time, each counting before    *)
(* the other had inserted; one after the other never get past it, however  *)
(* they fail on the way.                                                   *)
BudgetHolds == \A n \in DOMAIN row : Fanout(n) <= Budget \/ n \in crowded

(* A row in fork_attempts names a workspace that holds all the snapshot    *)
(* held (Fork inserts it after the copy), the snapshot's directory is what *)
(* its row was hashed from, and an edge of type fork has both its ends.    *)
AttemptsWhole ==
  /\ \A k \in DOMAIN attempt : /\ attempt[k] \in DOMAIN row
                               /\ dir[Work(k)] = row[attempt[k]].hash
  /\ \A e \in edge : e[2] \in DOMAIN attempt /\ attempt[e[2]] = e[1]

(* The delta a snapshot's row reports is the difference between the        *)
(* parent's hash and its own, whatever the container and other clients     *)
(* did while it was taken: both trees are directories nobody writes again. *)
DeltaExact ==
  \A n \in DOMAIN row : row[n].session /\ row[n].parent # NoPlan =>
    row[n].delta = Delta(row[row[n].parent].hash, row[n].hash)
=============================================================================
