---------------------------- MODULE Attribution ----------------------------
(***************************************************************************)
(* How telemetry finds the tool call that caused it.  A recorder           *)
(* (record/service.go) starts a command, writes a row that binds its pid   *)
(* and, where it can make one, its cgroup to the tool call, samples the    *)
(* process table while the command runs and ends the row afterwards.  The  *)
(* kernel reports what processes do, the sensor reads these reports in     *)
(* order and stamps them, `sensor stream` ingests them one by one, each    *)
(* resolved against the rows (correlation/binding.go), and ends the row of *)
(* a pid whose exit it sees.  Pids are reused, and every one of these      *)
(* actors goes at its own pace.  Events name no run, process or known      *)
(* container, so the tiers that remain are cgroup and pid.                 *)
(***************************************************************************)
EXTENDS Integers, Sequences, FiniteSets

CONSTANTS
  Procs,              \* the processes the node runs, one after another
  Pids,
  Scopes,             \* tool calls, each the scope of one `record run`
  Delegated,          \* those of them that get a cgroup of their own
  NoScope, NoProc, NoPid,
  MaxOpenBindingAge,  \* for which a row without an end matches by pid, in
                      \* readings of the time
  RingSize, PipeSize, \* room for reports in the kernel, and in the stream
  MaxExtras           \* bound on traced calls other than exits, samples before
                      \* the last, failing calls and kills, taken together

ASSUME AttributionAssumption ==
  /\ Delegated \subseteq Scopes /\ NoScope \notin Scopes
  /\ NoProc \notin Procs
  /\ NoPid \notin Pids
  /\ \A n \in {MaxOpenBindingAge, RingSize, PipeSize, MaxExtras} : n \in Nat

VARIABLES
  clock,     \* no two readings of the time are equal
  proc,      \* processes: life, pid, parent and the scope they descend from
  ring,      \* reports in the kernel's ring buffer
  stream,    \* reports the sensor has read, with the time of that
  line,      \* the report being ingested, with what it resolved to, if any
  recorder,  \* each recorder: where it is, its root process, its times
  window,    \* the row of each root: there or not, its ended_at or 0
  kin,       \* the rows of observed descendants
  seen,      \* the sampler's map of descendants
  spent,     \* of MaxExtras
  (* History: the stamp at which the root's own exit ended its row, the    *)
  (* scopes whose row another's exit ended, those whose exit came before   *)
  (* the row, or was lost.  A report's held: its process still had its     *)
  (* pid when the report was read.                                         *)
  exitAt, stale, missed

node == <<proc, ring>>
sensor == <<stream, line>>
rows == <<window, kin>>
history == <<exitAt, stale, missed>>
vars == <<clock, node, sensor, recorder, rows, seen, spent, history>>

Nothing == [life |-> "unborn", pid |-> NoPid, parent |-> NoProc, home |-> NoScope]
NoRow == [scope |-> NoScope, kind |-> "none", pid |-> NoPid, root |-> NoPid,
          from |-> 0, to |-> 0]
NoLine == [proc |-> NoProc, kind |-> "none", at |-> 0, held |-> FALSE,
           scope |-> NoScope, via |-> "none",
           own |-> [bound |-> FALSE, to |-> 0], fooled |-> FALSE]

Init ==
  /\ clock = 0
  /\ proc = [p \in Procs |-> Nothing]
  /\ ring = <<>> /\ stream = <<>> /\ line = NoLine
  /\ recorder = [s \in Scopes |->
                   [at |-> "new", root |-> NoProc, from |-> 0, ended |-> 0]]
  /\ window = [s \in Scopes |-> [bound |-> FALSE, to |-> 0]]
  /\ kin = {}
  /\ seen = [s \in Scopes |-> {}]
  /\ spent = 0
  /\ exitAt = [s \in Scopes |-> 0]
  /\ stale = {} /\ missed = {}

Extra == spent < MaxExtras /\ spent' = spent + 1

-----------------------------------------------------------------------------
(* The node.  A zombie keeps its pid until its recorder waits for it.      *)
Held(k) == \E p \in Procs : proc[p].pid = k /\ proc[p].life \in {"alive", "zombie"}
Unborn == {p \in Procs : proc[p].life = "unborn"}
NextBorn == CHOOSE p \in Unborn : TRUE

Born(p, k, parent, home) ==
  [life |-> "alive", pid |-> k, parent |-> parent, home |-> home]

(* A process outside every recording starts. *)
Outsider(k) ==
  /\ Unborn # {} /\ ~Held(k)
  /\ proc' = [proc EXCEPT ![NextBorn] = Born(NextBorn, k, NoProc, NoScope)]
  /\ UNCHANGED <<clock, ring, sensor, recorder, rows, seen, spent, history>>

Fork(p, k) ==
  /\ proc[p].life = "alive" /\ Unborn # {} /\ ~Held(k)
  /\ proc' = [proc EXCEPT ![NextBorn] = Born(NextBorn, k, p, proc[p].home)]
  /\ UNCHANGED <<clock, ring, sensor, recorder, rows, seen, spent, history>>

(* A report; without room in the ring buffer it is counted and lost.       *)
Room == Len(ring) < RingSize
Report(p, kind) == IF Room THEN Append(ring, [proc |-> p, kind |-> kind]) ELSE ring
RootOf(p) == {s \in Scopes : recorder[s].root = p}

Act(p) ==
  /\ proc[p].life = "alive"
  /\ Extra
  /\ ring' = Report(p, "act")
  /\ UNCHANGED <<clock, proc, sensor, recorder, rows, seen, history>>

Watched(p) ==
  \E s \in Scopes : recorder[s].root = p /\ recorder[s].at # "killed"

(* The leader of a thread group exits; its children go to init, and a      *)
(* process nobody waits for is reaped at once.                             *)
Dies(p) ==
  proc' = [q \in Procs |->
             CASE q = p -> [proc[p] EXCEPT !.life = IF Watched(p) THEN "zombie" ELSE "gone",
                                          !.parent = NoProc]
               [] q # p /\ proc[q].parent = p -> [proc[q] EXCEPT !.parent = NoProc]
               [] OTHER -> proc[q]]

Exit(p) ==
  /\ proc[p].life = "alive"
  /\ Dies(p)
  /\ ring' = Report(p, "exit")
  /\ missed' = IF Room THEN missed ELSE missed \cup RootOf(p)
  /\ UNCHANGED <<clock, sensor, recorder, rows, seen, spent, exitAt, stale>>

-----------------------------------------------------------------------------
(* The rows, and what an event of p stamped at resolves to: by cgroup      *)
(* first, then by pid, the row with the latest start.                      *)
Pid(p) == IF p = NoProc THEN NoPid ELSE proc[p].pid
RootRow(s) ==
  [scope |-> s, kind |-> "root", pid |-> Pid(recorder[s].root),
   root |-> Pid(recorder[s].root), from |-> recorder[s].from, to |-> window[s].to]
Rows == {RootRow(s) : s \in {t \in Scopes : window[t].bound}} \cup kin

Covers(row, at) == row.from <= at /\ (row.to = 0 \/ row.to >= at)
ByCgroup(p, at) ==
  {row \in Rows : row.scope \in Delegated /\ row.scope = proc[p].home /\ Covers(row, at)}
ByPid(p, at) ==
  {row \in Rows : /\ proc[p].pid \in {row.pid, row.root}
                  /\ Covers(row, at)
                  /\ row.to # 0 \/ row.from >= at - MaxOpenBindingAge}
VariantLatest(found) ==
  CHOOSE row \in found : \A other \in found : row.from <= other.from
Latest(found) == CHOOSE row \in found : \A other \in found : row.from >= other.from
VariantResolve(p, at) ==
  IF ByPid(p, at) # {} THEN Latest(ByPid(p, at))
  ELSE IF ByCgroup(p, at) # {} THEN Latest(ByCgroup(p, at)) ELSE NoRow
Resolve(p, at) ==
  CASE ByCgroup(p, at) # {} -> Latest(ByCgroup(p, at))
    [] ByCgroup(p, at) = {} /\ ByPid(p, at) # {} -> Latest(ByPid(p, at))
    [] OTHER -> NoRow

-----------------------------------------------------------------------------
(* The sensor and the stream that ingests what it prints, line by line.    *)
Unread == Len(stream) + (IF line = NoLine THEN 0 ELSE 1)
Read ==
  /\ ring # <<>> /\ Unread < PipeSize
  /\ clock' = clock + 1
  /\ ring' = Tail(ring)
  /\ stream' = Append(stream, [proc |-> Head(ring).proc, kind |-> Head(ring).kind,
                               at |-> clock',
                               held |-> proc[Head(ring).proc].life # "gone"])
  /\ UNCHANGED <<proc, line, recorder, rows, seen, spent, history>>

(* What a report resolves to, when it is stored; to judge that, the row of *)
(* the scope it comes from and whether another's exit ended that one.      *)
Resolved(report, row) ==
  LET home == proc[report.proc].home IN
  [proc |-> report.proc, kind |-> report.kind, at |-> report.at, held |-> report.held,
   scope |-> row.scope, via |-> row.kind,
   own |-> IF home = NoScope THEN NoLine.own ELSE window[home],
   fooled |-> home \in stale]

Ingest ==
  /\ stream # <<>> /\ line = NoLine
  /\ line' = Resolved(Head(stream), Resolve(Head(stream).proc, Head(stream).at))
  /\ stream' = Tail(stream)
  /\ UNCHANGED <<clock, node, recorder, rows, seen, spent, history>>

IngestFails ==
  /\ stream # <<>> /\ line = NoLine
  /\ Extra
  /\ stream' = Tail(stream)
  /\ missed' = IF Head(stream).kind = "exit" THEN missed \cup RootOf(Head(stream).proc)
                                             ELSE missed
  /\ UNCHANGED <<clock, node, line, recorder, rows, seen, exitAt, stale>>

(* The next line; an event that resolved to nothing is deleted again.      *)
NextLine ==
  /\ line.kind = "act"
  /\ line' = NoLine
  /\ UNCHANGED <<clock, node, stream, recorder, rows, seen, spent, history>>

(* Rows of descendants always have an end, so only those of roots are open. *)
Open(s) == window[s].bound /\ window[s].to = 0
End(closing, at) ==
  window' = [s \in Scopes |-> IF s \in closing THEN [window[s] EXCEPT !.to = at]
                                               ELSE window[s]]

(* As if only exits that resolve ended anything. *)
VariantCloseBindingByPID ==
  /\ line.kind = "exit"
  /\ LET own == RootOf(line.proc)
         hit == {s \in Scopes : /\ line.scope # NoScope /\ Open(s)
                                /\ Pid(recorder[s].root) = Pid(line.proc)}
     IN /\ End(hit, line.at)
        /\ exitAt' = [s \in Scopes |-> IF s \in hit \cap own THEN line.at ELSE exitAt[s]]
        /\ stale' = stale \cup (hit \ own)
        /\ missed' = missed \cup {s \in own : ~window[s].bound}
  /\ line' = NoLine
  /\ UNCHANGED <<clock, node, stream, recorder, kin, seen, spent>>
CloseBindingByPID ==
  /\ line.kind = "exit"
  /\ LET own == RootOf(line.proc)
         hit == {s \in Scopes : Open(s) /\ Pid(recorder[s].root) = Pid(line.proc)}
     IN /\ End(hit, line.at)
        /\ exitAt' = [s \in Scopes |-> IF s \in hit \cap own THEN line.at ELSE exitAt[s]]
        /\ stale' = stale \cup (hit \ own)
        /\ missed' = missed \cup {s \in own : ~window[s].bound}
  /\ line' = NoLine
  /\ UNCHANGED <<clock, node, stream, recorder, kin, seen, spent>>

(* The error of the UPDATE is ignored. *)
CloseBindingByPIDFails ==
  /\ line.kind = "exit"
  /\ Extra
  /\ missed' = missed \cup RootOf(line.proc)
  /\ line' = NoLine
  /\ UNCHANGED <<clock, node, stream, recorder, rows, seen, exitAt, stale>>

-----------------------------------------------------------------------------
(* The recorder of s.  Between its reading of the start time and the fork  *)
(* it does nothing.                                                        *)
Step(s, place) == recorder' = [recorder EXCEPT ![s].at = place]

Start(s, k) ==
  /\ recorder[s].at = "new"
  /\ Unborn # {} /\ ~Held(k)
  /\ clock' = clock + 1
  /\ proc' = [proc EXCEPT ![NextBorn] = Born(NextBorn, k, NoProc, s)]
  /\ recorder' = [recorder EXCEPT ![s].at = "forked", ![s].root = NextBorn,
                                  ![s].from = clock']
  /\ UNCHANGED <<ring, sensor, rows, seen, spent, history>>

(* cmd.Start fails: a row without pids, already ended. *)
StartFails(s) ==
  /\ recorder[s].at = "new"
  /\ Extra
  /\ clock' = clock + 2
  /\ recorder' = [recorder EXCEPT ![s].at = "done", ![s].from = clock + 1,
                                  ![s].ended = clock']
  /\ window' = [window EXCEPT ![s] = [bound |-> TRUE, to |-> clock']]
  /\ UNCHANGED <<node, sensor, kin, seen, history>>

RecordBinding(s) ==
  /\ recorder[s].at = "forked"
  /\ Step(s, "watching")
  /\ window' = [window EXCEPT ![s].bound = TRUE]
  /\ UNCHANGED <<clock, node, sensor, kin, seen, spent, history>>

(* The error of the INSERT is ignored. *)
RecordBindingFails(s) ==
  /\ recorder[s].at = "forked"
  /\ Extra
  /\ Step(s, "watching")
  /\ UNCHANGED <<clock, node, sensor, rows, seen, history>>

(* descendantsOf: by pid, whatever process holds the root's pid by now.    *)
Running == {p \in Procs : proc[p].life \in {"alive", "zombie"}}
Family(k) ==
  LET closed == {F \in SUBSET Running :
                   {p \in Running : proc[p].pid = k \/ proc[p].parent \in F} \subseteq F}
  IN {p \in Running : \A F \in closed : p \in F}
Observed(s, now) ==
  LET pids == {proc[p].pid : p \in Family(Pid(recorder[s].root))} \ {Pid(recorder[s].root)}
      known == {o.pid : o \in seen[s]}
  IN {IF o.pid \in pids THEN [o EXCEPT !.to = now] ELSE o : o \in seen[s]}
       \cup {[pid |-> k, from |-> now, to |-> now] : k \in pids \ known}

Sample(s) ==
  /\ recorder[s].at \in {"watching", "grace"}
  /\ Extra
  /\ clock' = clock + 1
  /\ seen' = [seen EXCEPT ![s] = Observed(s, clock')]
  /\ UNCHANGED <<node, sensor, recorder, rows, history>>

(* cmd.Wait returns: the pid is free, and the grace period begins.         *)
Wait(s) ==
  /\ recorder[s].at = "watching" /\ proc[recorder[s].root].life = "zombie"
  /\ proc' = [proc EXCEPT ![recorder[s].root].life = "gone"]
  /\ Step(s, "grace")
  /\ UNCHANGED <<clock, ring, sensor, rows, seen, spent, history>>

(* A last sample, and a row for every descendant seen; a failing INSERT of *)
(* one leaves the others.                                                  *)
KinRow(s, o) ==
  [scope |-> s, kind |-> "kin", pid |-> o.pid, root |-> Pid(recorder[s].root),
   from |-> o.from, to |-> o.to]
Finish(s, stored) ==
  /\ recorder[s].at = "grace"
  /\ clock' = clock + 2
  /\ stored \subseteq {KinRow(s, o) : o \in Observed(s, clock + 1)}
  /\ \/ stored = {KinRow(s, o) : o \in Observed(s, clock + 1)} /\ spent' = spent
     \/ stored # {KinRow(s, o) : o \in Observed(s, clock + 1)} /\ Extra
  /\ kin' = kin \cup stored
  /\ seen' = [seen EXCEPT ![s] = {}]
  /\ recorder' = [recorder EXCEPT ![s].at = "closing", ![s].ended = clock']
  /\ UNCHANGED <<node, sensor, window, history>>

VariantCloseBinding(s) ==
  /\ recorder[s].at = "closing"
  /\ End({s} \cap {t \in Scopes : window[t].bound}, recorder[s].ended)
  /\ Step(s, "done")
  /\ UNCHANGED <<clock, node, sensor, kin, seen, spent, history>>
CloseBinding(s) ==
  /\ recorder[s].at = "closing"
  /\ End({s} \cap {t \in Scopes : Open(t)}, recorder[s].ended)
  /\ Step(s, "done")
  /\ UNCHANGED <<clock, node, sensor, kin, seen, spent, history>>

CloseBindingFails(s) ==
  /\ recorder[s].at = "closing"
  /\ Extra
  /\ Step(s, "done")
  /\ UNCHANGED <<clock, node, sensor, rows, seen, history>>

(* The recorder is killed; init waits for its root. *)
Kill(s) ==
  /\ recorder[s].at \in {"forked", "watching", "grace", "closing"}
  /\ Extra
  /\ Step(s, "killed")
  /\ seen' = [seen EXCEPT ![s] = {}]
  /\ proc' = [p \in Procs |->
                IF p = recorder[s].root /\ proc[p].life = "zombie"
                THEN [proc[p] EXCEPT !.life = "gone"] ELSE proc[p]]
  /\ UNCHANGED <<clock, ring, sensor, rows, history>>

-----------------------------------------------------------------------------
Node ==
  \/ \E k \in Pids : Outsider(k)
  \/ \E p \in Procs, k \in Pids : Fork(p, k)
  \/ \E p \in Procs : Act(p) \/ Exit(p)
Sensor == Read \/ Ingest \/ IngestFails \/ NextLine \/ CloseBindingByPID \/ CloseBindingByPIDFails
Recorder(s) ==
  \/ \E k \in Pids : Start(s, k)
  \/ StartFails(s) \/ RecordBinding(s) \/ RecordBindingFails(s)
  \/ Sample(s) \/ Wait(s)
  \/ \E stored \in SUBSET {KinRow(s, o) : o \in Observed(s, clock + 1)} : Finish(s, stored)
  \/ CloseBinding(s) \/ CloseBindingFails(s) \/ Kill(s)
Next == Node \/ Sensor \/ \E s \in Scopes : Recorder(s)

Spec == Init /\ [][Next]_vars

-----------------------------------------------------------------------------
(* The type of the state. *)
Times == 0..clock
TypeOK ==
  /\ clock \in Nat
  /\ \A p \in Procs :
       /\ proc[p].life \in {"unborn", "alive", "zombie", "gone"}
       /\ proc[p].pid \in Pids \cup {NoPid} /\ proc[p].parent \in Procs \cup {NoProc}
       /\ proc[p].home \in Scopes \cup {NoScope}
       /\ proc[p].life = "zombie" => \E s \in Scopes : recorder[s].root = p
  /\ \A p, q \in Running : proc[p].pid = proc[q].pid => p = q
  /\ \A i \in DOMAIN stream : stream[i].at \in Times
  /\ \A s \in Scopes :
       /\ recorder[s].at \in {"new", "forked", "watching", "grace",
                              "closing", "done", "killed"}
       /\ recorder[s].root \in Procs \cup {NoProc}
       /\ window[s] \in [bound : BOOLEAN, to : Times]
  /\ \A row \in kin : row.from \in Times \ {0} /\ row.to \in row.from..clock
  /\ stale \cup missed \subseteq Scopes

(* Once the exit of a scope's own root has ended its row, no event with a  *)
(* later stamp joins the scope through that row, whoever has the pid then  *)
(* and however late the recorder ends the scope itself.                    *)
ExitBounds ==
  line.via = "root" /\ exitAt[line.scope] # 0 => line.at <= exitAt[line.scope]

(* An event of a running root whose row is there goes to its own scope,    *)
(* also when earlier recorders had a root with the same pid, whose rows     *)
(* nobody may have ended yet, or have seen descendants with it: unless     *)
(* another's exit ended the row, the row is too old, or another recorder,  *)
(* in the grace period of a root that had this pid, took the descendants   *)
(* of the new one for its own.                                             *)
OwnWhileAlive ==
  \A s \in RootOf(line.proc) :
    /\ line.held /\ line.own.bound /\ ~line.fooled
    /\ line.own.to # 0 \/ line.at - recorder[s].from <= MaxOpenBindingAge
    /\ \A row \in kin :
         row.scope # s /\ row.root = Pid(line.proc) => row.to < recorder[s].from
    => line.scope = s

(* A scope with a cgroup of its own gets every event of its processes,     *)
(* of descendants no sample has seen too, that was stamped while its row   *)
(* stood, whatever pids have been reused and however old the row is.       *)
Home == IF line = NoLine THEN NoScope ELSE proc[line.proc].home
CgroupJoins ==
  /\ Home \in Delegated /\ line.own.bound
  /\ recorder[Home].from <= line.at /\ (line.own.to = 0 \/ line.at <= line.own.to)
  => line.scope = Home

(* A row is not left open behind a root that is gone: when its recorder is *)
(* through or dead, and no report is on its way, the row has an end, unless *)
(* the recorder did not get to write one and the root's exit was lost or   *)
(* came before the row.                                                    *)
Dead(s) == recorder[s].root # NoProc /\ proc[recorder[s].root].life # "alive"
DeadScopeEnded ==
  \A s \in Scopes :
    /\ Open(s) /\ Dead(s)
    /\ recorder[s].at \in {"done", "killed"}
    /\ ring = <<>> /\ stream = <<>> /\ line = NoLine
    => s \in missed

(* CHANGELOG.md: independent telemetry auto-joins the entire subtree of a  *)
(* recorded command by its cgroup: what its processes do until the         *)
(* recorder ends the scope goes to it.                                     *)
SubtreeJoins ==
  /\ Home \in Delegated /\ line.own.bound /\ ~line.fooled
  /\ recorder[Home].ended = 0 \/ line.at <= recorder[Home].ended
  => line.scope = Home
============================================================================
