------------------------- MODULE AttributionProofs -------------------------
(***************************************************************************)
(* Theorems about Attribution.tla for any processes, pids and scopes, any  *)
(* sizes of the buffers and any number of failures.                        *)
(***************************************************************************)
EXTENDS Attribution, WellFoundedInduction, TLAPS

Process == [life : {"unborn", "alive", "zombie", "gone"}, pid : Pids \cup {NoPid},
            parent : Procs \cup {NoProc}, home : Scopes \cup {NoScope}]
RecorderRow == [at : {"new", "forked", "watching", "grace", "closing", "done", "killed"},
                root : Procs \cup {NoProc}, from : Nat, ended : Nat]
WindowRow == [bound : BOOLEAN, to : Nat]
Reported == [proc : Procs, kind : {"act", "exit"}]
Stamped == [proc : Procs, kind : {"act", "exit"}, at : Nat, held : BOOLEAN]
LineRow == [proc : Procs \cup {NoProc}, kind : {"none", "act", "exit"}, at : Nat,
            held : BOOLEAN, scope : Scopes \cup {NoScope}, via : {"none", "root", "kin"},
            own : WindowRow, fooled : BOOLEAN]

(* Pids name one running process; who waits for a zombie is its recorder.  *)
NodeInv ==
  /\ proc \in [Procs -> Process]
  /\ \A p, q \in Running : proc[p].pid = proc[q].pid => p = q
  /\ \A p \in Procs : proc[p].life = "zombie" => \E s \in Scopes : recorder[s].root = p

(* A recorder that has not started has no root and no row; ends lie in the *)
(* past.                                                                   *)
RecorderInv ==
  /\ recorder \in [Scopes -> RecorderRow] /\ window \in [Scopes -> WindowRow]
  /\ \A s \in Scopes :
       /\ recorder[s].root # NoProc \/ window[s].bound => recorder[s].at # "new"
       /\ recorder[s].ended <= clock /\ window[s].to <= clock

(* Only processes that were born are reported.                             *)
SensorInv ==
  /\ ring \in Seq(Reported) /\ stream \in Seq(Stamped) /\ line \in LineRow
  /\ \A i \in DOMAIN ring : proc[ring[i].proc].life # "unborn"
  /\ \A i \in DOMAIN stream :
       stream[i].at <= clock /\ proc[stream[i].proc].life # "unborn"
  /\ line # NoLine => line.proc \in Procs /\ line.at <= clock /\ proc[line.proc].life # "unborn"

(* Whatever was sampled has an interval in the past.                       *)
Interval(o, now) ==
  o.from \in Nat \ {0} /\ o.to \in Nat /\ o.from <= o.to /\ o.to <= now
Sighting(o, now) == o = [pid |-> o.pid, from |-> o.from, to |-> o.to] /\ Interval(o, now)
KinOf(row, now) == row.scope \in Scopes /\ row.kind = "kin" /\ Interval(row, now)
SampleInv ==
  /\ seen = [s \in Scopes |-> seen[s]]
  /\ \A s \in Scopes : \A o \in seen[s] : Sighting(o, clock)
  /\ \A row \in kin : KinOf(row, clock)

(* The end that the root's exit gave its row is the one it keeps.          *)
HistoryInv ==
  /\ exitAt \in [Scopes -> Nat] /\ stale \subseteq Scopes /\ missed \subseteq Scopes
  /\ \A s \in Scopes : exitAt[s] # 0 => window[s].bound /\ window[s].to = exitAt[s]

StateInv == clock \in Nat /\ NodeInv /\ RecorderInv /\ SensorInv /\ SampleInv /\ HistoryInv

(* The event in hand belongs to a recording that has started if its row    *)
(* was there.                                                              *)
LineInv ==
  /\ Home # NoScope /\ line.own.bound => recorder[Home].at # "new"
  /\ ExitBounds /\ CgroupJoins

-----------------------------------------------------------------------------
(* Time only moves on. *)
LEMMA ClockGrows ==
  ASSUME clock \in Nat, [Next]_vars
  PROVE  clock' \in Nat /\ clock <= clock'
<1>1. CASE UNCHANGED vars BY <1>1 DEF vars
<1>2. CASE Node BY <1>2 DEF Node, Outsider, Fork, Act, Exit
<1>3. CASE Sensor
  BY <1>3 DEF Sensor, Read, Ingest, IngestFails, NextLine, CloseBindingByPID,
              CloseBindingByPIDFails
<1>4. ASSUME NEW s \in Scopes, Recorder(s) PROVE clock' \in Nat /\ clock <= clock'
  BY <1>4 DEF Recorder, Start, StartFails, RecordBinding, RecordBindingFails, Sample, Wait,
              Finish, CloseBinding, CloseBindingFails, Kill
<1> QED BY <1>1, <1>2, <1>3, <1>4 DEF Next

(* A process that starts was not born before. *)
LEMMA Fresh ==
  ASSUME Unborn # {}
  PROVE  NextBorn \in Procs /\ proc[NextBorn].life = "unborn"
BY DEF Unborn, NextBorn

(* The node's processes. *)
LEMMA BirthKeepsNode ==
  ASSUME NodeInv, AttributionAssumption, NEW k \in Pids, Unborn # {}, ~Held(k),
         NEW parent \in Procs \cup {NoProc}, NEW home \in Scopes \cup {NoScope},
         proc' = [proc EXCEPT ![NextBorn] = Born(NextBorn, k, parent, home)]
  PROVE  /\ proc' \in [Procs -> Process]
         /\ \A p, q \in Running' : proc'[p].pid = proc'[q].pid => p = q
         /\ \A p \in Procs : proc'[p].life = "zombie" => proc[p].life = "zombie"
<1> DEFINE b == NextBorn
<1>1. b \in Procs /\ proc[b].life = "unborn" BY Fresh
<1>2. Born(b, k, parent, home) \in Process BY DEF Born, Process
<1>3. proc' \in [Procs -> Process] BY <1>1, <1>2 DEF NodeInv
<1>4. \A p \in Procs : p # b => proc'[p] = proc[p] BY DEF NodeInv
<1>5. proc'[b].life = "alive" /\ proc'[b].pid = k BY <1>1 DEF NodeInv, Born
<1>6. \A p \in Running : proc[p].pid # k BY DEF Held, Running
<1>7. \A p \in Running' : p = b \/ p \in Running BY <1>4 DEF Running
<1> HIDE DEF b
<1> QED
  <2>1. ASSUME NEW p \in Running', NEW q \in Running', proc'[p].pid = proc'[q].pid PROVE p = q
    BY <2>1, <1>4, <1>5, <1>6, <1>7 DEF NodeInv, Running
  <2>2. \A p \in Procs : proc'[p].life = "zombie" => proc[p].life = "zombie"
    BY <1>4, <1>5
  <2> QED BY <1>3, <2>1, <2>2

(* An exit, whether or not somebody waits for it. *)
LEMMA DeathKeepsNode ==
  ASSUME NodeInv, NEW p \in Procs, Dies(p)
  PROVE  /\ proc' \in [Procs -> Process]
         /\ \A q \in Procs : /\ proc'[q].pid = proc[q].pid /\ proc'[q].home = proc[q].home
                             /\ q # p => proc'[q].life = proc[q].life
         /\ proc'[p].life = IF Watched(p) THEN "zombie" ELSE "gone"
<1> DEFINE mine == IF Watched(p) THEN "zombie" ELSE "gone"
<1>1. \A q \in Procs : proc[q] \in Process BY DEF NodeInv
<1>2. [proc[p] EXCEPT !.life = mine, !.parent = NoProc] \in Process
  BY <1>1 DEF Process
<1>3. \A q \in Procs : [proc[q] EXCEPT !.parent = NoProc] \in Process
  BY <1>1 DEF Process
<1>4. proc' = [q \in Procs |->
                 CASE q = p -> [proc[p] EXCEPT !.life = mine, !.parent = NoProc]
                   [] q # p /\ proc[q].parent = p -> [proc[q] EXCEPT !.parent = NoProc]
                   [] OTHER -> proc[q]]
  BY DEF Dies
<1> HIDE DEF mine
<1>5. \A q \in Procs :
        proc'[q] = IF q = p THEN [proc[p] EXCEPT !.life = mine, !.parent = NoProc]
                   ELSE IF proc[q].parent = p THEN [proc[q] EXCEPT !.parent = NoProc]
                   ELSE proc[q]
  BY <1>4
<1> QED
  <2>1. proc' \in [Procs -> Process]
    BY <1>1, <1>2, <1>3, <1>4, <1>5
  <2>2. ASSUME NEW q \in Procs
        PROVE  /\ proc'[q].pid = proc[q].pid /\ proc'[q].home = proc[q].home
               /\ q # p => proc'[q].life = proc[q].life
    <3>1. \A r \in Process, life \in {"zombie", "gone"} :
            LET dead == [r EXCEPT !.life = life, !.parent = NoProc]
            IN  dead.pid = r.pid /\ dead.home = r.home
      BY DEF Process
    <3>2. \A r \in Process : LET left == [r EXCEPT !.parent = NoProc]
                             IN  left.pid = r.pid /\ left.home = r.home /\ left.life = r.life
      BY DEF Process
    <3>3. proc[q] \in Process /\ mine \in {"zombie", "gone"} BY <1>1 DEF mine
    <3> HIDE DEF mine
    <3>4. CASE q = p
      <4>1. proc'[q] = [proc[q] EXCEPT !.life = mine, !.parent = NoProc] BY <1>5, <3>4
      <4>2. LET dead == [proc[q] EXCEPT !.life = mine, !.parent = NoProc]
            IN  dead.pid = proc[q].pid /\ dead.home = proc[q].home
        BY <3>1, <3>3
      <4> QED BY <3>4, <4>1, <4>2
    <3>5. CASE q # p BY <1>5, <3>2, <3>3, <3>5
    <3> QED BY <3>4, <3>5
  <2>3. proc'[p].life = mine
    BY <1>1, <1>5 DEF Process
  <2> QED BY <2>1, <2>2, <2>3 DEF mine

(* What a step of a recorder other than its start does to processes and to *)
(* the root it has.                                                        *)
LEMMA RootsStay ==
  ASSUME RecorderInv, NEW s \in Scopes, Recorder(s)
  PROVE  \A t \in Scopes : recorder[t].root # NoProc => recorder'[t].root = recorder[t].root
<1>1. ASSUME NEW k \in Pids, Start(s, k)
      PROVE  \A t \in Scopes : recorder[t].root # NoProc => recorder'[t].root = recorder[t].root
  BY <1>1 DEF Start, RecorderInv
<1>2. ASSUME RecordBinding(s) \/ RecordBindingFails(s) \/ Wait(s) \/ CloseBinding(s)
               \/ CloseBindingFails(s) \/ Kill(s) \/ StartFails(s) \/ Sample(s)
               \/ \E stored : Finish(s, stored)
      PROVE  \A t \in Scopes : recorder'[t].root = recorder[t].root
  <2>1. ASSUME NEW place, Step(s, place)
        PROVE  \A t \in Scopes : recorder'[t].root = recorder[t].root
    BY <2>1 DEF Step, RecorderInv, RecorderRow
  <2>2. CASE RecordBinding(s) \/ RecordBindingFails(s) \/ Wait(s) \/ CloseBinding(s)
               \/ CloseBindingFails(s) \/ Kill(s)
    BY <2>1, <2>2 DEF RecordBinding, RecordBindingFails, Wait, CloseBinding,
                      CloseBindingFails, Kill
  <2>3. CASE StartFails(s) BY <2>3 DEF StartFails, RecorderInv, RecorderRow
  <2>4. CASE Sample(s) BY <2>4 DEF Sample
  <2>5. CASE \E stored : Finish(s, stored) BY <2>5 DEF Finish, RecorderInv, RecorderRow
  <2> QED BY <1>2, <2>2, <2>3, <2>4, <2>5
<1> QED BY <1>1, <1>2 DEF Recorder

(* Recorders start processes and wait for them. *)
LEMMA RecorderKeepsNode ==
  ASSUME NodeInv, RecorderInv, AttributionAssumption, NEW s \in Scopes, Recorder(s)
  PROVE  NodeInv'
<1>1. ASSUME NEW k \in Pids, Start(s, k) PROVE NodeInv'
  <2>1. /\ proc' = [proc EXCEPT ![NextBorn] = Born(NextBorn, k, NoProc, s)]
        /\ Unborn # {} /\ ~Held(k)
    BY <1>1 DEF Start
  <2>2. /\ proc' \in [Procs -> Process]
        /\ \A p, q \in Running' : proc'[p].pid = proc'[q].pid => p = q
        /\ \A p \in Procs : proc'[p].life = "zombie" => proc[p].life = "zombie"
    BY <2>1, BirthKeepsNode
  <2> QED BY <2>2, RootsStay, AttributionAssumption DEF NodeInv, AttributionAssumption
<1>2. CASE Wait(s) \/ Kill(s)
  <2>1. \A p \in Procs :
          proc'[p] = proc[p] \/ proc'[p] = [proc[p] EXCEPT !.life = "gone"]
    BY <1>2 DEF Wait, Kill, NodeInv
  <2>2. proc' = [p \in Procs |-> proc'[p]]
    BY <1>2 DEF Wait, Kill, NodeInv
  <2>3. \A p \in Procs : proc[p] \in Process BY DEF NodeInv
  <2>4. \A p \in Procs : /\ proc'[p] \in Process /\ proc'[p].pid = proc[p].pid
                         /\ proc'[p].life = proc[p].life \/ proc'[p].life = "gone"
    <3>1. ASSUME NEW row \in Process PROVE [row EXCEPT !.life = "gone"] \in Process
      BY DEF Process
    <3>2. ASSUME NEW row \in Process PROVE [row EXCEPT !.life = "gone"].pid = row.pid
      BY DEF Process
    <3>3. ASSUME NEW row \in Process PROVE [row EXCEPT !.life = "gone"].life = "gone"
      BY DEF Process
    <3> QED BY <2>1, <2>3, <3>1, <3>2, <3>3
  <2>5. Running' \subseteq Running BY <2>4 DEF Running
  <2>6. proc' \in [Procs -> Process] BY <2>2, <2>4
  <2> QED BY <2>4, <2>5, <2>6, RootsStay, AttributionAssumption
         DEF NodeInv, AttributionAssumption, Running
<1>3. ASSUME UNCHANGED proc PROVE NodeInv'
  <2>1. Running' = Running BY <1>3 DEF Running
  <2> QED BY <1>3, <2>1, RootsStay, AttributionAssumption DEF NodeInv, AttributionAssumption
<1>4. ASSUME RecordBinding(s) \/ RecordBindingFails(s) \/ CloseBinding(s)
               \/ CloseBindingFails(s) \/ StartFails(s) \/ Sample(s)
               \/ \E stored : Finish(s, stored)
      PROVE  UNCHANGED proc
  BY <1>4 DEF RecordBinding, RecordBindingFails, CloseBinding, CloseBindingFails, StartFails,
              Sample, Finish, node
<1> QED BY <1>1, <1>2, <1>3, <1>4 DEF Recorder

(* No two running processes have one pid, whoever moves. *)
LEMMA NodeStep ==
  ASSUME NodeInv, RecorderInv, AttributionAssumption, [Next]_vars
  PROVE  NodeInv'
<1>1. ASSUME UNCHANGED <<proc, recorder>> PROVE NodeInv'
  BY <1>1 DEF NodeInv, Running
<1>2. CASE UNCHANGED vars BY <1>1, <1>2 DEF vars, node
<1>3. CASE Sensor
  BY <1>1, <1>3 DEF Sensor, Read, Ingest, IngestFails, NextLine, CloseBindingByPID,
                    CloseBindingByPIDFails, node
<1>4. ASSUME NEW k \in Pids, Outsider(k) PROVE NodeInv'
  <2>1. /\ proc' = [proc EXCEPT ![NextBorn] = Born(NextBorn, k, NoProc, NoScope)]
        /\ Unborn # {} /\ ~Held(k) /\ recorder' = recorder
    BY <1>4 DEF Outsider
  <2> QED BY <2>1, BirthKeepsNode DEF NodeInv
<1>5. ASSUME NEW p \in Procs, NEW k \in Pids, Fork(p, k) PROVE NodeInv'
  <2>1. /\ proc' = [proc EXCEPT ![NextBorn] = Born(NextBorn, k, p, proc[p].home)]
        /\ Unborn # {} /\ ~Held(k) /\ recorder' = recorder
    BY <1>5 DEF Fork
  <2>2. proc[p].home \in Scopes \cup {NoScope} BY DEF NodeInv, Process
  <2> QED BY <2>1, <2>2, BirthKeepsNode DEF NodeInv
<1>6. ASSUME NEW p \in Procs, Exit(p) PROVE NodeInv'
  <2>1. /\ proc' \in [Procs -> Process]
        /\ \A q \in Procs : /\ proc'[q].pid = proc[q].pid /\ proc'[q].home = proc[q].home
                            /\ q # p => proc'[q].life = proc[q].life
        /\ proc'[p].life = IF Watched(p) THEN "zombie" ELSE "gone"
        /\ proc[p].life = "alive" /\ recorder' = recorder
    BY <1>6, DeathKeepsNode DEF Exit
  <2>2. Running' \subseteq Running BY <2>1 DEF Running
  <2> QED BY <2>1, <2>2 DEF NodeInv, Watched, Running
<1>7. ASSUME NEW p \in Procs, Act(p) PROVE NodeInv'
  BY <1>1, <1>7 DEF Act
<1>8. CASE Node BY <1>4, <1>5, <1>6, <1>7, <1>8 DEF Node
<1> QED BY <1>2, <1>3, <1>8, RecorderKeepsNode DEF Next

(* Ends that are written: open rows become ended ones.                     *)
LEMMA EndKeepsRows ==
  ASSUME RecorderInv, NEW closing \in SUBSET Scopes, NEW at \in Nat, End(closing, at)
  PROVE  /\ window' \in [Scopes -> WindowRow]
         /\ \A s \in Scopes : /\ window'[s].bound = window[s].bound
                              /\ s \in closing => window'[s].to = at
                              /\ s \notin closing => window'[s] = window[s]
<1>1. \A s \in Scopes : window[s] \in WindowRow BY DEF RecorderInv
<1>2. \A s \in Scopes : [window[s] EXCEPT !.to = at] \in WindowRow
  BY <1>1 DEF WindowRow
<1>3. \A s \in Scopes :
        window'[s] = IF s \in closing THEN [window[s] EXCEPT !.to = at] ELSE window[s]
  BY DEF End
<1>4. window' = [s \in Scopes |-> window'[s]] BY DEF End
<1> QED BY <1>1, <1>2, <1>3, <1>4 DEF WindowRow

(* A recorder that goes on and changes at most its own row's presence.     *)
LEMMA StepKeepsRecorder ==
  ASSUME RecorderInv, NEW s \in Scopes, recorder[s].at # "new",
         NEW place \in {"forked", "watching", "grace", "closing", "done", "killed"},
         Step(s, place)
  PROVE  /\ recorder' \in [Scopes -> RecorderRow]
         /\ \A t \in Scopes : /\ recorder'[t].root = recorder[t].root
                              /\ recorder'[t].from = recorder[t].from
                              /\ recorder'[t].ended = recorder[t].ended
                              /\ recorder'[t].at = "new" => recorder[t].at = "new"
<1>1. \A t \in Scopes : recorder[t] \in RecorderRow BY DEF RecorderInv
<1>2. [recorder[s] EXCEPT !.at = place] \in RecorderRow BY <1>1 DEF RecorderRow
<1>3. recorder' = [recorder EXCEPT ![s] = [recorder[s] EXCEPT !.at = place]]
  BY DEF Step, RecorderInv
<1>4. \A t \in Scopes : t # s => recorder'[t] = recorder[t] BY <1>3 DEF RecorderInv
<1>5. recorder'[s] = [recorder[s] EXCEPT !.at = place] BY <1>3 DEF RecorderInv
<1>6. recorder' \in [Scopes -> RecorderRow] BY <1>2, <1>3 DEF RecorderInv
<1> QED BY <1>1, <1>4, <1>5, <1>6 DEF RecorderRow

(* Whoever writes an end of a row writes one in the past. *)
LEMMA RecorderStep ==
  ASSUME StateInv, AttributionAssumption, [Next]_vars
  PROVE  RecorderInv'
<1> USE DEF StateInv
<1>0. clock \in Nat /\ clock' \in Nat /\ clock <= clock' BY ClockGrows
<1>1. ASSUME UNCHANGED <<recorder, window>> PROVE RecorderInv'
  <2>1. \A s \in Scopes : recorder[s].ended \in Nat /\ window[s].to \in Nat
    BY DEF RecorderInv, RecorderRow, WindowRow
  <2>2. \A n \in Nat : n <= clock => n <= clock' BY <1>0
  <2> QED BY <1>1, <2>1, <2>2 DEF RecorderInv
<1>2. CASE UNCHANGED vars BY <1>1, <1>2 DEF vars, rows
<1>3. CASE Node BY <1>1, <1>3 DEF Node, Outsider, Fork, Act, Exit, rows
<1>4. CASE Sensor
  <2>1. CASE Read \/ Ingest \/ IngestFails \/ NextLine \/ CloseBindingByPIDFails
    BY <1>1, <2>1 DEF Read, Ingest, IngestFails, NextLine, CloseBindingByPIDFails, rows
  <2>2. CASE CloseBindingByPID
    <3> DEFINE hit == {s \in Scopes : Open(s) /\ Pid(recorder[s].root) = Pid(line.proc)}
    <3>1. End(hit, line.at) /\ recorder' = recorder /\ clock' = clock
      BY <2>2 DEF CloseBindingByPID
    <3>2. line.at \in Nat /\ line.at <= clock
      BY <2>2 DEF CloseBindingByPID, SensorInv, LineRow, NoLine
    <3>3. hit \in SUBSET Scopes OBVIOUS
    <3> HIDE DEF hit
    <3>4. /\ window' \in [Scopes -> WindowRow]
          /\ \A s \in Scopes : /\ window'[s].bound = window[s].bound
                               /\ s \in hit => window'[s].to = line.at
                               /\ s \notin hit => window'[s] = window[s]
      BY <3>1, <3>2, <3>3, EndKeepsRows
    <3> QED BY <3>1, <3>2, <3>4 DEF RecorderInv
  <2> QED BY <1>4, <2>1, <2>2 DEF Sensor
<1>5. ASSUME NEW s \in Scopes, Recorder(s) PROVE RecorderInv'
  <2>1. ASSUME NEW k \in Pids, Start(s, k) PROVE RecorderInv'
    <3> DEFINE next == [recorder[s] EXCEPT !.at = "forked", !.root = NextBorn, !.from = clock']
    <3>1. NextBorn \in Procs BY <2>1, Fresh DEF Start
    <3>2. \A t \in Scopes : recorder[t] \in RecorderRow BY DEF RecorderInv
    <3>3. next \in RecorderRow /\ next.at = "forked" /\ next.ended = recorder[s].ended
      BY <1>0, <3>1, <3>2 DEF RecorderRow
    <3>4. recorder' = [recorder EXCEPT ![s] = next] /\ window' = window
      BY <2>1 DEF Start, RecorderInv, rows
    <3> HIDE DEF next
    <3>5. recorder' \in [Scopes -> RecorderRow] BY <3>3, <3>4 DEF RecorderInv
    <3>6. \A t \in Scopes : recorder'[t] = IF t = s THEN next ELSE recorder[t]
      BY <3>4 DEF RecorderInv
    <3>7. \A t \in Scopes : recorder[t].ended <= clock' /\ window[t].to <= clock'
      BY <1>0, <3>2 DEF RecorderInv, RecorderRow, WindowRow
    <3> QED BY <3>3, <3>4, <3>5, <3>6, <3>7 DEF RecorderInv
  <2>2. CASE StartFails(s)
    <3> DEFINE next == [recorder[s] EXCEPT !.at = "done", !.from = clock + 1, !.ended = clock']
               row == [bound |-> TRUE, to |-> clock']
    <3>1. \A t \in Scopes : recorder[t] \in RecorderRow BY DEF RecorderInv
    <3>2. next \in RecorderRow /\ next.at = "done" /\ next.ended = clock'
      <4>1. ASSUME NEW f \in Nat, NEW e \in Nat, NEW r \in RecorderRow
            PROVE  LET n == [r EXCEPT !.at = "done", !.from = f, !.ended = e]
                   IN n \in RecorderRow /\ n.at = "done" /\ n.ended = e
        BY DEF RecorderRow
      <4>2. clock + 1 \in Nat BY <1>0
      <4> QED BY <1>0, <3>1, <4>1, <4>2
    <3>3. row \in WindowRow /\ row.to = clock' BY <1>0 DEF WindowRow
    <3>4. recorder' = [recorder EXCEPT ![s] = next] /\ window' = [window EXCEPT ![s] = row]
      BY <2>2 DEF StartFails, RecorderInv
    <3> HIDE DEF next, row
    <3>5. recorder' \in [Scopes -> RecorderRow] /\ window' \in [Scopes -> WindowRow]
      BY <3>2, <3>3, <3>4 DEF RecorderInv
    <3>6. \A t \in Scopes : /\ recorder'[t] = IF t = s THEN next ELSE recorder[t]
                            /\ window'[t] = IF t = s THEN row ELSE window[t]
      BY <3>4 DEF RecorderInv
    <3>7. \A t \in Scopes : recorder[t].ended <= clock' /\ window[t].to <= clock'
      BY <1>0, <3>1 DEF RecorderInv, RecorderRow, WindowRow
    <3> QED BY <1>0, <3>2, <3>3, <3>5, <3>6, <3>7 DEF RecorderInv
  <2>3. CASE RecordBinding(s)
    <3>1. /\ recorder[s].at # "new" /\ Step(s, "watching") /\ clock' = clock
          /\ window' = [window EXCEPT ![s].bound = TRUE]
      BY <2>3 DEF RecordBinding
    <3>2. window' \in [Scopes -> WindowRow] /\ \A t \in Scopes : /\ window'[t].to = window[t].to
             /\ t # s => window'[t].bound = window[t].bound
      BY <3>1 DEF RecorderInv, WindowRow
    <3>3. recorder'[s].at = "watching" BY <3>1 DEF Step, RecorderInv, RecorderRow
    <3> QED BY <3>1, <3>2, <3>3, StepKeepsRecorder DEF RecorderInv
  <2>4. CASE RecordBindingFails(s) \/ Wait(s) \/ CloseBindingFails(s) \/ Kill(s)
    <3>1. PICK place \in {"watching", "grace", "done", "killed"} : Step(s, place)
      BY <2>4 DEF RecordBindingFails, Wait, CloseBindingFails, Kill
    <3>2. recorder[s].at # "new" /\ UNCHANGED <<clock, window>>
      BY <2>4 DEF RecordBindingFails, Wait, CloseBindingFails, Kill, rows
    <3> QED BY <3>1, <3>2, StepKeepsRecorder DEF RecorderInv
  <2>5. CASE Sample(s) BY <1>1, <2>5 DEF Sample, rows
  <2>6. ASSUME NEW stored, Finish(s, stored) PROVE RecorderInv'
    <3> DEFINE next == [recorder[s] EXCEPT !.at = "closing", !.ended = clock']
    <3>1. \A t \in Scopes : recorder[t] \in RecorderRow BY DEF RecorderInv
    <3>2. next \in RecorderRow /\ next.at = "closing" /\ next.ended = clock'
      BY <1>0, <3>1 DEF RecorderRow
    <3>3. recorder' = [recorder EXCEPT ![s] = next] /\ window' = window
      BY <2>6 DEF Finish, RecorderInv
    <3> HIDE DEF next
    <3>4. recorder' \in [Scopes -> RecorderRow] BY <3>2, <3>3 DEF RecorderInv
    <3>5. \A t \in Scopes : recorder'[t] = IF t = s THEN next ELSE recorder[t]
      BY <3>3 DEF RecorderInv
    <3>6. \A t \in Scopes : recorder[t].ended <= clock' /\ window[t].to <= clock'
      BY <1>0, <3>1 DEF RecorderInv, RecorderRow, WindowRow
    <3> QED BY <1>0, <3>2, <3>3, <3>4, <3>5, <3>6 DEF RecorderInv
  <2>7. CASE CloseBinding(s)
    <3> DEFINE hit == {s} \cap {t \in Scopes : Open(t)}
    <3>1. /\ recorder[s].at # "new" /\ Step(s, "done") /\ clock' = clock
          /\ End(hit, recorder[s].ended)
      BY <2>7 DEF CloseBinding
    <3>2. recorder[s].ended \in Nat /\ recorder[s].ended <= clock
      BY DEF RecorderInv, RecorderRow
    <3>3. hit \in SUBSET Scopes OBVIOUS
    <3> HIDE DEF hit
    <3>4. /\ window' \in [Scopes -> WindowRow]
          /\ \A t \in Scopes : /\ window'[t].bound = window[t].bound
                               /\ t \in hit => window'[t].to = recorder[s].ended
                               /\ t \notin hit => window'[t] = window[t]
      BY <3>1, <3>2, <3>3, EndKeepsRows
    <3> QED BY <3>1, <3>2, <3>4, StepKeepsRecorder DEF RecorderInv
  <2> QED BY <1>5, <2>1, <2>2, <2>3, <2>4, <2>5, <2>6, <2>7 DEF Recorder
<1> QED BY <1>2, <1>3, <1>4, <1>5 DEF Next

-----------------------------------------------------------------------------
(* A process that was born stays so, with its pid and its scope.           *)
LEMMA BornStays ==
  ASSUME NodeInv, RecorderInv, [Next]_vars, NEW p \in Procs, proc[p].life # "unborn"
  PROVE  /\ proc'[p].life # "unborn"
         /\ proc'[p].pid = proc[p].pid /\ proc'[p].home = proc[p].home
<1> DEFINE Same == /\ proc'[p].life # "unborn"
                   /\ proc'[p].pid = proc[p].pid /\ proc'[p].home = proc[p].home
<1>1. ASSUME UNCHANGED proc PROVE Same BY <1>1
<1>2. ASSUME NEW row, Unborn # {}, proc' = [proc EXCEPT ![NextBorn] = row] PROVE Same
  BY <1>2, Fresh DEF NodeInv
<1>3. ASSUME NEW q \in Procs, Exit(q) PROVE Same
  <2>1. /\ \A r \in Procs : /\ proc'[r].pid = proc[r].pid /\ proc'[r].home = proc[r].home
                            /\ r # q => proc'[r].life = proc[r].life
        /\ proc'[q].life = IF Watched(q) THEN "zombie" ELSE "gone"
    BY <1>3, DeathKeepsNode DEF Exit
  <2> QED BY <2>1
<1>4. ASSUME NEW s \in Scopes, Wait(s) \/ Kill(s) PROVE Same
  <2>1. proc'[p] = proc[p] \/ proc'[p] = [proc[p] EXCEPT !.life = "gone"]
    BY <1>4 DEF Wait, Kill, NodeInv
  <2>2. proc[p] \in Process BY DEF NodeInv
  <2> QED BY <2>1, <2>2 DEF Process
<1> HIDE DEF Same
<1>5. CASE UNCHANGED vars BY <1>1, <1>5 DEF vars, node
<1>6. CASE Node
  <2>1. ASSUME NEW k \in Pids, Outsider(k) PROVE Same BY <1>2, <2>1 DEF Outsider
  <2>2. ASSUME NEW q \in Procs, NEW k \in Pids, Fork(q, k) PROVE Same BY <1>2, <2>2 DEF Fork
  <2>3. ASSUME NEW q \in Procs, Act(q) PROVE Same BY <1>1, <2>3 DEF Act
  <2> QED BY <1>3, <1>6, <2>1, <2>2, <2>3 DEF Node, Same
<1>7. CASE Sensor
  BY <1>1, <1>7 DEF Sensor, Read, Ingest, IngestFails, NextLine, CloseBindingByPID,
                    CloseBindingByPIDFails, node
<1>8. ASSUME NEW s \in Scopes, Recorder(s) PROVE Same
  <2>1. ASSUME NEW k \in Pids, Start(s, k) PROVE Same BY <1>2, <2>1 DEF Start
  <2>2. CASE RecordBinding(s) \/ RecordBindingFails(s) \/ CloseBinding(s)
               \/ CloseBindingFails(s) \/ StartFails(s) \/ Sample(s)
               \/ \E stored : Finish(s, stored)
    BY <1>1, <2>2 DEF RecordBinding, RecordBindingFails, CloseBinding, CloseBindingFails,
                      StartFails, Sample, Finish, node
  <2> QED BY <1>4, <1>8, <2>1, <2>2 DEF Recorder
<1> QED BY <1>5, <1>6, <1>7, <1>8 DEF Next, Same

(* Of rows that start before an event one starts last. *)
LEMMA LatestIsOne ==
  ASSUME NEW found, found # {}, NEW at \in Nat,
         \A row \in found : row.from \in Nat /\ row.from <= at
  PROVE  Latest(found) \in found /\ \A other \in found : Latest(found).from >= other.from
<1> DEFINE ages == {at - row.from : row \in found}
<1>1. ages \subseteq Nat /\ ages # {} OBVIOUS
<1>2. PICK x \in ages : \A y \in ages : ~(<<y, x>> \in OpToRel(<, Nat))
  BY <1>1, NatLessThanWellFounded, WFMin
<1>3. \A y \in ages : x <= y
  <2>1. \A y \in ages : ~(y < x) BY <1>1, <1>2 DEF OpToRel
  <2> HIDE DEF ages
  <2> QED BY <1>1, <2>1
<1>4. PICK row \in found : x = at - row.from OBVIOUS
<1>5. \A other \in found : row.from >= other.from
  <2>1. ASSUME NEW other \in found PROVE x <= at - other.from
    BY <1>3
  <2> QED BY <1>4, <2>1
<1> QED BY <1>5 DEF Latest

(* What an event resolves to. *)
LEMMA RowsTyped ==
  ASSUME StateInv, NEW row \in Rows
  PROVE  /\ row.scope \in Scopes /\ row.kind \in {"root", "kin"} /\ row.from \in Nat
         /\ row.kind = "root" => row = RootRow(row.scope) /\ window[row.scope].bound
<1>1. CASE row \in kin BY <1>1 DEF StateInv, SampleInv, KinOf, Interval
<1>2. ASSUME NEW s \in Scopes, window[s].bound, row = RootRow(s)
      PROVE  /\ row.scope = s /\ row.kind = "root" /\ row.from \in Nat
  BY <1>2 DEF RootRow, StateInv, RecorderInv, RecorderRow
<1> QED BY <1>1, <1>2 DEF Rows

(* Resolve finds a row that covers the event, by cgroup where it can.      *)
LEMMA ResolveIsRow ==
  ASSUME StateInv, NEW p \in Procs, NEW at \in Nat
  PROVE  /\ Resolve(p, at) = NoRow \/ (Resolve(p, at) \in Rows /\ Covers(Resolve(p, at), at))
         /\ ByCgroup(p, at) # {} => Resolve(p, at) \in ByCgroup(p, at)
<1>1. \A row \in Rows : Covers(row, at) => row.from \in Nat /\ row.from <= at
  BY RowsTyped DEF Covers
<1>2. ByCgroup(p, at) # {} => Latest(ByCgroup(p, at)) \in ByCgroup(p, at)
  BY <1>1, LatestIsOne DEF ByCgroup
<1>3. ByPid(p, at) # {} => Latest(ByPid(p, at)) \in ByPid(p, at)
  BY <1>1, LatestIsOne DEF ByPid
<1> QED BY <1>2, <1>3 DEF Resolve, ByCgroup, ByPid

-----------------------------------------------------------------------------
(* The sensor's reports and the event in hand. *)
LEMMA NoLineIsLine == NoLine \in LineRow
  BY DEF NoLine, LineRow, WindowRow

(* What is stored of an event is typed, and its row is one of those there. *)
LEMMA ResolvedIsLine ==
  ASSUME StateInv, NEW report \in Stamped
  PROVE  LET row == Resolve(report.proc, report.at) IN
         /\ Resolved(report, row) \in LineRow
         /\ Resolved(report, row).proc = report.proc /\ Resolved(report, row).at = report.at
         /\ Resolved(report, row).kind = report.kind
<1> DEFINE row == Resolve(report.proc, report.at)
           home == proc[report.proc].home
           own == IF home = NoScope THEN NoLine.own ELSE window[home]
<1>1. report.proc \in Procs /\ report.at \in Nat /\ report.held \in BOOLEAN
      /\ report.kind \in {"act", "exit"}
  BY DEF Stamped
<1>2. row = NoRow \/ row \in Rows BY <1>1, ResolveIsRow
<1>3. row.scope \in Scopes \cup {NoScope} /\ row.kind \in {"none", "root", "kin"}
  BY <1>2, RowsTyped DEF NoRow
<1>4. home \in Scopes \cup {NoScope} BY <1>1 DEF StateInv, NodeInv, Process
<1>5. own \in WindowRow
  BY <1>4 DEF StateInv, RecorderInv, NoLine, WindowRow
<1>6. (home \in stale) \in BOOLEAN OBVIOUS
<1>7. Resolved(report, row) =
        [proc |-> report.proc, kind |-> report.kind, at |-> report.at, held |-> report.held,
         scope |-> row.scope, via |-> row.kind, own |-> own, fooled |-> home \in stale]
  BY DEF Resolved
<1> HIDE DEF row, home, own
<1> QED BY <1>1, <1>3, <1>5, <1>6, <1>7 DEF LineRow, row

(* A report comes last in the ring buffer, or is lost. *)
LEMMA ReportKeepsRing ==
  ASSUME SensorInv, NEW p \in Procs, NEW kind \in {"act", "exit"}, ring' = Report(p, kind)
  PROVE  /\ ring' \in Seq(Reported)
         /\ \A i \in DOMAIN ring' : (i \in DOMAIN ring /\ ring'[i] = ring[i]) \/ ring'[i].proc = p
<1> DEFINE new == [proc |-> p, kind |-> kind]
<1>1. new \in Reported /\ new.proc = p BY DEF Reported
<1>2. ring' = Append(ring, new) \/ ring' = ring BY DEF Report
<1>3. ring \in Seq(Reported) BY DEF SensorInv
<1> HIDE DEF new
<1> QED BY <1>1, <1>2, <1>3

(* Reports, stamped reports and the event in hand name born processes.     *)
LEMMA SensorStep ==
  ASSUME StateInv, AttributionAssumption, [Next]_vars
  PROVE  SensorInv'
<1> USE DEF StateInv
<1>0. clock \in Nat /\ clock' \in Nat /\ clock <= clock' BY ClockGrows
<1>1. \A p \in Procs : proc[p].life # "unborn" => proc'[p].life # "unborn" BY BornStays
<1>2. \A n \in Nat : n <= clock => n <= clock' BY <1>0
<1>3. /\ \A i \in DOMAIN ring : ring[i].proc \in Procs
      /\ \A i \in DOMAIN stream : stream[i] \in Stamped
  <2>1. \A i \in DOMAIN ring : ring[i] \in Reported BY DEF SensorInv
  <2>2. \A i \in DOMAIN stream : stream[i] \in Stamped BY DEF SensorInv
  <2>3. \A r \in Reported : r.proc \in Procs BY DEF Reported
  <2> QED BY <2>1, <2>2, <2>3
<1>4. \A i \in DOMAIN stream : stream[i].proc \in Procs /\ stream[i].at \in Nat
  BY <1>3 DEF Stamped
<1>5. line.at \in Nat BY DEF SensorInv, LineRow
<1>6. ASSUME UNCHANGED ring
      PROVE  /\ ring' \in Seq(Reported)
             /\ \A i \in DOMAIN ring' : proc'[ring'[i].proc].life # "unborn"
  BY <1>1, <1>3, <1>6 DEF SensorInv
<1>7. ASSUME UNCHANGED stream
      PROVE  /\ stream' \in Seq(Stamped)
             /\ \A i \in DOMAIN stream' :
                  stream'[i].at <= clock' /\ proc'[stream'[i].proc].life # "unborn"
  BY <1>1, <1>2, <1>4, <1>7 DEF SensorInv
<1>8. ASSUME UNCHANGED line
      PROVE  /\ line' \in LineRow
             /\ line' # NoLine => /\ line'.proc \in Procs /\ line'.at <= clock'
                                  /\ proc'[line'.proc].life # "unborn"
  BY <1>1, <1>2, <1>5, <1>8 DEF SensorInv
<1>9. ASSUME UNCHANGED <<ring, stream, line>> PROVE SensorInv'
  BY <1>6, <1>7, <1>8, <1>9 DEF SensorInv
<1>10. CASE UNCHANGED vars BY <1>9, <1>10 DEF vars, node, sensor
<1>11. CASE Node
  <2>1. ASSUME NEW p \in Procs, NEW kind \in {"act", "exit"}, proc[p].life = "alive",
               ring' = Report(p, kind), UNCHANGED <<stream, line>>
        PROVE  SensorInv'
    <3>1. /\ ring' \in Seq(Reported)
          /\ \A i \in DOMAIN ring' : (i \in DOMAIN ring /\ ring'[i] = ring[i]) \/ ring'[i].proc = p
      BY <2>1, ReportKeepsRing
    <3>2. proc'[p].life # "unborn" BY <1>1, <2>1
    <3>3. \A i \in DOMAIN ring' : proc'[ring'[i].proc].life # "unborn"
      BY <1>1, <1>3, <3>1, <3>2 DEF SensorInv
    <3> QED BY <1>7, <1>8, <2>1, <3>1, <3>3 DEF SensorInv
  <2>2. ASSUME NEW p \in Procs, Act(p) PROVE SensorInv'
    BY <2>1, <2>2 DEF Act, sensor
  <2>3. ASSUME NEW p \in Procs, Exit(p) PROVE SensorInv'
    BY <2>1, <2>3 DEF Exit, sensor
  <2>4. CASE \/ \E k \in Pids : Outsider(k)
             \/ \E p \in Procs, k \in Pids : Fork(p, k)
    BY <1>9, <2>4 DEF Outsider, Fork, sensor
  <2> QED BY <1>11, <2>2, <2>3, <2>4 DEF Node
<1>12. CASE Read
  <2> DEFINE new == [proc |-> Head(ring).proc, kind |-> Head(ring).kind, at |-> clock',
                     held |-> proc[Head(ring).proc].life # "gone"]
  <2>1. ring # <<>> /\ ring' = Tail(ring) /\ stream' = Append(stream, new) /\ line' = line
    BY <1>12 DEF Read
  <2>2. Head(ring) \in Reported /\ Head(ring) = ring[1] /\ 1 \in DOMAIN ring
    BY <2>1 DEF SensorInv
  <2>3. new \in Stamped /\ new.at = clock' /\ new.proc = Head(ring).proc
    BY <1>0, <2>2 DEF Reported, Stamped
  <2>4. proc'[Head(ring).proc].life # "unborn"
    BY <1>1, <1>3, <2>2 DEF SensorInv
  <2> HIDE DEF new
  <2>5. /\ ring' \in Seq(Reported)
        /\ \A i \in DOMAIN ring' : i + 1 \in DOMAIN ring /\ ring'[i] = ring[i + 1]
    BY <2>1 DEF SensorInv
  <2>6. \A i \in DOMAIN ring' : proc'[ring'[i].proc].life # "unborn"
    BY <1>1, <1>3, <2>5 DEF SensorInv
  <2>7. /\ stream' \in Seq(Stamped)
        /\ \A i \in DOMAIN stream' : (i \in DOMAIN stream /\ stream'[i] = stream[i])
                                       \/ stream'[i] = new
    BY <2>1, <2>3 DEF SensorInv
  <2>8. \A i \in DOMAIN stream' :
          stream'[i].at <= clock' /\ proc'[stream'[i].proc].life # "unborn"
    <3>1. \A i \in DOMAIN stream : /\ stream[i].at <= clock'
                                   /\ proc'[stream[i].proc].life # "unborn"
      BY <1>1, <1>2, <1>4 DEF SensorInv
    <3>2. new.at <= clock' /\ proc'[new.proc].life # "unborn"
      BY <1>0, <2>3, <2>4
    <3> QED BY <2>7, <3>1, <3>2
  <2> QED BY <1>8, <2>1, <2>5, <2>6, <2>7, <2>8 DEF SensorInv
<1>13. ASSUME stream # <<>>, stream' = Tail(stream)
       PROVE  /\ stream' \in Seq(Stamped)
              /\ \A i \in DOMAIN stream' :
                   stream'[i].at <= clock' /\ proc'[stream'[i].proc].life # "unborn"
  <2>1. /\ stream' \in Seq(Stamped)
        /\ \A i \in DOMAIN stream' : i + 1 \in DOMAIN stream /\ stream'[i] = stream[i + 1]
    BY <1>13 DEF SensorInv
  <2> QED BY <1>1, <1>2, <1>4, <2>1 DEF SensorInv
<1>14. CASE Ingest
  <2> DEFINE report == Head(stream)
  <2>1. /\ stream # <<>> /\ stream' = Tail(stream) /\ ring' = ring
        /\ line' = Resolved(report, Resolve(report.proc, report.at))
    BY <1>14 DEF Ingest, node
  <2>2. report = stream[1] /\ 1 \in DOMAIN stream
    BY <2>1 DEF SensorInv
  <2>3. report \in Stamped /\ report.proc \in Procs /\ report.at \in Nat
        /\ report.at <= clock' /\ proc'[report.proc].life # "unborn"
    BY <1>1, <1>2, <1>3, <1>4, <2>2 DEF SensorInv
  <2> HIDE DEF report
  <2>4. line' \in LineRow /\ line'.proc = report.proc /\ line'.at = report.at
    BY <2>1, <2>3, ResolvedIsLine
  <2> QED BY <1>6, <1>13, <2>1, <2>3, <2>4 DEF SensorInv
<1>15. CASE IngestFails
  <2>1. stream # <<>> /\ stream' = Tail(stream) /\ UNCHANGED <<ring, line>>
    BY <1>15 DEF IngestFails, node
  <2> QED BY <1>6, <1>8, <1>13, <2>1 DEF SensorInv
<1>16. CASE NextLine \/ CloseBindingByPID \/ CloseBindingByPIDFails
  <2>1. line' = NoLine /\ UNCHANGED <<ring, stream>>
    BY <1>16 DEF NextLine, CloseBindingByPID, CloseBindingByPIDFails, node
  <2> QED BY <1>6, <1>7, <2>1, NoLineIsLine DEF SensorInv
<1>17. ASSUME NEW s \in Scopes, Recorder(s) PROVE SensorInv'
  BY <1>9, <1>17 DEF Recorder, Start, StartFails, RecordBinding, RecordBindingFails, Sample,
                     Wait, Finish, CloseBinding, CloseBindingFails, Kill, node, sensor
<1> QED BY <1>10, <1>11, <1>12, <1>14, <1>15, <1>16, <1>17 DEF Next, Sensor

-----------------------------------------------------------------------------
(* A sample extends what has been seen before. *)
LEMMA ObservedIsSighting ==
  ASSUME StateInv, NEW s \in Scopes, NEW now \in Nat, clock < now
  PROVE  \A o \in Observed(s, now) : Sighting(o, now)
<1> DEFINE pids == {proc[p].pid : p \in Family(Pid(recorder[s].root))} \ {Pid(recorder[s].root)}
           known == {o.pid : o \in seen[s]}
<1>1. clock \in Nat /\ now # 0 BY DEF StateInv
<1>2. \A o \in seen[s] : Sighting(o, clock) BY DEF StateInv, SampleInv
<1>3. \A o \in seen[s] : Sighting(o, now) BY <1>1, <1>2 DEF Sighting, Interval
<1>4. ASSUME NEW o \in seen[s] PROVE Sighting([o EXCEPT !.to = now], now)
  <2>1. /\ o = [pid |-> o.pid, from |-> o.from, to |-> o.to]
        /\ o.from \in Nat \ {0} /\ o.from <= now
    BY <1>3 DEF Sighting, Interval
  <2>2. [o EXCEPT !.to = now] = [pid |-> o.pid, from |-> o.from, to |-> now]
    BY <2>1
  <2> QED BY <1>1, <2>1, <2>2 DEF Sighting, Interval
<1>5. ASSUME NEW k PROVE Sighting([pid |-> k, from |-> now, to |-> now], now)
  BY <1>1 DEF Sighting, Interval
<1>6. Observed(s, now) = {IF o.pid \in pids THEN [o EXCEPT !.to = now] ELSE o : o \in seen[s]}
                           \cup {[pid |-> k, from |-> now, to |-> now] : k \in pids \ known}
  BY DEF Observed
<1> HIDE DEF pids, known
<1> QED BY <1>3, <1>4, <1>5, <1>6

(* Rows of descendants are made of what samples saw. *)
LEMMA SampleStep ==
  ASSUME StateInv, AttributionAssumption, [Next]_vars
  PROVE  SampleInv'
<1>0. clock \in Nat /\ clock' \in Nat /\ clock <= clock' BY ClockGrows DEF StateInv
<1>1. \A s \in Scopes : \A o \in seen[s] : Sighting(o, clock')
  BY <1>0 DEF StateInv, SampleInv, Sighting, Interval
<1>2. \A row \in kin : KinOf(row, clock')
  BY <1>0 DEF StateInv, SampleInv, KinOf, Interval
<1>3. ASSUME UNCHANGED <<seen, kin>> PROVE SampleInv'
  BY <1>1, <1>2, <1>3 DEF StateInv, SampleInv
<1>4. ASSUME NEW s \in Scopes, NEW now, seen' = [seen EXCEPT ![s] = now],
             \A o \in now : Sighting(o, clock')
      PROVE  /\ seen' = [t \in Scopes |-> seen'[t]]
             /\ \A t \in Scopes : \A o \in seen'[t] : Sighting(o, clock')
  <2>1. seen = [t \in Scopes |-> seen[t]] BY DEF StateInv, SampleInv
  <2>2. \A t \in Scopes : seen'[t] = IF t = s THEN now ELSE seen[t] BY <1>4, <2>1
  <2>3. seen' = [t \in Scopes |-> seen'[t]] BY <1>4, <2>1
  <2> QED BY <1>1, <1>4, <2>2, <2>3
<1>5. CASE UNCHANGED vars BY <1>3, <1>5 DEF vars, rows
<1>6. CASE Node BY <1>3, <1>6 DEF Node, Outsider, Fork, Act, Exit, rows
<1>7. CASE Sensor
  BY <1>3, <1>7 DEF Sensor, Read, Ingest, IngestFails, NextLine, CloseBindingByPID,
                    CloseBindingByPIDFails, rows
<1>8. ASSUME NEW s \in Scopes, Recorder(s) PROVE SampleInv'
  <2>1. CASE \/ \E k \in Pids : Start(s, k)
             \/ StartFails(s) \/ RecordBinding(s) \/ RecordBindingFails(s) \/ Wait(s)
             \/ CloseBinding(s) \/ CloseBindingFails(s)
    BY <1>3, <2>1 DEF Start, StartFails, RecordBinding, RecordBindingFails, Wait,
                      CloseBinding, CloseBindingFails, rows
  <2>2. CASE Kill(s)
    <3>1. seen' = [seen EXCEPT ![s] = {}] /\ kin' = kin BY <2>2 DEF Kill, rows
    <3> QED BY <1>2, <1>4, <3>1 DEF SampleInv
  <2>3. CASE Sample(s)
    <3>1. clock' = clock + 1 /\ seen' = [seen EXCEPT ![s] = Observed(s, clock')] /\ kin' = kin
      BY <2>3 DEF Sample, rows
    <3>2. clock < clock' BY <1>0, <3>1
    <3>3. \A o \in Observed(s, clock') : Sighting(o, clock')
      BY <1>0, <3>2, ObservedIsSighting
    <3> QED BY <1>2, <1>4, <3>1, <3>3 DEF SampleInv
  <2>4. ASSUME NEW stored, Finish(s, stored) PROVE SampleInv'
    <3>1. /\ clock' = clock + 2 /\ seen' = [seen EXCEPT ![s] = {}] /\ kin' = kin \cup stored
          /\ stored \subseteq {KinRow(s, o) : o \in Observed(s, clock + 1)}
      BY <2>4 DEF Finish
    <3>2. clock + 1 \in Nat /\ clock < clock + 1 BY <1>0
    <3>3. \A o \in Observed(s, clock + 1) : Sighting(o, clock + 1)
      BY <3>2, ObservedIsSighting
    <3>4. ASSUME NEW o, Sighting(o, clock + 1) PROVE KinOf(KinRow(s, o), clock')
      BY <1>0, <3>1, <3>4 DEF KinOf, KinRow, Sighting, Interval
    <3>5. \A row \in stored : KinOf(row, clock') BY <3>1, <3>3, <3>4
    <3> QED BY <1>2, <1>4, <3>1, <3>5 DEF SampleInv
  <2> QED BY <1>8, <2>1, <2>2, <2>3, <2>4 DEF Recorder
<1> QED BY <1>5, <1>6, <1>7, <1>8 DEF Next

-----------------------------------------------------------------------------
(* Whoever ends rows ends open ones. *)
LEMMA HistoryStep ==
  ASSUME StateInv, AttributionAssumption, [Next]_vars
  PROVE  HistoryInv'
<1> DEFINE Ended(s) == exitAt[s] # 0 => window[s].bound /\ window[s].to = exitAt[s]
<1>0. /\ exitAt \in [Scopes -> Nat] /\ stale \subseteq Scopes /\ missed \subseteq Scopes
      /\ \A s \in Scopes : Ended(s)
  BY DEF StateInv, HistoryInv
<1>1. \A p : RootOf(p) \subseteq Scopes BY DEF RootOf
<1>2. ASSUME missed' = missed \/ (\E p : missed' = missed \cup RootOf(p)),
             UNCHANGED <<window, exitAt, stale>>
      PROVE  HistoryInv'
  BY <1>0, <1>1, <1>2 DEF HistoryInv
<1>3. ASSUME UNCHANGED history,
             \A s \in Scopes : exitAt[s] # 0 =>
               window'[s].bound = window[s].bound /\ window'[s].to = window[s].to
      PROVE  HistoryInv'
  BY <1>0, <1>3 DEF HistoryInv, history
<1> HIDE DEF Ended
<1>4. CASE UNCHANGED vars BY <1>2, <1>4 DEF vars, rows, history
<1>5. CASE Node BY <1>2, <1>5 DEF Node, Outsider, Fork, Act, Exit, rows, history
<1>6. CASE Sensor
  <2>1. CASE Read \/ Ingest \/ IngestFails \/ NextLine \/ CloseBindingByPIDFails
    BY <1>2, <2>1 DEF Read, Ingest, IngestFails, NextLine, CloseBindingByPIDFails, rows, history
  <2>2. CASE CloseBindingByPID
    <3> DEFINE own == RootOf(line.proc)
               hit == {s \in Scopes : Open(s) /\ Pid(recorder[s].root) = Pid(line.proc)}
    <3>1. /\ End(hit, line.at)
          /\ exitAt' = [s \in Scopes |-> IF s \in hit \cap own THEN line.at ELSE exitAt[s]]
          /\ stale' = stale \cup (hit \ own)
          /\ missed' = missed \cup {s \in own : ~window[s].bound}
      BY <2>2 DEF CloseBindingByPID
    <3>2. /\ line.at \in Nat /\ hit \in SUBSET Scopes
          /\ \A s \in hit : window[s].bound /\ window[s].to = 0
      BY DEF StateInv, SensorInv, LineRow, Open
    <3>3. own \subseteq Scopes BY <1>1
    <3> HIDE DEF own, hit
    <3>4. \A s \in Scopes : /\ window'[s].bound = window[s].bound
                            /\ s \in hit => window'[s].to = line.at
                            /\ s \notin hit => window'[s] = window[s]
      BY <3>1, <3>2, EndKeepsRows DEF StateInv
    <3>5. exitAt' \in [Scopes -> Nat] BY <1>0, <3>1, <3>2
    <3>6. ASSUME NEW s \in Scopes, exitAt'[s] # 0
          PROVE  window'[s].bound /\ window'[s].to = exitAt'[s]
      <4>1. CASE s \in hit
        <5>1. exitAt[s] = 0 \/ exitAt[s] = window[s].to BY <1>0 DEF Ended
        <5>2. s \in own BY <1>0, <3>1, <3>2, <3>6, <4>1, <5>1
        <5> QED BY <3>1, <3>2, <3>4, <4>1, <5>2
      <4>2. CASE s \notin hit
        <5>1. exitAt'[s] = exitAt[s] /\ window'[s] = window[s] BY <3>1, <3>4, <4>2
        <5> QED BY <1>0, <3>6, <5>1 DEF Ended
      <4> QED BY <4>1, <4>2
    <3> QED BY <1>0, <3>1, <3>2, <3>3, <3>5, <3>6 DEF HistoryInv
  <2> QED BY <1>6, <2>1, <2>2 DEF Sensor
<1>7. ASSUME NEW s \in Scopes, Recorder(s) PROVE HistoryInv'
  <2>1. CASE \/ \E k \in Pids : Start(s, k)
             \/ RecordBindingFails(s) \/ Sample(s) \/ Wait(s)
             \/ \E stored : Finish(s, stored)
             \/ CloseBindingFails(s) \/ Kill(s)
    BY <1>2, <2>1 DEF Start, RecordBindingFails, Sample, Wait, Finish, CloseBindingFails,
                      Kill, rows, history
  <2>2. CASE StartFails(s)
    <3>1. /\ UNCHANGED history /\ recorder[s].at = "new"
          /\ window' = [window EXCEPT ![s] = [bound |-> TRUE, to |-> clock']]
      BY <2>2 DEF StartFails
    <3>2. ~window[s].bound BY <3>1 DEF StateInv, RecorderInv
    <3>3. exitAt[s] = 0 BY <1>0, <3>2 DEF Ended
    <3>4. \A t \in Scopes : t # s => window'[t] = window[t]
      BY <3>1 DEF StateInv, RecorderInv
    <3> QED BY <1>3, <3>1, <3>3, <3>4
  <2>3. CASE RecordBinding(s)
    <3>1. UNCHANGED history /\ window' = [window EXCEPT ![s].bound = TRUE]
      BY <2>3 DEF RecordBinding
    <3>2. \A t \in Scopes : window[t] \in WindowRow BY DEF StateInv, RecorderInv
    <3>3. \A t \in Scopes : /\ window'[t].to = window[t].to
                            /\ t # s => window'[t].bound = window[t].bound
      BY <3>1, <3>2 DEF StateInv, RecorderInv, WindowRow
    <3>4. window'[s].bound = TRUE BY <3>1, <3>2 DEF StateInv, RecorderInv, WindowRow
    <3> QED BY <1>0, <1>3, <3>1, <3>3, <3>4 DEF Ended
  <2>4. CASE CloseBinding(s)
    <3> DEFINE hit == {s} \cap {t \in Scopes : Open(t)}
    <3>1. UNCHANGED history /\ End(hit, recorder[s].ended)
      BY <2>4 DEF CloseBinding
    <3>2. recorder[s].ended \in Nat BY DEF StateInv, RecorderInv, RecorderRow
    <3>3. hit \in SUBSET Scopes /\ \A t \in hit : window[t].to = 0 BY DEF Open
    <3> HIDE DEF hit
    <3>4. \A t \in Scopes : t \notin hit => window'[t] = window[t]
      BY <3>1, <3>2, <3>3, EndKeepsRows DEF StateInv
    <3>5. \A t \in hit : t \in Scopes => exitAt[t] = 0 BY <1>0, <3>3 DEF Ended
    <3> QED BY <1>3, <3>1, <3>4, <3>5
  <2> QED BY <1>7, <2>1, <2>2, <2>3, <2>4 DEF Recorder
<1> QED BY <1>4, <1>5, <1>6, <1>7 DEF Next

-----------------------------------------------------------------------------
(* A recorder that has started keeps its start. *)
LEMMA StartStays ==
  ASSUME RecorderInv, [Next]_vars, NEW s \in Scopes, recorder[s].at # "new"
  PROVE  recorder'[s].at # "new" /\ recorder'[s].from = recorder[s].from
<1> DEFINE Same == recorder'[s].at # "new" /\ recorder'[s].from = recorder[s].from
<1>1. ASSUME UNCHANGED recorder PROVE Same BY <1>1
<1>2. ASSUME NEW t \in Scopes, NEW row, recorder[t].at = "new",
             recorder' = [recorder EXCEPT ![t] = row]
      PROVE  Same
  BY <1>2 DEF RecorderInv
<1>3. ASSUME NEW t \in Scopes, recorder[t].at # "new",
             NEW place \in {"forked", "watching", "grace", "closing", "done", "killed"},
             Step(t, place)
      PROVE  Same
  BY <1>3, StepKeepsRecorder
<1>4. ASSUME NEW t \in Scopes, NEW stored, Finish(t, stored) PROVE Same
  BY <1>4 DEF Finish, RecorderInv, RecorderRow
<1> HIDE DEF Same
<1>5. CASE UNCHANGED vars BY <1>1, <1>5 DEF vars
<1>6. CASE Node BY <1>1, <1>6 DEF Node, Outsider, Fork, Act, Exit
<1>7. CASE Sensor
  BY <1>1, <1>7 DEF Sensor, Read, Ingest, IngestFails, NextLine, CloseBindingByPID,
                    CloseBindingByPIDFails
<1>8. ASSUME NEW t \in Scopes, Recorder(t) PROVE Same
  <2>1. CASE (\E k \in Pids : Start(t, k)) \/ StartFails(t)
    BY <1>2, <2>1 DEF Start, StartFails
  <2>2. CASE RecordBinding(t) \/ RecordBindingFails(t)
    BY <1>3, <2>2 DEF RecordBinding, RecordBindingFails
  <2>3. CASE Wait(t) BY <1>3, <2>3 DEF Wait
  <2>4. CASE CloseBinding(t) \/ CloseBindingFails(t)
    BY <1>3, <2>4 DEF CloseBinding, CloseBindingFails
  <2>5. CASE Kill(t) BY <1>3, <2>5 DEF Kill
  <2>6. CASE Sample(t) BY <1>1, <2>6 DEF Sample
  <2> QED BY <1>4, <1>8, <2>1, <2>2, <2>3, <2>4, <2>5, <2>6 DEF Recorder
<1> QED BY <1>5, <1>6, <1>7, <1>8 DEF Next, Same

(* The event in hand, ingested or waiting, keeps what it resolved to.      *)
LEMMA LineStep ==
  ASSUME StateInv, LineInv, AttributionAssumption, [Next]_vars
  PROVE  LineInv'
<1>1. ASSUME line' = NoLine PROVE LineInv'
  BY <1>1, AttributionAssumption
     DEF LineInv, Home, ExitBounds, CgroupJoins, NoLine, AttributionAssumption
<1>2. ASSUME line' = line, exitAt' = exitAt PROVE LineInv'
  <2>1. CASE line = NoLine BY <1>1, <1>2, <2>1
  <2>2. CASE line # NoLine
    <3>1. line.proc \in Procs /\ proc[line.proc].life # "unborn"
      BY <2>2 DEF StateInv, SensorInv
    <3>2. proc'[line.proc].home = proc[line.proc].home
      BY <3>1, BornStays DEF StateInv
    <3>3. Home' = Home /\ Home \in Scopes \cup {NoScope}
      BY <1>2, <2>2, <3>1, <3>2 DEF Home, StateInv, NodeInv, Process
    <3>4. Home # NoScope /\ line.own.bound =>
            recorder'[Home].at # "new" /\ recorder'[Home].from = recorder[Home].from
      BY <3>3, StartStays DEF StateInv, LineInv
    <3>5. ExitBounds' BY <1>2 DEF LineInv, ExitBounds
    <3>6. Delegated \subseteq Scopes /\ NoScope \notin Scopes
      BY AttributionAssumption DEF AttributionAssumption
    <3>7. CgroupJoins' BY <1>2, <3>3, <3>4, <3>6 DEF LineInv, CgroupJoins
    <3> QED BY <1>2, <3>3, <3>4, <3>5, <3>7 DEF LineInv
  <2> QED BY <2>1, <2>2
<1>3. CASE UNCHANGED vars BY <1>2, <1>3 DEF vars, sensor, history
<1>4. CASE Node BY <1>2, <1>4 DEF Node, Outsider, Fork, Act, Exit, sensor, history
<1>5. ASSUME NEW s \in Scopes, Recorder(s) PROVE LineInv'
  BY <1>2, <1>5 DEF Recorder, Start, StartFails, RecordBinding, RecordBindingFails, Sample,
                    Wait, Finish, CloseBinding, CloseBindingFails, Kill, sensor, history
<1>6. CASE Read \/ IngestFails BY <1>2, <1>6 DEF Read, IngestFails, history
<1>7. CASE NextLine \/ CloseBindingByPID \/ CloseBindingByPIDFails
  BY <1>1, <1>7 DEF NextLine, CloseBindingByPID, CloseBindingByPIDFails
<1>8. CASE Ingest
  <2> DEFINE report == Head(stream)
             p == report.proc
             row == Resolve(p, report.at)
             home == proc[p].home
  <2>1. /\ stream # <<>> /\ line' = Resolved(report, row)
        /\ UNCHANGED <<proc, recorder, exitAt>>
    BY <1>8 DEF Ingest, node, history
  <2>2. report \in Stamped BY <2>1 DEF StateInv, SensorInv
  <2>3. p \in Procs /\ report.at \in Nat BY <2>2 DEF Stamped
  <2>4. home \in Scopes \cup {NoScope} BY <2>3 DEF StateInv, NodeInv, Process
  <2>5. /\ row = NoRow \/ (row \in Rows /\ Covers(row, report.at))
        /\ ByCgroup(p, report.at) # {} => row \in ByCgroup(p, report.at)
    <3> HIDE DEF report, p
    <3> QED BY <2>3, ResolveIsRow
  <2>6. /\ line'.proc = p /\ line'.at = report.at /\ line'.scope = row.scope
        /\ line'.via = row.kind
        /\ line'.own = IF home = NoScope THEN NoLine.own ELSE window[home]
    BY <2>1 DEF Resolved
  <2>7. line'.proc # NoProc
    BY <2>3, <2>6, AttributionAssumption DEF AttributionAssumption
  <2>8. Home' = home BY <2>1, <2>6, <2>7 DEF Home, NoLine
  <2> HIDE DEF report, p, row, home
  <2>9. home # NoScope /\ line'.own.bound => window[home].bound /\ recorder[home].at # "new"
    BY <2>4, <2>6 DEF StateInv, RecorderInv
  <2>10. ExitBounds'
    <3>1. ASSUME row.kind = "root", exitAt[row.scope] # 0 PROVE report.at <= exitAt[row.scope]
      <4>1. row \in Rows /\ Covers(row, report.at) BY <2>5, <3>1 DEF NoRow
      <4>2. row.scope \in Scopes /\ row = RootRow(row.scope) BY <3>1, <4>1, RowsTyped
      <4>3. row.to = window[row.scope].to BY <4>2 DEF RootRow
      <4>4. window[row.scope].to = exitAt[row.scope] BY <3>1, <4>2 DEF StateInv, HistoryInv
      <4> QED BY <3>1, <4>1, <4>3, <4>4 DEF Covers
    <3> QED BY <2>1, <2>6, <3>1 DEF ExitBounds
  <2>11. CgroupJoins'
    <3>1. ASSUME home \in Delegated, window[home].bound, recorder[home].from <= report.at,
                 window[home].to = 0 \/ report.at <= window[home].to
          PROVE  row.scope = home
      <4>1. home \in Scopes BY <3>1, AttributionAssumption DEF AttributionAssumption
      <4>2. window[home].to \in Nat BY <4>1 DEF StateInv, RecorderInv, WindowRow
      <4>3. /\ RootRow(home) \in Rows /\ RootRow(home).scope = home
            /\ RootRow(home).from = recorder[home].from /\ RootRow(home).to = window[home].to
        BY <3>1, <4>1 DEF Rows, RootRow
      <4>4. Covers(RootRow(home), report.at) BY <2>3, <3>1, <4>2, <4>3 DEF Covers
      <4>5. RootRow(home) \in ByCgroup(p, report.at)
        BY <3>1, <4>3, <4>4 DEF ByCgroup, home
      <4> QED BY <2>5, <4>5 DEF ByCgroup, home
    <3>2. home \in Delegated => home # NoScope
      BY AttributionAssumption DEF AttributionAssumption
    <3> QED BY <2>1, <2>6, <2>8, <3>1, <3>2 DEF CgroupJoins
  <2> QED BY <2>1, <2>8, <2>9, <2>10, <2>11 DEF LineInv
<1> QED BY <1>3, <1>4, <1>5, <1>6, <1>7, <1>8 DEF Next, Sensor

-----------------------------------------------------------------------------
LEMMA InitHolds == AttributionAssumption /\ Init => StateInv /\ LineInv
<1> SUFFICES ASSUME AttributionAssumption, Init PROVE StateInv /\ LineInv
  OBVIOUS
<1> USE DEF Init
<1>1. NodeInv
  <2>1. Nothing \in Process BY DEF Nothing, Process
  <2>2. proc \in [Procs -> Process] BY <2>1
  <2>3. \A p \in Procs : proc[p].life = "unborn" BY DEF Nothing
  <2> QED BY <2>2, <2>3 DEF NodeInv, Running
<1>2. RecorderInv BY DEF RecorderInv, RecorderRow, WindowRow
<1>3. SensorInv BY NoLineIsLine DEF SensorInv
<1>4. SampleInv BY DEF SampleInv
<1>5. HistoryInv BY DEF HistoryInv
<1>6. LineInv
  BY DEF LineInv, Home, ExitBounds, CgroupJoins, NoLine, AttributionAssumption
<1> QED BY <1>1, <1>2, <1>3, <1>4, <1>5, <1>6 DEF StateInv

(* What every step keeps: the types and times of the state, and what the   *)
(* event in hand resolved to.                                              *)
THEOREM Inductive == Spec => [](StateInv /\ LineInv)
<1>1. ASSUME StateInv, LineInv, [Next]_vars PROVE (StateInv /\ LineInv)'
  <2>1. clock' \in Nat BY <1>1, ClockGrows DEF StateInv
  <2>2. NodeInv' BY <1>1, AttributionAssumption, NodeStep DEF StateInv
  <2>3. RecorderInv' /\ SensorInv' /\ SampleInv' /\ HistoryInv'
    BY <1>1, AttributionAssumption, RecorderStep, SensorStep, SampleStep, HistoryStep
  <2>4. LineInv' BY <1>1, AttributionAssumption, LineStep
  <2> QED BY <2>1, <2>2, <2>3, <2>4 DEF StateInv
<1> QED BY <1>1, AttributionAssumption, InitHolds, PTL DEF Spec

(* Times lie in the past, pids name one running process, a zombie has a    *)
(* recorder and every observed interval is one.                            *)
THEOREM TypeCorrect == Spec => []TypeOK
<1>1. StateInv => TypeOK
  <2> SUFFICES ASSUME StateInv PROVE TypeOK
    OBVIOUS
  <2> USE DEF StateInv
  <2>1. ASSUME NEW p \in Procs
        PROVE  /\ proc[p].life \in {"unborn", "alive", "zombie", "gone"}
               /\ proc[p].pid \in Pids \cup {NoPid} /\ proc[p].parent \in Procs \cup {NoProc}
               /\ proc[p].home \in Scopes \cup {NoScope}
    BY DEF NodeInv, Process
  <2>2. ASSUME NEW i \in DOMAIN stream PROVE stream[i].at \in Times
    <3>1. stream[i] \in Stamped BY DEF SensorInv
    <3> QED BY <3>1 DEF SensorInv, Stamped, Times
  <2>3. ASSUME NEW s \in Scopes
        PROVE  /\ recorder[s].at \in {"new", "forked", "watching", "grace",
                                      "closing", "done", "killed"}
               /\ recorder[s].root \in Procs \cup {NoProc}
    BY DEF RecorderInv, RecorderRow
  <2>4. ASSUME NEW s \in Scopes PROVE window[s] \in [bound : BOOLEAN, to : Times]
    <3>1. window[s] \in WindowRow /\ window[s].to <= clock BY DEF RecorderInv
    <3> QED BY <3>1 DEF WindowRow, Times
  <2>5. ASSUME NEW row \in kin
        PROVE  row.from \in Times \ {0} /\ row.to \in row.from..clock
    BY DEF SampleInv, KinOf, Interval, Times
  <2>6. stale \cup missed \subseteq Scopes BY DEF HistoryInv
  <2> QED BY <2>1, <2>2, <2>3, <2>4, <2>5, <2>6 DEF TypeOK, NodeInv
<1> QED BY <1>1, Inductive, PTL

(* However late a recorder ends its scope, and whoever has the pid by then: *)
(* no event stamped after the root's exit, once that has ended the row, is  *)
(* attributed through it (binding.go, CloseBindingByPID and                 *)
(* resolveByPIDTree).                                                       *)
THEOREM BoundedByExit == Spec => []ExitBounds
<1>1. LineInv => ExitBounds BY DEF LineInv
<1> QED BY <1>1, Inductive, PTL

(* An event from the cgroup of a recording, stamped while its row stands,   *)
(* is attributed to it, whatever the pid tiers say (binding.go, Resolve).   *)
THEOREM CgroupsJoin == Spec => []CgroupJoins
<1>1. LineInv => CgroupJoins BY DEF LineInv
<1> QED BY <1>1, Inductive, PTL

-----------------------------------------------------------------------------
(* What the two remaining invariants rest on: the order in which a process *)
(* lives, is reported and is recorded.                                     *)
Root(s) == recorder[s].root
Gone(p) == proc[p].life = "gone"

RootInv ==
  /\ \A p \in Procs : proc[p].life # "unborn" => proc[p].pid \in Pids
  /\ \A s \in Scopes :
       /\ recorder[s].from <= clock
       /\ window[s].to # 0 => window[s].bound
       /\ recorder[s].at = "new" => Root(s) = NoProc /\ seen[s] = {}
       /\ recorder[s].at \notin {"new", "done"} => Root(s) # NoProc
       /\ recorder[s].at \in {"new", "forked", "watching", "grace"} => recorder[s].ended = 0
       /\ recorder[s].at \in {"closing", "done"} => recorder[s].ended # 0
       /\ recorder[s].at \in {"grace", "closing", "done"} \/ recorder[s].ended # 0 =>
            Root(s) = NoProc \/ Gone(Root(s))
       /\ Root(s) # NoProc => /\ proc[Root(s)].life # "unborn" /\ proc[Root(s)].home = s
                              /\ proc[Root(s)].parent = NoProc

(* A life goes one way, and an orphan finds no new parent.                 *)
LEMMA LifeStays ==
  ASSUME NodeInv, RecorderInv, [Next]_vars, NEW p \in Procs, proc[p].life # "unborn"
  PROVE  /\ proc[p].life = "gone" => proc'[p].life = "gone"
         /\ proc[p].life # "alive" => proc'[p].life # "alive"
         /\ proc[p].parent = NoProc => proc'[p].parent = NoProc
         /\ proc[p].life = "alive" => proc'[p].life = "alive" \/ Exit(p)
<1> DEFINE Same == /\ proc[p].life = "gone" => proc'[p].life = "gone"
                   /\ proc[p].life # "alive" => proc'[p].life # "alive"
                   /\ proc[p].parent = NoProc => proc'[p].parent = NoProc
                   /\ proc[p].life = "alive" => proc'[p].life = "alive" \/ Exit(p)
<1>1. ASSUME UNCHANGED proc PROVE Same BY <1>1
<1>2. ASSUME NEW row, Unborn # {}, proc' = [proc EXCEPT ![NextBorn] = row] PROVE Same
  BY <1>2, Fresh DEF NodeInv
<1>3. ASSUME NEW q \in Procs, Exit(q) PROVE Same
  <2>1. /\ \A r \in Procs : r # q => proc'[r].life = proc[r].life
        /\ proc'[q].life = IF Watched(q) THEN "zombie" ELSE "gone"
        /\ proc[q].life = "alive"
    BY <1>3, DeathKeepsNode DEF Exit
  <2>2. proc[p].parent = NoProc => proc'[p].parent = NoProc
    <3>1. /\ proc[p] \in Process
          /\ \/ proc'[p] = proc[p]
             \/ proc'[p] = [proc[p] EXCEPT !.parent = NoProc]
             \/ \E life \in {"zombie", "gone"} :
                  proc'[p] = [proc[p] EXCEPT !.life = life, !.parent = NoProc]
      BY <1>3 DEF Exit, Dies, NodeInv
    <3> QED BY <3>1 DEF Process
  <2> QED BY <1>3, <2>1, <2>2
<1>4. ASSUME NEW s \in Scopes, Wait(s) \/ Kill(s) PROVE Same
  <2>1. \/ proc'[p] = proc[p]
        \/ proc[p].life = "zombie" /\ proc'[p] = [proc[p] EXCEPT !.life = "gone"]
    BY <1>4 DEF Wait, Kill, NodeInv
  <2>2. proc[p] \in Process BY DEF NodeInv
  <2> QED BY <2>1, <2>2 DEF Process
<1> HIDE DEF Same
<1>5. CASE UNCHANGED vars BY <1>1, <1>5 DEF vars, node
<1>6. CASE Node
  <2>1. ASSUME NEW k \in Pids, Outsider(k) PROVE Same BY <1>2, <2>1 DEF Outsider
  <2>2. ASSUME NEW q \in Procs, NEW k \in Pids, Fork(q, k) PROVE Same BY <1>2, <2>2 DEF Fork
  <2>3. ASSUME NEW q \in Procs, Act(q) PROVE Same BY <1>1, <2>3 DEF Act
  <2> QED BY <1>3, <1>6, <2>1, <2>2, <2>3 DEF Node, Same
<1>7. CASE Sensor
  BY <1>1, <1>7 DEF Sensor, Read, Ingest, IngestFails, NextLine, CloseBindingByPID,
                    CloseBindingByPIDFails, node
<1>8. ASSUME NEW s \in Scopes, Recorder(s) PROVE Same
  <2>1. ASSUME NEW k \in Pids, Start(s, k) PROVE Same BY <1>2, <2>1 DEF Start
  <2>2. CASE RecordBinding(s) \/ RecordBindingFails(s) \/ CloseBinding(s)
               \/ CloseBindingFails(s) \/ StartFails(s) \/ Sample(s)
               \/ \E stored : Finish(s, stored)
    BY <1>1, <2>2 DEF RecordBinding, RecordBindingFails, CloseBinding, CloseBindingFails,
                      StartFails, Sample, Finish, node
  <2> QED BY <1>4, <1>8, <2>1, <2>2 DEF Recorder
<1> QED BY <1>5, <1>6, <1>7, <1>8 DEF Next, Same

(* Who is born gets a pid that nobody has. *)
LEMMA Births ==
  ASSUME NodeInv, RecorderInv, [Next]_vars, NEW p \in Procs, proc[p].life = "unborn",
         proc'[p].life # "unborn"
  PROVE  proc'[p].pid \in Pids /\ ~Held(proc'[p].pid)
<1> DEFINE Good == proc'[p].pid \in Pids /\ ~Held(proc'[p].pid)
<1>1. ASSUME proc'[p].life = proc[p].life PROVE Good BY <1>1
<1>2. ASSUME NEW k \in Pids, ~Held(k), Unborn # {}, NEW q, NEW home,
             proc' = [proc EXCEPT ![NextBorn] = Born(NextBorn, k, q, home)]
      PROVE  Good
  <2>1. proc'[p] = proc[p] \/ proc'[p] = Born(NextBorn, k, q, home)
    BY <1>2, Fresh DEF NodeInv
  <2> QED BY <1>2, <2>1 DEF Born
<1>3. ASSUME NEW q \in Procs, Exit(q) PROVE Good
  <2>1. /\ \A r \in Procs : r # q => proc'[r].life = proc[r].life
        /\ proc[q].life = "alive"
    BY <1>3, DeathKeepsNode DEF Exit
  <2> QED BY <1>1, <2>1
<1>4. ASSUME NEW s \in Scopes, Wait(s) \/ Kill(s) PROVE Good
  <2>1. proc'[p] = proc[p] \/ proc[p].life = "zombie"
    <3>1. CASE Wait(s) BY <3>1 DEF Wait, NodeInv
    <3>2. CASE Kill(s) BY <3>2 DEF Kill, NodeInv
    <3> QED BY <1>4, <3>1, <3>2
  <2> QED BY <1>1, <2>1
<1> HIDE DEF Good
<1>5. CASE UNCHANGED vars BY <1>1, <1>5 DEF vars, node
<1>6. CASE Node
  <2>1. ASSUME NEW k \in Pids, Outsider(k) PROVE Good BY <1>2, <2>1 DEF Outsider
  <2>2. ASSUME NEW q \in Procs, NEW k \in Pids, Fork(q, k) PROVE Good BY <1>2, <2>2 DEF Fork
  <2>3. ASSUME NEW q \in Procs, Act(q) PROVE Good BY <1>1, <2>3 DEF Act
  <2> QED BY <1>3, <1>6, <2>1, <2>2, <2>3 DEF Node, Good
<1>7. CASE Sensor
  BY <1>1, <1>7 DEF Sensor, Read, Ingest, IngestFails, NextLine, CloseBindingByPID,
                    CloseBindingByPIDFails, node
<1>8. ASSUME NEW s \in Scopes, Recorder(s) PROVE Good
  <2>1. ASSUME NEW k \in Pids, Start(s, k) PROVE Good BY <1>2, <2>1 DEF Start
  <2>2. CASE RecordBinding(s) \/ RecordBindingFails(s) \/ CloseBinding(s)
               \/ CloseBindingFails(s) \/ StartFails(s) \/ Sample(s)
               \/ \E stored : Finish(s, stored)
    BY <1>1, <2>2 DEF RecordBinding, RecordBindingFails, CloseBinding, CloseBindingFails,
                      StartFails, Sample, Finish, node
  <2> QED BY <1>4, <1>8, <2>1, <2>2 DEF Recorder
<1> QED BY <1>5, <1>6, <1>7, <1>8 DEF Next, Good

(* What a step does to one recorder. *)
Kept(t) ==
  /\ recorder'[t].root = recorder[t].root /\ recorder'[t].from = recorder[t].from
  /\ recorder'[t].ended = recorder[t].ended
Started(t) ==
  /\ recorder[t].at = "new" /\ recorder'[t].at = "forked"
  /\ recorder'[t].root = NextBorn /\ recorder'[t].from = clock'
  /\ recorder'[t].ended = recorder[t].ended
  /\ clock' = clock + 1 /\ Unborn # {}
  /\ \E k \in Pids : ~Held(k) /\ proc' = [proc EXCEPT ![NextBorn] = Born(NextBorn, k, NoProc, t)]
NotStarted(t) ==
  /\ recorder[t].at = "new" /\ recorder'[t].at = "done"
  /\ recorder'[t].root = recorder[t].root /\ recorder'[t].from = clock + 1
  /\ recorder'[t].ended = clock' /\ clock' = clock + 2
Moved(t) ==
  /\ Kept(t)
  /\ \/ recorder[t].at = "forked" /\ recorder'[t].at = "watching"
     \/ /\ recorder[t].at = "watching" /\ recorder'[t].at = "grace"
        /\ proc' = [proc EXCEPT ![Root(t)].life = "gone"]
     \/ recorder[t].at = "closing" /\ recorder'[t].at = "done"
     \/ recorder[t].at \in {"forked", "watching", "grace", "closing"}
          /\ recorder'[t].at = "killed"
Finished(t) ==
  /\ recorder[t].at = "grace" /\ recorder'[t].at = "closing"
  /\ recorder'[t].root = recorder[t].root /\ recorder'[t].from = recorder[t].from
  /\ recorder'[t].ended = clock' /\ clock' = clock + 2
  /\ \E stored : Finish(t, stored)

LEMMA RecorderMoves ==
  ASSUME RecorderInv, [Next]_vars, NEW t \in Scopes
  PROVE  \/ recorder'[t] = recorder[t]
         \/ Started(t) \/ NotStarted(t) \/ Moved(t) \/ Finished(t)
<1> DEFINE Goal == \/ recorder'[t] = recorder[t]
                   \/ Started(t) \/ NotStarted(t) \/ Moved(t) \/ Finished(t)
<1>1. ASSUME UNCHANGED recorder PROVE Goal BY <1>1
<1>2. ASSUME NEW s \in Scopes, Recorder(s) PROVE Goal
  <2>0. recorder[t] \in RecorderRow BY DEF RecorderInv
  <2>1. CASE s # t
    <3>1. ASSUME NEW row, recorder' = [recorder EXCEPT ![s] = row]
          PROVE  recorder'[t] = recorder[t]
      BY <2>1, <3>1 DEF RecorderInv
    <3>2. ASSUME NEW place, Step(s, place) PROVE recorder'[t] = recorder[t]
      BY <2>1, <3>2 DEF Step, RecorderInv
    <3>3. CASE \E k \in Pids : Start(s, k)
      BY <2>1, <3>3 DEF Start, RecorderInv
    <3>4. CASE StartFails(s) BY <2>1, <3>4 DEF StartFails, RecorderInv
    <3>5. CASE \E stored : Finish(s, stored) BY <2>1, <3>5 DEF Finish, RecorderInv
    <3>6. CASE RecordBinding(s) \/ RecordBindingFails(s) \/ Wait(s) \/ CloseBinding(s)
                 \/ CloseBindingFails(s) \/ Kill(s)
      BY <3>2, <3>6 DEF RecordBinding, RecordBindingFails, Wait, CloseBinding,
                        CloseBindingFails, Kill
    <3>7. CASE Sample(s) BY <3>7 DEF Sample
    <3> QED BY <1>2, <3>3, <3>4, <3>5, <3>6, <3>7 DEF Recorder
  <2>2. CASE s = t
    <3>1. ASSUME NEW k \in Pids, Start(t, k) PROVE Started(t)
      BY <2>0, <3>1 DEF Start, Started, RecorderInv, RecorderRow
    <3>2. CASE StartFails(t) BY <2>0, <3>2 DEF StartFails, NotStarted, RecorderInv, RecorderRow
    <3>3. ASSUME NEW stored, Finish(t, stored) PROVE Finished(t)
      <4>1. /\ recorder[t].at = "grace" /\ clock' = clock + 2
            /\ recorder'[t] = [recorder[t] EXCEPT !.at = "closing", !.ended = clock']
        BY <3>3 DEF Finish, RecorderInv
      <4> QED BY <2>0, <3>3, <4>1 DEF Finished, RecorderRow
    <3>4. ASSUME NEW place, Step(t, place) PROVE Kept(t) /\ recorder'[t].at = place
      <4>1. recorder'[t] = [recorder[t] EXCEPT !.at = place]
        BY <3>4 DEF Step, RecorderInv
      <4> QED BY <2>0, <4>1 DEF Kept, RecorderRow
    <3>5. CASE RecordBinding(t) \/ RecordBindingFails(t)
      BY <3>4, <3>5 DEF RecordBinding, RecordBindingFails, Moved
    <3>6. CASE Wait(t) BY <3>4, <3>6 DEF Wait, Moved, Root
    <3>7. CASE CloseBinding(t) \/ CloseBindingFails(t)
      BY <3>4, <3>7 DEF CloseBinding, CloseBindingFails, Moved
    <3>8. CASE Kill(t) BY <3>4, <3>8 DEF Kill, Moved
    <3>9. CASE Sample(t) BY <3>9 DEF Sample
    <3> QED BY <1>2, <2>2, <3>1, <3>2, <3>3, <3>5, <3>6, <3>7, <3>8, <3>9 DEF Recorder
  <2> QED BY <2>1, <2>2
<1> HIDE DEF Goal
<1>3. CASE UNCHANGED vars BY <1>1, <1>3 DEF vars
<1>4. CASE Node BY <1>1, <1>4 DEF Node, Outsider, Fork, Act, Exit
<1>5. CASE Sensor
  BY <1>1, <1>5 DEF Sensor, Read, Ingest, IngestFails, NextLine, CloseBindingByPID,
                    CloseBindingByPIDFails
<1> QED BY <1>2, <1>3, <1>4, <1>5 DEF Next, Goal

(* What a step does to one row. *)
Inserted(t) == window'[t].to = window[t].to /\ window'[t].bound
EndedByExit(t) ==
  /\ CloseBindingByPID /\ window[t].bound /\ window[t].to = 0
  /\ window'[t].bound /\ window'[t].to = line.at
  /\ t \in stale' \/ (t \in RootOf(line.proc) /\ exitAt'[t] = line.at)
EndedByRecorder(t) ==
  /\ window'[t].bound /\ window'[t].to = recorder'[t].ended
  /\ recorder'[t].at = "done"
  /\ recorder[t].at = "new" \/ (window[t].bound /\ window[t].to = 0)

LEMMA WindowMoves ==
  ASSUME StateInv, [Next]_vars, NEW t \in Scopes
  PROVE  window'[t] = window[t] \/ Inserted(t) \/ EndedByExit(t) \/ EndedByRecorder(t)
<1> DEFINE Goal == window'[t] = window[t] \/ Inserted(t) \/ EndedByExit(t) \/ EndedByRecorder(t)
<1>1. ASSUME UNCHANGED window PROVE Goal BY <1>1
<1>2. window[t] \in WindowRow /\ recorder[t] \in RecorderRow BY DEF StateInv, RecorderInv
<1>3. CASE CloseBindingByPID
  <2> DEFINE own == RootOf(line.proc)
             hit == {s \in Scopes : Open(s) /\ Pid(recorder[s].root) = Pid(line.proc)}
  <2>1. /\ End(hit, line.at)
        /\ exitAt' = [s \in Scopes |-> IF s \in hit \cap own THEN line.at ELSE exitAt[s]]
        /\ stale' = stale \cup (hit \ own)
    BY <1>3 DEF CloseBindingByPID
  <2>2. hit \in SUBSET Scopes /\ line.at \in Nat BY DEF StateInv, SensorInv, LineRow
  <2>3. t \in hit => window[t].bound /\ window[t].to = 0 BY DEF Open
  <2> HIDE DEF own, hit
  <2>4. /\ window'[t].bound = window[t].bound
        /\ t \in hit => window'[t].to = line.at
        /\ t \notin hit => window'[t] = window[t]
    BY <2>1, <2>2, EndKeepsRows DEF StateInv
  <2> QED BY <1>3, <2>1, <2>3, <2>4 DEF EndedByExit, own
<1>4. ASSUME NEW s \in Scopes, Recorder(s) PROVE Goal
  <2>1. CASE (\E k \in Pids : Start(s, k)) \/ RecordBindingFails(s) \/ Wait(s)
               \/ CloseBindingFails(s) \/ Kill(s) \/ Sample(s) \/ \E stored : Finish(s, stored)
    BY <1>1, <2>1 DEF Start, RecordBindingFails, Wait, CloseBindingFails, Kill, Sample,
                      Finish, rows
  <2>2. CASE StartFails(s)
    <3>1. /\ recorder[s].at = "new"
          /\ window' = [window EXCEPT ![s] = [bound |-> TRUE, to |-> clock']]
          /\ recorder' = [recorder EXCEPT ![s].at = "done", ![s].from = clock + 1,
                                          ![s].ended = clock']
      BY <2>2 DEF StartFails
    <3>2. CASE t # s BY <3>1, <3>2 DEF StateInv, RecorderInv
    <3>3. CASE t = s
      <4>1. window'[t] = [bound |-> TRUE, to |-> clock']
        BY <3>1, <3>3 DEF StateInv, RecorderInv
      <4>2. recorder'[t].ended = clock' /\ recorder'[t].at = "done"
        BY <1>2, <3>1, <3>3 DEF StateInv, RecorderInv, RecorderRow
      <4> QED BY <3>1, <3>3, <4>1, <4>2 DEF EndedByRecorder
    <3> QED BY <3>2, <3>3
  <2>3. CASE RecordBinding(s)
    <3>1. window' = [window EXCEPT ![s].bound = TRUE] BY <2>3 DEF RecordBinding
    <3> QED BY <1>2, <3>1 DEF StateInv, RecorderInv, WindowRow, Inserted
  <2>4. CASE CloseBinding(s)
    <3> DEFINE hit == {s} \cap {r \in Scopes : Open(r)}
    <3>1. /\ End(hit, recorder[s].ended) /\ Step(s, "done")
          /\ hit \in SUBSET Scopes
      BY <2>4 DEF CloseBinding
    <3>2. recorder[s].ended \in Nat /\ recorder[s] \in RecorderRow
      BY DEF StateInv, RecorderInv, RecorderRow
    <3>3. t \in hit => window[t].bound /\ window[t].to = 0 /\ t = s BY DEF Open
    <3> HIDE DEF hit
    <3>4. /\ window'[t].bound = window[t].bound
          /\ t \in hit => window'[t].to = recorder[s].ended
          /\ t \notin hit => window'[t] = window[t]
      BY <3>1, <3>2, EndKeepsRows DEF StateInv
    <3>5. recorder'[s].at = "done" /\ recorder'[s].ended = recorder[s].ended
      <4>1. recorder'[s] = [recorder[s] EXCEPT !.at = "done"]
        BY <3>1 DEF Step, StateInv, RecorderInv
      <4> QED BY <3>2, <4>1 DEF RecorderRow
    <3> QED BY <3>3, <3>4, <3>5 DEF EndedByRecorder
  <2> QED BY <1>4, <2>1, <2>2, <2>3, <2>4 DEF Recorder
<1> HIDE DEF Goal
<1>5. CASE UNCHANGED vars BY <1>1, <1>5 DEF vars, rows
<1>6. CASE Node BY <1>1, <1>6 DEF Node, Outsider, Fork, Act, Exit, rows
<1>7. CASE Sensor
  BY <1>1, <1>3, <1>7 DEF Sensor, Read, Ingest, IngestFails, NextLine,
                          CloseBindingByPIDFails, rows
<1> QED BY <1>4, <1>5, <1>6, <1>7 DEF Next, Goal

(* What is recorded of the past is not taken back. *)
LEMMA HistoryMoves ==
  ASSUME StateInv, [Next]_vars, NEW t \in Scopes
  PROVE  /\ exitAt[t] # 0 => exitAt'[t] # 0
         /\ exitAt'[t] = exitAt[t] \/ (t \in RootOf(line.proc) /\ CloseBindingByPID)
         /\ stale \subseteq stale' /\ missed \subseteq missed'
<1> DEFINE Goal == /\ exitAt[t] # 0 => exitAt'[t] # 0
                   /\ exitAt'[t] = exitAt[t] \/ (t \in RootOf(line.proc) /\ CloseBindingByPID)
                   /\ stale \subseteq stale' /\ missed \subseteq missed'
<1>1. ASSUME UNCHANGED <<exitAt, stale>>, missed \subseteq missed' PROVE Goal BY <1>1
<1>2. CASE CloseBindingByPID
  <2> DEFINE own == RootOf(line.proc)
             hit == {s \in Scopes : Open(s) /\ Pid(recorder[s].root) = Pid(line.proc)}
  <2>1. /\ exitAt' = [s \in Scopes |-> IF s \in hit \cap own THEN line.at ELSE exitAt[s]]
        /\ stale' = stale \cup (hit \ own)
        /\ missed' = missed \cup {s \in own : ~window[s].bound}
    BY <1>2 DEF CloseBindingByPID
  <2>2. t \in hit => exitAt[t] = 0 BY DEF Open, StateInv, HistoryInv
  <2> HIDE DEF hit
  <2> QED BY <1>2, <2>1, <2>2
<1> HIDE DEF Goal
<1>3. CASE UNCHANGED vars BY <1>1, <1>3 DEF vars, history
<1>4. CASE Node BY <1>1, <1>4 DEF Node, Outsider, Fork, Act, Exit, history
<1>5. CASE Sensor
  BY <1>1, <1>2, <1>5 DEF Sensor, Read, Ingest, IngestFails, NextLine,
                          CloseBindingByPIDFails, history
<1>6. ASSUME NEW s \in Scopes, Recorder(s) PROVE Goal
  BY <1>1, <1>6 DEF Recorder, Start, StartFails, RecordBinding, RecordBindingFails, Sample,
                    Wait, Finish, CloseBinding, CloseBindingFails, Kill, history
<1> QED BY <1>3, <1>4, <1>5, <1>6 DEF Next, Goal

(* What a step does to what has been seen of descendants. *)
LEMMA SeenMoves ==
  ASSUME SampleInv, [Next]_vars, NEW t \in Scopes
  PROVE  seen'[t] \subseteq seen[t] \/ (Sample(t) /\ seen'[t] = Observed(t, clock'))
<1> DEFINE Goal == seen'[t] \subseteq seen[t] \/ (Sample(t) /\ seen'[t] = Observed(t, clock'))
<1>1. ASSUME UNCHANGED seen PROVE Goal BY <1>1
<1>2. ASSUME NEW s \in Scopes, seen' = [seen EXCEPT ![s] = {}] PROVE Goal
  BY <1>2 DEF SampleInv
<1>3. ASSUME NEW s \in Scopes, Sample(s) PROVE Goal
  BY <1>3 DEF Sample, SampleInv
<1> HIDE DEF Goal
<1>4. CASE UNCHANGED vars BY <1>1, <1>4 DEF vars
<1>5. CASE Node BY <1>1, <1>5 DEF Node, Outsider, Fork, Act, Exit
<1>6. CASE Sensor
  BY <1>1, <1>6 DEF Sensor, Read, Ingest, IngestFails, NextLine, CloseBindingByPID,
                    CloseBindingByPIDFails
<1>7. ASSUME NEW s \in Scopes, Recorder(s) PROVE Goal
  <2>1. CASE (\E k \in Pids : Start(s, k)) \/ StartFails(s) \/ RecordBinding(s)
               \/ RecordBindingFails(s) \/ Wait(s) \/ CloseBinding(s) \/ CloseBindingFails(s)
    BY <1>1, <2>1 DEF Start, StartFails, RecordBinding, RecordBindingFails, Wait,
                      CloseBinding, CloseBindingFails
  <2>2. CASE Kill(s) \/ \E stored : Finish(s, stored)
    BY <1>2, <2>2 DEF Kill, Finish
  <2> QED BY <1>3, <1>7, <2>1, <2>2 DEF Recorder
<1> QED BY <1>4, <1>5, <1>6, <1>7 DEF Next, Goal

LEMMA KinMoves ==
  ASSUME [Next]_vars
  PROVE  \/ kin' = kin
         \/ \E t \in Scopes : \E stored : Finish(t, stored)
<1> DEFINE Goal == kin' = kin \/ \E t \in Scopes : \E stored : Finish(t, stored)
<1>1. ASSUME UNCHANGED kin PROVE Goal BY <1>1
<1> HIDE DEF Goal
<1>2. CASE UNCHANGED vars BY <1>1, <1>2 DEF vars, rows
<1>3. CASE Node BY <1>1, <1>3 DEF Node, Outsider, Fork, Act, Exit, rows
<1>4. CASE Sensor
  BY <1>1, <1>4 DEF Sensor, Read, Ingest, IngestFails, NextLine, CloseBindingByPID,
                    CloseBindingByPIDFails, rows
<1>5. ASSUME NEW s \in Scopes, Recorder(s) PROVE Goal
  <2>1. CASE \E stored : Finish(s, stored) BY <2>1 DEF Goal
  <2> QED
    BY <1>1, <1>5, <2>1 DEF Recorder, Start, StartFails, RecordBinding, RecordBindingFails,
                      Sample, Wait, CloseBinding, CloseBindingFails, Kill, rows
<1> QED BY <1>2, <1>3, <1>4, <1>5 DEF Next, Goal

(* A recorder keeps its root. *)
LEMMA RootStays ==
  ASSUME RecorderInv, [Next]_vars, NEW t \in Scopes, Root(t) # NoProc
  PROVE  recorder'[t].root = Root(t) /\ recorder'[t].from = recorder[t].from
<1>1. recorder[t].at # "new" BY DEF RecorderInv, Root
<1> QED BY <1>1, RecorderMoves DEF Started, NotStarted, Moved, Finished, Kept, Root

LEMMA RootStep ==
  ASSUME StateInv, RootInv, AttributionAssumption, [Next]_vars
  PROVE  RootInv'
<1>0. clock \in Nat /\ clock' \in Nat /\ clock <= clock' BY ClockGrows DEF StateInv
<1>1. ASSUME NEW p \in Procs, proc'[p].life # "unborn" PROVE proc'[p].pid \in Pids
  BY <1>1, Births, BornStays DEF StateInv, RootInv
<1>2. ASSUME NEW s \in Scopes
      PROVE  /\ recorder'[s].from <= clock'
             /\ window'[s].to # 0 => window'[s].bound
             /\ recorder'[s].at = "new" => recorder'[s].root = NoProc /\ seen'[s] = {}
             /\ recorder'[s].at \notin {"new", "done"} => recorder'[s].root # NoProc
             /\ recorder'[s].at \in {"new", "forked", "watching", "grace"} => recorder'[s].ended = 0
             /\ recorder'[s].at \in {"closing", "done"} => recorder'[s].ended # 0
  <2>1. recorder[s] \in RecorderRow BY DEF StateInv, RecorderInv
  <2>2. recorder'[s].from <= clock'
    BY <1>0, <2>1, RecorderMoves
       DEF Started, NotStarted, Moved, Finished, Kept, RootInv, StateInv, RecorderRow
  <2>3. window'[s].to # 0 => window'[s].bound
    BY WindowMoves DEF Inserted, EndedByExit, EndedByRecorder, RootInv
  <2>4. recorder'[s].at = "new" => recorder'[s].root = NoProc /\ seen'[s] = {}
    <3>1. recorder'[s].at = "new" => recorder'[s] = recorder[s]
      BY RecorderMoves DEF Started, NotStarted, Moved, Finished, StateInv
    <3>2. recorder[s].at = "new" => seen'[s] = {}
      BY SeenMoves DEF Sample, RootInv, StateInv
    <3> QED BY <3>1, <3>2 DEF RootInv, Root
  <2>5. recorder'[s].at \notin {"new", "done"} => recorder'[s].root # NoProc
    <3>1. Unborn # {} => NextBorn # NoProc
      BY Fresh, AttributionAssumption DEF AttributionAssumption
    <3> QED BY <3>1, RecorderMoves
            DEF Started, NotStarted, Moved, Finished, Kept, StateInv, RootInv, Root
  <2>6. /\ recorder'[s].at \in {"new", "forked", "watching", "grace"} => recorder'[s].ended = 0
        /\ recorder'[s].at \in {"closing", "done"} => recorder'[s].ended # 0
    BY <1>0, <2>1, RecorderMoves
       DEF Started, NotStarted, Moved, Finished, Kept, StateInv, RootInv
  <2> QED BY <2>2, <2>3, <2>4, <2>5, <2>6
<1>3. ASSUME NEW s \in Scopes,
             recorder'[s].at \in {"grace", "closing", "done"} \/ recorder'[s].ended # 0,
             recorder'[s].root # NoProc
      PROVE  proc'[recorder'[s].root].life = "gone"
  <2>1. CASE Root(s) = NoProc
    BY <1>3, <2>1, RecorderMoves
       DEF Started, NotStarted, Moved, Finished, Kept, StateInv, RootInv, Root
  <2>2. CASE Root(s) # NoProc
    <3>1. recorder'[s].root = Root(s) BY <2>2, RootStays DEF StateInv
    <3>2. Root(s) \in Procs /\ proc[Root(s)].life # "unborn"
      BY <2>2 DEF Root, StateInv, RecorderInv, RecorderRow, RootInv
    <3>3. Gone(Root(s)) => proc'[Root(s)].life = "gone"
      BY <3>2, LifeStays DEF StateInv, Gone
    <3>4. proc' = [proc EXCEPT ![Root(s)].life = "gone"] => proc'[Root(s)].life = "gone"
      <4>1. proc \in [Procs -> Process] /\ proc[Root(s)] \in Process
        BY <3>2 DEF StateInv, NodeInv
      <4> QED BY <3>2, <4>1 DEF Process
    <3> QED BY <1>3, <2>2, <3>1, <3>3, <3>4, RecorderMoves
            DEF Started, NotStarted, Moved, Finished, Kept, StateInv, RootInv
  <2> QED BY <2>1, <2>2
<1>4. ASSUME NEW s \in Scopes, recorder'[s].root # NoProc
      PROVE  /\ proc'[recorder'[s].root].life # "unborn"
             /\ proc'[recorder'[s].root].home = s /\ proc'[recorder'[s].root].parent = NoProc
  <2>1. CASE Root(s) = NoProc
    <3>1. Started(s)
      BY <1>4, <2>1, RecorderMoves DEF NotStarted, Moved, Finished, Kept, StateInv, Root
    <3>2. PICK k \in Pids : proc' = [proc EXCEPT ![NextBorn] = Born(NextBorn, k, NoProc, s)]
      BY <3>1 DEF Started
    <3>3. proc'[NextBorn] = Born(NextBorn, k, NoProc, s)
      BY <3>1, <3>2, Fresh DEF Started, StateInv, NodeInv
    <3> QED BY <3>1, <3>3 DEF Started, Born
  <2>2. CASE Root(s) # NoProc
    <3>1. recorder'[s].root = Root(s) BY <2>2, RootStays DEF StateInv
    <3>2. Root(s) \in Procs /\ proc[Root(s)].life # "unborn"
      BY <2>2 DEF Root, StateInv, RecorderInv, RecorderRow, RootInv
    <3> QED BY <2>2, <3>1, <3>2, LifeStays, BornStays DEF StateInv, RootInv
  <2> QED BY <2>1, <2>2
<1> QED BY <1>1, <1>2, <1>3, <1>4 DEF RootInv, Root, Gone

-----------------------------------------------------------------------------
(* The report of a root's exit is on its way, was lost, or ended the row.  *)
ExitQueued(p, queue) == \E i \in DOMAIN queue : queue[i].proc = p /\ queue[i].kind = "exit"
OnTheWay(p) ==
  ExitQueued(p, ring) \/ ExitQueued(p, stream) \/ (line.proc = p /\ line.kind = "exit")
DeadInv ==
  /\ \A i \in DOMAIN stream : stream[i].at # 0
  /\ line # NoLine => line.at # 0
  /\ \A s \in Scopes : Dead(s) => OnTheWay(Root(s)) \/ s \in missed \/ window[s].to # 0

(* Reports of one process in a queue: an exit is the last of them. *)
Queued(p, queue) == \E i \in DOMAIN queue : queue[i].proc = p
ExitLast(queue) ==
  \A i, j \in DOMAIN queue : i < j /\ queue[i].kind = "exit" => queue[j].proc # queue[i].proc

LEMMA Appended ==
  ASSUME NEW T, NEW queue \in Seq(T), NEW e \in T
  PROVE  /\ \A p : Queued(p, Append(queue, e)) <=> Queued(p, queue) \/ e.proc = p
         /\ \A p : ExitQueued(p, Append(queue, e)) <=>
                     ExitQueued(p, queue) \/ (e.proc = p /\ e.kind = "exit")
         /\ ExitLast(queue) /\ ~ExitQueued(e.proc, queue) => ExitLast(Append(queue, e))
<1> DEFINE more == Append(queue, e)
<1>1. \A i \in DOMAIN queue : i \in DOMAIN more /\ more[i] = queue[i]
  OBVIOUS
<1>2. \A i \in DOMAIN more : i \in Nat /\ (i \in DOMAIN queue \/ (i = Len(queue) + 1 /\ more[i] = e))
  OBVIOUS
<1>3. Len(queue) + 1 \in DOMAIN more /\ more[Len(queue) + 1] = e
  OBVIOUS
<1>4. \A i \in DOMAIN queue : i \in Nat /\ i <= Len(queue) /\ Len(queue) \in Nat OBVIOUS
<1> HIDE DEF more
<1>5. \A p : Queued(p, more) <=> Queued(p, queue) \/ e.proc = p
  BY <1>1, <1>2, <1>3 DEF Queued
<1>6. \A p : ExitQueued(p, more) <=> ExitQueued(p, queue) \/ (e.proc = p /\ e.kind = "exit")
  BY <1>1, <1>2, <1>3 DEF ExitQueued
<1>7. ASSUME ExitLast(queue), ~ExitQueued(e.proc, queue),
             NEW i \in DOMAIN more, NEW j \in DOMAIN more, i < j, more[i].kind = "exit"
      PROVE  more[j].proc # more[i].proc
  BY <1>1, <1>2, <1>4, <1>7 DEF ExitLast, ExitQueued
<1>8. ExitLast(queue) /\ ~ExitQueued(e.proc, queue) => ExitLast(more)
  BY <1>7 DEF ExitLast
<1> QED BY <1>5, <1>6, <1>8 DEF more

LEMMA Taken ==
  ASSUME NEW T, NEW queue \in Seq(T), queue # <<>>
  PROVE  /\ \A p : Queued(p, queue) <=> Queued(p, Tail(queue)) \/ Head(queue).proc = p
         /\ \A p : ExitQueued(p, queue) <=>
                     \/ ExitQueued(p, Tail(queue))
                     \/ Head(queue).proc = p /\ Head(queue).kind = "exit"
         /\ ExitLast(queue) =>
              /\ ExitLast(Tail(queue))
              /\ Head(queue).kind = "exit" => ~Queued(Head(queue).proc, Tail(queue))
<1> DEFINE rest == Tail(queue)
<1>1. \A i \in DOMAIN rest : i \in Nat /\ i # 0 /\ i + 1 \in DOMAIN queue /\ rest[i] = queue[i + 1]
  OBVIOUS
<1>2. \A i \in DOMAIN queue : i = 1 \/ (i - 1 \in DOMAIN rest /\ rest[i - 1] = queue[i])
  OBVIOUS
<1>3. 1 \in DOMAIN queue /\ Head(queue) = queue[1]
  OBVIOUS
<1> HIDE DEF rest
<1>4. \A p : Queued(p, queue) <=> Queued(p, rest) \/ Head(queue).proc = p
  BY <1>1, <1>2, <1>3 DEF Queued
<1>5. \A p : ExitQueued(p, queue) <=>
               ExitQueued(p, rest) \/ (Head(queue).proc = p /\ Head(queue).kind = "exit")
  BY <1>1, <1>2, <1>3 DEF ExitQueued
<1>6. ASSUME ExitLast(queue)
      PROVE  ExitLast(rest) /\ (Head(queue).kind = "exit" => ~Queued(Head(queue).proc, rest))
  <2>1. ASSUME NEW i \in DOMAIN rest, NEW j \in DOMAIN rest, i < j, rest[i].kind = "exit"
        PROVE  rest[j].proc # rest[i].proc
    <3>1. /\ i + 1 \in DOMAIN queue /\ rest[i] = queue[i + 1]
          /\ j + 1 \in DOMAIN queue /\ rest[j] = queue[j + 1] /\ i + 1 < j + 1
      BY <1>1, <2>1
    <3> QED BY <1>6, <2>1, <3>1 DEF ExitLast
  <2>2. ASSUME Head(queue).kind = "exit", NEW j \in DOMAIN rest
        PROVE  rest[j].proc # Head(queue).proc
    <3>1. j + 1 \in DOMAIN queue /\ rest[j] = queue[j + 1] /\ 1 < j + 1 BY <1>1
    <3> QED BY <1>3, <1>6, <2>2, <3>1 DEF ExitLast
  <2> QED BY <2>1, <2>2 DEF ExitLast, Queued
<1> QED BY <1>4, <1>5, <1>6 DEF rest

(* Reports are made at the end of the ring buffer. *)
LEMMA RingMoves ==
  ASSUME StateInv, [Next]_vars
  PROVE  \/ ring' = ring
         \/ \E p \in Procs, kind \in {"act", "exit"} :
              /\ proc[p].life = "alive" /\ ring' = Report(p, kind)
              /\ kind = "exit" => Exit(p)
              /\ UNCHANGED <<stream, line, exitAt>>
         \/ Read
<1> DEFINE Goal == \/ ring' = ring
                   \/ \E p \in Procs, kind \in {"act", "exit"} :
                        /\ proc[p].life = "alive" /\ ring' = Report(p, kind)
                        /\ kind = "exit" => Exit(p)
                        /\ UNCHANGED <<stream, line, exitAt>>
                   \/ Read
<1>1. ASSUME UNCHANGED ring PROVE Goal BY <1>1
<1>2. ASSUME NEW p \in Procs, Act(p) PROVE Goal BY <1>2 DEF Act, sensor, history
<1>3. ASSUME NEW p \in Procs, Exit(p) PROVE Goal BY <1>3 DEF Exit, sensor
<1>4. CASE Read BY <1>4
<1> HIDE DEF Goal
<1>5. CASE UNCHANGED vars BY <1>1, <1>5 DEF vars, node
<1>6. CASE Node BY <1>1, <1>2, <1>3, <1>6 DEF Node, Outsider, Fork, Goal
<1>7. CASE Sensor
  BY <1>1, <1>4, <1>7 DEF Sensor, Ingest, IngestFails, NextLine, CloseBindingByPID,
                          CloseBindingByPIDFails, node
<1>8. ASSUME NEW s \in Scopes, Recorder(s) PROVE Goal
  BY <1>1, <1>8 DEF Recorder, Start, StartFails, RecordBinding, RecordBindingFails, Sample,
                    Wait, Finish, CloseBinding, CloseBindingFails, Kill, node
<1> QED BY <1>5, <1>6, <1>7, <1>8 DEF Next, Goal

(* The sensor's steps. *)
LEMMA SensorMoves ==
  ASSUME [Next]_vars
  PROVE  \/ UNCHANGED <<stream, line>>
         \/ Read \/ Ingest \/ IngestFails
         \/ NextLine \/ CloseBindingByPID \/ CloseBindingByPIDFails
<1>1. CASE UNCHANGED vars BY <1>1 DEF vars, sensor
<1>2. CASE Node BY <1>2 DEF Node, Outsider, Fork, Act, Exit, sensor
<1>3. CASE Sensor BY <1>3 DEF Sensor
<1>4. ASSUME NEW s \in Scopes, Recorder(s) PROVE UNCHANGED <<stream, line>>
  BY <1>4 DEF Recorder, Start, StartFails, RecordBinding, RecordBindingFails, Sample,
              Wait, Finish, CloseBinding, CloseBindingFails, Kill, sensor
<1> QED BY <1>1, <1>2, <1>3, <1>4 DEF Next

LEMMA DeadStep ==
  ASSUME StateInv, RootInv, DeadInv, AttributionAssumption, [Next]_vars
  PROVE  DeadInv'
<1>0. clock \in Nat /\ clock' \in Nat /\ clock <= clock' BY ClockGrows DEF StateInv
<1>1. ring \in Seq(Reported) /\ stream \in Seq(Stamped) BY DEF StateInv, SensorInv
<1>2. (\A i \in DOMAIN stream' : stream'[i].at # 0) /\ (line' # NoLine => line'.at # 0)
  <2>1. CASE UNCHANGED <<stream, line>> BY <2>1 DEF DeadInv
  <2>2. CASE Read
    <3>1. PICK r : stream' = Append(stream, r) /\ r.at = clock + 1 /\ line' = line
      BY <2>2 DEF Read
    <3> QED BY <1>0, <1>1, <3>1 DEF DeadInv
  <2>3. CASE Ingest \/ IngestFails
    <3>1. stream # <<>> /\ stream' = Tail(stream) BY <2>3 DEF Ingest, IngestFails
    <3>2. \A i \in DOMAIN stream' : i + 1 \in DOMAIN stream /\ stream'[i] = stream[i + 1]
      BY <1>1, <3>1
    <3>3. line' = line \/ line'.at = Head(stream).at
      BY <2>3 DEF Ingest, IngestFails, Resolved
    <3>4. 1 \in DOMAIN stream /\ Head(stream) = stream[1] BY <1>1, <3>1
    <3> QED BY <3>2, <3>3, <3>4 DEF DeadInv
  <2>4. CASE NextLine \/ CloseBindingByPID \/ CloseBindingByPIDFails
    BY <2>4 DEF NextLine, CloseBindingByPID, CloseBindingByPIDFails, DeadInv
  <2> QED BY <2>1, <2>2, <2>3, <2>4, SensorMoves
<1>3. ASSUME NEW s \in Scopes, Dead(s)'
      PROVE  OnTheWay(Root(s))' \/ s \in missed' \/ window'[s].to # 0
  <2> DEFINE p == Root(s)
  <2>1. CASE p = NoProc
    <3>1. Started(s)
      BY <1>3, <2>1, RecorderMoves DEF NotStarted, Moved, Finished, Kept, StateInv, Root, Dead
    <3>2. PICK k \in Pids : proc' = [proc EXCEPT ![NextBorn] = Born(NextBorn, k, NoProc, s)]
      BY <3>1 DEF Started
    <3>3. proc'[NextBorn] = Born(NextBorn, k, NoProc, s)
      BY <3>1, <3>2, Fresh DEF Started, StateInv, NodeInv
    <3> QED BY <1>3, <3>1, <3>3 DEF Started, Born, Dead
  <2>2. CASE p # NoProc
    <3>1. Root(s)' = p BY <2>2, RootStays DEF StateInv, Root
    <3>2. p \in Procs /\ proc[p].life # "unborn"
      BY <2>2 DEF Root, StateInv, RecorderInv, RecorderRow, RootInv
    <3>3. s \in RootOf(p) BY DEF RootOf, Root
    <3>4. Dead(s) \/ Exit(p)
      BY <1>3, <2>2, <3>1, <3>2, LifeStays DEF Dead, Root, StateInv
    <3>5. CASE Exit(p)
      <4>1. /\ ring' = Report(p, "exit")
            /\ missed' = IF Room THEN missed ELSE missed \cup RootOf(p)
        BY <3>5 DEF Exit
      <4>2. CASE Room
        <5>1. ring' = Append(ring, [proc |-> p, kind |-> "exit"]) BY <4>1, <4>2 DEF Report
        <5>2. [proc |-> p, kind |-> "exit"] \in Reported BY <3>2 DEF Reported
        <5>3. ExitQueued(p, Append(ring, [proc |-> p, kind |-> "exit"]))
          <6> DEFINE e == [proc |-> p, kind |-> "exit"]
          <6>1. e \in Reported /\ e.proc = p /\ e.kind = "exit" BY <5>2
          <6> HIDE DEF e
          <6>2. ExitQueued(p, Append(ring, e)) BY <1>1, <6>1, Appended
          <6> QED BY <6>2 DEF e
        <5>4. ExitQueued(p, ring') BY <5>1, <5>3
        <5> QED BY <3>1, <5>4 DEF OnTheWay, ExitQueued
      <4>3. CASE ~Room BY <3>3, <4>1, <4>3
      <4> QED BY <4>2, <4>3
    <3>6. CASE s \in missed BY <3>6, HistoryMoves
    <3>7. CASE window[s].to # 0
      <4>1. recorder[s].at # "new" BY <2>2 DEF RootInv
      <4> QED BY <3>7, <4>1, WindowMoves DEF Inserted, EndedByExit, EndedByRecorder
    <3>8. CASE ExitQueued(p, ring)
      <4>1. CASE ring' = ring BY <3>1, <3>8, <4>1 DEF OnTheWay, ExitQueued
      <4>2. ASSUME NEW q \in Procs, NEW kind \in {"act", "exit"}, ring' = Report(q, kind)
            PROVE  ExitQueued(p, ring')
        <5>1. [proc |-> q, kind |-> kind] \in Reported BY DEF Reported
        <5> QED BY <1>1, <3>8, <4>2, <5>1, Appended DEF Report
      <4>3. CASE Read
        <5>1. PICK r : /\ stream' = Append(stream, r) /\ ring # <<>> /\ ring' = Tail(ring)
                       /\ r = [proc |-> Head(ring).proc, kind |-> Head(ring).kind,
                               at |-> clock + 1, held |-> proc[Head(ring).proc].life # "gone"]
          BY <4>3 DEF Read
        <5>2. Head(ring) \in Reported BY <1>1, <5>1
        <5>3. r \in Stamped /\ r.proc = Head(ring).proc /\ r.kind = Head(ring).kind
          BY <1>0, <5>1, <5>2 DEF Stamped, Reported
        <5>4. ExitQueued(p, ring') \/ ExitQueued(p, stream')
          BY <1>1, <3>8, <5>1, <5>3, Taken, Appended
        <5> QED BY <3>1, <5>4 DEF OnTheWay, ExitQueued
      <4>4. ExitQueued(p, ring') => OnTheWay(Root(s))'
        BY <3>1 DEF OnTheWay, ExitQueued
      <4> QED BY <4>1, <4>2, <4>3, <4>4, RingMoves
    <3>9. CASE ExitQueued(p, stream)
      <4>1. CASE UNCHANGED <<stream, line>> \/ NextLine \/ CloseBindingByPID
                   \/ CloseBindingByPIDFails
        <5>1. stream' = stream
          BY <4>1 DEF NextLine, CloseBindingByPID, CloseBindingByPIDFails
        <5> QED BY <3>1, <3>9, <5>1 DEF OnTheWay, ExitQueued
      <4>2. CASE Read
        <5>1. PICK r : /\ stream' = Append(stream, r) /\ ring # <<>>
                       /\ r = [proc |-> Head(ring).proc, kind |-> Head(ring).kind,
                               at |-> clock + 1, held |-> proc[Head(ring).proc].life # "gone"]
          BY <4>2 DEF Read
        <5>2. Head(ring) \in Reported BY <1>1, <5>1
        <5>3. r \in Stamped BY <1>0, <5>1, <5>2 DEF Stamped, Reported
        <5>4. ExitQueued(p, stream') BY <1>1, <3>9, <5>1, <5>3, Appended
        <5> QED BY <3>1, <5>4 DEF OnTheWay, ExitQueued
      <4>3. CASE Ingest \/ IngestFails
        <5>1. stream # <<>> /\ stream' = Tail(stream) BY <4>3 DEF Ingest, IngestFails
        <5>2. ExitQueued(p, stream') \/ (Head(stream).proc = p /\ Head(stream).kind = "exit")
          BY <1>1, <3>9, <5>1, Taken
        <5>3. CASE ExitQueued(p, stream') BY <3>1, <5>3 DEF OnTheWay, ExitQueued
        <5>4. CASE Head(stream).proc = p /\ Head(stream).kind = "exit"
          <6>1. CASE Ingest
            <7>1. line'.proc = p /\ line'.kind = "exit" BY <5>4, <6>1 DEF Ingest, Resolved
            <7> QED BY <3>1, <7>1 DEF OnTheWay
          <6>2. CASE IngestFails BY <3>3, <5>4, <6>2 DEF IngestFails
          <6> QED BY <4>3, <6>1, <6>2
        <5> QED BY <5>2, <5>3, <5>4
      <4> QED BY <4>1, <4>2, <4>3, SensorMoves
    <3>10. CASE line.proc = p /\ line.kind = "exit"
      <4>1. line # NoLine BY <3>10 DEF NoLine
      <4>2. CASE line' = line BY <3>1, <3>10, <4>2 DEF OnTheWay
      <4>3. CASE CloseBindingByPIDFails BY <3>3, <3>10, <4>3 DEF CloseBindingByPIDFails
      <4>4. CASE CloseBindingByPID
        <5> DEFINE own == RootOf(line.proc)
                   hit == {t \in Scopes : Open(t) /\ Pid(recorder[t].root) = Pid(line.proc)}
        <5>1. /\ End(hit, line.at)
              /\ missed' = missed \cup {t \in own : ~window[t].bound}
          BY <4>4 DEF CloseBindingByPID
        <5>2. hit \in SUBSET Scopes /\ line.at \in Nat /\ line.at # 0
          BY <4>1 DEF StateInv, SensorInv, LineRow, DeadInv
        <5>3. window[s].bound /\ window[s].to = 0 => s \in hit BY <3>10 DEF Open, Root
        <5>4. s \in own BY <3>3, <3>10
        <5> HIDE DEF own, hit
        <5>5. /\ s \in hit => window'[s].to = line.at
              /\ s \notin hit => window'[s] = window[s]
          BY <5>1, <5>2, EndKeepsRows DEF StateInv
        <5> QED BY <5>1, <5>2, <5>3, <5>4, <5>5
      <4> QED BY <3>10, <4>1, <4>2, <4>3, <4>4, SensorMoves
              DEF Read, Ingest, IngestFails, NextLine
    <3> QED BY <2>2, <3>4, <3>5, <3>6, <3>7, <3>8, <3>9, <3>10 DEF DeadInv, OnTheWay
  <2> QED BY <2>1, <2>2
<1> QED BY <1>2, <1>3 DEF DeadInv

LEMMA RootsInit == AttributionAssumption /\ Init => RootInv /\ DeadInv
<1> SUFFICES ASSUME AttributionAssumption, Init PROVE RootInv /\ DeadInv
  OBVIOUS
<1> USE DEF Init
<1>1. \A p \in Procs : proc[p].life = "unborn" BY DEF Nothing
<1>2. RootInv BY <1>1 DEF RootInv, Root, Gone
<1>3. DeadInv BY DEF DeadInv, Dead
<1> QED BY <1>2, <1>3

LEMMA RootsInductive == Spec => [](RootInv /\ DeadInv)
<1>1. ASSUME StateInv, RootInv, DeadInv, [Next]_vars PROVE RootInv' /\ DeadInv'
  BY <1>1, AttributionAssumption, RootStep, DeadStep
<1> QED BY <1>1, AttributionAssumption, RootsInit, Inductive, PTL DEF Spec

(* Whoever is killed and whichever call fails: once no report is on its way *)
(* the row of a root that is gone has an end, if its exit was not lost and  *)
(* did not come before the row (binding.go, CloseBinding, CloseBindingByPID). *)
THEOREM DeadScopesEnd == Spec => []DeadScopeEnded
<1>1. StateInv /\ RootInv /\ DeadInv => DeadScopeEnded
  <2> SUFFICES ASSUME DeadInv, NEW s \in Scopes, Open(s), Dead(s),
                      ring = <<>>, stream = <<>>, line = NoLine
               PROVE  s \in missed
    BY DEF DeadScopeEnded
  <2>1. ~OnTheWay(Root(s)) BY DEF OnTheWay, ExitQueued, NoLine
  <2> QED BY <2>1 DEF DeadInv, Open
<1> QED BY <1>1, Inductive, RootsInductive, PTL

-----------------------------------------------------------------------------
(* After the report of its exit nothing is reported of a process. *)
LastInv ==
  /\ ExitLast(ring) /\ ExitLast(stream)
  /\ \A p \in Procs : ExitQueued(p, stream) => ~Queued(p, ring)
  /\ line.kind = "exit" => ~Queued(line.proc, ring) /\ ~Queued(line.proc, stream)
  /\ \A p \in Procs : OnTheWay(p) => proc[p].life \in {"zombie", "gone"}
  /\ \A s \in Scopes : exitAt[s] # 0 =>
       /\ Root(s) # NoProc /\ proc[Root(s)].life \in {"zombie", "gone"}
       /\ ~Queued(Root(s), ring) /\ ~Queued(Root(s), stream)

(* Who has ended stays so. *)
LEMMA OverStays ==
  ASSUME StateInv, AttributionAssumption, [Next]_vars, NEW p \in Procs,
         proc[p].life \in {"zombie", "gone"}
  PROVE  proc'[p].life \in {"zombie", "gone"}
<1>1. proc'[p].life \notin {"alive", "unborn"} BY BornStays, LifeStays DEF StateInv
<1>2. NodeInv' BY NodeStep DEF StateInv
<1> QED BY <1>1, <1>2 DEF NodeInv, Process

LEMMA LastStep ==
  ASSUME StateInv, RootInv, LastInv, AttributionAssumption, [Next]_vars
  PROVE  LastInv'
<1>0. clock \in Nat /\ clock' \in Nat /\ clock <= clock' BY ClockGrows DEF StateInv
<1>1. ring \in Seq(Reported) /\ stream \in Seq(Stamped) BY DEF StateInv, SensorInv
<1>2. \A s \in Scopes : exitAt[s] # 0 =>
        /\ Root(s)' = Root(s) /\ proc'[Root(s)].life \in {"zombie", "gone"}
  <2>1. \A s \in Scopes : Root(s) # NoProc => Root(s) \in Procs /\ Root(s)' = Root(s)
    BY RootStays DEF StateInv, RecorderInv, RecorderRow, Root
  <2> QED BY <2>1, OverStays DEF LastInv
<1>3. \A p \in Procs : OnTheWay(p) => proc'[p].life \in {"zombie", "gone"}
  BY OverStays DEF LastInv
<1>12. \A p : OnTheWay(p)' <=> (\/ ExitQueued(p, ring') \/ ExitQueued(p, stream')
                               \/ (line'.proc = p /\ line'.kind = "exit"))
  BY DEF OnTheWay, ExitQueued
<1>4. CASE CloseBindingByPID
  <2>1. /\ UNCHANGED <<ring, stream>> /\ line' = NoLine /\ line.kind = "exit"
    BY <1>4 DEF CloseBindingByPID, node
  <2>2. ASSUME NEW s \in Scopes, exitAt'[s] # 0
        PROVE  /\ Root(s)' # NoProc /\ proc'[Root(s)'].life \in {"zombie", "gone"}
               /\ ~Queued(Root(s)', ring) /\ ~Queued(Root(s)', stream)
    <3>1. CASE exitAt[s] # 0 BY <1>2, <3>1 DEF LastInv
    <3>2. CASE exitAt[s] = 0
      <4>1. s \in RootOf(line.proc) BY <2>2, <3>2, HistoryMoves
      <4>2. Root(s) = line.proc BY <4>1 DEF RootOf, Root
      <4>3. line # NoLine BY <2>1 DEF NoLine
      <4>4. line.proc \in Procs /\ line.proc # NoProc
        BY <4>3, AttributionAssumption DEF AttributionAssumption, StateInv, SensorInv
      <4>5. Root(s)' = Root(s) BY <4>2, <4>4, RootStays DEF StateInv, Root
      <4>6. OnTheWay(line.proc) BY <2>1 DEF OnTheWay
      <4> QED BY <1>3, <2>1, <4>2, <4>4, <4>5, <4>6 DEF LastInv
    <3> QED BY <3>1, <3>2
  <2>3. \A p \in Procs : OnTheWay(p)' => OnTheWay(p)
    BY <2>1 DEF OnTheWay, ExitQueued, NoLine
  <2> QED BY <1>3, <2>1, <2>2, <2>3 DEF LastInv, ExitLast, ExitQueued, Queued, NoLine, Root
<1> DEFINE Rest == /\ ExitLast(ring') /\ ExitLast(stream')
                   /\ \A p \in Procs : ExitQueued(p, stream') => ~Queued(p, ring')
                   /\ line'.kind = "exit" => ~Queued(line'.proc, ring') /\ ~Queued(line'.proc, stream')
                   /\ \A p \in Procs : OnTheWay(p)' => proc'[p].life \in {"zombie", "gone"}
                   /\ \A s \in Scopes : exitAt[s] # 0 =>
                        ~Queued(Root(s), ring') /\ ~Queued(Root(s), stream')
<1>5. ASSUME ~CloseBindingByPID, Rest PROVE LastInv'
  <2>1. ASSUME NEW s \in Scopes, exitAt'[s] # 0
        PROVE  /\ Root(s)' # NoProc /\ proc'[Root(s)'].life \in {"zombie", "gone"}
               /\ ~Queued(Root(s)', ring') /\ ~Queued(Root(s)', stream')
    <3>1. exitAt[s] # 0 BY <1>5, <2>1, HistoryMoves
    <3> QED BY <1>2, <1>5, <3>1 DEF LastInv
  <2> QED BY <1>5, <2>1 DEF LastInv, ExitLast, ExitQueued, Queued, Root
<1>6. ASSUME NEW p \in Procs, NEW kind \in {"act", "exit"}, proc[p].life = "alive",
             ring' = Report(p, kind), kind = "exit" => Exit(p), UNCHANGED <<stream, line>>
      PROVE  Rest
  <2> DEFINE e == [proc |-> p, kind |-> kind]
  <2>1. e \in Reported /\ e.proc = p /\ e.kind = kind BY DEF Reported
  <2>2. ~OnTheWay(p) BY <1>6 DEF LastInv
  <2>3. ring' = Append(ring, e) \/ ring' = ring BY <1>6 DEF Report
  <2>4. kind = "exit" => proc'[p].life \in {"zombie", "gone"}
    <3>1. Exit(p) => Dies(p) BY DEF Exit
    <3> QED BY <1>6, <3>1, DeathKeepsNode DEF StateInv
  <2> HIDE DEF e
  <2>5. ExitLast(ring')
    <3>1. ~ExitQueued(e.proc, ring) /\ ExitLast(ring) BY <2>1, <2>2 DEF LastInv, OnTheWay
    <3>2. ExitLast(Append(ring, e)) BY <1>1, <2>1, <3>1, Appended
    <3> QED BY <2>3, <3>1, <3>2
  <2>6. \A q : Queued(q, ring') => Queued(q, ring) \/ q = p
    BY <1>1, <2>1, <2>3, Appended
  <2>7. \A q : ExitQueued(q, ring') => ExitQueued(q, ring) \/ (q = p /\ kind = "exit")
    BY <1>1, <2>1, <2>3, Appended
  <2>8. \A q \in Procs : OnTheWay(q)' => OnTheWay(q) \/ (q = p /\ kind = "exit")
    BY <1>6, <1>12, <2>7 DEF OnTheWay
  <2>9. \A s \in Scopes : exitAt[s] # 0 => Root(s) # p BY <1>6 DEF LastInv
  <2>10. /\ \A q \in Procs : ExitQueued(q, stream') => ~Queued(q, ring')
         /\ line'.kind = "exit" => ~Queued(line'.proc, ring') /\ ~Queued(line'.proc, stream')
    BY <1>6, <2>2, <2>6 DEF LastInv, OnTheWay
  <2>11. \A s \in Scopes : exitAt[s] # 0 => ~Queued(Root(s), ring') /\ ~Queued(Root(s), stream')
    BY <1>6, <2>6, <2>9 DEF LastInv
  <2> QED BY <1>3, <1>6, <2>4, <2>5, <2>8, <2>10, <2>11 DEF LastInv
<1>7. ASSUME Read PROVE Rest
  <2>1. PICK r : /\ stream' = Append(stream, r) /\ ring # <<>> /\ ring' = Tail(ring)
                 /\ r = [proc |-> Head(ring).proc, kind |-> Head(ring).kind,
                         at |-> clock + 1, held |-> proc[Head(ring).proc].life # "gone"]
                 /\ line' = line
    BY <1>7 DEF Read
  <2>2. Head(ring) \in Reported BY <1>1, <2>1
  <2>3. r \in Stamped /\ r.proc = Head(ring).proc /\ r.kind = Head(ring).kind
    BY <1>0, <2>1, <2>2 DEF Stamped, Reported
  <2>4. /\ \A p : Queued(p, ring) <=> Queued(p, ring') \/ r.proc = p
        /\ \A p : ExitQueued(p, ring) <=> ExitQueued(p, ring') \/ (r.proc = p /\ r.kind = "exit")
        /\ ExitLast(ring')
        /\ r.kind = "exit" => ~Queued(r.proc, ring')
    BY <1>1, <2>1, <2>3, Taken DEF LastInv
  <2>5. /\ \A p : Queued(p, stream') <=> Queued(p, stream) \/ r.proc = p
        /\ \A p : ExitQueued(p, stream') <=>
                    ExitQueued(p, stream) \/ (r.proc = p /\ r.kind = "exit")
        /\ ~ExitQueued(r.proc, stream) => ExitLast(stream')
    BY <1>1, <2>1, <2>3, Appended DEF LastInv
  <2>6. r.proc \in Procs BY <2>3 DEF Stamped
  <2>7. ExitLast(stream') BY <2>4, <2>5, <2>6 DEF LastInv
  <2>8. \A p \in Procs : OnTheWay(p)' => OnTheWay(p)
    BY <1>12, <2>1, <2>4, <2>5 DEF OnTheWay
  <2>9. \A p \in Procs : ExitQueued(p, stream') => ~Queued(p, ring')
    BY <2>4, <2>5 DEF LastInv
  <2>10. line'.kind = "exit" => ~Queued(line'.proc, ring') /\ ~Queued(line'.proc, stream')
    BY <2>1, <2>4, <2>5 DEF LastInv
  <2>11. \A s \in Scopes : exitAt[s] # 0 => ~Queued(Root(s), ring') /\ ~Queued(Root(s), stream')
    BY <2>4, <2>5 DEF LastInv
  <2> QED BY <1>3, <2>4, <2>7, <2>8, <2>9, <2>10, <2>11
<1>8. ASSUME Ingest \/ IngestFails PROVE Rest
  <2>1. /\ stream # <<>> /\ stream' = Tail(stream) /\ ring' = ring
        /\ \/ line' = line
           \/ line'.proc = Head(stream).proc /\ line'.kind = Head(stream).kind
    BY <1>8 DEF Ingest, IngestFails, Resolved, node
  <2> DEFINE r == Head(stream)
  <2>2. /\ \A p : Queued(p, stream) <=> Queued(p, stream') \/ r.proc = p
        /\ \A p : ExitQueued(p, stream) <=>
                    ExitQueued(p, stream') \/ (r.proc = p /\ r.kind = "exit")
        /\ ExitLast(stream')
        /\ r.kind = "exit" => ~Queued(r.proc, stream')
    BY <1>1, <2>1, Taken DEF LastInv
  <2>3. r.proc \in Procs
    <3>1. r \in Stamped BY <1>1, <2>1
    <3> QED BY <3>1 DEF Stamped
  <2> HIDE DEF r
  <2>4. line' = line \/ (line'.proc = r.proc /\ line'.kind = r.kind) BY <2>1 DEF r
  <2>5. \A p \in Procs : OnTheWay(p)' => OnTheWay(p)
    BY <1>12, <2>1, <2>2, <2>4 DEF OnTheWay
  <2>6. \A p \in Procs : ExitQueued(p, stream') => ~Queued(p, ring')
    BY <2>1, <2>2 DEF LastInv
  <2>7. line'.kind = "exit" => ~Queued(line'.proc, ring') /\ ~Queued(line'.proc, stream')
    BY <2>1, <2>2, <2>3, <2>4 DEF LastInv
  <2>8. \A s \in Scopes : exitAt[s] # 0 => ~Queued(Root(s), ring') /\ ~Queued(Root(s), stream')
    BY <2>1, <2>2 DEF LastInv
  <2> QED BY <1>3, <2>1, <2>2, <2>5, <2>6, <2>7, <2>8 DEF LastInv
<1>9. ASSUME UNCHANGED <<ring, stream>>, line' = line \/ line' = NoLine PROVE Rest
  <2>1. \A p \in Procs : OnTheWay(p)' => OnTheWay(p)
    BY <1>9 DEF OnTheWay, ExitQueued, NoLine
  <2> QED BY <1>3, <1>9, <2>1 DEF LastInv, NoLine
<1> HIDE DEF Rest
<1>10. CASE ~CloseBindingByPID
  <2>1. CASE UNCHANGED ring
    <3>1. \/ UNCHANGED <<ring, stream>> /\ (line' = line \/ line' = NoLine)
          \/ Read \/ Ingest \/ IngestFails
      BY <1>10, <2>1, SensorMoves DEF NextLine, CloseBindingByPIDFails
    <3> QED BY <1>5, <1>7, <1>8, <1>9, <1>10, <3>1
  <2> QED BY <1>5, <1>6, <1>7, <1>10, <2>1, RingMoves
<1> QED BY <1>4, <1>10

-----------------------------------------------------------------------------
(* What was read of p while it had its pid was read before that time. *)
HeldBefore(p, time) ==
  /\ Gone(p)
  /\ \A i \in DOMAIN stream : stream[i].proc = p /\ stream[i].held => stream[i].at < time

(* A row has an end from its recorder, from its root's exit or from that of *)
(* another.  Of a root with a reported pid: its reports follow its start;   *)
(* when its recorder ends it, when another root gets its pid, and when      *)
(* another recorder sees its pid in a descendant, it is gone.               *)
EndInv(s) ==
  window[s].to # 0 => s \in stale \/ exitAt[s] # 0 \/ window[s].to = recorder[s].ended
AfterInv(s) ==
  /\ \A i \in DOMAIN stream : stream[i].proc = Root(s) => recorder[s].from < stream[i].at
  /\ recorder[s].ended # 0 => HeldBefore(Root(s), recorder[s].ended)
SuccInv(s) ==
  \A t \in Scopes \ {s} :
    Pid(Root(t)) = Pid(Root(s)) /\ recorder[s].from <= recorder[t].from =>
      recorder[s].from < recorder[t].from /\ HeldBefore(Root(s), recorder[t].from)
SeenInv(s) ==
  \A t \in Scopes : Pid(Root(t)) # Pid(Root(s)) =>
    \A o \in seen[t] : o.pid = Pid(Root(s)) =>
      o.from < recorder[s].from \/ HeldBefore(Root(s), o.from)
KinInv(s) ==
  \A row \in kin : row.pid = Pid(Root(s)) /\ row.root # row.pid =>
    row.from < recorder[s].from \/ HeldBefore(Root(s), row.from)
OwnInv ==
  \A s \in Scopes : /\ EndInv(s)
                    /\ Root(s) # NoProc => AfterInv(s) /\ SuccInv(s) /\ SeenInv(s) /\ KinInv(s)

(* What is in the stream was there or has just been read. *)
LEMMA StreamMoves ==
  ASSUME StateInv, [Next]_vars, NEW i \in DOMAIN stream'
  PROVE  \/ \E j \in DOMAIN stream : stream'[i] = stream[j]
         \/ /\ stream'[i].proc \in Procs /\ proc[stream'[i].proc].life # "unborn"
            /\ stream'[i].at = clock + 1
            /\ stream'[i].held = (proc[stream'[i].proc].life # "gone")
<1>1. ring \in Seq(Reported) /\ stream \in Seq(Stamped) /\ clock \in Nat
  BY DEF StateInv, SensorInv
<1>2. CASE UNCHANGED stream BY <1>2
<1>3. CASE Read
  <2> DEFINE r == [proc |-> Head(ring).proc, kind |-> Head(ring).kind,
                   at |-> clock + 1, held |-> proc[Head(ring).proc].life # "gone"]
  <2>1. stream' = Append(stream, r) /\ ring # <<>> BY <1>3 DEF Read
  <2>2. Head(ring) \in Reported /\ Head(ring) = ring[1] /\ 1 \in DOMAIN ring BY <1>1, <2>1
  <2>3. /\ r.proc \in Procs /\ proc[r.proc].life # "unborn"
        /\ r.at = clock + 1 /\ r.held = (proc[r.proc].life # "gone")
    BY <2>2 DEF Reported, StateInv, SensorInv
  <2>4. r \in Stamped BY <1>1, <2>2 DEF Stamped, Reported
  <2> HIDE DEF r
  <2>5. (i \in DOMAIN stream /\ stream'[i] = stream[i]) \/ stream'[i] = r
    BY <1>1, <2>1, <2>4
  <2> QED BY <2>3, <2>5
<1>4. CASE Ingest \/ IngestFails
  <2>1. stream # <<>> /\ stream' = Tail(stream) BY <1>4 DEF Ingest, IngestFails
  <2>2. i + 1 \in DOMAIN stream /\ stream'[i] = stream[i + 1] BY <1>1, <2>1
  <2> QED BY <2>2
<1>5. CASE NextLine \/ CloseBindingByPID \/ CloseBindingByPIDFails
  BY <1>2, <1>5 DEF NextLine, CloseBindingByPID, CloseBindingByPIDFails
<1> QED BY <1>2, <1>3, <1>4, <1>5, SensorMoves

HeldAfter(p, time) ==
  /\ proc'[p].life = "gone"
  /\ \A i \in DOMAIN stream' : stream'[i].proc = p /\ stream'[i].held => stream'[i].at < time

LEMMA HeldBeforeStays ==
  ASSUME StateInv, [Next]_vars, NEW p \in Procs, NEW time, HeldBefore(p, time)
  PROVE  HeldAfter(p, time)
<1>1. proc[p].life = "gone" BY DEF HeldBefore, Gone
<1>2. proc'[p].life = "gone" BY <1>1, LifeStays DEF StateInv
<1>3. ASSUME NEW i \in DOMAIN stream', stream'[i].proc = p, stream'[i].held
      PROVE  stream'[i].at < time
  BY <1>1, <1>3, StreamMoves DEF HeldBefore
<1> QED BY <1>2, <1>3 DEF HeldAfter

(* Who is gone by now was read before any later time. *)
LEMMA HeldBeforeNow ==
  ASSUME StateInv, [Next]_vars, NEW p \in Procs, Gone(p), NEW time \in Nat, clock < time
  PROVE  HeldAfter(p, time)
<1>1. clock \in Nat /\ \A i \in DOMAIN stream : stream[i].at \in Nat /\ stream[i].at <= clock
  <2>1. \A i \in DOMAIN stream : stream[i] \in Stamped BY DEF StateInv, SensorInv
  <2> QED BY <2>1 DEF StateInv, SensorInv, Stamped
<1>2. HeldBefore(p, time) BY <1>1 DEF HeldBefore
<1> QED BY <1>2, HeldBeforeStays

(* Who has no parent is in no family but that of its own pid. *)
LEMMA FamilyRoots ==
  ASSUME AttributionAssumption, NEW k, NEW p \in Family(k), proc[p].parent = NoProc
  PROVE  p \in Running /\ proc[p].pid = k
<1>1. p \in Running BY DEF Family
<1>2. ASSUME proc[p].pid # k PROVE FALSE
  <2> DEFINE F == Running \ {p}
  <2>1. F \in SUBSET Running OBVIOUS
  <2>2. NoProc \notin Running BY AttributionAssumption DEF AttributionAssumption, Running
  <2>3. {q \in Running : proc[q].pid = k \/ proc[q].parent \in F} \subseteq F
    BY <1>2, <2>2
  <2>4. p \in F BY <2>1, <2>3 DEF Family
  <2> QED BY <2>4
<1> QED BY <1>1, <1>2

(* Another recorder that sees a root's pid in a descendant has seen it     *)
(* before, or the root is gone.                                            *)
LEMMA ForeignSighting ==
  ASSUME StateInv, RootInv, AttributionAssumption, NEW s \in Scopes, NEW t \in Scopes,
         Root(s) # NoProc, Pid(Root(t)) # Pid(Root(s)), NEW now, NEW o \in Observed(t, now),
         o.pid = Pid(Root(s))
  PROVE  \/ \E u \in seen[t] : u.pid = o.pid /\ u.from = o.from
         \/ o.from = now /\ Gone(Root(s))
<1> DEFINE pids == {proc[p].pid : p \in Family(Pid(recorder[t].root))} \ {Pid(recorder[t].root)}
           known == {u.pid : u \in seen[t]}
<1>1. \A u \in seen[t] : u = [pid |-> u.pid, from |-> u.from, to |-> u.to]
  BY DEF StateInv, SampleInv, Sighting
<1>2. ASSUME NEW u \in seen[t], o = IF u.pid \in pids THEN [u EXCEPT !.to = now] ELSE u
      PROVE  o.pid = u.pid /\ o.from = u.from
  BY <1>1, <1>2
<1>3. ASSUME NEW k \in pids, o = [pid |-> k, from |-> now, to |-> now]
      PROVE  o.from = now /\ Gone(Root(s))
  <2>1. PICK p \in Family(Pid(Root(t))) : proc[p].pid = k BY DEF Root
  <2>2. p \in Running BY DEF Family
  <2>3. k = Pid(Root(s)) BY <1>3
  <2>4. /\ Root(s) \in Procs /\ proc[Root(s)].life # "unborn"
        /\ proc[Root(s)].pid = k /\ proc[Root(s)].parent = NoProc
    BY <2>3 DEF Root, Pid, StateInv, RecorderInv, RecorderRow, RootInv
  <2>5. ASSUME Root(s) \in Running PROVE FALSE
    <3>1. p = Root(s) BY <2>1, <2>2, <2>4, <2>5 DEF StateInv, NodeInv
    <3>2. proc[p].pid = Pid(Root(t)) BY <2>4, <3>1, FamilyRoots
    <3> QED BY <2>1, <2>3, <3>2
  <2>6. proc[Root(s)].life = "gone"
    BY <2>4, <2>5 DEF Running, StateInv, NodeInv, Process
  <2> QED BY <1>3, <2>6 DEF Gone
<1>4. \/ \E u \in seen[t] : o = IF u.pid \in pids THEN [u EXCEPT !.to = now] ELSE u
      \/ \E k \in pids : o = [pid |-> k, from |-> now, to |-> now]
  BY DEF Observed
<1> HIDE DEF pids, known
<1> QED BY <1>2, <1>3, <1>4

(* A root that was there: born, and its pid and start stay.                *)
LEMMA RootKept ==
  ASSUME StateInv, RootInv, AttributionAssumption, [Next]_vars,
         NEW s \in Scopes, Root(s) # NoProc
  PROVE  /\ Root(s) \in Procs /\ proc[Root(s)].life # "unborn"
         /\ Root(s)' = Root(s) /\ recorder'[s].from = recorder[s].from
         /\ Pid(Root(s)) \in Pids /\ Pid(Root(s))' = Pid(Root(s))
<1>1. Root(s) \in Procs /\ proc[Root(s)].life # "unborn"
  BY DEF Root, StateInv, RecorderInv, RecorderRow, RootInv
<1>2. Root(s)' = Root(s) /\ recorder'[s].from = recorder[s].from
  BY RootStays DEF StateInv, Root
<1>3. proc'[Root(s)].pid = proc[Root(s)].pid BY <1>1, BornStays DEF StateInv
<1>4. Pid(Root(s)) = proc[Root(s)].pid /\ Pid(Root(s))' = proc'[Root(s)].pid
  BY <1>2 DEF Pid
<1> QED BY <1>1, <1>2, <1>3, <1>4 DEF RootInv

(* A root that is new: its process was just born, with a pid nobody had.   *)
LEMMA RootNew ==
  ASSUME StateInv, RootInv, AttributionAssumption, [Next]_vars,
         NEW s \in Scopes, Root(s) = NoProc, Root(s)' # NoProc
  PROVE  /\ recorder[s].at = "new" /\ recorder'[s].from = clock + 1 /\ clock' = clock + 1
         /\ recorder'[s].ended = 0
         /\ Root(s)' \in Procs /\ proc[Root(s)'].life = "unborn"
         /\ Pid(Root(s))' \in Pids /\ ~Held(Pid(Root(s))')
<1>1. Started(s)
  BY RecorderMoves DEF NotStarted, Moved, Finished, Kept, StateInv, Root
<1>2. PICK k \in Pids :
        ~Held(k) /\ proc' = [proc EXCEPT ![NextBorn] = Born(NextBorn, k, NoProc, s)]
  BY <1>1 DEF Started
<1>3. Root(s)' = NextBorn /\ NextBorn \in Procs /\ proc[NextBorn].life = "unborn"
  BY <1>1, Fresh DEF Started, Root
<1>4. proc'[NextBorn].pid = k BY <1>2, <1>3 DEF Born, StateInv, NodeInv
<1>5. Pid(Root(s))' = k BY <1>3, <1>4, AttributionAssumption DEF Pid, AttributionAssumption
<1> QED BY <1>1, <1>2, <1>3, <1>5 DEF Started, RootInv

LEMMA EndStep ==
  ASSUME StateInv, RootInv, DeadInv, AttributionAssumption, [Next]_vars,
         NEW s \in Scopes, EndInv(s)
  PROVE  EndInv(s)'
<1>1. ASSUME window'[s].to # 0
      PROVE  s \in stale' \/ exitAt'[s] # 0 \/ window'[s].to = recorder'[s].ended
  <2>1. CASE window'[s].to = window[s].to
    <3>1. CASE s \in stale \/ exitAt[s] # 0 BY <3>1, HistoryMoves
    <3>2. CASE window[s].to = recorder[s].ended
      <4>1. recorder[s].at # "new" /\ recorder[s].ended # 0
        BY <1>1, <2>1, <3>2 DEF RootInv, StateInv, RecorderInv
      <4>2. recorder'[s].ended = recorder[s].ended
        BY <4>1, RecorderMoves
           DEF Started, NotStarted, Moved, Finished, Kept, StateInv, RootInv
      <4> QED BY <2>1, <3>2, <4>2
    <3> QED BY <1>1, <2>1, <3>1, <3>2 DEF EndInv
  <2>2. CASE EndedByExit(s)
    <3>1. line.at # 0 BY <2>2 DEF EndedByExit, CloseBindingByPID, DeadInv, NoLine
    <3> QED BY <2>2, <3>1 DEF EndedByExit
  <2>3. CASE EndedByRecorder(s) BY <2>3 DEF EndedByRecorder
  <2> QED BY <2>1, <2>2, <2>3, WindowMoves DEF Inserted
<1> QED BY <1>1 DEF EndInv

LEMMA AfterStep ==
  ASSUME StateInv, RootInv, AttributionAssumption, [Next]_vars,
         NEW s \in Scopes, Root(s)' # NoProc, Root(s) # NoProc => AfterInv(s)
  PROVE  AfterInv(s)'
<1>0. clock \in Nat /\ recorder[s].from \in Nat /\ recorder[s].from <= clock
  BY DEF StateInv, RecorderInv, RecorderRow, RootInv
<1>1. CASE Root(s) = NoProc
  <2>1. /\ recorder'[s].ended = 0 /\ proc[Root(s)'].life = "unborn"
    BY <1>1, RootNew
  <2>2. \A j \in DOMAIN stream : stream[j].proc # Root(s)'
    BY <2>1 DEF StateInv, SensorInv
  <2>3. \A i \in DOMAIN stream' : stream'[i].proc # Root(s)'
    BY <2>1, <2>2, StreamMoves
  <2> QED BY <2>1, <2>3 DEF AfterInv
<1>2. CASE Root(s) # NoProc
  <2>1. /\ Root(s) \in Procs /\ Root(s)' = Root(s) /\ recorder'[s].from = recorder[s].from
    BY <1>2, RootKept
  <2>2. \A i \in DOMAIN stream' : stream'[i].proc = Root(s)' => recorder'[s].from < stream'[i].at
    BY <1>0, <1>2, <2>1, StreamMoves DEF AfterInv
  <2>3. ASSUME recorder'[s].ended # 0 PROVE HeldAfter(Root(s)', recorder'[s].ended)
    <3>1. CASE recorder[s].ended # 0
      <4>1. recorder'[s].ended = recorder[s].ended
        BY <1>2, <3>1, RecorderMoves
           DEF Started, NotStarted, Moved, Finished, Kept, StateInv, RootInv
      <4>2. HeldBefore(Root(s), recorder[s].ended) BY <1>2, <3>1 DEF AfterInv
      <4>3. HeldAfter(Root(s), recorder[s].ended) BY <2>1, <4>2, HeldBeforeStays
      <4> QED BY <2>1, <4>1, <4>3
    <3>2. CASE recorder[s].ended = 0
      <4>1. /\ recorder[s].at = "grace" /\ recorder'[s].ended = clock'
            /\ clock' = clock + 2
        BY <1>2, <2>3, <3>2, RecorderMoves
           DEF Started, NotStarted, Moved, Finished, Kept, StateInv, RootInv
      <4>2. Gone(Root(s)) BY <1>2, <4>1 DEF RootInv
      <4>3. HeldAfter(Root(s), clock + 2) BY <1>0, <2>1, <4>2, HeldBeforeNow
      <4> QED BY <2>1, <4>1, <4>3
    <3> QED BY <3>1, <3>2
  <2>4. recorder'[s].ended # 0 => HeldBefore(Root(s), recorder[s].ended)'
    BY <2>3 DEF HeldBefore, HeldAfter, Gone
  <2> QED BY <2>2, <2>4 DEF AfterInv
<1> QED BY <1>1, <1>2

(* Two roots with one pid: the later one was born when the first was gone. *)
LEMMA SuccStep ==
  ASSUME StateInv, RootInv, RootInv', AttributionAssumption, [Next]_vars,
         NEW s \in Scopes, Root(s)' # NoProc, Root(s) # NoProc => SuccInv(s)
  PROVE  SuccInv(s)'
<1>0. /\ clock \in Nat /\ NoPid \notin Pids
      /\ \A t \in Scopes : recorder[t].from \in Nat /\ recorder[t].from <= clock
  BY AttributionAssumption
     DEF AttributionAssumption, StateInv, RecorderInv, RecorderRow, RootInv
<1>1. Pid(Root(s))' \in Pids BY RootKept, RootNew
<1>2. ASSUME NEW t \in Scopes \ {s}, Pid(Root(t))' = Pid(Root(s))',
             recorder'[s].from <= recorder'[t].from
      PROVE  recorder'[s].from < recorder'[t].from /\ HeldAfter(Root(s)', recorder'[t].from)
  <2>1. Root(t)' # NoProc BY <1>0, <1>1, <1>2 DEF Pid
  <2>2. CASE Root(s) # NoProc /\ Root(t) # NoProc
    <3>1. /\ Root(s) \in Procs /\ Root(s)' = Root(s) /\ Pid(Root(s))' = Pid(Root(s))
          /\ recorder'[s].from = recorder[s].from /\ recorder'[t].from = recorder[t].from
          /\ Pid(Root(t))' = Pid(Root(t))
      BY <2>2, RootKept
    <3>2. recorder[s].from < recorder[t].from /\ HeldBefore(Root(s), recorder[t].from)
      BY <1>2, <2>2, <3>1 DEF SuccInv
    <3>3. HeldAfter(Root(s), recorder[t].from) BY <3>1, <3>2, HeldBeforeStays
    <3> QED BY <3>1, <3>2, <3>3
  <2>3. CASE Root(s) # NoProc /\ Root(t) = NoProc
    <3>1. /\ Root(s) \in Procs /\ proc[Root(s)].life # "unborn"
          /\ Root(s)' = Root(s) /\ Pid(Root(s))' = Pid(Root(s))
          /\ recorder'[s].from = recorder[s].from
      BY <2>3, RootKept
    <3>2. recorder'[t].from = clock + 1 /\ ~Held(Pid(Root(t))')
      BY <2>1, <2>3, RootNew
    <3>3. proc[Root(s)].pid = Pid(Root(t))' BY <1>2, <2>3, <3>1 DEF Pid
    <3>4. Gone(Root(s))
      BY <3>1, <3>2, <3>3 DEF Held, Gone, StateInv, NodeInv, Process
    <3>5. HeldAfter(Root(s), clock + 1) BY <1>0, <3>1, <3>4, HeldBeforeNow
    <3> QED BY <1>0, <3>1, <3>2, <3>5
  <2>4. CASE Root(s) = NoProc
    <3>1. recorder'[s].from = clock + 1 /\ proc[Root(s)'].life = "unborn"
      BY <2>4, RootNew
    <3>2. CASE Root(t) # NoProc
      <4>1. recorder'[t].from = recorder[t].from BY <3>2, RootKept
      <4>2. recorder[t].from \in Nat /\ recorder[t].from <= clock BY <1>0
      <4> QED BY <1>0, <1>2, <3>1, <4>1, <4>2
    <3>3. CASE Root(t) = NoProc
      <4>1. Started(s) /\ Started(t)
        BY <2>1, <2>4, <3>3, RecorderMoves
           DEF NotStarted, Moved, Finished, Kept, StateInv, Root
      <4>2. Root(s)' = Root(t)' BY <4>1 DEF Started, Root
      <4>3. proc'[Root(s)'].home = s /\ proc'[Root(t)'].home = t
        BY <2>1 DEF RootInv
      <4> QED BY <4>2, <4>3
    <3> QED BY <3>2, <3>3
  <2> QED BY <2>2, <2>3, <2>4
<1>3. ASSUME NEW t \in Scopes \ {s}, Pid(Root(t))' = Pid(Root(s))',
             recorder'[s].from <= recorder'[t].from
      PROVE  recorder'[s].from < recorder'[t].from /\ HeldBefore(Root(s), recorder[t].from)'
  BY <1>2, <1>3 DEF HeldBefore, HeldAfter, Gone
<1> QED BY <1>3 DEF SuccInv

(* What another recorder sees, or writes, with the pid of a root. *)
LEMMA SeenStep ==
  ASSUME StateInv, RootInv, AttributionAssumption, [Next]_vars,
         NEW s \in Scopes, Root(s)' # NoProc, Root(s) # NoProc => SeenInv(s)
  PROVE  SeenInv(s)'
<1>0. clock \in Nat /\ recorder[s].from \in Nat /\ recorder[s].from <= clock
  BY DEF StateInv, RecorderInv, RecorderRow, RootInv
<1>1. ASSUME NEW t \in Scopes, Pid(Root(t))' # Pid(Root(s))',
             NEW o \in seen'[t], o.pid = Pid(Root(s))'
      PROVE  o.from < recorder'[s].from \/ HeldAfter(Root(s)', o.from)
  <2>1. CASE Root(s) = NoProc
    <3>1. recorder'[s].from = clock + 1 /\ recorder[s].at = "new" BY <2>1, RootNew
    <3>2. recorder'[s] # recorder[s] BY <2>1 DEF Root
    <3>3. ~Sample(t) BY <3>2 DEF Sample
    <3>4. o \in seen[t] BY <1>1, <3>3, SeenMoves DEF StateInv
    <3>5. o.from \in Nat /\ o.from <= o.to /\ o.to \in Nat /\ o.to <= clock
      BY <3>4 DEF StateInv, SampleInv, Sighting, Interval
    <3> QED BY <1>0, <3>1, <3>5
  <2>2. CASE Root(s) # NoProc
    <3>1. /\ Root(s) \in Procs /\ Root(s)' = Root(s) /\ Pid(Root(s))' = Pid(Root(s))
          /\ recorder'[s].from = recorder[s].from
      BY <2>2, RootKept
    <3>2. seen[t] # {} => Root(t) # NoProc \/ Root(t)' = NoProc
      BY RootNew DEF RootInv
    <3>3. Root(t) # NoProc \/ Root(t)' = NoProc
      <4>1. Sample(t) => recorder[t].at # "new" BY DEF Sample
      <4>2. seen[t] # {} \/ recorder[t].at # "new" BY <1>1, <4>1, SeenMoves DEF StateInv
      <4> QED BY <3>2, <4>2, RootNew
    <3>4. Pid(Root(t)) # Pid(Root(s))
      <4>1. CASE Root(t) # NoProc BY <1>1, <3>1, <4>1, RootKept
      <4>2. CASE Root(t) = NoProc
        <5>1. NoPid \notin Pids BY AttributionAssumption DEF AttributionAssumption
        <5> QED BY <2>2, <4>2, <5>1, RootKept DEF Pid
      <4> QED BY <4>1, <4>2
    <3>5. ASSUME NEW u \in seen[t], u.pid = o.pid, u.from = o.from
          PROVE  o.from < recorder[s].from \/ HeldAfter(Root(s), o.from)
      <4>1. u.from < recorder[s].from \/ HeldBefore(Root(s), u.from)
        BY <1>1, <2>2, <3>1, <3>4, <3>5 DEF SeenInv
      <4> QED BY <3>1, <3>5, <4>1, HeldBeforeStays
    <3>6. CASE Sample(t) /\ o \in Observed(t, clock')
      <4>1. clock' = clock + 1 BY <3>6 DEF Sample
      <4>2. \/ \E u \in seen[t] : u.pid = o.pid /\ u.from = o.from
            \/ o.from = clock + 1 /\ Gone(Root(s))
        BY <1>1, <2>2, <3>1, <3>4, <3>6, <4>1, ForeignSighting
      <4>3. Gone(Root(s)) => HeldAfter(Root(s), clock + 1) BY <1>0, <3>1, HeldBeforeNow
      <4> QED BY <3>1, <3>5, <4>2, <4>3
    <3>7. o \in seen[t] \/ (Sample(t) /\ o \in Observed(t, clock'))
      BY <1>1, SeenMoves DEF StateInv
    <3> QED BY <3>1, <3>5, <3>6, <3>7
  <2> QED BY <2>1, <2>2
<1>2. ASSUME NEW t \in Scopes, Pid(Root(t))' # Pid(Root(s))',
             NEW o \in seen'[t], o.pid = Pid(Root(s))'
      PROVE  o.from < recorder'[s].from \/ HeldBefore(Root(s), o.from)'
  BY <1>1, <1>2 DEF HeldBefore, HeldAfter, Gone
<1> QED BY <1>2 DEF SeenInv

LEMMA KinStep ==
  ASSUME StateInv, RootInv, AttributionAssumption, [Next]_vars,
         NEW s \in Scopes, Root(s)' # NoProc, Root(s) # NoProc => SeenInv(s) /\ KinInv(s)
  PROVE  KinInv(s)'
<1>0. clock \in Nat /\ recorder[s].from \in Nat /\ recorder[s].from <= clock
  BY DEF StateInv, RecorderInv, RecorderRow, RootInv
<1>1. ASSUME NEW row \in kin', row.pid = Pid(Root(s))', row.root # row.pid
      PROVE  row.from < recorder'[s].from \/ HeldAfter(Root(s)', row.from)
  <2>1. CASE Root(s) = NoProc
    <3>1. recorder'[s].from = clock + 1 /\ clock' = clock + 1 BY <2>1, RootNew
    <3>2. \A t \in Scopes : \A stored : ~Finish(t, stored) BY <1>0, <3>1 DEF Finish
    <3>3. row \in kin BY <1>1, <3>2, KinMoves
    <3>4. row.from \in Nat /\ row.from <= row.to /\ row.to \in Nat /\ row.to <= clock
      BY <3>3 DEF StateInv, SampleInv, KinOf, Interval
    <3> QED BY <1>0, <3>1, <3>4
  <2>2. CASE Root(s) # NoProc
    <3>1. /\ Root(s) \in Procs /\ Root(s)' = Root(s) /\ Pid(Root(s))' = Pid(Root(s))
          /\ recorder'[s].from = recorder[s].from
      BY <2>2, RootKept
    <3>2. CASE row \in kin
      <4>1. row.from < recorder[s].from \/ HeldBefore(Root(s), row.from)
        BY <1>1, <2>2, <3>1, <3>2 DEF KinInv
      <4> QED BY <3>1, <4>1, HeldBeforeStays
    <3>3. ASSUME NEW t \in Scopes, NEW o \in Observed(t, clock + 1), row = KinRow(t, o)
          PROVE  row.from < recorder[s].from \/ HeldAfter(Root(s), row.from)
      <4>1. row.pid = o.pid /\ row.root = Pid(Root(t)) /\ row.from = o.from
        BY <3>3 DEF KinRow, Root
      <4>2. Pid(Root(t)) # Pid(Root(s)) /\ o.pid = Pid(Root(s)) BY <1>1, <3>1, <4>1
      <4>3. \/ \E u \in seen[t] : u.pid = o.pid /\ u.from = o.from
            \/ o.from = clock + 1 /\ Gone(Root(s))
        BY <2>2, <4>2, ForeignSighting
      <4>4. Gone(Root(s)) => HeldAfter(Root(s), clock + 1) BY <1>0, <3>1, HeldBeforeNow
      <4>5. ASSUME NEW u \in seen[t], u.pid = o.pid, u.from = o.from
            PROVE  row.from < recorder[s].from \/ HeldAfter(Root(s), row.from)
        <5>1. u.from < recorder[s].from \/ HeldBefore(Root(s), u.from)
          BY <2>2, <4>2, <4>5 DEF SeenInv
        <5> QED BY <3>1, <4>1, <4>5, <5>1, HeldBeforeStays
      <4> QED BY <4>1, <4>3, <4>4, <4>5
    <3>4. row \in kin \/ \E t \in Scopes : \E o \in Observed(t, clock + 1) : row = KinRow(t, o)
      <4>1. ASSUME NEW t \in Scopes, NEW stored, Finish(t, stored)
            PROVE  row \in kin \/ \E o \in Observed(t, clock + 1) : row = KinRow(t, o)
        BY <1>1, <4>1 DEF Finish
      <4> QED BY <1>1, <4>1, KinMoves
    <3> QED BY <3>1, <3>2, <3>3, <3>4
  <2> QED BY <2>1, <2>2
<1>2. ASSUME NEW row \in kin', row.pid = Pid(Root(s))', row.root # row.pid
      PROVE  row.from < recorder'[s].from \/ HeldBefore(Root(s), row.from)'
  BY <1>1, <1>2 DEF HeldBefore, HeldAfter, Gone
<1> QED BY <1>2 DEF KinInv

LEMMA OwnStep ==
  ASSUME StateInv, RootInv, DeadInv, OwnInv, AttributionAssumption, [Next]_vars
  PROVE  OwnInv'
<1>1. RootInv' BY RootStep
<1>2. ASSUME NEW s \in Scopes PROVE EndInv(s)' BY EndStep DEF OwnInv
<1>3. ASSUME NEW s \in Scopes, Root(s)' # NoProc
      PROVE  AfterInv(s)' /\ SuccInv(s)' /\ SeenInv(s)' /\ KinInv(s)'
  BY <1>1, <1>3, AfterStep, SuccStep, SeenStep, KinStep DEF OwnInv
<1> QED BY <1>2, <1>3 DEF OwnInv

-----------------------------------------------------------------------------
(* What is ingested of a running root joins its own scope. *)
LEMMA OwnIngest ==
  ASSUME StateInv, RootInv, LastInv, OwnInv, AttributionAssumption, [Next]_vars, Ingest
  PROVE  OwnWhileAlive'
<1> DEFINE r == Head(stream)
           p == r.proc
           at == r.at
<1>1. stream \in Seq(Stamped) /\ stream # <<>> BY DEF Ingest, StateInv, SensorInv
<1>2. /\ r \in Stamped /\ 1 \in DOMAIN stream /\ r = stream[1] BY <1>1
<1>3. p \in Procs /\ at \in Nat /\ r.held \in BOOLEAN BY <1>2 DEF Stamped
<1>4. /\ UNCHANGED <<proc, recorder, kin, window, stale>>
      /\ line'.proc = p /\ line'.at = at /\ line'.held = r.held
      /\ line'.scope = Resolve(p, at).scope
      /\ line'.own = (IF proc[p].home = NoScope THEN NoLine.own ELSE window[proc[p].home])
      /\ line'.fooled = (proc[p].home \in stale)
  BY DEF Ingest, Resolved, node, rows, history
<1>5. 1 \in DOMAIN stream /\ stream[1].proc = p /\ stream[1].at = at /\ stream[1].held = r.held
  BY <1>2
<1> HIDE DEF r, p, at
<1>6. ASSUME NEW s \in Scopes, Root(s) = p, r.held, window[s].bound, s \notin stale,
             window[s].to # 0 \/ at - recorder[s].from <= MaxOpenBindingAge,
             \A row \in kin : row.scope # s /\ row.root = Pid(p) => row.to < recorder[s].from
      PROVE  Resolve(p, at).scope = s
  <2> DEFINE mine == RootRow(s)
  <2>0. Root(s) # NoProc BY <1>3, <1>6, AttributionAssumption DEF AttributionAssumption
  <2>1. /\ recorder[s].from \in Nat /\ window[s].to \in Nat /\ recorder[s].ended \in Nat
        /\ recorder[s].from < at
    BY <1>5, <1>6, <2>0 DEF StateInv, RecorderInv, RecorderRow, WindowRow, OwnInv, AfterInv
  <2>2. \A time : HeldBefore(p, time) => at < time BY <1>5, <1>6 DEF HeldBefore
  <2>3. window[s].to # 0 => at < window[s].to
    <3>1. Queued(p, stream) BY <1>5 DEF Queued
    <3>2. exitAt[s] = 0 BY <1>6, <3>1 DEF LastInv
    <3> QED BY <1>6, <2>0, <2>2, <3>2 DEF OwnInv, EndInv, AfterInv
  <2>4. Pid(p) = proc[p].pid /\ proc[p].home = s
    BY <1>3, <1>6, <2>0 DEF Pid, RootInv
  <2>5. /\ mine \in Rows /\ mine.scope = s /\ mine.pid = proc[p].pid /\ mine.root = proc[p].pid
        /\ mine.from = recorder[s].from /\ mine.to = window[s].to
    BY <1>6, <2>4 DEF Rows, RootRow, Root
  <2> HIDE DEF mine
  <2>6. Covers(mine, at) BY <1>3, <2>1, <2>3, <2>5 DEF Covers
  <2>7. MaxOpenBindingAge \in Nat BY AttributionAssumption DEF AttributionAssumption
  <2>8. mine \in ByPid(p, at) BY <1>3, <1>6, <2>1, <2>5, <2>6, <2>7 DEF ByPid
  <2>9. CASE ByCgroup(p, at) # {}
    <3>1. Resolve(p, at) \in ByCgroup(p, at) BY <1>3, <2>9, ResolveIsRow
    <3> QED BY <2>4, <3>1 DEF ByCgroup
  <2>10. CASE ByCgroup(p, at) = {}
    <3> DEFINE row == Latest(ByPid(p, at))
    <3>1. Resolve(p, at) = row BY <2>8, <2>10 DEF Resolve
    <3>2. \A other \in ByPid(p, at) : other.from \in Nat /\ other.from <= at
      BY RowsTyped DEF ByPid, Covers
    <3>3. row \in ByPid(p, at) /\ row.from >= mine.from
      BY <1>3, <2>8, <3>2, LatestIsOne
    <3> HIDE DEF row
    <3>4. /\ row \in Rows /\ proc[p].pid \in {row.pid, row.root} /\ row.from \in Nat
          /\ row.from <= at /\ recorder[s].from <= row.from
      BY <2>1, <2>5, <3>2, <3>3 DEF ByPid
    <3>5. ASSUME NEW t \in Scopes, window[t].bound, row = RootRow(t) PROVE row.scope = s
      <4>1. /\ row.scope = t /\ row.pid = Pid(Root(t)) /\ row.root = Pid(Root(t))
            /\ row.from = recorder[t].from
        BY <3>5 DEF RootRow, Root
      <4>2. ASSUME t # s PROVE FALSE
        <5>1. HeldBefore(p, recorder[t].from)
          BY <1>6, <2>0, <2>4, <3>4, <4>1, <4>2 DEF OwnInv, SuccInv
        <5>2. at < recorder[t].from BY <2>2, <5>1
        <5> QED BY <1>3, <3>4, <4>1, <5>2
      <4> QED BY <4>1, <4>2
    <3>6. CASE row \in kin
      <4>1. row.from <= row.to /\ row.to \in Nat
        BY <3>6 DEF StateInv, SampleInv, KinOf, Interval
      <4>2. CASE row.root = Pid(p)
        <5>1. row.to \in Nat /\ ~(row.to < recorder[s].from) BY <2>1, <3>4, <4>1
        <5> QED BY <1>6, <3>1, <3>6, <4>2, <5>1
      <4>3. CASE row.root # Pid(p)
        <5>1. row.pid = Pid(Root(s)) /\ row.root # row.pid BY <1>6, <2>4, <3>4, <4>3
        <5>2. row.from < recorder[s].from \/ HeldBefore(p, row.from)
          BY <1>6, <2>0, <3>6, <5>1 DEF OwnInv, KinInv
        <5>3. HeldBefore(p, row.from) BY <2>1, <3>4, <5>2
        <5>4. at < row.from BY <2>2, <5>3
        <5> QED BY <1>3, <3>4, <5>4
      <4> QED BY <4>2, <4>3
    <3> QED BY <3>1, <3>4, <3>5, <3>6 DEF Rows
  <2> QED BY <2>9, <2>10
<1>7. ASSUME NEW s \in Scopes, recorder'[s].root = line'.proc,
             line'.held, line'.own.bound, ~line'.fooled,
             line'.own.to # 0 \/ line'.at - recorder'[s].from <= MaxOpenBindingAge,
             \A row \in kin' : row.scope # s /\ row.root = Pid(line.proc)' =>
               row.to < recorder'[s].from
      PROVE  line'.scope = s
  <2>1. Root(s) = p /\ Root(s) # NoProc
    BY <1>3, <1>4, <1>7, AttributionAssumption DEF AttributionAssumption, Root
  <2>2. proc[p].home = s /\ s # NoScope
    BY <2>1, AttributionAssumption DEF RootInv, AttributionAssumption
  <2>3. line'.own = window[s] /\ line'.fooled = (s \in stale) BY <1>4, <2>2
  <2>4. Pid(line.proc)' = Pid(p) BY <1>4 DEF Pid
  <2> QED BY <1>4, <1>6, <1>7, <2>1, <2>3, <2>4
<1> QED BY <1>7 DEF OwnWhileAlive, RootOf

LEMMA OwnLine ==
  ASSUME StateInv, RootInv, LastInv, OwnInv, OwnWhileAlive, AttributionAssumption, [Next]_vars
  PROVE  OwnWhileAlive'
<1>1. CASE line' = NoLine BY <1>1 DEF OwnWhileAlive, NoLine
<1>2. CASE line' = line /\ line # NoLine
  <2>1. /\ line.proc \in Procs /\ proc[line.proc].life # "unborn" /\ line.proc # NoProc
    BY <1>2, AttributionAssumption DEF StateInv, SensorInv, AttributionAssumption
  <2>2. Pid(line.proc)' = Pid(line.proc)
    <3>1. proc'[line.proc].pid = proc[line.proc].pid BY <2>1, BornStays DEF StateInv
    <3> QED BY <1>2, <3>1 DEF Pid
  <2>3. ASSUME NEW s \in Scopes, recorder'[s].root = line.proc
        PROVE  Root(s) = line.proc /\ recorder'[s].from = recorder[s].from
    <3>1. Root(s)' = line.proc BY <2>3 DEF Root
    <3>2. Root(s) # NoProc BY <2>1, <3>1, RootNew
    <3> QED BY <3>1, <3>2, RootKept
  <2>4. kin \subseteq kin' BY KinMoves DEF Finish
  <2> QED BY <1>2, <2>2, <2>3, <2>4 DEF OwnWhileAlive, RootOf, Root
<1>3. CASE Ingest BY <1>3, OwnIngest
<1> QED BY <1>1, <1>2, <1>3, SensorMoves
        DEF Read, IngestFails, NextLine, CloseBindingByPID, CloseBindingByPIDFails

LEMMA OwnInit == AttributionAssumption /\ Init => LastInv /\ OwnInv /\ OwnWhileAlive
<1> SUFFICES ASSUME AttributionAssumption, Init PROVE LastInv /\ OwnInv /\ OwnWhileAlive
  OBVIOUS
<1> USE DEF Init
<1>1. LastInv BY DEF LastInv, ExitLast, ExitQueued, Queued, OnTheWay, NoLine
<1>2. OwnInv BY DEF OwnInv, EndInv, Root
<1>3. OwnWhileAlive BY DEF OwnWhileAlive, NoLine
<1> QED BY <1>1, <1>2, <1>3

(* An event of a recorded root that still had its pid when it was read      *)
(* joins the root's own scope, whatever other recordings left behind under  *)
(* that pid, with the exceptions the invariant names (binding.go, Resolve   *)
(* and resolveByPIDTree).                                                   *)
THEOREM OwnEventsJoin == Spec => []OwnWhileAlive
<1>1. ASSUME StateInv, RootInv, DeadInv, LastInv, OwnInv, OwnWhileAlive, [Next]_vars
      PROVE  LastInv' /\ OwnInv' /\ OwnWhileAlive'
  BY <1>1, AttributionAssumption, LastStep, OwnStep, OwnLine
<1> QED BY <1>1, AttributionAssumption, OwnInit, Inductive, RootsInductive, PTL DEF Spec
=============================================================================
