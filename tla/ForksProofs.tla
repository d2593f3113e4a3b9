----------------------------- MODULE ForksProofs -----------------------------
(***************************************************************************)
(* What Forks keeps for any number of clients, files, snapshots, attempts, *)
(* edits and failures.  A directory is in one of three conditions: a row   *)
(* names it and nobody writes it again; one client is filling it; or it    *)
(* was abandoned and nothing refers to it.  The invariant says which.      *)
(***************************************************************************)
EXTENDS Forks, FiniteSetTheorems, WellFoundedInduction, TLAPS

Tree == [Files -> Nat]
Positive == Nat \ {0}
Names == {Live} \cup {Snap(n) : n \in Nat} \cup {Work(k) : k \in Nat}
DeltaRow == [added : Nat, modified : Nat, deleted : Nat]
SnapshotRow == [named : BOOLEAN, session : BOOLEAN, parent : Nat, hash : Tree,
                delta : DeltaRow, stamp : Nat]
RequestRow == [at : {"idle", "copy", "parent", "insert", "template", "plan", "attempt"},
               kind : {"none", "session", "stack", "fork"}, from : Names, into : Names,
               next : Positive, asked : Nat, left : Nat, plan : Nat, parent : Nat,
               delta : DeltaRow, stamp : Nat]

(* The directories are trees, and ids are given out one after the other.   *)
DiskInv ==
  /\ DOMAIN dir \subseteq Names /\ Live \in DOMAIN dir
  /\ \A x \in DOMAIN dir : dir[x] \in Tree
  /\ \E m \in Nat : Snapshots = 1 .. m
  /\ \E m \in Nat : Attempts = 1 .. m

(* What a row of snapshots says of its directory and its parent.           *)
RowInv(n) ==
  /\ n \in Snapshots /\ row[n] \in SnapshotRow
  /\ dir[Snap(n)] = row[n].hash
  /\ row[n].stamp < now
  /\ row[n].parent # NoPlan => row[n].parent \in DOMAIN row
  /\ row[n].session /\ row[n].parent # NoPlan =>
       row[n].delta = Delta(row[row[n].parent].hash, row[n].hash)

AttemptInv(k) ==
  /\ k \in Attempts
  /\ attempt[k] \in DOMAIN row
  /\ dir[Work(k)] = row[attempt[k]].hash

(* A directory that is being filled: no row names it yet.                  *)
NewSnapshot(x) == \E n \in Snapshots : x = Snap(n) /\ n \notin DOMAIN row
NewAttempt(x) == \E k \in Attempts : x = Work(k) /\ k \notin DOMAIN attempt
InHand(j) ==
  CASE j.at = "template" -> {j.from}
    [] j.at \in {"copy", "parent", "insert"} -> {j.into}
    [] OTHER -> {}
Stamped(j) == j.at \in {"parent", "insert"}

(* What a client knows at each point of its request.                       *)
RequestInv(j) ==
  /\ j.at = "template" => j.kind = "stack" /\ NewSnapshot(j.from)
  /\ j.at = "copy" => \/ j.kind = "session" /\ j.from = Live /\ NewSnapshot(j.into)
                      \/ /\ j.kind = "stack" /\ NewSnapshot(j.into)
                         /\ \E a \in DOMAIN row : j.from = Snap(a)
                      \/ /\ j.kind = "fork" /\ j.left # 0 /\ NewAttempt(j.into)
                         /\ j.plan \in DOMAIN row /\ j.from = Snap(j.plan)
                         /\ \A f \in Files : f < j.next => dir[j.into][f] = row[j.plan].hash[f]
  /\ Stamped(j) => /\ NewSnapshot(j.into) /\ j.stamp < now
                   /\ \A n \in DOMAIN row : row[n].stamp # j.stamp
  /\ j.at = "insert" /\ j.parent # NoPlan =>
       j.parent \in DOMAIN row /\ j.delta = Delta(row[j.parent].hash, dir[j.into])
  /\ j.at \in {"plan", "attempt"} => j.kind = "fork" /\ j.left # 0
  /\ j.at = "attempt" => j.plan \in DOMAIN row

(* Clients share neither a directory they fill nor a stamp.                *)
Apart(i, j) ==
  /\ InHand(i) \cap InHand(j) = {}
  /\ Stamped(i) /\ Stamped(j) => i.stamp # j.stamp

Inv ==
  /\ now \in Nat
  /\ DiskInv
  /\ \A n \in DOMAIN row : RowInv(n)
  /\ \A m, n \in DOMAIN row : m # n => row[m].stamp # row[n].stamp
  /\ \A k \in DOMAIN attempt : AttemptInv(k)
  /\ \A e \in edge : e[2] \in DOMAIN attempt /\ attempt[e[2]] = e[1]
  /\ request \in [Clients -> RequestRow]
  /\ \A c \in Clients : RequestInv(request[c])
  /\ \A c, d \in Clients : c # d => Apart(request[c], request[d])

-----------------------------------------------------------------------------
(* The helpers. *)
LEMMA DeltaTyped ==
  ASSUME ForksAssumption, NEW old, NEW new
  PROVE  Delta(old, new) \in DeltaRow
<1>1. IsFiniteSet(Files) BY FS_Interval DEF ForksAssumption
<1>2. \A S \in SUBSET Files : Cardinality(S) \in Nat
  BY <1>1, FS_Subset, FS_CardinalityType
<1> QED BY <1>2 DEF Delta, DeltaRow

LEMMA RequestFields ==
  ASSUME NEW j \in RequestRow
  PROVE  j.next \in Nat /\ j.next # 0 /\ j.left \in Nat
  BY DEF RequestRow, Positive

LEMMA TreesEqual ==
  ASSUME NEW x \in Tree, NEW y \in Tree, \A f \in Files : x[f] = y[f]
  PROVE  x = y
  BY DEF Tree

(* Names of different kinds differ, and so do names of different numbers.  *)
LEMMA NamesDiffer ==
  /\ \A m, n : (Snap(m) = Snap(n) => m = n) /\ (Work(m) = Work(n) => m = n)
  /\ \A m, n : Snap(m) # Work(n)
  /\ \A n : Snap(n) # Live /\ Work(n) # Live
  BY DEF Snap, Work, Live

LEMMA SecondOfName == \A n : Snap(n)[2] = n /\ Work(n)[2] = n
  BY DEF Snap, Work

(* A set has a member with the least value, and one with the greatest.     *)
LEMMA LeastOf ==
  ASSUME NEW S, S # {}, NEW value, \A n \in S : value[n] \in Nat
  PROVE  \E n \in S : \A m \in S : value[n] <= value[m]
<1> DEFINE values == {value[n] : n \in S}
<1>1. values \subseteq Nat /\ values # {} OBVIOUS
<1>2. PICK x \in values : \A y \in values : ~(<<y, x>> \in OpToRel(<, Nat))
  BY <1>1, NatLessThanWellFounded, WFMin
<1>3. \A y \in values : x <= y
  <2>1. \A y \in values : ~(y < x) BY <1>1, <1>2 DEF OpToRel
  <2> HIDE DEF values
  <2> QED BY <1>1, <2>1
<1> QED BY <1>3

LEMMA GreatestOf ==
  ASSUME NEW S, S # {}, NEW bound \in Nat, NEW value,
         \A n \in S : value[n] \in Nat /\ value[n] <= bound
  PROVE  \E n \in S : \A m \in S : value[m] <= value[n]
<1> DEFINE rest == [n \in S |-> bound - value[n]]
<1>1. \A n \in S : rest[n] = bound - value[n] /\ rest[n] \in Nat OBVIOUS
<1> HIDE DEF rest
<1>2. PICK n \in S : \A m \in S : rest[n] <= rest[m] BY <1>1, LeastOf
<1> QED BY <1>1, <1>2

(* PlanWithPolicy returns one of its candidates, whatever the policy: of   *)
(* those of the least delta, where that counts, one has the last stamp.    *)
LEMMA BestIsOne ==
  ASSUME ForksAssumption, Inv, NEW policy, NEW S \in SUBSET DOMAIN row, S # {}
  PROVE  Best(policy, S) \in S
<1> DEFINE size == [n \in S |-> Size(row[n].delta)]
           stamp == [n \in S |-> row[n].stamp]
<1>1. \A n \in S : size[n] = Size(row[n].delta) /\ size[n] \in Nat
  <2>1. \A n \in S : row[n].delta \in DeltaRow BY DEF Inv, RowInv, SnapshotRow
  <2> QED BY <2>1 DEF DeltaRow, Size
<1>2. \A n \in S : stamp[n] = row[n].stamp /\ stamp[n] \in Nat /\ stamp[n] <= now
  BY DEF Inv, RowInv, SnapshotRow
<1>3. \A m, n \in S : m # n => stamp[m] # stamp[n] BY DEF Inv
<1>4. now \in Nat BY DEF Inv
<1> HIDE DEF size, stamp
<1>5. CASE policy # "smallest-delta"
  <2>1. PICK n \in S : \A m \in S : stamp[m] <= stamp[n] BY <1>2, <1>4, GreatestOf
  <2>2. \A m \in S \ {n} : Beats(policy, n, m) BY <1>2, <1>3, <1>5, <2>1 DEF Beats
  <2> QED BY <2>2 DEF Best
<1>6. CASE policy = "smallest-delta"
  <2>1. PICK least \in S : \A m \in S : size[least] <= size[m] BY <1>1, LeastOf
  <2> DEFINE T == {n \in S : size[n] = size[least]}
  <2>2. PICK n \in T : \A m \in T : stamp[m] <= stamp[n]
    BY <1>2, <1>4, GreatestOf
  <2>3. \A m \in S \ {n} : Beats(policy, n, m)
    BY <1>1, <1>2, <1>3, <1>6, <2>1, <2>2 DEF Beats
  <2> QED BY <2>3 DEF Best
<1> QED BY <1>5, <1>6

-----------------------------------------------------------------------------
(* What a step of client c may change: its own request, the directory it   *)
(* has in hand, the workspace, and rows for what it has in hand.           *)
Progress(c) ==
  /\ now' \in Nat /\ now <= now'
  /\ \E r \in RequestRow : Goto(c, r)
  /\ \A x \in DOMAIN dir : x \in DOMAIN dir' /\ (x \in InHand(request[c]) \cup {Live} \/ dir'[x] = dir[x])
  /\ \A n \in DOMAIN row : n \in DOMAIN row' /\ row'[n] = row[n]
  /\ \A n \in DOMAIN row' : n \notin DOMAIN row => Snap(n) \in InHand(request[c])
  /\ \A n \in DOMAIN row' : n \notin DOMAIN row =>
       \/ row'[n].stamp = now /\ now < now'
       \/ Stamped(request[c]) /\ row'[n].stamp = request[c].stamp
  /\ \A k \in DOMAIN attempt : k \in DOMAIN attempt' /\ attempt'[k] = attempt[k]
  /\ \A k \in DOMAIN attempt' : k \notin DOMAIN attempt => Work(k) \in InHand(request[c])

(* What it must see to: what it adds is in order, and so is what it then   *)
(* has in hand, which was its own or did not exist.                        *)
OwnInv(c) ==
  /\ \A n \in DOMAIN row' : n \notin DOMAIN row => RowInv(n)'
  /\ \A m, n \in DOMAIN row' : m \notin DOMAIN row /\ n \notin DOMAIN row => m = n
  /\ \A k \in DOMAIN attempt' : k \notin DOMAIN attempt => AttemptInv(k)'
  /\ \A e \in edge' : e[2] \in DOMAIN attempt' /\ attempt'[e[2]] = e[1]
  /\ RequestInv(request[c])'
  /\ \A x \in InHand(request'[c]) : x \in InHand(request[c]) \/ x \notin DOMAIN dir
  /\ Stamped(request'[c]) => \/ Stamped(request[c]) /\ request'[c].stamp = request[c].stamp
                             \/ request'[c].stamp = now

(* What a client has in hand exists, and no row names it. *)
LEMMA HandIsNew ==
  ASSUME Inv, NEW c \in Clients, NEW x \in InHand(request[c])
  PROVE  x \in DOMAIN dir /\ x # Live /\ (NewSnapshot(x) \/ NewAttempt(x))
<1>1. NewSnapshot(x) \/ NewAttempt(x)
  BY DEF Inv, RequestInv, InHand, RequestRow, Stamped
<1>2. \A n \in Snapshots : Snap(n) \in DOMAIN dir BY DEF Snapshots
<1>3. \A k \in Attempts : Work(k) \in DOMAIN dir BY DEF Attempts
<1> QED BY <1>1, <1>2, <1>3, NamesDiffer DEF NewSnapshot, NewAttempt

LEMMA DirectoriesStay ==
  ASSUME Inv, NEW c \in Clients, Progress(c)
  PROVE  /\ \A n \in Snapshots : n \in Snapshots' /\ (Snap(n) \notin InHand(request[c]) => dir'[Snap(n)] = dir[Snap(n)])
         /\ \A k \in Attempts : k \in Attempts' /\ (Work(k) \notin InHand(request[c]) => dir'[Work(k)] = dir[Work(k)])
  BY NamesDiffer DEF Progress, Snapshots, Attempts

(* What a row names is in nobody's hand. *)
LEMMA NamedIsSettled ==
  ASSUME Inv, NEW c \in Clients
  PROVE  /\ \A n \in DOMAIN row : n \in Snapshots /\ Snap(n) \notin InHand(request[c])
         /\ \A k \in DOMAIN attempt : k \in Attempts /\ Work(k) \notin InHand(request[c])
<1>1. ASSUME NEW n \in DOMAIN row PROVE n \in Snapshots /\ Snap(n) \notin InHand(request[c])
  BY HandIsNew, NamesDiffer DEF Inv, RowInv, NewSnapshot, NewAttempt
<1>2. ASSUME NEW k \in DOMAIN attempt PROVE k \in Attempts /\ Work(k) \notin InHand(request[c])
  BY HandIsNew, NamesDiffer DEF Inv, AttemptInv, NewSnapshot, NewAttempt
<1> QED BY <1>1, <1>2

(* The rows there were say what they said. *)
LEMMA RowsStay ==
  ASSUME Inv, NEW c \in Clients, Progress(c)
  PROVE  /\ \A n \in DOMAIN row : RowInv(n)'
         /\ \A k \in DOMAIN attempt : AttemptInv(k)'
<1>1. ASSUME NEW n \in DOMAIN row PROVE RowInv(n)'
  <2>1. RowInv(n) /\ now \in Nat BY DEF Inv
  <2>2. row'[n] = row[n] /\ n \in Snapshots' /\ dir'[Snap(n)] = dir[Snap(n)]
    BY NamedIsSettled, DirectoriesStay DEF Progress
  <2>3. row[n].stamp < now' BY <2>1 DEF Progress, RowInv, SnapshotRow
  <2>4. row[n].parent \in DOMAIN row =>
          row[n].parent \in DOMAIN row' /\ row'[row[n].parent] = row[row[n].parent]
    BY DEF Progress
  <2> QED BY <2>1, <2>2, <2>3, <2>4 DEF RowInv, NoPlan, Delta
<1>2. ASSUME NEW k \in DOMAIN attempt PROVE AttemptInv(k)'
  <2>1. AttemptInv(k) BY DEF Inv
  <2>2. attempt'[k] = attempt[k] /\ k \in Attempts' /\ dir'[Work(k)] = dir[Work(k)]
    BY NamedIsSettled, DirectoriesStay DEF Progress
  <2>3. attempt[k] \in DOMAIN row' /\ row'[attempt[k]] = row[attempt[k]]
    BY <2>1 DEF Progress, AttemptInv
  <2> QED BY <2>1, <2>2, <2>3 DEF AttemptInv
<1> QED BY <1>1, <1>2

(* Nor do the requests of other clients notice. *)
LEMMA OthersStay ==
  ASSUME Inv, NEW c \in Clients, Progress(c), NEW d \in Clients, d # c
  PROVE  RequestInv(request[d])' /\ request'[d] = request[d]
<1> PICK j : j = request[d] OBVIOUS
<1>1. request'[d] = j BY DEF Progress, Goto, Inv
<1>2. RequestInv(j) /\ j \in RequestRow /\ InHand(j) \cap InHand(request[c]) = {} /\ now \in Nat
  BY DEF Inv, Apart
<1>3. \A n \in Snapshots : Snap(n) \in InHand(j) /\ n \notin DOMAIN row =>
                             n \in Snapshots' /\ n \notin DOMAIN row' /\ dir'[Snap(n)] = dir[Snap(n)]
  BY <1>2, DirectoriesStay DEF Progress
<1>4. \A k \in Attempts : Work(k) \in InHand(j) /\ k \notin DOMAIN attempt =>
                            k \in Attempts' /\ k \notin DOMAIN attempt' /\ dir'[Work(k)] = dir[Work(k)]
  BY <1>2, DirectoriesStay DEF Progress
<1>5. \A x \in InHand(j) : /\ NewSnapshot(x) => NewSnapshot(x)' /\ dir'[x] = dir[x]
                           /\ NewAttempt(x) => NewAttempt(x)' /\ dir'[x] = dir[x]
  BY <1>3, <1>4 DEF NewSnapshot, NewAttempt
<1>6. \A n \in DOMAIN row : n \in DOMAIN row' /\ row'[n] = row[n] BY DEF Progress
<1>7. Stamped(j) => j.stamp < now' /\ \A n \in DOMAIN row' : row'[n].stamp # j.stamp
  <2>1. SUFFICES ASSUME Stamped(j), NEW n \in DOMAIN row'
                 PROVE  j.stamp < now' /\ row'[n].stamp # j.stamp
    BY <1>2 DEF RequestInv, RequestRow, Progress, Stamped
  <2>2. j.stamp < now /\ j.stamp \in Nat BY <1>2, <2>1 DEF RequestInv, RequestRow
  <2>3. Stamped(request[c]) => request[c].stamp # j.stamp BY <2>1 DEF Inv, Apart
  <2>4. n \in DOMAIN row => row[n].stamp # j.stamp BY <1>2, <2>1 DEF RequestInv
  <2> QED BY <1>2, <2>2, <2>3, <2>4 DEF Progress
<1>8. j.at \in {"copy", "parent", "insert"} => j.into \in InHand(j) BY DEF InHand
<1>9. j.at = "template" => j.from \in InHand(j) BY DEF InHand
<1>10. RequestInv(j)'
  <2>1. j.at = "template" => j.kind = "stack" /\ NewSnapshot(j.from)'
    BY <1>2, <1>5, <1>9 DEF RequestInv
  <2>2. Stamped(j) => NewSnapshot(j.into)' /\ dir'[j.into] = dir[j.into]
    BY <1>2, <1>5, <1>8 DEF RequestInv, Stamped
  <2>3. j.at = "copy" =>
          \/ j.kind = "session" /\ j.from = Live /\ NewSnapshot(j.into)'
          \/ /\ j.kind = "stack" /\ NewSnapshot(j.into)'
             /\ \E a \in DOMAIN row' : j.from = Snap(a)
          \/ /\ j.kind = "fork" /\ j.left # 0 /\ NewAttempt(j.into)'
             /\ j.plan \in DOMAIN row' /\ j.from = Snap(j.plan)
             /\ \A f \in Files : f < j.next => dir'[j.into][f] = row'[j.plan].hash[f]
    <3>1. j.at = "copy" =>
            /\ NewSnapshot(j.into) => NewSnapshot(j.into)' /\ dir'[j.into] = dir[j.into]
            /\ NewAttempt(j.into) => NewAttempt(j.into)' /\ dir'[j.into] = dir[j.into]
      BY <1>5, <1>8
    <3>2. CASE j.kind = "fork" BY <1>2, <1>6, <3>1, <3>2 DEF RequestInv
    <3>3. CASE j.kind # "fork" BY <1>2, <1>6, <3>1, <3>3 DEF RequestInv
    <3> QED BY <3>2, <3>3
  <2>4. j.at = "insert" /\ j.parent # NoPlan =>
          j.parent \in DOMAIN row' /\ j.delta = Delta(row'[j.parent].hash, dir'[j.into])
    BY <1>2, <1>6, <2>2 DEF RequestInv, Stamped
  <2>5. j.at = "attempt" => j.plan \in DOMAIN row' BY <1>2, <1>6 DEF RequestInv
  <2>6. j.at \in {"plan", "attempt"} => j.kind = "fork" /\ j.left # 0 BY <1>2 DEF RequestInv
  <2> QED BY <1>7, <2>1, <2>2, <2>3, <2>4, <2>5, <2>6 DEF RequestInv, NoPlan, Delta
<1> QED BY <1>1, <1>10 DEF RequestInv, NewSnapshot, NewAttempt, Delta

(* So such a step keeps the invariant. *)
LEMMA ProgressKeeps ==
  ASSUME Inv, NEW c \in Clients, Progress(c), OwnInv(c), DiskInv'
  PROVE  Inv'
<1>1. request' \in [Clients -> RequestRow] BY DEF Inv, Progress, Goto
<1>2. \A d \in Clients : RequestInv(request[d])' BY OthersStay DEF OwnInv
<1>3. \A n \in DOMAIN row' : RowInv(n)' BY RowsStay DEF OwnInv
<1>4. \A k \in DOMAIN attempt' : AttemptInv(k)' BY RowsStay DEF OwnInv
<1>5. ASSUME NEW m \in DOMAIN row', NEW n \in DOMAIN row', m # n
      PROVE  row'[m].stamp # row'[n].stamp
  <2>1. \A i \in DOMAIN row : row[i].stamp \in Nat /\ row[i].stamp < now /\ row'[i] = row[i]
    BY DEF Inv, RowInv, SnapshotRow, Progress
  <2>2. Stamped(request[c]) => \A i \in DOMAIN row : row[i].stamp # request[c].stamp
    BY DEF Inv, RequestInv
  <2>3. ASSUME NEW i \in DOMAIN row, NEW k \in DOMAIN row', k \notin DOMAIN row
        PROVE  row'[i].stamp # row'[k].stamp
    <3>1. row'[k].stamp = now \/ (Stamped(request[c]) /\ row'[k].stamp = request[c].stamp)
      BY <2>3 DEF Progress
    <3>2. now \in Nat BY DEF Inv
    <3> QED BY <2>1, <2>2, <3>1, <3>2
  <2>4. m \in DOMAIN row \/ n \in DOMAIN row BY <1>5 DEF OwnInv
  <2>5. CASE m \in DOMAIN row /\ n \in DOMAIN row BY <1>5, <2>1, <2>5 DEF Inv
  <2> QED BY <2>3, <2>4, <2>5
<1>6. ASSUME NEW d \in Clients, d # c PROVE Apart(request'[c], request'[d])
  <2>1. request'[d] = request[d] BY <1>6, OthersStay
  <2>2. Apart(request[c], request[d]) BY <1>6 DEF Inv
  <2>3. \A x \in InHand(request[d]) : x \in DOMAIN dir BY HandIsNew
  <2>4. InHand(request'[c]) \cap InHand(request'[d]) = {}
    BY <2>1, <2>2, <2>3 DEF OwnInv, Apart
  <2>5. Stamped(request[d]) => request[d].stamp < now /\ request[d].stamp \in Nat
    BY DEF Inv, RequestInv, RequestRow
  <2>6. now \in Nat BY DEF Inv
  <2> QED BY <2>1, <2>2, <2>4, <2>5, <2>6 DEF OwnInv, Apart
<1>7. ASSUME NEW d \in Clients, NEW e \in Clients, d # e PROVE Apart(request'[d], request'[e])
  <2>1. CASE d = c BY <1>6, <1>7, <2>1
  <2>2. CASE e = c BY <1>6, <1>7, <2>2 DEF Apart
  <2>3. CASE d # c /\ e # c
    <3>1. request'[d] = request[d] /\ request'[e] = request[e] BY <2>3, OthersStay
    <3> QED BY <1>7, <3>1 DEF Inv
  <2> QED BY <2>1, <2>2, <2>3
<1>8. now' \in Nat BY DEF Progress
<1>9. \A e \in edge' : e[2] \in DOMAIN attempt' /\ attempt'[e[2]] = e[1] BY DEF OwnInv
<1> QED BY <1>1, <1>2, <1>3, <1>4, <1>5, <1>7, <1>8, <1>9 DEF Inv

-----------------------------------------------------------------------------
(* The directories after a step. *)
LEMMA DiskWritten ==
  ASSUME DiskInv, DOMAIN dir' = DOMAIN dir, \A x \in DOMAIN dir : dir'[x] \in Tree
  PROVE  DiskInv' /\ Snapshots' = Snapshots /\ Attempts' = Attempts
<1>1. Snapshots' = Snapshots /\ Attempts' = Attempts BY DEF Snapshots, Attempts
<1> QED BY <1>1 DEF DiskInv

LEMMA FreshIsNext ==
  ASSUME DiskInv, ForksAssumption
  PROVE  /\ FreshSnapshot \in Nat \ {0} /\ FreshSnapshot \notin Snapshots
         /\ Snapshots = 1 .. FreshSnapshot - 1
         /\ FreshAttempt \in Nat \ {0} /\ FreshAttempt \notin Attempts
         /\ Attempts = 1 .. FreshAttempt - 1
<1>1. \A m \in Nat : Cardinality(1 .. m) = m BY FS_Interval
<1>2. PICK m \in Nat : Snapshots = 1 .. m BY DEF DiskInv
<1>3. PICK n \in Nat : Attempts = 1 .. n BY DEF DiskInv
<1> QED BY <1>1, <1>2, <1>3 DEF FreshSnapshot, FreshAttempt

LEMMA DiskNewSnapshot ==
  ASSUME DiskInv, ForksAssumption, FreshSnapshot <= MaxSnapshots,
         NEW tree \in Tree, dir' = Put(dir, Snap(FreshSnapshot), tree)
  PROVE  /\ DiskInv'
         /\ FreshSnapshot \in Snapshots' /\ FreshSnapshot \notin Snapshots
         /\ Snap(FreshSnapshot) \notin DOMAIN dir
         /\ DOMAIN dir' = DOMAIN dir \cup {Snap(FreshSnapshot)}
         /\ \A x \in DOMAIN dir : dir'[x] = dir[x]
<1> PICK n : n = FreshSnapshot OBVIOUS
<1>1. /\ n \in Nat /\ n \notin Snapshots /\ Snapshots = 1 .. n - 1 /\ n >= 1 /\ n <= MaxSnapshots
  BY FreshIsNext
<1>2. Snap(n) \notin DOMAIN dir BY <1>1 DEF Snapshots, ForksAssumption
<1>3. DOMAIN dir' = DOMAIN dir \cup {Snap(n)} /\ dir'[Snap(n)] = tree
      /\ \A x \in DOMAIN dir : dir'[x] = dir[x]
  BY <1>2 DEF Put
<1>4. Snapshots' = Snapshots \cup {n}
  <2>1. \A k : Snap(k) \in DOMAIN dir' <=> Snap(k) \in DOMAIN dir \/ k = n BY <1>3, NamesDiffer
  <2>2. n \in 1 .. MaxSnapshots BY <1>1 DEF ForksAssumption
  <2> QED BY <2>1, <2>2 DEF Snapshots
<1>5. Attempts' = Attempts BY <1>3, NamesDiffer DEF Attempts
<1>6. Snapshots' = 1 .. n BY <1>1, <1>4
<1>7. Snap(n) \in Names BY <1>1 DEF Names
<1> QED BY <1>1, <1>2, <1>3, <1>5, <1>6, <1>7 DEF DiskInv

LEMMA DiskNewAttempt ==
  ASSUME DiskInv, ForksAssumption, FreshAttempt <= MaxAttempts,
         NEW tree \in Tree, dir' = Put(dir, Work(FreshAttempt), tree)
  PROVE  /\ DiskInv'
         /\ FreshAttempt \in Attempts' /\ FreshAttempt \notin Attempts
         /\ Work(FreshAttempt) \notin DOMAIN dir
         /\ DOMAIN dir' = DOMAIN dir \cup {Work(FreshAttempt)}
         /\ \A x \in DOMAIN dir : dir'[x] = dir[x]
<1> PICK n : n = FreshAttempt OBVIOUS
<1>1. /\ n \in Nat /\ n \notin Attempts /\ Attempts = 1 .. n - 1 /\ n >= 1 /\ n <= MaxAttempts
  BY FreshIsNext
<1>2. Work(n) \notin DOMAIN dir BY <1>1 DEF Attempts, ForksAssumption
<1>3. DOMAIN dir' = DOMAIN dir \cup {Work(n)} /\ dir'[Work(n)] = tree
      /\ \A x \in DOMAIN dir : dir'[x] = dir[x]
  BY <1>2 DEF Put
<1>4. Attempts' = Attempts \cup {n}
  <2>1. \A k : Work(k) \in DOMAIN dir' <=> Work(k) \in DOMAIN dir \/ k = n BY <1>3, NamesDiffer
  <2>2. n \in 1 .. MaxAttempts BY <1>1 DEF ForksAssumption
  <2> QED BY <2>1, <2>2 DEF Attempts
<1>5. Snapshots' = Snapshots BY <1>3, NamesDiffer DEF Snapshots
<1>6. Attempts' = 1 .. n BY <1>1, <1>4
<1>7. Work(n) \in Names BY <1>1 DEF Names
<1> QED BY <1>1, <1>2, <1>3, <1>5, <1>6, <1>7 DEF DiskInv

(* A step that changes but the request, and the time. *)
LEMMA RequestOnly ==
  ASSUME Inv, NEW c \in Clients, \E r \in RequestRow : Goto(c, r),
         UNCHANGED <<dir, row, attempt, edge>>, now' = now \/ now' = now + 1,
         RequestInv(request[c])',
         InHand(request'[c]) \subseteq InHand(request[c]),
         Stamped(request'[c]) => \/ Stamped(request[c]) /\ request'[c].stamp = request[c].stamp
                                 \/ request'[c].stamp = now
  PROVE  Inv'
<1>1. DiskInv' BY DiskWritten DEF Inv, DiskInv
<1>2. Progress(c) BY DEF Progress, Inv
<1>3. OwnInv(c) BY DEF OwnInv, Inv
<1> QED BY <1>1, <1>2, <1>3, ProgressKeeps

LEMMA OneIsPositive == 1 \in Positive
  BY DEF Positive

LEMMA IdleIsRow == Idle \in RequestRow /\ InHand(Idle) = {} /\ ~Stamped(Idle)
  BY OneIsPositive DEF Idle, RequestRow, Names, DeltaRow, NoDelta, NoPlan, ByName, InHand, Stamped

LEMMA InitKeeps ==
  ASSUME ForksAssumption, Init
  PROVE  Inv
<1>1. DOMAIN dir = {Live} /\ dir[Live] \in Tree BY DEF Init, Tree, Absent
<1>2. Snapshots = 1 .. 0 /\ Attempts = 1 .. 0
  BY <1>1, NamesDiffer DEF Snapshots, Attempts
<1>3. DiskInv BY <1>1, <1>2 DEF DiskInv, Names
<1>4. DOMAIN row = {} /\ DOMAIN attempt = {} /\ edge = {} BY DEF Init
<1>5. \A c \in Clients : request[c] = Idle /\ RequestInv(request[c])
  BY DEF Init, Idle, RequestInv, Stamped
<1>6. request \in [Clients -> RequestRow] BY IdleIsRow DEF Init
<1> QED BY <1>3, <1>4, <1>5, <1>6, IdleIsRow DEF Init, Inv, Apart

-----------------------------------------------------------------------------
(* The workspace changes under everybody, and no row names it. *)
LEMMA EditKeeps ==
  ASSUME Inv, NEW f \in Files, Edit(f)
  PROVE  Inv'
<1>1. PICK v \in {Absent, now + 1} : dir' = [dir EXCEPT ![Live][f] = v] BY DEF Edit
<1>2. now \in Nat /\ now' = now + 1 /\ v \in Nat BY DEF Inv, Edit, Absent
<1>3. DiskInv BY DEF Inv
<1>4. DOMAIN dir' = DOMAIN dir /\ \A x \in DOMAIN dir : dir'[x] \in Tree /\ (x # Live => dir'[x] = dir[x])
  BY <1>1, <1>2, <1>3 DEF DiskInv, Tree
<1>5. DiskInv' /\ Snapshots' = Snapshots /\ Attempts' = Attempts BY <1>3, <1>4, DiskWritten
<1>6. UNCHANGED <<row, attempt, edge, request>> BY DEF Edit
<1>7. \A n \in Snapshots : dir'[Snap(n)] = dir[Snap(n)] BY <1>4, NamesDiffer DEF Snapshots
<1>8. \A k \in Attempts : dir'[Work(k)] = dir[Work(k)] BY <1>4, NamesDiffer DEF Attempts
<1>9. ASSUME NEW n \in DOMAIN row PROVE RowInv(n)'
  <2>1. RowInv(n) BY DEF Inv
  <2>2. row[n].stamp < now' BY <1>2, <2>1 DEF RowInv, SnapshotRow
  <2> QED BY <1>5, <1>6, <1>7, <2>1, <2>2 DEF RowInv, Delta
<1>10. ASSUME NEW k \in DOMAIN attempt PROVE AttemptInv(k)'
  BY <1>5, <1>6, <1>8 DEF Inv, AttemptInv
<1>11. ASSUME NEW c \in Clients PROVE RequestInv(request[c])'
  <2> PICK j : j = request[c] OBVIOUS
  <2>1. RequestInv(j) /\ j \in RequestRow BY DEF Inv
  <2>2. \A x : /\ NewSnapshot(x) => NewSnapshot(x)' /\ dir'[x] = dir[x]
               /\ NewAttempt(x) => NewAttempt(x)' /\ dir'[x] = dir[x]
    BY <1>5, <1>6, <1>7, <1>8 DEF NewSnapshot, NewAttempt
  <2>3. Stamped(j) => j.stamp < now' BY <1>2, <2>1 DEF RequestInv, RequestRow
  <2>4. j.at = "copy" /\ j.kind = "fork" /\ NewAttempt(j.into) => dir'[j.into] = dir[j.into]
    BY <2>2
  <2>5. RequestInv(j)'
    <3>1. CASE j.at = "copy" /\ j.kind = "fork"
      BY <1>6, <2>1, <2>2, <2>4, <3>1 DEF RequestInv, Stamped
    <3>2. CASE j.at = "copy" /\ j.kind # "fork"
      BY <1>6, <2>1, <2>2, <3>2 DEF RequestInv, Stamped
    <3>3. CASE Stamped(j)
      <4>1. NewSnapshot(j.into)' /\ dir'[j.into] = dir[j.into]
        BY <2>1, <2>2, <3>3 DEF RequestInv
      <4> QED BY <1>6, <2>1, <2>3, <3>3, <4>1 DEF RequestInv, Stamped, Delta
    <3>4. CASE j.at \notin {"copy", "parent", "insert"}
      BY <1>6, <2>1, <2>2, <3>4 DEF RequestInv, Stamped
    <3> QED BY <3>1, <3>2, <3>3, <3>4 DEF Stamped
  <2> QED BY <1>6, <2>5 DEF RequestInv, NewSnapshot, NewAttempt, Delta
<1> QED BY <1>2, <1>5, <1>6, <1>9, <1>10, <1>11 DEF Inv

LEMMA IdleKeeps ==
  ASSUME Inv, NEW c \in Clients, Goto(c, Idle), UNCHANGED <<dir, row, attempt, edge, now>>
  PROVE  Inv'
<1>1. request'[c] = Idle BY DEF Inv, Goto
<1>2. RequestInv(request[c])' BY <1>1 DEF Idle, RequestInv, Stamped
<1> QED BY <1>1, <1>2, IdleIsRow, RequestOnly

(* One file more of the copy. *)
LEMMA CopyFileKeeps ==
  ASSUME ForksAssumption, Inv, NEW c \in Clients, CopyFile(c)
  PROVE  Inv'
<1> PICK j : j = request[c] OBVIOUS
<1>a. PICK r : r = [j EXCEPT !.next = @ + 1] OBVIOUS
<1>1. j \in RequestRow /\ RequestInv(j) /\ DiskInv /\ now \in Nat BY DEF Inv
<1>2. /\ j.at = "copy" /\ j.next \in Files
      /\ dir' = [dir EXCEPT ![j.into][j.next] = dir[j.from][j.next]]
      /\ Goto(c, r)
      /\ UNCHANGED <<row, attempt, edge, now>>
  BY <1>a DEF CopyFile
<1>3. InHand(j) = {j.into} BY <1>2 DEF InHand
<1>4. j.into \in DOMAIN dir /\ j.into # Live BY <1>3, HandIsNew
<1>5. j.from \in DOMAIN dir
  <2>1. \A a \in DOMAIN row : Snap(a) \in DOMAIN dir BY DEF Inv, RowInv, Snapshots
  <2> QED BY <1>1, <1>2, <2>1 DEF RequestInv, DiskInv
<1>6. r \in RequestRow /\ r.next = j.next + 1 /\ r.at = "copy" /\ r.into = j.into
  <2>1. j.next + 1 \in Positive BY <1>1, RequestFields DEF Positive
  <2> QED BY <1>a, <1>1, <1>2, <2>1 DEF RequestRow
<1>7. request'[c] = r BY <1>2 DEF Inv, Goto
<1>8. /\ DOMAIN dir' = DOMAIN dir
      /\ \A x \in DOMAIN dir : dir'[x] \in Tree /\ (x # j.into => dir'[x] = dir[x])
      /\ \A f \in Files : dir'[j.into][f] = IF f = j.next THEN dir[j.from][f] ELSE dir[j.into][f]
  BY <1>1, <1>2, <1>4, <1>5 DEF DiskInv, Tree
<1>9. DiskInv' /\ Snapshots' = Snapshots /\ Attempts' = Attempts BY <1>1, <1>8, DiskWritten
<1>10. Progress(c) BY <1>1, <1>2, <1>3, <1>6, <1>8 DEF Progress
<1>11. RequestInv(r)'
  <2>1. NewSnapshot(j.into) => NewSnapshot(j.into)' BY <1>2, <1>9 DEF NewSnapshot
  <2>2. NewAttempt(j.into) => NewAttempt(j.into)' BY <1>2, <1>9 DEF NewAttempt
  <2>3. /\ r.kind = j.kind /\ r.from = j.from /\ r.into = j.into /\ r.plan = j.plan
         /\ r.left = j.left
    BY <1>a, <1>1 DEF RequestRow
  <2>4. CASE j.kind = "fork"
    <3>1. /\ j.left # 0 /\ NewAttempt(j.into) /\ j.plan \in DOMAIN row /\ j.from = Snap(j.plan)
          /\ \A f \in Files : f < j.next => dir[j.into][f] = row[j.plan].hash[f]
      BY <1>1, <1>2, <2>4 DEF RequestInv
    <3>2. dir[j.from] = row[j.plan].hash BY <3>1 DEF Inv, RowInv
    <3>3. \A f \in Files : f \in Nat BY DEF ForksAssumption
    <3>4. \A f \in Files : f < r.next => dir'[j.into][f] = row[j.plan].hash[f]
      <4>1. \A f \in Files : f < r.next => f = j.next \/ f < j.next
        BY <1>1, <1>6, <3>3, RequestFields
      <4>2. \A f \in Files : f < j.next => f # j.next BY <1>1, <3>3, RequestFields
      <4> QED BY <1>8, <3>1, <3>2, <4>1, <4>2
    <3> QED BY <1>2, <1>6, <2>2, <2>3, <2>4, <3>1, <3>4 DEF RequestInv, Stamped
  <2>5. CASE j.kind # "fork"
    BY <1>1, <1>2, <1>6, <2>1, <2>3, <2>5 DEF RequestInv, Stamped
  <2> QED BY <2>4, <2>5
<1>12. RequestInv(request[c])' BY <1>7, <1>11 DEF RequestInv, NewSnapshot, NewAttempt, Delta
<1>13. InHand(r) = {j.into} /\ ~Stamped(r) BY <1>6 DEF InHand, Stamped
<1>14. OwnInv(c) BY <1>2, <1>3, <1>7, <1>12, <1>13 DEF OwnInv, Inv
<1> QED BY <1>9, <1>10, <1>14, ProgressKeeps

(* Taking a snapshot. *)
LEMMA SnapshotSessionKeeps ==
  ASSUME ForksAssumption, Inv, NEW c \in Clients, SnapshotSession(c)
  PROVE  Inv'
<1> PICK n : n = FreshSnapshot OBVIOUS
<1> PICK r : r = [Idle EXCEPT !.at = "copy", !.kind = "session", !.from = Live, !.into = Snap(n)]
  OBVIOUS
<1>1. DiskInv /\ now \in Nat /\ request[c] = Idle /\ n \in Nat /\ n <= MaxSnapshots
  BY FreshIsNext DEF Inv, SnapshotSession, RoomForSnapshots, FreshSnapshot
<1>2. NoFiles \in Tree BY DEF NoFiles, Tree, Absent
<1>3. dir' = Put(dir, Snap(FreshSnapshot), NoFiles) /\ Goto(c, r) /\ UNCHANGED <<row, attempt, edge, now>>
  BY DEF SnapshotSession
<1>4. /\ DiskInv' /\ n \in Snapshots' /\ n \notin Snapshots /\ Snap(n) \notin DOMAIN dir
      /\ DOMAIN dir' = DOMAIN dir \cup {Snap(n)} /\ \A x \in DOMAIN dir : dir'[x] = dir[x]
  BY <1>1, <1>2, <1>3, DiskNewSnapshot
<1>5. Snap(n) \in Names BY <1>1 DEF Names
<1>6. r \in RequestRow /\ r.at = "copy" /\ r.kind = "session" /\ r.from = Live /\ r.into = Snap(n)
  BY <1>5, IdleIsRow DEF RequestRow, Idle, Names
<1>7. request'[c] = r BY <1>3 DEF Inv, Goto
<1>8. Progress(c) BY <1>1, <1>3, <1>4, <1>6 DEF Progress
<1>9. n \notin DOMAIN row' BY <1>3, <1>4 DEF Inv, RowInv
<1>10. RequestInv(request[c])' BY <1>4, <1>6, <1>7, <1>9 DEF RequestInv, Stamped, NewSnapshot
<1>11. InHand(r) = {Snap(n)} /\ ~Stamped(r) BY <1>6 DEF InHand, Stamped
<1>12. OwnInv(c) BY <1>3, <1>4, <1>7, <1>10, <1>11 DEF OwnInv, Inv
<1> QED BY <1>4, <1>8, <1>12, ProgressKeeps

LEMMA StampSnapshotKeeps ==
  ASSUME Inv, NEW c \in Clients, StampSnapshot(c)
  PROVE  Inv'
<1> PICK j : j = request[c] OBVIOUS
<1> PICK r : r = [j EXCEPT !.at = "parent", !.stamp = now] OBVIOUS
<1>1. j \in RequestRow /\ RequestInv(j) /\ now \in Nat BY DEF Inv
<1>2. /\ j.at = "copy" /\ j.kind = "session" /\ Goto(c, r) /\ now' = now + 1
      /\ UNCHANGED <<dir, row, attempt, edge>>
  BY DEF StampSnapshot, Copied
<1>3. r \in RequestRow /\ r.at = "parent" /\ r.stamp = now /\ r.into = j.into
  BY <1>1, <1>2 DEF RequestRow
<1>4. request'[c] = r BY <1>2 DEF Inv, Goto
<1>5. NewSnapshot(j.into)' BY <1>1, <1>2 DEF RequestInv, NewSnapshot, Snapshots
<1>6. \A n \in DOMAIN row : row[n].stamp # now BY <1>1 DEF Inv, RowInv, SnapshotRow
<1>7. RequestInv(request[c])' BY <1>1, <1>2, <1>3, <1>4, <1>5, <1>6 DEF RequestInv, Stamped
<1>8. InHand(r) = {j.into} /\ InHand(j) = {j.into} BY <1>2, <1>3 DEF InHand
<1> QED BY <1>2, <1>3, <1>4, <1>7, <1>8, RequestOnly

LEMMA FindParentKeeps ==
  ASSUME ForksAssumption, Inv, NEW c \in Clients, FindParent(c)
  PROVE  Inv'
<1> PICK j : j = request[c] OBVIOUS
<1> PICK S : S = {n \in DOMAIN row : row[n].session} OBVIOUS
<1>a. PICK p : p = IF S = {} THEN NoPlan ELSE Best("latest-ready", S) OBVIOUS
<1>b. PICK d : d = IF p = NoPlan THEN NoDelta ELSE Delta(dir[Snap(p)], dir[j.into]) OBVIOUS
<1>c. PICK r : r = [j EXCEPT !.at = "insert", !.parent = p, !.delta = d] OBVIOUS
<1>1. j \in RequestRow /\ RequestInv(j) /\ now \in Nat BY DEF Inv
<1>2. j.at = "parent" /\ Goto(c, r) /\ UNCHANGED <<dir, row, attempt, edge, now>>
  BY <1>a, <1>b, <1>c DEF FindParent
<1>3. p = NoPlan \/ p \in DOMAIN row BY <1>a, BestIsOne
<1>4. p \in DOMAIN row => p \in Nat /\ dir[Snap(p)] = row[p].hash
  BY DEF Inv, RowInv, Snapshots
<1>5. d \in DeltaRow BY <1>b, DeltaTyped DEF NoDelta, DeltaRow
<1>6. /\ r \in RequestRow /\ r.at = "insert" /\ r.parent = p /\ r.delta = d
      /\ r.into = j.into /\ r.stamp = j.stamp
  <2>1. p \in Nat BY <1>3, <1>4 DEF NoPlan
  <2> QED BY <1>1, <1>c, <1>5, <2>1 DEF RequestRow
<1>7. request'[c] = r BY <1>2 DEF Inv, Goto
<1>8. NewSnapshot(j.into)' BY <1>1, <1>2 DEF RequestInv, NewSnapshot, Snapshots, Stamped
<1>9. RequestInv(request[c])'
  <2>1. p # NoPlan => p \in DOMAIN row /\ d = Delta(row[p].hash, dir[j.into])
    BY <1>b, <1>3, <1>4
  <2>2. j.stamp < now /\ \A n \in DOMAIN row : row[n].stamp # j.stamp
    BY <1>1, <1>2 DEF RequestInv, Stamped
  <2>3. p # NoPlan => p \in DOMAIN row' /\ d = Delta(row'[p].hash, dir'[j.into])
    BY <1>2, <2>1
  <2> QED BY <1>2, <1>6, <1>7, <1>8, <2>2, <2>3 DEF RequestInv, Stamped
<1>10. InHand(r) = {j.into} /\ InHand(j) = {j.into} BY <1>2, <1>6 DEF InHand
<1> QED BY <1>2, <1>6, <1>7, <1>9, <1>10, RequestOnly DEF Stamped

LEMMA InsertSnapshotKeeps ==
  ASSUME Inv, NEW c \in Clients, InsertSnapshot(c)
  PROVE  Inv'
<1> PICK j : j = request[c] OBVIOUS
<1> PICK n : n = j.into[2] OBVIOUS
<1>a. PICK new : new = [named |-> TRUE, session |-> TRUE, parent |-> j.parent,
                        hash |-> dir[j.into], delta |-> j.delta, stamp |-> j.stamp] OBVIOUS
<1>1. j \in RequestRow /\ RequestInv(j) /\ now \in Nat /\ DiskInv BY DEF Inv
<1>2. j.at = "insert" /\ row' = Put(row, n, new) /\ Goto(c, Idle) /\ UNCHANGED <<dir, attempt, edge, now>>
  BY <1>a DEF InsertSnapshot
<1>3. j.into = Snap(n) /\ n \in Snapshots /\ n \notin DOMAIN row
  BY <1>1, <1>2, SecondOfName DEF RequestInv, NewSnapshot, Stamped
<1>4. /\ DOMAIN row' = DOMAIN row \cup {n} /\ row'[n] = new
      /\ \A m \in DOMAIN row : row'[m] = row[m] /\ m # n
  BY <1>2, <1>3 DEF Put
<1>5. DiskInv' /\ Snapshots' = Snapshots BY <1>1, <1>2, DiskWritten DEF DiskInv
<1>6. dir[j.into] \in Tree BY <1>1, <1>3 DEF DiskInv, Snapshots
<1>7. /\ new \in SnapshotRow /\ new.stamp = j.stamp /\ new.hash = dir[j.into]
      /\ new.parent = j.parent /\ new.delta = j.delta
  BY <1>1, <1>a, <1>6 DEF SnapshotRow, RequestRow
<1>8. j.stamp < now BY <1>1, <1>2 DEF RequestInv, Stamped
<1>9. RowInv(n)'
  <2>1. j.parent # NoPlan => /\ j.parent \in DOMAIN row' /\ row'[j.parent] = row[j.parent]
                             /\ j.delta = Delta(row[j.parent].hash, dir[j.into])
    BY <1>1, <1>2, <1>4 DEF RequestInv
  <2>2. j.parent # NoPlan => j.parent # n BY <1>1, <1>2, <1>3 DEF RequestInv
  <2>3. j.parent # NoPlan => j.delta = Delta(row'[j.parent].hash, row'[n].hash)
    BY <1>4, <1>7, <2>1, <2>2
  <2>4. dir'[Snap(n)] = row'[n].hash BY <1>2, <1>3, <1>4, <1>7
  <2>5. /\ n \in Snapshots' /\ row'[n] \in SnapshotRow /\ row'[n].stamp < now'
        /\ row'[n].parent = j.parent /\ row'[n].delta = j.delta
    BY <1>2, <1>3, <1>4, <1>5, <1>7, <1>8
  <2> QED BY <2>1, <2>3, <2>4, <2>5 DEF RowInv
<1>10. request'[c] = Idle BY <1>2 DEF Inv, Goto
<1>11. InHand(j) = {Snap(n)} BY <1>2, <1>3 DEF InHand
<1>12. Progress(c)
  BY <1>1, <1>2, <1>4, <1>7, <1>11, IdleIsRow DEF Progress, Stamped
<1>13. RequestInv(request[c])' BY <1>10 DEF Idle, RequestInv, Stamped
<1>14. OwnInv(c) BY <1>2, <1>4, <1>9, <1>10, <1>13, IdleIsRow DEF OwnInv, Inv
<1> QED BY <1>5, <1>12, <1>14, ProgressKeeps

(* Building a stack. *)
LEMMA CreateTemplateKeeps ==
  ASSUME ForksAssumption, Inv, NEW c \in Clients, CreateTemplate(c)
  PROVE  Inv'
<1> PICK n : n = FreshSnapshot OBVIOUS
<1>a. PICK r : r = [Idle EXCEPT !.at = "template", !.kind = "stack", !.from = Snap(n)] OBVIOUS
<1>b. PICK tree : tree = [f \in Files |-> IF f = 1 THEN 1 ELSE Absent] OBVIOUS
<1>1. DiskInv /\ now \in Nat /\ request[c] = Idle /\ n \in Nat /\ n <= MaxSnapshots
  <2>1. Cardinality(Snapshots) + 2 <= MaxSnapshots /\ n = Cardinality(Snapshots) + 1
    BY DEF CreateTemplate, RoomForSnapshots, FreshSnapshot
  <2>2. DiskInv /\ now \in Nat /\ request[c] = Idle /\ n \in Nat
    BY FreshIsNext DEF Inv, CreateTemplate
  <2>3. Cardinality(Snapshots) \in Nat
    <3>1. PICK m \in Nat : Snapshots = 1 .. m BY <2>2 DEF DiskInv
    <3>2. Cardinality(1 .. m) = m BY FS_Interval
    <3> QED BY <3>1, <3>2
  <2> QED BY <2>1, <2>2, <2>3 DEF ForksAssumption
<1>2. tree \in Tree BY <1>b DEF Tree, Absent
<1>3. dir' = Put(dir, Snap(FreshSnapshot), tree) /\ Goto(c, r) /\ UNCHANGED <<row, attempt, edge, now>>
  BY <1>a, <1>b DEF CreateTemplate
<1>4. /\ DiskInv' /\ n \in Snapshots' /\ n \notin Snapshots /\ Snap(n) \notin DOMAIN dir
      /\ DOMAIN dir' = DOMAIN dir \cup {Snap(n)} /\ \A x \in DOMAIN dir : dir'[x] = dir[x]
  BY <1>1, <1>2, <1>3, DiskNewSnapshot
<1>5. Snap(n) \in Names BY <1>1 DEF Names
<1>6. r \in RequestRow /\ r.at = "template" /\ r.kind = "stack" /\ r.from = Snap(n)
  BY <1>a, <1>5, IdleIsRow DEF RequestRow, Idle, Names
<1>7. request'[c] = r BY <1>3 DEF Inv, Goto
<1>8. Progress(c) BY <1>1, <1>3, <1>4, <1>6 DEF Progress
<1>9. n \notin DOMAIN row' BY <1>3, <1>4 DEF Inv, RowInv
<1>10. RequestInv(request[c])' BY <1>4, <1>6, <1>7, <1>9 DEF RequestInv, Stamped, NewSnapshot
<1>11. InHand(r) = {Snap(n)} /\ ~Stamped(r) BY <1>6 DEF InHand, Stamped
<1>12. OwnInv(c) BY <1>3, <1>4, <1>7, <1>10, <1>11 DEF OwnInv, Inv
<1> QED BY <1>4, <1>8, <1>12, ProgressKeeps

LEMMA InsertTemplateKeeps ==
  ASSUME ForksAssumption, Inv, NEW c \in Clients, InsertTemplate(c)
  PROVE  Inv'
<1> PICK j : j = request[c] OBVIOUS
<1> PICK a : a = j.from[2] OBVIOUS
<1> PICK n : n = FreshSnapshot OBVIOUS
<1>a. PICK r : r = [j EXCEPT !.at = "copy", !.into = Snap(n)] OBVIOUS
<1>b. PICK new : new = [named |-> FALSE, session |-> FALSE, parent |-> NoPlan,
                        hash |-> dir[j.from], delta |-> NoDelta, stamp |-> now] OBVIOUS
<1>1. /\ j \in RequestRow /\ RequestInv(j) /\ now \in Nat /\ DiskInv
      /\ n \in Nat /\ n <= MaxSnapshots
  BY FreshIsNext DEF Inv, InsertTemplate, RoomForSnapshots, FreshSnapshot
<1>2. /\ j.at = "template" /\ row' = Put(row, a, new)
      /\ dir' = Put(dir, Snap(FreshSnapshot), NoFiles) /\ Goto(c, r) /\ now' = now + 1
      /\ UNCHANGED <<attempt, edge>>
  BY <1>a, <1>b DEF InsertTemplate
<1>3. j.from = Snap(a) /\ a \in Snapshots /\ a \notin DOMAIN row
  BY <1>1, <1>2, SecondOfName DEF RequestInv, NewSnapshot
<1>4. /\ DOMAIN row' = DOMAIN row \cup {a} /\ row'[a] = new
      /\ \A m \in DOMAIN row : row'[m] = row[m] /\ m # a
  BY <1>2, <1>3 DEF Put
<1>5. NoFiles \in Tree BY DEF NoFiles, Tree, Absent
<1>6. /\ DiskInv' /\ n \in Snapshots' /\ n \notin Snapshots /\ Snap(n) \notin DOMAIN dir
      /\ DOMAIN dir' = DOMAIN dir \cup {Snap(n)} /\ \A x \in DOMAIN dir : dir'[x] = dir[x]
  BY <1>1, <1>2, <1>5, DiskNewSnapshot
<1>7. Snap(a) \in DOMAIN dir BY <1>3 DEF Snapshots
<1>8. dir[j.from] \in Tree BY <1>1, <1>3, <1>7 DEF DiskInv
<1>9. /\ new \in SnapshotRow /\ new.stamp = now /\ new.hash = dir[j.from]
      /\ new.parent = NoPlan /\ new.session = FALSE
  BY <1>1, <1>b, <1>8 DEF SnapshotRow, NoPlan, NoDelta, DeltaRow
<1>10. RowInv(a)'
  <2>1. a \in Snapshots' /\ dir'[Snap(a)] = row'[a].hash
    BY <1>3, <1>4, <1>6, <1>7, <1>9 DEF Snapshots
  <2>2. row'[a].stamp < now' BY <1>1, <1>2, <1>4, <1>9
  <2> QED BY <1>4, <1>9, <2>1, <2>2 DEF RowInv, NoPlan
<1>11. Snap(n) \in Names BY <1>1 DEF Names
<1>12. r \in RequestRow /\ r.at = "copy" /\ r.from = Snap(a) /\ r.into = Snap(n) /\ r.kind = j.kind
  BY <1>a, <1>1, <1>3, <1>11 DEF RequestRow
<1>13. request'[c] = r BY <1>2 DEF Inv, Goto
<1>14. InHand(j) = {Snap(a)} /\ InHand(r) = {Snap(n)} /\ ~Stamped(r)
  BY <1>2, <1>3, <1>12 DEF InHand, Stamped
<1>15. Progress(c)
  <2>1. now' \in Nat /\ now < now' /\ now <= now' BY <1>1, <1>2
  <2> QED BY <1>2, <1>4, <1>6, <1>9, <1>12, <1>14, <2>1 DEF Progress
<1>16. n \notin DOMAIN row' BY <1>3, <1>4, <1>6 DEF Inv, RowInv
<1>17. RequestInv(request[c])'
  <2>1. j.kind = "stack" BY <1>1, <1>2 DEF RequestInv
  <2> QED BY <1>4, <1>6, <1>12, <1>13, <1>16, <2>1 DEF RequestInv, Stamped, NewSnapshot
<1>18. OwnInv(c) BY <1>2, <1>4, <1>6, <1>10, <1>13, <1>14, <1>17 DEF OwnInv, Inv
<1> QED BY <1>6, <1>15, <1>18, ProgressKeeps

LEMMA InsertStackKeeps ==
  ASSUME ForksAssumption, Inv, NEW c \in Clients, InsertStack(c)
  PROVE  Inv'
<1> PICK j : j = request[c] OBVIOUS
<1> PICK n : n = j.into[2] OBVIOUS
<1>a. PICK tree : tree = [dir[j.into] EXCEPT ![Ready] = 1] OBVIOUS
<1>b. PICK new : new = [named |-> TRUE, session |-> FALSE, parent |-> j.from[2],
                        hash |-> tree, delta |-> NoDelta, stamp |-> now] OBVIOUS
<1>c. PICK r : r = [Idle EXCEPT !.at = "plan", !.kind = "fork", !.asked = n, !.left = 1] OBVIOUS
<1>1. j \in RequestRow /\ RequestInv(j) /\ now \in Nat /\ DiskInv BY DEF Inv
<1>2. /\ j.at = "copy" /\ j.kind = "stack" /\ row' = Put(row, n, new)
      /\ dir' = [dir EXCEPT ![j.into] = tree] /\ Goto(c, r) /\ now' = now + 1
      /\ UNCHANGED <<attempt, edge>>
  BY <1>a, <1>b, <1>c DEF InsertStack, Copied
<1>3. j.into = Snap(n) /\ n \in Snapshots /\ n \notin DOMAIN row /\ n \in Nat
  <2>1. j.into = Snap(n) /\ n \in Snapshots /\ n \notin DOMAIN row
    BY <1>1, <1>2, SecondOfName DEF RequestInv, NewSnapshot
  <2> QED BY <1>1, <2>1 DEF DiskInv
<1>4. /\ DOMAIN row' = DOMAIN row \cup {n} /\ row'[n] = new
      /\ \A m \in DOMAIN row : row'[m] = row[m] /\ m # n
  BY <1>2, <1>3 DEF Put
<1>5. Snap(n) \in DOMAIN dir /\ dir[j.into] \in Tree BY <1>1, <1>3 DEF DiskInv, Snapshots
<1>6. tree \in Tree BY <1>a, <1>5 DEF Tree
<1>7. /\ DOMAIN dir' = DOMAIN dir /\ dir'[Snap(n)] = tree
      /\ \A x \in DOMAIN dir : dir'[x] \in Tree /\ (x # Snap(n) => dir'[x] = dir[x])
  BY <1>1, <1>2, <1>3, <1>5, <1>6 DEF DiskInv
<1>8. DiskInv' /\ Snapshots' = Snapshots BY <1>1, <1>7, DiskWritten
<1>9. j.from[2] \in DOMAIN row /\ j.from[2] \in Nat
  <2>1. j.from[2] \in DOMAIN row BY <1>1, <1>2, SecondOfName DEF RequestInv
  <2>2. j.from[2] \in Snapshots BY <2>1 DEF Inv, RowInv
  <2> QED BY <1>1, <2>1, <2>2 DEF DiskInv
<1>10. /\ new \in SnapshotRow /\ new.stamp = now /\ new.hash = tree
       /\ new.parent = j.from[2] /\ new.session = FALSE
  BY <1>1, <1>b, <1>6, <1>9 DEF SnapshotRow, NoDelta, DeltaRow
<1>11. RowInv(n)'
  <2>1. row'[n].stamp < now' BY <1>1, <1>2, <1>4, <1>10
  <2> QED BY <1>3, <1>4, <1>7, <1>8, <1>9, <1>10, <2>1 DEF RowInv
<1>12. r \in RequestRow /\ r.at = "plan" /\ r.kind = "fork" /\ r.left = 1
  BY <1>c, <1>3, IdleIsRow DEF RequestRow, Idle
<1>13. request'[c] = r BY <1>2 DEF Inv, Goto
<1>14. InHand(j) = {Snap(n)} /\ InHand(r) = {} /\ ~Stamped(r)
  BY <1>2, <1>3, <1>12 DEF InHand, Stamped
<1>15. Progress(c)
  <2>1. now' \in Nat /\ now < now' /\ now <= now' BY <1>1, <1>2
  <2> QED BY <1>2, <1>4, <1>7, <1>10, <1>12, <1>14, <2>1 DEF Progress
<1>16. RequestInv(request[c])' BY <1>12, <1>13 DEF RequestInv, Stamped
<1>17. OwnInv(c) BY <1>2, <1>4, <1>11, <1>13, <1>14, <1>16 DEF OwnInv, Inv
<1> QED BY <1>8, <1>15, <1>17, ProgressKeeps

(* Forking. *)
LEMMA RowIdsAreNumbers ==
  ASSUME Inv
  PROVE  \A n \in DOMAIN row : n \in Nat /\ Snap(n) \in Names /\ Snap(n) \in DOMAIN dir
<1>1. PICK m \in Nat : Snapshots = 1 .. m BY DEF Inv, DiskInv
<1> QED BY <1>1 DEF Inv, RowInv, Names, Snapshots

LEMMA ForkRequestKeeps ==
  ASSUME ForksAssumption, Inv, NEW c \in Clients, NEW asked \in {ByName} \cup DOMAIN row,
         NEW count \in 1 .. MaxCount, ForkRequest(c, asked, count)
  PROVE  Inv'
<1>a. PICK r : r = [Idle EXCEPT !.at = "plan", !.kind = "fork", !.asked = asked, !.left = count]
  OBVIOUS
<1>1. request[c] = Idle /\ Goto(c, r) /\ UNCHANGED <<dir, row, attempt, edge, now>>
  BY <1>a DEF ForkRequest
<1>2. asked \in Nat BY RowIdsAreNumbers DEF ByName
<1>3. count \in Nat \ {0} BY DEF ForksAssumption
<1>4. r \in RequestRow /\ r.at = "plan" /\ r.kind = "fork" /\ r.left = count
  BY <1>a, <1>2, <1>3, IdleIsRow DEF RequestRow, Idle
<1>5. request'[c] = r BY <1>1 DEF Inv, Goto
<1>6. RequestInv(request[c])' BY <1>3, <1>4, <1>5 DEF RequestInv, Stamped
<1>7. InHand(r) = {} /\ ~Stamped(r) BY <1>4 DEF InHand, Stamped
<1> QED BY <1>1, <1>4, <1>5, <1>6, <1>7, RequestOnly

LEMMA PlanKeeps ==
  ASSUME ForksAssumption, Inv, NEW c \in Clients, NEW policy, Plan(c, policy)
  PROVE  Inv'
<1> PICK j : j = request[c] OBVIOUS
<1>a. PICK n : n = Best(policy, Candidates(j.asked)) OBVIOUS
<1>b. PICK r : r = [j EXCEPT !.at = "attempt", !.plan = n] OBVIOUS
<1>1. j \in RequestRow /\ RequestInv(j) BY DEF Inv
<1>2. /\ j.at = "plan" /\ Candidates(j.asked) # {}
      /\ Goto(c, Idle) \/ Goto(c, r)
      /\ UNCHANGED <<dir, row, attempt, edge, now>>
  BY <1>a, <1>b DEF Plan
<1>3. CASE Goto(c, Idle) BY <1>2, <1>3, IdleKeeps
<1>4. CASE Goto(c, r)
  <2>1. n \in DOMAIN row /\ n \in Nat
    <3>1. Candidates(j.asked) \in SUBSET DOMAIN row BY DEF Candidates
    <3>2. n \in Candidates(j.asked) BY <1>a, <1>2, <3>1, BestIsOne
    <3> QED BY <3>1, <3>2, RowIdsAreNumbers
  <2>2. j.kind = "fork" /\ j.left # 0 BY <1>1, <1>2 DEF RequestInv
  <2>3. /\ r \in RequestRow /\ r.at = "attempt" /\ r.plan = n /\ r.kind = j.kind
        /\ r.left = j.left
    BY <1>b, <1>1, <2>1 DEF RequestRow
  <2>4. request'[c] = r BY <1>4 DEF Inv, Goto
  <2>5. RequestInv(request[c])' BY <1>2, <2>1, <2>2, <2>3, <2>4 DEF RequestInv, Stamped
  <2>6. InHand(r) = {} /\ ~Stamped(r) BY <2>3 DEF InHand, Stamped
  <2> QED BY <1>2, <1>4, <2>3, <2>4, <2>5, <2>6, RequestOnly
<1> QED BY <1>2, <1>3, <1>4

LEMMA StartAttemptKeeps ==
  ASSUME ForksAssumption, Inv, NEW c \in Clients, StartAttempt(c)
  PROVE  Inv'
<1> PICK j : j = request[c] OBVIOUS
<1> PICK k : k = FreshAttempt OBVIOUS
<1>a. PICK r : r = [j EXCEPT !.at = "copy", !.from = Snap(j.plan), !.into = Work(k), !.next = 1]
  OBVIOUS
<1>1. /\ j \in RequestRow /\ RequestInv(j) /\ now \in Nat /\ DiskInv
      /\ k \in Nat /\ k <= MaxAttempts
  BY FreshIsNext DEF Inv, StartAttempt, RoomForAttempts, FreshAttempt
<1>2. /\ j.at = "attempt" /\ dir' = Put(dir, Work(FreshAttempt), NoFiles) /\ Goto(c, r)
      /\ UNCHANGED <<row, attempt, edge, now>>
  BY <1>a DEF StartAttempt
<1>3. NoFiles \in Tree BY DEF NoFiles, Tree, Absent
<1>4. /\ DiskInv' /\ k \in Attempts' /\ k \notin Attempts /\ Work(k) \notin DOMAIN dir
      /\ DOMAIN dir' = DOMAIN dir \cup {Work(k)} /\ \A x \in DOMAIN dir : dir'[x] = dir[x]
  BY <1>1, <1>2, <1>3, DiskNewAttempt
<1>5. j.plan \in DOMAIN row /\ j.kind = "fork" /\ j.left # 0 BY <1>1, <1>2 DEF RequestInv
<1>6. Work(k) \in Names /\ Snap(j.plan) \in Names BY <1>1, <1>5, RowIdsAreNumbers DEF Names
<1>7. /\ r \in RequestRow /\ r.at = "copy" /\ r.kind = "fork" /\ r.from = Snap(j.plan)
      /\ r.into = Work(k) /\ r.plan = j.plan /\ r.next = 1 /\ r.left = j.left
  <2>1. r \in RequestRow
    <3>1. [j EXCEPT !.at = "copy"] \in RequestRow BY <1>1 DEF RequestRow
    <3>2. \A i \in RequestRow : \A x, y \in Names : [i EXCEPT !.from = x, !.into = y] \in RequestRow
      BY DEF RequestRow
    <3>3. \A i \in RequestRow : [i EXCEPT !.next = 1] \in RequestRow
      BY OneIsPositive DEF RequestRow
    <3>4. [[j EXCEPT !.at = "copy"] EXCEPT !.from = Snap(j.plan), !.into = Work(k)] \in RequestRow
      BY <1>6, <3>1, <3>2
    <3>5. r = [[[j EXCEPT !.at = "copy"] EXCEPT !.from = Snap(j.plan), !.into = Work(k)] EXCEPT !.next = 1]
      BY <1>a, <1>1 DEF RequestRow
    <3> QED BY <3>3, <3>4, <3>5
  <2>2. j.kind = "fork" BY <1>5
  <2> QED BY <1>a, <1>1, <2>1, <2>2 DEF RequestRow
<1>8. request'[c] = r BY <1>2 DEF Inv, Goto
<1>9. Progress(c) BY <1>1, <1>2, <1>4, <1>7 DEF Progress
<1>10. k \notin DOMAIN attempt' BY <1>2, <1>4 DEF Inv, AttemptInv
<1>11. \A f \in Files : ~(f < 1) BY DEF ForksAssumption
<1>12. RequestInv(request[c])'
  BY <1>2, <1>4, <1>5, <1>7, <1>8, <1>10, <1>11 DEF RequestInv, Stamped, NewAttempt
<1>13. InHand(r) = {Work(k)} /\ ~Stamped(r) BY <1>7 DEF InHand, Stamped
<1>14. OwnInv(c) BY <1>2, <1>4, <1>8, <1>12, <1>13 DEF OwnInv, Inv
<1> QED BY <1>4, <1>9, <1>14, ProgressKeeps

LEMMA InsertAttemptKeeps ==
  ASSUME ForksAssumption, Inv, NEW c \in Clients, InsertAttempt(c)
  PROVE  Inv'
<1> PICK j : j = request[c] OBVIOUS
<1> PICK k : k = j.into[2] OBVIOUS
<1>a. PICK r : r = IF j.left = 1 THEN Idle ELSE [j EXCEPT !.at = "attempt", !.left = @ - 1]
  OBVIOUS
<1>1. j \in RequestRow /\ RequestInv(j) /\ now \in Nat /\ DiskInv BY DEF Inv
<1>2. /\ j.at = "copy" /\ j.next \notin Files /\ j.kind = "fork"
      /\ attempt' = Put(attempt, k, j.plan) /\ Goto(c, r)
      /\ edge' = edge \cup {<<j.plan, k>>} \/ edge' = edge
      /\ UNCHANGED <<dir, row, now>>
  BY <1>a DEF InsertAttempt, Copied, NoFailure, Failure
<1>3. /\ j.into = Work(k) /\ k \in Attempts /\ k \notin DOMAIN attempt
      /\ j.plan \in DOMAIN row /\ j.left # 0
      /\ \A f \in Files : f < j.next => dir[j.into][f] = row[j.plan].hash[f]
  BY <1>1, <1>2, SecondOfName DEF RequestInv, NewAttempt
<1>4. /\ DOMAIN attempt' = DOMAIN attempt \cup {k} /\ attempt'[k] = j.plan
      /\ \A m \in DOMAIN attempt : attempt'[m] = attempt[m] /\ m # k
  BY <1>2, <1>3 DEF Put
<1>5. DiskInv' /\ Attempts' = Attempts BY <1>1, <1>2, DiskWritten DEF DiskInv
<1>6. dir[Work(k)] = row[j.plan].hash
  <2>1. \A f \in Files : f < j.next
    <3>1. j.next \in Nat /\ j.next # 0 BY <1>1, RequestFields
    <3> QED BY <1>2, <3>1 DEF ForksAssumption
  <2>2. dir[Work(k)] \in Tree BY <1>1, <1>3 DEF DiskInv, Attempts
  <2>3. row[j.plan].hash \in Tree BY <1>3 DEF Inv, RowInv, SnapshotRow
  <2>4. \A f \in Files : dir[Work(k)][f] = row[j.plan].hash[f] BY <1>3, <2>1
  <2> QED BY <2>2, <2>3, <2>4, TreesEqual
<1>7. AttemptInv(k)' BY <1>2, <1>3, <1>4, <1>5, <1>6 DEF AttemptInv
<1>8. r = Idle \/ (r.at = "attempt" /\ r.kind = "fork" /\ r.plan = j.plan /\ r.left # 0)
  BY <1>a, <1>1, <1>2, <1>3 DEF RequestRow
<1>9. r \in RequestRow
  <2>1. j.left # 1 => j.left - 1 \in Nat BY <1>1, <1>3, RequestFields
  <2>2. CASE j.left # 1 BY <1>a, <1>1, <2>1, <2>2 DEF RequestRow
  <2> QED BY <1>a, <2>2, IdleIsRow
<1>10. request'[c] = r BY <1>2 DEF Inv, Goto
<1>11. InHand(j) = {Work(k)} /\ InHand(r) = {} /\ ~Stamped(r)
  BY <1>2, <1>3, <1>8, IdleIsRow DEF InHand, Stamped
<1>12. Progress(c) BY <1>1, <1>2, <1>4, <1>9, <1>11 DEF Progress
<1>13. RequestInv(request[c])' BY <1>2, <1>3, <1>8, <1>10 DEF RequestInv, Stamped, Idle
<1>14. \A e \in edge' : e[2] \in DOMAIN attempt' /\ attempt'[e[2]] = e[1]
  BY <1>2, <1>4 DEF Inv
<1>15. OwnInv(c) BY <1>2, <1>4, <1>7, <1>10, <1>11, <1>13, <1>14 DEF OwnInv
<1> QED BY <1>5, <1>12, <1>15, ProgressKeeps

-----------------------------------------------------------------------------
LEMMA StepKeeps ==
  ASSUME ForksAssumption, Inv, [Next]_vars
  PROVE  Inv'
<1>1. ASSUME UNCHANGED vars PROVE Inv'
  <2>1. UNCHANGED <<dir, row, attempt, edge, request, now>> BY <1>1 DEF vars
  <2>2. DiskInv' /\ Snapshots' = Snapshots /\ Attempts' = Attempts
    BY <2>1, DiskWritten DEF Inv, DiskInv
  <2>3. \A n \in DOMAIN row : RowInv(n)' BY <2>1, <2>2 DEF Inv, RowInv, Delta
  <2>4. \A k \in DOMAIN attempt : AttemptInv(k)' BY <2>1, <2>2 DEF Inv, AttemptInv
  <2>5. \A c \in Clients : RequestInv(request[c])'
    BY <2>1, <2>2 DEF Inv, RequestInv, NewSnapshot, NewAttempt, Delta
  <2> QED BY <2>1, <2>2, <2>3, <2>4, <2>5 DEF Inv
<1>2. ASSUME NEW f \in Files, Edit(f) PROVE Inv' BY <1>2, EditKeeps
<1>3. ASSUME NEW c \in Clients, CopyFile(c) PROVE Inv' BY <1>3, CopyFileKeeps
<1>4. ASSUME NEW c \in Clients, GivesUp(c) \/ NothingToPlan(c) PROVE Inv'
  BY <1>4, IdleKeeps DEF GivesUp, NothingToPlan
<1>5. ASSUME NEW c \in Clients, Snapshotting(c) PROVE Inv'
  BY <1>5, SnapshotSessionKeeps, StampSnapshotKeeps, FindParentKeeps, InsertSnapshotKeeps
     DEF Snapshotting
<1>6. ASSUME NEW c \in Clients, Stacking(c) PROVE Inv'
  BY <1>6, CreateTemplateKeeps, InsertTemplateKeeps, InsertStackKeeps DEF Stacking
<1>7. ASSUME NEW c \in Clients, ForkingSteps(c) PROVE Inv'
  BY <1>4, <1>7, ForkRequestKeeps, PlanKeeps, StartAttemptKeeps, InsertAttemptKeeps
     DEF ForkingSteps
<1> QED BY <1>1, <1>2, <1>3, <1>4, <1>5, <1>6, <1>7 DEF Next

LEMMA InvImplied ==
  ASSUME Inv
  PROVE  AttemptsWhole /\ DeltaExact
<1>1. AttemptsWhole BY DEF Inv, AttemptInv, AttemptsWhole
<1>2. DeltaExact BY DEF Inv, RowInv, DeltaExact
<1> QED BY <1>1, <1>2

LEMMA Invariance == Spec => []Inv
<1>1. Init => Inv BY ForksAssumption, InitKeeps
<1>2. Inv /\ [Next]_vars => Inv' BY ForksAssumption, StepKeeps
<1> QED BY <1>1, <1>2, PTL DEF Spec

(* However forks, snapshots and stacks of any number of clients interleave *)
(* and fail, a row in fork_attempts names a workspace that holds what its  *)
(* snapshot was hashed from (Fork inserts it after CopyDir).               *)
THEOREM AttemptsAreWhole == Spec => []AttemptsWhole
<1>1. Inv => AttemptsWhole BY InvImplied
<1> QED BY <1>1, Invariance, PTL

(* The delta that CreateDirectorySnapshot stores is the difference of the  *)
(* two trees its row and the parent's were hashed from, although both are  *)
(* read long after the parent was found in the table.                      *)
THEOREM DeltasAreExact == Spec => []DeltaExact
<1>1. Inv => DeltaExact BY InvImplied
<1> QED BY <1>1, Invariance, PTL

-----------------------------------------------------------------------------
(* The budget.  A snapshot outside crowded has one client forking it at    *)
(* most, and what that one still has to insert is counted.                 *)
BudgetInv ==
  \A n \in Positive \ crowded :
    /\ Fanout(n) <= Budget
    /\ \A c \in Forking(n) : Fanout(n) + request[c].left <= Budget
    /\ \A c, d \in Forking(n) : c = d

LEMMA FanoutTyped ==
  ASSUME ForksAssumption, Inv, NEW n
  PROVE  IsFiniteSet({k \in DOMAIN attempt : attempt[k] = n}) /\ Fanout(n) \in Nat
<1> DEFINE forked == {k \in DOMAIN attempt : attempt[k] = n}
<1>1. forked \subseteq 1 .. MaxAttempts BY DEF Inv, AttemptInv, Attempts
<1>2. MaxAttempts \in Nat BY DEF ForksAssumption
<1>3. IsFiniteSet(1 .. MaxAttempts) BY <1>2, FS_Interval
<1>4. IsFiniteSet(forked)
  <2> HIDE DEF forked
  <2> QED BY <1>1, <1>3, FS_Subset
<1> QED BY <1>4, FS_CardinalityType DEF Fanout

(* A client that forks the same snapshot as before, or none. *)
Onward(c) ==
  /\ UNCHANGED <<attempt, crowded>>
  /\ \E r : /\ Goto(c, r)
            /\ \/ r.plan = NoPlan
               \/ r.plan = request[c].plan /\ r.left = request[c].left

LEMMA OnwardSteps ==
  ASSUME Inv, NEW c \in Clients,
         \/ CopyFile(c) \/ GivesUp(c) \/ Snapshotting(c) \/ Stacking(c)
         \/ \E asked \in {ByName} \cup DOMAIN row, count \in 1 .. MaxCount : ForkRequest(c, asked, count)
         \/ NothingToPlan(c) \/ StartAttempt(c)
  PROVE  Onward(c)
<1> PICK j : j = request[c] OBVIOUS
<1>1. j \in RequestRow BY DEF Inv
<1>2. Idle.plan = NoPlan BY DEF Idle
<1>3. CASE CopyFile(c)
  <2>1. [j EXCEPT !.next = j.next + 1].plan = j.plan /\ [j EXCEPT !.next = j.next + 1].left = j.left
    BY <1>1 DEF RequestRow
  <2> QED BY <1>3, <2>1 DEF CopyFile, Onward
<1>4. CASE GivesUp(c) \/ NothingToPlan(c) \/ InsertSnapshot(c)
  BY <1>2, <1>4 DEF GivesUp, NothingToPlan, InsertSnapshot, Onward
<1>5. CASE SnapshotSession(c)
  <2>1. PICK x : /\ Goto(c, [Idle EXCEPT !.at = "copy", !.kind = "session", !.from = Live, !.into = x])
                 /\ UNCHANGED <<attempt, crowded>>
    BY <1>5 DEF SnapshotSession
  <2>2. [Idle EXCEPT !.at = "copy", !.kind = "session", !.from = Live, !.into = x].plan = NoPlan
    BY DEF Idle
  <2> QED BY <2>1, <2>2 DEF Onward
<1>6. CASE StampSnapshot(c)
  <2>1. [j EXCEPT !.at = "parent", !.stamp = now].plan = j.plan
        /\ [j EXCEPT !.at = "parent", !.stamp = now].left = j.left
    BY <1>1 DEF RequestRow
  <2> QED BY <1>6, <2>1 DEF StampSnapshot, Onward
<1>7. CASE FindParent(c)
  <2>1. PICK p, d : /\ Goto(c, [j EXCEPT !.at = "insert", !.parent = p, !.delta = d])
                    /\ UNCHANGED <<attempt, crowded>>
    BY <1>7 DEF FindParent
  <2>2. [j EXCEPT !.at = "insert", !.parent = p, !.delta = d].plan = j.plan
        /\ [j EXCEPT !.at = "insert", !.parent = p, !.delta = d].left = j.left
    BY <1>1 DEF RequestRow
  <2> QED BY <2>1, <2>2 DEF Onward
<1>8. CASE CreateTemplate(c)
  <2>1. PICK x : /\ Goto(c, [Idle EXCEPT !.at = "template", !.kind = "stack", !.from = x])
                 /\ UNCHANGED <<attempt, crowded>>
    BY <1>8 DEF CreateTemplate
  <2>2. [Idle EXCEPT !.at = "template", !.kind = "stack", !.from = x].plan = NoPlan
    BY DEF Idle
  <2> QED BY <2>1, <2>2 DEF Onward
<1>9. CASE InsertTemplate(c)
  <2>1. PICK x : Goto(c, [j EXCEPT !.at = "copy", !.into = x]) /\ UNCHANGED <<attempt, crowded>>
    BY <1>9 DEF InsertTemplate
  <2>2. [j EXCEPT !.at = "copy", !.into = x].plan = j.plan
        /\ [j EXCEPT !.at = "copy", !.into = x].left = j.left
    BY <1>1 DEF RequestRow
  <2> QED BY <2>1, <2>2 DEF Onward
<1>10. CASE InsertStack(c)
  <2>1. PICK n : /\ Goto(c, [Idle EXCEPT !.at = "plan", !.kind = "fork", !.asked = n, !.left = 1])
                 /\ UNCHANGED <<attempt, crowded>>
    BY <1>10 DEF InsertStack
  <2>2. [Idle EXCEPT !.at = "plan", !.kind = "fork", !.asked = n, !.left = 1].plan = NoPlan
    BY DEF Idle
  <2> QED BY <2>1, <2>2 DEF Onward
<1>11. ASSUME NEW asked, NEW count, ForkRequest(c, asked, count) PROVE Onward(c)
  <2>1. [Idle EXCEPT !.at = "plan", !.kind = "fork", !.asked = asked, !.left = count].plan = NoPlan
    BY DEF Idle
  <2> QED BY <1>11, <2>1 DEF ForkRequest, Onward
<1>12. CASE StartAttempt(c)
  <2>1. PICK x, y : /\ Goto(c, [j EXCEPT !.at = "copy", !.from = x, !.into = y, !.next = 1])
                    /\ UNCHANGED <<attempt, crowded>>
    BY <1>12 DEF StartAttempt
  <2>2. [j EXCEPT !.at = "copy", !.from = x, !.into = y, !.next = 1].plan = j.plan
        /\ [j EXCEPT !.at = "copy", !.from = x, !.into = y, !.next = 1].left = j.left
    BY <1>1 DEF RequestRow
  <2> QED BY <2>1, <2>2 DEF Onward
<1> QED BY <1>3, <1>4, <1>5, <1>6, <1>7, <1>8, <1>9, <1>10, <1>11, <1>12
        DEF Snapshotting, Stacking

LEMMA OnwardKeeps ==
  ASSUME ForksAssumption, Inv, BudgetInv, NEW c \in Clients, Onward(c)
  PROVE  BudgetInv'
<1>1. PICK r : /\ Goto(c, r)
               /\ r.plan = NoPlan \/ (r.plan = request[c].plan /\ r.left = request[c].left)
  BY DEF Onward
<1>2. \A d \in Clients : request'[d] = IF d = c THEN r ELSE request[d]
  BY <1>1 DEF Goto, Inv
<1>3. \A n : Fanout(n)' = Fanout(n) BY DEF Onward, Fanout
<1>4. \A n \in Positive : \A d \in Forking(n)' :
        d \in Forking(n) /\ request'[d].left = request[d].left
  BY <1>1, <1>2 DEF Forking, NoPlan, Positive
<1>5. crowded' = crowded BY DEF Onward
<1> QED BY <1>3, <1>4, <1>5 DEF BudgetInv

LEMMA PlanKeepsBudget ==
  ASSUME ForksAssumption, Inv, BudgetInv, NEW c \in Clients, NEW policy, Plan(c, policy)
  PROVE  BudgetInv'
<1> PICK j : j = request[c] OBVIOUS
<1> PICK n : n = Best(policy, Candidates(j.asked)) OBVIOUS
<1>1. j \in RequestRow BY DEF Inv
<1>2. CASE Fanout(n) + j.left > Budget
  <2>1. Goto(c, Idle) /\ UNCHANGED <<attempt, crowded>> BY <1>2 DEF Plan
  <2>2. Onward(c) BY <2>1 DEF Onward, Idle
  <2> QED BY <2>2, OnwardKeeps
<1>3. CASE ~(Fanout(n) + j.left > Budget)
  <2> PICK r : r = [j EXCEPT !.at = "attempt", !.plan = n] OBVIOUS
  <2>1. /\ Goto(c, r) /\ UNCHANGED attempt
        /\ crowded' = IF Forking(n) = {} THEN crowded ELSE crowded \cup {n}
    BY <1>3 DEF Plan
  <2>2. r.plan = n /\ r.left = j.left BY <1>1 DEF RequestRow
  <2>3. \A d \in Clients : request'[d] = IF d = c THEN r ELSE request[d]
    BY <2>1 DEF Goto, Inv
  <2>4. \A m : Fanout(m)' = Fanout(m) BY <2>1 DEF Fanout
  <2>5. \A m : m # n => \A d \in Forking(m)' : d \in Forking(m) /\ request'[d].left = request[d].left
    BY <2>2, <2>3 DEF Forking
  <2>6. ASSUME n \notin crowded' PROVE Forking(n)' = {c}
    <3>1. Forking(n) = {} BY <2>1, <2>6
    <3>2. \A d \in Clients : request'[d].plan = n <=> d = c BY <2>2, <2>3, <3>1 DEF Forking
    <3> QED BY <3>2 DEF Forking
  <2>7. \A m \in Positive \ crowded' : m # n =>
          /\ Fanout(m)' <= Budget
          /\ \A d \in Forking(m)' : Fanout(m)' + request'[d].left <= Budget
          /\ \A d, e \in Forking(m)' : d = e
    BY <2>1, <2>4, <2>5 DEF BudgetInv
  <2>8. Fanout(n) + j.left <= Budget /\ Fanout(n) <= Budget
    <3>1. Fanout(n) \in Nat /\ j.left \in Nat /\ Budget \in Nat
      BY <1>1, FanoutTyped, RequestFields DEF ForksAssumption
    <3> QED BY SMTT(30), <1>3, <3>1
  <2>9. request'[c].left = j.left BY <2>2, <2>3
  <2> QED BY <2>4, <2>6, <2>7, <2>8, <2>9 DEF BudgetInv
<1> QED BY <1>2, <1>3

LEMMA InsertAttemptKeepsBudget ==
  ASSUME ForksAssumption, Inv, BudgetInv, NEW c \in Clients, InsertAttempt(c)
  PROVE  BudgetInv'
<1> PICK j : j = request[c] OBVIOUS
<1> PICK k : k = j.into[2] OBVIOUS
<1>a. PICK r : r = IF j.left = 1 THEN Idle ELSE [j EXCEPT !.at = "attempt", !.left = @ - 1]
  OBVIOUS
<1>1. j \in RequestRow /\ RequestInv(j) BY DEF Inv
<1>2. /\ j.at = "copy" /\ j.kind = "fork"
      /\ attempt' = Put(attempt, k, j.plan) /\ Goto(c, r) /\ crowded' = crowded
  BY <1>a DEF InsertAttempt, Copied
<1>3. k \notin DOMAIN attempt /\ j.plan \in DOMAIN row /\ j.left # 0
  BY <1>1, <1>2, SecondOfName DEF RequestInv, NewAttempt
<1>4. /\ DOMAIN attempt' = DOMAIN attempt \cup {k} /\ attempt'[k] = j.plan
      /\ \A m \in DOMAIN attempt : attempt'[m] = attempt[m]
  BY <1>2, <1>3 DEF Put
<1>5. \A m : m # j.plan => Fanout(m)' = Fanout(m)
  <2>1. \A m : m # j.plan =>
          {i \in DOMAIN attempt' : attempt'[i] = m} = {i \in DOMAIN attempt : attempt[i] = m}
    BY <1>4
  <2> QED BY <2>1 DEF Fanout
<1>6. Fanout(j.plan)' = Fanout(j.plan) + 1
  <2> DEFINE forked == {i \in DOMAIN attempt : attempt[i] = j.plan}
  <2>1. {i \in DOMAIN attempt' : attempt'[i] = j.plan} = forked \cup {k} BY <1>4
  <2>2. IsFiniteSet(forked) /\ k \notin forked BY <1>3, FanoutTyped
  <2> HIDE DEF forked
  <2>3. Cardinality(forked \cup {k}) = Cardinality(forked) + 1 BY <2>2, FS_AddElement
  <2>4. Cardinality({i \in DOMAIN attempt' : attempt'[i] = j.plan}) = Cardinality(forked) + 1
    BY <2>1, <2>3
  <2> QED BY <2>4 DEF Fanout, forked
<1>7. \A d \in Clients : request'[d] = IF d = c THEN r ELSE request[d]
  BY <1>2 DEF Goto, Inv
<1>8. /\ Fanout(j.plan) \in Nat /\ j.left \in Nat /\ Budget \in Nat
  BY <1>1, FanoutTyped, RequestFields DEF ForksAssumption
<1>9. (r.plan = NoPlan /\ j.left = 1) \/ (r.plan = j.plan /\ r.left = j.left - 1)
  BY <1>a, <1>1 DEF Idle, RequestRow
<1>10. \A m \in Positive : \A d \in Forking(m)' :
         d \in Forking(m) /\ (d # c => request'[d].left = request[d].left)
  BY <1>7, <1>9 DEF Forking, NoPlan, Positive
<1>11. c \in Forking(j.plan) BY DEF Forking
<1>12. ASSUME NEW m \in Positive \ crowded', m # j.plan
       PROVE  /\ Fanout(m)' <= Budget
              /\ \A d \in Forking(m)' : Fanout(m)' + request'[d].left <= Budget
              /\ \A d, e \in Forking(m)' : d = e
  <2>1. c \notin Forking(m) BY <1>12 DEF Forking
  <2> QED BY <1>2, <1>5, <1>10, <1>12, <2>1 DEF BudgetInv
<1>13. ASSUME j.plan \in Positive \ crowded'
       PROVE  /\ Fanout(j.plan)' <= Budget
              /\ \A d \in Forking(j.plan)' : Fanout(j.plan)' + request'[d].left <= Budget
              /\ \A d, e \in Forking(j.plan)' : d = e
  <2>1. /\ Fanout(j.plan) + j.left <= Budget
        /\ \A d \in Forking(j.plan) : d = c
    BY <1>2, <1>11, <1>13 DEF BudgetInv
  <2>2. \A d \in Forking(j.plan)' : d = c /\ request'[d] = r BY <1>7, <1>10, <1>13, <2>1 DEF Forking
  <2>3. Fanout(j.plan)' <= Budget BY <1>3, <1>6, <1>8, <2>1
  <2>4. ASSUME NEW d \in Forking(j.plan)' PROVE Fanout(j.plan)' + request'[d].left <= Budget
    <3>1. r.plan = j.plan /\ request'[d] = r BY <1>7, <2>2, <2>4 DEF Forking
    <3>2. j.plan # NoPlan BY <1>13 DEF Positive, NoPlan
    <3>3. r.left = j.left - 1 BY <1>9, <3>1, <3>2
    <3> QED BY <1>6, <1>8, <2>1, <3>1, <3>3
  <2> QED BY <2>2, <2>3, <2>4
<1> QED BY <1>12, <1>13 DEF BudgetInv

LEMMA BudgetStep ==
  ASSUME ForksAssumption, Inv, BudgetInv, [Next]_vars
  PROVE  BudgetInv'
<1>1. ASSUME UNCHANGED <<attempt, request, crowded>> PROVE BudgetInv'
  BY <1>1 DEF BudgetInv, Fanout, Forking
<1>2. CASE UNCHANGED vars BY <1>1, <1>2 DEF vars
<1>3. ASSUME NEW f \in Files, Edit(f) PROVE BudgetInv' BY <1>1, <1>3 DEF Edit
<1>4. ASSUME NEW c \in Clients, CopyFile(c) \/ GivesUp(c) \/ Snapshotting(c) \/ Stacking(c)
      PROVE  BudgetInv'
  BY <1>4, OnwardSteps, OnwardKeeps
<1>5. ASSUME NEW c \in Clients, ForkingSteps(c) PROVE BudgetInv'
  BY <1>5, OnwardSteps, OnwardKeeps, PlanKeepsBudget, InsertAttemptKeepsBudget DEF ForkingSteps
<1> QED BY <1>2, <1>3, <1>4, <1>5 DEF Next

(* More attempts of a snapshot than AGENTPROV_IO_MAX_FANOUT_PER_LOWER take  *)
(* two clients that fork it at the same time: whoever else forks, fails and *)
(* forks again, one after the other they stay below it (Fork,               *)
(* sharedLowerFanout).                                                      *)
THEOREM BudgetIsKept == Spec => []BudgetHolds
<1>1. ASSUME ForksAssumption, Init PROVE BudgetInv
  <2>1. \A n : {k \in DOMAIN attempt : attempt[k] = n} = {} BY <1>1 DEF Init
  <2>2. \A n : Fanout(n) = 0 BY <2>1, FS_EmptySet DEF Fanout
  <2>3. \A n \in Positive : Forking(n) = {} BY <1>1 DEF Init, Forking, Idle, NoPlan, Positive
  <2> QED BY <1>1, <2>2, <2>3 DEF BudgetInv, ForksAssumption
<1>2. Inv /\ BudgetInv => BudgetHolds
  <2>1. Inv => \A n \in DOMAIN row : n \in Positive
    BY RowIdsAreNumbers DEF Inv, DiskInv, RowInv, Positive
  <2> QED BY <2>1 DEF BudgetInv, BudgetHolds
<1>3. Inv /\ BudgetInv /\ [Next]_vars => BudgetInv' BY ForksAssumption, BudgetStep
<1> QED BY <1>1, <1>2, <1>3, ForksAssumption, Invariance, PTL DEF Spec
=============================================================================
