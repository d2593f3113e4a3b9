------------------------------ MODULE K8sProofs ------------------------------
(***************************************************************************)
(* What K8sScopes keeps for any pods, containers, bindings, failing calls, *)
(* watch gaps and restarts.  The invariant comes in layers, each proved    *)
(* with the help of those before it: what a job says of itself, what the   *)
(* queue holds, what a binding is for, who holds which mutex, and what the *)
(* map of the reconciler knows.                                            *)
(***************************************************************************)
EXTENDS K8sScopes, FiniteSetTheorems, TLAPS

Job == [at : Steps, item : Items \cup {NoItem}, uid : Uids \cup {NoPod},
        status : [Names -> 0 .. MaxStarts], left : SUBSET Names,
        prev : [Names -> Bindings \cup {NoBinding}], name : Names \cup {NoName},
        made : Bindings \cup {NoBinding}, errs : BOOLEAN, lock : Nat]

Deleting == {"collect", "closing", "forget"}
Replacing == {"close", "bind", "store"}
Engaged == {"lookup", "lock"} \cup Locked
Busy(w) == job[w].at # "idle"

(* A job: who it is for, and which step it may be at.                      *)
JobInv(j) ==
  /\ j.at # "idle" => j.item \in Items /\ j.uid \in Uids
  /\ j.at = "fetch" => ~j.item.deleted /\ j.uid = j.item.uid
  /\ j.at # "idle" /\ j.item.deleted =>
       j.uid = j.item.uid /\ j.at \in {"lookup", "lock", "done"} \cup Deleting
  /\ j.at \in Deleting => j.item.deleted
  /\ j.at \in Replacing => j.name \in j.left /\ j.status[j.name] > 0
  /\ j.at = "close" => j.prev[j.name] # NoBinding
  /\ j.at = "forget" => j.name \in j.left

TypeInv ==
  /\ current \in Uids \cup {NoPod} /\ seen \in SUBSET Uids
  /\ starts \in 0 .. MaxStarts
  /\ id \in [Uids -> [Names -> 0 .. MaxStarts]]
  /\ dirty \in SUBSET Items /\ processing \in SUBSET Items /\ delayed \in SUBSET Items
  /\ slot \in [Uids -> [Names -> Bindings \cup {NoBinding}]]
  /\ epoch \in [Uids -> Nat]
  /\ scope \in [Bindings -> Scopes \cup {NoScope}] /\ open \in SUBSET Bindings
  /\ job \in [Workers -> Job]
  /\ \A w \in Workers : JobInv(job[w])

-----------------------------------------------------------------------------
(* Types. *)
LEMMA IdleJob ==
  ASSUME ScopesAssumption
  PROVE  Idle \in Job /\ JobInv(Idle)
  BY DEF ScopesAssumption, Idle, Job, JobInv, Steps, NoItem, NoContainers, Unbound,
         Deleting, Replacing

LEMMA TypeInit == ASSUME ScopesAssumption, Init PROVE TypeInv
<1>1. NoContainers \in [Names -> 0 .. MaxStarts]
  BY DEF ScopesAssumption, NoContainers
<1> QED BY <1>1, IdleJob DEF ScopesAssumption, Init, TypeInv, Unbound

(* Only one worker's job changes. *)
LEMMA NewJob ==
  ASSUME TypeInv, NEW w \in Workers, NEW j \in Job, JobInv(j), Becomes(w, j)
  PROVE  /\ job' \in [Workers -> Job] /\ job'[w] = j
         /\ \A v \in Workers \ {w} : job'[v] = job[v]
         /\ \A v \in Workers : JobInv(job'[v])
<1>1. job' \in [Workers -> Job] /\ job'[w] = j /\ \A v \in Workers \ {w} : job'[v] = job[v]
  BY DEF TypeInv, Becomes
<1> QED BY <1>1 DEF TypeInv

(* Every step of a worker gives it a job that makes sense.                  *)
LEMMA WorkJob ==
  ASSUME ScopesAssumption, TypeInv, NEW w \in Workers, Work(w)
  PROVE  \E j \in Job : JobInv(j) /\ Becomes(w, j)
<1> PICK r : r = job[w] OBVIOUS
<1>r. r \in Job /\ JobInv(r) BY DEF TypeInv
<1>id. id \in [Uids -> [Names -> 0 .. MaxStarts]] /\ current \in Uids \cup {NoPod} BY DEF TypeInv
<1>slot. slot \in [Uids -> [Names -> Bindings \cup {NoBinding}]] BY DEF TypeInv
<1>epoch. epoch \in [Uids -> Nat] BY DEF TypeInv
<1> USE DEF Steps, Locked, Deleting, Replacing
<1>fail. ASSUME NEW n \in Names, r.at \in {"scan", "close", "bind", "closing"}, ContainerFails(w, n)
         PROVE  \E j \in Job : JobInv(j) /\ Becomes(w, j)
  <2>1. PICK j : j = [r EXCEPT !.at = IF @ = "closing" THEN "closing" ELSE "scan",
                !.left = @ \ {n}, !.name = NoName, !.prev[n] = NoBinding, !.errs = TRUE]
    OBVIOUS
  <2>2. Becomes(w, j) BY <1>fail, <2>1 DEF ContainerFails
  <2>3. j \in Job BY ZenonT(60), <1>r, <1>fail, <2>1 DEF Job
  <2>4. JobInv(j) BY <1>r, <1>fail, <2>1 DEF Job, JobInv
  <2> QED BY <2>2, <2>3, <2>4
<1>1. CASE Get(w)
  <2>1. PICK i \in dirty \ processing :
          Becomes(w, [Idle EXCEPT !.item = i, !.uid = i.uid,
                        !.at = IF i.deleted THEN "lookup" ELSE "fetch"])
    BY <1>1 DEF Get
  <2>2. i \in Items /\ i.uid \in Uids /\ i.deleted \in BOOLEAN BY DEF TypeInv, Items
  <2>3. PICK j : j = [Idle EXCEPT !.item = i, !.uid = i.uid,
                        !.at = IF i.deleted THEN "lookup" ELSE "fetch"]
    OBVIOUS
  <2>4. j \in Job BY <2>2, <2>3, IdleJob DEF Job, Idle
  <2>5. JobInv(j) BY <2>2, <2>3 DEF Idle, JobInv
  <2> QED BY <2>1, <2>3, <2>4, <2>5
<1>2. CASE Fetch(w)
  <2>1. CASE current = NoPod
    <3>1. PICK j : j = [r EXCEPT !.at = "done"] OBVIOUS
    <3>2. Becomes(w, j) BY <1>2, <2>1, <3>1 DEF Fetch
    <3>3. j \in Job BY <1>r, <3>1 DEF Job
    <3>4. JobInv(j) BY <1>r, <1>2, <3>1 DEF Job, JobInv, Fetch
    <3> QED BY <3>2, <3>3, <3>4
  <2>2. CASE current # NoPod
    <3>1. PICK j : j = [r EXCEPT !.at = "lookup", !.uid = current,
                          !.status = id[current], !.left = Names]
      OBVIOUS
    <3>2. Becomes(w, j) BY <1>2, <2>2, <3>1 DEF Fetch
    <3>3. current \in Uids /\ id[current] \in [Names -> 0 .. MaxStarts] BY <1>id, <2>2
    <3>4. j \in Job BY <1>r, <3>1, <3>3 DEF Job
    <3>5. JobInv(j) BY <1>r, <1>2, <3>1, <3>3 DEF Job, JobInv, Fetch
    <3> QED BY <3>2, <3>4, <3>5
  <2> QED BY <2>1, <2>2
<1>3. CASE LookupLock(w)
  <2>1. PICK j : j = [r EXCEPT !.at = "lock", !.lock = epoch[r.uid]]
    OBVIOUS
  <2>2. Becomes(w, j) BY <1>3, <2>1 DEF LookupLock
  <2>3. j \in Job BY <1>r, <1>3, <2>1, <1>epoch DEF Job, JobInv, LookupLock
  <2>4. JobInv(j) BY <1>r, <1>3, <2>1, <1>epoch DEF Job, JobInv, LookupLock
  <2> QED BY <2>2, <2>3, <2>4
<1>4. CASE AcquireLock(w)
  <2>1. PICK j : j = [r EXCEPT !.at = IF r.item.deleted THEN "collect" ELSE "scan"]
    OBVIOUS
  <2>2. Becomes(w, j) BY <1>4, <2>1 DEF AcquireLock
  <2>3. j \in Job BY <1>r, <1>4, <2>1 DEF Job, JobInv, AcquireLock
  <2>4. JobInv(j) BY <1>r, <1>4, <2>1 DEF Job, JobInv, AcquireLock
  <2> QED BY <2>2, <2>3, <2>4
<1>5. CASE \E n \in Names : SkipContainer(w, n)
  <2>n. PICK n \in Names : SkipContainer(w, n) BY <1>5
  <2>1. PICK j : j = [r EXCEPT !.left = @ \ {n}]
    OBVIOUS
  <2>2. Becomes(w, j) BY <2>n, <2>1 DEF SkipContainer
  <2>3. j \in Job BY <1>r, <2>n, <2>1 DEF Job, JobInv, SkipContainer
  <2>4. JobInv(j) BY <1>r, <2>n, <2>1 DEF Job, JobInv, SkipContainer
  <2> QED BY <2>2, <2>3, <2>4
<1>6. CASE \E n \in Names : ResolveContainer(w, n)
  <2>n. PICK n \in Names : ResolveContainer(w, n) BY <1>6
  <2>a. r.at = "scan" /\ n \in r.left /\ r.uid \in Uids /\ ~r.item.deleted
    BY <1>r, <2>n DEF Job, JobInv, ResolveContainer
  <2>b. slot[r.uid][n] \in Bindings \cup {NoBinding} BY <1>slot, <2>a
  <2>c. r.status[n] \in Nat /\ r.status[n] > 0
    <3>1. r.status[n] # 0 BY <2>n DEF ResolveContainer, Settled
    <3> QED BY <1>r, <3>1 DEF Job
  <2>1. PICK j : j = [r EXCEPT !.name = n, !.prev[n] = slot[r.uid][n],
                       !.at = IF slot[r.uid][n] = NoBinding THEN "bind" ELSE "close"]
    OBVIOUS
  <2>2. Becomes(w, j) BY <2>n, <2>1 DEF ResolveContainer
  <2>3. j \in Job BY <1>r, <2>1, <2>b DEF Job
  <2>4. JobInv(j) BY <1>r, <2>1, <2>a, <2>b, <2>c DEF Job, JobInv
  <2> QED BY <2>2, <2>3, <2>4
<1>7. CASE \E n \in Names : ResolveFails(w, n)
  BY <1>7, <1>fail DEF ResolveFails
<1>8. CASE ClosePrevious(w)
  <2>1. PICK j : j = [r EXCEPT !.at = "bind"]
    OBVIOUS
  <2>2. Becomes(w, j) BY <1>8, <2>1 DEF ClosePrevious
  <2>3. j \in Job BY <1>r, <1>8, <2>1 DEF Job, JobInv, ClosePrevious
  <2>4. JobInv(j) BY <1>r, <1>8, <2>1 DEF Job, JobInv, ClosePrevious
  <2> QED BY <2>2, <2>3, <2>4
<1>9. CASE ClosePreviousFails(w)
  <2>1. r.name \in Names BY <1>r, <1>9 DEF Job, JobInv, ClosePreviousFails
  <2> QED BY <1>9, <1>fail, <2>1 DEF ClosePreviousFails
<1>10. CASE Bind(w)
  <2>1. PICK b \in Bindings : Becomes(w, [job[w] EXCEPT !.at = "store", !.made = b])
    BY <1>10 DEF Bind
  <2>2. PICK j : j = [r EXCEPT !.at = "store", !.made = b] OBVIOUS
  <2>3. j \in Job BY <1>r, <2>2 DEF Job
  <2>4. JobInv(j) BY <1>r, <1>10, <2>2 DEF Job, JobInv, Bind
  <2> QED BY <2>1, <2>2, <2>3, <2>4
<1>11. CASE BindFails(w)
  <2>1. r.name \in Names BY <1>r, <1>11 DEF Job, JobInv, BindFails
  <2> QED BY <1>11, <1>fail, <2>1 DEF BindFails
<1>12. CASE StoreBinding(w)
  <2>1. PICK j : j = [r EXCEPT !.at = "scan", !.left = @ \ {r.name},
                          !.name = NoName, !.prev[r.name] = NoBinding,
                          !.made = NoBinding]
    OBVIOUS
  <2>2. Becomes(w, j) BY <1>12, <2>1 DEF StoreBinding
  <2>3. j \in Job BY <1>r, <1>12, <2>1 DEF Job, JobInv, StoreBinding
  <2>4. JobInv(j) BY <1>r, <1>12, <2>1 DEF Job, JobInv, StoreBinding
  <2> QED BY <2>2, <2>3, <2>4
<1>13. CASE UpsertReturns(w)
  <2>1. PICK j : j = [r EXCEPT !.at = "done"]
    OBVIOUS
  <2>2. Becomes(w, j) BY <1>13, <2>1 DEF UpsertReturns
  <2>3. j \in Job BY <1>r, <1>13, <2>1 DEF Job, JobInv, UpsertReturns
  <2>4. JobInv(j) BY <1>r, <1>13, <2>1 DEF Job, JobInv, UpsertReturns
  <2> QED BY <2>2, <2>3, <2>4
<1>14. CASE Collect(w)
  <2>1. PICK j : j = [r EXCEPT !.at = "closing", !.prev = slot[r.uid],
                       !.left = {n \in Names : slot[r.uid][n] # NoBinding}]
    OBVIOUS
  <2>2. Becomes(w, j) BY <1>14, <2>1 DEF Collect
  <2>3. j \in Job BY <1>r, <1>14, <2>1, <1>slot DEF Job, JobInv, Collect
  <2>4. JobInv(j) BY <1>r, <1>14, <2>1, <1>slot DEF Job, JobInv, Collect
  <2> QED BY <2>2, <2>3, <2>4
<1>15. CASE \E n \in Names : CloseCollected(w, n)
  <2>n. PICK n \in Names : CloseCollected(w, n) BY <1>15
  <2>1. PICK j : j = [r EXCEPT !.at = "forget", !.name = n]
    OBVIOUS
  <2>2. Becomes(w, j) BY <2>n, <2>1 DEF CloseCollected
  <2>3. j \in Job BY <1>r, <2>n, <2>1 DEF Job, JobInv, CloseCollected
  <2>4. JobInv(j) BY <1>r, <2>n, <2>1 DEF Job, JobInv, CloseCollected
  <2> QED BY <2>2, <2>3, <2>4
<1>16. CASE \E n \in Names : CloseCollectedFails(w, n)
  BY <1>16, <1>fail DEF CloseCollectedFails
<1>17. CASE ForgetCollected(w)
  <2>1. PICK j : j = [r EXCEPT !.at = "closing", !.left = @ \ {r.name},
                          !.name = NoName, !.prev[r.name] = NoBinding]
    OBVIOUS
  <2>2. Becomes(w, j) BY <1>17, <2>1 DEF ForgetCollected
  <2>3. j \in Job BY <1>r, <1>17, <2>1 DEF Job, JobInv, ForgetCollected
  <2>4. JobInv(j) BY <1>r, <1>17, <2>1 DEF Job, JobInv, ForgetCollected
  <2> QED BY <2>2, <2>3, <2>4
<1>18. CASE DeleteReturns(w)
  <2>1. PICK j : j = [r EXCEPT !.at = "done"]
    OBVIOUS
  <2>2. Becomes(w, j) BY <1>18, <2>1 DEF DeleteReturns
  <2>3. j \in Job BY <1>r, <1>18, <2>1 DEF Job, JobInv, DeleteReturns
  <2>4. JobInv(j) BY <1>r, <1>18, <2>1 DEF Job, JobInv, DeleteReturns
  <2> QED BY <2>2, <2>3, <2>4
<1>19. CASE Finish(w) BY <1>19, IdleJob DEF Finish
<1> QED BY <1>1, <1>2, <1>3, <1>4, <1>5, <1>6, <1>7, <1>8, <1>9, <1>10, <1>11, <1>12,
           <1>13, <1>14, <1>15, <1>16, <1>17, <1>18, <1>19
           DEF Work, Upsert, Delete

(* The steps between locking the pod's mutex and unlocking it again, but   *)
(* for the last one of Delete, which takes the mutex out of the map.        *)
Inside(w) ==
  \/ ClosePrevious(w) \/ ClosePreviousFails(w) \/ Bind(w) \/ BindFails(w)
  \/ StoreBinding(w) \/ UpsertReturns(w) \/ Collect(w) \/ ForgetCollected(w)
  \/ \E n \in Names : \/ SkipContainer(w, n) \/ ResolveContainer(w, n) \/ ResolveFails(w, n)
                      \/ CloseCollected(w, n) \/ CloseCollectedFails(w, n)

LEMMA WorkCases ==
  ASSUME NEW w, Work(w)
  PROVE  \/ Get(w) \/ Fetch(w) \/ LookupLock(w) \/ AcquireLock(w)
         \/ Inside(w) \/ DeleteReturns(w) \/ Finish(w)
  BY DEF Work, Upsert, Delete, Inside

(* They leave the cluster, the queue and the names of the mutexes alone,   *)
(* and the job remains the same job.                                       *)
LEMMA InsideFrame ==
  ASSUME NEW w, Inside(w)
  PROVE  /\ current' = current /\ seen' = seen /\ starts' = starts /\ id' = id
         /\ dirty' = dirty /\ processing' = processing /\ delayed' = delayed
         /\ epoch' = epoch /\ gaveUp' = gaveUp /\ hidden' = hidden
  BY DEF Inside, SkipContainer, ResolveContainer, ResolveFails, ClosePrevious,
         ClosePreviousFails, Bind, BindFails, StoreBinding, UpsertReturns, Collect,
         CloseCollected, CloseCollectedFails, ForgetCollected, cluster, queue, memory,
         history, bounds, Fault

LEMMA FailsJob ==
  ASSUME TypeInv, NEW w \in Workers, NEW n \in Names, job[w].at \in Locked, ContainerFails(w, n)
  PROVE  /\ job'[w].at = IF job[w].at = "closing" THEN "closing" ELSE "scan"
         /\ job'[w].item = job[w].item /\ job'[w].uid = job[w].uid
         /\ job'[w].lock = job[w].lock /\ job'[w].status = job[w].status
         /\ job'[w].left = job[w].left \ {n} /\ job'[w].errs = TRUE
         /\ job'[w].prev = [job[w].prev EXCEPT ![n] = NoBinding]
  BY DEF TypeInv, ContainerFails, Becomes, Job

LEMMA BecomesIs ==
  ASSUME TypeInv, NEW w \in Workers, NEW j, Becomes(w, j)
  PROVE  job'[w] = j /\ \A v \in Workers \ {w} : job'[v] = job[v]
  BY DEF TypeInv, Becomes

LEMMA InsideJob ==
  ASSUME TypeInv, NEW w \in Workers, Inside(w)
  PROVE  /\ job[w].at \in Locked /\ job'[w].at \in Locked \cup {"done"}
         /\ job'[w].item = job[w].item /\ job'[w].uid = job[w].uid
         /\ job'[w].lock = job[w].lock /\ job'[w].status = job[w].status
         /\ job[w].errs => job'[w].errs
<1> PICK r : r = job[w] OBVIOUS
<1>t. r \in Job /\ JobInv(r) BY DEF TypeInv
<1>f. \A n \in Names : r.at \in Locked /\ ContainerFails(w, n) =>
        /\ job'[w].at \in Locked
        /\ job'[w].item = r.item /\ job'[w].uid = r.uid
        /\ job'[w].lock = r.lock /\ job'[w].status = r.status
        /\ r.errs => job'[w].errs
  BY FailsJob DEF Locked
<1>1. ASSUME NEW n \in Names, SkipContainer(w, n)
     PROVE  /\ r.at \in Locked /\ job'[w].at \in Locked \cup {"done"}
            /\ job'[w].item = r.item /\ job'[w].uid = r.uid
            /\ job'[w].lock = r.lock /\ job'[w].status = r.status
            /\ r.errs => job'[w].errs
  <2>1. job'[w] = [r EXCEPT !.left = @ \ {n}] BY <1>1, BecomesIs DEF SkipContainer
  <2>2. r.at \in Locked BY <1>1 DEF SkipContainer, Locked
  <2> QED BY <1>t, <2>1, <2>2 DEF Job, Locked
<1>2. ASSUME NEW n \in Names, ResolveContainer(w, n)
     PROVE  /\ r.at \in Locked /\ job'[w].at \in Locked \cup {"done"}
            /\ job'[w].item = r.item /\ job'[w].uid = r.uid
            /\ job'[w].lock = r.lock /\ job'[w].status = r.status
            /\ r.errs => job'[w].errs
  <2>1. job'[w] = [r EXCEPT !.name = n, !.prev[n] = slot[r.uid][n],
                       !.at = IF slot[r.uid][n] = NoBinding THEN "bind" ELSE "close"] BY <1>2, BecomesIs DEF ResolveContainer
  <2>2. r.at \in Locked BY <1>2 DEF ResolveContainer, Locked
  <2> QED BY <1>t, <2>1, <2>2 DEF Job, Locked
<1>3. ASSUME NEW n \in Names, CloseCollected(w, n)
     PROVE  /\ r.at \in Locked /\ job'[w].at \in Locked \cup {"done"}
            /\ job'[w].item = r.item /\ job'[w].uid = r.uid
            /\ job'[w].lock = r.lock /\ job'[w].status = r.status
            /\ r.errs => job'[w].errs
  <2>1. job'[w] = [r EXCEPT !.at = "forget", !.name = n] BY <1>3, BecomesIs DEF CloseCollected
  <2>2. r.at \in Locked BY <1>3 DEF CloseCollected, Locked
  <2> QED BY <1>t, <2>1, <2>2 DEF Job, Locked
<1>4. CASE \E n \in Names : ResolveFails(w, n) \/ CloseCollectedFails(w, n)
  BY <1>4, <1>f DEF ResolveFails, CloseCollectedFails, Locked
<1>5. CASE ClosePrevious(w)
  <2>1. job'[w] = [r EXCEPT !.at = "bind"] BY <1>5, BecomesIs DEF ClosePrevious
  <2>2. r.at \in Locked BY <1>5 DEF ClosePrevious, Locked
  <2> QED BY <1>t, <2>1, <2>2 DEF Job, Locked
<1>6. CASE Bind(w)
  <2>1. PICK b : job'[w] = [r EXCEPT !.at = "store", !.made = b] BY <1>6, BecomesIs DEF Bind
  <2>2. r.at \in Locked BY <1>6 DEF Bind, Locked
  <2> QED BY <1>t, <2>1, <2>2 DEF Job, Locked
<1>7. CASE UpsertReturns(w)
  <2>1. job'[w] = [r EXCEPT !.at = "done"] BY <1>7, BecomesIs DEF UpsertReturns
  <2>2. r.at \in Locked BY <1>7 DEF UpsertReturns, Locked
  <2> QED BY <1>t, <2>1, <2>2 DEF Job, Locked
<1>8. CASE ClosePreviousFails(w) \/ BindFails(w)
  <2>1. r.name \in Names BY <1>t, <1>8 DEF Job, JobInv, Replacing, ClosePreviousFails, BindFails
  <2> QED BY <1>8, <1>f, <2>1 DEF ClosePreviousFails, BindFails, Locked
<1>9. CASE StoreBinding(w)
  <2>1. job'[w] = [r EXCEPT !.at = "scan", !.left = @ \ {r.name},
                          !.name = NoName, !.prev[r.name] = NoBinding,
                          !.made = NoBinding] BY <1>9, BecomesIs DEF StoreBinding
  <2>2. r.at \in Locked BY <1>9 DEF StoreBinding, Locked
  <2> QED BY <1>t, <2>1, <2>2 DEF Job, Locked
<1>10. CASE Collect(w)
  <2>1. job'[w] = [r EXCEPT !.at = "closing", !.prev = slot[r.uid],
                       !.left = {n \in Names : slot[r.uid][n] # NoBinding}] BY <1>10, BecomesIs DEF Collect
  <2>2. r.at \in Locked BY <1>10 DEF Collect, Locked
  <2> QED BY <1>t, <2>1, <2>2 DEF Job, Locked
<1>11. CASE ForgetCollected(w)
  <2>1. job'[w] = [r EXCEPT !.at = "closing", !.left = @ \ {r.name},
                          !.name = NoName, !.prev[r.name] = NoBinding] BY <1>11, BecomesIs DEF ForgetCollected
  <2>2. r.at \in Locked BY <1>11 DEF ForgetCollected, Locked
  <2> QED BY <1>t, <2>1, <2>2 DEF Job, Locked
<1> QED BY <1>1, <1>2, <1>3, <1>4, <1>5, <1>6, <1>7, <1>8, <1>9, <1>10, <1>11 DEF Inside

LEMMA TypeWork ==
  ASSUME ScopesAssumption, TypeInv, NEW w \in Workers, Work(w)
  PROVE  TypeInv'
<1>1. job' \in [Workers -> Job] /\ \A v \in Workers : JobInv(job'[v])
  <2>1. PICK j \in Job : JobInv(j) /\ Becomes(w, j) BY WorkJob
  <2> QED BY <2>1, NewJob
<1>2. current' = current /\ seen' = seen /\ starts' = starts /\ id' = id
  BY WorkCases, InsideFrame DEF Get, Fetch, LookupLock, AcquireLock, DeleteReturns, Finish, cluster
<1>3. /\ dirty' \in SUBSET Items /\ processing' \in SUBSET Items /\ delayed' \in SUBSET Items
      /\ epoch' \in [Uids -> Nat]
  <2> USE DEF TypeInv
  <2>1. CASE Get(w) BY <2>1 DEF Get, memory
  <2>2. CASE Inside(w) BY <2>2, InsideFrame
  <2>3. CASE Fetch(w) \/ LookupLock(w) \/ AcquireLock(w)
    <3>1. UNCHANGED <<queue, memory>> BY <2>3 DEF Fetch, LookupLock, AcquireLock
    <3> QED BY <3>1 DEF queue, memory
  <2>4. CASE DeleteReturns(w)
    <3>1. /\ UNCHANGED queue
          /\ epoch' = [epoch EXCEPT ![job[w].uid] = IF job[w].errs THEN @ ELSE @ + 1]
      BY <2>4 DEF DeleteReturns
    <3>2. job[w].uid \in Uids BY <2>4 DEF DeleteReturns, JobInv
    <3>3. (IF job[w].errs THEN epoch[job[w].uid] ELSE epoch[job[w].uid] + 1) \in Nat
      BY <3>2
    <3> QED BY <3>1, <3>3 DEF queue
  <2>5. CASE Finish(w)
    <3>1. job[w].item \in Items BY <2>5 DEF JobInv, Finish
    <3> QED BY <2>5, <3>1 DEF Finish, memory
  <2> QED BY <2>1, <2>2, <2>3, <2>4, <2>5, WorkCases
<1>4. /\ slot' \in [Uids -> [Names -> Bindings \cup {NoBinding}]]
      /\ scope' \in [Bindings -> Scopes \cup {NoScope}] /\ open' \in SUBSET Bindings
  <2>t. /\ slot \in [Uids -> [Names -> Bindings \cup {NoBinding}]]
        /\ scope \in [Bindings -> Scopes \cup {NoScope}] /\ open \in SUBSET Bindings
    BY DEF TypeInv
  <2>j. job[w] \in Job /\ JobInv(job[w]) BY DEF TypeInv
  <2>1. CASE StoreBinding(w)
    <3>1. job[w].uid \in Uids /\ job[w].name \in Names /\ job[w].made \in Bindings \cup {NoBinding}
      BY <2>1, <2>j DEF StoreBinding, JobInv, Job, Replacing
    <3> QED BY <2>1, <2>t, <3>1 DEF StoreBinding, sink
  <2>2. CASE ForgetCollected(w)
    <3>1. job[w].uid \in Uids /\ job[w].name \in Names
      BY <2>2, <2>j DEF ForgetCollected, JobInv, Job
    <3> QED BY <2>2, <2>t, <3>1 DEF ForgetCollected, sink
  <2>3. CASE Bind(w) \/ BindFails(w)
    <3>1. job[w].uid \in Uids /\ job[w].name \in Names /\ job[w].status[job[w].name] \in 1 .. MaxStarts
      <4>1. /\ job[w].uid \in Uids /\ job[w].name \in Names
            /\ job[w].status[job[w].name] > 0 /\ job[w].status \in [Names -> 0 .. MaxStarts]
        BY <2>3, <2>j DEF Bind, BindFails, JobInv, Job, Replacing
      <4> QED BY <4>1 DEF ScopesAssumption
    <3>2. [uid |-> job[w].uid, name |-> job[w].name, id |-> job[w].status[job[w].name]] \in Scopes
      BY <3>1 DEF Scopes
    <3>3. \A b \in Bindings : Recorded(w, b) => scope' \in [Bindings -> Scopes \cup {NoScope}]
      BY <2>t, <3>2 DEF Recorded
    <3> QED BY <2>3, <2>t, <3>3 DEF Bind, BindFails, memory, sink
  <2>4. CASE ClosePrevious(w) \/ \E n \in Names : CloseCollected(w, n)
    BY <2>4, <2>t DEF ClosePrevious, CloseCollected, memory
  <2>5. CASE ~(\/ StoreBinding(w) \/ ForgetCollected(w) \/ Bind(w) \/ BindFails(w)
               \/ ClosePrevious(w) \/ \E n \in Names : CloseCollected(w, n))
    <3>1. UNCHANGED <<slot, scope, open>>
      BY <2>5 DEF Work, Upsert, Delete, Get, Fetch, LookupLock, AcquireLock, SkipContainer,
         ResolveContainer, ResolveFails, ClosePreviousFails, UpsertReturns, Collect,
         CloseCollectedFails, DeleteReturns, Finish, memory, sink
    <3> QED BY <3>1, <2>t
  <2> QED BY <2>1, <2>2, <2>3, <2>4, <2>5
<1> QED BY <1>1, <1>2, <1>3, <1>4 DEF TypeInv

(* The steps of the cluster, each with what it does to the pods and to the *)
(* queue.                                                                  *)
LEMMA ClusterFrame ==
  ASSUME Cluster
  PROVE  /\ job' = job /\ slot' = slot /\ scope' = scope /\ open' = open
         /\ epoch' = epoch /\ processing' = processing /\ delayed' = delayed
         /\ lost' = lost /\ gaveUp' = gaveUp
  BY DEF Cluster, PodAdded, PodReplaced, ContainerStarts, ContainerExits, PodDeleted, Add,
         memory, sink, history, queue

LEMMA TypeStep ==
  ASSUME ScopesAssumption, TypeInv, [Next]_vars
  PROVE  TypeInv'
<1>1. CASE \E w \in Workers : Work(w) BY <1>1, TypeWork
<1>2. CASE Cluster
  <2>1. \A u \in Uids : Upserted(u) \in Items /\ Deleted(u) \in Items
    BY DEF Upserted, Deleted, Items
  <2>2. /\ current' \in Uids \cup {NoPod} /\ seen' \in SUBSET Uids
        /\ starts' \in 0 .. MaxStarts
        /\ id' \in [Uids -> [Names -> 0 .. MaxStarts]]
        /\ dirty' \in SUBSET Items
    <3>1. CASE \E n \in Names : ContainerStarts(n)
      <4>1. PICK n \in Names : ContainerStarts(n) BY <3>1
      <4>2. current \in Uids /\ starts + 1 \in 0 .. MaxStarts
        BY <4>1 DEF ContainerStarts, TypeInv, ScopesAssumption
      <4>3. starts' = starts + 1 /\ id' = [id EXCEPT ![current][n] = starts + 1]
        BY <4>1 DEF ContainerStarts
      <4>4. current' = current /\ seen' = seen /\ dirty' = dirty \cup {Upserted(current)}
        BY <4>1 DEF ContainerStarts, Add
      <4>5. id' \in [Uids -> [Names -> 0 .. MaxStarts]]
        BY <4>2, <4>3 DEF TypeInv
      <4> QED BY <2>1, <4>2, <4>3, <4>4, <4>5 DEF TypeInv
    <3>2. CASE ~\E n \in Names : ContainerStarts(n)
      <4>1. starts' = starts /\ id' = id
        BY <1>2, <3>2 DEF Cluster, PodAdded, PodReplaced, ContainerExits, PodDeleted
      <4>2. /\ current' \in Uids \cup {NoPod} /\ seen' \in SUBSET Uids
            /\ dirty' \in SUBSET Items
        <5> USE <2>1 DEF TypeInv
        <5>1. CASE \E u \in Uids : PodAdded(u) \/ PodReplaced(u)
          BY <5>1 DEF PodAdded, PodReplaced, Add
        <5>2. CASE \E u \in Uids, n \in Names : ContainerExits(u, n)
          BY <5>2 DEF ContainerExits, Add, queue
        <5>3. CASE PodDeleted
          BY <5>3 DEF PodDeleted, Add
        <5> QED BY <1>2, <3>2, <5>1, <5>2, <5>3 DEF Cluster
      <4> QED BY <4>1, <4>2 DEF TypeInv
    <3> QED BY <3>1, <3>2
  <2> QED BY <1>2, <2>2, ClusterFrame DEF TypeInv
<1>3. CASE Restart
  <2>1. \A u \in {current'} \ {NoPod} : Upserted(u) \in Items
    BY <1>3 DEF Restart, TypeInv, Upserted, Items
  <2>2. job' \in [Workers -> Job] /\ \A w \in Workers : JobInv(job'[w])
    BY <1>3, IdleJob DEF Restart
  <2>3. slot' \in [Uids -> [Names -> Bindings \cup {NoBinding}]] /\ epoch' \in [Uids -> Nat]
    BY <1>3 DEF Restart, Unbound
  <2>4. UNCHANGED <<seen, starts, id, scope, open>> /\ current' \in {current, NoPod}
        /\ dirty' = {Upserted(u) : u \in {current'} \ {NoPod}} /\ processing' = {} /\ delayed' = {}
    BY <1>3 DEF Restart, sink
  <2> QED BY <2>1, <2>2, <2>3, <2>4 DEF TypeInv
<1>4. CASE \E i \in Items : Redeliver(i)
  BY <1>4 DEF Redeliver, TypeInv, cluster, memory, sink
<1>5. CASE UNCHANGED vars
  BY <1>5 DEF vars, cluster, queue, memory, sink, TypeInv
<1> QED BY <1>1, <1>2, <1>3, <1>4, <1>5 DEF Next

LEMMA InsideBecomes ==
  ASSUME NEW w, Inside(w)
  PROVE  \E j : Becomes(w, j)
  BY DEF Inside, SkipContainer, ResolveContainer, ResolveFails, ClosePrevious,
         ClosePreviousFails, Bind, BindFails, StoreBinding, UpsertReturns, Collect,
         CloseCollected, CloseCollectedFails, ForgetCollected, ContainerFails

(* All steps between reading the pod and being done with it.               *)
EngagedStep(w) == Inside(w) \/ LookupLock(w) \/ AcquireLock(w) \/ DeleteReturns(w)

LEMMA EngagedFrame ==
  ASSUME TypeInv, NEW w \in Workers, EngagedStep(w)
  PROVE  /\ current' = current /\ seen' = seen /\ id' = id /\ hidden' = hidden
         /\ dirty' = dirty /\ processing' = processing /\ delayed' = delayed
         /\ gaveUp' = gaveUp
         /\ job[w].at \in Engaged /\ job'[w].at \in Engaged \cup {"done"}
         /\ job'[w].item = job[w].item /\ job'[w].uid = job[w].uid
         /\ job'[w].status = job[w].status
         /\ job[w].errs => job'[w].errs
         /\ \A v \in Workers \ {w} : job'[v] = job[v]
<1> PICK r : r = job[w] OBVIOUS
<1>r. r \in Job BY DEF TypeInv
<1>o. \A v \in Workers \ {w} : job'[v] = job[v]
  BY BecomesIs, InsideBecomes DEF LookupLock, AcquireLock, DeleteReturns, EngagedStep
<1>1. CASE Inside(w)
  BY <1>1, <1>o, InsideJob, InsideFrame DEF Engaged, Locked
<1>2. CASE LookupLock(w)
  <2>1. job'[w] = [r EXCEPT !.at = "lock", !.lock = epoch[r.uid]]
    BY <1>2, BecomesIs DEF LookupLock
  <2>2. r.at = "lookup" BY <1>2 DEF LookupLock
  <2> QED BY <1>r, <1>2, <1>o, <2>1, <2>2 DEF LookupLock, Job, Engaged, cluster, queue, history
<1>3. CASE AcquireLock(w)
  <2>1. job'[w] = [r EXCEPT !.at = IF r.item.deleted THEN "collect" ELSE "scan"]
    BY <1>3, BecomesIs DEF AcquireLock
  <2>2. r.at = "lock" BY <1>3 DEF AcquireLock
  <2> QED BY <1>r, <1>3, <1>o, <2>1, <2>2 DEF AcquireLock, Job, Engaged, Locked, cluster, queue, history
<1>4. CASE DeleteReturns(w)
  <2>1. job'[w] = [r EXCEPT !.at = "done"]
    BY <1>4, BecomesIs DEF DeleteReturns
  <2>2. r.at = "closing" BY <1>4 DEF DeleteReturns
  <2> QED BY <1>r, <1>4, <1>o, <2>1, <2>2 DEF DeleteReturns, Job, Engaged, Locked, cluster, queue, history
<1> QED BY <1>1, <1>2, <1>3, <1>4 DEF EngagedStep

(* The other three: a job is taken, the pod is read, the job is over.      *)
LEMMA GetJob ==
  ASSUME TypeInv, NEW w \in Workers, Get(w)
  PROVE  /\ UNCHANGED <<cluster, delayed, memory, sink, history>>
         /\ job[w].at = "idle"
         /\ \A v \in Workers \ {w} : job'[v] = job[v]
         /\ \E i \in dirty \ processing :
              /\ i \in Items /\ dirty' = dirty \ {i} /\ processing' = processing \cup {i}
              /\ job'[w].item = i /\ job'[w].uid = i.uid /\ ~job'[w].errs
              /\ job'[w].prev = Unbound
              /\ job'[w].at = IF i.deleted THEN "lookup" ELSE "fetch"
<1>1. PICK i \in dirty \ processing :
        /\ dirty' = dirty \ {i} /\ processing' = processing \cup {i}
        /\ Becomes(w, [Idle EXCEPT !.item = i, !.uid = i.uid,
                         !.at = IF i.deleted THEN "lookup" ELSE "fetch"])
  BY DEF Get
<1>2. PICK j : j = [Idle EXCEPT !.item = i, !.uid = i.uid,
                      !.at = IF i.deleted THEN "lookup" ELSE "fetch"]
  OBVIOUS
<1>3. job'[w] = j /\ \A v \in Workers \ {w} : job'[v] = job[v]
  BY <1>1, <1>2, BecomesIs
<1>4. /\ j.item = i /\ j.uid = i.uid /\ ~j.errs /\ j.prev = Unbound
      /\ j.at = IF i.deleted THEN "lookup" ELSE "fetch"
  BY <1>2 DEF Idle
<1>5. i \in Items BY DEF TypeInv
<1>6. job[w].at = "idle" /\ UNCHANGED <<cluster, delayed, memory, sink, history>> BY DEF Get
<1> QED BY <1>1, <1>3, <1>4, <1>5, <1>6

LEMMA FetchJob ==
  ASSUME TypeInv, NEW w \in Workers, Fetch(w)
  PROVE  /\ UNCHANGED <<cluster, queue, memory, sink, history>>
         /\ job[w].at = "fetch" /\ job'[w].item = job[w].item
         /\ job'[w].errs = job[w].errs /\ job'[w].prev = job[w].prev
         /\ \A v \in Workers \ {w} : job'[v] = job[v]
         /\ IF current = NoPod
            THEN job'[w].at = "done" /\ job'[w].uid = job[w].uid
            ELSE /\ job'[w].at = "lookup" /\ job'[w].uid = current
                 /\ job'[w].status = id[current] /\ job'[w].left = Names
<1> PICK r : r = job[w] OBVIOUS
<1>r. r \in Job BY DEF TypeInv
<1>0. r.at = "fetch" /\ UNCHANGED <<cluster, queue, memory, sink, history>> BY DEF Fetch
<1>1. CASE current = NoPod
  <2>1. job'[w] = [r EXCEPT !.at = "done"] /\ \A v \in Workers \ {w} : job'[v] = job[v]
    BY <1>1, BecomesIs DEF Fetch
  <2> QED BY <1>r, <1>0, <1>1, <2>1 DEF Job
<1>2. CASE current # NoPod
  <2>1. /\ job'[w] = [r EXCEPT !.at = "lookup", !.uid = current,
                        !.status = id[current], !.left = Names]
        /\ \A v \in Workers \ {w} : job'[v] = job[v]
    BY <1>2, BecomesIs DEF Fetch
  <2> QED BY <1>r, <1>0, <1>2, <2>1 DEF Job
<1> QED BY <1>1, <1>2

LEMMA FinishJob ==
  ASSUME TypeInv, NEW w \in Workers, Finish(w)
  PROVE  /\ UNCHANGED <<cluster, dirty, memory, sink, lost, hidden>>
         /\ job[w].at = "done" /\ job'[w] = Idle
         /\ \A v \in Workers \ {w} : job'[v] = job[v]
         /\ processing' = processing \ {job[w].item}
         /\ IF job[w].errs
            THEN \/ delayed' = delayed \cup {job[w].item} /\ gaveUp' = gaveUp
                 \/ delayed' = delayed /\ gaveUp' = gaveUp \cup {job[w].item}
            ELSE delayed' = delayed /\ gaveUp' = gaveUp
<1>1. job'[w] = Idle /\ \A v \in Workers \ {w} : job'[v] = job[v]
  BY BecomesIs DEF Finish
<1> QED BY <1>1 DEF Finish

-----------------------------------------------------------------------------
(* What is queued, delayed or being processed concerns pods that were seen, *)
(* a deletion one that is gone for good; a deletion is in one place, and no *)
(* item is with two workers.                                                *)
Known ==
  /\ current \in seen \cup {NoPod}
  /\ \A i \in dirty \cup processing \cup delayed :
       i.uid \in seen /\ (i.deleted => i.uid # current)
  /\ \A w \in Workers : Busy(w) => job[w].item \in processing /\ job[w].uid \in seen

DeletedOnce ==
  \A i \in Items : i.deleted =>
    ~(i \in dirty /\ i \in processing) /\ ~(i \in dirty /\ i \in delayed)
    /\ ~(i \in processing /\ i \in delayed)

OneWorkerPerItem ==
  \A v, w \in Workers : Busy(v) /\ Busy(w) /\ job[v].item = job[w].item => v = w

QueueInv == TypeInv /\ Known /\ DeletedOnce /\ OneWorkerPerItem

LEMMA EngagedBusy == \A w : job[w].at \in Engaged => Busy(w)
  BY DEF Busy, Engaged, Locked

LEMMA QueueWork ==
  ASSUME ScopesAssumption, QueueInv, NEW w \in Workers, Work(w)
  PROVE  Known' /\ DeletedOnce' /\ OneWorkerPerItem'
<1>t. TypeInv /\ TypeInv' BY TypeWork DEF QueueInv
<1>j. job' \in [Workers -> Job] BY <1>t DEF TypeInv
<1>1. CASE EngagedStep(w)
  <2>1. Busy(w) /\ Busy(w)' BY <1>1, <1>t, EngagedFrame DEF Busy, Engaged, Locked
  <2> QED BY <1>1, <1>t, <2>1, EngagedFrame DEF QueueInv, Known, DeletedOnce, OneWorkerPerItem, Busy
<1>2. CASE Get(w)
  <2>1. PICK i \in dirty \ processing :
          /\ i \in Items /\ dirty' = dirty \ {i} /\ processing' = processing \cup {i}
          /\ job'[w].item = i /\ job'[w].uid = i.uid
    BY <1>2, <1>t, GetJob
  <2>2. /\ current' = current /\ seen' = seen /\ delayed' = delayed
        /\ \A v \in Workers \ {w} : job'[v] = job[v]
    BY <1>2, <1>t, GetJob DEF cluster
  <2>3. Known' BY <2>1, <2>2 DEF QueueInv, Known, Busy
  <2>4. DeletedOnce' BY <2>1, <2>2 DEF QueueInv, DeletedOnce
  <2>5. OneWorkerPerItem' BY <2>1, <2>2 DEF QueueInv, Known, OneWorkerPerItem, Busy
  <2> QED BY <2>3, <2>4, <2>5
<1>3. CASE Fetch(w)
  <2>1. /\ current' = current /\ seen' = seen /\ dirty' = dirty /\ processing' = processing
        /\ delayed' = delayed /\ Busy(w) /\ job'[w].item = job[w].item
        /\ job'[w].uid = job[w].uid \/ (current # NoPod /\ job'[w].uid = current)
        /\ \A v \in Workers \ {w} : job'[v] = job[v]
    BY <1>3, <1>t, FetchJob DEF cluster, queue, Busy
  <2> QED BY <2>1 DEF QueueInv, Known, DeletedOnce, OneWorkerPerItem, Busy
<1>4. CASE Finish(w)
  <2>1. /\ current' = current /\ seen' = seen /\ dirty' = dirty
        /\ processing' = processing \ {job[w].item}
        /\ delayed' \in {delayed, delayed \cup {job[w].item}}
        /\ Busy(w) /\ ~Busy(w)'
        /\ \A v \in Workers \ {w} : job'[v] = job[v]
    BY <1>4, <1>t, FinishJob DEF cluster, Busy, Idle
  <2>2. Known' BY <2>1 DEF QueueInv, Known, Busy, OneWorkerPerItem
  <2>3. DeletedOnce' BY <2>1 DEF QueueInv, Known, DeletedOnce
  <2>4. OneWorkerPerItem' BY <2>1 DEF QueueInv, OneWorkerPerItem, Busy
  <2> QED BY <2>2, <2>3, <2>4
<1> QED BY <1>1, <1>2, <1>3, <1>4, WorkCases DEF EngagedStep

LEMMA QueueCluster ==
  ASSUME ScopesAssumption, QueueInv, Cluster
  PROVE  Known' /\ DeletedOnce' /\ OneWorkerPerItem'
<1>1. \A u : /\ Upserted(u).uid = u /\ ~Upserted(u).deleted
             /\ Deleted(u).uid = u /\ Deleted(u).deleted
  BY DEF Upserted, Deleted
<1>2. /\ job' = job /\ processing' = processing /\ delayed' = delayed
  BY ClusterFrame
<1> USE DEF QueueInv, Known, DeletedOnce, OneWorkerPerItem, Busy
<1>3. ASSUME NEW u \in Uids, PodAdded(u) \/ PodReplaced(u)
      PROVE  Known' /\ DeletedOnce' /\ OneWorkerPerItem'
  <2>1. u \notin seen /\ current' = u /\ seen' = seen \cup {u} /\ dirty' = dirty \cup {Upserted(u)}
    BY <1>3 DEF PodAdded, PodReplaced, Add
  <2>2. \A i \in dirty \cup processing \cup delayed : i.uid # u BY <2>1
  <2> QED BY <1>1, <1>2, <2>1, <2>2
<1>4. ASSUME NEW n \in Names, ContainerStarts(n)
      PROVE  Known' /\ DeletedOnce' /\ OneWorkerPerItem'
  <2>1. current # NoPod /\ current' = current /\ seen' = seen /\ dirty' = dirty \cup {Upserted(current)}
    BY <1>4 DEF ContainerStarts, Add
  <2> QED BY <1>1, <1>2, <2>1
<1>5. ASSUME NEW u \in Uids, NEW n \in Names, ContainerExits(u, n)
      PROVE  Known' /\ DeletedOnce' /\ OneWorkerPerItem'
  <2>1. /\ current' = current /\ seen' = seen
        /\ dirty' = dirty \/ (u = current /\ dirty' = dirty \cup {Upserted(u)})
    BY <1>5 DEF ContainerExits, Add, queue
  <2>2. u # NoPod BY DEF ScopesAssumption
  <2> QED BY <1>1, <1>2, <2>1, <2>2
<1>6. ASSUME PodDeleted
      PROVE  Known' /\ DeletedOnce' /\ OneWorkerPerItem'
  <2>1. current # NoPod /\ current' = NoPod /\ seen' = seen /\ dirty' = dirty \cup {Deleted(current)}
    BY <1>6 DEF PodDeleted, Add
  <2>2. NoPod \notin seen BY DEF TypeInv, ScopesAssumption
  <2>3. Deleted(current) \notin dirty \cup processing \cup delayed BY <1>1
  <2> QED BY <1>1, <1>2, <2>1, <2>2, <2>3
<1> QED BY <1>3, <1>4, <1>5, <1>6 DEF Cluster

LEMMA QueueStep ==
  ASSUME ScopesAssumption, QueueInv, [Next]_vars
  PROVE  QueueInv'
<1>t. TypeInv' BY TypeStep DEF QueueInv
<1> SUFFICES Known' /\ DeletedOnce' /\ OneWorkerPerItem' BY <1>t DEF QueueInv
<1>1. CASE \E w \in Workers : Work(w) BY <1>1, QueueWork
<1>2. CASE Cluster BY <1>2, QueueCluster
<1>3. CASE Restart
  <2>1. \A w \in Workers : ~Busy(w)' BY <1>3 DEF Restart, Busy, Idle
  <2>2. /\ seen' = seen /\ current' \in {current, NoPod} /\ processing' = {} /\ delayed' = {}
        /\ dirty' = {Upserted(u) : u \in {current'} \ {NoPod}}
    BY <1>3 DEF Restart
  <2>3. \A i \in dirty' : i.uid = current' /\ current' # NoPod /\ ~i.deleted
    BY <2>2 DEF Upserted
  <2> QED BY <2>1, <2>2, <2>3 DEF QueueInv, Known, DeletedOnce, OneWorkerPerItem
<1>4. CASE \E i \in Items : Redeliver(i)
  <2>1. PICK i \in Items : Redeliver(i) BY <1>4
  <2>2. /\ current' = current /\ seen' = seen /\ processing' = processing /\ job' = job
        /\ i \in delayed /\ delayed' = delayed \ {i} /\ dirty' = dirty \cup {i}
    BY <2>1 DEF Redeliver, cluster
  <2> QED BY <2>2 DEF QueueInv, Known, DeletedOnce, OneWorkerPerItem, Busy
<1>5. CASE UNCHANGED vars
  BY <1>5 DEF vars, cluster, queue, QueueInv, Known, DeletedOnce, OneWorkerPerItem, Busy
<1> QED BY <1>1, <1>2, <1>3, <1>4, <1>5 DEF Next

-----------------------------------------------------------------------------
(* What a binding is for, and for which container.  Container ids and the  *)
(* scopes that are recorded only grow.                                     *)
Target(j) == [uid |-> j.uid, name |-> j.name, id |-> j.status[j.name]]

ScopeOf(b, u, n) == scope[b] # NoScope /\ scope[b].uid = u /\ scope[b].name = n

Recent ==
  /\ \A u \in Uids, n \in Names : id[u][n] <= starts
  /\ \A b \in Bindings : scope[b] # NoScope => scope[b].id <= id[scope[b].uid][scope[b].name]

Recognized ==
  /\ \A b \in open : scope[b] # NoScope
  /\ \A u \in Uids, n \in Names : slot[u][n] # NoBinding => ScopeOf(slot[u][n], u, n)

(* What a worker knows of the bindings it is about to replace or close.    *)
Knows(j) ==
  /\ \A n \in Names : j.prev[n] # NoBinding => ScopeOf(j.prev[n], j.uid, n)
  /\ j.at = "fetch" => j.prev = Unbound
  /\ j.at = "store" => j.made \in Bindings /\ scope[j.made] = Target(j)
  /\ j.at \in Replacing /\ j.prev[j.name] # NoBinding =>
       scope[j.prev[j.name]].id < j.status[j.name]
  /\ j.at \in Engaged /\ ~j.item.deleted => \A n \in Names : j.status[n] <= id[j.uid][n]

ScopeInv == QueueInv /\ Recent /\ Recognized /\ \A w \in Workers : Knows(job[w])

Grows ==
  /\ \A b \in Bindings : scope[b] # NoScope => scope'[b] = scope[b]
  /\ \A u \in Uids, n \in Names : id[u][n] <= id'[u][n]

LEMMA WorkGrows ==
  ASSUME TypeInv, NEW w \in Workers, Work(w)
  PROVE  /\ \A b \in Bindings : scope[b] # NoScope => scope'[b] = scope[b]
         /\ id' = id /\ starts' = starts
<1>1. id' = id /\ starts' = starts
  BY WorkCases, InsideFrame DEF Get, Fetch, LookupLock, AcquireLock, DeleteReturns, Finish, cluster
<1>2. CASE Bind(w) \/ BindFails(w)
  <2>1. scope' = scope \/ \E b \in Bindings : Recorded(w, b)
    BY <1>2 DEF Bind, BindFails, sink
  <2> QED BY <1>1, <2>1 DEF Recorded, TypeInv
<1>3. CASE ~(Bind(w) \/ BindFails(w))
  <2>1. scope' = scope
    BY <1>3 DEF Work, Upsert, Delete, Get, Fetch, LookupLock, AcquireLock, SkipContainer,
       ResolveContainer, ResolveFails, ClosePrevious, ClosePreviousFails, StoreBinding,
       UpsertReturns, Collect, CloseCollected, CloseCollectedFails, ForgetCollected,
       DeleteReturns, Finish, sink
  <2> QED BY <1>1, <2>1
<1> QED BY <1>2, <1>3

LEMMA NextGrows ==
  ASSUME ScopesAssumption, ScopeInv, [Next]_vars
  PROVE  Grows /\ \A u \in Uids, n \in Names : id'[u][n] <= starts'
<1>t. TypeInv /\ TypeInv' BY TypeStep DEF ScopeInv, QueueInv
<1>id. /\ id \in [Uids -> [Names -> 0 .. MaxStarts]] /\ starts \in 0 .. MaxStarts
       /\ MaxStarts \in Nat
       /\ \A u \in Uids, n \in Names : id[u][n] <= starts
  BY <1>t DEF TypeInv, ScopeInv, Recent, ScopesAssumption
<1>1. CASE \E w \in Workers : Work(w)
  BY <1>1, <1>t, <1>id, WorkGrows DEF Grows
<1>2. CASE \E n \in Names : ContainerStarts(n)
  <2>1. PICK n \in Names : ContainerStarts(n) BY <1>2
  <2>2. /\ current \in Uids /\ starts' = starts + 1 /\ scope' = scope
        /\ id' = [id EXCEPT ![current][n] = starts + 1]
    BY <1>t, <2>1 DEF ContainerStarts, sink, TypeInv
  <2> QED BY <1>id, <2>2 DEF Grows
<1>3. CASE \/ Cluster /\ ~\E n \in Names : ContainerStarts(n)
           \/ Restart \/ UNCHANGED vars \/ \E i \in Items : Redeliver(i)
  <2>1. id' = id /\ scope' = scope /\ starts' = starts
    BY <1>3, ClusterFrame DEF Cluster, PodAdded, PodReplaced, ContainerExits, PodDeleted,
       Restart, Redeliver, cluster, sink, vars
  <2> QED BY <1>id, <2>1 DEF Grows
<1> QED BY <1>1, <1>2, <1>3 DEF Next

LEMMA KnowsGrows ==
  ASSUME TypeInv, TypeInv', Grows, ScopesAssumption, NEW j \in Job, JobInv(j), Knows(j)
  PROVE  Knows(j)'
<1>1. \A n \in Names : j.prev[n] \in Bindings \cup {NoBinding} /\ j.status[n] \in Int BY DEF Job
<1>2. j.at \in Engaged => j.uid \in Uids BY DEF JobInv, Engaged, Locked
<1>3. \A u \in Uids, n \in Names : id[u][n] \in Int /\ id'[u][n] \in Int BY DEF TypeInv
<1>4. ASSUME j.at = "store" PROVE scope[j.made] # NoScope
  <2>1. j.uid \in Uids BY <1>2, <1>4 DEF Engaged, Locked
  <2> QED BY <1>4, <2>1 DEF Knows, Target, NoScope, ScopesAssumption
<1>5. \A n \in Names : j.prev[n] # NoBinding =>
        j.prev[n] \in Bindings /\ scope'[j.prev[n]] = scope[j.prev[n]]
  BY <1>1 DEF Knows, ScopeOf, Grows
<1>6. j.at \in Replacing => j.name \in Names BY DEF JobInv, Job
<1>7. (\A n \in Names : j.prev[n] # NoBinding => ScopeOf(j.prev[n], j.uid, n))'
  BY <1>5 DEF Knows, ScopeOf
<1>8. j.at = "store" => j.made \in Bindings /\ scope'[j.made] = Target(j)
  BY <1>4 DEF Knows, Grows
<1>9. j.at \in Replacing /\ j.prev[j.name] # NoBinding =>
        scope'[j.prev[j.name]].id < j.status[j.name]
  BY <1>5, <1>6 DEF Knows
<1>10. j.at \in Engaged /\ ~j.item.deleted => \A n \in Names : j.status[n] <= id'[j.uid][n]
  BY <1>1, <1>2, <1>3 DEF Knows, Grows
<1> QED BY <1>7, <1>8, <1>9, <1>10 DEF Knows

(* The job a worker goes on with knows what it has to, in the state before *)
(* the step; Bind records the scope it knows of.                            *)
LEMMA InsideKnows ==
  ASSUME ScopesAssumption, ScopeInv, NEW w \in Workers, Inside(w), ~Bind(w)
  PROVE  Knows(job'[w])
<1> PICK r : r = job[w] OBVIOUS
<1>t. TypeInv BY DEF ScopeInv, QueueInv
<1>r. r \in Job /\ JobInv(r) /\ Knows(r) BY <1>t DEF TypeInv, ScopeInv
<1>s. r.at \in Locked /\ r.uid \in Uids BY <1>r, InsideJob, <1>t DEF JobInv, Locked
<1> USE DEF Locked, Engaged, Replacing
<1>f. ASSUME NEW n \in Names, ContainerFails(w, n)
      PROVE  Knows(job'[w])
  <2>1. PICK j : j = job'[w] OBVIOUS
  <2>2. /\ j.at \in {"closing", "scan"} /\ j.item = r.item /\ j.uid = r.uid /\ j.status = r.status
        /\ j.prev = [r.prev EXCEPT ![n] = NoBinding]
    BY <1>t, <1>s, <1>f, <2>1, FailsJob
  <2>3. r.prev \in [Names -> Bindings \cup {NoBinding}] BY <1>r DEF Job
  <2>4. \A m \in Names : j.prev[m] # NoBinding => ScopeOf(j.prev[m], j.uid, m)
    BY <1>r, <2>2, <2>3 DEF Knows
  <2> QED BY <1>r, <1>s, <2>1, <2>2, <2>4 DEF Knows
<1>1. ASSUME NEW n \in Names, SkipContainer(w, n)
     PROVE  Knows(job'[w])
  <2>1. PICK j : j = [r EXCEPT !.left = @ \ {n}]
    OBVIOUS
  <2>2. job'[w] = j BY <1>t, <1>1, <2>1, BecomesIs DEF SkipContainer
  <2>3. Knows(j) BY <1>r, <1>s, <1>1, <2>1 DEF Job, JobInv, Knows, SkipContainer
  <2> QED BY <2>2, <2>3
<1>2. ASSUME NEW n \in Names, ResolveContainer(w, n)
     PROVE  Knows(job'[w])
  <2> PICK p : p = slot[r.uid][n] OBVIOUS
  <2>1. PICK j : j = [r EXCEPT !.name = n, !.prev[n] = p,
                       !.at = IF p = NoBinding THEN "bind" ELSE "close"]
    OBVIOUS
  <2>2. job'[w] = j BY <1>t, <1>2, <2>1, BecomesIs DEF ResolveContainer
  <2>3. /\ j.at \in {"bind", "close"} /\ j.item = r.item /\ j.uid = r.uid /\ j.status = r.status
        /\ j.name = n /\ j.prev = [r.prev EXCEPT ![n] = p]
    BY <1>r, <2>1 DEF Job
  <2>4. r.prev \in [Names -> Bindings \cup {NoBinding}] /\ r.status[n] \in Int BY <1>r DEF Job
  <2>5. p # NoBinding => ScopeOf(p, r.uid, n)
    BY <1>s DEF ScopeInv, Recognized
  <2>6. \A m \in Names : j.prev[m] # NoBinding => ScopeOf(j.prev[m], j.uid, m)
    BY <1>r, <2>3, <2>4, <2>5 DEF Knows
  <2>7. ASSUME p # NoBinding PROVE scope[p].id < r.status[n]
    <3>1. p \in Bindings BY <1>t, <1>s, <2>7 DEF TypeInv
    <3>2. scope[p].id <= id[r.uid][n] BY <2>5, <2>7, <3>1 DEF ScopeInv, Recent, ScopeOf
    <3>3. r.status[n] = id[r.uid][n] /\ scope[p].id # r.status[n]
      BY <1>2, <2>7 DEF ResolveContainer, Resolvable, Settled
    <3>4. scope[p].id \in Int BY <1>t, <2>5, <2>7, <3>1 DEF TypeInv, ScopeOf, Scopes
    <3> QED BY <2>4, <3>2, <3>3, <3>4
  <2>8. ~r.item.deleted /\ \A m \in Names : j.status[m] <= id[j.uid][m]
    BY <1>2, <1>r, <2>3 DEF ResolveContainer, JobInv, Knows, Deleting
  <2>9. Knows(j) BY <2>3, <2>4, <2>6, <2>7, <2>8 DEF Knows
  <2> QED BY <2>2, <2>9
<1>3. ASSUME NEW n \in Names, CloseCollected(w, n)
     PROVE  Knows(job'[w])
  <2>1. PICK j : j = [r EXCEPT !.at = "forget", !.name = n]
    OBVIOUS
  <2>2. job'[w] = j BY <1>t, <1>3, <2>1, BecomesIs DEF CloseCollected
  <2>3. Knows(j) BY <1>r, <1>s, <1>3, <2>1 DEF Job, JobInv, Knows, CloseCollected
  <2> QED BY <2>2, <2>3
<1>4. CASE \E n \in Names : ResolveFails(w, n) \/ CloseCollectedFails(w, n)
  BY <1>4, <1>f DEF ResolveFails, CloseCollectedFails
<1>5. CASE ClosePrevious(w)
  <2>1. PICK j : j = [r EXCEPT !.at = "bind"]
    OBVIOUS
  <2>2. job'[w] = j BY <1>t, <1>5, <2>1, BecomesIs DEF ClosePrevious
  <2>3. Knows(j) BY <1>r, <1>s, <1>5, <2>1 DEF Job, JobInv, Knows, ClosePrevious
  <2> QED BY <2>2, <2>3
<1>7. CASE UpsertReturns(w)
  <2>1. PICK j : j = [r EXCEPT !.at = "done"]
    OBVIOUS
  <2>2. job'[w] = j BY <1>t, <1>7, <2>1, BecomesIs DEF UpsertReturns
  <2>3. Knows(j) BY <1>r, <1>s, <1>7, <2>1 DEF Job, JobInv, Knows, UpsertReturns
  <2> QED BY <2>2, <2>3
<1>8. CASE ClosePreviousFails(w) \/ BindFails(w)
  <2>1. r.name \in Names BY <1>r, <1>8 DEF Job, JobInv, ClosePreviousFails, BindFails
  <2> QED BY <1>8, <1>f, <2>1 DEF ClosePreviousFails, BindFails
<1>9. CASE StoreBinding(w)
  <2>1. PICK j : j = [r EXCEPT !.at = "scan", !.left = @ \ {r.name},
                       !.name = NoName, !.prev[r.name] = NoBinding,
                       !.made = NoBinding]
    OBVIOUS
  <2>2. job'[w] = j BY <1>t, <1>9, <2>1, BecomesIs DEF StoreBinding
  <2>3. r.name \in Names /\ r.prev \in [Names -> Bindings \cup {NoBinding}]
    BY <1>r, <1>9 DEF Job, JobInv, StoreBinding
  <2>4. /\ j.at \in {"scan", "closing"} /\ j.item = r.item /\ j.uid = r.uid /\ j.status = r.status
        /\ j.prev = [r.prev EXCEPT ![r.name] = NoBinding]
    BY <1>r, <2>1 DEF Job
  <2>5. \A m \in Names : j.prev[m] # NoBinding => ScopeOf(j.prev[m], j.uid, m)
    BY <1>r, <1>s, <1>t, <2>3, <2>4 DEF Knows, ScopeInv, Recognized
  <2>6. Knows(j) BY <1>r, <1>s, <2>4, <2>5 DEF Knows
  <2> QED BY <2>2, <2>6
<1>10. CASE Collect(w)
  <2>1. PICK j : j = [r EXCEPT !.at = "closing", !.prev = slot[r.uid],
                       !.left = {n \in Names : slot[r.uid][n] # NoBinding}]
    OBVIOUS
  <2>2. job'[w] = j BY <1>t, <1>10, <2>1, BecomesIs DEF Collect
  <2>3. /\ j.at = "closing" /\ j.item = r.item /\ j.uid = r.uid /\ j.prev = slot[r.uid]
        /\ j.item.deleted
    BY <1>r, <1>10, <2>1 DEF Job, JobInv, Deleting, Collect
  <2>4. \A m \in Names : j.prev[m] # NoBinding => ScopeOf(j.prev[m], j.uid, m)
    BY <1>s, <2>3 DEF ScopeInv, Recognized
  <2>5. Knows(j) BY <2>3, <2>4 DEF Knows
  <2> QED BY <2>2, <2>5
<1>11. CASE ForgetCollected(w)
  <2>1. PICK j : j = [r EXCEPT !.at = "closing", !.left = @ \ {r.name},
                       !.name = NoName, !.prev[r.name] = NoBinding]
    OBVIOUS
  <2>2. job'[w] = j BY <1>t, <1>11, <2>1, BecomesIs DEF ForgetCollected
  <2>3. r.name \in Names /\ r.prev \in [Names -> Bindings \cup {NoBinding}]
    BY <1>r, <1>11 DEF Job, JobInv, ForgetCollected
  <2>4. /\ j.at \in {"scan", "closing"} /\ j.item = r.item /\ j.uid = r.uid /\ j.status = r.status
        /\ j.prev = [r.prev EXCEPT ![r.name] = NoBinding]
    BY <1>r, <2>1 DEF Job
  <2>5. \A m \in Names : j.prev[m] # NoBinding => ScopeOf(j.prev[m], j.uid, m)
    BY <1>r, <1>s, <1>t, <2>3, <2>4 DEF Knows, ScopeInv, Recognized
  <2>6. Knows(j) BY <1>r, <1>s, <2>4, <2>5 DEF Knows
  <2> QED BY <2>2, <2>6
<1> QED BY <1>1, <1>2, <1>3, <1>4, <1>5, <1>7, <1>8, <1>9, <1>10, <1>11 DEF Inside

LEMMA WorkKnows ==
  ASSUME ScopesAssumption, ScopeInv, NEW w \in Workers, Work(w), ~Bind(w)
  PROVE  Knows(job'[w])
<1> PICK r : r = job[w] OBVIOUS
<1>t. TypeInv BY DEF ScopeInv, QueueInv
<1>r. r \in Job /\ JobInv(r) /\ Knows(r) BY <1>t DEF TypeInv, ScopeInv
<1>1. CASE Get(w)
  <2>1. PICK j : j = job'[w] OBVIOUS
  <2>2. j.prev = Unbound /\ (j.at = "fetch" \/ (j.at = "lookup" /\ j.item.deleted))
    <3>1. PICK i : /\ i \in Items /\ j.item = i /\ j.prev = Unbound
                   /\ j.at = IF i.deleted THEN "lookup" ELSE "fetch"
      BY <1>1, <1>t, <2>1, GetJob
    <3> QED BY <3>1 DEF Items
  <2>3. Knows(j) BY <2>2 DEF Knows, Unbound, Replacing, Engaged, Locked
  <2> QED BY <2>1, <2>3
<1>2. CASE Fetch(w)
  <2>1. PICK j : j = job'[w] OBVIOUS
  <2>2. j.prev = Unbound BY <1>2, <1>r, <1>t, <2>1, FetchJob DEF Knows
  <2>3. \/ j.at = "done"
        \/ j.at = "lookup" /\ j.uid = current /\ current \in Uids /\ j.status = id[current]
    <3>1. /\ current = NoPod => j.at = "done"
          /\ current # NoPod => j.at = "lookup" /\ j.uid = current /\ j.status = id[current]
      BY <1>2, <1>t, <2>1, FetchJob
    <3> QED BY <1>t, <3>1 DEF TypeInv
  <2>4. \A n \in Names : j.prev[n] = NoBinding BY <2>2 DEF Unbound
  <2>5. j.at = "lookup" => \A n \in Names : j.status[n] <= id[j.uid][n]
    BY <1>t, <2>3 DEF TypeInv
  <2>6. Knows(j) BY <2>2, <2>3, <2>4, <2>5 DEF Knows, Replacing, Engaged, Locked
  <2> QED BY <2>1, <2>6
<1>3. CASE LookupLock(w) \/ AcquireLock(w) \/ DeleteReturns(w)
  <2>1. PICK j : j = job'[w] OBVIOUS
  <2>2. /\ j.item = r.item /\ j.uid = r.uid /\ j.status = r.status /\ j.prev = r.prev
        /\ j.at \in {"lock", "collect", "scan", "done"}
        /\ r.at \in Engaged
    <3>1. CASE LookupLock(w)
      <4>1. j = [r EXCEPT !.at = "lock", !.lock = epoch[r.uid]]
        BY <1>t, <2>1, <3>1, BecomesIs DEF LookupLock
      <4> QED BY <1>r, <3>1, <4>1 DEF LookupLock, Job, Engaged
    <3>2. CASE AcquireLock(w)
      <4>1. j = [r EXCEPT !.at = IF r.item.deleted THEN "collect" ELSE "scan"]
        BY <1>t, <2>1, <3>2, BecomesIs DEF AcquireLock
      <4> QED BY <1>r, <3>2, <4>1 DEF AcquireLock, Job, Engaged
    <3>3. CASE DeleteReturns(w)
      <4>1. j = [r EXCEPT !.at = "done"]
        BY <1>t, <2>1, <3>3, BecomesIs DEF DeleteReturns
      <4> QED BY <1>r, <3>3, <4>1 DEF DeleteReturns, Job, Engaged, Locked
    <3> QED BY <1>3, <3>1, <3>2, <3>3
  <2>3. Knows(j) BY <1>r, <2>2 DEF Knows, Replacing, Engaged, Locked
  <2> QED BY <2>1, <2>3
<1>4. CASE Finish(w)
  <2>1. job'[w] = Idle BY <1>4, <1>t, FinishJob
  <2>2. Knows(Idle) BY DEF Knows, Idle, Unbound, Replacing, Engaged, Locked
  <2> QED BY <2>1, <2>2
<1> QED BY <1>1, <1>2, <1>3, <1>4, WorkCases, InsideKnows

(* Bind keeps what the worker knew and adds the scope it has recorded.     *)
LEMMA BindJob ==
  ASSUME TypeInv, NEW w \in Workers, Bind(w)
  PROVE  \E b \in Bindings :
           /\ Recorded(w, b) /\ open' = open \cup {b} /\ slot' = slot /\ lost' = lost
           /\ job[w].at = "bind" /\ job'[w].at = "store" /\ job'[w].made = b
           /\ job'[w].prev = job[w].prev /\ job'[w].name = job[w].name
           /\ job'[w].left = job[w].left
<1>1. PICK b \in Bindings : /\ Recorded(w, b) /\ open' = open \cup {b}
                            /\ Becomes(w, [job[w] EXCEPT !.at = "store", !.made = b])
  BY DEF Bind
<1>2. job'[w] = [job[w] EXCEPT !.at = "store", !.made = b] BY <1>1, BecomesIs
<1>3. job[w] \in Job BY DEF TypeInv
<1>4. job[w].at = "bind" /\ slot' = slot /\ lost' = lost BY DEF Bind, memory, history
<1> QED BY <1>1, <1>2, <1>3, <1>4 DEF Job

LEMMA BindKnows ==
  ASSUME ScopesAssumption, ScopeInv, TypeInv', Grows, NEW w \in Workers, Bind(w),
         NEW k, k = job'[w]
  PROVE  Knows(k)'
<1> PICK r : r = job[w] OBVIOUS
<1>t. TypeInv BY DEF ScopeInv, QueueInv
<1>r. r \in Job /\ JobInv(r) /\ Knows(r) BY <1>t DEF TypeInv, ScopeInv
<1>g. Knows(r)' BY <1>r, <1>t, KnowsGrows
<1>b. PICK b \in Bindings : k = [r EXCEPT !.at = "store", !.made = b] /\ Recorded(w, b) /\ r.at = "bind"
  BY <1>t, BecomesIs DEF Bind
<1>1. /\ k.at = "store" /\ k.made = b /\ k.item = r.item /\ k.uid = r.uid /\ k.prev = r.prev
      /\ k.name = r.name /\ k.status = r.status
  BY <1>r, <1>b DEF Job
<1>2. scope'[b] = Target(k) BY <1>t, <1>b, <1>1 DEF Recorded, Target, TypeInv
<1> QED BY <1>g, <1>b, <1>1, <1>2 DEF Knows, Replacing, Engaged, Locked, ScopeOf

(* What a step records, opens and puts into the map.                       *)
LEMMA RecordedScope ==
  ASSUME ScopesAssumption, ScopeInv, NEW w \in Workers, NEW b \in Bindings,
         job[w].at = "bind", Recorded(w, b)
  PROVE  /\ scope[b] = NoScope /\ scope'[b] = Target(job[w]) /\ scope'[b] # NoScope
         /\ \A c \in Bindings \ {b} : scope'[c] = scope[c]
         /\ scope'[b].id <= id[scope'[b].uid][scope'[b].name]
<1>t. TypeInv BY DEF ScopeInv, QueueInv
<1>r. job[w] \in Job /\ JobInv(job[w]) /\ Knows(job[w]) BY <1>t DEF TypeInv, ScopeInv
<1>1. job[w].name \in Names /\ job[w].uid \in Uids /\ ~job[w].item.deleted
  BY <1>r DEF JobInv, Job, Replacing, Deleting
<1>2. scope' = [scope EXCEPT ![b] = Target(job[w])] /\ scope[b] = NoScope
  BY DEF Recorded, Target
<1>3. scope'[b] = Target(job[w]) /\ \A c \in Bindings \ {b} : scope'[c] = scope[c]
  BY <1>t, <1>2 DEF TypeInv
<1>4. job[w].status[job[w].name] <= id[job[w].uid][job[w].name]
  BY <1>r, <1>1 DEF Knows, Engaged, Locked
<1> QED BY <1>1, <1>2, <1>3, <1>4 DEF Target, NoScope, ScopesAssumption

LEMMA OpenBindings ==
  ASSUME ScopesAssumption, ScopeInv, [Next]_vars
  PROVE  \A b \in open' \ open : scope'[b] # NoScope
<1>1. ASSUME NEW w \in Workers, Bind(w) \/ BindFails(w)
      PROVE  \A b \in open' \ open : scope'[b] # NoScope
  <2>1. job[w].at = "bind" BY <1>1 DEF Bind, BindFails
  <2>2. open' \subseteq open \/ \E b \in Bindings : Recorded(w, b) /\ open' = open \cup {b}
    BY <1>1 DEF Bind, BindFails, sink
  <2> QED BY <2>1, <2>2, RecordedScope
<1>2. CASE \E w \in Workers : Work(w) /\ ~(Bind(w) \/ BindFails(w))
  BY ZenonT(60), <1>2 DEF Work, Upsert, Delete, Get, Fetch, LookupLock, AcquireLock, SkipContainer,
     ResolveContainer, ResolveFails, ClosePrevious, ClosePreviousFails, StoreBinding,
     UpsertReturns, Collect, CloseCollected, CloseCollectedFails, ForgetCollected,
     DeleteReturns, Finish, sink
<1>3. CASE \/ Cluster \/ Restart \/ UNCHANGED vars \/ \E i \in Items : Redeliver(i)
  BY <1>3, ClusterFrame DEF Restart, Redeliver, sink, vars
<1> QED BY <1>1, <1>2, <1>3 DEF Next

LEMMA SlotChanges ==
  ASSUME ScopesAssumption, ScopeInv, [Next]_vars, NEW u \in Uids, NEW n \in Names,
         slot'[u][n] # NoBinding
  PROVE  \/ slot'[u][n] = slot[u][n]
         \/ \E w \in Workers : /\ StoreBinding(w) /\ job[w].uid = u /\ job[w].name = n
                               /\ slot'[u][n] = job[w].made
<1>t. /\ slot \in [Uids -> [Names -> Bindings \cup {NoBinding}]]
      /\ \A w \in Workers : job[w] \in Job /\ JobInv(job[w])
  BY DEF ScopeInv, QueueInv, TypeInv
<1>1. CASE \E w \in Workers : StoreBinding(w)
  <2>1. PICK w \in Workers : StoreBinding(w) BY <1>1
  <2>2. slot' = [slot EXCEPT ![job[w].uid][job[w].name] = job[w].made] /\ job[w].at = "store"
    BY <2>1 DEF StoreBinding
  <2> QED BY <1>t, <2>1, <2>2
<1>2. CASE \E w \in Workers : ForgetCollected(w)
  <2>1. PICK w \in Workers : slot' = [slot EXCEPT ![job[w].uid][job[w].name] = NoBinding]
    BY <1>2 DEF ForgetCollected
  <2> QED BY <1>t, <2>1
<1>3. CASE Restart BY <1>3 DEF Restart, Unbound
<1>4. CASE \/ Cluster \/ UNCHANGED vars \/ \E i \in Items : Redeliver(i)
           \/ \E w \in Workers : Work(w) /\ ~StoreBinding(w) /\ ~ForgetCollected(w)
  <2>1. slot' = slot
    BY ZenonT(60), <1>4, ClusterFrame DEF vars, Redeliver, Work, Upsert, Delete, Get, Fetch, LookupLock,
       AcquireLock, SkipContainer, ResolveContainer, ResolveFails, ClosePrevious,
       ClosePreviousFails, Bind, BindFails, UpsertReturns, Collect, CloseCollected,
       CloseCollectedFails, DeleteReturns, Finish, memory
  <2> QED BY <2>1
<1> QED BY <1>1, <1>2, <1>3, <1>4 DEF Next

LEMMA ScopeStep ==
  ASSUME ScopesAssumption, ScopeInv, [Next]_vars
  PROVE  ScopeInv'
<1>q. QueueInv' BY QueueStep DEF ScopeInv
<1>t. TypeInv /\ TypeInv' BY <1>q DEF ScopeInv, QueueInv
<1>g. Grows /\ \A u \in Uids, n \in Names : id'[u][n] <= starts' BY NextGrows
<1>j. \A w \in Workers : job[w] \in Job /\ JobInv(job[w]) /\ Knows(job[w])
  BY <1>t DEF TypeInv, ScopeInv
<1>1. \A b \in Bindings : scope'[b] # NoScope => scope'[b].id <= id'[scope'[b].uid][scope'[b].name]
  <2> SUFFICES ASSUME NEW b \in Bindings, scope'[b] # NoScope
               PROVE  scope'[b].id <= id'[scope'[b].uid][scope'[b].name]
    OBVIOUS
  <2>1. /\ scope'[b].uid \in Uids /\ scope'[b].name \in Names /\ scope'[b].id \in Int
        /\ \A u \in Uids, n \in Names : id[u][n] \in Int /\ id'[u][n] \in Int
    BY <1>t DEF TypeInv, Scopes
  <2>2. scope'[b].id <= id[scope'[b].uid][scope'[b].name]
    <3>1. CASE scope[b] # NoScope BY <1>g, <3>1 DEF Grows, ScopeInv, Recent
    <3>2. CASE scope[b] = NoScope
      <4>1. PICK w \in Workers : Bind(w) \/ BindFails(w)
        BY <3>2, ClusterFrame DEF Next, vars, Restart, Redeliver,
           Work, Upsert, Delete, Get, Fetch, LookupLock,
           AcquireLock, SkipContainer, ResolveContainer, ResolveFails, ClosePrevious,
           ClosePreviousFails, StoreBinding, UpsertReturns, Collect, CloseCollected,
           CloseCollectedFails, ForgetCollected, DeleteReturns, Finish, sink
      <4>2. job[w].at = "bind" BY <4>1 DEF Bind, BindFails
      <4>3. PICK c \in Bindings : Recorded(w, c)
        BY <4>1, <3>2 DEF Bind, BindFails, sink
      <4> QED BY <3>2, <4>2, <4>3, RecordedScope
    <3> QED BY <3>1, <3>2
  <2> QED BY <1>g, <2>1, <2>2 DEF Grows
<1>2. Recognized'
  <2>1. \A b \in open' : scope'[b] # NoScope
    <3>1. \A b \in open : b \in Bindings /\ scope[b] # NoScope
      BY <1>t DEF TypeInv, ScopeInv, Recognized
    <3> QED BY <1>g, <3>1, OpenBindings DEF Grows
  <2>2. ASSUME NEW u \in Uids, NEW n \in Names, slot'[u][n] # NoBinding
        PROVE  ScopeOf(slot[u][n], u, n)'
    <3>1. CASE slot'[u][n] = slot[u][n]
      <4>1. slot[u][n] \in Bindings BY <1>t, <2>2, <3>1 DEF TypeInv
      <4> QED BY <1>g, <2>2, <3>1, <4>1 DEF Grows, ScopeInv, Recognized, ScopeOf
    <3>2. ASSUME NEW w \in Workers, StoreBinding(w), job[w].uid = u, job[w].name = n,
                 slot'[u][n] = job[w].made
          PROVE  ScopeOf(slot[u][n], u, n)'
      <4>1. job[w].made \in Bindings /\ scope[job[w].made] = Target(job[w]) /\ scope' = scope
        BY <1>j, <3>2 DEF Knows, StoreBinding, sink
      <4> QED BY <3>2, <4>1 DEF Target, ScopeOf, NoScope, ScopesAssumption
    <3> QED BY <2>2, <3>1, <3>2, SlotChanges
  <2> QED BY <2>1, <2>2 DEF Recognized
<1>3. ASSUME NEW w \in Workers PROVE Knows(job[w])'
  <2> PICK k : k = job'[w] OBVIOUS
  <2>k. k \in Job /\ JobInv(k) BY <1>t DEF TypeInv
  <2>0. Knows(k) \/ Bind(w)
    <3>1. CASE k = job[w] BY <1>j, <3>1
    <3>2. CASE Restart
      <4>1. k = Idle BY <3>2 DEF Restart
      <4>2. Knows(Idle) BY DEF Knows, Idle, Unbound, Replacing, Engaged, Locked
      <4> QED BY <4>1, <4>2
    <3>3. ASSUME NEW v \in Workers, Work(v) PROVE Knows(k) \/ Bind(w)
      <4>1. CASE v = w BY <3>3, <4>1, WorkKnows
      <4>2. CASE v # w
        <5>1. PICK j \in Job : JobInv(j) /\ Becomes(v, j) BY <1>t, <3>3, WorkJob
        <5>2. k = job[w] BY <1>t, <4>2, <5>1, BecomesIs
        <5> QED BY <3>1, <5>2
      <4> QED BY <4>1, <4>2
    <3>4. CASE Cluster \/ UNCHANGED vars \/ \E i \in Items : Redeliver(i)
      <4>1. job' = job BY <3>4, ClusterFrame DEF vars, Redeliver
      <4> QED BY <3>1, <4>1
    <3> QED BY <3>2, <3>3, <3>4 DEF Next
  <2>1. Knows(k)' BY <1>t, <1>g, <2>0, <2>k, KnowsGrows, BindKnows
  <2> QED BY <2>1
<1> QED BY <1>q, <1>g, <1>1, <1>2, <1>3 DEF ScopeInv, Recent

LEMMA InitScope == ASSUME Init PROVE ScopeInv
<1>1. QueueInv
  BY ScopesAssumption, TypeInit DEF Init, QueueInv, Known, DeletedOnce, OneWorkerPerItem, Busy, Idle
<1>2. Recent BY DEF Init, Recent, NoContainers
<1>3. Recognized BY DEF Init, Recognized, Unbound
<1>4. Knows(Idle) BY DEF Knows, Idle, Unbound, Replacing, Engaged, Locked
<1> QED BY <1>1, <1>2, <1>3, <1>4 DEF ScopeInv, Init

LEMMA ScopeInvariance == Spec => []ScopeInv
<1>1. Init => ScopeInv BY InitScope
<1>2. ScopeInv /\ [Next]_vars => ScopeInv' BY ScopesAssumption, ScopeStep
<1> QED BY <1>1, <1>2, PTL DEF Spec

(* Bindings are closed by two steps only.                                  *)
LEMMA ClosingSteps ==
  ASSUME [Next]_vars, NEW b \in open, b \notin open'
  PROVE  \E w \in Workers : \/ ClosePrevious(w) /\ b = job[w].prev[job[w].name]
                            \/ \E n \in Names : CloseCollected(w, n) /\ b = job[w].prev[n]
<1>1. CASE \E w \in Workers : \/ ClosePrevious(w) \/ \E n \in Names : CloseCollected(w, n)
  BY <1>1 DEF ClosePrevious, CloseCollected
<1>2. CASE \/ Cluster \/ Restart \/ UNCHANGED vars \/ \E i \in Items : Redeliver(i)
           \/ \E w \in Workers : /\ Work(w) /\ ~ClosePrevious(w)
                                 /\ ~\E n \in Names : CloseCollected(w, n)
  BY ZenonT(60), <1>2, ClusterFrame DEF vars, Restart, Redeliver, Work, Upsert, Delete, Get, Fetch, LookupLock,
     AcquireLock, SkipContainer, ResolveContainer, ResolveFails, ClosePreviousFails, Bind,
     BindFails, StoreBinding, UpsertReturns, Collect, CloseCollectedFails, ForgetCollected,
     DeleteReturns, Finish, sink
<1> QED BY <1>1, <1>2 DEF Next

(* No step closes the binding of the container that runs now in a living   *)
(* pod: what Upsert closes is for an older container than the one it has a  *)
(* status of, and what Delete closes belongs to a pod that is gone.         *)
THEOREM RunningScopeStays == Spec => CurrentScopeStays
<1>1. ASSUME ScopeInv, [Next]_vars, NEW b \in open, scope[b].uid = current,
             id[current][scope[b].name] = scope[b].id, b \notin open'
      PROVE  current' # current
  <2>t. TypeInv BY <1>1 DEF ScopeInv, QueueInv
  <2>1. PICK w \in Workers : \/ ClosePrevious(w) /\ b = job[w].prev[job[w].name]
                             \/ \E n \in Names : CloseCollected(w, n) /\ b = job[w].prev[n]
    BY <1>1, ClosingSteps
  <2>j. job[w] \in Job /\ JobInv(job[w]) /\ Knows(job[w]) BY <1>1, <2>t DEF TypeInv, ScopeInv
  <2>b. b # NoBinding BY <1>1, <2>t, ScopesAssumption DEF TypeInv, ScopesAssumption
  <2>2. CASE ClosePrevious(w) /\ b = job[w].prev[job[w].name]
    <3>1. /\ job[w].at = "close" /\ job[w].name \in Names /\ ~job[w].item.deleted
          /\ job[w].uid \in Uids
      BY <2>j, <2>2 DEF ClosePrevious, JobInv, Job, Replacing, Deleting
    <3>2. scope[b].uid = job[w].uid /\ scope[b].name = job[w].name
      BY <2>b, <2>j, <2>2, <3>1 DEF Knows, ScopeOf
    <3>3. scope[b].id < job[w].status[job[w].name]
      BY <2>b, <2>j, <2>2, <3>1 DEF Knows, Replacing
    <3>4. job[w].status[job[w].name] <= id[job[w].uid][job[w].name]
      BY <2>j, <3>1 DEF Knows, Engaged, Locked
    <3>5. /\ job[w].status[job[w].name] \in Int /\ id[job[w].uid][job[w].name] \in Int
      BY <2>j, <2>t, <3>1 DEF Job, TypeInv
    <3> QED BY <1>1, <3>2, <3>3, <3>4, <3>5
  <2>3. CASE \E n \in Names : CloseCollected(w, n) /\ b = job[w].prev[n]
    <3>1. job[w].at = "closing" /\ job[w].item.deleted /\ job[w].uid = job[w].item.uid
      BY <2>j, <2>3 DEF CloseCollected, JobInv, Deleting
    <3>2. job[w].item \in processing BY <1>1, <3>1 DEF ScopeInv, QueueInv, Known, Busy
    <3>3. job[w].uid # current BY <1>1, <3>1, <3>2 DEF ScopeInv, QueueInv, Known
    <3>4. scope[b].uid = job[w].uid BY <2>b, <2>j, <2>3 DEF Knows, ScopeOf
    <3> QED BY <1>1, <3>3, <3>4
  <2> QED BY <2>1, <2>2, <2>3
<1>2. ScopeInv /\ [Next]_vars =>
        [\A b \in open :
           scope[b].uid = current /\ id[current][scope[b].name] = scope[b].id =>
             b \in open' \/ current' # current]_vars
  BY <1>1
<1> QED BY <1>2, ScopeInvariance, PTL DEF Spec, CurrentScopeStays

-----------------------------------------------------------------------------
(* The mutex of a pod.  A worker that waits has the mutex that was in the   *)
(* map when it looked, and Delete takes that one out of the map.  From then *)
(* on the pod is gone and its deletion handled, so that nobody new comes:   *)
(* of two workers one has just finished Delete, and only the other one can *)
(* still be in there.  With a third worker two could.                      *)
AtMostTwo == \A v, w, x \in Workers : v = w \/ w = x \/ v = x

BelowEpoch ==
  \A w \in Workers :
    job[w].at \in {"lock"} \cup Locked => job[w].lock <= epoch[job[w].uid]

MutexExcludes ==
  \A v, w \in Workers :
    /\ job[v].at \in Locked /\ job[w].at \in Locked
    /\ job[v].uid = job[w].uid /\ job[v].lock = job[w].lock
    => v = w

EngagedWith(w, u) == job[w].at \in Engaged /\ job[w].uid = u

Retired(u) ==
  /\ u \in seen /\ u # current
  /\ Deleted(u) \notin dirty /\ Deleted(u) \notin delayed
  /\ \A w \in Workers :
       Busy(w) /\ job[w].item = Deleted(u) => job[w].at = "done" /\ ~job[w].errs
  /\ \A v, w \in Workers : EngagedWith(v, u) /\ EngagedWith(w, u) => v = w

LockInv ==
  /\ ScopeInv /\ BelowEpoch /\ MutexExcludes
  /\ \A u \in Uids : epoch[u] > 0 => Retired(u)

LEMMA TwoWorkers ==
  ASSUME ScopesAssumption, Cardinality(Workers) <= 2
  PROVE  AtMostTwo
<1> SUFFICES ASSUME NEW v \in Workers, NEW w \in Workers, NEW x \in Workers,
                    v # w, w # x, v # x
             PROVE  FALSE
  BY DEF AtMostTwo
<1>1. IsFiniteSet({v}) /\ Cardinality({v}) = 1 BY FS_Singleton
<1>2. IsFiniteSet({v} \cup {w}) /\ Cardinality({v} \cup {w}) = 2
  <2>1. w \notin {v} /\ 1 + 1 = 2 OBVIOUS
  <2> QED BY <1>1, <2>1, FS_AddElement
<1>3. Cardinality(({v} \cup {w}) \cup {x}) = 3
  <2>1. x \notin {v} \cup {w} /\ 2 + 1 = 3 OBVIOUS
  <2> QED BY <1>2, <2>1, FS_AddElement
<1>4. ({v} \cup {w}) \cup {x} \subseteq Workers OBVIOUS
<1>5. Cardinality(({v} \cup {w}) \cup {x}) <= Cardinality(Workers)
  BY <1>4, FS_Subset DEF ScopesAssumption
<1>6. Cardinality(Workers) \in Nat BY FS_CardinalityType DEF ScopesAssumption
<1> QED BY <1>3, <1>5, <1>6

LEMMA DeletedItem ==
  ASSUME NEW i \in Items, i.deleted
  PROVE  i = Deleted(i.uid)
  BY DEF Items, Deleted

LEMMA LockInside ==
  ASSUME LockInv, NEW w \in Workers, Inside(w)
  PROVE  BelowEpoch' /\ MutexExcludes' /\ \A u \in Uids : epoch'[u] > 0 => Retired(u)'
<1>t. TypeInv BY DEF LockInv, ScopeInv, QueueInv
<1>1. /\ job[w].at \in Locked /\ job'[w].at \in Locked \cup {"done"}
      /\ job'[w].item = job[w].item /\ job'[w].uid = job[w].uid /\ job'[w].lock = job[w].lock
      /\ \A v \in Workers \ {w} : job'[v] = job[v]
      /\ job[w].at \in Engaged /\ Busy(w) /\ "done" \notin Engaged
  BY <1>t, InsideJob, EngagedFrame, EngagedBusy DEF EngagedStep, Engaged, Locked
<1>2. /\ epoch' = epoch /\ current' = current /\ seen' = seen /\ dirty' = dirty
      /\ delayed' = delayed
  BY InsideFrame
<1>3. BelowEpoch' BY <1>1, <1>2 DEF LockInv, BelowEpoch, Locked
<1>4. MutexExcludes'
  BY <1>1, <1>2 DEF LockInv, MutexExcludes, Locked
<1>5. ASSUME NEW u \in Uids, epoch'[u] > 0 PROVE Retired(u)'
  <2>1. Retired(u) BY <1>2, <1>5 DEF LockInv
  <2>2. job[w].item # Deleted(u) BY <1>1, <2>1 DEF Retired, Locked
  <2>3. \A v \in Workers : EngagedWith(v, u)' => EngagedWith(v, u)
    BY <1>1 DEF EngagedWith, Engaged
  <2> QED BY <1>1, <1>2, <2>1, <2>2, <2>3 DEF Retired, Busy
<1> QED BY <1>3, <1>4, <1>5

LEMMA LockLookup ==
  ASSUME LockInv, NEW w \in Workers, LookupLock(w) \/ AcquireLock(w)
  PROVE  BelowEpoch' /\ MutexExcludes' /\ \A u \in Uids : epoch'[u] > 0 => Retired(u)'
<1>t. TypeInv BY DEF LockInv, ScopeInv, QueueInv
<1> PICK r : r = job[w] OBVIOUS
<1>r. r \in Job /\ JobInv(r) BY <1>t DEF TypeInv
<1>0. /\ current' = current /\ seen' = seen /\ dirty' = dirty /\ delayed' = delayed
      /\ job'[w].item = job[w].item /\ job'[w].uid = job[w].uid /\ job[w].at \in Engaged
      /\ \A v \in Workers \ {w} : job'[v] = job[v]
  BY <1>t, EngagedFrame DEF EngagedStep
<1>1. epoch' = epoch BY DEF LookupLock, AcquireLock, memory
<1>2. BelowEpoch' /\ MutexExcludes' /\ job'[w].at \in Engaged
  <2>1. CASE LookupLock(w)
    <3>1. job'[w] = [r EXCEPT !.at = "lock", !.lock = epoch[r.uid]] BY <1>t, <2>1, BecomesIs DEF LookupLock
    <3>2. job'[w].at = "lock" /\ job'[w].lock = epoch[r.uid] /\ job'[w].uid = r.uid
      BY <1>r, <3>1 DEF Job
    <3>3. epoch[r.uid] \in Int BY <1>t, <1>r, <2>1 DEF JobInv, LookupLock, TypeInv
    <3> QED BY <1>0, <1>1, <3>2, <3>3 DEF LockInv, BelowEpoch, MutexExcludes, Locked, Engaged
  <2>2. CASE AcquireLock(w)
    <3>1. job'[w] = [r EXCEPT !.at = IF r.item.deleted THEN "collect" ELSE "scan"]
      BY <1>t, <2>2, BecomesIs DEF AcquireLock
    <3>2. job'[w].at \in {"collect", "scan"} /\ job'[w].lock = r.lock /\ job'[w].uid = r.uid
      BY <1>r, <3>1 DEF Job
    <3>3. r.at = "lock" /\ \A v \in Workers \ {w} :
            ~(job[v].at \in Locked /\ job[v].uid = r.uid /\ job[v].lock = r.lock)
      BY <2>2 DEF AcquireLock
    <3>4. BelowEpoch' BY <1>0, <1>1, <3>2, <3>3 DEF LockInv, BelowEpoch, Locked
    <3>5. MutexExcludes' BY <1>0, <3>2, <3>3 DEF LockInv, MutexExcludes
    <3> QED BY <3>2, <3>4, <3>5 DEF Engaged, Locked
  <2> QED BY <2>1, <2>2
<1>3. ASSUME NEW u \in Uids, epoch'[u] > 0 PROVE Retired(u)'
  <2>1. Retired(u) BY <1>1, <1>3 DEF LockInv
  <2>2. Busy(w) /\ job[w].at # "done"
    BY <1>0 DEF Busy, Engaged, Locked
  <2>3. job[w].item # Deleted(u) BY <2>1, <2>2 DEF Retired
  <2>4. \A v \in Workers : EngagedWith(v, u)' => EngagedWith(v, u)
    BY <1>0 DEF EngagedWith
  <2> QED BY <1>0, <2>1, <2>3, <2>4 DEF Retired, Busy
<1> QED BY <1>2, <1>3

LEMMA LockDeleteReturns ==
  ASSUME LockInv, AtMostTwo, NEW w \in Workers, DeleteReturns(w)
  PROVE  BelowEpoch' /\ MutexExcludes' /\ \A u \in Uids : epoch'[u] > 0 => Retired(u)'
<1> PICK r : r = job[w] OBVIOUS
<1>t. TypeInv BY DEF LockInv, ScopeInv, QueueInv
<1>r. r \in Job /\ JobInv(r) BY <1>t DEF TypeInv
<1>0. /\ current' = current /\ seen' = seen /\ dirty' = dirty /\ delayed' = delayed
      /\ job'[w].item = r.item /\ job'[w].uid = r.uid
      /\ \A v \in Workers \ {w} : job'[v] = job[v]
  BY <1>t, EngagedFrame DEF EngagedStep
<1>1. r.at = "closing" /\ job'[w].at = "done" /\ job'[w].errs = r.errs
  <2>1. job'[w] = [r EXCEPT !.at = "done"] BY <1>t, BecomesIs DEF DeleteReturns
  <2>2. r.at = "closing" BY DEF DeleteReturns
  <2> QED BY <1>r, <2>1, <2>2 DEF Job
<1>2. r.item = Deleted(r.uid) /\ r.item \in Items /\ r.item.deleted /\ r.uid \in Uids
  BY <1>r, <1>1, DeletedItem DEF JobInv, Deleting
<1>3. epoch' = [epoch EXCEPT ![r.uid] = IF r.errs THEN epoch[r.uid] ELSE epoch[r.uid] + 1]
  BY DEF DeleteReturns
<1>4. \A u \in Uids : /\ epoch[u] \in Nat /\ epoch'[u] \in Nat /\ epoch[u] <= epoch'[u]
                      /\ u # r.uid \/ r.errs => epoch'[u] = epoch[u]
  BY <1>t, <1>2, <1>3 DEF TypeInv
<1>5. BelowEpoch'
  <2>1. \A v \in Workers : job[v].at \in {"lock"} \cup Locked => job[v].uid \in Uids /\ job[v].lock \in Nat
    BY <1>t DEF TypeInv, JobInv, Locked, Job
  <2> QED BY <1>0, <1>1, <1>4, <2>1 DEF LockInv, BelowEpoch, Locked
<1>6. MutexExcludes' BY <1>0, <1>1 DEF LockInv, MutexExcludes, Locked
<1>7. ASSUME NEW u \in Uids, epoch'[u] > 0 PROVE Retired(u)'
  <2>0. Busy(w) /\ Busy(w)' BY <1>1 DEF Busy
  <2>1. CASE u # r.uid \/ r.errs
    <3>1. Retired(u) BY <1>4, <1>7, <2>1 DEF LockInv
    <3>2. r.item # Deleted(u) BY <1>1, <2>0, <3>1 DEF Retired
    <3>3. \A v \in Workers : EngagedWith(v, u)' => EngagedWith(v, u)
      BY <1>0, <1>1 DEF EngagedWith, Engaged, Locked
    <3> QED BY <1>0, <3>1, <3>2, <3>3 DEF Retired, Busy
  <2>2. CASE u = r.uid /\ ~r.errs
    <3>1. r.item \in processing /\ u \in seen /\ u # current
      <4>1. Known BY DEF LockInv, ScopeInv, QueueInv
      <4>2. r.item \in processing BY <2>0, <4>1 DEF Known
      <4> QED BY <1>2, <2>2, <4>1, <4>2 DEF Known, Deleted
    <3>2. Deleted(u) \notin dirty /\ Deleted(u) \notin delayed
      BY <1>2, <2>2, <3>1 DEF LockInv, ScopeInv, QueueInv, DeletedOnce
    <3>3. \A v \in Workers : Busy(v)' /\ job'[v].item = Deleted(u) => v = w
      BY <1>0, <1>2, <2>0, <2>2 DEF LockInv, ScopeInv, QueueInv, OneWorkerPerItem, Busy
    <3>4. \A v \in Workers : EngagedWith(v, u)' => v # w
      BY <1>1 DEF EngagedWith, Engaged, Locked
    <3> QED BY <1>0, <1>1, <2>2, <3>1, <3>2, <3>3, <3>4 DEF Retired, AtMostTwo
  <2> QED BY <2>1, <2>2
<1> QED BY <1>5, <1>6, <1>7

LEMMA LockOutside ==
  ASSUME LockInv, NEW w \in Workers, Get(w) \/ Fetch(w) \/ Finish(w)
  PROVE  BelowEpoch' /\ MutexExcludes' /\ \A u \in Uids : epoch'[u] > 0 => Retired(u)'
<1>t. TypeInv BY DEF LockInv, ScopeInv, QueueInv
<1>0. /\ epoch' = epoch /\ current' = current /\ seen' = seen
      /\ \A v \in Workers \ {w} : job'[v] = job[v]
  BY <1>t, GetJob, FetchJob, FinishJob DEF memory, cluster
<1>1. job'[w].at \in {"fetch", "lookup", "done", "idle"}
  <2>1. CASE Get(w) BY <2>1, <1>t, GetJob
  <2>2. CASE Fetch(w) BY <2>2, <1>t, FetchJob
  <2>3. CASE Finish(w) BY <2>3, <1>t, FinishJob DEF Idle
  <2> QED BY <2>1, <2>2, <2>3
<1>2. BelowEpoch' /\ MutexExcludes'
  BY <1>0, <1>1 DEF LockInv, BelowEpoch, MutexExcludes, Locked
<1>3. ASSUME NEW u \in Uids, epoch'[u] > 0 PROVE Retired(u)'
  <2>0. Retired(u) BY <1>0, <1>3 DEF LockInv
  <2>1. CASE Get(w)
    <3>1. PICK i \in dirty \ processing :
            /\ i \in Items /\ dirty' = dirty \ {i}
            /\ job'[w].item = i /\ job'[w].uid = i.uid
            /\ job'[w].at = IF i.deleted THEN "lookup" ELSE "fetch"
      BY <2>1, <1>t, GetJob
    <3>2. i # Deleted(u) /\ delayed' = delayed BY <2>0, <2>1, <3>1 DEF Retired, Get
    <3>3. ~EngagedWith(w, u)'
      BY <3>1, <3>2, DeletedItem DEF EngagedWith, Engaged, Locked
    <3> QED BY <1>0, <2>0, <3>1, <3>2, <3>3 DEF Retired, Busy, EngagedWith
  <2>2. CASE Fetch(w)
    <3>1. /\ job[w].at = "fetch" /\ job'[w].item = job[w].item
          /\ job'[w].at = "done" \/ job'[w].uid = current
          /\ dirty' = dirty /\ delayed' = delayed
      BY <2>2, <1>t, FetchJob DEF queue
    <3>2. job[w].item # Deleted(u) BY <2>0, <3>1 DEF Retired, Busy
    <3>3. ~EngagedWith(w, u)'
      BY <2>0, <3>1 DEF Retired, EngagedWith, Engaged, Locked
    <3> QED BY <1>0, <2>0, <3>1, <3>2, <3>3 DEF Retired, Busy, EngagedWith
  <2>3. CASE Finish(w)
    <3>1. /\ job[w].at = "done" /\ job'[w] = Idle /\ dirty' = dirty
          /\ delayed' = delayed \/ (job[w].errs /\ delayed' = delayed \cup {job[w].item})
      BY <2>3, <1>t, FinishJob
    <3>2. Deleted(u) \notin delayed' BY <2>0, <3>1 DEF Retired, Busy
    <3>3. ~Busy(w)' /\ ~EngagedWith(w, u)'
      BY <3>1 DEF Idle, Busy, EngagedWith, Engaged, Locked
    <3> QED BY <1>0, <2>0, <3>1, <3>2, <3>3 DEF Retired, Busy, EngagedWith
  <2> QED BY <2>1, <2>2, <2>3
<1> QED BY <1>2, <1>3

LEMMA LockStep ==
  ASSUME ScopesAssumption, AtMostTwo, LockInv, [Next]_vars
  PROVE  LockInv'
<1>s. ScopeInv' BY ScopeStep DEF LockInv
<1> SUFFICES BelowEpoch' /\ MutexExcludes' /\ \A u \in Uids : epoch'[u] > 0 => Retired(u)'
  BY <1>s DEF LockInv
<1>1. CASE \E w \in Workers : Work(w)
  BY <1>1, WorkCases, LockInside, LockLookup, LockDeleteReturns, LockOutside
<1>2. CASE Cluster
  <2>1. job' = job /\ epoch' = epoch /\ delayed' = delayed BY <1>2, ClusterFrame
  <2>2. BelowEpoch' /\ MutexExcludes' BY <2>1 DEF LockInv, BelowEpoch, MutexExcludes
  <2>3. ASSUME NEW u \in Uids, u \in seen, u # current, Deleted(u) \notin dirty
        PROVE  u \in seen' /\ u # current' /\ Deleted(u) \notin dirty'
    <3>1. \A v : Upserted(v) # Deleted(u) BY DEF Upserted, Deleted
    <3>2. Deleted(current) # Deleted(u) BY <2>3 DEF Deleted
    <3>3. u # NoPod BY ScopesAssumption DEF ScopesAssumption
    <3>4. CASE \E v \in Uids : PodAdded(v) \/ PodReplaced(v)
      BY <2>3, <3>1, <3>4 DEF PodAdded, PodReplaced, Add
    <3>5. CASE \E n \in Names : ContainerStarts(n) \/ \E v \in Uids : ContainerExits(v, n)
      BY <2>3, <3>1, <3>5 DEF ContainerStarts, ContainerExits, Add, queue
    <3>6. CASE PodDeleted BY <2>3, <3>2, <3>3, <3>6 DEF PodDeleted, Add
    <3> QED BY <1>2, <3>4, <3>5, <3>6 DEF Cluster
  <2>4. ASSUME NEW u \in Uids, epoch'[u] > 0 PROVE Retired(u)'
    <3>1. Retired(u) BY <2>1, <2>4 DEF LockInv
    <3>2. u \in seen' /\ u # current' /\ Deleted(u) \notin dirty' BY <2>3, <3>1 DEF Retired
    <3> QED BY <2>1, <3>1, <3>2 DEF Retired, Busy, EngagedWith
  <2> QED BY <2>2, <2>4
<1>3. CASE Restart
  BY <1>3 DEF Restart, BelowEpoch, MutexExcludes, Idle, Locked
<1>4. CASE \E i \in Items : Redeliver(i)
  <2>1. PICK i \in Items : /\ i \in delayed /\ delayed' = delayed \ {i} /\ dirty' = dirty \cup {i}
                           /\ UNCHANGED <<current, seen, job, epoch>>
    BY <1>4 DEF Redeliver, cluster, memory
  <2>2. BelowEpoch' /\ MutexExcludes' BY <2>1 DEF LockInv, BelowEpoch, MutexExcludes
  <2>3. ASSUME NEW u \in Uids, epoch'[u] > 0 PROVE Retired(u)'
    <3>1. Retired(u) BY <2>1, <2>3 DEF LockInv
    <3> QED BY <2>1, <3>1 DEF Retired, Busy, EngagedWith
  <2> QED BY <2>2, <2>3
<1>5. CASE UNCHANGED vars
  BY <1>5 DEF vars, cluster, queue, memory, LockInv, BelowEpoch, MutexExcludes, Retired, Busy, EngagedWith
<1> QED BY <1>1, <1>2, <1>3, <1>4, <1>5 DEF Next

LEMMA LockInvariance == ASSUME AtMostTwo PROVE Spec => []LockInv
<1>1. Init => LockInv
  BY InitScope DEF Init, LockInv, BelowEpoch, MutexExcludes, Idle, Locked
<1>2. LockInv /\ [Next]_vars => LockInv' BY ScopesAssumption, LockStep
<1> QED BY <1>1, <1>2, PTL DEF Spec

LEMMA LockExclusive == ASSUME LockInv PROVE PodExclusive
<1> SUFFICES ASSUME NEW v \in Workers, NEW w \in Workers, job[v].at \in Locked,
                    job[w].at \in Locked, job[v].uid = job[w].uid
             PROVE  v = w
  BY DEF PodExclusive
<1>1. /\ job[v].uid \in Uids /\ epoch[job[v].uid] \in Nat
      /\ job[v].lock \in Nat /\ job[w].lock \in Nat
  BY DEF LockInv, ScopeInv, QueueInv, TypeInv, JobInv, Locked, Job
<1>2. CASE epoch[job[v].uid] = 0
  <2>1. job[v].lock <= 0 /\ job[w].lock <= 0 BY <1>2 DEF LockInv, BelowEpoch
  <2>2. job[v].lock = job[w].lock BY <1>1, <2>1
  <2> QED BY <2>2 DEF LockInv, MutexExcludes
<1>3. CASE epoch[job[v].uid] > 0
  BY <1>1, <1>3 DEF LockInv, Retired, EngagedWith, Engaged
<1> QED BY <1>1, <1>2, <1>3

(* With the two workers the controller runs by default, never two of them   *)
(* are inside Upsert or Delete for the same pod.                            *)
THEOREM PodsAreExclusive ==
  ASSUME Cardinality(Workers) <= 2
  PROVE  Spec => []PodExclusive
<1>1. AtMostTwo BY TwoWorkers, ScopesAssumption
<1>2. Spec => []LockInv BY <1>1, LockInvariance
<1> QED BY <1>2, LockExclusive, PTL

-----------------------------------------------------------------------------
(* The map of the reconciler and the bindings that are open.  While a       *)
(* worker replaces or closes a binding, the map says what it said when the  *)
(* worker read it: nobody else changes the map for this pod.                *)
Holds(j) ==
  /\ j.at \in Replacing => j.prev[j.name] = slot[j.uid][j.name]
  /\ j.at \in {"bind", "store"} => j.prev[j.name] \notin open
  /\ j.at = "store" => j.made \in open /\ \A u \in Uids, n \in Names : slot[u][n] # j.made
  /\ j.at \in {"closing", "forget"} =>
       \A n \in j.left : j.prev[n] = slot[j.uid][n] /\ j.prev[n] # NoBinding
  /\ j.at = "forget" => j.prev[j.name] \notin open

TrackInv == LockInv /\ Tracked /\ \A w \in Workers : Holds(job[w])

(* What a step of a worker may do to the map and to what is open.          *)
LEMMA WorkEffects ==
  ASSUME NEW w \in Workers, Work(w)
  PROVE  \/ slot' = slot /\ open' = open /\ lost' = lost /\ job[w].at # "store"
         \/ StoreBinding(w) /\ open' = open /\ lost' = lost /\ scope' = scope
         \/ ForgetCollected(w) /\ open' = open /\ lost' = lost /\ scope' = scope
         \/ ClosePrevious(w) /\ slot' = slot /\ lost' = lost /\ scope' = scope
         \/ /\ slot' = slot /\ lost' = lost /\ scope' = scope
            /\ \E n \in Names : CloseCollected(w, n)
         \/ /\ slot' = slot /\ job[w].at = "bind"
            /\ \E b \in Bindings : /\ Recorded(w, b) /\ open' = open \cup {b}
                                   /\ \/ Bind(w) /\ lost' = lost
                                      \/ lost' = lost \cup {b}
<1>1. CASE Bind(w) \/ BindFails(w)
  BY <1>1 DEF Bind, BindFails, memory, sink, history
<1>2. CASE \/ StoreBinding(w) \/ ForgetCollected(w) \/ ClosePrevious(w)
           \/ \E n \in Names : CloseCollected(w, n)
  BY <1>2 DEF StoreBinding, ForgetCollected, ClosePrevious, CloseCollected, memory, sink, history
<1>3. CASE Get(w) \/ Fetch(w) \/ LookupLock(w) \/ AcquireLock(w) \/ DeleteReturns(w) \/ Finish(w)
  BY <1>3 DEF Get, Fetch, LookupLock, AcquireLock, DeleteReturns, Finish, memory, sink, history
<1>4. CASE \/ ClosePreviousFails(w) \/ UpsertReturns(w) \/ Collect(w)
           \/ \E n \in Names : \/ SkipContainer(w, n) \/ ResolveContainer(w, n)
                               \/ ResolveFails(w, n) \/ CloseCollectedFails(w, n)
  BY <1>4 DEF ClosePreviousFails, UpsertReturns, Collect, SkipContainer, ResolveContainer,
     ResolveFails, CloseCollectedFails, memory, sink, history
<1> QED BY <1>1, <1>2, <1>3, <1>4, WorkCases DEF Inside

(* A binding that is just recorded is in no slot and nobody's previous one. *)
LEMMA FreshBinding ==
  ASSUME ScopeInv, NEW w \in Workers, NEW b \in Bindings, Recorded(w, b)
  PROVE  /\ \A u \in Uids, n \in Names : slot[u][n] # b
         /\ \A v \in Workers, n \in Names : job[v].prev[n] # b
         /\ b \notin open
<1>1. scope[b] = NoScope BY DEF Recorded
<1>2. b # NoBinding BY ScopesAssumption DEF ScopesAssumption
<1>3. \A v \in Workers : Knows(job[v]) BY DEF ScopeInv
<1> QED BY <1>1, <1>2, <1>3 DEF ScopeInv, Recognized, Knows, ScopeOf

LEMMA OthersHold ==
  ASSUME TrackInv, PodExclusive, NEW w \in Workers, Work(w),
         NEW v \in Workers, v # w, NEW j, j = job[v]
  PROVE  Holds(j)'
<1> USE DEF Replacing
<1>s. ScopeInv BY DEF TrackInv, LockInv
<1>t. TypeInv /\ Recognized BY <1>s DEF ScopeInv, QueueInv
<1>h. Holds(j) BY DEF TrackInv
<1>j. j \in Job /\ JobInv(j) /\ Knows(j) BY <1>s, <1>t DEF TypeInv, ScopeInv
<1>r. job[w] \in Job /\ JobInv(job[w]) /\ Holds(job[w]) /\ Knows(job[w])
  BY <1>s, <1>t DEF TypeInv, TrackInv, ScopeInv
<1>n. /\ j.at \in Replacing \cup {"forget"} => j.name \in Names
      /\ j.at \in Replacing \cup {"closing", "forget"} => j.uid \in Uids
      /\ j.left \subseteq Names
  BY <1>j DEF JobInv, Job
<1>a. j.at \in Replacing \cup {"closing", "forget"} => j.at \in Locked BY DEF Locked
<1>1. CASE slot' = slot /\ open' = open
  BY <1>h, <1>1 DEF Holds
<1>2. ASSUME NEW n \in Names, NEW b, job[w].at \in Locked, job[w].uid \in Uids,
             slot' = [slot EXCEPT ![job[w].uid][n] = b], open' = open,
             j.at = "store" => b # j.made
      PROVE  Holds(j)'
  <2>1. ASSUME j.at \in Locked PROVE j.uid # job[w].uid
    BY <1>2, <2>1 DEF PodExclusive
  <2>2. \A u \in Uids : u # job[w].uid => slot'[u] = slot[u]
    BY <1>2, <1>t DEF TypeInv
  <2>3. ASSUME j.at = "store" PROVE \A u \in Uids, m \in Names : slot'[u][m] # j.made
    <3>1. \A u \in Uids, m \in Names : slot'[u][m] \in {slot[u][m], b}
      BY <1>2, <1>t DEF TypeInv
    <3> QED BY <1>2, <1>h, <2>3, <3>1 DEF Holds
  <2>4. j.at \in Replacing => j.prev[j.name] = slot'[j.uid][j.name]
    BY <1>a, <1>h, <1>n, <2>1, <2>2 DEF Holds
  <2>5. j.at \in {"closing", "forget"} =>
          \A m \in j.left : j.prev[m] = slot'[j.uid][m] /\ j.prev[m] # NoBinding
    BY <1>a, <1>h, <1>n, <2>1, <2>2 DEF Holds
  <2> QED BY <1>2, <1>h, <2>3, <2>4, <2>5 DEF Holds
<1>3. CASE StoreBinding(w)
  <2>1. job[w].at = "store" /\ job[w].uid \in Uids /\ job[w].name \in Names
    BY <1>3, <1>r DEF StoreBinding, JobInv, Job
  <2>2. ASSUME j.at = "store" PROVE job[w].made # j.made
    <3>1. scope[job[w].made].uid = job[w].uid /\ scope[j.made].uid = j.uid
      BY <1>j, <1>r, <2>1, <2>2 DEF Knows, Target
    <3>2. job[w].uid # j.uid BY <2>1, <2>2 DEF PodExclusive, Locked
    <3> QED BY <3>1, <3>2
  <2>3. /\ slot' = [slot EXCEPT ![job[w].uid][job[w].name] = job[w].made] /\ open' = open
        /\ job[w].at \in Locked
    BY <1>3 DEF StoreBinding, Locked, sink
  <2> QED BY <1>2, <2>1, <2>2, <2>3
<1>4. CASE ForgetCollected(w)
  <2>1. job[w].at = "forget" /\ job[w].uid \in Uids /\ job[w].name \in Names
    BY <1>4, <1>r DEF ForgetCollected, JobInv, Job
  <2>2. ASSUME j.at = "store" PROVE NoBinding # j.made
    BY <1>j, <2>2, ScopesAssumption DEF Knows, ScopesAssumption
  <2>3. /\ slot' = [slot EXCEPT ![job[w].uid][job[w].name] = NoBinding] /\ open' = open
        /\ job[w].at \in Locked
    BY <1>4 DEF ForgetCollected, Locked, sink
  <2> QED BY <1>2, <2>1, <2>2, <2>3
<1>5. ASSUME NEW p, slot' = slot, open' = open \ {p}, j.at = "store" => p # j.made
      PROVE  Holds(j)'
  BY <1>h, <1>5 DEF Holds
<1>6. CASE ClosePrevious(w)
  <2>1. /\ job[w].uid \in Uids /\ job[w].name \in Names
        /\ job[w].prev[job[w].name] = slot[job[w].uid][job[w].name]
    BY <1>6, <1>r DEF ClosePrevious, JobInv, Job, Holds
  <2> QED BY <1>5, <1>6, <1>h, <2>1 DEF ClosePrevious, Holds, memory
<1>7. ASSUME NEW n \in Names, CloseCollected(w, n)
      PROVE  Holds(j)'
  <2>1. job[w].uid \in Uids /\ job[w].prev[n] = slot[job[w].uid][n]
    BY <1>7, <1>r DEF CloseCollected, JobInv, Holds
  <2> QED BY <1>5, <1>7, <1>h, <2>1 DEF CloseCollected, Holds, memory
<1>8. ASSUME NEW b \in Bindings, slot' = slot, Recorded(w, b), open' = open \cup {b}
      PROVE  Holds(j)'
  <2>1. \A n \in Names : j.prev[n] # b BY <1>8, <1>s, FreshBinding
  <2> QED BY <1>8, <1>h, <1>n, <2>1 DEF Holds
<1> QED BY <1>1, <1>3, <1>4, <1>6, <1>7, <1>8, WorkEffects

LEMMA OwnHolds ==
  ASSUME ScopesAssumption, TrackInv, NEW w \in Workers, Work(w), NEW k, k = job'[w]
  PROVE  Holds(k)'
<1> USE DEF Replacing
<1> PICK r : r = job[w] OBVIOUS
<1>s. ScopeInv BY DEF TrackInv, LockInv
<1>t. TypeInv /\ Recognized BY <1>s DEF ScopeInv, QueueInv
<1>r. r \in Job /\ JobInv(r) /\ Holds(r) /\ Knows(r) BY <1>s, <1>t DEF TypeInv, TrackInv, ScopeInv
<1>slot. slot \in [Uids -> [Names -> Bindings \cup {NoBinding}]] /\ NoBinding \notin open
  BY <1>t, ScopesAssumption DEF TypeInv, ScopesAssumption
<1>0. ASSUME k.at \in {"idle", "fetch", "lookup", "lock", "scan", "collect", "done"}
      PROVE  Holds(k)'
  BY <1>0 DEF Holds
<1>1. CASE Get(w)
  <2>1. PICK i : k.at = IF i.deleted THEN "lookup" ELSE "fetch" BY <1>1, <1>t, GetJob
  <2> QED BY <1>0, <2>1
<1>2. CASE Fetch(w) BY <1>0, <1>2, <1>t, FetchJob
<1>3. CASE Finish(w) BY <1>0, <1>3, <1>t, FinishJob DEF Idle
<1>4. CASE LookupLock(w)
  <2>1. k = [r EXCEPT !.at = "lock", !.lock = epoch[r.uid]] BY <1>4, <1>t, BecomesIs DEF LookupLock
  <2> QED BY <1>0, <1>r, <2>1 DEF Job
<1>5. CASE AcquireLock(w)
  <2>1. k = [r EXCEPT !.at = IF r.item.deleted THEN "collect" ELSE "scan"]
    BY <1>5, <1>t, BecomesIs DEF AcquireLock
  <2> QED BY <1>0, <1>r, <2>1 DEF Job
<1>6. CASE DeleteReturns(w) \/ UpsertReturns(w)
  <2>1. k = [r EXCEPT !.at = "done"] BY <1>6, <1>t, BecomesIs DEF DeleteReturns, UpsertReturns
  <2> QED BY <1>0, <1>r, <2>1 DEF Job
<1>7. CASE \E n \in Names : SkipContainer(w, n)
  <2>1. PICK n \in Names : k = [r EXCEPT !.left = @ \ {n}] /\ r.at = "scan"
    BY <1>7, <1>t, BecomesIs DEF SkipContainer
  <2> QED BY <1>0, <1>r, <2>1 DEF Job
<1>8. CASE \/ ClosePreviousFails(w) \/ BindFails(w) \/ \E n \in Names : ResolveFails(w, n)
  <2>1. PICK n \in Names : ContainerFails(w, n) /\ r.at \in {"scan", "close", "bind"}
    BY <1>8, <1>r DEF ClosePreviousFails, BindFails, ResolveFails, JobInv, Job
  <2>2. k.at = "scan" BY <1>t, <2>1, FailsJob DEF Locked
  <2> QED BY <1>0, <2>2
<1>9. CASE StoreBinding(w)
  <2>1. k = [r EXCEPT !.at = "scan", !.left = @ \ {r.name}, !.name = NoName,
               !.prev[r.name] = NoBinding, !.made = NoBinding]
    BY <1>9, <1>t, BecomesIs DEF StoreBinding
  <2> QED BY <1>0, <1>r, <2>1 DEF Job
<1>10. CASE \E n \in Names : ResolveContainer(w, n)
  <2>1. PICK n \in Names : ResolveContainer(w, n) BY <1>10
  <2> PICK p : p = slot[r.uid][n] OBVIOUS
  <2>2. k = [r EXCEPT !.name = n, !.prev[n] = p,
               !.at = IF p = NoBinding THEN "bind" ELSE "close"]
    BY <1>t, <2>1, BecomesIs DEF ResolveContainer
  <2>3. /\ k.name = n /\ k.prev[n] = p /\ k.uid = r.uid
        /\ k.at = IF p = NoBinding THEN "bind" ELSE "close"
    BY <1>r, <2>2 DEF Job
  <2>4. slot' = slot /\ open' = open BY <2>1 DEF ResolveContainer, memory, sink
  <2> QED BY <1>slot, <2>3, <2>4 DEF Holds
<1>11. CASE ClosePrevious(w)
  <2>1. k = [r EXCEPT !.at = "bind"] /\ r.at = "close" /\ open' = open \ {r.prev[r.name]} /\ slot' = slot
    BY <1>11, <1>t, BecomesIs DEF ClosePrevious, memory
  <2>2. k.at = "bind" /\ k.name = r.name /\ k.prev = r.prev /\ k.uid = r.uid BY <1>r, <2>1 DEF Job
  <2> QED BY <1>r, <2>1, <2>2 DEF Holds
<1>12. CASE Bind(w)
  <2>1. PICK b \in Bindings : /\ Recorded(w, b) /\ open' = open \cup {b} /\ slot' = slot
                              /\ r.at = "bind" /\ k = [r EXCEPT !.at = "store", !.made = b]
    BY <1>12, <1>t, BecomesIs DEF Bind, memory
  <2>2. k.at = "store" /\ k.name = r.name /\ k.prev = r.prev /\ k.uid = r.uid /\ k.made = b
    BY <1>r, <2>1 DEF Job
  <2>3. r.name \in Names BY <1>r, <2>1 DEF JobInv, Job
  <2>4. r.prev[r.name] # b /\ \A u \in Uids, n \in Names : slot[u][n] # b
    BY <1>s, <2>1, <2>3, FreshBinding
  <2> QED BY <1>r, <2>1, <2>2, <2>4 DEF Holds
<1>13. CASE Collect(w)
  <2>1. k = [r EXCEPT !.at = "closing", !.prev = slot[r.uid],
               !.left = {n \in Names : slot[r.uid][n] # NoBinding}]
    BY <1>13, <1>t, BecomesIs DEF Collect
  <2>2. /\ k.at = "closing" /\ k.prev = slot[r.uid] /\ k.uid = r.uid
        /\ k.left = {n \in Names : slot[r.uid][n] # NoBinding}
    BY <1>r, <2>1 DEF Job
  <2>3. slot' = slot BY <1>13 DEF Collect, memory
  <2> QED BY <2>2, <2>3 DEF Holds
<1>14. CASE \E n \in Names : CloseCollected(w, n)
  <2>1. PICK n \in Names : /\ k = [r EXCEPT !.at = "forget", !.name = n] /\ r.at = "closing"
                           /\ open' = open \ {r.prev[n]} /\ slot' = slot
    BY <1>14, <1>t, BecomesIs DEF CloseCollected, memory
  <2>2. /\ k.at = "forget" /\ k.name = n /\ k.prev = r.prev /\ k.uid = r.uid /\ k.left = r.left
    BY <1>r, <2>1 DEF Job
  <2> QED BY <1>r, <2>1, <2>2 DEF Holds
<1>15. CASE \E n \in Names : CloseCollectedFails(w, n)
  <2>1. PICK n \in Names : /\ ContainerFails(w, n) /\ r.at = "closing" /\ slot' = slot
    BY <1>15 DEF CloseCollectedFails, memory
  <2>2. /\ k.at = "closing" /\ k.uid = r.uid /\ k.left = r.left \ {n}
        /\ k.prev = [r.prev EXCEPT ![n] = NoBinding]
    BY <1>t, <2>1, FailsJob DEF Locked
  <2>3. \A m \in Names \ {n} : k.prev[m] = r.prev[m] BY <1>r, <2>2 DEF Job
  <2>4. r.left \subseteq Names BY <1>r DEF Job
  <2> QED BY <1>r, <2>1, <2>2, <2>3, <2>4 DEF Holds
<1>16. CASE ForgetCollected(w)
  <2>1. /\ k = [r EXCEPT !.at = "closing", !.left = @ \ {r.name}, !.name = NoName,
                 !.prev[r.name] = NoBinding]
        /\ r.at = "forget" /\ slot' = [slot EXCEPT ![r.uid][r.name] = NoBinding]
    BY <1>16, <1>t, BecomesIs DEF ForgetCollected
  <2>2. /\ k.at = "closing" /\ k.uid = r.uid /\ k.left = r.left \ {r.name}
        /\ k.prev = [r.prev EXCEPT ![r.name] = NoBinding] /\ r.uid \in Uids /\ r.name \in Names
        /\ r.left \subseteq Names
    BY <1>r, <2>1 DEF Job, JobInv
  <2>3. \A m \in Names \ {r.name} : k.prev[m] = r.prev[m] /\ slot'[r.uid][m] = slot[r.uid][m]
    <3>1. r.prev \in [Names -> Bindings \cup {NoBinding}] BY <1>r DEF Job
    <3> QED BY <1>slot, <2>1, <2>2, <3>1
  <2> QED BY <1>r, <2>1, <2>2, <2>3 DEF Holds
<1> QED BY <1>1, <1>2, <1>3, <1>4, <1>5, <1>6, <1>7, <1>8, <1>9, <1>10, <1>11, <1>12,
           <1>13, <1>14, <1>15, <1>16, WorkCases DEF Inside

(* A binding that is tracked stays so until it is closed or lost.          *)
Storing(b) == \E w \in Workers : job[w].at = "store" /\ job[w].made = b

LEMMA TrackedWork ==
  ASSUME ScopesAssumption, TrackInv, PodExclusive, NEW w \in Workers, Work(w),
         NEW b \in open', b \notin lost'
  PROVE  slot'[scope'[b].uid][scope'[b].name] = b \/ Storing(b)'
<1>s. ScopeInv BY DEF TrackInv, LockInv
<1>t. TypeInv /\ Recognized BY <1>s DEF ScopeInv, QueueInv
<1>slot. slot \in [Uids -> [Names -> Bindings \cup {NoBinding}]]
  BY <1>t DEF TypeInv
<1>r. job[w] \in Job /\ JobInv(job[w]) /\ Holds(job[w]) /\ Knows(job[w])
  BY <1>s, <1>t DEF TypeInv, TrackInv, ScopeInv
<1>o. \A v \in Workers \ {w} : job'[v] = job[v]
  <2>1. PICK j \in Job : JobInv(j) /\ Becomes(w, j) BY ScopesAssumption, <1>t, WorkJob
  <2> QED BY <1>t, <2>1, BecomesIs
<1>g. \A c \in Bindings : scope[c] # NoScope => scope'[c] = scope[c] BY <1>t, WorkGrows
<1>0. ASSUME b \in open, b \notin lost
      PROVE  /\ scope'[b] = scope[b] /\ scope[b].uid \in Uids /\ scope[b].name \in Names
             /\ slot[scope[b].uid][scope[b].name] = b \/ Storing(b)
  BY <1>0, <1>t, <1>g DEF TrackInv, Tracked, Storing, Recognized, TypeInv, Scopes
<1>1. ASSUME b \in open, b \notin lost, slot' = slot, job[w].at # "store"
      PROVE  slot'[scope'[b].uid][scope'[b].name] = b \/ Storing(b)'
  BY <1>0, <1>1, <1>o DEF Storing
<1>2. CASE StoreBinding(w) /\ open' = open /\ lost' = lost /\ scope' = scope
  <2>1. /\ slot' = [slot EXCEPT ![job[w].uid][job[w].name] = job[w].made]
        /\ job[w].at = "store"
    BY <1>2 DEF StoreBinding
  <2>2. /\ job[w].uid \in Uids /\ job[w].name \in Names
        /\ scope[job[w].made] = Target(job[w])
        /\ slot[job[w].uid][job[w].name] \notin open
    BY <1>r, <2>1 DEF JobInv, Job, Replacing, Knows, Holds
  <2>3. CASE b = job[w].made
    <3>1. scope'[b].uid = job[w].uid /\ scope'[b].name = job[w].name
      BY <1>2, <2>2, <2>3 DEF Target
    <3> QED BY <1>slot, <2>1, <2>2, <2>3, <3>1
  <2>4. CASE b # job[w].made
    <3>1. CASE Storing(b) BY <1>o, <2>4, <3>1 DEF Storing
    <3>2. CASE slot[scope[b].uid][scope[b].name] = b
      BY <1>0, <1>2, <1>slot, <2>1, <2>2, <3>2
    <3> QED BY <1>0, <1>2, <3>1, <3>2
  <2> QED BY <2>3, <2>4
<1>3. CASE ForgetCollected(w) /\ open' = open /\ lost' = lost /\ scope' = scope
  <2>1. /\ slot' = [slot EXCEPT ![job[w].uid][job[w].name] = NoBinding]
        /\ job[w].at = "forget"
    BY <1>3 DEF ForgetCollected
  <2>2. /\ job[w].uid \in Uids /\ job[w].name \in Names
        /\ slot[job[w].uid][job[w].name] \notin open
    BY <1>r, <2>1 DEF JobInv, Job, Holds
  <2>3. CASE Storing(b) BY <1>o, <2>1, <2>3 DEF Storing
  <2>4. CASE slot[scope[b].uid][scope[b].name] = b
    BY <1>0, <1>3, <1>slot, <2>1, <2>2, <2>4
  <2> QED BY <1>0, <1>3, <2>3, <2>4
<1>4. CASE /\ slot' = slot /\ lost' = lost /\ scope' = scope
           /\ (ClosePrevious(w) \/ \E n \in Names : CloseCollected(w, n))
  BY <1>1, <1>4 DEF ClosePrevious, CloseCollected
<1>5. CASE /\ slot' = slot /\ job[w].at = "bind"
           /\ \E c \in Bindings : /\ Recorded(w, c) /\ open' = open \cup {c}
                                  /\ \/ Bind(w) /\ lost' = lost
                                     \/ lost' = lost \cup {c}
  <2>1. PICK c \in Bindings : /\ Recorded(w, c) /\ open' = open \cup {c}
                              /\ \/ Bind(w) /\ lost' = lost
                                 \/ lost' = lost \cup {c}
    BY <1>5
  <2>2. CASE b = c
    <3>1. Bind(w) /\ c \notin open BY <1>s, <2>1, <2>2, FreshBinding
    <3>2. PICK d \in Bindings : open' = open \cup {d} /\ job'[w].at = "store" /\ job'[w].made = d
      BY <1>t, <3>1, BindJob
    <3>3. d = c BY <2>1, <3>1, <3>2
    <3> QED BY <2>2, <3>2, <3>3 DEF Storing
  <2>3. CASE b # c BY <1>1, <1>5, <2>1, <2>3
  <2> QED BY <2>2, <2>3
<1> QED BY <1>1, <1>2, <1>3, <1>4, <1>5, WorkEffects

LEMMA TrackStep ==
  ASSUME ScopesAssumption, AtMostTwo, TrackInv, [Next]_vars
  PROVE  TrackInv'
<1>l. LockInv' /\ PodExclusive BY LockStep, LockExclusive DEF TrackInv
<1>t. job \in [Workers -> Job] BY DEF TrackInv, LockInv, ScopeInv, QueueInv, TypeInv
<1>1. CASE \E w \in Workers : Work(w)
  <2>1. PICK w \in Workers : Work(w) BY <1>1
  <2>2. \A v \in Workers \ {w} : job'[v] = job[v]
    <3>1. TypeInv BY DEF TrackInv, LockInv, ScopeInv, QueueInv
    <3>2. PICK j \in Job : JobInv(j) /\ Becomes(w, j) BY <2>1, <3>1, WorkJob
    <3> QED BY <3>1, <3>2, BecomesIs
  <2>3. ASSUME NEW v \in Workers PROVE Holds(job[v])'
    <3> PICK k : k = job'[v] OBVIOUS
    <3>1. CASE v = w
      <4>1. Holds(k)' BY <2>1, <3>1, OwnHolds
      <4> QED BY <4>1
    <3>2. CASE v # w
      <4>1. k = job[v] BY <2>2, <3>2
      <4>2. Holds(k)' BY <1>l, <2>1, <3>2, <4>1, OthersHold
      <4> QED BY <4>2
    <3> QED BY <3>1, <3>2
  <2>4. Tracked' BY <1>l, <2>1, TrackedWork DEF Tracked, Storing
  <2> QED BY <1>l, <2>3, <2>4 DEF TrackInv
<1>2. CASE Cluster \/ UNCHANGED vars \/ \E i \in Items : Redeliver(i)
  <2>1. UNCHANGED <<job, slot, scope, open, lost>>
    BY <1>2, ClusterFrame DEF vars, Redeliver, memory, sink, history
  <2> QED BY <1>l, <2>1 DEF TrackInv, Tracked, Holds
<1>3. CASE Restart
  <2>1. \A w \in Workers : job'[w] = Idle BY <1>3 DEF Restart
  <2>2. Tracked' BY <1>3 DEF Restart, Tracked, sink
  <2>3. ASSUME NEW w \in Workers PROVE Holds(job[w])'
    BY <2>1 DEF Holds, Idle, Replacing
  <2> QED BY <1>l, <2>2, <2>3 DEF TrackInv
<1> QED BY <1>1, <1>2, <1>3 DEF Next

LEMMA TrackInvariance == ASSUME AtMostTwo PROVE Spec => []TrackInv
<1>1. Init => TrackInv
  <2> SUFFICES ASSUME Init PROVE TrackInv OBVIOUS
  <2>1. LockInv BY InitScope DEF Init, LockInv, BelowEpoch, MutexExcludes, Idle, Locked
  <2>2. Holds(Idle) BY DEF Holds, Idle, Replacing
  <2> QED BY <2>1, <2>2 DEF Init, TrackInv, Tracked
<1>2. TrackInv /\ [Next]_vars => TrackInv' BY ScopesAssumption, TrackStep
<1> QED BY <1>1, <1>2, PTL DEF Spec

(* With two workers the reconciler never loses track of a binding it opened. *)
THEOREM BindingsAreTracked ==
  ASSUME Cardinality(Workers) <= 2
  PROVE  Spec => []Tracked
<1>1. AtMostTwo BY TwoWorkers, ScopesAssumption
<1>2. Spec => []TrackInv BY <1>1, TrackInvariance
<1>3. TrackInv => Tracked BY DEF TrackInv
<1> QED BY <1>2, <1>3, PTL

(* With two workers a container never has two open bindings: of two, one    *)
(* would be in the map and the other about to replace it, but what is being *)
(* replaced is closed already.                                              *)
THEOREM ContainersHaveOneScope ==
  ASSUME Cardinality(Workers) <= 2
  PROVE  Spec => []OnePerContainer
<1>1. AtMostTwo BY TwoWorkers, ScopesAssumption
<1>2. Spec => []TrackInv BY <1>1, TrackInvariance
<1>3. ASSUME TrackInv, NEW b \in open, NEW c \in open, b \notin lost, c \notin lost,
             scope[b].uid = scope[c].uid, scope[b].name = scope[c].name
      PROVE  b = c
  <2>p. PodExclusive /\ \A w \in Workers : Knows(job[w]) /\ Holds(job[w])
    BY <1>3, LockExclusive DEF TrackInv, LockInv, ScopeInv
  <2>1. \A d \in open : \A w \in Workers :
          job[w].at = "store" /\ job[w].made = d =>
            /\ scope[d].uid = job[w].uid /\ scope[d].name = job[w].name
            /\ slot[scope[d].uid][scope[d].name] \notin open
    <3> SUFFICES ASSUME NEW d \in open, NEW w \in Workers, job[w].at = "store", job[w].made = d
                 PROVE  /\ scope[d].uid = job[w].uid /\ scope[d].name = job[w].name
                        /\ slot[scope[d].uid][scope[d].name] \notin open
      OBVIOUS
    <3>1. scope[d] = Target(job[w]) BY <2>p DEF Knows
    <3>2. scope[d].uid = job[w].uid /\ scope[d].name = job[w].name BY <3>1 DEF Target
    <3>3. slot[job[w].uid][job[w].name] \notin open BY <2>p DEF Holds, Replacing
    <3> QED BY <3>2, <3>3
  <2>2. \/ slot[scope[b].uid][scope[b].name] = b
        \/ \E w \in Workers : job[w].at = "store" /\ job[w].made = b
    BY <1>3 DEF TrackInv, Tracked
  <2>3. \/ slot[scope[c].uid][scope[c].name] = c
        \/ \E w \in Workers : job[w].at = "store" /\ job[w].made = c
    BY <1>3 DEF TrackInv, Tracked
  <2> QED BY <1>3, <2>p, <2>1, <2>2, <2>3 DEF PodExclusive, Locked
<1>4. TrackInv => OnePerContainer BY <1>3 DEF OnePerContainer
<1> QED BY <1>2, <1>4, PTL

-----------------------------------------------------------------------------
(* A living pod.  As long as its containers are not all bound, an item of   *)
(* its own is waiting, or with a worker that has read the ids the            *)
(* containers have now and has still to look at those that are not bound,   *)
(* or the retry budget ran out.                                             *)
SlotCurrent(u, n) == slot[u][n] # NoBinding /\ scope[slot[u][n]].id = id[u][n]

Bound(u, n) == id[u][n] = 0 \/ SlotCurrent(u, n)

Working(w, u) ==
  /\ Busy(w) /\ job[w].item = Upserted(u)
  /\ \/ job[w].at = "fetch"
     \/ job[w].errs
     \/ /\ job[w].uid = u /\ job[w].status = id[u]
        /\ job[w].at = "done" => job[w].left = {}
        /\ \A n \in Names \ job[w].left : Bound(u, n)

Attended(u) ==
  \/ Upserted(u) \in dirty \/ Upserted(u) \in delayed \/ Upserted(u) \in gaveUp
  \/ \A n \in Names : Bound(u, n)
  \/ \E w \in Workers : Working(w, u)

(* A binding that is closed but still in the map is for an older container. *)
ClosedIsOld(u) ==
  \A n \in Names : slot[u][n] # NoBinding /\ slot[u][n] \notin open =>
                     scope[slot[u][n]].id < id[u][n]

LiveInv ==
  /\ TrackInv
  /\ \A u \in Uids : (\E n \in Names : slot[u][n] # NoBinding) => u \in seen
  /\ \A u \in Uids : u = current => ClosedIsOld(u) /\ Attended(u)

LEMMA LiveFacts ==
  ASSUME LiveInv
  PROVE  /\ TrackInv /\ LockInv /\ ScopeInv /\ QueueInv /\ TypeInv /\ Recognized /\ Known
         /\ \A w \in Workers : /\ job[w] \in Job /\ JobInv(job[w])
                               /\ Knows(job[w]) /\ Holds(job[w])
  BY DEF LiveInv, TrackInv, LockInv, ScopeInv, QueueInv, TypeInv

(* The binding of the container that runs now stays in the map.            *)
LEMMA BoundStays ==
  ASSUME ScopesAssumption, LiveInv, NEW w \in Workers, Work(w), NEW n \in Names,
         current \in Uids, Bound(current, n)
  PROVE  Bound(current, n)'
<1>f. /\ TypeInv /\ ScopeInv /\ Recognized /\ Known
      /\ job[w] \in Job /\ JobInv(job[w]) /\ Knows(job[w]) /\ Holds(job[w])
  BY LiveFacts
<1>g. /\ \A c \in Bindings : scope[c] # NoScope => scope'[c] = scope[c]
      /\ id' = id /\ current' = current
  BY <1>f, WorkGrows, WorkCases, InsideFrame DEF Get, Fetch, LookupLock, AcquireLock,
     DeleteReturns, Finish, cluster
<1>t. slot \in [Uids -> [Names -> Bindings \cup {NoBinding}]] BY <1>f DEF TypeInv
<1>1. CASE id[current][n] = 0 BY <1>g, <1>1 DEF Bound
<1>2. CASE SlotCurrent(current, n)
  <2>0. slot'[current][n] = slot[current][n]
    <3>1. CASE StoreBinding(w)
      <4>1. /\ slot' = [slot EXCEPT ![job[w].uid][job[w].name] = job[w].made]
            /\ job[w].at = "store"
        BY <3>1 DEF StoreBinding
      <4>2. CASE job[w].uid = current /\ job[w].name = n
        <5>1. job[w].prev[n] = slot[current][n] /\ ~job[w].item.deleted
          BY <1>f, <4>1, <4>2 DEF Holds, Replacing, JobInv, Deleting
        <5>2. scope[slot[current][n]].id < job[w].status[n]
          BY <1>f, <1>2, <4>1, <4>2, <5>1 DEF Knows, Replacing, SlotCurrent
        <5>3. job[w].status[n] <= id[current][n]
          BY <1>f, <4>1, <4>2, <5>1 DEF Knows, Engaged, Locked
        <5>4. job[w].status[n] \in Int /\ id[current][n] \in Int
          BY <1>f DEF Job, TypeInv
        <5> QED BY <1>2, <5>2, <5>3, <5>4 DEF SlotCurrent
      <4>3. CASE ~(job[w].uid = current /\ job[w].name = n) BY <1>t, <4>1, <4>3
      <4> QED BY <4>2, <4>3
    <3>2. CASE ForgetCollected(w)
      <4>1. /\ slot' = [slot EXCEPT ![job[w].uid][job[w].name] = NoBinding]
            /\ job[w].at = "forget"
        BY <3>2 DEF ForgetCollected
      <4>2. job[w].item \in processing /\ job[w].item.deleted /\ job[w].uid = job[w].item.uid
        BY <1>f, <4>1 DEF Known, Busy, JobInv, Deleting
      <4>3. job[w].uid # current BY <1>f, <4>2 DEF Known
      <4> QED BY <1>t, <4>1, <4>3
    <3> QED BY <3>1, <3>2, WorkEffects
  <2>1. slot[current][n] \in Bindings /\ scope[slot[current][n]] # NoScope
    BY <1>f, <1>t, <1>2 DEF SlotCurrent, Recognized, ScopeOf
  <2> QED BY <1>g, <1>2, <2>0, <2>1 DEF Bound, SlotCurrent
<1> QED BY <1>1, <1>2 DEF Bound

LEMMA ClosedIsOldWork ==
  ASSUME ScopesAssumption, LiveInv, NEW w \in Workers, Work(w), current \in Uids
  PROVE  ClosedIsOld(current)'
<1>f. /\ TypeInv /\ ScopeInv /\ Recognized /\ Known /\ TrackInv
      /\ job[w] \in Job /\ JobInv(job[w]) /\ Knows(job[w]) /\ Holds(job[w])
  BY LiveFacts
<1>g. /\ \A c \in Bindings : scope[c] # NoScope => scope'[c] = scope[c]
      /\ id' = id /\ current' = current
  BY <1>f, WorkGrows, WorkCases, InsideFrame DEF Get, Fetch, LookupLock, AcquireLock,
     DeleteReturns, Finish, cluster
<1>t. slot \in [Uids -> [Names -> Bindings \cup {NoBinding}]] BY <1>f DEF TypeInv
<1> SUFFICES ASSUME NEW n \in Names, slot'[current][n] # NoBinding, slot'[current][n] \notin open'
             PROVE  scope'[slot'[current][n]].id < id[current][n]
  BY <1>g DEF ClosedIsOld
<1>0. ASSUME slot'[current][n] = slot[current][n]
      PROVE  /\ slot[current][n] \in Bindings /\ slot[current][n] \notin open'
             /\ scope[slot[current][n]].uid = current /\ scope[slot[current][n]].name = n
             /\ scope'[slot[current][n]] = scope[slot[current][n]]
  BY <1>0, <1>f, <1>g, <1>t DEF Recognized, ScopeOf
<1>1. ASSUME slot'[current][n] = slot[current][n], slot[current][n] \notin open
      PROVE  scope'[slot'[current][n]].id < id[current][n]
  BY <1>0, <1>1 DEF LiveInv, ClosedIsOld
<1>2. CASE slot' = slot /\ open \subseteq open'
  BY <1>1, <1>2
<1>3. CASE StoreBinding(w) /\ open' = open
  <2>1. /\ slot' = [slot EXCEPT ![job[w].uid][job[w].name] = job[w].made]
        /\ job[w].at = "store"
    BY <1>3 DEF StoreBinding
  <2>2. job[w].made \in open BY <1>f, <2>1 DEF Holds
  <2>3. slot'[current][n] \in {slot[current][n], job[w].made} BY <1>t, <2>1
  <2> QED BY <1>1, <1>3, <2>2, <2>3
<1>4. CASE ForgetCollected(w) /\ open' = open
  <2>1. slot' = [slot EXCEPT ![job[w].uid][job[w].name] = NoBinding]
    BY <1>4 DEF ForgetCollected
  <2>2. slot'[current][n] \in {slot[current][n], NoBinding} BY <1>t, <2>1
  <2> QED BY <1>1, <1>4, <2>2
<1>5. CASE ClosePrevious(w) /\ slot' = slot
  <2>1. open' = open \ {job[w].prev[job[w].name]} /\ job[w].at = "close"
    BY <1>5 DEF ClosePrevious
  <2>2. CASE slot[current][n] = job[w].prev[job[w].name]
    <3>1. job[w].name \in Names /\ ~job[w].item.deleted /\ job[w].prev[job[w].name] # NoBinding
      BY <1>f, <2>1 DEF JobInv, Job, Replacing, Deleting
    <3>2. job[w].uid = current /\ job[w].name = n
      BY <1>0, <1>5, <1>f, <2>2, <3>1 DEF Knows, ScopeOf
    <3>3. scope[slot[current][n]].id < job[w].status[n]
      BY <1>f, <2>1, <2>2, <3>1, <3>2 DEF Knows, Replacing
    <3>4. job[w].status[n] <= id[current][n]
      BY <1>f, <2>1, <3>1, <3>2 DEF Knows, Engaged, Locked
    <3>5. job[w].status[n] \in Int /\ id[current][n] \in Int /\ scope[slot[current][n]].id \in Int
      <4>1. scope[slot[current][n]] \in Scopes \cup {NoScope} BY <1>0, <1>5, <1>f DEF TypeInv
      <4> QED BY <4>1, <1>f DEF Job, TypeInv, Scopes, NoScope
    <3> QED BY <1>0, <1>5, <3>3, <3>4, <3>5
  <2>3. CASE slot[current][n] # job[w].prev[job[w].name] BY <1>1, <1>5, <2>1, <2>3
  <2> QED BY <2>2, <2>3
<1>6. ASSUME NEW m \in Names, CloseCollected(w, m), slot' = slot
      PROVE  scope'[slot'[current][n]].id < id[current][n]
  <2>1. open' = open \ {job[w].prev[m]} /\ job[w].at = "closing" BY <1>6 DEF CloseCollected
  <2>2. CASE slot[current][n] = job[w].prev[m]
    <3>1. job[w].item \in processing /\ job[w].item.deleted /\ job[w].uid = job[w].item.uid
      BY <1>f, <2>1 DEF Known, Busy, JobInv, Deleting
    <3>2. job[w].uid # current BY <1>f, <3>1 DEF Known
    <3>3. scope[job[w].prev[m]].uid = job[w].uid BY <1>0, <1>6, <1>f, <2>2 DEF Knows, ScopeOf
    <3> QED BY <1>0, <1>6, <2>2, <3>2, <3>3
  <2>3. CASE slot[current][n] # job[w].prev[m] BY <1>1, <1>6, <2>1, <2>3
  <2> QED BY <2>2, <2>3
<1> QED BY <1>2, <1>3, <1>4, <1>5, <1>6, WorkEffects

(* What an update has dealt with is bound, or an error is noted.           *)
LEMMA UpsertProgress ==
  ASSUME ScopesAssumption, LiveInv, NEW w \in Workers, EngagedStep(w),
         ~job[w].item.deleted, job[w].uid = current, current \in Uids,
         job[w].status = id[current]
  PROVE  \/ job'[w].errs
         \/ /\ job'[w].at = "done" => job'[w].left = {}
            /\ job'[w].left \subseteq job[w].left
            /\ \A n \in job[w].left \ job'[w].left : Bound(current, n)'
<1> PICK r : r = job[w] OBVIOUS
<1> PICK k : k = job'[w] OBVIOUS
<1>f. /\ TypeInv /\ r \in Job /\ JobInv(r) /\ Knows(r) BY LiveFacts
<1>0. ASSUME k.left = r.left, k.at = "done" => k.left = {}
      PROVE  /\ k.at = "done" => k.left = {}
             /\ k.left \subseteq r.left
             /\ \A n \in r.left \ k.left : Bound(current, n)'
  BY <1>0
<1>1. CASE LookupLock(w)
  <2>1. k = [r EXCEPT !.at = "lock", !.lock = epoch[r.uid]] BY <1>1, <1>f, BecomesIs DEF LookupLock
  <2>2. k.at = "lock" /\ k.left = r.left BY <1>f, <2>1 DEF Job
  <2> QED BY <1>0, <2>2
<1>2. CASE AcquireLock(w)
  <2>1. k = [r EXCEPT !.at = IF r.item.deleted THEN "collect" ELSE "scan"]
    BY <1>2, <1>f, BecomesIs DEF AcquireLock
  <2>2. k.at # "done" /\ k.left = r.left BY <1>f, <2>1 DEF Job
  <2> QED BY <1>0, <2>2
<1>3. CASE \E n \in Names : SkipContainer(w, n)
  <2>1. PICK n \in Names : SkipContainer(w, n) BY <1>3
  <2>2. k = [r EXCEPT !.left = @ \ {n}] /\ r.at = "scan"
    BY <1>f, <2>1, BecomesIs DEF SkipContainer
  <2>3. k.at = "scan" /\ k.left = r.left \ {n} BY <1>f, <2>2 DEF Job
  <2>4. Bound(current, n)
    BY <2>1 DEF SkipContainer, Settled, Bound, SlotCurrent
  <2>5. UNCHANGED <<slot, scope, id, current>> BY <2>1 DEF SkipContainer, cluster, memory, sink
  <2>6. Bound(current, n)' BY <2>4, <2>5 DEF Bound, SlotCurrent
  <2> QED BY <2>3, <2>6
<1>4. CASE \E n \in Names : ResolveContainer(w, n)
  <2>n. PICK n \in Names : ResolveContainer(w, n) BY <1>4
  <2> PICK p : p = slot[r.uid][n] OBVIOUS
  <2>1. k = [r EXCEPT !.name = n, !.prev[n] = p,
               !.at = IF p = NoBinding THEN "bind" ELSE "close"]
    BY <1>f, <2>n, BecomesIs DEF ResolveContainer
  <2>2. k.at # "done" /\ k.left = r.left BY <1>f, <2>1 DEF Job
  <2> QED BY <1>0, <2>2
<1>5. CASE ClosePrevious(w)
  <2>1. k = [r EXCEPT !.at = "bind"] BY <1>5, <1>f, BecomesIs DEF ClosePrevious
  <2>2. k.at # "done" /\ k.left = r.left BY <1>f, <2>1 DEF Job
  <2> QED BY <1>0, <2>2
<1>6. CASE Bind(w)
  <2>1. k.at # "done" /\ k.left = r.left BY <1>6, <1>f, BindJob
  <2> QED BY <1>0, <2>1
<1>7. CASE \/ ClosePreviousFails(w) \/ BindFails(w)
           \/ \E n \in Names : ResolveFails(w, n) \/ CloseCollectedFails(w, n)
  <2>1. PICK n \in Names : ContainerFails(w, n) /\ r.at \in Locked
    BY <1>7, <1>f DEF ClosePreviousFails, BindFails, ResolveFails, CloseCollectedFails,
       JobInv, Job, Replacing, Locked
  <2> QED BY <1>f, <2>1, FailsJob
<1>8. CASE StoreBinding(w)
  <2>1. /\ k = [r EXCEPT !.at = "scan", !.left = @ \ {r.name}, !.name = NoName,
                  !.prev[r.name] = NoBinding, !.made = NoBinding]
        /\ r.at = "store" /\ slot' = [slot EXCEPT ![r.uid][r.name] = r.made]
        /\ UNCHANGED <<scope, id, current>>
    BY <1>8, <1>f, BecomesIs DEF StoreBinding, cluster, sink
  <2>2. k.at = "scan" /\ k.left = r.left \ {r.name} BY <1>f, <2>1 DEF Job
  <2>3. /\ r.name \in Names /\ scope[r.made] = Target(r) /\ r.made # NoBinding
    BY <1>f, <2>1 DEF JobInv, Job, Replacing, Knows, ScopesAssumption
  <2>4. slot'[current][r.name] = r.made BY <1>f, <2>1, <2>3 DEF TypeInv
  <2>5. scope'[r.made].id = id'[current][r.name] BY <2>1, <2>3 DEF Target
  <2>6. Bound(current, r.name)' BY <2>1, <2>3, <2>4, <2>5 DEF Bound, SlotCurrent
  <2> QED BY <2>2, <2>6
<1>9. CASE UpsertReturns(w)
  <2>1. k = [r EXCEPT !.at = "done"] /\ r.left = {} BY <1>9, <1>f, BecomesIs DEF UpsertReturns
  <2>2. k.left = r.left BY <1>f, <2>1 DEF Job
  <2> QED BY <1>0, <2>1, <2>2
<1>10. CASE \/ Collect(w) \/ ForgetCollected(w) \/ DeleteReturns(w)
            \/ \E n \in Names : CloseCollected(w, n)
  BY <1>10, <1>f DEF Collect, ForgetCollected, DeleteReturns, CloseCollected, JobInv, Deleting
<1> QED BY <1>1, <1>2, <1>3, <1>4, <1>5, <1>6, <1>7, <1>8, <1>9, <1>10 DEF EngagedStep, Inside

LEMMA AttendedWork ==
  ASSUME ScopesAssumption, LiveInv, NEW w \in Workers, Work(w), current \in Uids,
         current' = current
  PROVE  Attended(current)'
<1> PICK u : u = current OBVIOUS
<1>f. /\ TypeInv /\ QueueInv /\ Known /\ job[w] \in Job /\ JobInv(job[w])
  BY LiveFacts
<1>b. \A n \in Names : Bound(u, n) => Bound(u, n)' BY BoundStays
<1>i. id' = id BY <1>f, WorkGrows
<1> SUFFICES Attended(u)' OBVIOUS
<1>e. ASSUME EngagedStep(w)
      PROVE  /\ dirty' = dirty /\ delayed' = delayed /\ gaveUp' = gaveUp
             /\ Busy(w) /\ Busy(w)'
    BY <1>e, <1>f, EngagedFrame DEF Busy, Engaged, Locked
<1>1. CASE Upserted(u) \in dirty \/ Upserted(u) \in delayed \/ Upserted(u) \in gaveUp
  <2>1. CASE EngagedStep(w) BY <1>1, <1>e, <2>1 DEF Attended
  <2>2. CASE Get(w)
    <3>1. PICK i \in dirty \ processing :
            /\ i \in Items /\ dirty' = dirty \ {i} /\ job'[w].item = i
            /\ job'[w].at = IF i.deleted THEN "lookup" ELSE "fetch"
      BY <1>f, <2>2, GetJob
    <3>2. delayed' = delayed /\ gaveUp' = gaveUp BY <2>2 DEF Get, history
    <3>3. CASE i = Upserted(u)
      <4>1. job'[w].at = "fetch" BY <3>1, <3>3 DEF Upserted
      <4> QED BY <3>1, <3>3, <4>1 DEF Attended, Working, Busy
    <3>4. CASE i # Upserted(u) BY <1>1, <3>1, <3>2, <3>4 DEF Attended
    <3> QED BY <3>3, <3>4
  <2>3. CASE Fetch(w) BY <1>1, <2>3 DEF Fetch, queue, history, Attended
  <2>4. CASE Finish(w) BY <1>1, <1>f, <2>4, FinishJob DEF Attended
  <2> QED BY <2>1, <2>2, <2>3, <2>4, WorkCases DEF EngagedStep
<1>2. CASE \A n \in Names : Bound(u, n) BY <1>2, <1>b DEF Attended
<1>3. ASSUME NEW v \in Workers, Working(v, u), v # w PROVE Attended(u)'
  <2>1. job'[v] = job[v]
    <3>1. PICK j \in Job : JobInv(j) /\ Becomes(w, j) BY <1>f, WorkJob
    <3> QED BY <1>3, <1>f, <3>1, BecomesIs
  <2>2. Working(v, u)' BY <1>3, <1>b, <1>i, <2>1 DEF Working, Busy
  <2> QED BY <2>2 DEF Attended
<1>4. CASE Working(w, u)
  <2>d. ~job[w].item.deleted BY <1>4 DEF Working, Upserted
  <2>1. CASE EngagedStep(w)
    <3>1. /\ job'[w].item = job[w].item /\ job'[w].uid = job[w].uid
          /\ job'[w].status = job[w].status /\ job[w].at \in Engaged
          /\ job[w].errs => job'[w].errs
      BY <1>f, <2>1, EngagedFrame
    <3>2. CASE job'[w].errs BY <1>4, <1>e, <2>1, <3>1, <3>2 DEF Attended, Working
    <3>3. CASE ~job'[w].errs
      <4>1. /\ job[w].uid = u /\ job[w].status = id[u]
            /\ \A n \in Names \ job[w].left : Bound(u, n)
        BY <1>4, <3>1, <3>3 DEF Working, Engaged, Locked
      <4>2. /\ job'[w].at = "done" => job'[w].left = {}
            /\ \A n \in job[w].left \ job'[w].left : Bound(u, n)'
        BY <2>1, <2>d, <3>3, <4>1, UpsertProgress
      <4>3. \A n \in Names \ job'[w].left : Bound(u, n)' BY <1>b, <4>1, <4>2
      <4>4. Working(w, u)' BY <1>4, <1>e, <1>i, <2>1, <3>1, <4>1, <4>2, <4>3 DEF Working
      <4> QED BY <4>4 DEF Attended
    <3> QED BY <3>2, <3>3
  <2>2. CASE Fetch(w)
    <3>1. u # NoPod BY ScopesAssumption DEF ScopesAssumption
    <3>2. /\ job'[w].at = "lookup" /\ job'[w].uid = u /\ job'[w].status = id[u]
          /\ job'[w].left = Names /\ job'[w].item = job[w].item
      BY <1>f, <2>2, <3>1, FetchJob
    <3>3. Working(w, u)' BY <1>4, <1>i, <3>2 DEF Working, Busy
    <3> QED BY <3>3 DEF Attended
  <2>3. CASE Finish(w)
    <3>1. job[w].at = "done" BY <2>3 DEF Finish
    <3>2. CASE job[w].errs
      <4>1. Upserted(u) \in delayed' \/ Upserted(u) \in gaveUp'
        BY <1>4, <1>f, <2>3, <3>2, FinishJob DEF Working
      <4> QED BY <4>1 DEF Attended
    <3>3. CASE ~job[w].errs
      <4>1. \A n \in Names : Bound(u, n) BY <1>4, <3>1, <3>3 DEF Working
      <4> QED BY <1>b, <4>1 DEF Attended
    <3> QED BY <3>2, <3>3
  <2>4. CASE Get(w) BY <1>4, <2>4 DEF Get, Working, Busy
  <2> QED BY <2>1, <2>2, <2>3, <2>4, WorkCases DEF EngagedStep
<1>5. Attended(u)
  BY DEF LiveInv
<1> QED BY <1>1, <1>2, <1>3, <1>4, <1>5 DEF Attended

LEMMA LiveCluster ==
  ASSUME ScopesAssumption, LiveInv, Cluster, NEW u \in Uids, u = current'
  PROVE  ClosedIsOld(u)' /\ Attended(u)'
<1>f. TypeInv /\ Recognized /\ \A v \in Uids, n \in Names : id[v][n] <= starts
  BY LiveFacts DEF LiveInv, TrackInv, LockInv, ScopeInv, Recent
<1>c. /\ job' = job /\ slot' = slot /\ scope' = scope /\ open' = open
      /\ delayed' = delayed /\ gaveUp' = gaveUp
  BY ClusterFrame
<1>1. ASSUME PodAdded(u) \/ PodReplaced(u)
      PROVE  ClosedIsOld(u)' /\ Attended(u)'
  <2>1. u \notin seen /\ Upserted(u) \in dirty' BY <1>1 DEF PodAdded, PodReplaced, Add
  <2>2. \A n \in Names : slot[u][n] = NoBinding BY <2>1 DEF LiveInv
  <2> QED BY <1>c, <2>1, <2>2 DEF ClosedIsOld, Attended
<1>2. ASSUME NEW m \in Names, ContainerStarts(m)
      PROVE  ClosedIsOld(u)' /\ Attended(u)'
  <2>1. /\ u = current /\ Upserted(u) \in dirty' /\ starts' = starts + 1
        /\ id' = [id EXCEPT ![u][m] = starts + 1]
    BY <1>2 DEF ContainerStarts, Add
  <2>2. ClosedIsOld(u) BY <2>1 DEF LiveInv
  <2>3. ASSUME NEW n \in Names, slot[u][n] # NoBinding, slot[u][n] \notin open
        PROVE  scope[slot[u][n]].id < id'[u][n]
    <3>1. scope[slot[u][n]].id < id[u][n] BY <2>2, <2>3 DEF ClosedIsOld
    <3>2. id[u][n] \in Int /\ id'[u][n] \in Int /\ id[u][n] <= id'[u][n]
      BY <1>f, <2>1, ScopesAssumption DEF TypeInv, ScopesAssumption
    <3>3. scope[slot[u][n]].id \in Int
      <4>1. slot[u][n] \in Bindings BY <1>f, <2>3 DEF TypeInv
      <4> QED BY <1>f, <4>1 DEF TypeInv, Scopes, NoScope
    <3> QED BY <3>1, <3>2, <3>3
  <2> QED BY <1>c, <2>1, <2>3 DEF ClosedIsOld, Attended
<1>3. ASSUME NEW v \in Uids, NEW m \in Names, ContainerExits(v, m)
      PROVE  ClosedIsOld(u)' /\ Attended(u)'
  <2>1. u = current /\ id' = id /\ dirty \subseteq dirty'
    BY <1>3 DEF ContainerExits, Add, queue
  <2> QED BY <1>c, <2>1 DEF LiveInv, ClosedIsOld, Attended, Bound, SlotCurrent, Working, Busy
<1>4. ~PodDeleted BY ScopesAssumption DEF PodDeleted, ScopesAssumption
<1>5. \A v \in Uids : PodAdded(v) \/ PodReplaced(v) => v = u BY DEF PodAdded, PodReplaced
<1> QED BY <1>1, <1>2, <1>3, <1>4, <1>5 DEF Cluster

LEMMA LiveStep ==
  ASSUME ScopesAssumption, AtMostTwo, LiveInv, [Next]_vars
  PROVE  LiveInv'
<1>f. TypeInv /\ ScopeInv /\ Known BY LiveFacts
<1>t. TrackInv' BY TrackStep DEF LiveInv
<1>1. ASSUME NEW u \in Uids, NEW n \in Names, slot'[u][n] # NoBinding
      PROVE  u \in seen'
  <2>1. seen \subseteq seen'
    BY WorkCases, InsideFrame DEF Next, vars, cluster, Cluster, PodAdded, PodReplaced,
       ContainerStarts, ContainerExits, PodDeleted, Restart, Redeliver, Get, Fetch,
       LookupLock, AcquireLock, DeleteReturns, Finish
  <2>2. CASE slot'[u][n] = slot[u][n] BY <1>1, <2>1, <2>2 DEF LiveInv
  <2>3. ASSUME NEW w \in Workers, StoreBinding(w), job[w].uid = u PROVE u \in seen'
    BY <1>f, <2>1, <2>3 DEF StoreBinding, Known, Busy
  <2> QED BY <1>1, <1>f, <2>2, <2>3, SlotChanges
<1>2. ASSUME NEW u \in Uids, u = current' PROVE ClosedIsOld(u)' /\ Attended(u)'
  <2>1. ASSUME NEW w \in Workers, Work(w) PROVE ClosedIsOld(u)' /\ Attended(u)'
    <3>1. current' = current
      BY <2>1, WorkCases, InsideFrame DEF Get, Fetch, LookupLock, AcquireLock, DeleteReturns,
         Finish, cluster
    <3>2. ClosedIsOld(current)' /\ Attended(current)'
      BY <1>2, <2>1, <3>1, ClosedIsOldWork, AttendedWork
    <3> QED BY <1>2, <3>1, <3>2
  <2>2. CASE Cluster BY <1>2, <2>2, LiveCluster
  <2>3. CASE Restart
    <3>1. u # NoPod BY ScopesAssumption DEF ScopesAssumption
    <3>2. Upserted(u) \in dirty' BY <1>2, <2>3, <3>1 DEF Restart
    <3>3. slot' = [v \in Uids |-> Unbound] BY <2>3 DEF Restart
    <3> QED BY <3>2, <3>3 DEF Attended, ClosedIsOld, Unbound
  <2>4. ASSUME NEW i \in Items, Redeliver(i) PROVE ClosedIsOld(u)' /\ Attended(u)'
    <3>1. /\ current' = current /\ id' = id /\ slot' = slot /\ scope' = scope /\ open' = open
          /\ job' = job /\ gaveUp' = gaveUp
          /\ delayed' = delayed \ {i} /\ dirty' = dirty \cup {i}
      BY <2>4 DEF Redeliver, cluster, memory, sink, history
    <3> QED BY <1>2, <3>1 DEF LiveInv, ClosedIsOld, Attended, Bound, SlotCurrent, Working, Busy
  <2>5. CASE UNCHANGED vars
    BY <1>2, <2>5 DEF vars, cluster, queue, memory, sink, history, LiveInv, ClosedIsOld, Attended,
       Bound, SlotCurrent, Working, Busy
  <2> QED BY <2>1, <2>2, <2>3, <2>4, <2>5 DEF Next
<1> QED BY <1>t, <1>1, <1>2 DEF LiveInv

(* With two workers a living pod ends up attributed exactly, unless a retry *)
(* budget ran out: once its events are worked off, each container that runs *)
(* or ran last has an open binding of its own.                              *)
THEOREM LivingPodsAreAttributed ==
  ASSUME Cardinality(Workers) <= 2
  PROVE  Spec => []Attributed
<1>0. AtMostTwo BY TwoWorkers, ScopesAssumption
<1>1. Init => LiveInv
  <2> SUFFICES ASSUME Init PROVE LiveInv OBVIOUS
  <2>1. LockInv BY InitScope DEF Init, LockInv, BelowEpoch, MutexExcludes, Idle, Locked
  <2>2. Holds(Idle) BY DEF Holds, Idle, Replacing
  <2>3. TrackInv BY <2>1, <2>2 DEF Init, TrackInv, Tracked
  <2>4. \A u \in Uids : u # current BY ScopesAssumption DEF Init, ScopesAssumption
  <2> QED BY <2>3, <2>4 DEF Init, LiveInv, Unbound
<1>2. LiveInv /\ [Next]_vars => LiveInv' BY <1>0, ScopesAssumption, LiveStep
<1>3. ASSUME LiveInv, current \in Uids, Quiet(current), Upserted(current) \notin gaveUp,
             NEW n \in Names, id[current][n] > 0
      PROVE  \E b \in open : scope[b] = [uid |-> current, name |-> n, id |-> id[current][n]]
  <2>f. TypeInv /\ Recognized /\ Known BY <1>3, LiveFacts
  <2>1. Attended(current) /\ ClosedIsOld(current) BY <1>3 DEF LiveInv
  <2>2. Upserted(current).uid = current BY DEF Upserted
  <2>3. Upserted(current) \notin dirty /\ Upserted(current) \notin delayed
    BY <1>3, <2>2 DEF Quiet
  <2>4. \A w \in Workers : ~Working(w, current)
    BY <1>3, <2>2, <2>f DEF Quiet, Working, Known
  <2>5. SlotCurrent(current, n)
    <3>1. Bound(current, n) BY <1>3, <2>1, <2>3, <2>4 DEF Attended
    <3> QED BY <1>3, <3>1 DEF Bound
  <2> PICK b : b = slot[current][n] OBVIOUS
  <2>6. b \in Bindings /\ scope[b] # NoScope /\ scope[b].uid = current /\ scope[b].name = n
    BY <1>3, <2>5, <2>f DEF SlotCurrent, TypeInv, Recognized, ScopeOf
  <2>7. scope[b] \in Scopes BY <2>6, <2>f DEF TypeInv
  <2>8. scope[b] = [uid |-> current, name |-> n, id |-> id[current][n]]
    BY <2>5, <2>6, <2>7 DEF SlotCurrent, Scopes
  <2>9. b \in open
    <3>1. scope[b].id = id[current][n] /\ id[current][n] \in Int
      BY <1>3, <2>5, <2>f DEF SlotCurrent, TypeInv
    <3>2. b # NoBinding BY <2>5 DEF SlotCurrent
    <3> QED BY <2>1, <3>1, <3>2 DEF ClosedIsOld
  <2> QED BY <2>8, <2>9
<1>4. LiveInv => Attributed
  <2> SUFFICES ASSUME LiveInv, NEW u \in {current} \ {NoPod}, Quiet(u), Upserted(u) \notin gaveUp,
                      NEW n \in Names, id[u][n] > 0
               PROVE  \E b \in open : scope[b] = [uid |-> u, name |-> n, id |-> id[u][n]]
    BY DEF Attributed
  <2>1. u = current /\ current \in Uids BY LiveFacts DEF TypeInv
  <2> QED BY <1>3, <2>1
<1> QED BY <1>1, <1>2, <1>4, PTL DEF Spec

-----------------------------------------------------------------------------
(* A pod that is gone, with one worker: its deletion is waiting, being      *)
(* worked on or given up, or none of its bindings is open and nobody is     *)
(* about to open one.  A job that deletes has forgotten every binding it is *)
(* done with, unless it notes an error.                                     *)
OnlyOne == \A v, w \in Workers : v = w

Forgotten(j) ==
  j.item.deleted /\ j.at \in {"closing", "forget", "done"} =>
    \A n \in Names :
      j.at = "done" \/ n \notin j.left => j.errs \/ slot[j.uid][n] = NoBinding

Pending(u) == Deleted(u) \in dirty \cup delayed \cup processing \cup gaveUp

Ended(u) ==
  /\ \A b \in open \ lost : scope[b].uid # u
  /\ \A w \in Workers : job[w].uid = u => job[w].at \in {"fetch", "done"}

LateInv ==
  /\ TrackInv
  /\ \A w \in Workers : Forgotten(job[w])
  /\ \A u \in seen \ ({current} \cup hidden) : Pending(u) \/ Ended(u)

LEMMA LateFacts ==
  ASSUME LateInv
  PROVE  /\ TrackInv /\ LockInv /\ ScopeInv /\ QueueInv /\ TypeInv
         /\ \A w \in Workers : /\ job[w] \in Job /\ JobInv(job[w]) /\ Forgotten(job[w])
  BY DEF LateInv, TrackInv, LockInv, ScopeInv, QueueInv, TypeInv

LEMMA ForgottenWork ==
  ASSUME ScopesAssumption, LateInv, NEW w \in Workers, Work(w)
  PROVE  Forgotten(job[w])'
<1> PICK r : r = job[w] OBVIOUS
<1> PICK k : k = job'[w] OBVIOUS
<1>r. TypeInv /\ r \in Job /\ JobInv(r) /\ Forgotten(r) BY LateFacts
<1>s. slot \in [Uids -> [Names -> Bindings \cup {NoBinding}]] BY <1>r DEF TypeInv
<1>1. CASE ForgetCollected(w)
  <2>1. /\ r.at = "forget" /\ slot' = [slot EXCEPT ![r.uid][r.name] = NoBinding]
        /\ k = [r EXCEPT !.at = "closing", !.left = @ \ {r.name},
                  !.name = NoName, !.prev[r.name] = NoBinding]
    BY <1>1, <1>r, BecomesIs DEF ForgetCollected
  <2>2. k.uid = r.uid /\ k.errs = r.errs /\ k.left = r.left \ {r.name} /\ k.at = "closing"
    BY <1>r, <2>1 DEF Job
  <2>3. r.item.deleted /\ r.uid \in Uids BY <1>r, <2>1 DEF JobInv, Deleting
  <2>4. \A n \in Names : n = r.name => slot'[r.uid][n] = NoBinding BY <1>s, <2>1, <2>3
  <2>5. \A n \in Names : n # r.name => slot'[r.uid][n] = slot[r.uid][n] BY <1>s, <2>1, <2>3
  <2> QED BY <1>r, <2>1, <2>2, <2>3, <2>4, <2>5 DEF Forgotten
<1>2. CASE Collect(w)
  <2>1. /\ slot' = slot
        /\ k = [r EXCEPT !.at = "closing", !.prev = slot[r.uid],
                  !.left = {n \in Names : slot[r.uid][n] # NoBinding}]
    BY <1>2, <1>r, BecomesIs DEF Collect, memory
  <2>2. /\ k.uid = r.uid /\ k.at = "closing"
        /\ k.left = {n \in Names : slot[r.uid][n] # NoBinding}
    BY <1>r, <2>1 DEF Job
  <2> QED BY <2>1, <2>2 DEF Forgotten
<1>3. ASSUME NEW n \in Names, CloseCollected(w, n) PROVE Forgotten(job[w])'
  <2>1. /\ slot' = slot /\ r.at = "closing"
        /\ k = [r EXCEPT !.at = "forget", !.name = n]
    BY <1>3, <1>r, BecomesIs DEF CloseCollected, memory
  <2>2. /\ k.uid = r.uid /\ k.at = "forget" /\ k.left = r.left /\ k.errs = r.errs
        /\ k.item = r.item
    BY <1>r, <2>1 DEF Job
  <2> QED BY <1>r, <2>1, <2>2 DEF Forgotten
<1>4. ASSUME NEW n \in Names, CloseCollectedFails(w, n) PROVE Forgotten(job[w])'
  <2>1. k.errs
    BY <1>4, <1>r, FailsJob DEF CloseCollectedFails, Locked
  <2> QED BY <2>1 DEF Forgotten
<1>5. CASE DeleteReturns(w)
  <2>1. /\ slot' = slot /\ r.at = "closing" /\ r.left = {}
        /\ k = [r EXCEPT !.at = "done"]
    BY <1>5, <1>r, BecomesIs DEF DeleteReturns
  <2>2. k.uid = r.uid /\ k.at = "done" /\ k.errs = r.errs /\ k.item = r.item
    BY <1>r, <2>1 DEF Job
  <2> QED BY <1>r, <2>1, <2>2 DEF Forgotten
<1>6. CASE LookupLock(w) \/ AcquireLock(w)
  <2>1. \/ k = [r EXCEPT !.at = "lock", !.lock = epoch[r.uid]]
        \/ k = [r EXCEPT !.at = IF r.item.deleted THEN "collect" ELSE "scan"]
    BY <1>6, <1>r, BecomesIs DEF LookupLock, AcquireLock
  <2>2. k.at \in {"lock", "collect", "scan"} BY <1>r, <2>1 DEF Job
  <2> QED BY <2>2 DEF Forgotten
<1>7. CASE Get(w)
  <2>1. k.at \in {"lookup", "fetch"} BY <1>7, <1>r, GetJob
  <2> QED BY <2>1 DEF Forgotten
<1>8. CASE Fetch(w)
  <2>1. r.at = "fetch" /\ k.item = r.item BY <1>8, <1>r, FetchJob
  <2>2. ~k.item.deleted BY <1>r, <2>1 DEF JobInv
  <2> QED BY <2>2 DEF Forgotten
<1>9. CASE Finish(w)
  <2>1. k.at = "idle" BY <1>9, <1>r, FinishJob DEF Idle
  <2> QED BY <2>1 DEF Forgotten
<1>10. CASE \/ ClosePrevious(w) \/ ClosePreviousFails(w) \/ Bind(w) \/ BindFails(w)
            \/ StoreBinding(w) \/ UpsertReturns(w)
            \/ \E n \in Names : \/ SkipContainer(w, n) \/ ResolveContainer(w, n)
                                \/ ResolveFails(w, n)
  <2>1. r.at \in {"scan", "close", "bind", "store"}
    BY <1>10 DEF ClosePrevious, ClosePreviousFails, Bind, BindFails, StoreBinding,
       UpsertReturns, SkipContainer, ResolveContainer, ResolveFails
  <2>2. ~r.item.deleted BY <1>r, <2>1 DEF JobInv, Deleting
  <2>3. k.item = r.item BY <1>10, <1>r, InsideJob DEF Inside
  <2> QED BY <2>2, <2>3 DEF Forgotten
<1> QED BY <1>1, <1>2, <1>3, <1>4, <1>5, <1>6, <1>7, <1>8, <1>9, <1>10, WorkCases DEF Inside

(* While a worker is busy with other pods, no binding opens for pod u.      *)
LEMMA EndedStays ==
  ASSUME ScopesAssumption, LateInv, NEW w \in Workers, EngagedStep(w), Work(w),
         NEW u \in Uids, Ended(u)
  PROVE  Ended(u)'
<1>f. TypeInv /\ ScopeInv BY LateFacts
<1>1. /\ job[w].at \in Engaged /\ job'[w].uid = job[w].uid
      /\ \A v \in Workers \ {w} : job'[v] = job[v]
  BY <1>f, EngagedFrame
<1>2. job[w].uid # u BY <1>1 DEF Ended, Engaged, Locked
<1>3. \A v \in Workers : job'[v].uid = u => job'[v].at \in {"fetch", "done"}
  BY <1>1, <1>2 DEF Ended
<1>4. \A b \in open : b \in Bindings /\ scope[b] # NoScope /\ scope'[b] = scope[b]
  BY <1>f, WorkGrows DEF TypeInv, ScopeInv, Recognized
<1>5. \A b \in Bindings : Recorded(w, b) => scope'[b].uid = job[w].uid
  BY <1>f DEF Recorded, TypeInv
<1>6. \A b \in open' \ lost' : \/ b \in open \ lost
                               \/ b \in Bindings /\ Recorded(w, b)
  BY WorkEffects DEF ClosePrevious, CloseCollected
<1>7. \A b \in open' \ lost' : scope'[b].uid # u
  BY <1>2, <1>4, <1>5, <1>6 DEF Ended
<1> QED BY <1>3, <1>7 DEF Ended

(* A deletion that ends without an error leaves no binding of its pod open. *)
LEMMA DeletionEnds ==
  ASSUME ScopesAssumption, OnlyOne, LateInv, NEW w \in Workers, Finish(w), NEW u \in Uids,
         job[w].item = Deleted(u), ~job[w].errs
  PROVE  Ended(u)'
<1>f. TypeInv /\ JobInv(job[w]) /\ Forgotten(job[w]) /\ Tracked BY LateFacts DEF TrackInv
<1>1. /\ UNCHANGED <<cluster, dirty, memory, sink, lost, hidden>>
      /\ job[w].at = "done" /\ job'[w] = Idle
  BY <1>f, FinishJob
<1>2. \A n \in Names : slot[u][n] = NoBinding
  BY <1>1, <1>f DEF Forgotten, JobInv, Deleted
<1>3. ASSUME NEW b \in open \ lost, scope[b].uid = u PROVE FALSE
  <2>1. b \in Bindings /\ scope[b] \in Scopes
    BY <1>3, <1>f, ScopesAssumption DEF TypeInv, NoScope, ScopesAssumption
  <2>2. slot[u][scope[b].name] = NoBinding BY <1>2, <2>1 DEF Scopes
  <2>3. \A v \in Workers : job[v].at # "store" BY <1>1 DEF OnlyOne
  <2>4. slot[u][scope[b].name] = b BY <1>3, <1>f, <2>3 DEF Tracked
  <2> QED BY <2>1, <2>2, <2>4 DEF ScopesAssumption
<1>4. \A v \in Workers : job'[v].uid = NoPod BY <1>1 DEF OnlyOne, Idle
<1>5. u # NoPod BY DEF ScopesAssumption
<1> QED BY <1>1, <1>3, <1>4, <1>5 DEF Ended, sink

LEMMA GoneWork ==
  ASSUME ScopesAssumption, OnlyOne, LateInv, NEW w \in Workers, Work(w),
         NEW u \in seen' \ ({current'} \cup hidden')
  PROVE  Pending(u)' \/ Ended(u)'
<1>f. TypeInv /\ JobInv(job[w]) BY LateFacts
<1>1. CASE EngagedStep(w)
  <2>1. /\ current' = current /\ seen' = seen /\ hidden' = hidden /\ dirty' = dirty
        /\ processing' = processing /\ delayed' = delayed /\ gaveUp' = gaveUp
    BY <1>1, <1>f, EngagedFrame
  <2>2. u \in Uids BY <1>f, <2>1 DEF TypeInv
  <2> QED BY <1>1, <2>1, <2>2, EndedStays DEF LateInv, Pending
<1>2. CASE Get(w)
  <2>1. /\ current' = current /\ seen' = seen /\ hidden' = hidden /\ delayed' = delayed
        /\ gaveUp' = gaveUp /\ lost' = lost /\ scope' = scope /\ open' = open
        /\ \A v \in Workers \ {w} : job'[v] = job[v]
    BY <1>2, <1>f, GetJob DEF cluster, sink, history
  <2>2. PICK i \in dirty \ processing :
          /\ i \in Items /\ dirty' = dirty \ {i} /\ processing' = processing \cup {i}
          /\ job'[w].uid = i.uid /\ job'[w].at = IF i.deleted THEN "lookup" ELSE "fetch"
    BY <1>2, <1>f, GetJob
  <2>3. Pending(u) => Pending(u)' BY <2>1, <2>2 DEF Pending
  <2>4. CASE i = Deleted(u) BY <2>2, <2>4 DEF Pending
  <2>5. CASE i # Deleted(u) /\ Ended(u)
    <3>1. job'[w].uid = u => job'[w].at = "fetch" BY <2>2, <2>5, DeletedItem
    <3> QED BY <2>1, <2>5, <3>1 DEF Ended
  <2> QED BY <2>1, <2>3, <2>4, <2>5 DEF LateInv
<1>3. CASE Fetch(w)
  <2>1. /\ current' = current /\ seen' = seen /\ hidden' = hidden /\ delayed' = delayed
        /\ dirty' = dirty /\ processing' = processing
        /\ gaveUp' = gaveUp /\ lost' = lost /\ scope' = scope /\ open' = open
        /\ \A v \in Workers \ {w} : job'[v] = job[v]
        /\ job'[w].at = "done" \/ job'[w].uid = current
    BY <1>3, <1>f, FetchJob DEF cluster, queue, sink, history
  <2> QED BY <2>1 DEF LateInv, Pending, Ended
<1>4. CASE Finish(w)
  <2>1. /\ current' = current /\ seen' = seen /\ hidden' = hidden /\ dirty' = dirty
        /\ lost' = lost /\ scope' = scope /\ open' = open
        /\ processing' = processing \ {job[w].item} /\ job'[w] = Idle
        /\ \A v \in Workers \ {w} : job'[v] = job[v]
        /\ IF job[w].errs
           THEN \/ delayed' = delayed \cup {job[w].item} /\ gaveUp' = gaveUp
                \/ delayed' = delayed /\ gaveUp' = gaveUp \cup {job[w].item}
           ELSE delayed' = delayed /\ gaveUp' = gaveUp
    BY <1>4, <1>f, FinishJob DEF cluster, sink
  <2>2. u \in Uids /\ u # NoPod BY <1>f, <2>1, ScopesAssumption DEF TypeInv, ScopesAssumption
  <2>3. CASE job[w].item = Deleted(u) /\ ~job[w].errs
    BY <1>4, <2>2, <2>3, DeletionEnds
  <2>4. CASE Pending(u) /\ ~(job[w].item = Deleted(u) /\ ~job[w].errs)
    BY <2>1, <2>4 DEF Pending
  <2>5. CASE Ended(u) BY <2>1, <2>2, <2>5 DEF Ended, Idle
  <2> QED BY <2>1, <2>3, <2>4, <2>5 DEF LateInv
<1> QED BY <1>1, <1>2, <1>3, <1>4, WorkCases DEF EngagedStep

LEMMA LateStep ==
  ASSUME ScopesAssumption, OnlyOne, LateInv, [Next]_vars
  PROVE  LateInv'
<1>f. TypeInv BY LateFacts
<1>t. TrackInv'
  <2>1. AtMostTwo BY DEF OnlyOne, AtMostTwo
  <2> QED BY <2>1, TrackStep DEF LateInv
<1>1. CASE \E w \in Workers : Work(w)
  <2>1. PICK w \in Workers : Work(w) BY <1>1
  <2>2. \A v \in Workers : Forgotten(job[v])'
    <3>1. Forgotten(job[w])' BY <2>1, ForgottenWork
    <3> QED BY <3>1 DEF OnlyOne
  <2>3. \A u \in seen' \ ({current'} \cup hidden') : Pending(u)' \/ Ended(u)'
    BY <2>1, GoneWork
  <2> QED BY <1>t, <2>2, <2>3 DEF LateInv
<1>2. CASE Cluster
  <2>1. /\ job' = job /\ slot' = slot /\ scope' = scope /\ open' = open
        /\ processing' = processing /\ delayed' = delayed /\ lost' = lost /\ gaveUp' = gaveUp
    BY <1>2, ClusterFrame
  <2>2. \A w \in Workers : Forgotten(job[w])' BY <2>1 DEF LateInv, Forgotten
  <2>3. /\ dirty \subseteq dirty'
        /\ \A u \in seen' \ ({current'} \cup hidden') :
             u \in seen \ ({current} \cup hidden) \/ Deleted(u) \in dirty'
    <3>1. CASE PodDeleted BY <3>1 DEF PodDeleted, Add, history
    <3>2. ASSUME NEW u \in Uids, PodAdded(u)
          PROVE  /\ dirty \subseteq dirty' /\ hidden' = hidden /\ current = NoPod
                 /\ seen' = seen \cup {u} /\ current' = u
      BY <3>2 DEF PodAdded, Add, history
    <3>3. ASSUME NEW u \in Uids, PodReplaced(u)
          PROVE  /\ dirty \subseteq dirty' /\ hidden' = hidden \cup {current}
                 /\ seen' = seen \cup {u} /\ current' = u
      BY <3>3 DEF PodReplaced, Add
    <3>4. CASE \/ \E n \in Names : ContainerStarts(n)
               \/ \E u \in Uids, n \in Names : ContainerExits(u, n)
      <4>1. dirty \subseteq dirty' /\ hidden' = hidden /\ seen' = seen /\ current' = current
        BY <3>4 DEF ContainerStarts, ContainerExits, Add, queue, history
      <4> QED BY <4>1
    <3>5. NoPod \notin seen BY <1>f, ScopesAssumption DEF TypeInv, ScopesAssumption
    <3> QED BY <1>2, <3>1, <3>2, <3>3, <3>4, <3>5 DEF Cluster
  <2>4. \A u \in seen' \ ({current'} \cup hidden') : Pending(u)' \/ Ended(u)'
    BY <2>1, <2>3 DEF LateInv, Pending, Ended
  <2> QED BY <1>t, <2>2, <2>4 DEF LateInv
<1>3. CASE Restart
  <2>1. /\ \A w \in Workers : job'[w] = Idle
        /\ open' = open /\ lost' = lost \cup open /\ seen' = seen
    BY <1>3 DEF Restart, sink
  <2>2. \A u \in seen : u # NoPod BY <1>f DEF TypeInv, ScopesAssumption
  <2>3. \A w \in Workers : Forgotten(job[w])' BY <2>1 DEF Forgotten, Idle
  <2>4. \A u \in seen' : Ended(u)' BY <2>1, <2>2 DEF Ended, Idle
  <2> QED BY <1>t, <2>3, <2>4 DEF LateInv
<1>4. CASE UNCHANGED vars \/ \E i \in Items : Redeliver(i)
  <2>1. /\ UNCHANGED <<job, slot, scope, open, lost, gaveUp, processing, current, seen, hidden>>
        /\ dirty \cup delayed \subseteq dirty' \cup delayed'
    BY <1>4 DEF vars, Redeliver, cluster, queue, memory, sink, history
  <2> QED BY <1>t, <2>1 DEF LateInv, Forgotten, Pending, Ended
<1> QED BY <1>1, <1>2, <1>3, <1>4 DEF Next

LEMMA SingleWorker ==
  ASSUME ScopesAssumption, Cardinality(Workers) <= 1
  PROVE  OnlyOne
<1> SUFFICES ASSUME NEW v \in Workers, NEW w \in Workers, v # w PROVE FALSE
  BY DEF OnlyOne
<1>1. IsFiniteSet({v}) /\ Cardinality({v}) = 1 BY FS_Singleton
<1>2. Cardinality({v} \cup {w}) = 2
  <2>1. w \notin {v} /\ 1 + 1 = 2 OBVIOUS
  <2> QED BY <1>1, <2>1, FS_AddElement
<1>3. Cardinality({v} \cup {w}) <= Cardinality(Workers)
  BY FS_Subset DEF ScopesAssumption
<1>4. Cardinality(Workers) \in Nat BY FS_CardinalityType DEF ScopesAssumption
<1> QED BY <1>2, <1>3, <1>4

(* With one worker a deleted pod keeps no open binding once its events are  *)
(* worked off, unless the retry budget of its deletion ran out, a watch gap *)
(* hid the deletion or the binding was lost.  With two workers a deletion   *)
(* can overtake the update that came before it, and this is false.          *)
THEOREM DeletedPodsAreClosed ==
  ASSUME Cardinality(Workers) <= 1
  PROVE  Spec => []ClosedOnDelete
<1>0. OnlyOne BY SingleWorker, ScopesAssumption
<1>1. Init => LateInv
  <2> SUFFICES ASSUME Init PROVE LateInv OBVIOUS
  <2>1. LockInv BY InitScope DEF Init, LockInv, BelowEpoch, MutexExcludes, Idle, Locked
  <2>2. Holds(Idle) BY DEF Holds, Idle, Replacing
  <2>3. TrackInv BY <2>1, <2>2 DEF Init, TrackInv, Tracked
  <2>4. Forgotten(Idle) BY DEF Forgotten, Idle
  <2> QED BY <2>3, <2>4 DEF Init, LateInv
<1>2. LateInv /\ [Next]_vars => LateInv' BY <1>0, ScopesAssumption, LateStep
<1>3. LateInv => ClosedOnDelete
  <2>1. \A u : Deleted(u).uid = u BY DEF Deleted
  <2> QED BY <2>1 DEF LateInv, Pending, Ended, ClosedOnDelete, Quiet
<1> QED BY <1>1, <1>2, <1>3, PTL DEF Spec
=============================================================================
