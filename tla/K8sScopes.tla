----------------------------- MODULE K8sScopes -----------------------------
(***************************************************************************)
(* The Kubernetes attribution controller: the informer handlers, the rate  *)
(* limited work queue and the workers of internal/producer/k8sinformer/    *)
(* controller.go, the ScopeReconciler of reconciler.go, and the resolver   *)
(* and sink that internal/cli/sandbox_informer_cmd.go plugs into it.       *)
(*                                                                         *)
(* The model follows the pods that succeed each other under one namespace  *)
(* and name: they share the cache entry, while every map of the reconciler *)
(* is keyed by uid, so pods of different names meet nowhere but in the     *)
(* number of workers.  Pods without a uid or node and pods that ask to be  *)
(* ignored never reach a binding and are left out.                         *)
(*                                                                         *)
(* Container ids are numbered in the order in which the containers start;  *)
(* 0 is an empty ContainerID.  A step is a call other workers can run      *)
(* before or after.                                                        *)
(***************************************************************************)
EXTENDS Integers, FiniteSets

CONSTANTS
  Workers,      \* --workers
  Uids,         \* uids of the pods that live under the name, one after another
  NoPod,        \* no pod
  Names,        \* container names of a pod
  NoName,       \* no container
  Bindings,     \* binding ids (RecordBinding never repeats one)
  NoBinding,    \* no binding
  MaxRetries,   \* --max-retries
  MaxStarts,    \* bound on container starts
  MaxFaults,    \* bound on failing calls
  MaxRelists,   \* bound on watch gaps that hide a deletion
  MaxRestarts   \* bound on restarts of the controller

ASSUME ScopesAssumption ==
  /\ IsFiniteSet(Workers) /\ Workers # {}
  /\ NoPod \notin Uids /\ NoName \notin Names /\ NoBinding \notin Bindings
  /\ MaxRetries \in Nat \ {0}
  /\ MaxStarts \in Nat /\ MaxFaults \in Nat
  /\ MaxRelists \in Nat /\ MaxRestarts \in Nat

VARIABLES
  current,      \* the pod in the informer's cache
  seen,         \* uids the cluster has used
  starts,       \* containers started so far
  id,           \* ContainerStatuses: the id of each container
  alive,        \* containers that have a process on the node
  dirty,        \* items added and not yet handed to a worker
  processing,   \* items workers have got and are not done with
  delayed,      \* items AddRateLimited holds back
  requeues,     \* NumRequeues
  slot,         \* ScopeReconciler.bindings
  epoch,        \* how often podLocks[uid] was deleted: names the lock object
  scope,        \* execution_context_bindings: what a binding is for
  open,         \* bindings whose ended_at is empty
  job,          \* what a worker is doing
  faults,       \* failing calls, relists and restarts so far
  relists,
  restarts,
  gaveUp,       \* history: items whose retry budget was exhausted
  lost,         \* history: bindings the reconciler cannot know of
  hidden        \* history: pods whose deletion a watch gap hid

cluster == <<current, seen, starts, id, alive>>
queue == <<dirty, processing, delayed, requeues>>
memory == <<slot, epoch>>
sink == <<scope, open>>
bounds == <<faults, relists, restarts>>
history == <<gaveUp, lost, hidden>>
vars == <<cluster, queue, memory, sink, job, bounds, history>>

(* queueItem: its Key is the one name, so the uid and the flag are left. *)
Items == [uid : Uids, deleted : BOOLEAN]
Scopes == [uid : Uids, name : Names, id : 1..MaxStarts]
NoScope == [uid |-> NoPod, name |-> NoName, id |-> 0]
NoItem == [uid |-> NoPod, deleted |-> FALSE]

Unbound == [n \in Names |-> NoBinding]
NoContainers == [n \in Names |-> 0]
Idle ==
  [at |-> "idle", item |-> NoItem, uid |-> NoPod, status |-> NoContainers,
   left |-> {}, prev |-> Unbound, name |-> NoName, made |-> NoBinding,
   errs |-> FALSE, lock |-> 0]

Steps == {"idle", "fetch", "lookup", "lock", "scan", "close", "bind", "store",
          "collect", "closing", "forget", "done"}
(* Steps taken while the pod's mutex is held. *)
Locked == {"scan", "close", "bind", "store", "collect", "closing", "forget"}

-----------------------------------------------------------------------------
Init ==
  /\ current = NoPod /\ seen = {} /\ alive = {}
  /\ starts = 0 /\ id = [u \in Uids |-> NoContainers]
  /\ dirty = {} /\ processing = {} /\ delayed = {}
  /\ requeues = [i \in Items |-> 0]
  /\ slot = [u \in Uids |-> Unbound]
  /\ epoch = [u \in Uids |-> 0]
  /\ scope = [b \in Bindings |-> NoScope] /\ open = {}
  /\ job = [w \in Workers |-> Idle]
  /\ faults = 0 /\ relists = 0 /\ restarts = 0
  /\ gaveUp = {} /\ lost = {} /\ hidden = {}

-----------------------------------------------------------------------------
(* The cluster, as the informer reports it.  A handler adds to the queue;  *)
(* the delay between the cache and the handler is not told apart from the  *)
(* time an item waits in the queue.  An Update that carries no new         *)
(* ResourceVersion (a resync) returns without a trace.                     *)
Upserted(u) == [uid |-> u, deleted |-> FALSE]
Deleted(u) == [uid |-> u, deleted |-> TRUE]

(* Definitions named Variant... are the model with one plausible defect in *)
(* it; no action uses them.  They show that the properties are sensitive.  *)
VariantAdd(item) ==
  /\ dirty' = IF item \in processing THEN dirty ELSE dirty \cup {item}
  /\ UNCHANGED <<processing, delayed, requeues>>

(* queue.Add: the queue is a set, and an item that is being processed is   *)
(* not handed out again before Done.  It is FIFO in the library; any order *)
(* is allowed here, as delayed items and several workers undo the order.   *)
Add(item) ==
  /\ dirty' = dirty \cup {item}
  /\ UNCHANGED <<processing, delayed, requeues>>

PodAdded(u) ==
  /\ current = NoPod /\ u \notin seen
  /\ current' = u /\ seen' = seen \cup {u}
  /\ Add(Upserted(u))
  /\ UNCHANGED <<starts, id, alive, memory, sink, job, bounds, history>>

ContainerStarts(n) ==
  /\ current # NoPod /\ <<current, n>> \notin alive
  /\ starts < MaxStarts /\ starts' = starts + 1
  /\ id' = [id EXCEPT ![current][n] = starts + 1]
  /\ alive' = alive \cup {<<current, n>>}
  /\ Add(Upserted(current))
  /\ UNCHANGED <<current, seen, memory, sink, job, bounds, history>>

(* The status of a container that ended keeps its ContainerID. *)
ContainerExits(u, n) ==
  /\ <<u, n>> \in alive
  /\ alive' = alive \ {<<u, n>>}
  /\ IF u = current THEN Add(Upserted(u)) ELSE UNCHANGED queue
  /\ UNCHANGED <<current, seen, starts, id, memory, sink, job, bounds, history>>

(* The containers of a pod deleted by force run on for a while. *)
PodDeleted ==
  /\ current # NoPod
  /\ current' = NoPod
  /\ Add(Deleted(current))
  /\ UNCHANGED <<seen, starts, id, alive, memory, sink, job, bounds, history>>

(* A watch gap hides that a pod was deleted and another one took its name: *)
(* the relist finds the key in the cache and calls UpdateFunc with the old *)
(* and the new pod; DeleteFunc is not called.                              *)
PodReplaced(v) ==
  /\ current # NoPod /\ v \notin seen
  /\ relists < MaxRelists
  /\ relists' = relists + 1
  /\ current' = v /\ seen' = seen \cup {v} /\ hidden' = hidden \cup {current}
  /\ Add(Upserted(v))
  /\ UNCHANGED <<starts, id, alive, memory, sink, job, faults, restarts, gaveUp, lost>>

-----------------------------------------------------------------------------
Fault == faults < MaxFaults /\ faults' = faults + 1 /\ UNCHANGED <<relists, restarts>>

Becomes(w, j) == job' = [job EXCEPT ![w] = j]

(* processNext: queue.Get. *)
Get(w) ==
  /\ job[w].at = "idle"
  /\ \E i \in dirty \ processing :
       /\ dirty' = dirty \ {i} /\ processing' = processing \cup {i}
       /\ Becomes(w, [Idle EXCEPT !.item = i, !.uid = i.uid,
                        !.at = IF i.deleted THEN "lookup" ELSE "fetch"])
  /\ UNCHANGED <<cluster, delayed, requeues, memory, sink, bounds, history>>

(* reconcile: GetByKey and DeepCopy.  The cache is asked for the name, and *)
(* may answer with a pod of another uid than the item's.                   *)
Fetch(w) ==
  /\ job[w].at = "fetch"
  /\ IF current = NoPod
     THEN Becomes(w, [job[w] EXCEPT !.at = "done"])
     ELSE Becomes(w, [job[w] EXCEPT !.at = "lookup", !.uid = current,
                        !.status = id[current], !.left = Names])
  /\ UNCHANGED <<cluster, queue, memory, sink, bounds, history>>

(* lockPod finds or makes the mutex under r.mu ... *)
LookupLock(w) ==
  /\ job[w].at = "lookup"
  /\ Becomes(w, [job[w] EXCEPT !.at = "lock", !.lock = epoch[job[w].uid]])
  /\ UNCHANGED <<cluster, queue, memory, sink, bounds, history>>

VariantAcquireLock(w) ==
  /\ job[w].at = "lock"
  /\ Becomes(w, [job[w] EXCEPT !.at =
                   IF job[w].item.deleted THEN "collect" ELSE "scan"])
  /\ UNCHANGED <<cluster, queue, memory, sink, bounds, history>>

(* ... and locks it after releasing r.mu. *)
AcquireLock(w) ==
  /\ job[w].at = "lock"
  /\ ~\E v \in Workers \ {w} :
        /\ job[v].at \in Locked
        /\ job[v].uid = job[w].uid /\ job[v].lock = job[w].lock
  /\ Becomes(w, [job[w] EXCEPT !.at =
                   IF job[w].item.deleted THEN "collect" ELSE "scan"])
  /\ UNCHANGED <<cluster, queue, memory, sink, bounds, history>>

-----------------------------------------------------------------------------
VariantSettled(w, n) ==
  job[w].status[n] = 0 \/ slot[job[w].uid][n] # NoBinding

(* Upsert, under the pod's mutex: each container status in turn. *)
Settled(w, n) ==
  LET j == job[w]
      b == slot[j.uid][n]
  IN  \/ j.status[n] = 0
      \/ b # NoBinding /\ scope[b].id = j.status[n]

(* An empty container id, or the container the binding is for already. *)
SkipContainer(w, n) ==
  /\ job[w].at = "scan" /\ n \in job[w].left
  /\ Settled(w, n)
  /\ Becomes(w, [job[w] EXCEPT !.left = @ \ {n}])
  /\ UNCHANGED <<cluster, queue, memory, sink, bounds, history>>

VariantResolvable(w, n) == <<job[w].uid, n>> \in alive

(* Resolve finds the cgroup and a process of this very container: a stale  *)
(* status names a container that has none any more.                        *)
Resolvable(w, n) ==
  <<job[w].uid, n>> \in alive /\ id[job[w].uid][n] = job[w].status[n]

ResolveContainer(w, n) ==
  /\ job[w].at = "scan" /\ n \in job[w].left
  /\ ~Settled(w, n) /\ Resolvable(w, n)
  /\ LET previous == slot[job[w].uid][n]
     IN  Becomes(w, [job[w] EXCEPT !.name = n, !.prev[n] = previous,
                       !.at = IF previous = NoBinding THEN "bind" ELSE "close"])
  /\ UNCHANGED <<cluster, queue, memory, sink, bounds, history>>

VariantContainerFails(w, n) ==
  Becomes(w, [job[w] EXCEPT !.at = IF @ = "closing" THEN "closing" ELSE "scan",
                !.left = @ \ {n}, !.name = NoName, !.prev[n] = NoBinding])

(* An error for one container: noted, and on to the next. *)
ContainerFails(w, n) ==
  Becomes(w, [job[w] EXCEPT !.at = IF @ = "closing" THEN "closing" ELSE "scan",
                !.left = @ \ {n}, !.name = NoName, !.prev[n] = NoBinding,
                !.errs = TRUE])

(* No cgroup or no process; the cgroup cache may also be up to a second    *)
(* behind, or a read of /proc fail.                                        *)
ResolveFails(w, n) ==
  /\ job[w].at = "scan" /\ n \in job[w].left
  /\ ~Settled(w, n)
  /\ IF Resolvable(w, n) THEN Fault ELSE UNCHANGED bounds
  /\ ContainerFails(w, n)
  /\ UNCHANGED <<cluster, queue, memory, sink, history>>

VariantClosePrevious(w) ==
  /\ job[w].at = "close"
  /\ Becomes(w, [job[w] EXCEPT !.at = "bind"])
  /\ UNCHANGED <<cluster, queue, memory, sink, bounds, history>>

(* Sink.Close: UPDATE ... WHERE id = ? AND ended_at = ''. *)
ClosePrevious(w) ==
  /\ job[w].at = "close"
  /\ open' = open \ {job[w].prev[job[w].name]}
  /\ Becomes(w, [job[w] EXCEPT !.at = "bind"])
  /\ UNCHANGED <<cluster, queue, memory, scope, bounds, history>>

ClosePreviousFails(w) ==
  /\ job[w].at = "close"
  /\ Fault
  /\ ContainerFails(w, job[w].name)
  /\ UNCHANGED <<cluster, queue, memory, sink, history>>

(* RecordBinding draws a fresh id; which of the unused ones is immaterial. *)
Recorded(w, b) ==
  /\ scope[b] = NoScope
  /\ b = CHOOSE fresh \in Bindings : scope[fresh] = NoScope
  /\ scope' = [scope EXCEPT ![b] = [uid |-> job[w].uid, name |-> job[w].name,
                                    id |-> job[w].status[job[w].name]]]

(* Sink.Bind: RecordBinding and the pod metadata event. *)
Bind(w) ==
  /\ job[w].at = "bind"
  /\ \E b \in Bindings :
       /\ Recorded(w, b) /\ open' = open \cup {b}
       /\ Becomes(w, [job[w] EXCEPT !.at = "store", !.made = b])
  /\ UNCHANGED <<cluster, queue, memory, bounds, history>>

(* RecordBinding fails; or the metadata event does and the new binding is  *)
(* closed again; or that fails as well, which nobody looks at.             *)
BindFails(w) ==
  /\ job[w].at = "bind"
  /\ Fault
  /\ \/ UNCHANGED <<sink, lost>>
     \/ \E b \in Bindings :
          /\ Recorded(w, b)
          /\ \/ UNCHANGED <<open, lost>>
             \/ open' = open \cup {b} /\ lost' = lost \cup {b}
  /\ ContainerFails(w, job[w].name)
  /\ UNCHANGED <<cluster, queue, memory, gaveUp, hidden>>

(* r.bindings[key] = ... *)
StoreBinding(w) ==
  /\ job[w].at = "store"
  /\ LET n == job[w].name
     IN  /\ slot' = [slot EXCEPT ![job[w].uid][n] = job[w].made]
         /\ Becomes(w, [job[w] EXCEPT !.at = "scan", !.left = @ \ {n},
                          !.name = NoName, !.prev[n] = NoBinding,
                          !.made = NoBinding])
  /\ UNCHANGED <<cluster, queue, epoch, sink, bounds, history>>

UpsertReturns(w) ==
  /\ job[w].at = "scan" /\ job[w].left = {}
  /\ Becomes(w, [job[w] EXCEPT !.at = "done"])
  /\ UNCHANGED <<cluster, queue, memory, sink, bounds, history>>

-----------------------------------------------------------------------------
(* Delete, under the pod's mutex: the pod's bindings are read once. *)
Collect(w) ==
  /\ job[w].at = "collect"
  /\ LET bindings == slot[job[w].uid]
     IN  Becomes(w, [job[w] EXCEPT !.at = "closing", !.prev = bindings,
                       !.left = {n \in Names : bindings[n] # NoBinding}])
  /\ UNCHANGED <<cluster, queue, memory, sink, bounds, history>>

CloseCollected(w, n) ==
  /\ job[w].at = "closing" /\ n \in job[w].left
  /\ open' = open \ {job[w].prev[n]}
  /\ Becomes(w, [job[w] EXCEPT !.at = "forget", !.name = n])
  /\ UNCHANGED <<cluster, queue, memory, scope, bounds, history>>

CloseCollectedFails(w, n) ==
  /\ job[w].at = "closing" /\ n \in job[w].left
  /\ Fault
  /\ ContainerFails(w, n)
  /\ UNCHANGED <<cluster, queue, memory, sink, history>>

(* delete(r.bindings, key) *)
ForgetCollected(w) ==
  /\ job[w].at = "forget"
  /\ LET n == job[w].name
     IN  /\ slot' = [slot EXCEPT ![job[w].uid][n] = NoBinding]
         /\ Becomes(w, [job[w] EXCEPT !.at = "closing", !.left = @ \ {n},
                          !.name = NoName, !.prev[n] = NoBinding])
  /\ UNCHANGED <<cluster, queue, epoch, sink, bounds, history>>

(* When all went well the mutex leaves the map while it is still held, and *)
(* whoever waits for it goes on with a mutex nobody else can find.         *)
DeleteReturns(w) ==
  /\ job[w].at = "closing" /\ job[w].left = {}
  /\ epoch' = [epoch EXCEPT ![job[w].uid] = IF job[w].errs THEN @ ELSE @ + 1]
  /\ Becomes(w, [job[w] EXCEPT !.at = "done"])
  /\ UNCHANGED <<cluster, queue, slot, sink, bounds, history>>

-----------------------------------------------------------------------------
(* processNext: Forget or AddRateLimited, then Done. *)
Finish(w) ==
  /\ job[w].at = "done"
  /\ LET i == job[w].item
         retry == job[w].errs /\ requeues[i] < MaxRetries
     IN  /\ requeues' = [requeues EXCEPT ![i] = IF retry THEN @ + 1 ELSE 0]
         /\ delayed' = IF retry THEN delayed \cup {i} ELSE delayed
         /\ gaveUp' = IF job[w].errs /\ ~retry THEN gaveUp \cup {i} ELSE gaveUp
         /\ processing' = processing \ {i}
  /\ Becomes(w, Idle)
  /\ UNCHANGED <<cluster, dirty, memory, sink, bounds, lost, hidden>>

(* The delay of AddRateLimited is over. *)
Redeliver(i) ==
  /\ i \in delayed
  /\ delayed' = delayed \ {i} /\ dirty' = dirty \cup {i}
  /\ UNCHANGED <<cluster, processing, requeues, memory, sink, job, bounds, history>>

(* The controller dies and starts again: queue and memory are empty, the   *)
(* store is as it was, and the first list adds the pod, if it still lives. *)
Restart ==
  /\ restarts < MaxRestarts
  /\ restarts' = restarts + 1
  /\ current' \in {current, NoPod}
  /\ dirty' = {Upserted(u) : u \in {current'} \ {NoPod}}
  /\ processing' = {} /\ delayed' = {}
  /\ requeues' = [i \in Items |-> 0]
  /\ slot' = [u \in Uids |-> Unbound] /\ epoch' = [u \in Uids |-> 0]
  /\ job' = [w \in Workers |-> Idle]
  /\ lost' = lost \cup open /\ gaveUp' = {}
  /\ UNCHANGED <<seen, starts, id, alive, sink, faults, relists, hidden>>

-----------------------------------------------------------------------------
Cluster ==
  \/ \E u \in Uids : PodAdded(u) \/ PodReplaced(u)
  \/ \E n \in Names : ContainerStarts(n)
  \/ \E u \in Uids, n \in Names : ContainerExits(u, n)
  \/ PodDeleted

Upsert(w) ==
  \/ Fetch(w) \/ ClosePrevious(w) \/ ClosePreviousFails(w) \/ Bind(w)
  \/ BindFails(w) \/ StoreBinding(w) \/ UpsertReturns(w)
  \/ \E n \in Names : SkipContainer(w, n) \/ ResolveContainer(w, n) \/ ResolveFails(w, n)

Delete(w) ==
  \/ Collect(w) \/ ForgetCollected(w) \/ DeleteReturns(w)
  \/ \E n \in Names : CloseCollected(w, n) \/ CloseCollectedFails(w, n)

Work(w) ==
  \/ Get(w) \/ LookupLock(w) \/ AcquireLock(w) \/ Upsert(w) \/ Delete(w) \/ Finish(w)

Next ==
  \/ Cluster \/ Restart
  \/ \E w \in Workers : Work(w)
  \/ \E i \in Items : Redeliver(i)

Spec == Init /\ [][Next]_vars

(* The workers' goroutines run, and the timers of delayed items fire. *)
FairSpec ==
  /\ Spec
  /\ \A w \in Workers : WF_vars(Work(w))
  /\ \A i \in Items : WF_vars(Redeliver(i))

-----------------------------------------------------------------------------
(* Two workers are never inside Upsert or Delete for the same pod, although *)
(* Delete takes the pod's mutex out of the map before it unlocks it.        *)
PodExclusive ==
  \A v, w \in Workers :
    job[v].at \in Locked /\ job[w].at \in Locked /\ job[v].uid = job[w].uid => v = w

(* Every open binding is in the reconciler's map, or is about to be put     *)
(* there: a binding the map has lost track of can never be closed again.    *)
Tracked ==
  \A b \in open \ lost :
    \/ slot[scope[b].uid][scope[b].name] = b
    \/ \E w \in Workers : job[w].at = "store" /\ job[w].made = b

(* "creates one passive cgroup binding per running container": never two    *)
(* open bindings for one container of a pod, through restarts of the        *)
(* container, partial failures and retries.                                 *)
OnePerContainer ==
  \A b, c \in open \ lost :
    scope[b].uid = scope[c].uid /\ scope[b].name = scope[c].name => b = c

(* Nothing that concerns pod u is queued, delayed or being worked on. *)
Quiet(u) ==
  /\ \A i \in dirty \cup processing \cup delayed : i.uid # u
  /\ \A w \in Workers : job[w].uid # u

(* "closes all pod bindings on deletion": once the events of a deleted pod  *)
(* are worked off, none of its bindings is open, unless a retry budget ran  *)
(* out, a watch gap hid the deletion or the binding was lost.               *)
ClosedOnDelete ==
  \A u \in seen \ ({current} \cup hidden) :
    Quiet(u) /\ Deleted(u) \notin gaveUp =>
      \A b \in open \ lost : scope[b].uid # u

(* Once the events of a living pod are worked off, each of its containers   *)
(* has an open binding, and it is for the container that runs now and not   *)
(* for the one it replaced: a status read before a restart, and worked on   *)
(* after it, does no harm.                                                  *)
Attributed ==
  \A u \in {current} \ {NoPod} :
    Quiet(u) /\ Upserted(u) \notin gaveUp =>
      \A n \in Names :
        id[u][n] > 0 =>
          \E b \in open : scope[b] = [uid |-> u, name |-> n, id |-> id[u][n]]

(* No step closes the binding of a container that is the current one of a   *)
(* living pod: telemetry of a running container never loses its scope.      *)
CurrentScopeStays ==
  [][\A b \in open :
       scope[b].uid = current /\ id[current][scope[b].name] = scope[b].id =>
         b \in open' \/ current' # current]_vars

(* The bindings of a pod that is gone are eventually closed, whatever calls *)
(* fail on the way, or the retry budget of the deletion runs out.           *)
EventuallyClosed ==
  \A u \in Uids :
    (u \in seen /\ u # current) ~>
      u \in hidden \/ Deleted(u) \in gaveUp \/ \A b \in open \ lost : scope[b].uid # u

(* A container that keeps running gets its binding, or the retry budget of  *)
(* its pod runs out.                                                        *)
EventuallyBound ==
  \A u \in Uids, n \in Names :
    <<u, n>> \in alive /\ u = current ~>
      \/ <<u, n>> \notin alive \/ u # current \/ Upserted(u) \in gaveUp
      \/ \E b \in open : scope[b] = [uid |-> u, name |-> n, id |-> id[u][n]]
=============================================================================
