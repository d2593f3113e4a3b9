# Verification of agentprovenance

TLA+ models, TLC runs and TLAPS proofs for the Go program in `src/`: a local
recorder of what AI agents do. It takes in runtime telemetry (Falco, an eBPF
sensor, hooks of agent tools), attributes it to runs, sessions and processes,
runs commands in sandboxed sessions, evaluates a security policy on what it saw
and exports evidence of it. State lives in one SQLite database and some
directories beside it (the *data dir*); a local daemon, a Kubernetes controller
and the command line all write there, each from its own process.

Paths below are relative to `src/internal/` unless they start with another
directory of the repository.

## 1. Inventory

What each part keeps, what it does, and what makes it hard. The last column is
what must be true of it; names in `code font` there are properties of a module.

| part | state | operations | hard behaviour | must be true |
|---|---|---|---|---|
| **telemetry spool** `telemetry/spool.go` | rows `telemetry_spool_batches`, a file per batch | `Enqueue` (admission, drop_oldest, copy, insert), `Process` (claim, ingest, settle) | no transaction spans file and row; a source that grows while it is copied; crashes; two daemons on one data dir; ignored errors of the final UPDATEs | a queued batch has its file, bounds hold, batches are ingested oldest first, at most once, and settle |
| **daemon** `daemon/server.go`, `lock.go`, `client.go` | `writeMu`, lock file, tickers of four workers | HTTP handlers; spool worker; resource sampler, evidence and GC workers | spool worker and most writing handlers hold `writeMu`, an exec only for parts, sampler, evidence and GC worker never; the lock file is overwritten unconditionally | handlers that share rows exclude each other where the code relies on it; nobody waits for ever |
| **Kubernetes controller** `producer/k8sinformer` | work queue, map of open bindings, mutex per pod | informer events, `Upsert`, `Delete`, retries | pod copies that are stale when used, retries, events of one pod on two workers, watch gaps, restart | at most one open binding per container, right container, closed when the pod is gone |
| **correlation** `correlation/binding.go` | `execution_context_bindings` | record, close (by id, by pid), resolve by process, cgroup, container, pid | reused pids and cgroups, bindings nobody closed, late events, tiers of different confidence | an event is attributed to what ran then, or to nothing |
| **ingest** `telemetry/service.go`, `jsonl.go`, `windows.go`, `retention.go`, `producer_health.go` | `events`, `event_windows`, causality edges, counters | batch ingest in one transaction, window rebuild, pruning, health | windows rebuilt after the commit; pruning checks and deletes in different statements; duplicates | windows agree with the events; pruning removes nothing still needed |
| **control** `control/service.go`, `task.go` | `sessions`, `processes`, bindings, CPU weight of containers, leases | create, exec, stop, remove, resume, CPU profile | exec reads the session before it takes the mutex and runs its command without it; docker and rows change apart | rows agree with docker; no container is forgotten; each exec is settled |
| **security** `security/policy.go` | decision, risk signal, unified signal, response action, edges, cost sample | evaluate, persist, reevaluate a run | nine rows in no transaction with ignored errors; several processes evaluate and reevaluate one run | a decision has all that hangs on it; reevaluation is idempotent and `graph verify` stays green |
| **snapshots** `substrate/state/snapshot.go` | `snapshots`, `snapshot_edges`, fork budgets | take, plan, resume, fork, stack, delete, taint | taint races with resume; the budget is checked before it is spent | nothing tainted is resumed; taint reaches descendants; the budget holds |
| **node runtime** `substrate/node`, `substrate/runtime` | containers in docker | create, exec, weight, stop, remove | every call can be refused | (part of control) |
| **evidence** `evidence/*.go` | `evidence_events`, manifests, blobs | worker pass, GC, manifest | passes overlap, are cut off, and run without `writeMu`; errors of the edges are dropped | a processed row has its edges, also where it is exported to |
| **provenance** `provenance/objects.go`, `gitlike.go`, `verify.go` | content-addressed objects, commits, refs | materialize a run, commit, verify, diff | a pass reads table after table while others write; an object is never replaced when its row changes | an object names all its parents; a complete run verifies and goes on verifying |
| **forensics** `forensics/*.go` | bundles | export, import | export is nineteen SELECTs; import verifies, commits rows, then restores files one by one; large content stays behind | a replayed run verifies as it does at home |
| **recording** `record/service.go` | a recorded process, its binding, samples, some forty rows | `record run` | rows in no transaction, most errors dropped; descendants that outlive the root; a binding that outlives the process | no row names a missing one; bindings are closed, orphans are explained |
| **launch and host sensor** `launch/*.go` | one sensor process for the command it wraps | start, wait for its banner, stop, seal | the banner races an early exit and a limit of 3 s; a stop that takes more than 5 s is a kill, which loses what was not flushed | what the sensor saw is stored before the run is sealed |
| **TLS intent** `tlsintent/*.go` | buffers per connection | feed fragments, HTTP/1 and HTTP/2 framing | fragments in any split, bounds on buffers | the result does not depend on the split |
| **port proxy** `ports/proxy.go` | rows `ports`, a process each | expose, close | a port found free is bound later, by another process; a row stays `running` when its process dies | a row says what its process does |
| **store** `store/store.go` | schema | open, migrate | - | gives the unit of atomicity of every model |

The rest is without state of its own or outside what model checking says
something about: read-only projections and reports (`provenance` read side,
`observability`, `compliance`, `baseline`, `dashboard`), parsers and format
adapters (`intent`, `hooksbridge`, `effects`, `adapter`, `aitools`,
`computerapi`), hashing and redaction (`attest`, `redact`, `ids`), command line
glue (`cli`, `mcpserver`), the kernel program of the sensor, manifests and
scripts. `PROJECT.json` lists each of them with the reason.

### How the parts interact

* **Spool -> ingest -> security.** The daemon's handler `ingestFalco` queues a
  file when asked to; the spool worker later ingests it in one transaction and
  evaluates the policy on the new events one by one.
* **Security -> control, snapshots.** A verdict of quarantine or kill writes the
  status of the session and of the process and taints the session's snapshots;
  telemetry that says a snapshot is tainted marks its descendants too.
* **Control, recording, Kubernetes controller -> correlation -> ingest.** They
  open and close the bindings with which ingest attributes events.
* **Recording, evidence worker, materialize -> verify, export -> import.** What a
  recording leaves in the store is linked by the daemon's evidence worker, turned
  into objects by `graph materialize`, checked by `graph verify`, and carried to
  another host by `forensics export` and `import`; each is a process of its own.
* **Control -> snapshots -> control.** Sessions are resumed from snapshots.
* **Mutual exclusion.** Inside one daemon it is `Server.writeMu`; between
  processes there is only SQLite's own locking of a statement or transaction.

The hazards that follow from this are in `PROJECT.json`, each with the line at
which it bites and the properties that would show it.

## 2. Modules

| module | what | built on |
|---|---|---|
| `Spool` | the telemetry spool, statement by statement | - |
| `BoundedFifo` | what the spool promises: a bounded FIFO queue | - |
| `SpoolFifo` | the refinement mapping between the two | `Spool`, `BoundedFifo` |
| `SpoolProofs` | theorems about `Spool` and the refinement, and facts about sums over finite sets and sets listed in the order of a number | `SpoolFifo` |
| `K8sScopes` | the Kubernetes attribution controller | - |
| `K8sProofs` | theorems about `K8sScopes` | `K8sScopes` |
| `Sessions` | sessions, containers, execs, snapshots, verdicts, taints | - |
| `SessionsProofs` | theorems about `Sessions` | `Sessions` |
| `PolicyLayer` | the rows of policy decisions and their reevaluation | - |
| `PolicyProofs` | theorems about `PolicyLayer` | `PolicyLayer` |
| `Attribution` | recorders, the sensor and the rows by which events find their tool call | - |
| `AttributionProofs` | theorems about `Attribution` | `Attribution` |
| `Ingest` | taking in events, their edges, batches and windows, pruning, evaluation | - |
| `IngestProofs` | theorems about `Ingest` | `Ingest` |
| `Forks` | directory snapshots, stacks, the planner, forks and their budget | - |
| `ForksProofs` | theorems about `Forks` | `Forks` |
| `RunRows` | the rows of a recorded run and the parts of `record run` that write them | - |
| `RunChecks` | the objects made of these rows, and the checks of `graph verify` | `RunRows` |
| `RunStore` | recorder, evidence worker, materializer, export and import over them | `RunChecks` |
| `RunStoreProofs` | theorems about `RunStore` | `RunStore` |
| `MCSpool`, `MCK8sScopes`, `MCSessions`, `MCPolicy`, `MCAttribution` | the instances TLC checks | the above |
| `MCShared` | an instance of `Ingest` and one of `Forks`, side by side | `Ingest`, `Forks` |
| `MCRecorded` | an instance of `Spool` and one of `RunStore`, side by side | `MCSpool`, `RunStore` |

In every module the unit of a step is what the environment can get in between:
a SQL statement or transaction, a file-system call, a call to docker, the time
between two uses of a mutex. Definitions named `Variant...` are a definition of
the code with one plausible mistake in it; no action uses them, they serve to
show that a property notices the mistake.

### Spool

A daemon runs one spool operation at a time because every caller holds
`writeMu`, so it is one sequential actor with a program counter `pc[d]`; two
daemons (two values in `Daemons`) share only rows and files. `Enqueue` is
`EnqueueBegin`, then admission, the eviction loop (select a victim, mark it dropped,
unlink its file), the copy and the insert; `Process` selects up to
`ProcessLimit` queued rows and for each claims, opens, ingests and finishes or fails
it. Each has the failure of its statement as an action of its own, with the
code's reaction: return an error, ignore it, remove the file. `Crash` resets the
program counter of a daemon wherever it is; the next operation of the same
daemon is the one after its restart. Time stamps come from a clock. The size of
the source is read twice, as `os.Stat` and as the bytes the copy found.

`abandoned`, `skipped` and `length` are history: they say which batches a crash
or a refused final UPDATE cut off, which claims failed, and how long the source
was. The policy evaluation of ingested events (spool.go:355-371) touches no
batch and is not in this module.

`BoundedFifo` accepts an item while there is room, hands out the oldest,
delivers each once, evicts only the oldest and keeps the room of what it handed
out. `SpoolFifo` maps the queued rows in the order of their time stamps to its
queue, processing rows to items handed out, committed ingests to deliveries.

### K8sScopes

The model follows the pods that succeed one another under one namespace and
name, since these share a cache entry; pods of other names share nothing with
them. The work queue is client-go's: a set `dirty`, a set `processing`, items
`delayed` by the rate limiter; the order of the queue is left open, as retries and
several workers undo it. `slot` is the reconciler's map of open bindings,
`epoch` counts how often the mutex of a pod was deleted from its map, so that a
worker waiting for a deleted mutex is told apart from one that waits for its
successor. A worker goes through fetch, lookup, lock, and then Upsert's scan
over the containers (close the previous binding, bind, store) or Delete's
(collect, close, forget). `Resolve` succeeds only for a container that is alive
and has the id in the status. Steps of one worker that touch nothing another
can see are merged into the step before. `gaveUp`, `lost` and `hidden` record
exhausted retries, bindings the controller cannot know about after a restart,
and deletions a watch gap hid.

### Sessions

`op` is the handler that holds `writeMu` across its calls to docker: create,
resume, stop, remove. An exec takes the mutex for its first and its last
statements only; it reads the session before, and raises the CPU weight, runs the
command and lowers the weight again without it. Verdicts, taints and snapshots are one step each:
they hold `writeMu` throughout and make no call that waits, and the only thing
that runs beside them is the SELECT of an exec, which reads nothing they write
in two steps. A refusal in the middle of one is still there: a verdict can apply
to a part of its rows, a snapshot can miss its edge; a taint is part of the
transaction of its batch and applies whole. Identifiers are drawn in order, so
comparing them compares their age. `late` marks a snapshot taken after the taint
that would have reached it.

### PolicyLayer

One statement of `persistDecisionWithExistingEvent` or of `ReevaluateRun` is one
step; the UPDATEs of session and snapshots follow the edge to the session
directly and are taken with it. Writers are whatever processes evaluate events
of the run at the same time: the daemon, `record run`, `security reevaluate`,
the launcher. Nothing excludes them from each other. A chain is the set of kinds of rows that exist
for one decision and is known by its event and the reevaluation that wrote it.
Rule matching is a constant function `Decide` from rule set and event to
decision; `Engines` are the rule files a user can pass. The event that is
written when the unified signal cannot be recorded is one no rule matches.
`torn`, `alone`, `latest` are history: chains cut off by a refusal or a death,
reevaluations nothing ran beside, rules of the last of these to end.
`DecisionVerifies`, `RiskVerifies` and `ActionVerifies` are the queries of `graph verify`.

### Attribution

Three sides that never wait for one another. The *node*: processes are born,
fork, act and exit on a small set of pids; a recorded root stays a zombie and
keeps its pid until its recorder waits for it. Each act and exit is reported to
a ring buffer that loses what it has no room for. The *sensor*: `Read` takes a
report out and stamps it with the time of that, as sensor_linux.go:471 does;
`Ingest` resolves the next line and stores it, and a second step ends the rows
of a pid whose exit it was, or deletes the event if it resolved to nothing. The
*recorders*: start, bind, sample, wait, last sample and rows of descendants,
close; each can be killed, and each statement whose error the code ignores has
a failing twin. `line` is the one event being ingested, and the properties judge
it there; nothing reads a stored event back.

A row of a root is there from `RecordBinding` on and needs only its end
(`window`); rows of descendants (`kin`) are complete when they are written.
Time is a counter that every reading moves on, so that no two readings are
equal; `MaxOpenBindingAge` is a number of readings. `Delegated` are the scopes
for which `prepareScopeCgroup` succeeds. `line.held`, `line.own`,
`line.fooled`, `exitAt`, `stale` and `missed` are history. The events that a recorder writes itself
name all their ids, are not resolved and are left out, and so are the decision
on orphans (`PolicyLayer`) and the file diff.

### Ingest

An ingester is a process that takes in one input at a time: the daemon and the
command line take whole files in one transaction (`Transactional`,
`IngestFalco`), the sensor's stream stores event after event
(`IngestJSONLReader`) and may drop those that resolve to nothing. An event is
known by the time of its insertion and has a type, the run it was given and the
run `Resolve` found. The causality edges go from a request or a response to what
follows it in the run; which one is the last is decided by comparing the text of
time stamps, so `Lexical` orders stamps as that text does. After its events an
ingester writes a batch row and rebuilds the windows of the runs it wrote, the
count being a SELECT outside the transaction that replaces them. `draft` is the
one open write transaction. `PruneRawEvents` selects old events, asks in five
queries whether anything names each, and deletes it in a statement of its own;
`EvaluateEvent` reads an event and stores a decision that names it in a later
step. Everything can fail or be cut off between two steps. `overlap`, `shaken`,
`raced` and `dropped` are history: pruning ran beside an ingest, the windows of a
run were left to be put right by the next ingest of it, two ingesters wrote one
run at once, an event of a run was removed as uncorrelated.

### Forks

Directories are functions from file to version, rows name them. A copy visits
the files in order, each as it then is, while the container edits the one it is
copied from; a snapshot of a session is then hashed, stamped, compared with the
latest snapshot of the session and inserted. A stack is a template, a copy of it
marked ready, and one fork. `Plan` picks a snapshot by the two policies (newest,
or smallest delta) and checks the budget with the attempts that it counts;
copies and rows of the attempts follow one after the other. A failure leaves on
disk what was there. `crowded` is history: snapshots forked by two clients at once.

### RunRows, RunChecks, RunStore

A row is a tuple of strings: its table and what tells it from other rows of that
table; an UPDATE that a check looks at is a second tuple (`Ended`, `Failed`,
`Processed`). `RunRows` has the parts of one `record run` as sequences of
statements: the setup, the links of the root, then either what is stored of a
command that did not start or, for each descendant the sampler saw, what it
brings in and what follows if it outlived the root, for each changed file the
same and its artifact, and the closing. A statement says
whether its error ends the run (`Must`), is dropped (`Try`), or whether it is made only
after some row was stored (`After`). `RunChecks` has, one operator per step, what
`MaterializeRun` makes an object of and what that object names as parents, and,
one operator per check, the errors `graph verify` reports on a set of rows. An
object is told from another by its subject, its parents and, for the record
manifest, the rows it was built from, which is what its hash covers and a check
compares; other objects of one row are one object whatever its columns say.

`RunStore` runs these. `here` and `there` are the rows and files of the host that
records and of one that replays. `run` says in which part the recorder is, at
which statement, for which descendant or file, what was seen at the launch and
what of it is still to be gone through. `Record` makes one statement, and any of
them can be refused; `Launch` settles what is seen, `NextPart` goes on to the next
part as the loops of the code do, and `Interrupted` ends the recorder anywhere. `ProcessEvidence` takes a
batch and inserts five edges for each row, whose errors are dropped, before it
marks the row. `Materialize` reads one table after another and writes, for each
subject, a file (`PutBlob`) and then its row (`PutRow`), naming those of the parents
this pass has put. `Export` dumps one table per step in the order of the code, then
embeds the content of the objects, except what exceeds the cap (`large`, chosen
at the start). `Import` commits all rows at once, with the paths of the other host
(`Foreign`), and restores one file after another. `early` is history: a pass or an
export began while the run was still being recorded. The event that is written
when the unified signal is refused, warnings, hashes, promotions, telemetry
batches and external effects (no recording has them), files of snapshots in a
bundle and the page size of the worker are left out.

## 3. Runs

| run | instance | shows |
|---|---|---|
| `spool_one` | 1 daemon, 3 batches, all three limits, drop_oldest, 1 fault, fair worker | what is queued is within the byte bound, settled rows stay settled, batches settle unless the fault cut them off, the spool implements `BoundedFifo` |
| `recorded_all` | spool: 2 daemons, one with drop_oldest and one with reject, 3 batches, bound of 1, 1 fault | stored batches are whole, across daemons a queued row has its file, files and processing rows have an owner, the count bound is exceeded by one batch at most, a batch is ingested once per daemon at most |
| | recorded run: 1 descendant, 1 file, 1 refused statement, 1 pass, 1 export, 2 imports | no row names a missing one at any time, a run that returned verifies, so does its replay, processed evidence has its edges |
| `spool_stranded` | as `spool_one`, bound on the count only | **violated**: a batch stays `processing` |
| `k8s_two` | 2 workers, 2 pods, 2 starts, a watch gap, a restart | mutual exclusion per pod, no binding lost track of, a running container keeps its scope |
| `k8s_live` | 1 worker, a pod of 2 containers, 2 starts, a failing call, fair | one binding per container, the right one, closed on deletion; all of it eventually |
| `k8s_late` | 2 workers, 1 pod | **violated**: a binding opened after the deletion |
| `sessions_all` | 2 sessions, 2 execs, 3 snapshots, 4 ids in all; 2 events, 2 faults | rows agree with docker, taint reaches what it should, nothing tainted is resumed, no container is forgotten, bindings belong to execs, the weight is lowered |
| `shared_all` | ingest: a stream and a whole-file ingester, 2 runs, 3 events, 1 fault | pruning removes nothing that is named, windows agree with events, a request has one call edge |
| | forks: 2 clients, 2 files, budget of 2, 2 snapshots, 3 attempts, 2 edits, 1 failure | the budget is exceeded by simultaneous forks only, attempts hold what their snapshot held, deltas are exact |
| `policy_overlap` | 2 writers, 2 events, 2 rule sets, 2 reevaluations, 1 fault, 4 of these 5 at once | decisions keep their rows; a reevaluation that ran alone leaves exactly its own |
| `policy_orphan` | 2 writers, 1 reevaluation, no fault | **violated**: evidence names a decision that is deleted |
| `attribution_reuse` | 2 recorders, one with a cgroup, 3 processes, 2 pids, 1 extra (act, sample, failure or kill) once 2 processes were born | an ended row takes in nothing later, a running root keeps its events, a cgroup joins all that happens while its row stands, no row stays open unless both ends failed |
| `attribution_subtree` | as `attribution_reuse` | **violated**: the exit of the root ends the scope of its children |

`recorded_all` and `shared_all` each check two modules that share no variable: a
behaviour is one of either module, as the variable `side` says from the start, so
that what is explored is the sum of the two and not their product.

### Bounds

* **Spool.** Three batches are the least for which a drop, a waiting batch and a
  batch being processed exist together; sizes straddle both byte limits. The one
  fault can strike at every statement. Rows of different batches
  interact only through counts and the order of time stamps.
* **K8sScopes.** `k8s_live` has five binding ids: one per start and one for
  what a failed call makes it bind again. A restart comes with one start only. Two pods under one name give every confusion between an item's
  uid and the cached pod; two container starts give one restart; two workers are
  the default of `--workers`. With three workers a waiter and a newcomer can
  hold different mutexes of one pod; that is listed as a hazard.
* **Sessions.** Two execs in one container are enough for the CPU weight, three
  snapshots for a chain of taint, two sessions for a resume. `MaxIds` bounds
  their sum; the fourth id is drawn only while nothing was executed, and faults
  strike one session with at most one event, since all together exceed what TLC
  explores in minutes.
* **PolicyLayer.** One event with a session and a killing rule, one orphan that
  is audited; a second rule set that allows both. Two reevaluations are what a
  retry needs. Chains of different events share no row, so more events add only
  more of the same.

* **Attribution.** Two pids for three processes make a pid of a root, a
  descendant or an outsider come back in any of these roles, under the same
  recorder or the other. One place in the ring and one in the pipe let a report
  be read late, ingested late or lost. A row is too old after three readings of
  the time, which the longer behaviours exceed. Exits are events too, so the one
  extra is left for an act, a further sample, a failure or a kill. With two
  extras a recorder whose root's pid was given to another recorder's root during
  its grace period takes that root's descendants for its own, and an event of
  the new root goes to the old scope: `OwnWhileAlive` excepts just that.

* **Ingest.** Three events are a request, its response and one more to confuse
  it with, of two runs, by a process whose run is given and one that infers it.
  Two that overlap, and a third that prunes or evaluates, come in different
  behaviours; what the histories excuse is followed no further.
* **Forks.** Two clients make every race, two snapshots a parent and its child,
  three attempts exceed a budget of two. Edits, failures and several attempts
  come one kind at a time.
* **RunStore.** Rows of different descendants or files never name one another,
  so one of each is enough; the second import is a retry of a failed one or a
  repetition. `SmallRun` keeps apart what does not meet: beside a full recording
  one of a pass, the worker or an export; beside a small one a pass and an
  export together. `Calm` lets the recorder wait while a pass or a dump is between
  two of its steps, but not at its beginning and end, so both see every prefix of
  the recording; an export that the recorder overtakes is one that `early`
  excepts anyway. None of this bounds what is proved of `RunStore` (section 4).

  What the properties except: the attempt is stored with the id of a tool call
  still to come, and a refused update leaves the process behind its call; a pass
  during the recording stores a record manifest that later disagrees; content
  above 4 MiB does not travel; and of a recording cut off before its session a
  bundle makes nothing known, so that the replaying host reports `unknown_run`,
  while a pass at home has stored manifests by which the run is known there.

The spool's worker always has a next tick, so `spool_one` and `spool_stranded`
check deadlock. The other runs set `CHECK_DEADLOCK FALSE`: their models come to
rest once the bounded events are used up, or, in `recorded_all`, once the
recorded run is done with.

### Fairness

`Spool`: a daemon that is in the middle of an operation continues (WF), and the
worker gets `writeMu` at some tick (SF on `ProcessBegin`, since handlers may
take the mutex between any two attempts; Go's mutex hands itself to a waiter
that was passed over for a millisecond). `K8sScopes`: worker goroutines run and
timers of delayed items fire (WF); nothing is assumed of the cluster.
The other modules state safety only: whether clients, recorders and the
command line go on is up to nobody in this code. That a row is ended eventually is
`DeadScopeEnded` in `Attribution`, and that a handler leaves nothing behind
`UnnamedIsGone` and `BindingSpansExec` in `Sessions`: statements on states in
which nothing is on its way any more.

### What the violated runs say

* `spool_stranded`. A daemon that dies between the claim (spool.go:319) and the
  final UPDATE leaves the batch `processing`. `Process` selects `queued` rows
  only and nothing looks at the others on start, so the batch is neither
  delivered nor failed, and goes on counting against the limits.
* `k8s_late`. `reconcile` copies the pod from the cache before it takes the
  pod's mutex (controller.go:229). With two workers the deletion can be handled
  in between; the update then binds a container that still runs, and no event
  is left that would close this binding.
* `policy_orphan`. `ReevaluateRun` deletes all decisions of the run
  (policy.go:441), also the one `record run` wrote itself for a process that
  outlived its root. No rule writes it again under its id, and `graph verify`
  reports `missing_orphan_lifecycle_policy_decision`, while README.md:1296-1297
  and CHANGELOG.md:322-323 say that verify stays green.
* `attribution_subtree`. A recorded scope has one row for its root and cgroup.
  The ingested exit of the root ends it (telemetry/service.go:443), at the time
  of the exit. What a child does after that resolves by cgroup to nothing, while
  the recorder still waits a grace period for such children; CHANGELOG.md:341-343
  and record/service.go:203-205 say that the whole subtree joins.

## 4. Proofs

`SpoolProofs` proves for every set of daemons and batches, every limit, and any
number of faults:

* `TypeCorrect`, `QueuedFileExists`: `[]TypeOK`, `[]QueuedHasFile`. The inductive
  invariant is `FileInv`: beside the types it says what a daemon has in hand
  at each program point (`JobInv`), and that an id in the hands of an Enqueue
  has no row yet, is no other daemon's and, from the copy to the insert, has its file
  (`ReserveInv`). Without the last a drop or a failed copy of another daemon
  might remove the file of a row about to appear.
* `CountBounded`: `[]CountBound`. `CapacityInv` counts reservations too: batches
  that hold capacity plus batches admitted and not yet inserted.
* `IngestedBounded`: `[]IngestedOncePerDaemon`. `OnceInv` adds to the ingests of
  a batch the daemons that may still commit it.
* `SettledRowsStay`: for a lone daemon, `SettledForever`, from `SoleInv`, by
  which all it works on is in the state in which it put it.

* `NothingIsStranded`: `[]NothingStranded`. `StrandedInv` names, for each batch that is
  between two states, the daemon that has it in hand, unless it was abandoned.
* `QueuedIsWhole`: `[]StoredWhole`, also while the source grows or shrinks
  during the copy. `WholeInv`: from the copy on, the number of bytes in hand is
  what the copy found, and after the last check it is all of the source, since
  one byte more than the limit would have been read.
* `BytesBounded`: for a lone daemon, `[]BytesBound`. `BytesInv` reserves the bytes of the
  batch that is admitted and not yet inserted, as nobody else adds one
  meanwhile. The sum is a fold over the rows that hold capacity; lemmas
  show that it does not depend on the order and what adding, removing and
  shrinking elements do to it.
* `SpoolImplementsFifo`: for a lone daemon, `ImplementsFifo`, the refinement of
  `BoundedFifo` under the mapping of `SpoolFifo`: the initial state maps to the
  queue's, and each statement, crash and fault to an action of the queue or to no
  change. `OrderInv` says that stamps differ, that the batch about to get a row
  has the latest, the one about to be dropped the earliest, and that what
  `Process` still has to do is a prefix of the queue but for rows it passed by.
  Lemmas show that removing the first, or appending a latest, is what the list of
  the queued rows does.

They assume `SpoolAssumption`: finite, non-empty sets, and limits that are natural
numbers (zero for no limit), as flags allow. With two daemons on one data dir the
bounds can be exceeded by a batch, rows can appear in another order than their
stamps were drawn in, and an UPDATE of one may reach a row the other settled: hence the hypothesis
of a lone daemon where it is stated. That a non-empty result of `ORDER
BY ... LIMIT 1` has an oldest row is proved from well-foundedness of strict
inclusion on finite sets (`OldestInSet`). The same well-foundedness serves for
every induction over finite sets: the sets for which a statement fails have a
least one, and that one leads to a contradiction.

`K8sProofs` proves for all pods, container names and bindings, any number of
container starts, failing calls, watch gaps, retries and restarts (from
`ScopesAssumption`):

* `RunningScopeStays`: `CurrentScopeStays`, for any number of workers. `TypeInv`
  says what a job holds at each step, `QueueInv` that items are of pods that were
  seen and that no item is with two workers, `ScopeInv` that what a worker is
  about to close is recorded for its pod, and for an older container than the one
  its status names.
* `PodsAreExclusive`, `BindingsAreTracked`, `ContainersHaveOneScope`:
  `[]PodExclusive`, `[]Tracked`, `[]OnePerContainer`, for at most two workers.
  `LockInv`: once a mutex was taken out of the map (`Retired`), its pod is gone and
  its deletion handled, so of two workers one has just returned from Delete and at most one
  can still be inside. `TrackInv` adds that while a worker replaces or closes
  a binding the map says what it said when the worker read it.
* `LivingPodsAreAttributed`: `[]Attributed`, for at most two workers. `LiveInv`: as
  long as a container of a living pod is not bound, an item of the pod is
  waiting, or a worker has read its current ids and not come to it yet, or the
  retries ran out.
* `DeletedPodsAreClosed`: `[]ClosedOnDelete`, for one worker. `LateInv`: the
  deletion of a pod that is gone is waiting, being worked on or given up, or
  nothing of it is open and nobody is about to open anything.

Two workers are what `--workers` gives by default. The hypotheses are needed:
with three workers two of them can hold different mutexes of one pod (a hazard
listed without a fix in the code), and with two a deletion can overtake an
update (`k8s_late`).

`SessionsProofs` proves for every set of sessions, execs, snapshots, containers
and any number of refusals and crashes (from `BoundsAssumption`, which only types
the constants):

* `TypeCorrect`, and `UnnamedGone`: `[]UnnamedIsGone`. `DockInv` adds what the
  handler under way knows of its session's row and container at each of its
  points; by the time it forgets the id, docker has removed the container.
* `BindingsSpanExecs`: `[]BindingSpansExec`. `ExecInv` adds that a command that
  returned has a result, which its row is about to get.
* `WeightHasCommand`: `[]IdleAtThink`. `WeightInv` adds that a session without a
  container has no raised weight, so a new container starts without one.
* `RowsAgree`, `QuarantinedAreTainted`, `ResumedAreClean`: `[]RowsMatchDocker`,
  `[]QuarantineTaints`, `ResumedClean`. The first two hold until something is
  refused, and `MatchInv` carries that condition for the session being worked on
  too. The last rests on `ResumeInv`: while a resume is under way its snapshot is
  untainted, since the taint needs the mutex the resume holds.
* `TaintReaches`: `[]TaintReachesChildren`. `EdgeInv`: an edge leads to a
  snapshot, and one that is missing was refused. The descendants are a recursive
  function over the edges; that its equation has a solution is shown by
  exhibiting one, the least sets closed under the edges (`LeastIsLineage`).

`PolicyProofs` proves for every set of writers, events (numbered), rule sets, and
any number of reevaluations, refusals and crashes (from `EnginesAssumption`):

* `TypeCorrect`: a step of a writer stays within the statements of the code
  (`StepInv`) and a recorder ends with its orphan (`OrphanInv`); neither follows
  from the types alone.
* `DecisionsAreWhole`: `[]DecisionsStandWhole`. `WholeInv` says for each row that a
  decision lacks who accounts for it: a writer that has yet to get to that
  statement (`ToCome`), or a reevaluation that has deleted rows of that kind and
  has not yet deleted the decisions (`Deleting`). That the decisions are deleted
  after what hangs on them is what makes it inductive.
* `ReplayIsExact`: `[]ReplayedExactly`. `AloneInv` says, for a reevaluation that
  nothing has run beside so far, what is left of each chain at each of its
  statements: of the kinds it has deleted nothing, of the events it has
  decided again exactly the chain it wrote. `LatestInv` keeps the result until somebody
  writes again.

`AttributionProofs` proves for all processes, pids and scopes, any sizes of ring
and pipe, any age limit and any number of extras (from `AttributionAssumption`):

* `TypeCorrect`: `[]TypeOK`, with pids unique among running processes. `NodeInv`,
  `RecorderInv`, `SensorInv` and `SampleInv` make up the state; reports name only
  processes that were born, for these keep their pid and scope (`BornStays`).
* `BoundedByExit`: `[]ExitBounds`. `HistoryInv` carries it: the end that a root's
  exit wrote is the one its row keeps, since the recorder and every later exit
  end open rows only.
* `CgroupsJoin`: `[]CgroupJoins`. What is needed beside the state is that the
  event in hand, resolved at some earlier moment, is of a recording whose start
  is fixed by then. `Resolve` picks a row with the latest start; that there is one
  is proved from well-foundedness of the naturals (`LatestIsOne`), since nothing
  bounds the number of rows.

The invariant of these three is `StateInv /\ LineInv` (`Inductive`). Two more
build on it:

* `DeadScopesEnd`: `[]DeadScopeEnded`. `DeadInv`: the report of a dead root's exit is
  in the ring, in the pipe or in hand, or it was lost, or it has ended the
  root's row.
* `OwnEventsJoin`: `[]OwnWhileAlive`. `LastInv`: nothing is reported of a process
  after its exit. `OwnInv` compares the events still to come of a root with every
  row that may claim them by its pid: events stamped while the root held its pid
  lie before the time at which its recorder ended it (`AfterInv`), before the
  start of any later root with that pid (`SuccInv`), and before any descendant's
  interval with that pid that starts later (`SeenInv`, `KinInv`); `EndInv` says
  who may have ended its row.

`ForksProofs` proves for any clients, files and policies, any number of
snapshots, attempts, edits and failures, and any budget (from `ForksAssumption`: the files have one
order, the bounds are natural numbers):

* `AttemptsAreWhole`, `DeltasAreExact`: `[]AttemptsWhole`, `[]DeltaExact`. The
  invariant `Inv` sorts directories into those a row names, which nobody writes
  any more (`RowInv`, `AttemptInv`), and those one client is filling
  (`RequestInv`: no row names it, and of an attempt the part copied so far equals
  the snapshot), which no two clients share (`Apart`). `Progress` says what a step may
  touch; from it follows once for all actions that rows and other clients keep
  what they have (`RowsStay`, `OthersStay`). That the planner returns a candidate
  at all (`BestIsOne`) needs stamps that differ and a least delta, which exists by
  well-foundedness of the naturals.
* `BudgetIsKept`: `[]BudgetHolds`. `BudgetInv`: a snapshot that is not crowded has at
  most one client forking it, and the attempts it has and those that this client
  has yet to insert are together within the budget.

`IngestProofs` proves for any ingesters, with or without a transaction around a
file, any runs and time stamps in any textual order, any number of events and
any number of failures and cut-off steps (from `IngestAssumption`):

* `NamedKept`: `[]NamedAreKept`. `NamedInv`: what an ingester or an evaluation
  holds in hand (an id it stored, the cause it looked up, the event it judges)
  exists too, and the event that pruning has found unnamed is still not named
  when it is deleted.
* `WindowsCount`: `[]WindowsAgree`. `WindowInv` says what the windows count while one
  ingester is busy with a run: until the rebuild, all but the events of this input;
  between the SELECT and the transaction, the tally in hand is the count.
* `OneCallPerRequest`: `[]OneCall`. `CallInv` says it of the committed rows and of
  those the open transaction sees, and that a response about to be linked sees
  no call edge of the request it found, whichever was taken for the latest.

The layers below them (`Kernel`) are the types, where an ingester is with its
line, that an id tells its event for ever, that the cause in hand is of the run
of the line, and that two who are busy with one run have marked it as `raced` and
`shaken`. What a step does to committed rows and to the rows an ingester sees is
proved once for all actions (`DbStep`, `Effect`, `OthersSee`): with a
transaction the two differ, and the others see all of it at the commit.

`RunStoreProofs` proves for any sets of descendants and files, any number of
refused statements, passes, exports and imports, any choice of oversized objects
and every interleaving of recorder, worker, pass, export and import, assuming
nothing of the constants:

* `RunReferencesHold`: `[]ReferencesHold`. `SetupOrder` and `AfterOrder` say which
  rows are there before which others, wherever the recorder is cut off;
  `EndOrder` that the call ends after its process unless a statement was
  refused. `ObjectsWhole`: an object has its file, and its parents are objects.
  That an object names all the parents there are is `PassOrder`: what the
  tables before the current one hold, the pass has put (`PassFinds`), a blame
  comes after its diff (`PassBlames`), and whatever a row names is found at an
  earlier place of the order than the row itself (the lemma `NamedEarlier`). What a
  pass finds cannot grow under it, since after the recording the
  worker and the passes add only rows that nothing names (`SubjectsSame`,
  `NamedHere`).
* `RunCleanVerifies`: `[]CleanVerifies`. `Made` says that with nothing refused every
  statement so far has stored its row, `AllSeen` that all rows of what has been
  gone through are there, and `OnlySeen` that nothing else is; so when the
  recorder returns each check finds what it looks for. The record manifest
  agrees because it is made of rows that only a recording writes.
* `RunReplayAgrees`: `[]ReplayAgrees`. `BundleWhole`: of the tables dumped so far, the
  bundle has every row that the recorder wrote (`Settled`; `graph verify` reads no
  other row but objects and their files). `LoadWhole` carries it to the
  replaying host, whose own rows are all from this one (`LoadOrder`), and objects
  are dumped last, so the parents of each are dumped with it (`BundleOrder`).
  Each check then finds on either side the same rows, table by table.
* `RunProcessedWithEdges`: `[]ProcessedWithEdges`. `WorkerOrder`: with nothing
  refused, a row is processed after its edges are in. `BundleOrder` adds that
  the edges are dumped after the statuses, so that an edge stored between the two SELECTs
  does no harm, while a status dumped after the edges would.

Their conjunction `IInv`, with the types and what the recorder is about
(`Types`, `Subject`), is inductive (`Invariance`); TLC found it to hold on the
instance of `recorded_all` before it was proved. The proof also corrected a
property: `ReplayAgrees` needs its exception for a recording cut off before its
session, and `SmallRun` admits a pass and an export of such a recording.

Only model-checked are:

* liveness, `SettlesUnlessAbandoned` of `Spool` and `EventuallyClosed` and
  `EventuallyBound` of `K8sScopes`: fairness and ENABLED are beyond the prover;
* what the runs that expect a violation check, which is false.

The types that `TypeCorrect` and the `TypeInv`s state are proved and not checked
by a run once more.

## 5. Not modelled

* **Text and payloads**: a batch, an event or a container is a value. Rule
  matching, redaction, hashes, correlation confidences, the page size of
  listings, and counters that only reports read.
* **Parts of modelled components**: namespaces beyond one pod name, the tiers of
  `Resolve` by process and container, leases (a row no handler tests), deletion
  of snapshots (`RunGC` works off `gc_jobs`, which nothing inserts), promotions
  (which nothing inserts either), commits and refs (`gitlike.go`), attestations of
  bundles, the resource sampler. A decision of quarantine or kill that is
  reevaluated applies its UPDATEs of session and processes a second time; the
  last statement of an exec overwrites a status that a verdict wrote meanwhile.
  Neither has a document that it contradicts, and both are what the code does.
* **Launch, port proxy, lock file**: a child process each (or the pid of one in a
  file), started, signalled and waited for with a limit. The rows or files say
  what was asked of the process last and nothing checks whether it still runs, so all there is
  to say of them is about the operating system. What the sensor loses when it is
  killed is the losses of the ring and the pipe in `Attribution`.
* **CPU samples and their windows** (`cost`): a worker of the daemon that sums up
  one table into another and deletes what is older than a limit; only reports
  read either.
* **TLS reassembly, HTTP/2 framing, the paging cursor, parsers and adapters**:
  functions on byte strings, for which tests over many inputs say more than a
  model with three bytes.
* **Read side, reports, dashboard, command line, store schema, attestation,
  redaction, deployment**: no state of their own; `PROJECT.json` has a line on each.
