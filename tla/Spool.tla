------------------------------- MODULE Spool -------------------------------
(***************************************************************************)
(* The file-backed telemetry spool of the daemon: internal/telemetry/      *)
(* spool.go, driven by the handlers ingestFalco and processTelemetrySpool  *)
(* and by the spool worker of internal/daemon/server.go.                   *)
(*                                                                         *)
(* One daemon process runs at most one spool operation at a time, because  *)
(* every caller holds Server.writeMu, so a daemon is one sequential actor  *)
(* whose program counter is pc[d].  The mutex lives in the process: two    *)
(* daemons on one data dir (the lock file of lock.go is advisory only)     *)
(* interleave statement by statement.  One action is one SQL statement or  *)
(* one file-system call, the unit between which a process can die and      *)
(* another process can run.                                                *)
(*                                                                         *)
(* priority is never written by the code, so ORDER BY priority, created_at *)
(* is the order of the time stamps; stamps are drawn from a clock.         *)
(***************************************************************************)
EXTENDS Integers, FiniteSets, FiniteSetsExt

CONSTANTS
  Daemons,          \* daemon processes sharing the data dir
  Batches,          \* batch ids (ids.New("spool") never repeats one)
  NoBatch,          \* no batch in hand
  Sizes,            \* sizes, in bytes, a source file can have
  MaxQueued,        \* --spool-max-queued, 0 disables the bound
  MaxQueuedBytes,   \* --spool-max-bytes, 0 disables the bound
  MaxBatchBytes,    \* --spool-max-batch-bytes, 0 disables the bound
  DropOldest,       \* daemons started with --spool-drop-policy=drop_oldest
  ProcessLimit,     \* --spool-limit
  MaxFaults         \* bound on crashes and failing statements

ASSUME SpoolAssumption ==
  /\ IsFiniteSet(Daemons) /\ Daemons # {}
  /\ IsFiniteSet(Batches) /\ NoBatch \notin Batches
  /\ Sizes \subseteq Nat
  /\ MaxQueued \in Nat /\ MaxQueuedBytes \in Nat /\ MaxBatchBytes \in Nat
  /\ ProcessLimit \in Nat \ {0}
  /\ MaxFaults \in Nat

VARIABLES
  status,     \* telemetry_spool_batches.status, "none" before the INSERT
  size,       \* telemetry_spool_batches.size_bytes
  stamp,      \* telemetry_spool_batches.created_at
  files,      \* batches whose file exists in the spool directory
  ingested,   \* how often the events of a batch were committed
  length,     \* history: bytes the source held when it was copied
  clock,      \* source of time stamps
  pc,         \* the statement a daemon executes next
  batch,      \* the batch that statement is about
  incoming,   \* info.Size() before the copy, bytes written after it
  victim,     \* the row dropOldestQueued selected
  todo,       \* items selected by Process and not yet handled
  faults,     \* crashes and failed statements so far
  abandoned,  \* history: batches in hand when a crash or a failing final
              \* UPDATE cut an operation short
  skipped     \* history: batches whose claim failed

rows == <<status, size, stamp>>
jobs == <<pc, batch, incoming, victim, todo>>
history == <<faults, abandoned, skipped>>
vars == <<rows, files, ingested, length, clock, jobs, history>>

Statuses == {"none", "queued", "processing", "processed", "failed", "dropped"}
Terminal == {"processed", "failed", "dropped"}
EnqueuePCs == {"admit", "evict", "drop", "unlink", "copy", "insert"}
ProcessPCs == {"claim", "open", "ingest", "finish", "fail"}

-----------------------------------------------------------------------------
(* QueueStats: a batch holds capacity while it is queued or processing.    *)
Queued == {b \in Batches : status[b] = "queued"}
Held == {b \in Batches : status[b] \in {"queued", "processing"}}
HeldBytes == MapThenSumSet(LAMBDA b : size[b], Held)

(* Definitions named Variant... are the model with one plausible defect in *)
(* it; no action uses them.  They show that the properties are sensitive.  *)
VariantWithinCount == MaxQueued = 0 \/ Cardinality(Held) <= MaxQueued

(* The checks of applyBackpressure. *)
TooLarge(n) == MaxBatchBytes > 0 /\ n > MaxBatchBytes
WithinCount == MaxQueued = 0 \/ Cardinality(Held) < MaxQueued
WithinBytes(n) == MaxQueuedBytes = 0 \/ HeldBytes + n <= MaxQueuedBytes
Within(n) == WithinCount /\ WithinBytes(n)

(* positiveByteLimit: the least positive limit, 0 when there is none. *)
PositiveByteLimit ==
  LET limits == {MaxBatchBytes, MaxQueuedBytes} \ {0}
  IN  IF limits = {} THEN 0 ELSE Min(limits)

VariantCopied(n) ==
  IF PositiveByteLimit > 0 /\ n > PositiveByteLimit THEN PositiveByteLimit ELSE n

(* io.LimitReader(source, copyLimit+1): one byte past the limit is read,   *)
(* so that a source over the limit is seen to be over it.                  *)
Copied(n) ==
  IF PositiveByteLimit > 0 /\ n > PositiveByteLimit + 1
  THEN PositiveByteLimit + 1
  ELSE n

VariantOldest(S) == CHOOSE b \in S : \A c \in S : stamp[b] >= stamp[c]

(* The oldest row of a set: ORDER BY created_at ASC LIMIT 1. *)
Oldest(S) == CHOOSE b \in S : \A c \in S : stamp[b] <= stamp[c]

VariantSelectQueued == {b \in Batches : status[b] \in {"queued", "failed"}}

(* The rows Process works through: queued, oldest first, at most limit. *)
SelectQueued ==
  {b \in Queued : Cardinality({c \in Queued : stamp[c] < stamp[b]}) < ProcessLimit}

-----------------------------------------------------------------------------
Init ==
  /\ status = [b \in Batches |-> "none"]
  /\ size = [b \in Batches |-> 0]
  /\ stamp = [b \in Batches |-> 0]
  /\ files = {}
  /\ ingested = [b \in Batches |-> 0]
  /\ length = [b \in Batches |-> 0]
  /\ clock = 0
  /\ pc = [d \in Daemons |-> "idle"]
  /\ batch = [d \in Daemons |-> NoBatch]
  /\ incoming = [d \in Daemons |-> 0]
  /\ victim = [d \in Daemons |-> NoBatch]
  /\ todo = [d \in Daemons |-> {}]
  /\ faults = 0 /\ abandoned = {} /\ skipped = {}

Goto(d, label) == pc' = [pc EXCEPT ![d] = label]

(* Enqueue returns: its locals are gone. *)
EnqueueReturns(d) ==
  /\ Goto(d, "idle")
  /\ batch' = [batch EXCEPT ![d] = NoBatch]
  /\ incoming' = [incoming EXCEPT ![d] = 0]
  /\ victim' = [victim EXCEPT ![d] = NoBatch]
  /\ UNCHANGED todo

VariantAbandon(d) ==
  /\ EnqueueReturns(d)
  /\ UNCHANGED <<rows, files, ingested, length, clock>>

(* An error return of Enqueue: os.Remove(spoolPath) once the file exists. *)
Abandon(d) ==
  /\ EnqueueReturns(d)
  /\ files' = files \ {batch[d]}
  /\ UNCHANGED <<rows, ingested, length, clock>>

(* A batch id nobody has used; the code draws it when it creates the file, *)
(* here it is reserved when Enqueue starts.                                *)
Fresh(b) == status[b] = "none" /\ b \notin files /\ \A d \in Daemons : batch[d] # b

(* Enqueue opens the source and takes info.Size(). *)
EnqueueBegin(d) ==
  /\ pc[d] = "idle"
  /\ \E b \in Batches, n \in Sizes :
       /\ Fresh(b)
       /\ batch' = [batch EXCEPT ![d] = b]
       /\ incoming' = [incoming EXCEPT ![d] = n]
  /\ Goto(d, "admit")
  /\ UNCHANGED <<rows, files, ingested, length, clock, victim, todo, history>>

(* The file exists exactly when applyBackpressure runs for the second time, *)
(* on the bytes written: then the INSERT, with created_at = now, is next.   *)
Admit(d) ==
  /\ pc[d] = "admit"
  /\ ~TooLarge(incoming[d]) /\ Within(incoming[d])
  /\ IF batch[d] \in files
     THEN /\ Goto(d, "insert")
          /\ clock' = clock + 1
          /\ stamp' = [stamp EXCEPT ![batch[d]] = clock + 1]
     ELSE Goto(d, "copy") /\ UNCHANGED <<clock, stamp>>
  /\ UNCHANGED <<status, size, files, ingested, length, batch, incoming,
                 victim, todo, history>>

(* SpoolBackpressureError (or an unknown policy): HTTP 429, or 400. *)
Reject(d) ==
  /\ pc[d] = "admit"
  /\ \/ TooLarge(incoming[d])
     \/ ~Within(incoming[d]) /\ d \notin DropOldest
  /\ Abandon(d)
  /\ UNCHANGED history

(* drop_oldest: the loop of applyBackpressure around dropOldestQueued. *)
MakeRoom(d) ==
  /\ pc[d] = "admit"
  /\ ~TooLarge(incoming[d]) /\ ~Within(incoming[d])
  /\ d \in DropOldest
  /\ Goto(d, "evict")
  /\ UNCHANGED <<rows, files, ingested, length, clock, batch, incoming, victim,
                 todo, history>>

SelectVictim(d) ==
  /\ pc[d] = "evict"
  /\ Queued # {}
  /\ victim' = [victim EXCEPT ![d] = Oldest(Queued)]
  /\ Goto(d, "drop")
  /\ UNCHANGED <<rows, files, ingested, length, clock, batch, incoming, todo,
                 history>>

(* telemetry_spool_capacity_unavailable: nothing is left to drop. *)
NoVictim(d) ==
  /\ pc[d] = "evict"
  /\ Queued = {}
  /\ Abandon(d)
  /\ UNCHANGED history

VariantDropVictim(d) ==
  /\ pc[d] = "drop"
  /\ Goto(d, "unlink")
  /\ UNCHANGED <<rows, files, ingested, length, clock, batch, incoming, victim,
                 todo, history>>

(* UPDATE ... SET status = 'dropped' WHERE id = ? AND status = 'queued';   *)
(* the number of rows affected is not looked at.                           *)
DropVictim(d) ==
  /\ pc[d] = "drop"
  /\ status' = [status EXCEPT ![victim[d]] =
                  IF @ = "queued" THEN "dropped" ELSE @]
  /\ Goto(d, "unlink")
  /\ UNCHANGED <<size, stamp, files, ingested, length, clock, batch, incoming,
                 victim, todo, history>>

(* os.Remove(spoolPath), then QueueStats again. *)
UnlinkVictim(d) ==
  /\ pc[d] = "unlink"
  /\ files' = files \ {victim[d]}
  /\ victim' = [victim EXCEPT ![d] = NoBatch]
  /\ Goto(d, "admit")
  /\ UNCHANGED <<rows, ingested, length, clock, batch, incoming, todo, history>>

VariantCopySource(d) ==
  /\ pc[d] = "copy"
  /\ files' = files \cup {batch[d]}
  /\ \E n \in Sizes :
       /\ length' = [length EXCEPT ![batch[d]] = n]
       /\ incoming' = [incoming EXCEPT ![d] = Copied(n)]
  /\ Goto(d, "insert")
  /\ clock' = clock + 1
  /\ stamp' = [stamp EXCEPT ![batch[d]] = clock + 1]
  /\ UNCHANGED <<status, size, ingested, batch, victim, todo, history>>

(* Create the spool file and copy the source, which may have grown or      *)
(* shrunk since Stat.  A changed size goes through applyBackpressure again.*)
CopySource(d) ==
  /\ pc[d] = "copy"
  /\ files' = files \cup {batch[d]}
  /\ \E n \in Sizes :
       LET written == Copied(n)
       IN  /\ length' = [length EXCEPT ![batch[d]] = n]
           /\ incoming' = [incoming EXCEPT ![d] = written]
           /\ IF written = incoming[d]
              THEN /\ Goto(d, "insert")
                   /\ clock' = clock + 1
                   /\ stamp' = [stamp EXCEPT ![batch[d]] = clock + 1]
              ELSE Goto(d, "admit") /\ UNCHANGED <<clock, stamp>>
  /\ UNCHANGED <<status, size, ingested, batch, victim, todo, history>>

(* INSERT INTO telemetry_spool_batches ... 'queued': the batch is accepted. *)
InsertRow(d) ==
  /\ pc[d] = "insert"
  /\ status' = [status EXCEPT ![batch[d]] = "queued"]
  /\ size' = [size EXCEPT ![batch[d]] = incoming[d]]
  /\ EnqueueReturns(d)
  /\ UNCHANGED <<stamp, files, ingested, length, clock, history>>

(* One more crash or failing statement, of the bounded number there are. *)
Fault(cut, left) ==
  /\ faults < MaxFaults
  /\ faults' = faults + 1
  /\ abandoned' = abandoned \cup (cut \ {NoBatch})
  /\ skipped' = skipped \cup left

(* A statement or a copy of Enqueue fails: every such path returns the     *)
(* error, and removes the file it had created.  What drop_oldest dropped   *)
(* before stays dropped.                                                   *)
EnqueueFails(d) ==
  /\ pc[d] \in {"admit", "evict", "drop", "copy", "insert"}
  /\ Abandon(d)
  /\ Fault({}, {})

-----------------------------------------------------------------------------
(* Process(limit): the items are read once, then handled one by one. *)
ProcessBegin(d) ==
  /\ pc[d] = "idle"
  /\ Queued # {}
  /\ todo' = [todo EXCEPT ![d] = SelectQueued]
  /\ Goto(d, "claim")
  /\ UNCHANGED <<rows, files, ingested, length, clock, batch, incoming, victim,
                 history>>

(* A tick of the worker that finds nothing queued. *)
ProcessNothing(d) ==
  /\ pc[d] = "idle"
  /\ Queued = {}
  /\ UNCHANGED vars

(* The loop of Process goes on to the next item, or returns. *)
NextItem(d, rest) ==
  /\ todo' = [todo EXCEPT ![d] = rest]
  /\ batch' = [batch EXCEPT ![d] = NoBatch]
  /\ Goto(d, IF rest = {} THEN "idle" ELSE "claim")
  /\ UNCHANGED <<incoming, victim>>

(* UPDATE ... SET status = 'processing' WHERE id = ? AND status = 'queued';*)
(* the number of rows affected is not looked at.                           *)
Claim(d) ==
  /\ pc[d] = "claim"
  /\ LET b == Oldest(todo[d])
     IN  /\ status' = [status EXCEPT ![b] =
                         IF @ = "queued" THEN "processing" ELSE @]
         /\ batch' = [batch EXCEPT ![d] = b]
         /\ todo' = [todo EXCEPT ![d] = @ \ {b}]
  /\ Goto(d, "open")
  /\ UNCHANGED <<size, stamp, files, ingested, length, clock, incoming, victim,
                 history>>

(* That UPDATE fails: the item is skipped, its row is left as it is. *)
ClaimFails(d) ==
  /\ pc[d] = "claim"
  /\ NextItem(d, todo[d] \ {Oldest(todo[d])})
  /\ Fault({}, {Oldest(todo[d])})
  /\ UNCHANGED <<rows, files, ingested, length, clock>>

(* os.Open(spoolPath): an open file can be read after it is unlinked. *)
OpenFile(d) ==
  /\ pc[d] = "open"
  /\ Goto(d, IF batch[d] \in files THEN "ingest" ELSE "fail")
  /\ UNCHANGED <<rows, files, ingested, length, clock, batch, incoming, victim,
                 todo, history>>

(* IngestFalco commits all events in one transaction; RebuildEventWindows  *)
(* runs after that commit and may still make IngestFalco return an error.  *)
Ingest(d) ==
  /\ pc[d] = "ingest"
  /\ ingested' = [ingested EXCEPT ![batch[d]] = @ + 1]
  /\ \E label \in {"finish", "fail"} : Goto(d, label)
  /\ UNCHANGED <<rows, files, length, clock, batch, incoming, victim, todo,
                 history>>

VariantIngestFails(d) ==
  /\ pc[d] = "ingest"
  /\ NextItem(d, todo[d])
  /\ UNCHANGED <<rows, files, ingested, length, clock, history>>

(* Nothing was committed. *)
IngestFails(d) ==
  /\ pc[d] = "ingest"
  /\ Goto(d, "fail")
  /\ UNCHANGED <<rows, files, ingested, length, clock, batch, incoming, victim,
                 todo, history>>

(* The final UPDATE has no status in its WHERE clause. *)
MarkProcessed(d) ==
  /\ pc[d] = "finish"
  /\ status' = [status EXCEPT ![batch[d]] = "processed"]
  /\ NextItem(d, todo[d])
  /\ UNCHANGED <<size, stamp, files, ingested, length, clock, history>>

VariantMarkFailed(d) ==
  /\ pc[d] = "fail"
  /\ status' = [status EXCEPT ![batch[d]] = "queued"]
  /\ NextItem(d, todo[d])
  /\ UNCHANGED <<size, stamp, files, ingested, length, clock, history>>

(* failSpool. *)
MarkFailed(d) ==
  /\ pc[d] = "fail"
  /\ status' = [status EXCEPT ![batch[d]] = "failed"]
  /\ NextItem(d, todo[d])
  /\ UNCHANGED <<size, stamp, files, ingested, length, clock, history>>

(* The final UPDATE, or failSpool (whose error is discarded), fails: the   *)
(* row keeps its status and nothing looks at it again.                     *)
MarkFails(d) ==
  /\ pc[d] \in {"finish", "fail"}
  /\ NextItem(d, todo[d])
  /\ Fault({batch[d]}, {})
  /\ UNCHANGED <<rows, files, ingested, length, clock>>

-----------------------------------------------------------------------------
(* The daemon dies in the middle of an operation and is started again.     *)
(* Rows and files survive, the locals do not; start-up repairs nothing.    *)
Crash(d) ==
  /\ pc[d] # "idle"
  /\ Fault({batch[d], victim[d]}, {})
  /\ pc' = [pc EXCEPT ![d] = "idle"]
  /\ batch' = [batch EXCEPT ![d] = NoBatch]
  /\ incoming' = [incoming EXCEPT ![d] = 0]
  /\ victim' = [victim EXCEPT ![d] = NoBatch]
  /\ todo' = [todo EXCEPT ![d] = {}]
  /\ UNCHANGED <<rows, files, ingested, length, clock>>

Enqueue(d) ==
  \/ EnqueueBegin(d) \/ Admit(d) \/ Reject(d) \/ MakeRoom(d) \/ SelectVictim(d)
  \/ NoVictim(d) \/ DropVictim(d) \/ UnlinkVictim(d) \/ CopySource(d)
  \/ InsertRow(d) \/ EnqueueFails(d)

Process(d) ==
  \/ ProcessBegin(d) \/ ProcessNothing(d) \/ Claim(d) \/ ClaimFails(d)
  \/ OpenFile(d) \/ Ingest(d) \/ IngestFails(d) \/ MarkProcessed(d)
  \/ MarkFailed(d) \/ MarkFails(d)

Next == \E d \in Daemons : Enqueue(d) \/ Process(d) \/ Crash(d)

Spec == Init /\ [][Next]_vars

(* A daemon keeps executing the operation it is in, and the spool worker,  *)
(* which competes with the HTTP handlers for writeMu at every tick, gets   *)
(* the mutex infinitely often (sync.Mutex hands it over to a waiter that   *)
(* has starved for a millisecond).                                         *)
Busy(d) == pc[d] # "idle" /\ (Enqueue(d) \/ Process(d))
FairSpec ==
  Spec /\ \A d \in Daemons : WF_vars(Busy(d)) /\ SF_vars(ProcessBegin(d))

-----------------------------------------------------------------------------
TypeOK ==
  /\ status \in [Batches -> Statuses]
  /\ size \in [Batches -> Nat] /\ stamp \in [Batches -> Nat]
  /\ files \in SUBSET Batches
  /\ ingested \in [Batches -> Nat] /\ length \in [Batches -> Nat]
  /\ clock \in Nat
  /\ pc \in [Daemons -> {"idle"} \cup EnqueuePCs \cup ProcessPCs]
  /\ batch \in [Daemons -> Batches \cup {NoBatch}]
  /\ incoming \in [Daemons -> Nat]
  /\ victim \in [Daemons -> Batches \cup {NoBatch}]
  /\ todo \in [Daemons -> SUBSET Batches]
  /\ faults \in 0..MaxFaults
  /\ abandoned \in SUBSET Batches /\ skipped \in SUBSET Batches

(* A row never promises a file that is not there: as long as a batch is    *)
(* queued its spool file exists, whatever crashes and however many daemons *)
(* share the data dir (Enqueue writes the file before the row,             *)
(* dropOldestQueued changes the row before it unlinks).                    *)
QueuedHasFile == Queued \subseteq files

(* Admission and INSERT are separate statements, so daemons that share a   *)
(* data dir may each have one admitted batch in flight: the count bound    *)
(* can be overshot by the number of daemons less one and never by more.    *)
(* With one daemon this is the documented bound --spool-max-queued.        *)
Admitted == {d \in Daemons : pc[d] \in {"copy", "insert"}}
CountBound ==
  MaxQueued > 0 => Cardinality(Held) <= MaxQueued + Cardinality(Daemons) - 1

(* The byte bound of --spool-max-bytes, for a daemon that is alone: it     *)
(* must hold although the size checked first is a Stat taken before the    *)
(* copy and the source may grow under it.                                  *)
BytesBound == MaxQueuedBytes > 0 => HeldBytes <= MaxQueuedBytes

(* What is queued is the whole source: the copy is cut off at a limit, and *)
(* a copy that was cut off is never accepted as a batch.                   *)
StoredWhole == \A b \in Batches : status[b] # "none" => size[b] = length[b]

(* The events of a batch are committed at most once by each daemon on the  *)
(* data dir, crashes and restarts in the middle of processOne included: a  *)
(* daemon that is alone never ingests a batch twice.                       *)
IngestedOncePerDaemon ==
  \A b \in Batches : ingested[b] <= Cardinality(Daemons)

(* Nothing is left behind but where a crash or a failing UPDATE cut an     *)
(* operation short: a file without a row, or of a dropped row, and a row   *)
(* that is processing are in the hands of a daemon.  No error return leaks *)
(* its file or its claim, no drop forgets its file.                        *)
NothingStranded ==
  /\ \A b \in files \ abandoned :
       status[b] \in {"none", "dropped"} => \E d \in Daemons : b \in {batch[d], victim[d]}
  /\ \A b \in Batches \ abandoned :
       status[b] = "processing" => \E d \in Daemons : batch[d] = b /\ pc[d] \in ProcessPCs

(* A batch that is processed, failed or dropped stays so (a daemon that is *)
(* alone): the unconditional final UPDATEs never hit a settled row.        *)
SettledForever ==
  [][\A b \in Batches : status[b] \in Terminal => status'[b] = status[b]]_vars

(* Every accepted batch is eventually processed, failed or dropped. *)
Settles ==
  \A b \in Batches :
    status[b] \in {"queued", "processing"} ~> status[b] \in Terminal

(* The same with crashes and refused statements, but for the batches that  *)
(* one of these took out of a daemon's hands after the claim.              *)
SettlesUnlessAbandoned ==
  \A b \in Batches :
    status[b] \in {"queued", "processing"} ~> status[b] \in Terminal \/ b \in abandoned
=============================================================================
