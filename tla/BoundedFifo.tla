---------------------------- MODULE BoundedFifo ----------------------------
(***************************************************************************)
(* What the telemetry spool promises: a bounded first-in first-out queue   *)
(* that delivers every item at most once, may evict its oldest item, and   *)
(* keeps the room of an item it handed out until the item is released.     *)
(* Spool.tla is shown to implement it (SpoolFifo.tla) for a daemon that    *)
(* has the data dir to itself.                                             *)
(***************************************************************************)
EXTENDS Naturals, Sequences, FiniteSets

CONSTANTS
  Items,
  Capacity    \* 0 for a queue without a bound

VARIABLES
  queue,      \* accepted and waiting, oldest first
  held,       \* handed out and not released
  delivered,  \* how often each item was delivered
  dropped,    \* evicted items
  passed      \* items a consumer could not take and went past

fifoVars == <<queue, held, delivered, dropped, passed>>

Waiting == {queue[i] : i \in DOMAIN queue}

FifoInit ==
  /\ queue = <<>> /\ held = {} /\ dropped = {} /\ passed = {}
  /\ delivered = [x \in Items |-> 0]

(* An item is accepted only while there is room. *)
Accept(x) ==
  /\ x \notin Waiting \cup held \cup dropped
  /\ delivered[x] = 0
  /\ Capacity > 0 => Len(queue) + Cardinality(held) < Capacity
  /\ queue' = Append(queue, x)
  /\ UNCHANGED <<held, delivered, dropped, passed>>

(* Only the oldest item is ever evicted. *)
Evict ==
  /\ queue # <<>>
  /\ dropped' = dropped \cup {Head(queue)}
  /\ queue' = Tail(queue)
  /\ UNCHANGED <<held, delivered, passed>>

(* The oldest item that was not passed by is handed out. *)
Take(i) ==
  /\ \A j \in 1..(i - 1) : queue[j] \in passed
  /\ held' = held \cup {queue[i]}
  /\ queue' = SubSeq(queue, 1, i - 1) \o SubSeq(queue, i + 1, Len(queue))
  /\ UNCHANGED <<delivered, dropped, passed>>

Pass(x) ==
  /\ x \in Waiting
  /\ passed' = passed \cup {x}
  /\ UNCHANGED <<queue, held, delivered, dropped>>

Deliver(x) ==
  /\ x \in held /\ delivered[x] = 0
  /\ delivered' = [delivered EXCEPT ![x] = 1]
  /\ UNCHANGED <<queue, held, dropped, passed>>

Release(x) ==
  /\ x \in held
  /\ held' = held \ {x}
  /\ UNCHANGED <<queue, delivered, dropped, passed>>

FifoNext ==
  \/ Evict
  \/ \E i \in DOMAIN queue : Take(i)
  \/ \E x \in Items : Accept(x) \/ Pass(x) \/ Deliver(x) \/ Release(x)

FifoSpec == FifoInit /\ [][FifoNext]_fifoVars
=============================================================================
