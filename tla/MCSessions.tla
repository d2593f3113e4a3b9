----------------------------- MODULE MCSessions -----------------------------
(* Model-checking instance of Sessions.  A fourth identifier is drawn only  *)
(* while nothing was executed (chains of snapshots need four), and refusals *)
(* and crashes strike one session with at most one event.                   *)
EXTENDS Sessions

Small ==
  /\ Drawn <= 3 \/ \A p \in Execs : exec[p] = NoExec
  /\ faults > 0 => Drawn <= 3 /\ events <= 1 /\ \A s \in Sessions : s > 1 => docker[s] = "none"
=============================================================================
