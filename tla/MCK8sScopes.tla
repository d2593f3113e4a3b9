---------------------------- MODULE MCK8sScopes ----------------------------
(* Workers, container names and uids are interchangeable.  Behaviours with *)
(* a restart of the controller have one start of a container.              *)
EXTENDS K8sScopes, TLC

Symmetry ==
  Permutations(Workers) \cup Permutations(Names) \cup Permutations(Uids)

Small == restarts = 0 \/ starts <= 1
=============================================================================
