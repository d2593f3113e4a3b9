----------------------------- MODULE MCPolicy ------------------------------
(* Rule sets for the instances of PolicyLayer: event 1 is a secret read,    *)
(* event 2 an orphan.  The built-in rules kill and audit, the edited ones   *)
(* allow both.  Writers are interchangeable.                                *)
EXTENDS PolicyLayer, TLC

MCDecide ==
  [g \in Engines |->
    [e \in Events |-> IF g # Default THEN "allow" ELSE IF e \in Orphans THEN "audit" ELSE "kill"]]

Symmetry == Permutations(Writers)

(* Of two events, two reevaluations and a fault, any but one.               *)
Small == Cardinality(stored) + replays + faults <= 4
=============================================================================
