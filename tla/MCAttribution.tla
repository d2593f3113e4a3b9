--------------------------- MODULE MCAttribution ---------------------------
(* Model-checking instance of Attribution: which pid a process gets does    *)
(* not matter, only who else has or had it.  Behaviours with a third        *)
(* process have no extras, those with extras two processes.                 *)
EXTENDS Attribution, TLC
Symmetry == Permutations(Pids)
Small == spent = 0 \/ Cardinality(Procs \ Unborn) <= 2
=============================================================================
