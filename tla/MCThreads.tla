------------------------------ MODULE MCThreads ------------------------------
(* The thread module on two cores.                                         *)
EXTENDS Threads, TLC

(* Cores and workers are told apart by nothing but their names.  Used in   *)
(* the run that checks safety alone.                                       *)
Symmetry == Permutations(Cores) \cup Permutations(Workers)

=============================================================================
