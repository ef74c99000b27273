------------------------------ MODULE MCDestroy ------------------------------
(* Instances of QueueDestroy for TLC. *)
EXTENDS QueueDestroy, TLC

SymAll == Permutations(Messages) \cup Permutations(Workers) \cup Permutations(Cleaners)
=============================================================================
