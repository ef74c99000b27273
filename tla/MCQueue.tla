------------------------------ MODULE MCQueue ------------------------------
(* Instances of ReliableQueue for TLC. *)
EXTENDS ReliableQueue, TLC

\* Messages are interchangeable.  Workers and Cleaners are not when only some
\* of their queue instances have a dead-letter queue.
SymMessages == Permutations(Messages)
SymAll == SymMessages \cup Permutations(Workers) \cup Permutations(Cleaners)
=============================================================================
