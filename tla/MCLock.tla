------------------------------- MODULE MCLock -------------------------------
(* Instances of RedisLock for TLC. *)
EXTENDS RedisLock, TLC

SymHandles == Permutations(Handles)
=============================================================================
