------------------------------- MODULE MCFair -------------------------------
(* Instances of FairLock for TLC. *)
EXTENDS FairLock
=============================================================================
