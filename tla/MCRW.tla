-------------------------------- MODULE MCRW --------------------------------
(* An instance of RWLock for TLC. *)
EXTENDS RWLock, TLC

CONSTANTS o1, o2, r1, r2, r3, w1

\* Two readers share the read handle of the reliable object o1, as re-entrant
\* or concurrent uses do; a reader and a writer use the unreliable object o2.
Shared == r1 :> o1 @@ r2 :> o1 @@ r3 :> o2 @@ w1 :> o2
=============================================================================
