----------------------------- MODULE LeaseLock -----------------------------
(***************************************************************************)
(* What a lock of package lock promises, whatever it does to keep it: a    *)
(* client relies on the lock for the time of a lease, and while a client   *)
(* of Exclusive does, no other client relies on it.                        *)
(***************************************************************************)
CONSTANTS
    Clients,    \* who may rely on the lock
    Exclusive   \* those of them that share it with nobody

VARIABLE relying    \* the clients whose lease has not ended

Compatible(S) == \A x \in S \cap Exclusive : S = {x}

Init == relying = {}

\* A lease begins, one at a time: the lock is never handed from one client to
\* another in one step.
Grant(x) ==
    /\ x \notin relying
    /\ Compatible(relying \cup {x})
    /\ relying' = relying \cup {x}

\* Leases end: by release, by force, by the death of a process or in time.
End == relying' \in SUBSET relying

Next == (\E x \in Clients : Grant(x)) \/ End

Spec == Init /\ [][Next]_relying

=============================================================================
