---------------------------- MODULE MessageLife ----------------------------
(***************************************************************************)
(* What the reliable queue promises for each message when consumers settle *)
(* in time: it waits, is delivered to one consumer at a time, and is       *)
(* acknowledged, or tried again as often as MaxRetries allows; only then   *)
(* is it buried or dropped.                                                *)
(***************************************************************************)
EXTENDS Naturals

CONSTANTS Messages, MaxRetries

VARIABLES
    place,      \* where in its life a message is
    retries     \* how often it has been tried again

vars == <<place, retries>>

Init ==
    /\ place = [m \in Messages |-> "new"]
    /\ retries = [m \in Messages |-> 0]

\* m goes from one place to the next, and is tried for the n-th time again.
Move(m, from, to, n) ==
    /\ place[m] = from
    /\ place' = [place EXCEPT ![m] = to]
    /\ retries' = [retries EXCEPT ![m] = n]

Offer(m)   == Move(m, "new", "waiting", 0)
Deliver(m) == Move(m, "waiting", "delivered", retries[m])
Ack(m)     == Move(m, "delivered", "acked", 0)
Retry(m)   == retries[m] < MaxRetries /\ Move(m, "delivered", "waiting", retries[m] + 1)
Bury(m)    == retries[m] = MaxRetries /\ Move(m, "delivered", "dead", retries[m])
Drop(m)    == retries[m] = MaxRetries /\ Move(m, "delivered", "dropped", 0)

\* The poll that took it from the queue failed, or died.
Lose(m)    == Move(m, "waiting", "lost", 0)

Next ==
    \E m \in Messages :
        \/ Offer(m) \/ Deliver(m) \/ Ack(m) \/ Retry(m) \/ Bury(m) \/ Drop(m)
        \/ Lose(m)

Spec == Init /\ [][Next]_vars

=============================================================================
