---------------------------- MODULE QueueDestroy ----------------------------
(***************************************************************************)
(* The life of the queue objects, on top of ReliableQueue: Destroy stops   *)
(* the cleanup goroutine of its object, lists the keys of the queue and    *)
(* deletes the ones it listed, while the other objects go on using them.   *)
(*                                                                         *)
(* A cleaner of ReliableQueue is the object with its goroutine; the worker *)
(* that calls Destroy is in the process of that object.                    *)
(***************************************************************************)
EXTENDS ReliableQueue

VARIABLES
    closed,     \* the objects whose cleanupStop is closed
    done,       \* the objects whose goroutine returned: cleanupDone is closed
    stage,      \* where the Destroy of a worker stands
    object,     \* the object it destroys
    keys,       \* the keys it has listed
    stale       \* history: whose listing others have outdated

life  == <<closed, done, stage, object, keys>>
dvars == <<vars, life, stale>>

Collections == {"pending", "processing", "delayed", "dead_letter", "stats"}

Members(k) ==
    CASE k = "pending" -> ToSet(pending)
      [] k = "processing" -> processing
      [] k = "delayed" -> ToSet(delayed)
      [] k = "dead_letter" -> ToSet(deadLetter)
      [] k = "stats" -> {f \in Counters : stats[f] > 0}

\* KEYS reliable_queue:<name>:*, where a collection without members is no key.
Existing == stored \cup {k \in Collections : Members(k) # {}}

Users(c) == {w \in Workers : object[w] = c}

DestroyInit ==
    /\ Init
    /\ closed = {} /\ done = {}
    /\ stage = [w \in Workers |-> "none"]
    /\ object = [w \in Workers |-> None]
    /\ keys = [w \in Workers |-> {}]
    /\ stale = {}

\* The Destroys that have listed what p, another worker or another object's
\* goroutine, now changes.
Outdate(p) ==
    stale' = IF redis' = redis THEN stale
             ELSE stale \cup {w \in Workers \ {p} : stage[w] = "listed" /\ object[w] # p}

DestroyReturn(w) ==
    /\ stage' = [stage EXCEPT ![w] = "none"]
    /\ object' = [object EXCEPT ![w] = None]
    /\ keys' = [keys EXCEPT ![w] = {}]

-----------------------------------------------------------------------------
(* Destroy                                                                  *)

\* close(cleanupStop)
DestroyStart(w, c) ==
    /\ stage[w] = "none" /\ pc[w] = "idle" /\ c \notin closed
    /\ closed' = closed \cup {c}
    /\ stage' = [stage EXCEPT ![w] = "stopping"]
    /\ object' = [object EXCEPT ![w] = c]
    /\ UNCHANGED <<vars, done, keys, stale>>

\* Mutant of CleanStop: the goroutine leaves a round it is in.
CleanStopAtOnce(c) ==
    /\ c \in closed \ done
    /\ done' = done \cup {c}
    /\ UNCHANGED <<vars, closed, stage, object, keys, stale>>

\* Between two rounds the goroutine may see that it has to stop; with a tick
\* at the same time it may just as well do another round.
CleanStop(c) ==
    /\ pc[c] = "idle" /\ c \in closed \ done
    /\ done' = done \cup {c}
    /\ UNCHANGED <<vars, closed, stage, object, keys, stale>>

\* Mutant of DestroyKeys: it does not wait for cleanupDone.
DestroyKeysAtOnce(w) ==
    /\ stage[w] = "stopping"
    /\ stage' = [stage EXCEPT ![w] = "listed"]
    /\ keys' = [keys EXCEPT ![w] = Existing]
    /\ stale' = stale \ {w}
    /\ UNCHANGED <<vars, closed, done, object>>

\* <-cleanupDone and KEYS
DestroyKeys(w) ==
    /\ stage[w] = "stopping" /\ object[w] \in done
    /\ stage' = [stage EXCEPT ![w] = "listed"]
    /\ keys' = [keys EXCEPT ![w] = Existing]
    /\ stale' = stale \ {w}
    /\ UNCHANGED <<vars, closed, done, object>>

\* DEL of the keys that were listed, with whatever they hold by now.
DestroyDel(w) ==
    /\ stage[w] = "listed"
    /\ stored' = stored \ keys[w]
    /\ retryCount' = [m \in Messages |-> IF m \in keys[w] THEN 0 ELSE retryCount[m]]
    /\ pending' = IF "pending" \in keys[w] THEN <<>> ELSE pending
    /\ deadLetter' = IF "dead_letter" \in keys[w] THEN <<>> ELSE deadLetter
    /\ delayed' = IF "delayed" \in keys[w] THEN <<>> ELSE delayed
    /\ visibleIn' = [m \in Messages |-> IF "delayed" \in keys[w] THEN 0 ELSE visibleIn[m]]
    /\ processing' = IF "processing" \in keys[w] THEN {} ELSE processing
    /\ expiresIn' = [m \in Messages |-> IF "processing" \in keys[w] THEN 0 ELSE expiresIn[m]]
    /\ stats' = [f \in Counters |-> IF "stats" \in keys[w] THEN 0 ELSE stats[f]]
    /\ Settle(keys[w] \cup UNION {Members(k) : k \in keys[w] \cap Collections}, "discarded")
    /\ DestroyReturn(w)
    /\ Outdate(w)
    /\ UNCHANGED <<local, holds, closed, done>>

\* KEYS or DEL returns an error; the goroutine has stopped all the same.
DestroyFail(w) ==
    /\ "error" \in Faults
    /\ stage[w] # "none" /\ object[w] \in done
    /\ DestroyReturn(w)
    /\ UNCHANGED <<vars, closed, done, stale>>

\* The workers ws die with their process, in which object c is created anew.
Restart(ws, c) ==
    /\ holds' = [w \in Workers |-> IF w \in ws THEN {} ELSE holds[w]]
    /\ Return(c)
    /\ listed' = [listed EXCEPT ![c] = {}]
    /\ closed' = closed \ {c} /\ done' = done \ {c}
    /\ stage' = [w \in Workers |-> IF w \in ws THEN "none" ELSE stage[w]]
    /\ object' = [w \in Workers |-> IF w \in ws THEN None ELSE object[w]]
    /\ keys' = [w \in Workers |-> IF w \in ws THEN {} ELSE keys[w]]
    /\ UNCHANGED <<redis, due, fate, stale>>

\* Destroy of an object that is destroyed: close of a closed channel panics.
DestroyPanic(w, c) ==
    /\ stage[w] = "none" /\ pc[w] = "idle" /\ c \in closed
    /\ Restart(Users(c) \cup {w}, c)

\* The process of a worker dies in Destroy.
DestroyCrash(w) ==
    /\ "crash" \in Faults
    /\ stage[w] # "none"
    /\ Restart(Users(object[w]), object[w])

\* NewReliableQueue after Destroy.
Reopen(c) ==
    /\ c \in done /\ Users(c) = {}
    /\ closed' = closed \ {c} /\ done' = done \ {c}
    /\ UNCHANGED <<vars, stage, object, keys, stale>>

-----------------------------------------------------------------------------
\* What workers that are not in Destroy do, and goroutines that have not returned.
Use(w) ==
    /\ stage[w] = "none"
    /\ PollStart(w) \/ SettleHeld(w) \/ Operate(w) \/ Continue(w) \/ Fail(w) \/ Crash(w)
    /\ Outdate(w) /\ UNCHANGED life

Clean(c) ==
    /\ c \notin done
    /\ CleanStep(c) \/ CleanFail(c) \/ (Users(c) = {} /\ CleanCrash(c))
    /\ Outdate(c) /\ UNCHANGED life

DestroyNext ==
    \/ \E w \in Workers : \/ Use(w) \/ DestroyKeys(w) \/ DestroyDel(w)
                          \/ DestroyFail(w) \/ DestroyCrash(w)
                          \/ \E c \in Cleaners : DestroyStart(w, c) \/ DestroyPanic(w, c)
    \/ \E c \in Cleaners : Clean(c) \/ CleanStop(c) \/ Reopen(c)
    \/ Tick /\ UNCHANGED <<life, stale>>

DestroySpec == DestroyInit /\ [][DestroyNext]_dvars

-----------------------------------------------------------------------------
(* Properties                                                               *)

DestroyTypeOK ==
    /\ closed \subseteq Cleaners /\ done \subseteq closed
    /\ stage \in [Workers -> {"none", "stopping", "listed"}]
    /\ object \in [Workers -> Cleaners \cup {None}]
    /\ keys \in [Workers -> SUBSET (Messages \cup Collections)]
    /\ stale \subseteq Workers

\* A goroutine that returned is between two rounds, and a Destroy has listed
\* the keys only after its own goroutine returned.
StoppedFirst ==
    /\ \A c \in done : pc[c] = "idle"
    /\ \A w \in Workers : stage[w] = "listed" => object[w] \in done
    /\ \A w \in Workers : stage[w] # "none" => object[w] \in closed /\ pc[w] = "idle"

\* As long as no other worker and no other object's goroutine has changed the
\* queue since, a Destroy has listed every key of it.
ListingIsComplete ==
    \A w \in Workers : stage[w] = "listed" /\ w \notin stale => Existing \subseteq keys[w]

DestroyInv == QueueInv /\ DestroyTypeOK /\ StoppedFirst /\ ListingIsComplete

\* Destroy then leaves nothing behind, whatever its own goroutine was at when
\* it was stopped.
DestroyLeavesNothing ==
    [][\A w \in Workers : DestroyDel(w) /\ w \notin stale => Existing' = {}]_dvars

=============================================================================
