--------------------------- MODULE ReliableQueue ---------------------------
(***************************************************************************)
(* The Redis-backed reliable queue of reliablequeue/queue.go: one queue    *)
(* name, shared by the application threads (Workers) that call its methods *)
(* and by the background cleanup goroutines (Cleaners), one of which every *)
(* NewReliableQueue starts.                                                *)
(*                                                                         *)
(* A step of the specification is one round trip to Redis.  A Lua script   *)
(* and a MULTI/EXEC pipeline are atomic; a method that makes several round *)
(* trips is several actions, with the control point of the caller in pc    *)
(* and what it has read so far in key, reg and listed.                     *)
(*                                                                         *)
(* Time is counted in seconds, the resolution of the scores the code       *)
(* writes with Unix().  Every score is kept relative to the clock, as the  *)
(* seconds left until the clock reaches it: "score <= now" reads           *)
(* "0 seconds left", and Tick takes one second off.                        *)
(***************************************************************************)
EXTENDS Integers, FiniteSets, Sequences, SequencesExt

CONSTANTS
    Messages,           \* the message keys (uuids) that can be offered
    None,               \* no message key
    Workers,            \* application threads that use the queue
    Cleaners,           \* cleanup goroutines, one per queue instance
    MaxRetries,         \* Config.MaxRetries
    VisibilityTimeout,  \* Config.VisibilityTimeout, in seconds
    Delays,             \* delays OfferWithDelay is called with, in seconds
    EnableDeadLetter,   \* the callers whose instance has Config.EnableDeadLetter
    Calls,              \* the optional methods the application uses
    Faults,             \* what may go wrong around the program
    MaxEntries,         \* bound: entries of the pending and dead-letter lists
    MaxCount            \* bound: value of the total_processed, total_failed counters

AllCalls == {"Nack", "RequeueDeadLetter", "PurgeDeadLetters", "Clear"}

\* crash: a worker's process dies.   error: a Redis call returns an error.
\* late:  a consumer may still hold a message when its visibility timeout ends.
AllFaults == {"crash", "error", "late"}

ASSUME QueueAssumption ==
    /\ None \notin Messages
    /\ Workers \cap Cleaners = {}
    /\ MaxRetries \in Nat
    /\ VisibilityTimeout \in Nat
    /\ Delays \subseteq Nat
    /\ EnableDeadLetter \subseteq Workers \cup Cleaners
    /\ Calls \subseteq AllCalls
    /\ Faults \subseteq AllFaults
    /\ MaxEntries \in Nat
    /\ MaxCount \in Nat

VARIABLES
    \* Redis
    pending,      \* list :pending, head at 1; LPUSH at the head, RPOP at the end
    deadLetter,   \* list :dead_letter
    processing,   \* members of the sorted set :processing
    expiresIn,    \* their scores: seconds until the visibility timeout
    delayed,      \* sorted set :delayed, as the sequence of its members by score
    visibleIn,    \* their scores: seconds until the message becomes visible
    stored,       \* the :message:<id> keys that exist
    retryCount,   \* RetryCount in the stored message
    stats,        \* hash :stats
    \* the callers
    pc,           \* where the operation in progress stands
    key,          \* the message key it works on
    reg,          \* the RetryCount it has read
    due,          \* seconds until the timeout score it has computed
    listed,       \* the message keys it has listed
    holds,        \* the messages a worker was given and has not settled
    \* history
    fate          \* what became of each message

lists    == <<pending, deadLetter>>
inFlight == <<processing, expiresIn>>
waiting  == <<delayed, visibleIn>>
data     == <<stored, retryCount>>
redis    == <<lists, inFlight, waiting, data, stats>>
local    == <<pc, key, reg, due, listed>>
vars     == <<redis, local, holds, fate>>

Counters == {"enqueued", "processed", "failed"}

Procs == Workers \cup Cleaners

WorkerPCs == {"idle", "polling", "popped", "fetched", "nackChecked",
              "nackFetched", "requeued", "requeueFetched", "purging"}
CleanerPCs == {"idle", "scanning", "timedOut", "missing"}

\* open: offered and still owed to the application; the others are final.
Fates == {"new", "open", "acked", "dropped", "discarded", "lost"}

\* m is in one of the structures of the queue.
Queued(m) == \/ m \in ToSet(pending) \/ m \in ToSet(delayed)
             \/ m \in processing \/ m \in ToSet(deadLetter)

\* Between RPOP and the script that adds the key to :processing, the only
\* trace of a polled message is the polling worker's memory.
InHandOf(w, m) == key[w] = m /\ pc[w] \in {"popped", "fetched"}
InHand(m) == \E w \in Workers : InHandOf(w, m)

-----------------------------------------------------------------------------
Init ==
    /\ pending = <<>> /\ deadLetter = <<>>
    /\ processing = {} /\ expiresIn = [m \in Messages |-> 0]
    /\ delayed = <<>> /\ visibleIn = [m \in Messages |-> 0]
    /\ stored = {} /\ retryCount = [m \in Messages |-> 0]
    /\ stats = [f \in Counters |-> 0]
    /\ pc = [p \in Procs |-> "idle"]
    /\ key = [p \in Procs |-> None]
    /\ reg = [p \in Procs |-> 0]
    /\ due = [w \in Workers |-> 0]
    /\ listed = [p \in Procs |-> {}]
    /\ holds = [w \in Workers |-> {}]
    /\ fate = [m \in Messages |-> "new"]

Settle(ms, f) ==
    fate' = [m \in Messages |-> IF m \in ms /\ fate[m] = "open" THEN f ELSE fate[m]]

\* The head of a list is the sequence's first element, RPOP takes the last.
LPush(list, m) == <<m>> \o list

\* p stands at l, works on k and remembers r.
Goto(p, l, k, r) ==
    /\ pc' = [pc EXCEPT ![p] = l]
    /\ key' = [key EXCEPT ![p] = k]
    /\ reg' = [reg EXCEPT ![p] = r]

Return(p) == Goto(p, "idle", None, 0)

-----------------------------------------------------------------------------
(* Offer and OfferWithDelay: one script.  A delay that ends within the     *)
(* current second counts as no delay.                                      *)
Offer(w, m, d) ==
    /\ pc[w] = "idle"
    /\ fate[m] = "new"
    /\ fate' = [fate EXCEPT ![m] = "open"]
    /\ stored' = stored \cup {m}
    /\ retryCount' = [retryCount EXCEPT ![m] = 0]
    /\ stats' = [stats EXCEPT !["enqueued"] = @ + 1]
    /\ \/ /\ d = 0
          /\ pending' = LPush(pending, m)
          /\ UNCHANGED waiting
       \/ /\ d > 0
          /\ visibleIn' = [visibleIn EXCEPT ![m] = d]
          \* the position ZADD gives it; keys with equal scores in any order
          /\ \E i \in 1..Len(delayed) + 1 :
                /\ \A j \in 1..i-1 : visibleIn[delayed[j]] <= d
                /\ \A j \in i..Len(delayed) : visibleIn[delayed[j]] >= d
                /\ delayed' = InsertAt(delayed, i, m)
          /\ UNCHANGED pending
    /\ UNCHANGED <<deadLetter, inFlight, local, holds>>

\* Mutant of MoveDelayed: one more member is removed than was pushed.
MoveDelayedRemovesMore ==
    /\ \E n \in 0..Len(delayed) :
          /\ \A i \in 1..n : visibleIn[delayed[i]] = 0
          /\ \A i \in n+1..Len(delayed) : visibleIn[delayed[i]] > 0
          /\ pending' = Reverse(SubSeq(delayed, 1, n)) \o pending
          /\ delayed' = SubSeq(delayed, n + 2, Len(delayed))
    /\ UNCHANGED <<deadLetter, inFlight, visibleIn, data, stats>>

\* moveDelayedMessages: the due prefix of :delayed, pushed in score order.
MoveDelayed ==
    /\ \E n \in 0..Len(delayed) :
          /\ \A i \in 1..n : visibleIn[delayed[i]] = 0
          /\ \A i \in n+1..Len(delayed) : visibleIn[delayed[i]] > 0
          /\ pending' = Reverse(SubSeq(delayed, 1, n)) \o pending
          /\ delayed' = SubSeq(delayed, n + 1, Len(delayed))
    /\ UNCHANGED <<deadLetter, inFlight, visibleIn, data, stats>>

-----------------------------------------------------------------------------
(* Poll and PollWithTimeout                                                *)

PollStart(w) ==
    /\ pc[w] = "idle"
    /\ MoveDelayed
    /\ Goto(w, "polling", None, 0)
    /\ UNCHANGED <<due, listed, holds, fate>>

\* Mutant of PollPop: the entry is read and stays in the list.
PollPeek(w) ==
    /\ pc[w] = "polling"
    /\ pending # <<>>
    /\ Goto(w, "popped", Last(pending), 0)
    /\ UNCHANGED <<redis, due, listed, holds, fate>>

\* RPOP or BRPOP found an entry.
PollPop(w) ==
    /\ pc[w] = "polling"
    /\ pending # <<>>
    /\ pending' = Front(pending)
    /\ Goto(w, "popped", Last(pending), 0)
    /\ UNCHANGED <<deadLetter, inFlight, waiting, data, stats, due, listed, holds, fate>>

\* RPOP found none, or BRPOP timed out: no message.
PollEmpty(w) ==
    /\ pc[w] = "polling"
    /\ pending = <<>>
    /\ Return(w)
    /\ UNCHANGED <<redis, due, listed, holds, fate>>

\* The caller reads its clock here, so the score may be old when it is written.
PollFetch(w) ==
    /\ pc[w] = "popped"
    /\ \/ /\ key[w] \in stored
          /\ Goto(w, "fetched", key[w], retryCount[key[w]])
          /\ due' = [due EXCEPT ![w] = VisibilityTimeout]
       \/ /\ key[w] \notin stored     \* the entry is dropped, no message
          /\ Return(w)
          /\ UNCHANGED due
    /\ UNCHANGED <<redis, listed, holds, fate>>

\* The script writes the message as it was read, and hands it to the caller.
PollMove(w) ==
    /\ pc[w] = "fetched"
    /\ stored' = stored \cup {key[w]}
    /\ retryCount' = [retryCount EXCEPT ![key[w]] = reg[w]]
    /\ processing' = processing \cup {key[w]}
    /\ expiresIn' = [expiresIn EXCEPT ![key[w]] = due[w]]
    /\ due' = [due EXCEPT ![w] = 0]
    /\ holds' = [holds EXCEPT ![w] = @ \cup {key[w]}]
    /\ Return(w)
    /\ UNCHANGED <<lists, waiting, stats, listed, fate>>

-----------------------------------------------------------------------------
\* Mutant of Ack: the data is deleted whether or not the entry was there.
AckDeletesAnyway(w, m) ==
    /\ pc[w] = "idle"
    /\ m \in holds[w]
    /\ holds' = [holds EXCEPT ![w] = @ \ {m}]
    /\ stored' = stored \ {m}
    /\ retryCount' = [retryCount EXCEPT ![m] = 0]
    /\ processing' = processing \ {m}
    /\ expiresIn' = [expiresIn EXCEPT ![m] = 0]
    /\ \/ /\ m \in processing
          /\ stats["processed"] < MaxCount
          /\ stats' = [stats EXCEPT !["processed"] = @ + 1]
          /\ Settle({m}, "acked")
       \/ /\ m \notin processing
          /\ UNCHANGED <<stats, fate>>
    /\ UNCHANGED <<lists, waiting, local>>

(* Ack: one script, by the message id alone.  When the message is not in   *)
(* :processing the caller gets an error and gives the message up.          *)
Ack(w, m) ==
    /\ pc[w] = "idle"
    /\ m \in holds[w]
    /\ holds' = [holds EXCEPT ![w] = @ \ {m}]
    /\ \/ /\ m \in processing
          /\ stats["processed"] < MaxCount
          /\ processing' = processing \ {m}
          /\ expiresIn' = [expiresIn EXCEPT ![m] = 0]
          /\ stored' = stored \ {m}
          /\ retryCount' = [retryCount EXCEPT ![m] = 0]
          /\ stats' = [stats EXCEPT !["processed"] = @ + 1]
          /\ Settle({m}, "acked")
       \/ /\ m \notin processing
          /\ UNCHANGED <<inFlight, data, stats, fate>>
    /\ UNCHANGED <<lists, waiting, local>>

-----------------------------------------------------------------------------
\* Mutant of RetryOrBury: no ZREM for a message that is retried.
RetryWithoutRemoval(p, m, r) ==
    /\ Len(pending) + Len(deadLetter) < MaxEntries
    /\ r <= MaxRetries
    /\ stored' = stored \cup {m}
    /\ retryCount' = [retryCount EXCEPT ![m] = r]
    /\ pending' = LPush(pending, m)
    /\ UNCHANGED <<deadLetter, inFlight, stats, fate, waiting>>

\* Mutant of RetryOrBury: a retried message is counted as failed.
RetryCountsAsFailure(p, m, r) ==
    /\ Len(pending) + Len(deadLetter) < MaxEntries
    /\ stats["failed"] < MaxCount
    /\ r <= MaxRetries
    /\ processing' = processing \ {m}
    /\ expiresIn' = [expiresIn EXCEPT ![m] = 0]
    /\ stored' = stored \cup {m}
    /\ retryCount' = [retryCount EXCEPT ![m] = r]
    /\ pending' = LPush(pending, m)
    /\ stats' = [stats EXCEPT !["failed"] = @ + 1]
    /\ UNCHANGED <<deadLetter, fate, waiting>>

(* The MULTI/EXEC transaction of caller p that ends both Nack and           *)
(* handleTimeoutMessage: r is the incremented RetryCount.  Nothing in it    *)
(* depends on whether m is still in :processing.                            *)
RetryOrBury(p, m, r) ==
    /\ Len(pending) + Len(deadLetter) < MaxEntries
    /\ stats["failed"] < MaxCount
    /\ processing' = processing \ {m}
    /\ expiresIn' = [expiresIn EXCEPT ![m] = 0]
    /\ \/ /\ r <= MaxRetries
          /\ stored' = stored \cup {m}
          /\ retryCount' = [retryCount EXCEPT ![m] = r]
          /\ pending' = LPush(pending, m)
          /\ UNCHANGED <<deadLetter, stats, fate>>
       \/ /\ r > MaxRetries
          /\ p \in EnableDeadLetter
          /\ deadLetter' = LPush(deadLetter, m)
          /\ stats' = [stats EXCEPT !["failed"] = @ + 1]
          /\ UNCHANGED <<pending, data, fate>>
       \/ /\ r > MaxRetries
          /\ p \notin EnableDeadLetter
          /\ stored' = stored \ {m}
          /\ retryCount' = [retryCount EXCEPT ![m] = 0]
          /\ stats' = [stats EXCEPT !["failed"] = @ + 1]
          /\ Settle({m}, "dropped")
          /\ UNCHANGED lists
    /\ UNCHANGED waiting

\* Mutant of NackCheck: the message id is not kept for the next steps.
NackCheckForgets(w, m) ==
    /\ "Nack" \in Calls
    /\ pc[w] = "idle"
    /\ m \in holds[w] \cap processing
    /\ Goto(w, "nackChecked", None, 0)
    /\ UNCHANGED <<redis, due, listed, holds, fate>>

\* ZSCORE: a message that is not in :processing is an error to the caller.
NackCheck(w, m) ==
    /\ "Nack" \in Calls
    /\ pc[w] = "idle"
    /\ m \in holds[w]
    /\ \/ /\ m \in processing
          /\ Goto(w, "nackChecked", m, 0)
          /\ UNCHANGED holds
       \/ /\ m \notin processing
          /\ holds' = [holds EXCEPT ![w] = @ \ {m}]
          /\ UNCHANGED <<pc, key, reg>>
    /\ UNCHANGED <<redis, due, listed, fate>>

NackFetch(w) ==
    /\ pc[w] = "nackChecked"
    /\ \/ /\ key[w] \in stored
          /\ Goto(w, "nackFetched", key[w], retryCount[key[w]])
          /\ UNCHANGED holds
       \/ /\ key[w] \notin stored
          /\ holds' = [holds EXCEPT ![w] = @ \ {key[w]}]
          /\ Return(w)
    /\ UNCHANGED <<redis, due, listed, fate>>

NackExec(w) ==
    /\ pc[w] = "nackFetched"
    /\ RetryOrBury(w, key[w], reg[w] + 1)
    /\ holds' = [holds EXCEPT ![w] = @ \ {key[w]}]
    /\ Return(w)
    /\ UNCHANGED <<due, listed>>

-----------------------------------------------------------------------------
(* RequeueDeadLetter: a script, then a read and a write of the message.    *)

Requeue(w, m) ==
    /\ "RequeueDeadLetter" \in Calls
    /\ stats["failed"] + Cardinality(Messages) <= MaxCount  \* bound: all may fail again
    /\ pc[w] = "idle"
    /\ \E i \in 1..Len(deadLetter) :      \* LPOS and LREM of the first entry
          /\ deadLetter[i] = m
          /\ \A j \in 1..i-1 : deadLetter[j] # m
          /\ deadLetter' = RemoveAt(deadLetter, i)
    /\ \/ /\ m \in stored
          /\ pending' = LPush(pending, m)
          /\ Goto(w, "requeued", m, 0)
       \/ /\ m \notin stored          \* NOT_FOUND, the entry is gone
          /\ UNCHANGED <<pending, pc, key, reg>>
    /\ UNCHANGED <<inFlight, waiting, data, stats, due, listed, holds, fate>>

RequeueFetch(w) ==
    /\ pc[w] = "requeued"
    /\ \/ /\ key[w] \in stored
          /\ Goto(w, "requeueFetched", key[w], 0)
       \/ /\ key[w] \notin stored
          /\ Return(w)
    /\ UNCHANGED <<redis, due, listed, holds, fate>>

RequeueReset(w) ==
    /\ pc[w] = "requeueFetched"
    /\ stored' = stored \cup {key[w]}
    /\ retryCount' = [retryCount EXCEPT ![key[w]] = 0]
    /\ Return(w)
    /\ UNCHANGED <<lists, inFlight, waiting, stats, due, listed, holds, fate>>

-----------------------------------------------------------------------------
(* PurgeDeadLetters and Clear                                              *)

PurgeList(w) ==
    /\ "PurgeDeadLetters" \in Calls
    /\ pc[w] = "idle"
    /\ Goto(w, "purging", None, 0)
    /\ listed' = [listed EXCEPT ![w] = ToSet(deadLetter)]
    /\ UNCHANGED <<redis, due, holds, fate>>

PurgeExec(w) ==
    /\ pc[w] = "purging"
    /\ stored' = stored \ listed[w]
    /\ retryCount' = [m \in Messages |-> IF m \in listed[w] THEN 0 ELSE retryCount[m]]
    /\ deadLetter' = <<>>
    /\ Settle(ToSet(deadLetter), "discarded")
    /\ Return(w)
    /\ listed' = [listed EXCEPT ![w] = {}]
    /\ UNCHANGED <<pending, inFlight, waiting, stats, due, holds>>

\* Clear and Delete: the four key collections go, the message data stays.
Clear(w) ==
    /\ "Clear" \in Calls
    /\ pc[w] = "idle"
    /\ pending' = <<>> /\ deadLetter' = <<>>
    /\ processing' = {} /\ expiresIn' = [m \in Messages |-> 0]
    /\ delayed' = <<>> /\ visibleIn' = [m \in Messages |-> 0]
    /\ Settle(ToSet(pending) \cup ToSet(deadLetter) \cup ToSet(delayed) \cup processing,
              "discarded")
    /\ UNCHANGED <<data, stats, local, holds>>

-----------------------------------------------------------------------------
(* cleanupTask: on a tick, processTimeoutMessages lists what has expired   *)
(* and handles it message by message, then moveDelayedMessages runs.       *)

\* Mutant of CleanList: the bound of the range is one second too far.
CleanListEarly(c) ==
    /\ pc[c] = "idle"
    /\ Goto(c, "scanning", None, 0)
    /\ listed' = [listed EXCEPT ![c] = {m \in processing : expiresIn[m] <= 1}]
    /\ UNCHANGED <<redis, due, holds, fate>>

CleanList(c) ==
    /\ pc[c] = "idle"
    /\ Goto(c, "scanning", None, 0)
    /\ listed' = [listed EXCEPT ![c] = {m \in processing : expiresIn[m] = 0}]
    /\ UNCHANGED <<redis, due, holds, fate>>

CleanFetch(c, m) ==
    /\ pc[c] = "scanning"
    /\ m \in listed[c]
    /\ listed' = [listed EXCEPT ![c] = @ \ {m}]
    /\ \/ /\ m \in stored
          /\ Goto(c, "timedOut", m, retryCount[m])
       \/ /\ m \notin stored
          /\ Goto(c, "missing", m, 0)
    /\ UNCHANGED <<redis, due, holds, fate>>

\* Mutant of CleanExec: RetryCount is not incremented.
CleanExecSameCount(c) ==
    /\ pc[c] = "timedOut"
    /\ RetryOrBury(c, key[c], reg[c])
    /\ Goto(c, "scanning", None, 0)
    /\ UNCHANGED <<due, listed, holds>>

CleanExec(c) ==
    /\ pc[c] = "timedOut"
    /\ RetryOrBury(c, key[c], reg[c] + 1)
    /\ Goto(c, "scanning", None, 0)
    /\ UNCHANGED <<due, listed, holds>>

\* ZREM of an entry whose message was found deleted.
CleanDrop(c) ==
    /\ pc[c] = "missing"
    /\ processing' = processing \ {key[c]}
    /\ expiresIn' = [expiresIn EXCEPT ![key[c]] = 0]
    /\ Goto(c, "scanning", None, 0)
    /\ UNCHANGED <<lists, waiting, data, stats, due, listed, holds, fate>>

\* Mutant of CleanMove: the due messages of :delayed are left to the polls.
CleanMoveNothing(c) ==
    /\ pc[c] = "scanning"
    /\ listed[c] = {}
    /\ Goto(c, "idle", None, 0)
    /\ UNCHANGED <<redis, due, listed, holds, fate>>

CleanMove(c) ==
    /\ pc[c] = "scanning"
    /\ listed[c] = {}
    /\ MoveDelayed
    /\ Goto(c, "idle", None, 0)
    /\ UNCHANGED <<due, listed, holds, fate>>

-----------------------------------------------------------------------------
(* The environment                                                         *)

\* What only worker w still had in hand leaves no trace.
Forget(w) ==
    Settle({m \in Messages : /\ InHandOf(w, m) /\ ~Queued(m)
                             /\ \A v \in Workers \ {w} : ~InHandOf(v, m)}, "lost")

\* A Redis call of w returns an error: the method returns it.
Fail(w) ==
    /\ "error" \in Faults
    /\ pc[w] # "idle"
    /\ Forget(w)
    /\ Return(w)
    /\ due' = [due EXCEPT ![w] = 0]
    /\ listed' = [listed EXCEPT ![w] = {}]
    /\ UNCHANGED <<redis, holds>>

\* A Redis call of c returns an error: on to the next message, or, with no
\* message left, to the next tick.  After a failed listing there is none.
CleanFail(c) ==
    /\ "error" \in Faults
    /\ \/ /\ pc[c] \in {"idle", "timedOut", "missing"}
          /\ Goto(c, "scanning", None, 0)
          /\ UNCHANGED listed
       \/ /\ pc[c] = "scanning"
          /\ \E m \in listed[c] : listed' = [listed EXCEPT ![c] = @ \ {m}]
          /\ UNCHANGED <<pc, key, reg>>
       \/ /\ pc[c] = "scanning"
          /\ listed[c] = {}
          /\ Goto(c, "idle", None, 0)
          /\ UNCHANGED listed
    /\ UNCHANGED <<redis, due, holds, fate>>

\* The process of w dies and starts again with nothing in memory.
Crash(w) ==
    /\ "crash" \in Faults
    /\ pc[w] # "idle" \/ holds[w] # {}
    /\ Forget(w)
    /\ Return(w)
    /\ due' = [due EXCEPT ![w] = 0]
    /\ listed' = [listed EXCEPT ![w] = {}]
    /\ holds' = [holds EXCEPT ![w] = {}]
    /\ UNCHANGED redis

\* The process of c dies and its queue is created again.
CleanCrash(c) ==
    /\ "crash" \in Faults
    /\ pc[c] # "idle"
    /\ Return(c)
    /\ listed' = [listed EXCEPT ![c] = {}]
    /\ UNCHANGED <<redis, due, holds, fate>>

\* Every consumer settles what it was given before its timeout.
Prompt ==
    \A w \in Workers :
        /\ \A m \in holds[w] \cap processing : expiresIn[m] > 1
        /\ pc[w] = "fetched" => due[w] > 1

\* One second passes; without the fault "late", consumers are prompt.
Tick ==
    /\ \/ \E m \in Messages : expiresIn[m] > 0 \/ visibleIn[m] > 0
       \/ \E w \in Workers : due[w] > 0
    /\ "late" \in Faults \/ Prompt
    /\ expiresIn' = [m \in Messages |-> IF expiresIn[m] > 0 THEN expiresIn[m] - 1 ELSE 0]
    /\ visibleIn' = [m \in Messages |-> IF visibleIn[m] > 0 THEN visibleIn[m] - 1 ELSE 0]
    /\ due' = [w \in Workers |-> IF due[w] > 0 THEN due[w] - 1 ELSE 0]
    /\ UNCHANGED <<lists, processing, delayed, data, stats, pc, key, reg, listed, holds, fate>>

-----------------------------------------------------------------------------
\* An operation of w that has begun goes on.
Continue(w) ==
    \/ PollPop(w) \/ PollEmpty(w) \/ PollFetch(w) \/ PollMove(w)
    \/ NackFetch(w) \/ NackExec(w)
    \/ RequeueFetch(w) \/ RequeueReset(w)
    \/ PurgeExec(w)

\* w settles a message it was given.
SettleHeld(w) == \E m \in holds[w] : Ack(w, m) \/ NackCheck(w, m)

Operate(w) ==
    \/ \E m \in Messages, d \in Delays : Offer(w, m, d)
    \/ \E m \in Messages : Requeue(w, m)
    \/ PurgeList(w)
    \/ Clear(w)

CleanStep(c) ==
    \/ CleanList(c) \/ CleanExec(c) \/ CleanDrop(c) \/ CleanMove(c)
    \/ \E m \in Messages : CleanFetch(c, m)

Next ==
    \/ \E w \in Workers : \/ PollStart(w) \/ SettleHeld(w) \/ Operate(w)
                          \/ Continue(w) \/ Fail(w) \/ Crash(w)
    \/ \E c \in Cleaners : CleanStep(c) \/ CleanFail(c) \/ CleanCrash(c)
    \/ Tick

Spec == Init /\ [][Next]_vars

-----------------------------------------------------------------------------
(* Properties                                                              *)

KeyPCs == {"popped", "fetched", "nackChecked", "nackFetched", "requeued",
           "requeueFetched", "timedOut", "missing"}

RedisTypeOK ==
    /\ pending \in Seq(Messages) /\ deadLetter \in Seq(Messages)
    /\ processing \subseteq Messages /\ expiresIn \in [Messages -> Nat]
    /\ delayed \in Seq(Messages) /\ visibleIn \in [Messages -> Nat]
    /\ stored \subseteq Messages /\ retryCount \in [Messages -> Nat]
    /\ stats \in [Counters -> Nat]

CallersTypeOK ==
    /\ pc \in [Procs -> WorkerPCs \cup CleanerPCs]
    /\ key \in [Procs -> Messages \cup {None}]
    /\ \A p \in Procs : pc[p] \in KeyPCs => key[p] \in Messages
    /\ reg \in [Procs -> Nat] /\ due \in [Workers -> Nat]
    /\ listed \in [Procs -> SUBSET Messages]

\* Type invariant: the keys of every Redis structure are message keys, and a
\* caller in the middle of an operation works on a message.
TypeOK ==
    /\ RedisTypeOK
    /\ CallersTypeOK
    /\ holds \in [Workers -> SUBSET Messages]
    /\ fate \in [Messages -> Fates]

(* A message that was offered and is neither acknowledged, dropped after    *)
(* its retries, discarded by an operator nor forgotten by a crashed poll is *)
(* still somewhere the queue can find it, and its data is there, however    *)
(* late acks and nacks, timeouts, moves, requeues and crashes interleave.   *)
NoMessageLost ==
    \A m \in Messages : fate[m] = "open" => m \in stored /\ (Queued(m) \/ InHand(m))

(* The inductive invariant behind NoMessageLost. *)

\* Nothing the queue or a caller refers to was never offered.
OnlyOffered ==
    \A m \in Messages :
        \/ Queued(m)
        \/ \E p \in Procs : m \in listed[p] \/ (pc[p] \in KeyPCs /\ key[p] = m)
        => fate[m] # "new"

\* The message whose data a cleanup goroutine missed is settled for good.
MissingIsSettled == \A c \in Cleaners : pc[c] = "missing" => fate[key[c]] # "open"

\* What a purge has listed is dead or settled.
PurgedIsDead ==
    \A w \in Workers : pc[w] = "purging" =>
        /\ "PurgeDeadLetters" \in Calls
        /\ \A m \in listed[w] : fate[m] = "open" => m \in ToSet(deadLetter)

QueueInv ==
    TypeOK /\ NoMessageLost /\ OnlyOffered /\ MissingIsSettled /\ PurgedIsDead

\* Of an open message there is exactly one copy, of any other message none:
\* the moves between the structures neither duplicate a message nor bring
\* one back that was acknowledged.
Occurrences(s, m) == Cardinality({i \in DOMAIN s : s[i] = m})
Copies(m) ==
    Occurrences(pending, m) + Occurrences(deadLetter, m) + Occurrences(delayed, m)
      + (IF m \in processing THEN 1 ELSE 0)
      + Cardinality({w \in Workers : key[w] = m /\ pc[w] \in {"popped", "fetched"}})
OneCopy ==
    \A m \in Messages : Copies(m) = IF fate[m] = "open" THEN 1 ELSE 0

\* A message a consumer was given is its own: no other consumer was given it
\* too, and it is in :processing, so that its Ack will find it.
ExclusiveDelivery ==
    \A w \in Workers : \A m \in holds[w] :
        /\ m \in processing
        /\ \A v \in Workers \ {w} : m \notin holds[v]

\* A message leaves :processing before its visibility timeout only by the
\* hand of the consumer that was given it.
NoEarlyTimeout ==
    [][\A m \in processing \ processing' :
          expiresIn[m] > 0 => \E w \in Workers : m \in holds[w] \ holds'[w]]_vars

\* The counters GetStats reports are exact: every Ack that succeeded was
\* counted once and so was every message that ran out of retries, and what
\* was not counted is still there.
StatsExact ==
    /\ stats["enqueued"] = Cardinality({m \in Messages : fate[m] # "new"})
    /\ stats["processed"] = Cardinality({m \in Messages : fate[m] = "acked"})
    /\ stats["failed"] = Len(deadLetter) + Cardinality({m \in Messages : fate[m] = "dropped"})

(* The inductive invariant behind these, for prompt consumers that use Ack  *)
(* and Nack, and one cleanup goroutine.                                     *)

\* m is in one place of the queue, or in the hand of one worker, if it is open.
Once(m) ==
    /\ fate[m] = "open" <=> Queued(m) \/ InHand(m)
    /\ \A v, w \in Workers : InHandOf(v, m) /\ InHandOf(w, m) => v = w
    /\ m \in processing => m \notin ToSet(pending) \cup ToSet(delayed) \cup ToSet(deadLetter)
    /\ m \in ToSet(pending) => m \notin ToSet(delayed) \cup ToSet(deadLetter)
    /\ m \in ToSet(delayed) => m \notin ToSet(deadLetter)
    /\ InHand(m) => ~Queued(m)

PlacedOnce ==
    /\ IsInjective(pending) /\ IsInjective(delayed) /\ IsInjective(deadLetter)
    /\ \A m \in Messages : Once(m)

\* What w was given is in :processing with time left, and nobody else has it.
Holding(w) ==
    /\ \A m \in holds[w] : /\ m \in processing /\ expiresIn[m] > 0
                           /\ \A v \in Workers \ {w} : m \notin holds[v]
    /\ pc[w] \in {"nackChecked", "nackFetched"} => key[w] \in holds[w]
    /\ pc[w] = "fetched" => due[w] > 0
    /\ pc[w] \in {"idle", "polling", "popped", "fetched", "nackChecked", "nackFetched"}

\* What c lists or handles has timed out and waits for c alone.
Expired(c) ==
    /\ \A m \in listed[c] : m \in processing /\ expiresIn[m] = 0
    /\ pc[c] = "timedOut" => /\ key[c] \in processing /\ expiresIn[key[c]] = 0
                             /\ key[c] \notin listed[c]
    /\ pc[c] \in {"idle", "scanning", "timedOut"}

\* The RetryCount that a caller has read is the one that is stored.
RetriesKnown ==
    /\ \A p \in Procs :
          pc[p] \in {"fetched", "nackFetched", "timedOut"} => reg[p] = retryCount[key[p]]
    /\ \A m \in Messages : fate[m] = "open" => retryCount[m] <= MaxRetries

PromptInv ==
    /\ QueueInv /\ PlacedOnce /\ RetriesKnown
    /\ \A w \in Workers : Holding(w)
    /\ \A c \in Cleaners : Expired(c)

\* The life of each message is that of MessageLife: no step of a consumer, a
\* cleanup goroutine or a crash moves two messages, delivers one that is not
\* waiting, or gives one more or fewer retries than MaxRetries.
Place(m) ==
    IF fate[m] # "open" THEN fate[m]
    ELSE IF m \in processing THEN "delivered"
    ELSE IF m \in ToSet(deadLetter) THEN "dead" ELSE "waiting"
Life == INSTANCE MessageLife WITH
            place <- [m \in Messages |-> Place(m)],
            retries <- [m \in Messages |-> IF fate[m] = "open" THEN retryCount[m] ELSE 0]
ImplementsLife == Life!Spec

\* The claim of the README: until it is settled, an offered message is not
\* lost, whatever dies.
OpenNeverLost == \A m \in Messages : fate[m] # "lost"

-----------------------------------------------------------------------------
(* Liveness                                                                *)

\* Time passes and the cleanup goroutines run.
CleanupFairness == WF_vars(Tick) /\ \A c \in Cleaners : WF_vars(CleanStep(c))

\* A consumer that keeps polling: a Poll that began is finished, the next begins.
PollFairness == \A w \in Workers : WF_vars(PollStart(w) \/ Continue(w))

CleanupSpec == Spec /\ CleanupFairness

\* Whatever consumers do or fail to do, a cleanup goroutine takes a message that
\* nobody settles out of :processing, though late consumers handle the same message
\* meanwhile.
ProcessingEnds == \A m \in Messages : m \in processing ~> m \notin processing

\* A delayed message becomes visible though nobody polls.
DelayedComesDue == \A m \in Messages : m \in ToSet(delayed) ~> m \notin ToSet(delayed)

\* With consumers that keep polling, and even if they never settle what they
\* are given, every message is settled or ends in the dead-letter queue.
EveryMessageEnds ==
    PollFairness =>
        \A m \in Messages :
            fate[m] = "open" ~> (fate[m] # "open" \/ m \in ToSet(deadLetter))

=============================================================================
