------------------------- MODULE PromptQueueProofs -------------------------
(***************************************************************************)
(* Proofs about ReliableQueue for consumers that settle in time, with Ack  *)
(* and Nack, and one cleanup goroutine: a message is in one place of the   *)
(* queue, it is delivered to one consumer at a time, the counters are      *)
(* exact, and its life is that of MessageLife.                             *)
(***************************************************************************)
EXTENDS ReliableQueueProofs, FiniteSetTheorems

\* The use of the queue that these proofs are about.
PromptUse ==
    /\ Calls \subseteq {"Nack"} /\ "late" \notin Faults
    /\ VisibilityTimeout > 0
    /\ \A c, d \in Cleaners : c = d

-----------------------------------------------------------------------------
(* The steps that are left                                                  *)

(* What PromptInv says of types and places, spelled out. *)
LEMMA Facts ==
    ASSUME PromptInv
    PROVE  /\ TypeOK /\ RedisTypeOK /\ CallersTypeOK
           /\ fate \in [Messages -> Fates] /\ holds \in [Workers -> SUBSET Messages]
           /\ Workers \subseteq Procs /\ Cleaners \subseteq Procs /\ Workers \cap Cleaners = {}
           /\ \A m \in Messages : Once(m)
           /\ \A m \in Messages : fate[m] = "open" => m \in stored
           /\ \A w \in Workers : Holding(w)
           /\ \A c \in Cleaners : Expired(c)
           /\ \A p \in Procs : pc[p] \in KeyPCs => key[p] \in Messages
BY QueueAssumption DEF PromptInv, QueueInv, TypeOK, NoMessageLost, PlacedOnce, CallersTypeOK, Procs

(* A message that somebody works on is open, and its data is stored. *)
LEMMA WorkedOn ==
    ASSUME PromptInv
    PROVE  /\ \A m \in Messages : Queued(m) \/ InHand(m) => fate[m] = "open" /\ m \in stored
           /\ \A w \in Workers : pc[w] \in {"popped", "fetched"} =>
                 key[w] \in Messages /\ InHandOf(w, key[w]) /\ ~Queued(key[w])
           /\ \A w \in Workers : \A m \in holds[w] : m \in Messages /\ m \in processing
           /\ \A w \in Workers : pc[w] \in {"nackChecked", "nackFetched"} =>
                 key[w] \in holds[w]
           /\ \A c \in Cleaners : pc[c] = "timedOut" => key[c] \in Messages
           /\ \A c \in Cleaners : \A m \in listed[c] : m \in processing
           /\ processing \subseteq Messages
<1> USE Facts
<1>1. \A m \in Messages : Queued(m) \/ InHand(m) => fate[m] = "open" /\ m \in stored
  BY DEF Once
<1>2. ASSUME NEW w \in Workers, pc[w] \in {"popped", "fetched"}
      PROVE  key[w] \in Messages /\ InHandOf(w, key[w]) /\ ~Queued(key[w])
  <2>1. key[w] \in Messages /\ InHandOf(w, key[w])
    BY <1>2 DEF InHandOf, KeyPCs
  <2> QED BY <2>1 DEF Once, InHand
<1>3. \A w \in Workers : \A m \in holds[w] : m \in Messages /\ m \in processing
  BY DEF Holding
<1>4. \A w \in Workers : pc[w] \in {"nackChecked", "nackFetched"} => key[w] \in holds[w]
  BY DEF Holding
<1>5. \A c \in Cleaners : pc[c] = "timedOut" => key[c] \in Messages
  BY DEF KeyPCs
<1>6. \A c \in Cleaners : \A m \in listed[c] : m \in processing
  BY DEF Expired
<1>7. processing \subseteq Messages
  BY DEF RedisTypeOK
<1> QED BY <1>1, <1>2, <1>3, <1>4, <1>5, <1>6, <1>7

\* The steps of a worker, and of the cleanup goroutine, that move no message.
WorkerReads(w) ==
    \/ PollEmpty(w)
    \/ PollFetch(w) /\ key[w] \in stored
    \/ NackFetch(w) /\ key[w] \in stored
    \/ \E m \in holds[w] : m \in processing /\ NackCheck(w, m)
    \/ (Fail(w) \/ Crash(w)) /\ pc[w] \notin {"popped", "fetched"}

CleanerReads(c) ==
    \/ CleanList(c) \/ CleanFail(c) \/ CleanCrash(c)
    \/ \E m \in Messages : m \in stored /\ CleanFetch(c, m)

\* The steps of w that take a message m from one place to another.
WorkerMoves(w) ==
    \/ \E m \in Messages, d \in Delays : Offer(w, m, d)
    \/ PollPop(w) \/ PollMove(w) \/ NackExec(w)
    \/ \E m \in holds[w] : m \in processing /\ Ack(w, m)
    \/ (Fail(w) \/ Crash(w)) /\ pc[w] \in {"popped", "fetched"}

(* A script never misses the message it looks for, and what PromptUse rules *)
(* out does not happen.                                                     *)
LEMMA Steps ==
    ASSUME PromptUse, PromptInv, Next
    PROVE  \/ \E w \in Workers : PollStart(w) \/ WorkerReads(w) \/ WorkerMoves(w)
           \/ \E c \in Cleaners : CleanerReads(c) \/ CleanExec(c) \/ CleanMove(c)
           \/ Tick
<1> USE Facts, WorkedOn
<1>1. ASSUME NEW w \in Workers,
             \/ PollStart(w) \/ SettleHeld(w) \/ Operate(w) \/ Continue(w) \/ Fail(w) \/ Crash(w)
      PROVE  PollStart(w) \/ WorkerReads(w) \/ WorkerMoves(w)
  <2>1. pc[w] \in {"idle", "polling", "popped", "fetched", "nackChecked", "nackFetched"}
    BY DEF Holding
  <2>2. ~RequeueFetch(w) /\ ~RequeueReset(w) /\ ~PurgeExec(w)
    BY <2>1 DEF RequeueFetch, RequeueReset, PurgeExec
  <2>3. ~PurgeList(w) /\ ~Clear(w) /\ \A m \in Messages : ~Requeue(w, m)
    BY DEF PromptUse, PurgeList, Clear, Requeue
  <2>4. CASE Continue(w)
    <3>1. pc[w] \in {"popped", "nackChecked"} => key[w] \in stored
      BY DEF InHand, Queued
    <3>2. PollFetch(w) \/ NackFetch(w) => key[w] \in stored
      BY <3>1 DEF PollFetch, NackFetch
    <3> QED BY <2>2, <2>4, <3>2 DEF Continue, WorkerReads, WorkerMoves
  <2>5. CASE SettleHeld(w)
    BY <2>5 DEF SettleHeld, WorkerReads, WorkerMoves
  <2>6. CASE Operate(w)
    BY <2>3, <2>6 DEF Operate, WorkerMoves
  <2>7. CASE Fail(w) \/ Crash(w)
    BY <2>7 DEF WorkerReads, WorkerMoves
  <2> QED BY <1>1, <2>4, <2>5, <2>6, <2>7
<1>2. ASSUME NEW c \in Cleaners, CleanStep(c) \/ CleanFail(c) \/ CleanCrash(c)
      PROVE  CleanerReads(c) \/ CleanExec(c) \/ CleanMove(c)
  <2>1. ~CleanDrop(c)
    BY DEF CleanDrop, Expired
  <2>2. \A m \in Messages : CleanFetch(c, m) => m \in stored
    BY DEF CleanFetch, Queued
  <2> QED BY <1>2, <2>1, <2>2 DEF CleanStep, CleanerReads
<1> QED BY <1>1, <1>2 DEF Next

-----------------------------------------------------------------------------
(* Where messages are                                                       *)

\* A step that leaves message m where it is.
Same(m) ==
    /\ m \in ToSet(pending') <=> m \in ToSet(pending)
    /\ m \in ToSet(delayed') <=> m \in ToSet(delayed)
    /\ m \in ToSet(deadLetter') <=> m \in ToSet(deadLetter)
    /\ m \in processing' <=> m \in processing
    /\ \A w \in Workers : InHandOf(w, m)' <=> InHandOf(w, m)
    /\ fate'[m] = "open" <=> fate[m] = "open"

(* A step that moves message k alone. *)
LEMMA MovedOne ==
    ASSUME PlacedOnce, NEW k,
           IsInjective(pending'), IsInjective(delayed'), IsInjective(deadLetter'),
           \A m \in Messages \ {k} : Same(m),
           k \in Messages => Once(k)'
    PROVE  PlacedOnce'
<1>1. ASSUME NEW m \in Messages, m # k PROVE Once(m)'
  <2>1. Once(m) /\ Same(m)
    BY <1>1 DEF PlacedOnce
  <2> QED BY <2>1 DEF Same, Once, Queued, InHand
<1> QED BY <1>1 DEF PlacedOnce

\* Nothing moves.
Stay ==
    /\ UNCHANGED <<pending, delayed, deadLetter, processing, stored, retryCount, stats, fate>>
    /\ \A w \in Workers, m \in Messages : InHandOf(w, m)' <=> InHandOf(w, m)

LEMMA ReadsStay ==
    ASSUME PromptInv,
           \/ \E w \in Workers : WorkerReads(w)
           \/ \E c \in Cleaners : CleanerReads(c)
           \/ Tick
    PROVE  Stay
<1> USE Facts
<1>1. ASSUME NEW w \in Workers, WorkerReads(w) PROVE Stay
  <2>1. \/ pc[w] = "popped" /\ Goto(w, "fetched", key[w], retryCount[key[w]])
        \/ /\ pc[w] \notin {"popped", "fetched"}
           /\ \E l \in {"idle", "nackChecked", "nackFetched"} : \E k, r : Goto(w, l, k, r)
    <3>1. CASE PollFetch(w) /\ key[w] \in stored
      BY <3>1 DEF PollFetch
    <3>2. CASE PollEmpty(w)
      BY <3>2 DEF PollEmpty, Return
    <3>3. CASE NackFetch(w) /\ key[w] \in stored
      BY <3>3 DEF NackFetch
    <3>4. CASE \E m \in holds[w] : m \in processing /\ NackCheck(w, m)
      BY <3>4 DEF NackCheck
    <3>5. CASE (Fail(w) \/ Crash(w)) /\ pc[w] \notin {"popped", "fetched"}
      BY <3>5 DEF Fail, Crash, Return
    <3> QED BY <1>1, <3>1, <3>2, <3>3, <3>4, <3>5 DEF WorkerReads
  <2>2. \A v \in Workers, m \in Messages : InHandOf(v, m)' <=> InHandOf(v, m)
    <3>1. CASE pc[w] = "popped" /\ Goto(w, "fetched", key[w], retryCount[key[w]])
      <4>1. /\ pc'[w] = "fetched" /\ key'[w] = key[w]
            /\ \A q \in Procs \ {w} : pc'[q] = pc[q] /\ key'[q] = key[q]
        BY <3>1, GotoEffect
      <4> QED BY <3>1, <4>1 DEF InHandOf
    <3>2. ASSUME pc[w] \notin {"popped", "fetched"}, NEW l \in {"idle", "nackChecked", "nackFetched"},
                 NEW k, NEW r, Goto(w, l, k, r)
          PROVE  \A v \in Workers, m \in Messages : InHandOf(v, m)' <=> InHandOf(v, m)
      <4>1. pc'[w] = l /\ \A q \in Procs \ {w} : pc'[q] = pc[q] /\ key'[q] = key[q]
        BY <3>2, GotoEffect
      <4> QED BY <3>2, <4>1 DEF InHandOf
    <3> QED BY <2>1, <3>1, <3>2
  <2>3. UNCHANGED <<redis, fate>>
    <3>1. CASE (Fail(w) \/ Crash(w)) /\ pc[w] \notin {"popped", "fetched"}
      BY <3>1 DEF Fail, Crash, Forget, Settle, InHandOf
    <3> QED BY <1>1, <3>1 DEF WorkerReads, PollEmpty, PollFetch, NackFetch, NackCheck
  <2> QED BY <2>2, <2>3 DEF Stay, redis, lists, inFlight, waiting, data
<1>2. ASSUME NEW c \in Cleaners, CleanerReads(c) PROVE Stay
  <2>1. UNCHANGED <<redis, fate>>
    BY <1>2 DEF CleanerReads, CleanList, CleanFail, CleanCrash, CleanFetch
  <2>2. \A q \in Procs \ {c} : pc'[q] = pc[q] /\ key'[q] = key[q]
    <3>1. (\E l, k, r : Goto(c, l, k, r)) \/ UNCHANGED <<pc, key, reg>>
      BY <1>2 DEF CleanerReads, CleanList, CleanFail, CleanCrash, CleanFetch, Return
    <3> QED BY <3>1, GotoEffect
  <2> QED BY <2>1, <2>2 DEF Stay, redis, lists, inFlight, waiting, data, InHandOf
<1>3. ASSUME Tick PROVE Stay
  BY <1>3 DEF Tick, Stay, InHandOf, lists, data
<1> QED BY <1>1, <1>2, <1>3

\* Nobody takes a message in hand, or lets go of one.
HandsKept == \A w \in Workers, m \in Messages : InHandOf(w, m)' <=> InHandOf(w, m)

LEMMA GotoHands ==
    ASSUME CallersTypeOK, NEW p \in Procs, NEW l, NEW k, NEW r, Goto(p, l, k, r),
           pc[p] \notin {"popped", "fetched"}, l \notin {"popped", "fetched"}
    PROVE  HandsKept
<1>1. pc'[p] = l /\ \A q \in Procs \ {p} : pc'[q] = pc[q] /\ key'[q] = key[q]
  BY GotoEffect
<1> QED BY <1>1 DEF HandsKept, InHandOf, Procs

LEMMA StayPlaced ==
    ASSUME PromptInv, Stay
    PROVE  PlacedOnce'
BY DEF PromptInv, PlacedOnce, Stay, Once, Queued, InHand

LEMMA MoveDelayedPlaced ==
    ASSUME PromptInv, MoveDelayed, HandsKept, UNCHANGED fate
    PROVE  PlacedOnce'
<1> USE Facts
<1>0. /\ delayed \in Seq(Messages) /\ pending \in Seq(Messages)
      /\ UNCHANGED <<deadLetter, processing>>
  BY DEF RedisTypeOK, MoveDelayed, inFlight
<1>1. PICK n \in 0..Len(delayed) :
        /\ pending' = Reverse(SubSeq(delayed, 1, n)) \o pending
        /\ delayed' = SubSeq(delayed, n + 1, Len(delayed))
  BY DEF MoveDelayed
<1>2. ToSet(delayed) \cap ToSet(pending) = {}
  <2>1. ToSet(pending) \subseteq Messages
    BY <1>0 DEF ToSet
  <2> QED BY <2>1 DEF Once
<1>3. IsInjective(delayed) /\ IsInjective(pending) /\ IsInjective(deadLetter)
  BY DEF PromptInv, PlacedOnce
<1>4. /\ IsInjective(pending') /\ IsInjective(delayed')
      /\ ToSet(pending') \cap ToSet(delayed') = {}
      /\ ToSet(pending) \subseteq ToSet(pending') /\ ToSet(delayed') \subseteq ToSet(delayed)
  BY <1>0, <1>1, <1>2, <1>3, MovePrefixOnce
<1>5. ToSet(pending') \cup ToSet(delayed') = ToSet(pending) \cup ToSet(delayed)
  BY <1>0, <1>1, MovePrefixElements
<1>6. ASSUME NEW m \in Messages PROVE Once(m)'
  <2>1. Once(m)
    OBVIOUS
  <2>2. Queued(m)' <=> Queued(m)
    BY <1>0, <1>5 DEF Queued
  <2>3. InHand(m)' <=> InHand(m)
    BY DEF InHand, HandsKept
  <2> QED BY <1>0, <1>4, <1>5, <2>1, <2>2, <2>3 DEF Once, HandsKept
<1> QED BY <1>0, <1>3, <1>4, <1>6 DEF PlacedOnce

LEMMA OfferPlaced ==
    ASSUME PromptInv, NEW w \in Workers, NEW k \in Messages, NEW d \in Delays, Offer(w, k, d)
    PROVE  PlacedOnce'
<1> USE Facts
<1>0. /\ delayed \in Seq(Messages) /\ pending \in Seq(Messages)
      /\ UNCHANGED <<deadLetter, processing, pc, key>>
      /\ fate[k] = "new" /\ fate' = [fate EXCEPT ![k] = "open"]
  BY DEF RedisTypeOK, Offer, inFlight, local
<1>1. ~Queued(k) /\ ~InHand(k)
  BY <1>0 DEF Once
<1>2. IsInjective(delayed) /\ IsInjective(pending) /\ IsInjective(deadLetter)
  BY DEF PromptInv, PlacedOnce
<1>3. \/ pending' = <<k>> \o pending /\ delayed' = delayed
      \/ /\ pending' = pending
         /\ \E i \in 1..Len(delayed) + 1 : delayed' = InsertAt(delayed, i, k)
  BY DEF Offer, LPush, waiting
<1>4. /\ IsInjective(pending') /\ IsInjective(delayed')
      /\ \/ ToSet(pending') = ToSet(pending) \cup {k} /\ ToSet(delayed') = ToSet(delayed)
         \/ ToSet(pending') = ToSet(pending) /\ ToSet(delayed') = ToSet(delayed) \cup {k}
  <2>1. CASE pending' = <<k>> \o pending /\ delayed' = delayed
    BY <1>0, <1>1, <1>2, <2>1, PushElements, PushOnce DEF Queued
  <2>2. CASE pending' = pending /\ \E i \in 1..Len(delayed) + 1 : delayed' = InsertAt(delayed, i, k)
    BY <1>0, <1>1, <1>2, <2>2, InsertElements, InsertOnce DEF Queued
  <2> QED BY <1>3, <2>1, <2>2
<1>5. \A v \in Workers, m \in Messages : InHandOf(v, m)' <=> InHandOf(v, m)
  BY <1>0 DEF InHandOf
<1>6. \A m \in Messages \ {k} : Same(m)
  BY <1>0, <1>4, <1>5 DEF Same
<1>7. Once(k)'
  BY <1>0, <1>1, <1>4, <1>5 DEF Once, Queued, InHand
<1> QED BY <1>0, <1>2, <1>4, <1>6, <1>7, MovedOne DEF PromptInv

LEMMA PopPlaced ==
    ASSUME PromptInv, NEW w \in Workers, PollPop(w)
    PROVE  PlacedOnce'
<1> USE Facts
<1>0. /\ pending \in Seq(Messages) /\ pending # <<>> /\ pending' = Front(pending)
      /\ UNCHANGED <<delayed, deadLetter, processing, fate>>
      /\ pc[w] = "polling" /\ Goto(w, "popped", Last(pending), 0)
  BY DEF RedisTypeOK, PollPop, inFlight, waiting
<1>1. IsInjective(delayed) /\ IsInjective(pending) /\ IsInjective(deadLetter)
  BY DEF PromptInv, PlacedOnce
<1>2. PICK k \in Messages : /\ k = Last(pending) /\ ToSet(pending) = ToSet(pending') \cup {k}
                           /\ IsInjective(pending') /\ k \notin ToSet(pending')
  BY <1>0, <1>1, PopElements, PopOnce
<1>3. /\ pc'[w] = "popped" /\ key'[w] = k
      /\ \A v \in Workers \ {w} : pc'[v] = pc[v] /\ key'[v] = key[v]
  BY <1>0, <1>2, GotoEffect
<1>4. Once(k) /\ k \in ToSet(pending) /\ ~InHand(k) /\ fate[k] = "open"
  BY <1>2 DEF Once, Queued
<1>5. \A m \in Messages \ {k} : Same(m)
  BY <1>0, <1>2, <1>3 DEF Same, InHandOf
<1>6. \A v \in Workers : InHandOf(v, k)' <=> v = w
  BY <1>3, <1>4 DEF InHandOf, InHand
<1>7. Once(k)'
  BY <1>0, <1>2, <1>4, <1>6 DEF Once, Queued, InHand
<1> QED BY <1>0, <1>1, <1>2, <1>5, <1>7, MovedOne DEF PromptInv

LEMMA PollMovePlaced ==
    ASSUME PromptInv, NEW w \in Workers, PollMove(w)
    PROVE  PlacedOnce'
<1> USE Facts
<1>k. PICK k \in Messages : k = key[w]
  BY WorkedOn DEF PollMove
<1>0. /\ UNCHANGED <<pending, delayed, deadLetter, fate>> /\ processing' = processing \cup {k}
      /\ pc[w] = "fetched" /\ Return(w) /\ k = key[w]
  BY <1>k DEF PollMove, lists, waiting
<1>1. k \in Messages /\ InHandOf(w, k) /\ ~Queued(k) /\ Once(k) /\ fate[k] = "open"
  BY <1>0, WorkedOn DEF InHand
<1>2. /\ pc'[w] = "idle" /\ \A v \in Workers \ {w} : pc'[v] = pc[v] /\ key'[v] = key[v]
  BY <1>0, GotoEffect DEF Return
<1>3. \A m \in Messages \ {k} : Same(m)
  BY <1>0, <1>2 DEF Same, InHandOf
<1>4. \A v \in Workers : ~InHandOf(v, k)'
  BY <1>1, <1>2 DEF InHandOf, Once
<1>5. Once(k)'
  BY <1>0, <1>1, <1>4 DEF Once, Queued, InHand
<1> QED BY <1>0, <1>3, <1>5, MovedOne DEF PromptInv, PlacedOnce

LEMMA AckPlaced ==
    ASSUME PromptInv, NEW w \in Workers, NEW k \in holds[w], k \in processing, Ack(w, k)
    PROVE  PlacedOnce'
<1> USE Facts
<1>0. /\ UNCHANGED <<pending, delayed, deadLetter, pc, key>> /\ processing' = processing \ {k}
      /\ k \in Messages /\ Once(k) /\ fate[k] = "open" /\ Settle({k}, "acked")
  BY WorkedOn DEF Ack, lists, waiting, local, Queued
<1>1. fate'[k] = "acked" /\ \A m \in Messages \ {k} : fate'[m] = fate[m]
  BY <1>0 DEF Settle
<1>2. \A m \in Messages \ {k} : Same(m)
  BY <1>0, <1>1 DEF Same, InHandOf
<1>3. Once(k)'
  BY <1>0, <1>1 DEF Once, Queued, InHand, InHandOf
<1> QED BY <1>0, <1>2, <1>3, MovedOne DEF PromptInv, PlacedOnce

LEMMA LosePlaced ==
    ASSUME PromptInv, NEW w \in Workers, Fail(w) \/ Crash(w), pc[w] \in {"popped", "fetched"}
    PROVE  /\ PlacedOnce'
           /\ fate' = [fate EXCEPT ![key[w]] = "lost"]
<1> USE Facts
<1>k. PICK k \in Messages : k = key[w]
  BY WorkedOn
<1>0. UNCHANGED <<pending, delayed, deadLetter, processing>> /\ Return(w) /\ Forget(w)
  BY DEF Fail, Crash, redis, lists, inFlight, waiting
<1>1. k \in Messages /\ InHandOf(w, k) /\ ~Queued(k) /\ Once(k) /\ fate[k] = "open"
  BY <1>k, WorkedOn DEF InHand
<1>2. /\ pc'[w] = "idle" /\ \A v \in Workers \ {w} : pc'[v] = pc[v] /\ key'[v] = key[v]
  BY <1>0, GotoEffect DEF Return
<1>3. {m \in Messages : /\ InHandOf(w, m) /\ ~Queued(m)
                        /\ \A v \in Workers \ {w} : ~InHandOf(v, m)} = {k}
  BY <1>k, <1>1 DEF InHandOf, Once
<1>4. Settle({k}, "lost")
  BY <1>0, <1>3 DEF Forget
<1>5. fate' = [fate EXCEPT ![k] = "lost"]
  BY <1>1, <1>4 DEF Settle
<1>6. \A m \in Messages \ {k} : Same(m)
  BY <1>k, <1>0, <1>2, <1>5 DEF Same, InHandOf
<1>7. \A v \in Workers : ~InHandOf(v, k)'
  BY <1>k, <1>1, <1>2 DEF InHandOf, Once
<1>8. Once(k)'
  BY <1>0, <1>1, <1>5, <1>7 DEF Once, Queued, InHand
<1>9. PlacedOnce'
  BY <1>0, <1>6, <1>8, MovedOne DEF PromptInv, PlacedOnce
<1> QED BY <1>k, <1>5, <1>9

(* The transaction that ends Nack and handleTimeoutMessage, of a message in *)
(* :processing, has one of three outcomes.                                  *)
Retried(k, r) ==
    /\ r <= MaxRetries
    /\ pending' = <<k>> \o pending
    /\ retryCount' = [retryCount EXCEPT ![k] = r]
    /\ UNCHANGED <<deadLetter, stats, fate>>

Buried(k, r) ==
    /\ r > MaxRetries
    /\ deadLetter' = <<k>> \o deadLetter
    /\ stats' = [stats EXCEPT !["failed"] = @ + 1]
    /\ UNCHANGED <<pending, retryCount, fate>>

Dropped(k, r) ==
    /\ r > MaxRetries
    /\ retryCount' = [retryCount EXCEPT ![k] = 0]
    /\ stats' = [stats EXCEPT !["failed"] = @ + 1]
    /\ fate' = [fate EXCEPT ![k] = "dropped"]
    /\ UNCHANGED <<pending, deadLetter>>

LEMMA RetryOutcome ==
    ASSUME PromptInv, NEW p, NEW k \in processing, NEW r, RetryOrBury(p, k, r)
    PROVE  /\ Retried(k, r) \/ Buried(k, r) \/ Dropped(k, r)
           /\ processing' = processing \ {k} /\ expiresIn' = [expiresIn EXCEPT ![k] = 0]
           /\ UNCHANGED waiting
<1>1. k \in Messages /\ fate[k] = "open" /\ fate \in [Messages -> Fates]
  BY Facts, WorkedOn DEF Queued
<1>2. Settle({k}, "dropped") => fate' = [fate EXCEPT ![k] = "dropped"]
  BY <1>1 DEF Settle
<1> QED BY <1>2 DEF RetryOrBury, Retried, Buried, Dropped, LPush, data, lists

LEMMA RetryPlaced ==
    ASSUME PromptInv, NEW p, NEW k \in processing, NEW r, RetryOrBury(p, k, r), HandsKept
    PROVE  PlacedOnce'
<1> USE Facts
<1>0. /\ pending \in Seq(Messages) /\ deadLetter \in Seq(Messages) /\ k \in Messages
      /\ Once(k) /\ fate[k] = "open"
  BY WorkedOn DEF RedisTypeOK, Queued
<1>1. IsInjective(delayed) /\ IsInjective(pending) /\ IsInjective(deadLetter)
  BY DEF PromptInv, PlacedOnce
<1>2. /\ Retried(k, r) \/ Buried(k, r) \/ Dropped(k, r)
      /\ processing' = processing \ {k} /\ delayed' = delayed
  BY RetryOutcome DEF waiting
<1>3. /\ k \notin ToSet(pending) /\ k \notin ToSet(delayed) /\ k \notin ToSet(deadLetter)
      /\ \A v \in Workers : ~InHandOf(v, k)
  BY <1>0 DEF Once, Queued, InHand
<1>4. CASE Retried(k, r)
  <2>1. /\ ToSet(pending') = ToSet(pending) \cup {k} /\ IsInjective(pending')
        /\ UNCHANGED <<deadLetter, fate>>
    BY <1>0, <1>1, <1>3, <1>4, PushElements, PushOnce DEF Retried
  <2>2. \A m \in Messages \ {k} : Same(m)
    BY <1>2, <2>1 DEF Same, HandsKept
  <2>3. Once(k)'
    BY <1>0, <1>2, <1>3, <2>1 DEF Once, Queued, InHand, HandsKept
  <2> QED BY <1>1, <1>2, <2>1, <2>2, <2>3, MovedOne DEF PromptInv
<1>5. CASE Buried(k, r)
  <2>1. /\ ToSet(deadLetter') = ToSet(deadLetter) \cup {k} /\ IsInjective(deadLetter')
        /\ UNCHANGED <<pending, fate>>
    BY <1>0, <1>1, <1>3, <1>5, PushElements, PushOnce DEF Buried
  <2>2. \A m \in Messages \ {k} : Same(m)
    BY <1>2, <2>1 DEF Same, HandsKept
  <2>3. Once(k)'
    BY <1>0, <1>2, <1>3, <2>1 DEF Once, Queued, InHand, HandsKept
  <2> QED BY <1>1, <1>2, <2>1, <2>2, <2>3, MovedOne DEF PromptInv
<1>6. CASE Dropped(k, r)
  <2>1. UNCHANGED <<pending, deadLetter>> /\ fate' = [fate EXCEPT ![k] = "dropped"]
    BY <1>6 DEF Dropped
  <2>2. \A m \in Messages \ {k} : Same(m)
    BY <1>2, <2>1 DEF Same, HandsKept
  <2>3. Once(k)'
    BY <1>0, <1>2, <1>3, <2>1 DEF Once, Queued, InHand, HandsKept
  <2> QED BY <1>1, <1>2, <2>1, <2>2, <2>3, MovedOne DEF PromptInv
<1> QED BY <1>2, <1>4, <1>5, <1>6

-----------------------------------------------------------------------------
(* What the callers know                                                    *)

\* The control points of a caller that works on a message in :processing or in
\* its hand, whose RetryCount it has read or is about to read.
Handling == {"fetched", "nackChecked", "nackFetched", "timedOut"}

\* Message k is no business of caller q.
Apart(q, k) ==
    /\ key[q] = k => pc[q] \notin Handling
    /\ q \in Cleaners => k \notin listed[q]
    /\ q \in Workers => k \notin holds[q]

\* A step of which caller q takes no part.
CallerKept(q) ==
    /\ pc'[q] = pc[q] /\ key'[q] = key[q] /\ reg'[q] = reg[q]
    /\ q \in Cleaners => listed'[q] = listed[q]
    /\ q \in Workers => due'[q] = due[q] /\ holds'[q] = holds[q]

\* A step that leaves the timeout and the RetryCount of message m alone.
MessageKept(m) ==
    /\ m \in processing => m \in processing' /\ expiresIn'[m] = expiresIn[m]
    /\ retryCount'[m] = retryCount[m]
    /\ fate'[m] = "open" => fate[m] = "open"

\* PromptInv, for caller p and message k.
CallerFine(p, k) ==
    /\ p \in Workers => Holding(p)
    /\ p \in Cleaners => Expired(p)
    /\ pc[p] \in {"fetched", "nackFetched", "timedOut"} => reg[p] = retryCount[key[p]]
    /\ k \in Messages /\ fate[k] = "open" => retryCount[k] <= MaxRetries

CallersInv ==
    /\ RetriesKnown
    /\ \A w \in Workers : Holding(w)
    /\ \A c \in Cleaners : Expired(c)

(* A step of p that concerns message k alone. *)
LEMMA CallerFrame ==
    ASSUME PromptInv, NEW p \in Procs, NEW k,
           \A m \in Messages \ {k} : MessageKept(m),
           \A q \in Procs \ {p} : CallerKept(q) /\ Apart(q, k),
           p \in Workers => holds'[p] \subseteq holds[p] \cup {k},
           CallerFine(p, k)'
    PROVE  CallersInv'
<1> USE Facts
<1>1. ASSUME NEW q \in Procs, q # p
      PROVE  pc'[q] \in {"fetched", "nackFetched", "timedOut"} => reg'[q] = retryCount'[key'[q]]
  <2>1. CallerKept(q) /\ Apart(q, k)
    BY <1>1
  <2>2. pc[q] \in {"fetched", "nackFetched", "timedOut"} => key[q] \in Messages \ {k}
    BY <2>1 DEF Apart, Handling, KeyPCs
  <2>3. pc[q] \in {"fetched", "nackFetched", "timedOut"} => reg[q] = retryCount[key[q]]
    BY DEF PromptInv, RetriesKnown
  <2> QED BY <2>1, <2>2, <2>3 DEF CallerKept, MessageKept
<1>2. ASSUME NEW m \in Messages, fate'[m] = "open" PROVE retryCount'[m] <= MaxRetries
  <2>1. CASE m = k
    BY <1>2, <2>1 DEF CallerFine
  <2>2. CASE m # k
    BY <1>2, <2>2 DEF MessageKept, PromptInv, RetriesKnown
  <2> QED BY <2>1, <2>2
<1>3. RetriesKnown'
  <2>1. pc'[p] \in {"fetched", "nackFetched", "timedOut"} => reg'[p] = retryCount'[key'[p]]
    BY DEF CallerFine
  <2> QED BY <1>1, <1>2, <2>1 DEF RetriesKnown
<1>4. ASSUME NEW v \in Workers PROVE Holding(v)'
  <2>1. CASE v = p
    BY <2>1 DEF CallerFine
  <2>2. CASE v # p
    <3>1. CallerKept(v) /\ Apart(v, k) /\ Holding(v)
      BY <2>2
    <3>2. ASSUME NEW m \in holds[v]
          PROVE  /\ m \in processing' /\ expiresIn'[m] > 0
                 /\ \A u \in Workers \ {v} : m \notin holds'[u]
      <4>1. /\ m \in Messages \ {k} /\ m \in processing /\ expiresIn[m] > 0
            /\ \A u \in Workers \ {v} : m \notin holds[u]
        BY <3>1, <3>2 DEF Holding, Apart
      <4>2. \A u \in Workers \ {v} : m \notin holds'[u]
        BY <4>1 DEF CallerKept
      <4> QED BY <4>1, <4>2 DEF MessageKept
    <3> QED BY <3>1, <3>2 DEF Holding, CallerKept
  <2> QED BY <2>1, <2>2
<1>5. ASSUME NEW c \in Cleaners PROVE Expired(c)'
  <2>1. CASE c = p
    BY <2>1 DEF CallerFine
  <2>2. CASE c # p
    <3>1. CallerKept(c) /\ Apart(c, k) /\ Expired(c)
      BY <2>2
    <3>2. \A m \in listed[c] : m \in Messages \ {k}
      BY <3>1 DEF Apart, CallersTypeOK
    <3>3. pc[c] = "timedOut" => key[c] \in Messages \ {k}
      BY <3>1 DEF Apart, Handling, KeyPCs
    <3> QED BY <3>1, <3>2, <3>3 DEF Expired, CallerKept, MessageKept
  <2> QED BY <2>1, <2>2
<1> QED BY <1>3, <1>4, <1>5 DEF CallersInv

(* Who works on a message has it for itself. *)
LEMMA Alone ==
    ASSUME PromptUse, PromptInv, NEW p \in Procs, NEW k \in Messages,
           \/ fate[k] # "open"
           \/ p \in Workers /\ (InHandOf(p, k) \/ k \in holds[p])
           \/ p \in Cleaners /\ pc[p] = "timedOut" /\ key[p] = k
    PROVE  \A q \in Procs \ {p} : Apart(q, k)
<1> USE Facts
<1>1. SUFFICES ASSUME NEW q \in Procs, q # p PROVE Apart(q, k)
  OBVIOUS
<1>2. Once(k)
  OBVIOUS
<1>3. CASE q \in Workers
  <2>1. Holding(q) /\ q \notin Cleaners
    BY <1>3
  <2>2. k \in holds[q] => k \in processing /\ expiresIn[k] > 0 /\ (p \in Workers => k \notin holds[p])
    BY <1>1, <2>1 DEF Holding
  <2>3. k \notin holds[q]
    <3>1. CASE fate[k] # "open"
      BY <1>2, <2>2, <3>1 DEF Once, Queued
    <3>2. CASE p \in Workers /\ InHandOf(p, k)
      BY <1>2, <2>2, <3>2 DEF Once, Queued, InHand
    <3>3. CASE p \in Workers /\ k \in holds[p]
      BY <2>2, <3>3
    <3>4. CASE p \in Cleaners /\ pc[p] = "timedOut" /\ key[p] = k
      <4>1. expiresIn[k] = 0
        BY <3>4 DEF Expired
      <4> QED BY <2>2, <4>1
    <3> QED BY <3>1, <3>2, <3>3, <3>4
  <2>4. key[q] = k => pc[q] \notin Handling
    <3>1. key[q] = k /\ pc[q] \in Handling => pc[q] = "fetched"
      BY <2>1, <2>3 DEF Holding, Handling
    <3>2. key[q] = k /\ pc[q] = "fetched" => InHandOf(q, k)
      BY DEF InHandOf
    <3>3. ~InHandOf(q, k)
      <4>1. CASE fate[k] # "open"
        BY <1>2, <1>3, <4>1 DEF Once, InHand
      <4>2. CASE p \in Workers /\ InHandOf(p, k)
        BY <1>1, <1>2, <1>3, <4>2 DEF Once
      <4>3. CASE p \in Workers /\ k \in holds[p]
        BY <1>2, <1>3, <4>3 DEF Once, InHand, Queued, Holding
      <4>4. CASE p \in Cleaners /\ pc[p] = "timedOut" /\ key[p] = k
        BY <1>2, <1>3, <4>4 DEF Once, InHand, Queued, Expired
      <4> QED BY <4>1, <4>2, <4>3, <4>4
    <3> QED BY <3>1, <3>2, <3>3
  <2> QED BY <2>1, <2>3, <2>4 DEF Apart
<1>4. CASE q \in Cleaners
  <2>1. Expired(q) /\ q \notin Workers
    BY <1>4
  <2>2. p \notin Cleaners \/ fate[k] # "open"
    BY <1>1, <1>4 DEF PromptUse
  <2>3. \/ k \in listed[q]
        \/ key[q] = k /\ pc[q] \in Handling
        => k \in processing /\ expiresIn[k] = 0
    BY <2>1 DEF Expired, Handling
  <2>4. k \notin processing \/ expiresIn[k] > 0
    <3>1. CASE fate[k] # "open"
      BY <1>2, <3>1 DEF Once, Queued
    <3>2. CASE p \in Workers /\ InHandOf(p, k)
      BY <1>2, <3>2 DEF Once, Queued, InHand
    <3>3. CASE p \in Workers /\ k \in holds[p]
      BY <3>3 DEF Holding
    <3> QED BY <2>2, <3>1, <3>2, <3>3
  <2> QED BY <2>1, <2>3, <2>4 DEF Apart
<1> QED BY <1>3, <1>4 DEF Procs

(* None is no message that anybody works on. *)
LEMMA NoMessage ==
    ASSUME PromptInv
    PROVE  \A q \in Procs : Apart(q, None)
<1>1. None \notin Messages
  BY QueueAssumption
<1> QED BY <1>1, Facts DEF Apart, Handling, KeyPCs, CallersTypeOK

LEMMA GotoRest ==
    ASSUME CallersTypeOK, NEW p \in Procs, NEW l, NEW k, NEW r, Goto(p, l, k, r)
    PROVE  /\ pc'[p] = l /\ key'[p] = k /\ reg'[p] = r
           /\ \A q \in Procs \ {p} : pc'[q] = pc[q] /\ key'[q] = key[q] /\ reg'[q] = reg[q]
BY DEF CallersTypeOK, Goto

\* PromptInv, for what worker w remembers.
WorkerFine(w) ==
    /\ pc[w] \in {"idle", "polling", "popped", "fetched", "nackChecked", "nackFetched"}
    /\ pc[w] = "fetched" => due[w] > 0
    /\ pc[w] \in {"nackChecked", "nackFetched"} => key[w] \in holds[w]
    /\ pc[w] \in {"fetched", "nackFetched"} => reg[w] = retryCount[key[w]]

(* A step of worker w that concerns message k alone. *)
LEMMA WorkerFrame ==
    ASSUME PromptInv, NEW w \in Workers, NEW k,
           \A m \in Messages \ {k} : MessageKept(m),
           \A q \in Procs \ {w} : CallerKept(q) /\ Apart(q, k),
           holds'[w] \subseteq holds[w] \cup {k},
           k \in holds'[w] => k \in processing' /\ expiresIn'[k] > 0,
           k \in Messages /\ fate'[k] = "open" => retryCount'[k] <= MaxRetries,
           WorkerFine(w)'
    PROVE  CallersInv'
<1> USE Facts
<1>1. w \in Procs /\ w \notin Cleaners
  OBVIOUS
<1>2. ASSUME NEW m \in holds'[w]
      PROVE  m \in processing' /\ expiresIn'[m] > 0 /\ \A v \in Workers \ {w} : m \notin holds'[v]
  <2>1. \A v \in Workers \ {w} : v \in Procs \ {w} /\ holds'[v] = holds[v] /\ k \notin holds[v]
    BY DEF CallerKept, Apart
  <2>2. CASE m = k
    BY <2>1, <2>2
  <2>3. CASE m # k
    <3>1. m \in holds[w] /\ Holding(w) /\ m \in Messages
      BY <2>3
    <3>2. MessageKept(m)
      BY <2>3, <3>1
    <3> QED BY <2>1, <3>1, <3>2 DEF Holding, MessageKept
  <2> QED BY <2>2, <2>3
<1>3. Holding(w)'
  BY <1>2 DEF Holding, WorkerFine
<1>4. CallerFine(w, k)'
  BY <1>1, <1>3 DEF CallerFine, WorkerFine
<1> QED BY <1>1, <1>4, CallerFrame

LEMMA WorkerReadsCallers ==
    ASSUME PromptUse, PromptInv, NEW w \in Workers, WorkerReads(w)
    PROVE  CallersInv'
<1> USE Facts
<1>1. w \in Procs /\ w \notin Cleaners /\ Holding(w)
  OBVIOUS
<1>2. CASE PollFetch(w) /\ key[w] \in stored
  <2>1. /\ UNCHANGED <<redis, listed, holds, fate>>
        /\ Goto(w, "fetched", key[w], retryCount[key[w]])
        /\ due' = [due EXCEPT ![w] = VisibilityTimeout]
    BY <1>2 DEF PollFetch
  <2>2. /\ pc'[w] = "fetched" /\ key'[w] = key[w] /\ reg'[w] = retryCount[key[w]]
        /\ \A q \in Procs \ {w} : pc'[q] = pc[q] /\ key'[q] = key[q] /\ reg'[q] = reg[q]
    BY <1>1, <2>1, GotoRest
  <2>3. due'[w] > 0 /\ \A v \in Workers \ {w} : due'[v] = due[v]
    BY <2>1 DEF CallersTypeOK, PromptUse
  <2>4. WorkerFine(w)'
    BY <2>1, <2>2, <2>3 DEF WorkerFine, redis, data
  <2>5. \A q \in Procs \ {w} : CallerKept(q) /\ Apart(q, None)
    BY <2>1, <2>2, <2>3, NoMessage DEF CallerKept
  <2>6. \A m \in Messages \ {None} : MessageKept(m)
    BY <2>1 DEF MessageKept, redis, inFlight, data
  <2>7. holds'[w] = holds[w] /\ None \notin holds[w] /\ None \notin Messages
    BY <2>1, QueueAssumption
  <2> QED BY <2>4, <2>5, <2>6, <2>7, WorkerFrame
<1>3. CASE PollEmpty(w)
  <2>1. UNCHANGED <<redis, due, listed, holds, fate>> /\ Goto(w, "idle", None, 0)
    BY <1>3 DEF PollEmpty, Return
  <2>2. /\ pc'[w] = "idle"
        /\ \A q \in Procs \ {w} : pc'[q] = pc[q] /\ key'[q] = key[q] /\ reg'[q] = reg[q]
    BY <1>1, <2>1, GotoRest
  <2>3. WorkerFine(w)'
    BY <2>2 DEF WorkerFine
  <2>4. \A q \in Procs \ {w} : CallerKept(q) /\ Apart(q, None)
    BY <2>1, <2>2, NoMessage DEF CallerKept
  <2>5. \A m \in Messages \ {None} : MessageKept(m)
    BY <2>1 DEF MessageKept, redis, inFlight, data
  <2>6. holds'[w] = holds[w] /\ None \notin holds[w] /\ None \notin Messages
    BY <2>1, QueueAssumption
  <2> QED BY <2>3, <2>4, <2>5, <2>6, WorkerFrame
<1>4. CASE NackFetch(w) /\ key[w] \in stored
  <2>1. /\ UNCHANGED <<redis, due, listed, holds, fate>> /\ pc[w] = "nackChecked"
        /\ Goto(w, "nackFetched", key[w], retryCount[key[w]])
    BY <1>4 DEF NackFetch
  <2>2. /\ pc'[w] = "nackFetched" /\ key'[w] = key[w] /\ reg'[w] = retryCount[key[w]]
        /\ \A q \in Procs \ {w} : pc'[q] = pc[q] /\ key'[q] = key[q] /\ reg'[q] = reg[q]
    BY <1>1, <2>1, GotoRest
  <2>3. WorkerFine(w)'
    BY <1>1, <2>1, <2>2 DEF WorkerFine, Holding, redis, data
  <2>4. \A q \in Procs \ {w} : CallerKept(q) /\ Apart(q, None)
    BY <2>1, <2>2, NoMessage DEF CallerKept
  <2>5. \A m \in Messages \ {None} : MessageKept(m)
    BY <2>1 DEF MessageKept, redis, inFlight, data
  <2>6. holds'[w] = holds[w] /\ None \notin holds[w] /\ None \notin Messages
    BY <2>1, QueueAssumption
  <2> QED BY <2>3, <2>4, <2>5, <2>6, WorkerFrame
<1>5. ASSUME NEW m \in holds[w], m \in processing, NackCheck(w, m) PROVE CallersInv'
  <2>1. UNCHANGED <<redis, due, listed, holds, fate>> /\ Goto(w, "nackChecked", m, 0)
    BY <1>5 DEF NackCheck
  <2>2. /\ pc'[w] = "nackChecked" /\ key'[w] = m
        /\ \A q \in Procs \ {w} : pc'[q] = pc[q] /\ key'[q] = key[q] /\ reg'[q] = reg[q]
    BY <1>1, <2>1, GotoRest
  <2>3. WorkerFine(w)'
    BY <1>5, <2>1, <2>2 DEF WorkerFine
  <2>4. \A q \in Procs \ {w} : CallerKept(q) /\ Apart(q, None)
    BY <2>1, <2>2, NoMessage DEF CallerKept
  <2>5. \A n \in Messages \ {None} : MessageKept(n)
    BY <2>1 DEF MessageKept, redis, inFlight, data
  <2>6. holds'[w] = holds[w] /\ None \notin holds[w] /\ None \notin Messages
    BY <2>1, QueueAssumption
  <2> QED BY <2>3, <2>4, <2>5, <2>6, WorkerFrame
<1>6. CASE (Fail(w) \/ Crash(w)) /\ pc[w] \notin {"popped", "fetched"}
  <2>1. Stay /\ Goto(w, "idle", None, 0) /\ UNCHANGED expiresIn
    BY <1>6, ReadsStay DEF WorkerReads, Fail, Crash, Return, redis, inFlight
  <2>2. /\ pc'[w] = "idle"
        /\ \A q \in Procs \ {w} : pc'[q] = pc[q] /\ key'[q] = key[q] /\ reg'[q] = reg[q]
    BY <1>1, <2>1, GotoRest
  <2>3. /\ \A v \in Workers \ {w} : due'[v] = due[v] /\ holds'[v] = holds[v]
        /\ \A c \in Cleaners : listed'[c] = listed[c]
        /\ holds'[w] \subseteq holds[w]
    BY <1>1, <1>6 DEF Fail, Crash, CallersTypeOK
  <2>4. WorkerFine(w)'
    BY <2>2 DEF WorkerFine
  <2>5. \A q \in Procs \ {w} : CallerKept(q) /\ Apart(q, None)
    BY <2>2, <2>3, NoMessage DEF CallerKept
  <2>6. \A m \in Messages \ {None} : MessageKept(m)
    BY <2>1 DEF MessageKept, Stay
  <2>7. holds'[w] \subseteq holds[w] /\ None \notin holds'[w] /\ None \notin Messages
    BY <2>3, QueueAssumption
  <2> QED BY <2>4, <2>5, <2>6, <2>7, WorkerFrame
<1> QED BY <1>2, <1>3, <1>4, <1>5, <1>6 DEF WorkerReads

\* Nothing in Redis changes but the order and place of messages that wait.
Untouched == UNCHANGED <<processing, expiresIn, retryCount, fate>>

LEMMA UntouchedKept == Untouched => \A m \in Messages : MessageKept(m)
BY DEF Untouched, MessageKept

\* No step of worker w changes what the others remember.
LEMMA OnlyWorker ==
    ASSUME PromptInv, NEW w \in Workers, NEW l, NEW k, NEW r, Goto(w, l, k, r),
           \A v \in Workers \ {w} : due'[v] = due[v] /\ holds'[v] = holds[v],
           \A c \in Cleaners : listed'[c] = listed[c]
    PROVE  /\ pc'[w] = l /\ key'[w] = k /\ reg'[w] = r
           /\ \A q \in Procs \ {w} : CallerKept(q)
<1>1. w \in Procs /\ w \notin Cleaners /\ CallersTypeOK
  BY Facts
<1> QED BY <1>1, GotoRest DEF CallerKept

LEMMA CleanerReadsCallers ==
    ASSUME PromptInv, NEW c \in Cleaners, CleanerReads(c)
    PROVE  CallersInv'
<1> USE Facts
<1>1. c \in Procs /\ c \notin Workers /\ Expired(c)
  OBVIOUS
<1>2. UNCHANGED <<redis, due, holds, fate>>
  BY DEF CleanerReads, CleanList, CleanFail, CleanCrash, CleanFetch
<1>3. Untouched
  BY <1>2 DEF Untouched, redis, inFlight, data
<1>4. ASSUME NEW l \in {"idle", "scanning", "timedOut"}, NEW k, NEW r,
             \/ Goto(c, l, k, r)
             \/ UNCHANGED <<pc, key, reg>> /\ l = pc[c] /\ k = key[c] /\ r = reg[c],
             \A d \in Cleaners \ {c} : listed'[d] = listed[d],
             \A m \in listed'[c] : m \in processing /\ expiresIn[m] = 0,
             l = "timedOut" => /\ k \in processing /\ expiresIn[k] = 0 /\ k \notin listed'[c]
                               /\ r = retryCount[k]
      PROVE  CallersInv'
  <2>1. /\ pc'[c] = l /\ key'[c] = k /\ reg'[c] = r
        /\ \A q \in Procs \ {c} : pc'[q] = pc[q] /\ key'[q] = key[q] /\ reg'[q] = reg[q]
    BY <1>1, <1>4, GotoRest
  <2>2. \A q \in Procs \ {c} : CallerKept(q) /\ Apart(q, None)
    BY <1>2, <1>4, <2>1, NoMessage DEF CallerKept
  <2>3. Expired(c)'
    BY <1>3, <1>4, <2>1 DEF Expired, Untouched
  <2>4. CallerFine(c, None)'
    BY <1>1, <1>3, <1>4, <2>1, <2>3, QueueAssumption DEF CallerFine, Untouched
  <2> QED BY <1>1, <1>3, <2>2, <2>4, UntouchedKept, CallerFrame
<1>5. CASE CleanList(c)
  <2>1. /\ Goto(c, "scanning", None, 0)
        /\ listed' = [listed EXCEPT ![c] = {m \in processing : expiresIn[m] = 0}]
    BY <1>5 DEF CleanList
  <2>2. listed'[c] = {m \in processing : expiresIn[m] = 0}
    BY <1>1, <2>1 DEF CallersTypeOK
  <2>3. \A d \in Cleaners \ {c} : listed'[d] = listed[d]
    BY <1>1, <2>1 DEF CallersTypeOK
  <2> QED BY <1>4, <2>1, <2>2, <2>3
<1>6. ASSUME NEW m \in Messages, m \in stored, CleanFetch(c, m) PROVE CallersInv'
  <2>1. /\ Goto(c, "timedOut", m, retryCount[m]) /\ m \in listed[c]
        /\ listed' = [listed EXCEPT ![c] = @ \ {m}]
    BY <1>6 DEF CleanFetch
  <2>2. /\ listed'[c] = listed[c] \ {m}
        /\ \A d \in Cleaners \ {c} : listed'[d] = listed[d]
    BY <1>1, <2>1 DEF CallersTypeOK
  <2>3. \A n \in listed[c] : n \in processing /\ expiresIn[n] = 0
    BY <1>1 DEF Expired
  <2> QED BY <1>4, <2>1, <2>2, <2>3
<1>7. CASE CleanFail(c) \/ CleanCrash(c)
  <2>1. /\ \A d \in Cleaners \ {c} : listed'[d] = listed[d]
        /\ listed'[c] \subseteq listed[c]
    BY <1>1, <1>7 DEF CleanFail, CleanCrash, CallersTypeOK
  <2>2. \A n \in listed[c] : n \in processing /\ expiresIn[n] = 0
    BY <1>1 DEF Expired
  <2>3. \/ Goto(c, "scanning", None, 0) \/ Goto(c, "idle", None, 0)
        \/ pc[c] = "scanning" /\ UNCHANGED <<pc, key, reg>>
    BY <1>7 DEF CleanFail, CleanCrash, Return
  <2> QED BY <1>4, <2>1, <2>2, <2>3
<1> QED BY <1>5, <1>6, <1>7 DEF CleanerReads

LEMMA MoveDelayedCallers ==
    ASSUME PromptInv,
           \/ \E w \in Workers : PollStart(w)
           \/ \E c \in Cleaners : CleanMove(c)
    PROVE  CallersInv' /\ PlacedOnce'
<1> USE Facts
<1>1. ASSUME NEW w \in Workers, PollStart(w) PROVE CallersInv' /\ PlacedOnce'
  <2>1. /\ Untouched /\ UNCHANGED <<due, listed, holds>> /\ MoveDelayed
        /\ pc[w] = "idle" /\ Goto(w, "polling", None, 0)
    BY <1>1 DEF PollStart, MoveDelayed, Untouched, inFlight, data
  <2>2. pc'[w] = "polling" /\ \A q \in Procs \ {w} : CallerKept(q) /\ Apart(q, None)
    BY <2>1, OnlyWorker, NoMessage
  <2>3. WorkerFine(w)'
    BY <2>2 DEF WorkerFine
  <2>4. holds'[w] = holds[w] /\ None \notin holds[w] /\ None \notin Messages
    BY <2>1, QueueAssumption
  <2>5. HandsKept
    BY <2>1, GotoHands
  <2> QED BY <2>1, <2>2, <2>3, <2>4, <2>5, UntouchedKept, WorkerFrame, MoveDelayedPlaced
           DEF Untouched
<1>2. ASSUME NEW c \in Cleaners, CleanMove(c) PROVE CallersInv' /\ PlacedOnce'
  <2>0. c \in Procs /\ c \notin Workers
    OBVIOUS
  <2>1. /\ Untouched /\ UNCHANGED <<due, listed, holds>> /\ MoveDelayed
        /\ pc[c] = "scanning" /\ listed[c] = {} /\ Goto(c, "idle", None, 0)
    BY <1>2 DEF CleanMove, MoveDelayed, Untouched, inFlight, data
  <2>2. /\ pc'[c] = "idle"
        /\ \A q \in Procs \ {c} : pc'[q] = pc[q] /\ key'[q] = key[q] /\ reg'[q] = reg[q]
    BY <2>0, <2>1, GotoRest
  <2>3. \A q \in Procs \ {c} : CallerKept(q) /\ Apart(q, None)
    BY <2>1, <2>2, NoMessage DEF CallerKept
  <2>4. Expired(c)'
    BY <2>1, <2>2 DEF Expired
  <2>5. CallerFine(c, None)'
    BY <2>0, <2>2, <2>4, QueueAssumption DEF CallerFine
  <2>6. HandsKept
    BY <2>0, <2>1, GotoHands
  <2> QED BY <2>0, <2>1, <2>3, <2>5, <2>6, UntouchedKept, CallerFrame, MoveDelayedPlaced
           DEF Untouched
<1> QED BY <1>1, <1>2

LEMMA TickCallers ==
    ASSUME PromptUse, PromptInv, Tick
    PROVE  CallersInv'
<1> USE Facts
<1>1. /\ UNCHANGED <<processing, retryCount, pc, key, reg, listed, holds, fate>> /\ Prompt
      /\ expiresIn' = [m \in Messages |-> IF expiresIn[m] > 0 THEN expiresIn[m] - 1 ELSE 0]
      /\ due' = [w \in Workers |-> IF due[w] > 0 THEN due[w] - 1 ELSE 0]
  BY DEF Tick, PromptUse, data
<1>2. RetriesKnown'
  BY <1>1 DEF PromptInv, RetriesKnown
<1>3. ASSUME NEW w \in Workers PROVE Holding(w)'
  <2>1. \A m \in holds[w] : m \in Messages /\ m \in processing /\ expiresIn[m] > 1
    BY <1>1, WorkedOn DEF Prompt
  <2>2. \A m \in holds[w] : expiresIn'[m] > 0
    BY <1>1, <2>1 DEF RedisTypeOK
  <2>3. pc[w] = "fetched" => due'[w] > 0
    BY <1>1 DEF Prompt, CallersTypeOK
  <2>4. Holding(w)
    OBVIOUS
  <2> QED BY <1>1, <2>2, <2>3, <2>4 DEF Holding
<1>4. ASSUME NEW c \in Cleaners PROVE Expired(c)'
  <2>1. \A m \in Messages : expiresIn[m] = 0 => expiresIn'[m] = 0
    BY <1>1
  <2>2. Expired(c) /\ \A m \in listed[c] : m \in Messages
    BY DEF CallersTypeOK
  <2>3. pc[c] = "timedOut" => key[c] \in Messages
    BY WorkedOn
  <2> QED BY <1>1, <2>1, <2>2, <2>3 DEF Expired
<1> QED BY <1>2, <1>3, <1>4 DEF CallersInv

(* The steps of a worker that move a message.                               *)

LEMMA OfferCallers ==
    ASSUME PromptUse, PromptInv, NEW w \in Workers, NEW k \in Messages, NEW d \in Delays,
           Offer(w, k, d)
    PROVE  CallersInv'
<1> USE Facts
<1>1. /\ UNCHANGED <<processing, expiresIn, pc, key, reg, due, listed, holds>>
      /\ pc[w] = "idle" /\ fate[k] = "new" /\ fate' = [fate EXCEPT ![k] = "open"]
      /\ retryCount' = [retryCount EXCEPT ![k] = 0]
  BY DEF Offer, inFlight, local
<1>2. \A q \in Procs \ {w} : CallerKept(q) /\ Apart(q, k)
  BY <1>1, Alone DEF CallerKept
<1>3. WorkerFine(w)'
  BY <1>1 DEF WorkerFine
<1>4. \A m \in Messages \ {k} : MessageKept(m)
  BY <1>1 DEF MessageKept
<1>5. k \notin holds[w]
  BY <1>1, WorkedOn DEF Queued
<1>6. retryCount'[k] <= MaxRetries
  BY <1>1, QueueAssumption DEF RedisTypeOK
<1> QED BY <1>1, <1>2, <1>3, <1>4, <1>5, <1>6, WorkerFrame

LEMMA PopCallers ==
    ASSUME PromptInv, NEW w \in Workers, PollPop(w)
    PROVE  CallersInv'
<1> USE Facts
<1>1. /\ Untouched /\ UNCHANGED <<due, listed, holds>>
      /\ Goto(w, "popped", Last(pending), 0)
  BY DEF PollPop, Untouched, inFlight, data
<1>2. /\ pc'[w] = "popped"
      /\ \A q \in Procs \ {w} : CallerKept(q) /\ Apart(q, None)
  BY <1>1, OnlyWorker, NoMessage
<1>3. WorkerFine(w)'
  BY <1>2 DEF WorkerFine
<1>4. holds'[w] = holds[w] /\ None \notin holds[w] /\ None \notin Messages
  BY <1>1, QueueAssumption
<1> QED BY <1>1, <1>2, <1>3, <1>4, UntouchedKept, WorkerFrame

LEMMA PollMoveCallers ==
    ASSUME PromptUse, PromptInv, NEW w \in Workers, PollMove(w)
    PROVE  CallersInv'
<1> USE Facts
<1>k. PICK k \in Messages : k = key[w]
  BY WorkedOn DEF PollMove
<1>1. /\ pc[w] = "fetched" /\ Goto(w, "idle", None, 0) /\ UNCHANGED <<listed, fate>>
      /\ retryCount' = [retryCount EXCEPT ![k] = reg[w]]
      /\ processing' = processing \cup {k}
      /\ expiresIn' = [expiresIn EXCEPT ![k] = due[w]]
      /\ due' = [due EXCEPT ![w] = 0]
      /\ holds' = [holds EXCEPT ![w] = @ \cup {k}]
  BY <1>k DEF PollMove, Return
<1>2. InHandOf(w, k) /\ fate[k] = "open" /\ w \in Procs
  BY <1>k, <1>1, WorkedOn DEF InHand
<1>3. /\ \A v \in Workers \ {w} : due'[v] = due[v] /\ holds'[v] = holds[v]
      /\ holds'[w] = holds[w] \cup {k}
  BY <1>1 DEF CallersTypeOK
<1>4. pc'[w] = "idle" /\ \A q \in Procs \ {w} : CallerKept(q)
  BY <1>1, <1>3, OnlyWorker
<1>5. \A q \in Procs \ {w} : Apart(q, k)
  BY <1>2, Alone
<1>6. reg[w] = retryCount[k] /\ retryCount[k] <= MaxRetries
  BY <1>k, <1>1, <1>2 DEF PromptInv, RetriesKnown
<1>7. k \in processing' /\ expiresIn'[k] > 0 /\ retryCount'[k] <= MaxRetries
  BY <1>1, <1>6 DEF Holding, RedisTypeOK
<1>8. \A m \in Messages \ {k} : MessageKept(m)
  BY <1>1 DEF MessageKept, RedisTypeOK
<1>9. WorkerFine(w)'
  BY <1>4 DEF WorkerFine
<1> QED BY <1>3, <1>4, <1>5, <1>7, <1>8, <1>9, WorkerFrame

LEMMA AckCallers ==
    ASSUME PromptUse, PromptInv, NEW w \in Workers, NEW k \in holds[w], k \in processing, Ack(w, k)
    PROVE  CallersInv'
<1> USE Facts
<1>1. /\ UNCHANGED <<pc, key, reg, due, listed>> /\ pc[w] = "idle"
      /\ processing' = processing \ {k} /\ expiresIn' = [expiresIn EXCEPT ![k] = 0]
      /\ retryCount' = [retryCount EXCEPT ![k] = 0]
      /\ holds' = [holds EXCEPT ![w] = @ \ {k}]
      /\ Settle({k}, "acked") /\ k \in Messages
  BY WorkedOn DEF Ack, local
<1>2. /\ \A v \in Workers \ {w} : holds'[v] = holds[v]
      /\ holds'[w] = holds[w] \ {k}
  BY <1>1
<1>3. \A q \in Procs \ {w} : CallerKept(q) /\ Apart(q, k)
  BY <1>1, <1>2, Alone DEF CallerKept
<1>4. \A m \in Messages \ {k} : MessageKept(m)
  BY <1>1 DEF MessageKept, RedisTypeOK, Settle
<1>5. WorkerFine(w)'
  BY <1>1 DEF WorkerFine
<1>6. retryCount'[k] <= MaxRetries
  BY <1>1, QueueAssumption DEF RedisTypeOK
<1> QED BY <1>2, <1>3, <1>4, <1>5, <1>6, WorkerFrame

(* The transaction that ends Nack and handleTimeoutMessage, called with one *)
(* more than the RetryCount that is stored.                                 *)
LEMMA RetryCallers ==
    ASSUME PromptUse, PromptInv, NEW p, NEW k \in processing, NEW r, RetryOrBury(p, k, r)
    PROVE  /\ k \in Messages
           /\ fate'[k] = "open" => retryCount'[k] <= MaxRetries
           /\ processing' = processing \ {k}
           /\ \A m \in Messages \ {k} : MessageKept(m)
<1> USE Facts
<1>1. /\ Retried(k, r) \/ Buried(k, r) \/ Dropped(k, r)
      /\ processing' = processing \ {k} /\ expiresIn' = [expiresIn EXCEPT ![k] = 0]
  BY RetryOutcome
<1>2. k \in Messages
  BY WorkedOn
<1>3. \A m \in Messages \ {k} : MessageKept(m)
  BY <1>1, <1>2 DEF MessageKept, RedisTypeOK, Retried, Buried, Dropped
<1>4. fate'[k] = "open" => retryCount'[k] <= MaxRetries
  <2>1. fate[k] = "open" => retryCount[k] <= MaxRetries
    BY <1>2 DEF PromptInv, RetriesKnown
  <2> QED BY <1>1, <1>2, <2>1 DEF RedisTypeOK, Retried, Buried, Dropped
<1> QED BY <1>1, <1>2, <1>3, <1>4

LEMMA NackExecCallers ==
    ASSUME PromptUse, PromptInv, NEW w \in Workers, NackExec(w)
    PROVE  CallersInv'
<1> USE Facts
<1>k. PICK k \in processing : k = key[w] /\ k \in holds[w]
  BY WorkedOn DEF NackExec
<1>1. /\ Goto(w, "idle", None, 0) /\ UNCHANGED <<due, listed>>
      /\ RetryOrBury(w, k, reg[w] + 1)
      /\ holds' = [holds EXCEPT ![w] = @ \ {k}]
  BY <1>k DEF NackExec, Return
<1>2. /\ \A v \in Workers \ {w} : holds'[v] = holds[v]
      /\ holds'[w] = holds[w] \ {k}
  BY <1>1
<1>3. pc'[w] = "idle" /\ \A q \in Procs \ {w} : CallerKept(q)
  BY <1>1, <1>2, OnlyWorker
<1>4. /\ k \in Messages /\ fate'[k] = "open" => retryCount'[k] <= MaxRetries
      /\ \A m \in Messages \ {k} : MessageKept(m)
  BY <1>1, RetryCallers
<1>5. \A q \in Procs \ {w} : Apart(q, k)
  BY <1>k, <1>4, Alone, WorkedOn
<1>6. WorkerFine(w)'
  BY <1>3 DEF WorkerFine
<1> QED BY <1>2, <1>3, <1>4, <1>5, <1>6, WorkerFrame

LEMMA CleanExecCallers ==
    ASSUME PromptUse, PromptInv, NEW c \in Cleaners, CleanExec(c)
    PROVE  CallersInv'
<1> USE Facts
<1>0. c \in Procs /\ c \notin Workers /\ Expired(c)
  OBVIOUS
<1>k. PICK k \in processing : k = key[c] /\ k \notin listed[c] /\ pc[c] = "timedOut"
  BY <1>0 DEF CleanExec, Expired
<1>1. /\ Goto(c, "scanning", None, 0) /\ UNCHANGED <<due, listed, holds>>
      /\ RetryOrBury(c, k, reg[c] + 1)
  BY <1>k DEF CleanExec
<1>2. /\ pc'[c] = "scanning"
      /\ \A q \in Procs \ {c} : pc'[q] = pc[q] /\ key'[q] = key[q] /\ reg'[q] = reg[q]
  BY <1>0, <1>1, GotoRest
<1>3. /\ k \in Messages /\ fate'[k] = "open" => retryCount'[k] <= MaxRetries
      /\ k \in Messages /\ \A m \in Messages \ {k} : MessageKept(m)
  BY <1>1, RetryCallers
<1>4. \A q \in Procs \ {c} : CallerKept(q)
  BY <1>1, <1>2 DEF CallerKept
<1>5. \A q \in Procs \ {c} : Apart(q, k)
  BY <1>0, <1>k, <1>3, Alone
<1>6. Expired(c)'
  <2>1. ASSUME NEW m \in listed[c] PROVE m \in processing' /\ expiresIn'[m] = 0
    <3>1. m \in processing /\ expiresIn[m] = 0 /\ m \in Messages \ {k}
      BY <1>0, <1>k, <2>1, WorkedOn DEF Expired
    <3> QED BY <1>3, <3>1 DEF MessageKept
  <2> QED BY <1>1, <1>2, <2>1 DEF Expired
<1>7. CallerFine(c, k)'
  BY <1>0, <1>2, <1>3, <1>6 DEF CallerFine
<1> QED BY <1>0, <1>3, <1>4, <1>5, <1>7, CallerFrame

LEMMA LoseCallers ==
    ASSUME PromptUse, PromptInv, NEW w \in Workers, Fail(w) \/ Crash(w),
           pc[w] \in {"popped", "fetched"}
    PROVE  CallersInv'
<1> USE Facts
<1>k. PICK k \in Messages : k = key[w] /\ InHandOf(w, k) /\ ~Queued(k)
  BY WorkedOn
<1>1. /\ Goto(w, "idle", None, 0) /\ UNCHANGED <<processing, expiresIn, retryCount>>
      /\ fate' = [fate EXCEPT ![k] = "lost"]
  BY <1>k, LosePlaced DEF Fail, Crash, Return, redis, inFlight, data
<1>2. /\ \A v \in Workers \ {w} : due'[v] = due[v] /\ holds'[v] = holds[v]
      /\ \A c \in Cleaners : listed'[c] = listed[c]
      /\ holds'[w] \subseteq holds[w]
  BY DEF Fail, Crash, CallersTypeOK
<1>3. pc'[w] = "idle" /\ \A q \in Procs \ {w} : CallerKept(q)
  BY <1>1, <1>2, OnlyWorker
<1>4. \A q \in Procs \ {w} : Apart(q, k)
  BY <1>k, Alone
<1>5. \A m \in Messages \ {k} : MessageKept(m)
  BY <1>1 DEF MessageKept
<1>6. k \notin holds'[w] /\ fate'[k] = "lost"
  BY <1>k, <1>1, <1>2, WorkedOn DEF Queued
<1>7. WorkerFine(w)'
  BY <1>3 DEF WorkerFine
<1> QED BY <1>2, <1>3, <1>4, <1>5, <1>6, <1>7, WorkerFrame

-----------------------------------------------------------------------------
(* The invariant                                                            *)

LEMMA PromptInit == Init => PromptInv
<1> SUFFICES ASSUME Init PROVE PromptInv
  OBVIOUS
<1>1. QueueInv
  BY QueueInit
<1>2. /\ pending = <<>> /\ deadLetter = <<>> /\ delayed = <<>> /\ processing = {}
      /\ \A p \in Procs : pc[p] = "idle" /\ listed[p] = {}
      /\ \A w \in Workers : holds[w] = {}
      /\ \A m \in Messages : fate[m] = "new"
  BY DEF Init
<1>3. IsInjective(<<>>) /\ ToSet(<<>>) = {}
  BY DEF IsInjective, ToSet
<1>4. PlacedOnce
  BY <1>2, <1>3 DEF PlacedOnce, Once, Queued, InHand, InHandOf, Procs
<1>5. RetriesKnown
  BY <1>2 DEF RetriesKnown
<1>6. (\A w \in Workers : Holding(w)) /\ \A c \in Cleaners : Expired(c)
  BY <1>2 DEF Holding, Expired, Procs
<1> QED BY <1>1, <1>4, <1>5, <1>6 DEF PromptInv

LEMMA PromptStep ==
    ASSUME PromptUse, PromptInv, [Next]_vars
    PROVE  PromptInv'
<1>1. QueueInv'
  <2>1. "PurgeDeadLetters" \notin Calls
    BY DEF PromptUse
  <2> QED BY <2>1, QueueStep DEF PromptInv
<1>2. CASE UNCHANGED vars
  <2>1. /\ UNCHANGED <<pending, deadLetter, processing, expiresIn, delayed, retryCount>>
        /\ UNCHANGED <<pc, key, reg, due, listed, holds, fate>>
    BY <1>2 DEF vars, redis, local, lists, inFlight, waiting, data
  <2>2. PlacedOnce'
    BY <2>1 DEF PromptInv, PlacedOnce, Once, Queued, InHand, InHandOf
  <2>3. RetriesKnown' /\ (\A w \in Workers : Holding(w)') /\ \A c \in Cleaners : Expired(c)'
    BY <2>1 DEF PromptInv, RetriesKnown, Holding, Expired
  <2> QED BY <1>1, <2>2, <2>3 DEF PromptInv
<1>3. ASSUME PlacedOnce', CallersInv' PROVE PromptInv'
  BY <1>1, <1>3 DEF CallersInv, PromptInv
<1>4. CASE \/ \E w \in Workers : WorkerReads(w)
           \/ \E c \in Cleaners : CleanerReads(c)
           \/ Tick
  BY <1>3, <1>4, ReadsStay, StayPlaced, WorkerReadsCallers, CleanerReadsCallers, TickCallers
<1>5. CASE \/ \E w \in Workers : PollStart(w)
           \/ \E c \in Cleaners : CleanMove(c)
  BY <1>3, <1>5, MoveDelayedCallers
<1>6. ASSUME NEW w \in Workers, WorkerMoves(w) PROVE PromptInv'
  <2>1. CASE \E m \in Messages, d \in Delays : Offer(w, m, d)
    BY <1>3, <2>1, OfferPlaced, OfferCallers
  <2>2. CASE PollPop(w)
    BY <1>3, <2>2, PopPlaced, PopCallers
  <2>3. CASE PollMove(w)
    BY <1>3, <2>3, PollMovePlaced, PollMoveCallers
  <2>4. CASE NackExec(w)
    <3>1. PICK k \in processing : RetryOrBury(w, k, reg[w] + 1)
      BY <2>4, WorkedOn DEF NackExec
    <3>2. HandsKept
      <4>1. w \in Procs /\ pc[w] = "nackFetched" /\ Goto(w, "idle", None, 0) /\ CallersTypeOK
        BY <2>4, Facts DEF NackExec, Return
      <4> QED BY <4>1, GotoHands
    <3> QED BY <1>3, <2>4, <3>1, <3>2, RetryPlaced, NackExecCallers
  <2>5. CASE \E m \in holds[w] : m \in processing /\ Ack(w, m)
    BY <1>3, <2>5, AckPlaced, AckCallers
  <2>6. CASE (Fail(w) \/ Crash(w)) /\ pc[w] \in {"popped", "fetched"}
    BY <1>3, <2>6, LosePlaced, LoseCallers
  <2> QED BY <1>6, <2>1, <2>2, <2>3, <2>4, <2>5, <2>6 DEF WorkerMoves
<1>7. ASSUME NEW c \in Cleaners, CleanExec(c) PROVE PromptInv'
  <2>1. PICK k \in processing : RetryOrBury(c, k, reg[c] + 1)
    BY <1>7, Facts DEF CleanExec, Expired
  <2>2. HandsKept
    <3>1. c \in Procs /\ pc[c] = "timedOut" /\ Goto(c, "scanning", None, 0) /\ CallersTypeOK
      BY <1>7, Facts DEF CleanExec
    <3> QED BY <3>1, GotoHands
  <2> QED BY <1>3, <1>7, <2>1, <2>2, RetryPlaced, CleanExecCallers
<1> QED BY <1>2, <1>4, <1>5, <1>6, <1>7, Steps

(* With consumers that settle in time, by Ack and Nack, and one cleanup     *)
(* goroutine, a message is in one place of the queue or in the hand of one  *)
(* worker, whoever was given it has it for itself with time left, and the   *)
(* RetryCount a caller has read is the one that is stored.                  *)
THEOREM PromptInvariant == ASSUME PromptUse PROVE Spec => []PromptInv
<1>1. Init => PromptInv
  BY PromptInit
<1>2. PromptInv /\ [Next]_vars => PromptInv'
  BY PromptStep
<1> QED BY <1>1, <1>2, PTL DEF Spec

(* A message is delivered to one consumer at a time, and stays where its    *)
(* Ack and Nack look for it.                                                *)
THEOREM DeliveryIsExclusive == ASSUME PromptUse PROVE Spec => []ExclusiveDelivery
<1>1. PromptInv => ExclusiveDelivery
  BY DEF PromptInv, Holding, ExclusiveDelivery
<1> QED BY <1>1, PromptInvariant, PTL

(* A message leaves :processing early by the hand of the consumer that was  *)
(* given it, never by that of the cleanup goroutine or of another consumer. *)
THEOREM TimeoutsAreNotEarly == ASSUME PromptUse PROVE Spec => NoEarlyTimeout
<1> DEFINE Early == \A m \in processing \ processing' :
              expiresIn[m] > 0 => \E w \in Workers : m \in holds[w] \ holds'[w]
<1>1. ASSUME PromptInv, [Next]_vars PROVE Early
  <2> USE Facts
  <2>1. CASE UNCHANGED vars
    BY <2>1 DEF vars, redis, inFlight
  <2>2. CASE \/ \E w \in Workers : WorkerReads(w)
             \/ \E c \in Cleaners : CleanerReads(c)
             \/ Tick
    BY <1>1, <2>2, ReadsStay DEF Stay
  <2>3. CASE \/ \E w \in Workers : PollStart(w)
             \/ \E c \in Cleaners : CleanMove(c)
    BY <2>3 DEF PollStart, CleanMove, MoveDelayed, inFlight
  <2>4. ASSUME NEW w \in Workers, WorkerMoves(w) PROVE Early
    <3>1. CASE \/ \E m \in Messages, d \in Delays : Offer(w, m, d)
               \/ PollPop(w) \/ PollMove(w)
               \/ (Fail(w) \/ Crash(w)) /\ pc[w] \in {"popped", "fetched"}
      BY <3>1 DEF Offer, PollPop, PollMove, Fail, Crash, redis, inFlight
    <3>2. CASE NackExec(w)
      <4>1. PICK k \in processing : k = key[w] /\ k \in holds[w]
        BY <1>1, <3>2, WorkedOn DEF NackExec
      <4>2. processing' = processing \ {k} /\ holds' = [holds EXCEPT ![w] = @ \ {k}]
        BY <1>1, <3>2, <4>1, RetryOutcome DEF NackExec
      <4> QED BY <1>1, <4>1, <4>2
    <3>3. ASSUME NEW k \in holds[w], k \in processing, Ack(w, k) PROVE Early
      <4>1. processing' = processing \ {k} /\ holds' = [holds EXCEPT ![w] = @ \ {k}]
        BY <3>3 DEF Ack
      <4> QED BY <1>1, <3>3, <4>1
    <3> QED BY <2>4, <3>1, <3>2, <3>3 DEF WorkerMoves
  <2>5. ASSUME NEW c \in Cleaners, CleanExec(c) PROVE Early
    <3>1. PICK k \in processing : k = key[c] /\ expiresIn[k] = 0
      BY <1>1, <2>5 DEF CleanExec, Expired
    <3>2. processing' = processing \ {k}
      BY <1>1, <2>5, <3>1, RetryOutcome DEF CleanExec
    <3> QED BY <3>1, <3>2
  <2> QED BY <1>1, <2>1, <2>2, <2>3, <2>4, <2>5, Steps
<1>2. PromptInv /\ [Next]_vars => [Early]_vars
  BY <1>1
<1> HIDE DEF Early
<1>3. Spec => [][Early]_vars
  BY <1>2, PromptInvariant, PTL DEF Spec
<1> QED BY <1>3 DEF NoEarlyTimeout, Early

(* Of an open message there is exactly one copy, of any other none.         *)
THEOREM OneCopyOfEach == ASSUME PromptUse PROVE Spec => []OneCopy
<1>1. ASSUME PromptInv, NEW m \in Messages
      PROVE  Copies(m) = IF fate[m] = "open" THEN 1 ELSE 0
  <2> USE Facts
  <2>1. ASSUME NEW s, s \in Seq(Messages), IsInjective(s)
        PROVE  Occurrences(s, m) = IF m \in ToSet(s) THEN 1 ELSE 0
    <3>1. CASE m \in ToSet(s)
      <4>1. PICK i \in DOMAIN s : s[i] = m
        BY <3>1 DEF ToSet
      <4>2. {j \in DOMAIN s : s[j] = m} = {i}
        BY <2>1, <4>1 DEF IsInjective
      <4> QED BY <3>1, <4>2, FS_Singleton DEF Occurrences
    <3>2. CASE m \notin ToSet(s)
      <4>1. {j \in DOMAIN s : s[j] = m} = {}
        BY <3>2 DEF ToSet
      <4> QED BY <3>2, <4>1, FS_EmptySet DEF Occurrences
    <3> QED BY <3>1, <3>2
  <2> DEFINE Hands == Cardinality({w \in Workers : key[w] = m /\ pc[w] \in {"popped", "fetched"}})
  <2>2. Hands = IF InHand(m) THEN 1 ELSE 0
    <3>0. {w \in Workers : key[w] = m /\ pc[w] \in {"popped", "fetched"}}
            = {w \in Workers : InHandOf(w, m)}
      BY DEF InHandOf
    <3>1. CASE InHand(m)
      <4>1. PICK w \in Workers : InHandOf(w, m)
        BY <3>1 DEF InHand
      <4>2. {v \in Workers : InHandOf(v, m)} = {w}
        BY <1>1, <4>1 DEF Once
      <4> QED BY <3>0, <3>1, <4>2, FS_Singleton
    <3>2. CASE ~InHand(m)
      <4>1. {v \in Workers : InHandOf(v, m)} = {}
        BY <3>2 DEF InHand
      <4> QED BY <3>0, <3>2, <4>1, FS_EmptySet
    <3> QED BY <3>1, <3>2
  <2>3. /\ Occurrences(pending, m) = IF m \in ToSet(pending) THEN 1 ELSE 0
        /\ Occurrences(deadLetter, m) = IF m \in ToSet(deadLetter) THEN 1 ELSE 0
        /\ Occurrences(delayed, m) = IF m \in ToSet(delayed) THEN 1 ELSE 0
    BY <1>1, <2>1 DEF PromptInv, PlacedOnce, RedisTypeOK
  <2>4. Once(m)
    BY <1>1
  <2> HIDE DEF Hands
  <2>5. Copies(m) = Occurrences(pending, m) + Occurrences(deadLetter, m) + Occurrences(delayed, m)
                      + (IF m \in processing THEN 1 ELSE 0) + Hands
    BY DEF Copies, Hands
  <2> QED BY <2>2, <2>3, <2>4, <2>5 DEF Once, Queued
<1>2. PromptInv => OneCopy
  BY <1>1 DEF OneCopy
<1> QED BY <1>2, PromptInvariant, PTL

-----------------------------------------------------------------------------
(* What the steps do to the life of a message                               *)

\* The fate of message k alone changes, from f to g.
Turns(k, f, g) == fate[k] = f /\ fate' = [fate EXCEPT ![k] = g]

Counts(c) == stats' = [stats EXCEPT ![c] = @ + 1]

\* The steps a message takes, as the queue counts them.
Passes == UNCHANGED <<deadLetter, stats, fate>>
Enters(k) == Turns(k, "new", "open") /\ Counts("enqueued") /\ deadLetter' = deadLetter
Leaves(k) == Turns(k, "open", "acked") /\ Counts("processed") /\ deadLetter' = deadLetter
IsBuried(k) == deadLetter' = <<k>> \o deadLetter /\ Counts("failed") /\ fate' = fate
IsDropped(k) == Turns(k, "open", "dropped") /\ Counts("failed") /\ deadLetter' = deadLetter
IsLost(k) == Turns(k, "open", "lost") /\ UNCHANGED <<deadLetter, stats>>

LEMMA CountedSteps ==
    ASSUME PromptUse, PromptInv, [Next]_vars
    PROVE  \/ Passes
           \/ \E k \in Messages : \/ Enters(k) \/ Leaves(k) \/ IsBuried(k)
                                  \/ IsDropped(k) \/ IsLost(k)
<1> DEFINE Goal == \/ Passes
                   \/ \E k \in Messages : \/ Enters(k) \/ Leaves(k) \/ IsBuried(k)
                                          \/ IsDropped(k) \/ IsLost(k)
<1> USE Facts
<1>1. CASE UNCHANGED vars
  BY <1>1 DEF vars, redis, lists, Passes
<1>2. CASE \/ \E w \in Workers : WorkerReads(w)
           \/ \E c \in Cleaners : CleanerReads(c)
           \/ Tick
  BY <1>2, ReadsStay DEF Stay, Passes
<1>3. CASE \/ \E w \in Workers : PollStart(w)
           \/ \E c \in Cleaners : CleanMove(c)
  BY <1>3 DEF PollStart, CleanMove, MoveDelayed, Passes
<1>4. ASSUME NEW p, NEW k \in processing, NEW r, RetryOrBury(p, k, r) PROVE Goal
  <2>1. Retried(k, r) \/ Buried(k, r) \/ Dropped(k, r)
    BY <1>4, RetryOutcome
  <2>2. k \in Messages /\ fate[k] = "open"
    BY WorkedOn DEF Queued
  <2> QED BY <2>1, <2>2 DEF Retried, Buried, Dropped, Passes, IsBuried, IsDropped, Turns, Counts
<1>5. ASSUME NEW w \in Workers, WorkerMoves(w) PROVE Goal
  <2>1. ASSUME NEW k \in Messages, NEW d \in Delays, Offer(w, k, d) PROVE Goal
    BY <2>1 DEF Offer, Enters, Turns, Counts
  <2>2. CASE PollPop(w) \/ PollMove(w)
    BY <2>2 DEF PollPop, PollMove, Passes, lists
  <2>3. CASE NackExec(w)
    <3>1. \E k \in processing : RetryOrBury(w, k, reg[w] + 1)
      BY <2>3, WorkedOn DEF NackExec
    <3> QED BY <1>4, <3>1
  <2>4. ASSUME NEW k \in holds[w], k \in processing, Ack(w, k) PROVE Goal
    <3>1. k \in Messages /\ fate[k] = "open"
      BY <2>4, WorkedOn DEF Queued
    <3>2. Settle({k}, "acked") => fate' = [fate EXCEPT ![k] = "acked"]
      BY <3>1 DEF Settle
    <3> QED BY <2>4, <3>1, <3>2 DEF Ack, Leaves, Turns, Counts, lists
  <2>5. CASE (Fail(w) \/ Crash(w)) /\ pc[w] \in {"popped", "fetched"}
    <3>1. PICK k \in Messages : k = key[w] /\ InHandOf(w, k)
      BY <2>5, WorkedOn
    <3>2. fate[k] = "open" /\ fate' = [fate EXCEPT ![k] = "lost"]
      BY <2>5, <3>1, WorkedOn, LosePlaced DEF InHand
    <3> QED BY <2>5, <3>2 DEF Fail, Crash, redis, lists, IsLost, Turns
  <2> QED BY <1>5, <2>1, <2>2, <2>3, <2>4, <2>5 DEF WorkerMoves
<1>6. ASSUME NEW c \in Cleaners, CleanExec(c) PROVE Goal
  <2>1. \E k \in processing : RetryOrBury(c, k, reg[c] + 1)
    BY <1>6 DEF CleanExec, Expired
  <2> QED BY <1>4, <2>1
<1> QED BY <1>1, <1>2, <1>3, <1>5, <1>6, Steps

\* The messages whose fate is f.
Fated(f) == {m \in Messages : fate[m] = f}
Offered == {m \in Messages : fate[m] # "new"}

LEMMA TurnsFated ==
    ASSUME fate \in [Messages -> Fates], NEW k \in Messages, NEW f, NEW g \in Fates \ {"new"},
           f # g, Turns(k, f, g)
    PROVE  /\ \A h \in Fates : h \notin {f, g} => Fated(h)' = Fated(h)
           /\ Fated(g)' = Fated(g) \cup {k} /\ k \notin Fated(g)
           /\ f = "new" => Offered' = Offered \cup {k} /\ k \notin Offered
           /\ f # "new" => Offered' = Offered
BY DEF Turns, Fated, Offered

\* StatsExact, with the fact that it counts finite sets.
StatsInv ==
    /\ IsFiniteSet(Offered)
    /\ stats["enqueued"] = Cardinality(Offered)
    /\ stats["processed"] = Cardinality(Fated("acked"))
    /\ stats["failed"] = Len(deadLetter) + Cardinality(Fated("dropped"))

LEMMA StatsStep ==
    ASSUME PromptUse, PromptInv, StatsInv, [Next]_vars
    PROVE  StatsInv'
<1> USE Facts
<1>1. stats \in [Counters -> Nat] /\ deadLetter \in Seq(Messages)
  BY DEF RedisTypeOK
<1>2. /\ IsFiniteSet(Offered) /\ IsFiniteSet(Fated("acked")) /\ IsFiniteSet(Fated("dropped"))
  <2>1. Fated("acked") \subseteq Offered /\ Fated("dropped") \subseteq Offered
    BY DEF Fated, Offered
  <2> QED BY <2>1, FS_Subset DEF StatsInv
<1>3. /\ Cardinality(Offered) \in Nat /\ Cardinality(Fated("acked")) \in Nat
      /\ Cardinality(Fated("dropped")) \in Nat
  BY <1>2, FS_CardinalityType
<1>4. CASE Passes
  BY <1>4 DEF Passes, StatsInv, Fated, Offered
<1>5. ASSUME NEW k \in Messages, Enters(k) PROVE StatsInv'
  <2>1. /\ Fated("acked")' = Fated("acked") /\ Fated("dropped")' = Fated("dropped")
        /\ Offered' = Offered \cup {k} /\ k \notin Offered
    BY <1>5, TurnsFated DEF Enters, Fates
  <2>2. IsFiniteSet(Offered') /\ Cardinality(Offered') = Cardinality(Offered) + 1
    BY <1>2, <2>1, FS_AddElement
  <2>3. /\ stats'["enqueued"] = stats["enqueued"] + 1 /\ deadLetter' = deadLetter
        /\ stats'["processed"] = stats["processed"] /\ stats'["failed"] = stats["failed"]
    BY <1>1, <1>5 DEF Enters, Counts, Counters
  <2> QED BY <2>1, <2>2, <2>3 DEF StatsInv
<1>6. ASSUME NEW k \in Messages, Leaves(k) PROVE StatsInv'
  <2>1. /\ Fated("acked")' = Fated("acked") \cup {k} /\ k \notin Fated("acked")
        /\ Fated("dropped")' = Fated("dropped") /\ Offered' = Offered
    BY <1>6, TurnsFated DEF Leaves, Fates
  <2>2. Cardinality(Fated("acked")') = Cardinality(Fated("acked")) + 1
    BY <1>2, <2>1, FS_AddElement
  <2>3. /\ stats'["processed"] = stats["processed"] + 1 /\ deadLetter' = deadLetter
        /\ stats'["enqueued"] = stats["enqueued"] /\ stats'["failed"] = stats["failed"]
    BY <1>1, <1>6 DEF Leaves, Counts, Counters
  <2> QED BY <2>1, <2>2, <2>3 DEF StatsInv
<1>7. ASSUME NEW k \in Messages, IsBuried(k) PROVE StatsInv'
  <2>1. /\ Fated("acked")' = Fated("acked") /\ Fated("dropped")' = Fated("dropped")
        /\ Offered' = Offered
    BY <1>7 DEF IsBuried, Fated, Offered
  <2>2. Len(deadLetter') = Len(deadLetter) + 1
    BY <1>1, <1>7 DEF IsBuried
  <2>3. /\ stats'["failed"] = stats["failed"] + 1
        /\ stats'["enqueued"] = stats["enqueued"] /\ stats'["processed"] = stats["processed"]
    BY <1>1, <1>7 DEF IsBuried, Counts, Counters
  <2>4. Len(deadLetter) \in Nat
    BY <1>1
  <2> QED BY <1>3, <2>1, <2>2, <2>3, <2>4 DEF StatsInv
<1>8. ASSUME NEW k \in Messages, IsDropped(k) PROVE StatsInv'
  <2>1. /\ Fated("dropped")' = Fated("dropped") \cup {k} /\ k \notin Fated("dropped")
        /\ Fated("acked")' = Fated("acked") /\ Offered' = Offered
    BY <1>8, TurnsFated DEF IsDropped, Fates
  <2>2. Cardinality(Fated("dropped")') = Cardinality(Fated("dropped")) + 1
    BY <1>2, <2>1, FS_AddElement
  <2>3. /\ stats'["failed"] = stats["failed"] + 1 /\ deadLetter' = deadLetter
        /\ stats'["enqueued"] = stats["enqueued"] /\ stats'["processed"] = stats["processed"]
    BY <1>1, <1>8 DEF IsDropped, Counts, Counters
  <2>4. Len(deadLetter) \in Nat
    BY <1>1
  <2> QED BY <1>3, <2>1, <2>2, <2>3, <2>4 DEF StatsInv
<1>9. ASSUME NEW k \in Messages, IsLost(k) PROVE StatsInv'
  <2>1. /\ Fated("acked")' = Fated("acked") /\ Fated("dropped")' = Fated("dropped")
        /\ Offered' = Offered
    BY <1>9, TurnsFated DEF IsLost, Fates
  <2> QED BY <1>9, <2>1 DEF StatsInv, IsLost
<1> QED BY <1>4, <1>5, <1>6, <1>7, <1>8, <1>9, CountedSteps

(* The counters that GetStats reports are exact.                            *)
THEOREM CountersAreExact == ASSUME PromptUse PROVE Spec => []StatsExact
<1>1. Init => StatsInv
  <2> SUFFICES ASSUME Init PROVE StatsInv
    OBVIOUS
  <2>1. Offered = {} /\ Fated("acked") = {} /\ Fated("dropped") = {}
    BY DEF Init, Offered, Fated
  <2>2. /\ stats["enqueued"] = 0 /\ stats["processed"] = 0 /\ stats["failed"] = 0
        /\ Len(deadLetter) = 0
    BY DEF Init, Counters
  <2>3. IsFiniteSet({}) /\ Cardinality({}) = 0
    BY FS_EmptySet
  <2>4. /\ IsFiniteSet(Offered) /\ Cardinality(Offered) = 0
        /\ Cardinality(Fated("acked")) = 0 /\ Cardinality(Fated("dropped")) = 0
    BY <2>1, <2>3
  <2> QED BY <2>2, <2>4 DEF StatsInv
<1>2. StatsInv /\ PromptInv /\ [Next]_vars => StatsInv'
  BY StatsStep
<1>3. StatsInv => StatsExact
  BY DEF StatsInv, StatsExact, Offered, Fated
<1> QED BY <1>1, <1>2, <1>3, PromptInvariant, PTL DEF Spec

-----------------------------------------------------------------------------
(* Every step is one of MessageLife                                         *)

Tries(m) == IF fate[m] = "open" THEN retryCount[m] ELSE 0
Places == [m \in Messages |-> Place(m)]
Retries == [m \in Messages |-> Tries(m)]

\* A step that does not touch the life of message m.
LifeKept(m) ==
    /\ fate'[m] = fate[m]
    /\ fate[m] = "open" =>
          /\ m \in processing' <=> m \in processing
          /\ m \in ToSet(deadLetter') <=> m \in ToSet(deadLetter)
          /\ retryCount'[m] = retryCount[m]

\* A step that moves message k from one place to the next, and no other.
LifeMoves(k, from, to, n) ==
    /\ \A m \in Messages \ {k} : LifeKept(m)
    /\ Place(k) = from /\ Place(k)' = to /\ Tries(k)' = n

LEMMA KeptLife ==
    ASSUME NEW m, LifeKept(m)
    PROVE  Place(m)' = Place(m) /\ Tries(m)' = Tries(m)
BY DEF LifeKept, Place, Tries

(* The actions of MessageLife, in terms of Places and Retries. *)
LEMMA LifeActions ==
    ASSUME NEW k \in Messages, NEW from, NEW to, NEW n,
           Places[k] = from, Places' = [Places EXCEPT ![k] = to],
           Retries' = [Retries EXCEPT ![k] = n],
           \/ from = "new" /\ to = "waiting" /\ n = 0
           \/ from = "waiting" /\ to = "delivered" /\ n = Retries[k]
           \/ from = "delivered" /\ to = "acked" /\ n = 0
           \/ from = "delivered" /\ to = "waiting" /\ Retries[k] < MaxRetries /\ n = Retries[k] + 1
           \/ from = "delivered" /\ to = "dead" /\ Retries[k] = MaxRetries /\ n = Retries[k]
           \/ from = "delivered" /\ to = "dropped" /\ Retries[k] = MaxRetries /\ n = 0
           \/ from = "waiting" /\ to = "lost" /\ n = 0
    PROVE  Life!Next
<1>1. Life!Offer(k) \/ Life!Deliver(k) \/ Life!Ack(k) \/ Life!Retry(k) \/ Life!Bury(k)
      \/ Life!Drop(k) \/ Life!Lose(k)
  BY DEF Life!Offer, Life!Deliver, Life!Ack, Life!Retry, Life!Bury, Life!Drop, Life!Lose,
         Life!Move, Places, Retries, Tries
<1> QED BY <1>1 DEF Life!Next

(* A move of one message that MessageLife allows. *)
LEMMA MovedLife ==
    ASSUME NEW k \in Messages, NEW from, NEW to, NEW n, LifeMoves(k, from, to, n),
           \/ from = "new" /\ to = "waiting" /\ n = 0
           \/ from = "waiting" /\ to = "delivered" /\ n = Tries(k)
           \/ from = "delivered" /\ to = "acked" /\ n = 0
           \/ from = "delivered" /\ to = "waiting" /\ Tries(k) < MaxRetries /\ n = Tries(k) + 1
           \/ from = "delivered" /\ to = "dead" /\ Tries(k) = MaxRetries /\ n = Tries(k)
           \/ from = "delivered" /\ to = "dropped" /\ Tries(k) = MaxRetries /\ n = 0
           \/ from = "waiting" /\ to = "lost" /\ n = 0
    PROVE  Life!Next
<1>1. \A m \in Messages \ {k} : Place(m)' = Place(m) /\ Tries(m)' = Tries(m)
  BY KeptLife DEF LifeMoves
<1>2. Places[k] = from /\ Retries[k] = Tries(k)
  BY DEF LifeMoves, Places, Retries
<1>3. Places' = [Places EXCEPT ![k] = to]
  BY <1>1 DEF LifeMoves, Places
<1>4. Retries' = [Retries EXCEPT ![k] = n]
  BY <1>1 DEF LifeMoves, Retries
<1> QED BY <1>2, <1>3, <1>4, LifeActions

(* The transaction that ends Nack and handleTimeoutMessage, called with one *)
(* more than the RetryCount that is stored.                                 *)
LEMMA RetryLives ==
    ASSUME PromptInv, NEW p, NEW k \in processing, NEW n \in Nat, n = retryCount[k],
           RetryOrBury(p, k, n + 1)
    PROVE  Life!Next
<1> USE Facts
<1>1. /\ k \in Messages /\ fate[k] = "open" /\ Once(k)
      /\ n <= MaxRetries /\ MaxRetries \in Nat
      /\ deadLetter \in Seq(Messages)
  BY WorkedOn, QueueAssumption DEF Queued, RedisTypeOK, PromptInv, RetriesKnown
<1>2. Place(k) = "delivered" /\ Tries(k) = n /\ k \notin ToSet(deadLetter)
  BY <1>1 DEF Place, Tries, Once
<1>4. /\ processing' = processing \ {k}
      /\ Retried(k, n + 1) \/ Buried(k, n + 1) \/ Dropped(k, n + 1)
  BY RetryOutcome
<1>5. \A m \in Messages \ {k} : m \in processing' <=> m \in processing
  BY <1>4
<1>6. CASE Retried(k, n + 1)
  <2>1. /\ UNCHANGED <<deadLetter, fate>> /\ n < MaxRetries
        /\ retryCount' = [retryCount EXCEPT ![k] = n + 1]
    BY <1>1, <1>6 DEF Retried
  <2>2. \A m \in Messages \ {k} : LifeKept(m)
    BY <1>5, <2>1 DEF LifeKept
  <2>3. retryCount'[k] = n + 1
    BY <1>1, <2>1 DEF RedisTypeOK
  <2>4. Place(k)' = "waiting" /\ Tries(k)' = n + 1
    BY <1>1, <1>2, <1>4, <2>1, <2>3 DEF Place, Tries
  <2>5. LifeMoves(k, "delivered", "waiting", n + 1)
    BY <1>2, <2>2, <2>4 DEF LifeMoves
  <2> QED BY <1>1, <1>2, <2>1, <2>5, MovedLife
<1>7. CASE Buried(k, n + 1)
  <2>1. /\ UNCHANGED <<retryCount, fate>> /\ n = MaxRetries /\ deadLetter' = <<k>> \o deadLetter
    BY <1>1, <1>7 DEF Buried
  <2>2. ToSet(deadLetter') = ToSet(deadLetter) \cup {k}
    BY <1>1, <2>1, PushElements
  <2>3. \A m \in Messages \ {k} : LifeKept(m)
    BY <1>5, <2>1, <2>2 DEF LifeKept
  <2>4. Place(k)' = "dead" /\ Tries(k)' = n
    BY <1>1, <1>4, <2>1, <2>2 DEF Place, Tries
  <2>5. LifeMoves(k, "delivered", "dead", n)
    BY <1>2, <2>3, <2>4 DEF LifeMoves
  <2> QED BY <1>1, <1>2, <2>1, <2>5, MovedLife
<1>8. CASE Dropped(k, n + 1)
  <2>1. /\ UNCHANGED deadLetter /\ n = MaxRetries /\ fate' = [fate EXCEPT ![k] = "dropped"]
        /\ retryCount' = [retryCount EXCEPT ![k] = 0]
    BY <1>1, <1>8 DEF Dropped
  <2>2. \A m \in Messages \ {k} : LifeKept(m)
    BY <1>5, <2>1 DEF LifeKept, RedisTypeOK
  <2>3. fate'[k] = "dropped"
    BY <1>1, <2>1
  <2>4. Place(k)' = "dropped" /\ Tries(k)' = 0
    BY <2>3 DEF Place, Tries
  <2>5. LifeMoves(k, "delivered", "dropped", 0)
    BY <1>2, <2>2, <2>4 DEF LifeMoves
  <2> QED BY <1>1, <1>2, <2>1, <2>5, MovedLife
<1> QED BY <1>4, <1>6, <1>7, <1>8

LEMMA WorkerLives ==
    ASSUME PromptUse, PromptInv, NEW w \in Workers, WorkerMoves(w)
    PROVE  Life!Next \/ PollPop(w)
<1> USE Facts
<1>1. ASSUME NEW k \in Messages, NEW d \in Delays, Offer(w, k, d) PROVE Life!Next
  <2>1. /\ UNCHANGED <<deadLetter, processing>> /\ fate[k] = "new"
        /\ fate' = [fate EXCEPT ![k] = "open"] /\ retryCount' = [retryCount EXCEPT ![k] = 0]
    BY <1>1 DEF Offer, inFlight
  <2>2. ~Queued(k)
    BY <2>1 DEF Once
  <2>3. \A m \in Messages \ {k} : LifeKept(m)
    BY <2>1 DEF LifeKept
  <2>4. Place(k) = "new"
    BY <2>1 DEF Place
  <2>5. fate'[k] = "open" /\ retryCount'[k] = 0
    BY <2>1 DEF RedisTypeOK
  <2>6. Place(k)' = "waiting" /\ Tries(k)' = 0
    BY <2>1, <2>2, <2>5 DEF Place, Tries, Queued
  <2>7. LifeMoves(k, "new", "waiting", 0)
    BY <2>3, <2>4, <2>6 DEF LifeMoves
  <2> QED BY <2>7, MovedLife
<1>2. CASE PollMove(w)
  <2>1. PICK k \in Messages : k = key[w] /\ InHandOf(w, k) /\ ~Queued(k)
    BY <1>2, WorkedOn DEF PollMove
  <2>2. /\ UNCHANGED <<deadLetter, fate>> /\ processing' = processing \cup {k}
        /\ retryCount' = [retryCount EXCEPT ![k] = reg[w]]
        /\ fate[k] = "open" /\ reg[w] = retryCount[key[w]]
    BY <1>2, <2>1, WorkedOn DEF PollMove, lists, InHand, PromptInv, RetriesKnown
  <2>3. \A m \in Messages \ {k} : LifeKept(m)
    BY <2>2 DEF LifeKept
  <2>n. PICK n \in Nat : n = retryCount[k]
    BY DEF RedisTypeOK
  <2>4. Place(k) = "waiting" /\ Tries(k) = n
    BY <2>1, <2>2, <2>n DEF Place, Tries, Queued
  <2>5. retryCount'[k] = n
    BY <2>1, <2>2, <2>n DEF RedisTypeOK
  <2>6. Place(k)' = "delivered" /\ Tries(k)' = n
    BY <2>2, <2>5 DEF Place, Tries
  <2>7. LifeMoves(k, "waiting", "delivered", n)
    BY <2>3, <2>4, <2>6 DEF LifeMoves
  <2> QED BY <2>4, <2>7, MovedLife
<1>3. CASE NackExec(w)
  <2>1. PICK k \in processing : k = key[w]
    BY <1>3, WorkedOn DEF NackExec
  <2>2. PICK n \in Nat : n = retryCount[k]
    BY WorkedOn DEF RedisTypeOK
  <2>3. RetryOrBury(w, k, n + 1)
    BY <1>3, <2>1, <2>2 DEF NackExec, PromptInv, RetriesKnown
  <2> QED BY <2>2, <2>3, RetryLives
<1>4. ASSUME NEW k \in holds[w], k \in processing, Ack(w, k) PROVE Life!Next
  <2>1. /\ UNCHANGED deadLetter /\ processing' = processing \ {k} /\ Settle({k}, "acked")
        /\ retryCount' = [retryCount EXCEPT ![k] = 0]
        /\ k \in Messages /\ fate[k] = "open"
    BY <1>4, WorkedOn DEF Ack, lists, Queued
  <2>2. fate'[k] = "acked" /\ \A m \in Messages \ {k} : fate'[m] = fate[m]
    BY <2>1 DEF Settle
  <2>3. \A m \in Messages \ {k} : LifeKept(m)
    BY <2>1, <2>2 DEF LifeKept, RedisTypeOK
  <2>4. Place(k) = "delivered"
    BY <1>4, <2>1 DEF Place
  <2>5. Place(k)' = "acked" /\ Tries(k)' = 0
    BY <2>2 DEF Place, Tries
  <2>6. LifeMoves(k, "delivered", "acked", 0)
    BY <2>3, <2>4, <2>5 DEF LifeMoves
  <2> QED BY <2>1, <2>6, MovedLife
<1>5. CASE (Fail(w) \/ Crash(w)) /\ pc[w] \in {"popped", "fetched"}
  <2>1. PICK k \in Messages : k = key[w] /\ InHandOf(w, k) /\ ~Queued(k)
    BY <1>5, WorkedOn
  <2>2. /\ UNCHANGED <<deadLetter, processing, retryCount>> /\ fate[k] = "open"
        /\ fate' = [fate EXCEPT ![k] = "lost"]
    BY <1>5, <2>1, WorkedOn, LosePlaced DEF InHand, Fail, Crash, redis, lists, inFlight, data
  <2>3. \A m \in Messages \ {k} : LifeKept(m)
    BY <2>2 DEF LifeKept
  <2>4. fate'[k] = "lost"
    BY <2>2
  <2>5. Place(k) = "waiting"
    BY <2>1, <2>2 DEF Place, Queued
  <2>6. Place(k)' = "lost" /\ Tries(k)' = 0
    BY <2>4 DEF Place, Tries
  <2>7. LifeMoves(k, "waiting", "lost", 0)
    BY <2>3, <2>5, <2>6 DEF LifeMoves
  <2> QED BY <2>7, MovedLife
<1> QED BY <1>1, <1>2, <1>3, <1>4, <1>5 DEF WorkerMoves

LEMMA LifeStep ==
    ASSUME PromptUse, PromptInv, [Next]_vars
    PROVE  [Life!Next]_<<Places, Retries>>
<1> USE Facts
<1>1. ASSUME UNCHANGED <<processing, deadLetter, retryCount, fate>>
      PROVE  UNCHANGED <<Places, Retries>>
  BY <1>1 DEF Places, Retries, Place, Tries
<1>2. CASE UNCHANGED vars
  BY <1>1, <1>2 DEF vars, redis, lists, inFlight, data
<1>3. CASE \/ \E w \in Workers : WorkerReads(w)
           \/ \E c \in Cleaners : CleanerReads(c)
           \/ Tick
  BY <1>1, <1>3, ReadsStay DEF Stay
<1>4. CASE \/ \E w \in Workers : PollStart(w) \/ PollPop(w)
           \/ \E c \in Cleaners : CleanMove(c)
  BY <1>1, <1>4 DEF PollStart, PollPop, CleanMove, MoveDelayed, inFlight, data
<1>5. ASSUME NEW c \in Cleaners, CleanExec(c) PROVE Life!Next
  <2>1. PICK k \in processing : k = key[c] /\ c \in Procs /\ pc[c] = "timedOut"
    BY <1>5 DEF CleanExec, Expired
  <2>2. PICK n \in Nat : n = retryCount[k]
    BY WorkedOn DEF RedisTypeOK
  <2>3. RetryOrBury(c, k, n + 1)
    BY <1>5, <2>1, <2>2 DEF CleanExec, PromptInv, RetriesKnown
  <2> QED BY <2>2, <2>3, RetryLives
<1> QED BY <1>2, <1>3, <1>4, <1>5, Steps, WorkerLives

(* The queue implements MessageLife: whatever consumers, the cleanup        *)
(* goroutine, errors and crashes do, a message waits, is delivered to one   *)
(* consumer at a time, and is acknowledged, or tried again as often as      *)
(* MaxRetries allows, before it is buried or dropped.                       *)
THEOREM QueueImplementsLife == ASSUME PromptUse PROVE Spec => ImplementsLife
<1>1. Init => Life!Init
  <2> SUFFICES ASSUME Init PROVE Life!Init
    OBVIOUS
  <2>1. \A m \in Messages : fate[m] = "new"
    BY DEF Init
  <2>2. \A m \in Messages : Place(m) = "new"
    BY <2>1 DEF Place
  <2> QED BY <2>1, <2>2 DEF Life!Init
<1>2. PromptInv /\ [Next]_vars => [Life!Next]_<<Places, Retries>>
  BY LifeStep
<1>3. [][Life!Next]_<<Places, Retries>> => [][Life!Next]_(Life!vars)
  BY DEF Life!vars, Places, Retries, Tries
<1> QED BY <1>1, <1>2, <1>3, PromptInvariant, PTL DEF Spec, ImplementsLife, Life!Spec

=============================================================================
