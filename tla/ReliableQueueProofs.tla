------------------------ MODULE ReliableQueueProofs ------------------------
(***************************************************************************)
(* Proofs about ReliableQueue, for every set of messages, workers and      *)
(* cleanup goroutines and every value of the other constants:              *)
(*                                                                         *)
(*   TypeCorrect     Spec => []TypeOK                                      *)
(*   QueueInvariant  Spec => []QueueInv, the inductive invariant, when the *)
(*                   application does not use both RequeueDeadLetter and   *)
(*                   PurgeDeadLetters                                      *)
(*   MessagesAreSafe Spec => []NoMessageLost, under the same hypothesis    *)
(***************************************************************************)
EXTENDS ReliableQueue, SequenceLemmas

-----------------------------------------------------------------------------
(* Typing                                                                  *)

(* A caller that moves to a control point, with a message where one is     *)
(* needed, keeps the types of the callers' state.                          *)
LEMMA GotoType ==
    ASSUME CallersTypeOK,
           NEW p \in Procs, NEW l \in WorkerPCs \cup CleanerPCs,
           NEW k \in Messages \cup {None}, NEW r \in Nat,
           l \in KeyPCs => k \in Messages,
           Goto(p, l, k, r)
    PROVE  /\ pc' \in [Procs -> WorkerPCs \cup CleanerPCs]
           /\ key' \in [Procs -> Messages \cup {None}]
           /\ \A q \in Procs : pc'[q] \in KeyPCs => key'[q] \in Messages
           /\ reg' \in [Procs -> Nat]
BY DEF CallersTypeOK, Goto

(* Nothing in the control point "idle" needs a message. *)
LEMMA ReturnType ==
    ASSUME CallersTypeOK, NEW p \in Procs, Return(p)
    PROVE  /\ pc' \in [Procs -> WorkerPCs \cup CleanerPCs]
           /\ key' \in [Procs -> Messages \cup {None}]
           /\ \A q \in Procs : pc'[q] \in KeyPCs => key'[q] \in Messages
           /\ reg' \in [Procs -> Nat]
<1>1. "idle" \in WorkerPCs \cup CleanerPCs /\ "idle" \notin KeyPCs
  BY DEF WorkerPCs, CleanerPCs, KeyPCs
<1> QED BY <1>1, GotoType DEF Return

(* Settling a set of messages keeps the type of fate. *)
LEMMA SettleType ==
    ASSUME fate \in [Messages -> Fates], NEW ms, NEW f \in Fates, Settle(ms, f)
    PROVE  fate' \in [Messages -> Fates]
BY DEF Settle

(* moveDelayedMessages keeps the types of the Redis structures. *)
LEMMA MoveDelayedType ==
    ASSUME RedisTypeOK, MoveDelayed
    PROVE  RedisTypeOK'
<1>1. PICK n \in 0..Len(delayed) :
        /\ pending' = Reverse(SubSeq(delayed, 1, n)) \o pending
        /\ delayed' = SubSeq(delayed, n + 1, Len(delayed))
  BY DEF MoveDelayed
<1>2. delayed \in Seq(Messages) /\ pending \in Seq(Messages)
  BY DEF RedisTypeOK
<1>3. pending' \in Seq(Messages) /\ delayed' \in Seq(Messages)
  BY <1>1, <1>2, MovePrefixElements
<1> QED BY <1>3 DEF MoveDelayed, RedisTypeOK, inFlight, data

(* So does the transaction that ends Nack and handleTimeoutMessage. *)
LEMMA RetryOrBuryType ==
    ASSUME RedisTypeOK, fate \in [Messages -> Fates],
           NEW p, NEW m \in Messages, NEW r \in Nat, RetryOrBury(p, m, r)
    PROVE  RedisTypeOK' /\ fate' \in [Messages -> Fates]
<1>1. /\ LPush(pending, m) \in Seq(Messages)
      /\ LPush(deadLetter, m) \in Seq(Messages)
  BY PushElements DEF RedisTypeOK, LPush
<1>2. processing' \subseteq Messages /\ expiresIn' \in [Messages -> Nat]
  BY DEF RedisTypeOK, RetryOrBury
<1>3. CASE r <= MaxRetries
  <2>1. /\ pending' = LPush(pending, m) /\ deadLetter' = deadLetter
        /\ stored' = stored \cup {m} /\ retryCount' = [retryCount EXCEPT ![m] = r]
        /\ stats' = stats /\ fate' = fate
        /\ delayed' = delayed /\ visibleIn' = visibleIn
    BY <1>3, QueueAssumption DEF RetryOrBury, waiting
  <2> QED BY <1>1, <1>2, <2>1 DEF RedisTypeOK
<1>4. CASE r > MaxRetries
  <2>1. /\ stats' = [stats EXCEPT !["failed"] = @ + 1]
        /\ delayed' = delayed /\ visibleIn' = visibleIn
        /\ \/ /\ pending' = pending /\ deadLetter' = LPush(deadLetter, m)
              /\ stored' = stored /\ retryCount' = retryCount /\ fate' = fate
           \/ /\ pending' = pending /\ deadLetter' = deadLetter
              /\ stored' = stored \ {m}
              /\ retryCount' = [retryCount EXCEPT ![m] = 0]
              /\ Settle({m}, "dropped")
    BY <1>4, QueueAssumption DEF RetryOrBury, waiting, data, lists
  <2>2. fate' \in [Messages -> Fates]
    <3>1. CASE Settle({m}, "dropped")
      <4>1. "dropped" \in Fates
        BY DEF Fates
      <4> QED BY <3>1, <4>1, SettleType
    <3>2. CASE fate' = fate
      BY <3>2
    <3> QED BY <2>1, <3>1, <3>2
  <2>3. stats' \in [Counters -> Nat]
    <3>1. stats \in [Counters -> Nat]
      BY DEF RedisTypeOK
    <3> QED BY <2>1, <3>1 DEF Counters
  <2>a. /\ pending \in Seq(Messages) /\ deadLetter \in Seq(Messages)
        /\ delayed \in Seq(Messages) /\ visibleIn \in [Messages -> Nat]
        /\ stored \subseteq Messages /\ retryCount \in [Messages -> Nat]
    BY DEF RedisTypeOK
  <2>b. /\ pending' = pending
        /\ \/ deadLetter' = LPush(deadLetter, m) \/ deadLetter' = deadLetter
        /\ \/ stored' = stored \/ stored' = stored \ {m}
        /\ \/ retryCount' = retryCount
           \/ retryCount' = [retryCount EXCEPT ![m] = 0]
    BY <2>1
  <2>4. /\ pending' \in Seq(Messages) /\ deadLetter' \in Seq(Messages)
        /\ stored' \subseteq Messages
        /\ delayed' \in Seq(Messages) /\ visibleIn' \in [Messages -> Nat]
    BY <1>1, <2>1, <2>a, <2>b
  <2>5. retryCount' \in [Messages -> Nat]
    <3>1. [retryCount EXCEPT ![m] = 0] \in [Messages -> Nat]
      BY <2>a, 0 \in Nat
    <3>2. CASE retryCount' = retryCount
      BY <3>2, <2>a
    <3>3. CASE retryCount' = [retryCount EXCEPT ![m] = 0]
      BY <3>3, <3>1
    <3> QED BY <2>b, <3>2, <3>3
  <2> QED BY <1>2, <2>2, <2>3, <2>4, <2>5 DEF RedisTypeOK
<1> QED BY <1>3, <1>4, QueueAssumption
(* A step that leaves a part of the state alone keeps its type. *)
LEMMA RedisUnchangedType == RedisTypeOK /\ UNCHANGED redis => RedisTypeOK'
BY DEF RedisTypeOK, redis, lists, inFlight, waiting, data

LEMMA LocalUnchangedType == CallersTypeOK /\ UNCHANGED local => CallersTypeOK'
BY DEF CallersTypeOK, local

(* The types of the initial state. *)
LEMMA TypeInit == Init => TypeOK
<1> SUFFICES ASSUME Init PROVE TypeOK
  OBVIOUS
<1>1. RedisTypeOK
  BY DEF Init, RedisTypeOK
<1>2. CallersTypeOK
  BY DEF Init, CallersTypeOK, Procs, WorkerPCs, CleanerPCs, KeyPCs
<1> QED BY <1>1, <1>2 DEF Init, TypeOK, Fates

(* Every step keeps the types. *)
LEMMA TypeStep == TypeOK /\ [Next]_vars => TypeOK'
<1> SUFFICES ASSUME TypeOK, [Next]_vars PROVE TypeOK'
  OBVIOUS
<1>0. /\ RedisTypeOK /\ CallersTypeOK
      /\ holds \in [Workers -> SUBSET Messages] /\ fate \in [Messages -> Fates]
  BY DEF TypeOK
<1>p. Workers \subseteq Procs /\ Cleaners \subseteq Procs
  BY DEF Procs
<1> USE <1>0, <1>p
<1>1. ASSUME NEW w \in Workers, NEW m \in Messages, NEW d \in Delays, Offer(w, m, d)
      PROVE  TypeOK'
  <2>1. LPush(pending, m) \in Seq(Messages)
    BY PushElements DEF RedisTypeOK, LPush
  <2>2. pending' \in Seq(Messages) /\ delayed' \in Seq(Messages) /\ visibleIn' \in [Messages -> Nat]
    <3>1. CASE d = 0
      BY <1>1, <2>1, <3>1, QueueAssumption DEF Offer, RedisTypeOK, waiting
    <3>2. CASE d > 0
      <4>1. PICK i \in 1..Len(delayed) + 1 : delayed' = InsertAt(delayed, i, m)
        BY <1>1, <3>2, QueueAssumption DEF Offer
      <4>2. delayed' \in Seq(Messages)
        BY <4>1, InsertElements DEF RedisTypeOK
      <4>3. pending' = pending /\ visibleIn' = [visibleIn EXCEPT ![m] = d] /\ d \in Nat
        BY <1>1, <3>2, QueueAssumption DEF Offer
      <4> QED BY <4>2, <4>3 DEF RedisTypeOK
    <3> QED BY <3>1, <3>2, QueueAssumption
  <2>3. stats' \in [Counters -> Nat]
    <3>1. stats' = [stats EXCEPT !["enqueued"] = @ + 1]
      BY <1>1 DEF Offer
    <3> QED BY <3>1 DEF RedisTypeOK, Counters
  <2>4. /\ deadLetter' = deadLetter /\ processing' = processing /\ expiresIn' = expiresIn
        /\ stored' = stored \cup {m} /\ retryCount' = [retryCount EXCEPT ![m] = 0]
    BY <1>1 DEF Offer, inFlight
  <2>5. RedisTypeOK'
    BY <2>2, <2>3, <2>4 DEF RedisTypeOK
  <2>6. CallersTypeOK'
    BY <1>1, LocalUnchangedType DEF Offer
  <2> QED BY <1>1, <2>5, <2>6 DEF Offer, TypeOK, Fates
<1>2. ASSUME NEW w \in Workers, PollStart(w) PROVE TypeOK'
  <2>1. RedisTypeOK'
    BY <1>2, MoveDelayedType DEF PollStart
  <2>2. CallersTypeOK'
    BY <1>2, GotoType DEF PollStart, CallersTypeOK, WorkerPCs, KeyPCs
  <2> QED BY <1>2, <2>1, <2>2 DEF PollStart, TypeOK
<1>3. ASSUME NEW w \in Workers, PollPop(w) PROVE TypeOK'
  <2>1. /\ pending' \in Seq(Messages) /\ Last(pending) \in Messages
    BY <1>3, PopElements DEF PollPop, RedisTypeOK
  <2>2. RedisTypeOK'
    BY <1>3, <2>1 DEF PollPop, RedisTypeOK, inFlight, waiting, data
  <2>3. CallersTypeOK'
    BY <1>3, <2>1, GotoType DEF PollPop, CallersTypeOK, WorkerPCs
  <2> QED BY <1>3, <2>2, <2>3 DEF PollPop, TypeOK
<1>4. ASSUME NEW w \in Workers, PollEmpty(w) PROVE TypeOK'
  <2>1. RedisTypeOK'
    BY <1>4, RedisUnchangedType DEF PollEmpty
  <2>2. CallersTypeOK'
    BY <1>4, ReturnType DEF PollEmpty, CallersTypeOK
  <2> QED BY <1>4, <2>1, <2>2 DEF PollEmpty, TypeOK
<1>5. ASSUME NEW w \in Workers, PollFetch(w) PROVE TypeOK'
  <2>1. RedisTypeOK'
    BY <1>5, RedisUnchangedType DEF PollFetch
  <2>2. CallersTypeOK'
    <3>1. CASE key[w] \in stored
      <4>1. key[w] \in Messages /\ retryCount[key[w]] \in Nat
        BY <3>1 DEF RedisTypeOK
      <4>2. Goto(w, "fetched", key[w], retryCount[key[w]])
        BY <1>5, <3>1 DEF PollFetch
      <4> QED BY <1>5, <3>1, <4>1, <4>2, GotoType, QueueAssumption
              DEF PollFetch, CallersTypeOK, WorkerPCs
    <3>2. CASE key[w] \notin stored
      BY <1>5, <3>2, ReturnType DEF PollFetch, CallersTypeOK
    <3> QED BY <3>1, <3>2
  <2> QED BY <1>5, <2>1, <2>2 DEF PollFetch, TypeOK
<1>6. ASSUME NEW w \in Workers, PollMove(w) PROVE TypeOK'
  <2>1. key[w] \in Messages /\ reg[w] \in Nat /\ due[w] \in Nat
    BY <1>6 DEF PollMove, CallersTypeOK, KeyPCs
  <2>2. RedisTypeOK'
    BY <1>6, <2>1 DEF PollMove, RedisTypeOK, lists, waiting
  <2>3. CallersTypeOK'
    BY <1>6, ReturnType DEF PollMove, CallersTypeOK
  <2> QED BY <1>6, <2>1, <2>2, <2>3 DEF PollMove, TypeOK
<1>7. ASSUME NEW w \in Workers, NEW m \in holds[w], Ack(w, m) PROVE TypeOK'
  <2>1. m \in Messages
    OBVIOUS
  <2>2. /\ RedisTypeOK' /\ fate' \in [Messages -> Fates]
    <3>1. CASE m \in processing
      <4>1. Settle({m}, "acked") /\ "acked" \in Fates
        BY <1>7, <3>1 DEF Ack, Fates
      <4>2. fate' \in [Messages -> Fates]
        BY <4>1, SettleType
      <4>3. stats' \in [Counters -> Nat]
        <5>1. stats' = [stats EXCEPT !["processed"] = @ + 1]
          BY <1>7, <3>1 DEF Ack
        <5> QED BY <5>1 DEF RedisTypeOK, Counters
      <4>4. /\ processing' = processing \ {m} /\ expiresIn' = [expiresIn EXCEPT ![m] = 0]
            /\ stored' = stored \ {m} /\ retryCount' = [retryCount EXCEPT ![m] = 0]
            /\ UNCHANGED <<lists, waiting>>
        BY <1>7, <3>1 DEF Ack
      <4> QED BY <4>2, <4>3, <4>4 DEF RedisTypeOK, lists, waiting
    <3>2. CASE m \notin processing
      BY <1>7, <3>2 DEF Ack, RedisTypeOK, lists, waiting, inFlight, data
    <3> QED BY <3>1, <3>2
  <2>3. CallersTypeOK'
    BY <1>7, LocalUnchangedType DEF Ack
  <2> QED BY <1>7, <2>2, <2>3 DEF Ack, TypeOK
<1>8. ASSUME NEW w \in Workers, NEW m \in holds[w], NackCheck(w, m) PROVE TypeOK'
  <2>1. m \in Messages
    OBVIOUS
  <2>2. RedisTypeOK'
    BY <1>8, RedisUnchangedType DEF NackCheck
  <2>3. CallersTypeOK'
    BY <1>8, <2>1, GotoType DEF NackCheck, CallersTypeOK, WorkerPCs
  <2> QED BY <1>8, <2>2, <2>3 DEF NackCheck, TypeOK
<1>9. ASSUME NEW w \in Workers, NackFetch(w) PROVE TypeOK'
  <2>1. RedisTypeOK'
    BY <1>9, RedisUnchangedType DEF NackFetch
  <2>2. CallersTypeOK'
    <3>1. CASE key[w] \in stored
      <4>1. key[w] \in Messages /\ retryCount[key[w]] \in Nat
        BY <3>1 DEF RedisTypeOK
      <4>2. Goto(w, "nackFetched", key[w], retryCount[key[w]])
        BY <1>9, <3>1 DEF NackFetch
      <4> QED BY <1>9, <4>1, <4>2, GotoType DEF NackFetch, CallersTypeOK, WorkerPCs
    <3>2. CASE key[w] \notin stored
      BY <1>9, <3>2, ReturnType DEF NackFetch, CallersTypeOK
    <3> QED BY <3>1, <3>2
  <2> QED BY <1>9, <2>1, <2>2 DEF NackFetch, TypeOK
<1>10. ASSUME NEW w \in Workers, NackExec(w) PROVE TypeOK'
  <2>1. key[w] \in Messages /\ reg[w] + 1 \in Nat
    BY <1>10 DEF NackExec, CallersTypeOK, KeyPCs
  <2>2. RedisTypeOK' /\ fate' \in [Messages -> Fates]
    BY <1>10, <2>1, RetryOrBuryType DEF NackExec
  <2>3. CallersTypeOK'
    BY <1>10, ReturnType DEF NackExec, CallersTypeOK
  <2> QED BY <1>10, <2>2, <2>3 DEF NackExec, TypeOK
<1>11. ASSUME NEW w \in Workers, NEW m \in Messages, Requeue(w, m) PROVE TypeOK'
  <2>1. LPush(pending, m) \in Seq(Messages)
    BY PushElements DEF RedisTypeOK, LPush
  <2>2. deadLetter' \in Seq(Messages)
    BY <1>11, RemoveElements DEF Requeue, RedisTypeOK
  <2>3. RedisTypeOK'
    BY <1>11, <2>1, <2>2 DEF Requeue, RedisTypeOK, inFlight, waiting, data
  <2>4. CallersTypeOK'
    BY <1>11, GotoType DEF Requeue, CallersTypeOK, WorkerPCs
  <2> QED BY <1>11, <2>3, <2>4 DEF Requeue, TypeOK
<1>12. ASSUME NEW w \in Workers, RequeueFetch(w) PROVE TypeOK'
  <2>1. RedisTypeOK'
    BY <1>12, RedisUnchangedType DEF RequeueFetch
  <2>2. key[w] \in Messages
    BY <1>12 DEF RequeueFetch, CallersTypeOK, KeyPCs
  <2>3. CallersTypeOK'
    BY <1>12, <2>2, GotoType, ReturnType DEF RequeueFetch, CallersTypeOK, WorkerPCs
  <2> QED BY <1>12, <2>1, <2>3 DEF RequeueFetch, TypeOK
<1>13. ASSUME NEW w \in Workers, RequeueReset(w) PROVE TypeOK'
  <2>1. key[w] \in Messages
    BY <1>13 DEF RequeueReset, CallersTypeOK, KeyPCs
  <2>2. RedisTypeOK'
    BY <1>13, <2>1 DEF RequeueReset, RedisTypeOK, lists, inFlight, waiting
  <2>3. CallersTypeOK'
    BY <1>13, ReturnType DEF RequeueReset, CallersTypeOK
  <2> QED BY <1>13, <2>2, <2>3 DEF RequeueReset, TypeOK
<1>14. ASSUME NEW w \in Workers, PurgeList(w) PROVE TypeOK'
  <2>1. RedisTypeOK'
    BY <1>14, RedisUnchangedType DEF PurgeList
  <2>2. ToSet(deadLetter) \subseteq Messages
    BY DEF RedisTypeOK, ToSet
  <2>3. CallersTypeOK'
    BY <1>14, <2>2, GotoType DEF PurgeList, CallersTypeOK, WorkerPCs, KeyPCs
  <2> QED BY <1>14, <2>1, <2>3 DEF PurgeList, TypeOK
<1>15. ASSUME NEW w \in Workers, PurgeExec(w) PROVE TypeOK'
  <2>1. RedisTypeOK'
    BY <1>15 DEF PurgeExec, RedisTypeOK, inFlight, waiting
  <2>2. CallersTypeOK'
    BY <1>15, ReturnType DEF PurgeExec, CallersTypeOK
  <2>3. fate' \in [Messages -> Fates]
    <3>1. Settle(ToSet(deadLetter), "discarded") /\ "discarded" \in Fates
      BY <1>15 DEF PurgeExec, Fates
    <3> QED BY <3>1, SettleType
  <2> QED BY <1>15, <2>1, <2>2, <2>3 DEF PurgeExec, TypeOK
<1>16. ASSUME NEW w \in Workers, Clear(w) PROVE TypeOK'
  <2>1. RedisTypeOK'
    BY <1>16 DEF Clear, RedisTypeOK, data
  <2>2. CallersTypeOK'
    BY <1>16, LocalUnchangedType DEF Clear
  <2>3. fate' \in [Messages -> Fates]
    <3>1. /\ Settle(ToSet(pending) \cup ToSet(deadLetter) \cup ToSet(delayed) \cup processing,
                    "discarded")
          /\ "discarded" \in Fates
      BY <1>16 DEF Clear, Fates
    <3> QED BY <3>1, SettleType
  <2> QED BY <1>16, <2>1, <2>2, <2>3 DEF Clear, TypeOK
<1>17. ASSUME NEW w \in Workers, Fail(w) \/ Crash(w) PROVE TypeOK'
  <2>1. UNCHANGED redis /\ Return(w) /\ Forget(w)
    BY <1>17 DEF Fail, Crash
  <2>2. RedisTypeOK'
    BY <2>1, RedisUnchangedType
  <2>3. CallersTypeOK'
    BY <1>17, <2>1, ReturnType DEF Fail, Crash, CallersTypeOK
  <2>4. fate' \in [Messages -> Fates]
    <3>1. "lost" \in Fates
      BY DEF Fates
    <3> QED BY <2>1, <3>1, SettleType DEF Forget
  <2> QED BY <1>17, <2>2, <2>3, <2>4 DEF Fail, Crash, TypeOK
<1>18. ASSUME NEW c \in Cleaners, CleanList(c) PROVE TypeOK'
  <2>1. RedisTypeOK'
    BY <1>18, RedisUnchangedType DEF CleanList
  <2>2. {m \in processing : expiresIn[m] = 0} \subseteq Messages
    BY DEF RedisTypeOK
  <2>3. CallersTypeOK'
    BY <1>18, <2>2, GotoType DEF CleanList, CallersTypeOK, CleanerPCs, KeyPCs
  <2> QED BY <1>18, <2>1, <2>3 DEF CleanList, TypeOK
<1>19. ASSUME NEW c \in Cleaners, NEW m \in Messages, CleanFetch(c, m) PROVE TypeOK'
  <2>1. RedisTypeOK'
    BY <1>19, RedisUnchangedType DEF CleanFetch
  <2>2. retryCount[m] \in Nat
    BY DEF RedisTypeOK
  <2>3. CallersTypeOK'
    BY <1>19, <2>2, GotoType DEF CleanFetch, CallersTypeOK, CleanerPCs
  <2> QED BY <1>19, <2>1, <2>3 DEF CleanFetch, TypeOK
<1>20. ASSUME NEW c \in Cleaners, CleanExec(c) PROVE TypeOK'
  <2>1. key[c] \in Messages /\ reg[c] + 1 \in Nat
    BY <1>20 DEF CleanExec, CallersTypeOK, KeyPCs
  <2>2. RedisTypeOK' /\ fate' \in [Messages -> Fates]
    BY <1>20, <2>1, RetryOrBuryType DEF CleanExec
  <2>3. CallersTypeOK'
    BY <1>20, GotoType DEF CleanExec, CallersTypeOK, CleanerPCs, KeyPCs
  <2> QED BY <1>20, <2>2, <2>3 DEF CleanExec, TypeOK
<1>21. ASSUME NEW c \in Cleaners, CleanDrop(c) PROVE TypeOK'
  <2>1. RedisTypeOK'
    BY <1>21 DEF CleanDrop, RedisTypeOK, lists, waiting, data
  <2>2. CallersTypeOK'
    BY <1>21, GotoType DEF CleanDrop, CallersTypeOK, CleanerPCs, KeyPCs
  <2> QED BY <1>21, <2>1, <2>2 DEF CleanDrop, TypeOK
<1>22. ASSUME NEW c \in Cleaners, CleanMove(c) PROVE TypeOK'
  <2>1. RedisTypeOK'
    BY <1>22, MoveDelayedType DEF CleanMove
  <2>2. CallersTypeOK'
    BY <1>22, GotoType DEF CleanMove, CallersTypeOK, CleanerPCs, KeyPCs
  <2> QED BY <1>22, <2>1, <2>2 DEF CleanMove, TypeOK
<1>23. ASSUME NEW c \in Cleaners, CleanFail(c) \/ CleanCrash(c) PROVE TypeOK'
  <2>1. RedisTypeOK'
    BY <1>23, RedisUnchangedType DEF CleanFail, CleanCrash
  <2>2. CallersTypeOK'
    <3>1. CASE CleanFail(c)
      BY <3>1, GotoType DEF CleanFail, CallersTypeOK, CleanerPCs, KeyPCs
    <3>2. CASE CleanCrash(c)
      BY <3>2, ReturnType DEF CleanCrash, CallersTypeOK
    <3> QED BY <1>23, <3>1, <3>2
  <2> QED BY <1>23, <2>1, <2>2 DEF CleanFail, CleanCrash, TypeOK
<1>24. ASSUME Tick PROVE TypeOK'
  <2>1. RedisTypeOK'
    BY <1>24 DEF Tick, RedisTypeOK, lists, data
  <2>2. CallersTypeOK'
    BY <1>24 DEF Tick, CallersTypeOK
  <2> QED BY <1>24, <2>1, <2>2 DEF Tick, TypeOK
<1>25. ASSUME UNCHANGED vars PROVE TypeOK'
  BY <1>25, RedisUnchangedType, LocalUnchangedType DEF vars, TypeOK
<1> QED
  BY <1>1, <1>2, <1>3, <1>4, <1>5, <1>6, <1>7, <1>8, <1>9, <1>10, <1>11, <1>12, <1>13,
     <1>14, <1>15, <1>16, <1>17, <1>18, <1>19, <1>20, <1>21, <1>22, <1>23, <1>24, <1>25
  DEF Next, SettleHeld, Operate, Continue, CleanStep

(* TypeOK holds in every reachable state, for all values of the constants. *)
THEOREM TypeCorrect == Spec => []TypeOK
<1>1. Init => TypeOK
  BY TypeInit
<1>2. TypeOK /\ [Next]_vars => TypeOK'
  BY TypeStep
<1> QED BY <1>1, <1>2, PTL DEF Spec

-----------------------------------------------------------------------------
(* No message is lost                                                      *)

(* Caller p has popped m and not yet added it to :processing. *)
Polled(p, m) == p \in Workers /\ InHandOf(p, m)

(* Goto moves one caller and leaves the others where they are. *)
LEMMA GotoEffect ==
    ASSUME CallersTypeOK, NEW p \in Procs, NEW l, NEW k, NEW r, Goto(p, l, k, r)
    PROVE  /\ pc'[p] = l /\ key'[p] = k
           /\ \A q \in Procs \ {p} : pc'[q] = pc[q] /\ key'[q] = key[q]
BY DEF CallersTypeOK, Goto

(* Settle ends open messages and changes no other. *)
LEMMA SettleEffect ==
    ASSUME fate \in [Messages -> Fates], NEW ms, NEW f \in Fates \ {"open", "new"}, Settle(ms, f)
    PROVE  \A m \in Messages : /\ fate'[m] = "open" => fate[m] = "open" /\ m \notin ms
                               /\ fate'[m] = "new" => fate[m] = "new"
BY DEF Settle

(* What a step of caller p has to respect for QueueInv to hold after it: no *)
(* open message loses its data or its last place, and p takes up no message *)
(* that was never offered.                                                  *)
LEMMA QueueFrame ==
    ASSUME QueueInv, TypeOK', NEW p \in Procs,
           \A q \in Procs \ {p} : /\ pc'[q] = pc[q] /\ key'[q] = key[q]
                                  /\ listed'[q] = listed[q],
           \A m \in Messages : /\ fate'[m] = "open" => fate[m] = "open"
                               /\ fate'[m] = "new" => fate[m] = "new",
           \A m \in Messages : fate'[m] = "open" /\ m \in stored => m \in stored',
           \A m \in Messages : fate'[m] = "open" /\ (Queued(m) \/ Polled(p, m))
                                  => \/ Queued(m)' \/ Polled(p, m)'
                                     \/ \E w \in Workers \ {p} : InHandOf(w, m),
           \A m \in Messages : Queued(m)' => fate[m] # "new",
           \A m \in listed'[p] : fate[m] # "new",
           pc'[p] \in KeyPCs => fate[key'[p]] # "new",
           p \in Cleaners /\ pc'[p] = "missing" => fate'[key'[p]] # "open",
           \A m \in Messages : /\ fate'[m] = "open" /\ m \in ToSet(deadLetter)
                               /\ "PurgeDeadLetters" \in Calls
                               => m \in ToSet(deadLetter'),
           p \in Workers /\ pc'[p] = "purging" =>
               /\ "PurgeDeadLetters" \in Calls
               /\ \A m \in listed'[p] : fate'[m] = "open" => m \in ToSet(deadLetter')
    PROVE  QueueInv'
<1>t. /\ TypeOK /\ Workers \subseteq Procs /\ Cleaners \subseteq Procs
      /\ \A q \in Procs : listed[q] \subseteq Messages /\ listed'[q] \subseteq Messages
      /\ \A q \in Procs : /\ pc[q] \in KeyPCs => key[q] \in Messages
                          /\ pc'[q] \in KeyPCs => key'[q] \in Messages
  BY DEF QueueInv, TypeOK, CallersTypeOK, Procs
<1>1. NoMessageLost'
  <2> SUFFICES ASSUME NEW m \in Messages, fate'[m] = "open"
               PROVE  m \in stored' /\ (Queued(m)' \/ InHand(m)')
    BY DEF NoMessageLost
  <2>1. m \in stored /\ (Queued(m) \/ InHand(m))
    BY DEF QueueInv, NoMessageLost
  <2>2. CASE Queued(m) \/ Polled(p, m)
    <3>1. \/ Queued(m)' \/ Polled(p, m)'
          \/ \E w \in Workers \ {p} : InHandOf(w, m)
      BY <2>2
    <3>2. \A w \in Workers \ {p} : InHandOf(w, m) => InHandOf(w, m)'
      BY <1>t DEF InHandOf
    <3> QED BY <2>1, <3>1, <3>2 DEF Polled, InHand
  <2>3. CASE ~(Queued(m) \/ Polled(p, m))
    <3>1. PICK w \in Workers : InHandOf(w, m)
      BY <2>1, <2>3 DEF InHand
    <3>2. w # p
      BY <2>3, <3>1 DEF Polled
    <3> QED BY <1>t, <2>1, <3>1, <3>2 DEF InHand, InHandOf
  <2> QED BY <2>2, <2>3
<1>2. OnlyOffered'
  <2> SUFFICES ASSUME NEW m \in Messages,
                      \/ Queued(m)'
                      \/ \E q \in Procs : m \in listed'[q] \/ (pc'[q] \in KeyPCs /\ key'[q] = m)
               PROVE  fate[m] # "new"
    BY DEF OnlyOffered
  <2>1. CASE Queued(m)'
    BY <2>1
  <2>2. ASSUME NEW q \in Procs, m \in listed'[q] \/ (pc'[q] \in KeyPCs /\ key'[q] = m)
        PROVE  fate[m] # "new"
    <3>1. CASE q = p
      BY <2>2, <3>1
    <3>2. CASE q # p
      BY <2>2, <3>2 DEF QueueInv, OnlyOffered
    <3> QED BY <3>1, <3>2
  <2> QED BY <2>1, <2>2
<1>3. MissingIsSettled'
  <2> SUFFICES ASSUME NEW c \in Cleaners, pc'[c] = "missing"
               PROVE  fate'[key'[c]] # "open"
    BY DEF MissingIsSettled
  <2>1. CASE c = p
    BY <2>1
  <2>2. CASE c # p
    <3>1. key'[c] = key[c] /\ key[c] \in Messages /\ fate[key[c]] # "open"
      BY <1>t, <2>2 DEF QueueInv, MissingIsSettled, KeyPCs
    <3> QED BY <3>1
  <2> QED BY <2>1, <2>2
<1>4. PurgedIsDead'
  <2> SUFFICES ASSUME NEW w \in Workers, pc'[w] = "purging"
               PROVE  /\ "PurgeDeadLetters" \in Calls
                      /\ \A m \in listed'[w] : fate'[m] = "open" => m \in ToSet(deadLetter')
    BY DEF PurgedIsDead
  <2>1. CASE w = p
    BY <2>1
  <2>2. CASE w # p
    <3>1. /\ listed'[w] = listed[w] /\ "PurgeDeadLetters" \in Calls
          /\ \A m \in listed[w] : fate[m] = "open" => m \in ToSet(deadLetter)
      BY <1>t, <2>2 DEF QueueInv, PurgedIsDead
    <3> QED BY <1>t, <3>1
  <2> QED BY <2>1, <2>2
<1> QED BY <1>1, <1>2, <1>3, <1>4 DEF QueueInv

(* The case of a step that reads: Redis and the fates stay as they are.     *)
LEMMA ReadFrame ==
    ASSUME QueueInv, TypeOK', NEW p \in Procs,
           pending' = pending, deadLetter' = deadLetter, delayed' = delayed,
           processing' = processing, stored' = stored, fate' = fate,
           \A q \in Procs \ {p} : /\ pc'[q] = pc[q] /\ key'[q] = key[q]
                                  /\ listed'[q] = listed[q],
           \A m \in Messages : Polled(p, m) => Polled(p, m)' \/ fate[m] # "open",
           \A m \in listed'[p] : fate[m] # "new",
           pc'[p] \in KeyPCs => fate[key'[p]] # "new",
           p \in Cleaners /\ pc'[p] = "missing" => fate[key'[p]] # "open",
           p \in Workers /\ pc'[p] = "purging" =>
               /\ "PurgeDeadLetters" \in Calls
               /\ \A m \in listed'[p] : fate[m] = "open" => m \in ToSet(deadLetter)
    PROVE  QueueInv'
<1>1. \A m \in Messages : Queued(m)' <=> Queued(m)
  BY DEF Queued
<1>2. \A m \in Messages : Queued(m) => fate[m] # "new"
  BY DEF QueueInv, OnlyOffered
<1> QED BY <1>1, <1>2, QueueFrame

(* What the inductive invariant says of a message in the queue or at hand. *)
LEMMA KnownMessages ==
    ASSUME QueueInv
    PROVE  /\ RedisTypeOK /\ CallersTypeOK /\ fate \in [Messages -> Fates]
           /\ \A m \in Messages : Queued(m) => fate[m] # "new"
           /\ \A p \in Procs : listed[p] \subseteq Messages
           /\ \A p \in Procs : \A m \in listed[p] : fate[m] # "new"
           /\ \A p \in Procs : pc[p] \in KeyPCs => key[p] \in Messages /\ fate[key[p]] # "new"
           /\ \A m \in Messages : fate[m] = "open" => m \in stored
           /\ Workers \subseteq Procs /\ Cleaners \subseteq Procs
           /\ \A w \in Workers : w \notin Cleaners
BY QueueAssumption
DEF QueueInv, TypeOK, CallersTypeOK, OnlyOffered, NoMessageLost, Procs

(* The initial state. *)
LEMMA QueueInit == Init => QueueInv
<1> SUFFICES ASSUME Init PROVE QueueInv
  OBVIOUS
<1>1. TypeOK
  BY TypeInit
<1>2. \A m \in Messages : ~Queued(m) /\ fate[m] = "new"
  BY DEF Init, Queued, ToSet
<1>3. \A p \in Procs : pc[p] = "idle" /\ listed[p] = {}
  BY DEF Init
<1> QED BY <1>1, <1>2, <1>3
        DEF QueueInv, NoMessageLost, OnlyOffered, MissingIsSettled, PurgedIsDead, KeyPCs, Procs

(* The steps that read, one by one. *)
LEMMA ReadSteps ==
    ASSUME QueueInv, TypeOK',
           \/ \E w \in Workers : \/ PollEmpty(w) \/ PollFetch(w) \/ NackFetch(w)
                                 \/ RequeueFetch(w) \/ PurgeList(w)
                                 \/ \E m \in holds[w] : NackCheck(w, m)
           \/ \E c \in Cleaners : \/ CleanList(c) \/ CleanFail(c) \/ CleanCrash(c)
                                  \/ \E m \in Messages : CleanFetch(c, m)
    PROVE  QueueInv'
<1> USE KnownMessages
<1>1. ASSUME NEW w \in Workers, PollEmpty(w) PROVE QueueInv'
  <2>1. UNCHANGED <<redis, listed, fate>> /\ pc[w] = "polling" /\ Goto(w, "idle", None, 0)
    BY <1>1 DEF PollEmpty, Return
  <2> QED BY <2>1, GotoEffect, ReadFrame DEF redis, lists, inFlight, waiting, data, Polled, InHandOf, KeyPCs
<1>2. ASSUME NEW w \in Workers, PollFetch(w) PROVE QueueInv'
  <2>1. UNCHANGED <<redis, listed, fate>> /\ pc[w] = "popped"
    BY <1>2 DEF PollFetch
  <2>2. CASE key[w] \in stored
    <3>1. Goto(w, "fetched", key[w], retryCount[key[w]])
      BY <1>2, <2>2 DEF PollFetch
    <3> QED BY <2>1, <3>1, GotoEffect, ReadFrame
            DEF redis, lists, inFlight, waiting, data, Polled, InHandOf, KeyPCs
  <2>3. CASE key[w] \notin stored
    <3>1. Goto(w, "idle", None, 0)
      BY <1>2, <2>3 DEF PollFetch, Return
    <3>2. \A m \in Messages : Polled(w, m) => fate[m] # "open"
      BY <2>3 DEF Polled, InHandOf
    <3> QED BY <2>1, <3>1, <3>2, GotoEffect, ReadFrame
            DEF redis, lists, inFlight, waiting, data, KeyPCs
  <2> QED BY <2>2, <2>3
<1>3. ASSUME NEW w \in Workers, NackFetch(w) PROVE QueueInv'
  <2>1. UNCHANGED <<redis, listed, fate>> /\ pc[w] = "nackChecked"
    BY <1>3 DEF NackFetch
  <2>2. \/ Goto(w, "nackFetched", key[w], retryCount[key[w]])
        \/ Goto(w, "idle", None, 0)
    BY <1>3 DEF NackFetch, Return
  <2> QED BY <2>1, <2>2, GotoEffect, ReadFrame
          DEF redis, lists, inFlight, waiting, data, Polled, InHandOf, KeyPCs
<1>4. ASSUME NEW w \in Workers, RequeueFetch(w) PROVE QueueInv'
  <2>1. UNCHANGED <<redis, listed, fate>> /\ pc[w] = "requeued"
    BY <1>4 DEF RequeueFetch
  <2>2. Goto(w, "requeueFetched", key[w], 0) \/ Goto(w, "idle", None, 0)
    BY <1>4 DEF RequeueFetch, Return
  <2> QED BY <2>1, <2>2, GotoEffect, ReadFrame
          DEF redis, lists, inFlight, waiting, data, Polled, InHandOf, KeyPCs
<1>5. ASSUME NEW w \in Workers, PurgeList(w) PROVE QueueInv'
  <2>1. /\ UNCHANGED <<redis, fate>> /\ pc[w] = "idle" /\ Goto(w, "purging", None, 0)
        /\ "PurgeDeadLetters" \in Calls
        /\ listed' = [listed EXCEPT ![w] = ToSet(deadLetter)]
    BY <1>5 DEF PurgeList
  <2>2. /\ listed'[w] = ToSet(deadLetter)
        /\ \A q \in Procs \ {w} : listed'[q] = listed[q]
    BY <2>1 DEF CallersTypeOK
  <2>3. \A m \in ToSet(deadLetter) : m \in Messages /\ Queued(m)
    BY DEF RedisTypeOK, Queued, ToSet
  <2> QED BY <2>1, <2>2, <2>3, GotoEffect, ReadFrame
          DEF redis, lists, inFlight, waiting, data, Polled, InHandOf, KeyPCs
<1>6. ASSUME NEW w \in Workers, NEW m \in holds[w], NackCheck(w, m) PROVE QueueInv'
  <2>1. UNCHANGED <<redis, listed, fate>> /\ pc[w] = "idle"
    BY <1>6 DEF NackCheck
  <2>2. CASE m \in processing
    <3>1. Goto(w, "nackChecked", m, 0)
      BY <1>6, <2>2 DEF NackCheck
    <3>2. m \in Messages /\ Queued(m)
      BY <2>2 DEF RedisTypeOK, Queued
    <3> QED BY <2>1, <3>1, <3>2, GotoEffect, ReadFrame
            DEF redis, lists, inFlight, waiting, data, Polled, InHandOf, KeyPCs
  <2>3. CASE m \notin processing
    <3>1. UNCHANGED <<pc, key>>
      BY <1>6, <2>3 DEF NackCheck
    <3> QED BY <2>1, <3>1, ReadFrame DEF redis, lists, inFlight, waiting, data, Polled, InHandOf, KeyPCs
  <2> QED BY <2>2, <2>3
<1>7. ASSUME NEW c \in Cleaners, CleanList(c) PROVE QueueInv'
  <2>1. /\ UNCHANGED <<redis, fate>> /\ pc[c] = "idle" /\ Goto(c, "scanning", None, 0)
        /\ listed' = [listed EXCEPT ![c] = {m \in processing : expiresIn[m] = 0}]
    BY <1>7 DEF CleanList
  <2>2. /\ listed'[c] \subseteq processing
        /\ \A q \in Procs \ {c} : listed'[q] = listed[q]
    BY <2>1 DEF CallersTypeOK
  <2>3. \A m \in processing : m \in Messages /\ Queued(m)
    BY DEF RedisTypeOK, Queued
  <2> QED BY <2>1, <2>2, <2>3, GotoEffect, ReadFrame
          DEF redis, lists, inFlight, waiting, data, Polled, InHandOf, KeyPCs
<1>8. ASSUME NEW c \in Cleaners, CleanFail(c) PROVE QueueInv'
  <2>1. UNCHANGED <<redis, fate>>
    BY <1>8 DEF CleanFail
  <2>2. /\ listed'[c] \subseteq listed[c]
        /\ \A q \in Procs \ {c} : listed'[q] = listed[q]
    BY <1>8 DEF CleanFail, CallersTypeOK
  <2>3. \/ Goto(c, "scanning", None, 0) \/ Goto(c, "idle", None, 0)
        \/ UNCHANGED <<pc, key>> /\ pc[c] = "scanning"
    BY <1>8 DEF CleanFail
  <2> QED BY <2>1, <2>2, <2>3, GotoEffect, ReadFrame
          DEF redis, lists, inFlight, waiting, data, Polled, InHandOf, KeyPCs
<1>9. ASSUME NEW c \in Cleaners, CleanCrash(c) PROVE QueueInv'
  <2>1. /\ UNCHANGED <<redis, fate>> /\ Goto(c, "idle", None, 0)
        /\ listed' = [listed EXCEPT ![c] = {}]
    BY <1>9 DEF CleanCrash, Return
  <2>2. /\ listed'[c] = {}
        /\ \A q \in Procs \ {c} : listed'[q] = listed[q]
    BY <2>1 DEF CallersTypeOK
  <2> QED BY <2>1, <2>2, GotoEffect, ReadFrame
          DEF redis, lists, inFlight, waiting, data, Polled, InHandOf, KeyPCs
<1>10. ASSUME NEW c \in Cleaners, NEW m \in Messages, CleanFetch(c, m) PROVE QueueInv'
  <2>1. /\ UNCHANGED <<redis, fate>> /\ pc[c] = "scanning" /\ m \in listed[c]
        /\ listed' = [listed EXCEPT ![c] = @ \ {m}]
        /\ \/ Goto(c, "timedOut", m, retryCount[m])
           \/ m \notin stored /\ Goto(c, "missing", m, 0)
    BY <1>10 DEF CleanFetch
  <2>2. /\ listed'[c] \subseteq listed[c]
        /\ \A q \in Procs \ {c} : listed'[q] = listed[q]
    BY <2>1 DEF CallersTypeOK
  <2> QED BY <2>1, <2>2, GotoEffect, ReadFrame
          DEF redis, lists, inFlight, waiting, data, Polled, InHandOf, KeyPCs
<1> QED BY <1>1, <1>2, <1>3, <1>4, <1>5, <1>6, <1>7, <1>8, <1>9, <1>10

(* moveDelayedMessages moves messages within the queue. *)
LEMMA MoveDelayedEffect ==
    ASSUME RedisTypeOK, MoveDelayed
    PROVE  /\ \A m \in Messages : Queued(m)' <=> Queued(m)
           /\ stored' = stored /\ deadLetter' = deadLetter
<1>1. PICK n \in 0..Len(delayed) :
        /\ pending' = Reverse(SubSeq(delayed, 1, n)) \o pending
        /\ delayed' = SubSeq(delayed, n + 1, Len(delayed))
  BY DEF MoveDelayed
<1>2. ToSet(delayed) \cup ToSet(pending) = ToSet(pending') \cup ToSet(delayed')
  BY <1>1, MovePrefixElements DEF RedisTypeOK
<1>3. stored' = stored /\ deadLetter' = deadLetter /\ processing' = processing
  BY DEF MoveDelayed, inFlight, data
<1> QED BY <1>2, <1>3 DEF Queued

(* The transaction that ends Nack and handleTimeoutMessage puts k back into *)
(* the queue, buries it or drops it, and touches no other message.          *)
LEMMA RetryOrBuryEffect ==
    ASSUME RedisTypeOK, fate \in [Messages -> Fates],
           NEW p, NEW k \in Messages, NEW r \in Nat, RetryOrBury(p, k, r)
    PROVE  /\ \A m \in Messages : /\ fate'[m] = "open" => fate[m] = "open"
                                  /\ fate'[m] = "new" => fate[m] = "new"
           /\ \A m \in Messages : fate'[m] = "open" /\ m \in stored => m \in stored'
           /\ \A m \in Messages : fate'[m] = "open" /\ Queued(m) => Queued(m)'
           /\ \A m \in Messages : Queued(m)' => Queued(m) \/ m = k
           /\ \A m \in Messages : m \in ToSet(deadLetter) => m \in ToSet(deadLetter')
<1>1. /\ ToSet(LPush(pending, k)) = ToSet(pending) \cup {k}
      /\ ToSet(LPush(deadLetter, k)) = ToSet(deadLetter) \cup {k}
  BY PushElements DEF RedisTypeOK, LPush
<1>2. processing' = processing \ {k} /\ delayed' = delayed
  BY DEF RetryOrBury, waiting
<1>3. CASE r <= MaxRetries
  <2>1. /\ pending' = LPush(pending, k) /\ deadLetter' = deadLetter
        /\ stored' = stored \cup {k} /\ fate' = fate
    BY <1>3, QueueAssumption DEF RetryOrBury
  <2> QED BY <1>1, <1>2, <2>1 DEF Queued
<1>4. CASE r > MaxRetries /\ p \in EnableDeadLetter
  <2>1. /\ pending' = pending /\ deadLetter' = LPush(deadLetter, k)
        /\ stored' = stored /\ fate' = fate
    BY <1>4, QueueAssumption DEF RetryOrBury, data
  <2> QED BY <1>1, <1>2, <2>1 DEF Queued
<1>5. CASE r > MaxRetries /\ p \notin EnableDeadLetter
  <2>1. /\ pending' = pending /\ deadLetter' = deadLetter
        /\ stored' = stored \ {k} /\ Settle({k}, "dropped")
    BY <1>5, QueueAssumption DEF RetryOrBury, lists
  <2>2. "dropped" \in Fates \ {"open", "new"}
    BY DEF Fates
  <2>3. \A m \in Messages : /\ fate'[m] = "open" => fate[m] = "open" /\ m \notin {k}
                            /\ fate'[m] = "new" => fate[m] = "new"
    BY <2>1, <2>2, SettleEffect
  <2> QED BY <1>2, <2>1, <2>3 DEF Queued
<1> QED BY <1>3, <1>4, <1>5, QueueAssumption

(* A new message goes to :pending or to :delayed. *)
LEMMA OfferStep ==
    ASSUME QueueInv, TypeOK',
           NEW w \in Workers, NEW k \in Messages, NEW d \in Delays, Offer(w, k, d)
    PROVE  QueueInv'
<1> USE KnownMessages
<1>1. /\ fate[k] = "new" /\ fate' = [fate EXCEPT ![k] = "open"]
      /\ stored' = stored \cup {k}
      /\ UNCHANGED <<deadLetter, processing, pc, key, listed>>
  BY DEF Offer, inFlight, local
<1>2. ToSet(pending') \cup ToSet(delayed') = ToSet(pending) \cup ToSet(delayed) \cup {k}
  <2>1. CASE d = 0
    <3>1. pending' = LPush(pending, k) /\ delayed' = delayed
      BY <2>1 DEF Offer, waiting
    <3> QED BY <3>1, PushElements DEF RedisTypeOK, LPush
  <2>2. CASE d > 0
    <3>1. PICK i \in 1..Len(delayed) + 1 : delayed' = InsertAt(delayed, i, k)
      BY <2>2, QueueAssumption DEF Offer
    <3>2. pending' = pending
      BY <2>2, QueueAssumption DEF Offer
    <3>3. ToSet(delayed') = ToSet(delayed) \cup {k}
      BY <3>1, InsertElements DEF RedisTypeOK
    <3> QED BY <3>2, <3>3
  <2> QED BY <2>1, <2>2, QueueAssumption
<1>3. \A m \in Messages : Queued(m)' <=> Queued(m) \/ m = k
  BY <1>1, <1>2 DEF Queued
<1>4. NoMessageLost'
  BY <1>1, <1>3 DEF QueueInv, NoMessageLost, InHand, InHandOf
<1>5. OnlyOffered'
  BY <1>1, <1>3 DEF QueueInv, OnlyOffered
<1>6. MissingIsSettled'
  BY <1>1 DEF QueueInv, MissingIsSettled, KeyPCs
<1>7. PurgedIsDead'
  BY <1>1 DEF QueueInv, PurgedIsDead
<1> QED BY <1>4, <1>5, <1>6, <1>7 DEF QueueInv

(* The transaction that ends Nack and handleTimeoutMessage, by whichever     *)
(* caller; its message is known, not necessarily still in :processing.      *)
LEMMA RetryOrBuryStep ==
    ASSUME QueueInv, TypeOK', NEW p \in Procs, NEW l,
           pc[p] \in {"nackFetched", "timedOut"}, l \in {"idle", "scanning"},
           RetryOrBury(p, key[p], reg[p] + 1), Goto(p, l, None, 0), listed' = listed
    PROVE  QueueInv'
<1> USE KnownMessages
<1>1. key[p] \in Messages /\ fate[key[p]] # "new" /\ reg[p] + 1 \in Nat
  BY DEF CallersTypeOK, KeyPCs
<1>2. /\ \A m \in Messages : /\ fate'[m] = "open" => fate[m] = "open"
                             /\ fate'[m] = "new" => fate[m] = "new"
      /\ \A m \in Messages : fate'[m] = "open" /\ m \in stored => m \in stored'
      /\ \A m \in Messages : fate'[m] = "open" /\ Queued(m) => Queued(m)'
      /\ \A m \in Messages : Queued(m)' => Queued(m) \/ m = key[p]
      /\ \A m \in Messages : m \in ToSet(deadLetter) => m \in ToSet(deadLetter')
  BY <1>1, RetryOrBuryEffect
<1>3. /\ pc'[p] = l /\ key'[p] = None
      /\ \A q \in Procs \ {p} : pc'[q] = pc[q] /\ key'[q] = key[q]
  BY GotoEffect
<1>4. \A m \in Messages : Queued(m)' => fate[m] # "new"
  BY <1>1, <1>2
<1> QED BY <1>2, <1>3, <1>4, QueueFrame DEF Polled, InHandOf, KeyPCs

(* The steps of an application thread that write. *)
LEMMA WorkerSteps ==
    ASSUME QueueInv, TypeOK',
           "RequeueDeadLetter" \notin Calls \/ "PurgeDeadLetters" \notin Calls,
           NEW w \in Workers,
           \/ PollStart(w) \/ PollPop(w) \/ PollMove(w) \/ NackExec(w)
           \/ RequeueReset(w) \/ PurgeExec(w) \/ Clear(w) \/ Fail(w) \/ Crash(w)
           \/ \E m \in holds[w] : Ack(w, m)
           \/ \E m \in Messages : Requeue(w, m)
    PROVE  QueueInv'
<1> USE KnownMessages
<1>1. ASSUME PollStart(w) PROVE QueueInv'
  <2>1. /\ UNCHANGED <<listed, fate>> /\ pc[w] = "idle" /\ Goto(w, "polling", None, 0)
        /\ MoveDelayed
    BY <1>1 DEF PollStart
  <2> QED BY <2>1, MoveDelayedEffect, GotoEffect, QueueFrame DEF Polled, InHandOf, KeyPCs
<1>2. ASSUME PollPop(w) PROVE QueueInv'
  <2>1. /\ UNCHANGED <<deadLetter, processing, delayed, stored, listed, fate>>
        /\ pc[w] = "polling" /\ Goto(w, "popped", Last(pending), 0)
        /\ pending' = Front(pending) /\ pending # <<>>
    BY <1>2 DEF PollPop, inFlight, waiting, data
  <2>2. /\ ToSet(pending) = ToSet(pending') \cup {Last(pending)}
        /\ Last(pending) \in Messages
    BY <2>1, PopElements DEF RedisTypeOK
  <2>3. pc'[w] = "popped" /\ key'[w] = Last(pending)
    BY <2>1, GotoEffect
  <2>4. /\ Queued(Last(pending))
        /\ \A m \in Messages : Queued(m)' => Queued(m)
        /\ \A m \in Messages : Queued(m) \/ Polled(w, m) => Queued(m)' \/ Polled(w, m)'
    BY <2>1, <2>2, <2>3 DEF Queued, Polled, InHandOf
  <2> QED BY <2>1, <2>2, <2>3, <2>4, GotoEffect, QueueFrame DEF KeyPCs
<1>3. ASSUME PollMove(w) PROVE QueueInv'
  <2>1. /\ UNCHANGED <<pending, deadLetter, delayed, listed, fate>>
        /\ pc[w] = "fetched" /\ Goto(w, "idle", None, 0)
        /\ stored' = stored \cup {key[w]} /\ processing' = processing \cup {key[w]}
    BY <1>3 DEF PollMove, lists, waiting, Return
  <2>2. /\ \A m \in Messages : Queued(m) \/ Polled(w, m) => Queued(m)'
        /\ \A m \in Messages : Queued(m)' => Queued(m) \/ m = key[w]
    BY <2>1 DEF Queued, Polled, InHandOf
  <2> QED BY <2>1, <2>2, GotoEffect, QueueFrame DEF KeyPCs
<1>4. ASSUME NackExec(w) PROVE QueueInv'
  <2>1. /\ RetryOrBury(w, key[w], reg[w] + 1) /\ Goto(w, "idle", None, 0)
        /\ pc[w] = "nackFetched" /\ listed' = listed
    BY <1>4 DEF NackExec, Return
  <2> QED BY <2>1, RetryOrBuryStep
<1>5. ASSUME RequeueReset(w) PROVE QueueInv'
  <2>1. /\ UNCHANGED <<pending, deadLetter, processing, delayed, listed, fate>>
        /\ pc[w] = "requeueFetched" /\ Goto(w, "idle", None, 0)
        /\ stored' = stored \cup {key[w]}
    BY <1>5 DEF RequeueReset, lists, inFlight, waiting, Return
  <2>2. \A m \in Messages : Queued(m)' <=> Queued(m)
    BY <2>1 DEF Queued
  <2> QED BY <2>1, <2>2, GotoEffect, QueueFrame DEF Polled, InHandOf, KeyPCs
<1>6. ASSUME PurgeExec(w) PROVE QueueInv'
  <2>1. /\ UNCHANGED <<pending, processing, delayed>>
        /\ pc[w] = "purging" /\ Goto(w, "idle", None, 0)
        /\ stored' = stored \ listed[w] /\ deadLetter' = <<>>
        /\ listed' = [listed EXCEPT ![w] = {}]
        /\ Settle(ToSet(deadLetter), "discarded")
    BY <1>6 DEF PurgeExec, inFlight, waiting, Return
  <2>2. "discarded" \in Fates \ {"open", "new"}
    BY DEF Fates
  <2>3. \A m \in Messages :
          /\ fate'[m] = "open" => fate[m] = "open" /\ m \notin ToSet(deadLetter)
          /\ fate'[m] = "new" => fate[m] = "new"
    BY <2>1, <2>2, SettleEffect
  <2>4. /\ listed'[w] = {} /\ \A q \in Procs \ {w} : listed'[q] = listed[q]
    BY <2>1 DEF CallersTypeOK
  <2>5. \A m \in listed[w] : fate'[m] # "open"
    BY <2>1, <2>3 DEF QueueInv, PurgedIsDead
  <2>6. ToSet(deadLetter') = {}
    BY <2>1 DEF ToSet
  <2>7. /\ \A m \in Messages : Queued(m)' => Queued(m)
        /\ \A m \in Messages : Queued(m) /\ fate'[m] = "open" => Queued(m)'
    BY <2>1, <2>3, <2>6 DEF Queued
  <2> QED BY <2>1, <2>3, <2>4, <2>5, <2>7, GotoEffect, QueueFrame DEF Polled, InHandOf, KeyPCs
<1>7. ASSUME Clear(w) PROVE QueueInv'
  <2> DEFINE all == ToSet(pending) \cup ToSet(deadLetter) \cup ToSet(delayed) \cup processing
  <2>1. /\ UNCHANGED <<stored, pc, key, listed>> /\ pc[w] = "idle"
        /\ pending' = <<>> /\ deadLetter' = <<>> /\ delayed' = <<>> /\ processing' = {}
        /\ Settle(all, "discarded")
    BY <1>7 DEF Clear, data, local
  <2>2. "discarded" \in Fates \ {"open", "new"}
    BY DEF Fates
  <2>3. \A m \in Messages : /\ fate'[m] = "open" => fate[m] = "open" /\ m \notin all
                            /\ fate'[m] = "new" => fate[m] = "new"
    <3> HIDE DEF all
    <3> QED BY <2>1, <2>2, SettleEffect
  <2>4. \A m \in Messages : ~Queued(m)' /\ (fate'[m] = "open" => ~Queued(m))
    BY <2>1, <2>3 DEF Queued, ToSet
  <2>5. \A m \in Messages : fate'[m] = "open" => m \notin ToSet(deadLetter)
    BY <2>3
  <2> QED BY <2>1, <2>3, <2>4, <2>5, QueueFrame DEF Polled, InHandOf, KeyPCs
<1>8. ASSUME Fail(w) \/ Crash(w) PROVE QueueInv'
  <2> DEFINE at == {m \in Messages : /\ InHandOf(w, m) /\ ~Queued(m)
                                      /\ \A v \in Workers \ {w} : ~InHandOf(v, m)}
  <2>1. /\ UNCHANGED redis /\ Goto(w, "idle", None, 0)
        /\ listed' = [listed EXCEPT ![w] = {}] /\ Settle(at, "lost")
    BY <1>8 DEF Fail, Crash, Forget, Return
  <2>2. "lost" \in Fates \ {"open", "new"}
    BY DEF Fates
  <2>3. \A m \in Messages : /\ fate'[m] = "open" => fate[m] = "open" /\ m \notin at
                            /\ fate'[m] = "new" => fate[m] = "new"
    <3> HIDE DEF at
    <3> QED BY <2>1, <2>2, SettleEffect
  <2>4. \A m \in Messages : fate'[m] = "open" /\ Polled(w, m)
                              => Queued(m) \/ \E v \in Workers \ {w} : InHandOf(v, m)
    BY <2>3 DEF Polled, InHandOf
  <2>5. /\ listed'[w] = {} /\ \A q \in Procs \ {w} : listed'[q] = listed[q]
    BY <2>1 DEF CallersTypeOK
  <2>6. /\ stored' = stored /\ deadLetter' = deadLetter
        /\ \A m \in Messages : Queued(m)' <=> Queued(m)
    BY <2>1 DEF Queued, redis, lists, inFlight, waiting, data
  <2> QED BY <2>1, <2>3, <2>4, <2>5, <2>6, GotoEffect, QueueFrame DEF KeyPCs
<1>9. ASSUME NEW k \in holds[w], Ack(w, k) PROVE QueueInv'
  <2>1. /\ UNCHANGED <<pending, deadLetter, delayed, pc, key, listed>> /\ pc[w] = "idle"
    BY <1>9 DEF Ack, lists, waiting, local
  <2>2. CASE k \in processing
    <3>1. /\ processing' = processing \ {k} /\ stored' = stored \ {k} /\ Settle({k}, "acked")
      BY <1>9, <2>2 DEF Ack
    <3>2. "acked" \in Fates \ {"open", "new"}
      BY DEF Fates
    <3>3. \A m \in Messages : /\ fate'[m] = "open" => fate[m] = "open" /\ m \notin {k}
                              /\ fate'[m] = "new" => fate[m] = "new"
      BY <3>1, <3>2, SettleEffect
    <3>4. /\ \A m \in Messages : Queued(m)' => Queued(m)
          /\ \A m \in Messages : Queued(m) /\ fate'[m] = "open" => Queued(m)'
      BY <2>1, <3>1, <3>3 DEF Queued
    <3> QED BY <2>1, <3>1, <3>3, <3>4, QueueFrame DEF Polled, InHandOf, KeyPCs
  <2>3. CASE k \notin processing
    <3>1. UNCHANGED <<processing, stored, fate>>
      BY <1>9, <2>3 DEF Ack, inFlight, data
    <3> QED BY <2>1, <3>1, ReadFrame DEF Polled, InHandOf, KeyPCs
  <2> QED BY <2>2, <2>3
<1>10. ASSUME NEW k \in Messages, Requeue(w, k) PROVE QueueInv'
  <2>1. /\ UNCHANGED <<processing, delayed, stored, listed, fate>> /\ pc[w] = "idle"
        /\ "PurgeDeadLetters" \notin Calls
    BY <1>10 DEF Requeue, inFlight, waiting, data
  <2>2. ToSet(deadLetter) = ToSet(deadLetter') \cup {k}
    <3>1. PICK i \in 1..Len(deadLetter) :
            deadLetter[i] = k /\ deadLetter' = RemoveAt(deadLetter, i)
      BY <1>10 DEF Requeue
    <3> QED BY <3>1, RemoveElements DEF RedisTypeOK
  <2>3. Queued(k)
    BY <2>2 DEF Queued
  <2>4. CASE k \in stored
    <3>1. pending' = LPush(pending, k) /\ Goto(w, "requeued", k, 0)
      BY <1>10, <2>4 DEF Requeue
    <3>2. ToSet(pending') = ToSet(pending) \cup {k}
      BY <3>1, PushElements DEF RedisTypeOK, LPush
    <3>3. \A m \in Messages : Queued(m)' <=> Queued(m)
      BY <2>1, <2>2, <3>2 DEF Queued
    <3> QED BY <2>1, <2>3, <3>1, <3>3, GotoEffect, QueueFrame DEF Polled, InHandOf, KeyPCs
  <2>5. CASE k \notin stored
    <3>1. UNCHANGED <<pending, pc, key>>
      BY <1>10, <2>5 DEF Requeue
    <3>2. /\ \A m \in Messages : Queued(m)' => Queued(m)
          /\ \A m \in Messages : Queued(m) /\ fate[m] = "open" => Queued(m)'
      BY <2>1, <2>2, <2>5, <3>1 DEF Queued
    <3> QED BY <2>1, <3>1, <3>2, QueueFrame DEF Polled, InHandOf, KeyPCs
  <2> QED BY <2>4, <2>5
<1> QED BY <1>1, <1>2, <1>3, <1>4, <1>5, <1>6, <1>7, <1>8, <1>9, <1>10

(* The steps of a cleanup goroutine that write. *)
LEMMA CleanerSteps ==
    ASSUME QueueInv, TypeOK', NEW c \in Cleaners, CleanExec(c) \/ CleanDrop(c) \/ CleanMove(c)
    PROVE  QueueInv'
<1> USE KnownMessages
<1>1. CASE CleanExec(c)
  <2>1. /\ RetryOrBury(c, key[c], reg[c] + 1) /\ Goto(c, "scanning", None, 0)
        /\ pc[c] = "timedOut" /\ listed' = listed
    BY <1>1 DEF CleanExec
  <2> QED BY <2>1, RetryOrBuryStep
<1>2. CASE CleanDrop(c)
  <2>1. /\ UNCHANGED <<pending, deadLetter, delayed, stored, listed, fate>>
        /\ pc[c] = "missing" /\ Goto(c, "scanning", None, 0)
        /\ processing' = processing \ {key[c]}
    BY <1>2 DEF CleanDrop, lists, waiting, data
  <2>2. fate[key[c]] # "open"
    BY <2>1 DEF QueueInv, MissingIsSettled
  <2>3. /\ \A m \in Messages : Queued(m)' => Queued(m)
        /\ \A m \in Messages : Queued(m) /\ fate[m] = "open" => Queued(m)'
    BY <2>1, <2>2 DEF Queued
  <2> QED BY <2>1, <2>3, GotoEffect, QueueFrame DEF Polled, InHandOf, KeyPCs
<1>3. CASE CleanMove(c)
  <2>1. /\ UNCHANGED <<listed, fate>> /\ Goto(c, "idle", None, 0) /\ MoveDelayed
    BY <1>3 DEF CleanMove
  <2> QED BY <2>1, MoveDelayedEffect, GotoEffect, QueueFrame DEF Polled, InHandOf, KeyPCs
<1> QED BY <1>1, <1>2, <1>3

(* QueueInv is inductive. *)
LEMMA QueueStep ==
    ASSUME "RequeueDeadLetter" \notin Calls \/ "PurgeDeadLetters" \notin Calls
    PROVE  QueueInv /\ [Next]_vars => QueueInv'
<1> SUFFICES ASSUME QueueInv, [Next]_vars PROVE QueueInv'
  OBVIOUS
<1>1. TypeOK'
  BY TypeStep DEF QueueInv
<1>2. ASSUME UNCHANGED <<pending, deadLetter, delayed, processing, stored,
                         pc, key, listed, fate>>
      PROVE  QueueInv'
  BY <1>1, <1>2 DEF QueueInv, NoMessageLost, OnlyOffered, MissingIsSettled, PurgedIsDead,
                    Queued, InHand, InHandOf
<1>3. CASE Tick \/ UNCHANGED vars
  BY <1>2, <1>3 DEF Tick, vars, redis, local, lists, inFlight, waiting, data
<1>4. CASE \E w \in Workers : PollStart(w) \/ SettleHeld(w) \/ Operate(w)
                              \/ Continue(w) \/ Fail(w) \/ Crash(w)
  BY <1>1, <1>4, OfferStep, ReadSteps, WorkerSteps DEF SettleHeld, Operate, Continue
<1>5. CASE \E c \in Cleaners : CleanStep(c) \/ CleanFail(c) \/ CleanCrash(c)
  BY <1>1, <1>5, ReadSteps, CleanerSteps DEF CleanStep
<1> QED BY <1>3, <1>4, <1>5 DEF Next

(* The hypothesis is what the code needs: PurgeDeadLetters deletes the data *)
(* of what it listed, also of a message RequeueDeadLetter has meanwhile put *)
(* back.                                                                    *)
THEOREM QueueInvariant ==
    ASSUME "RequeueDeadLetter" \notin Calls \/ "PurgeDeadLetters" \notin Calls
    PROVE  Spec => []QueueInv
<1>1. Init => QueueInv
  BY QueueInit
<1>2. QueueInv /\ [Next]_vars => QueueInv'
  BY QueueStep
<1> QED BY <1>1, <1>2, PTL DEF Spec

(* NoMessageLost holds in every reachable state: a message that is still    *)
(* owed keeps its data and a place in the queue.                            *)
THEOREM MessagesAreSafe ==
    ASSUME "RequeueDeadLetter" \notin Calls \/ "PurgeDeadLetters" \notin Calls
    PROVE  Spec => []NoMessageLost
<1>1. QueueInv => NoMessageLost
  BY DEF QueueInv
<1> QED BY <1>1, QueueInvariant, PTL

=============================================================================
