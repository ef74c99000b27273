------------------------- MODULE QueueDestroyProofs -------------------------
(***************************************************************************)
(* Proofs about QueueDestroy, for every set of messages, workers and queue *)
(* objects and every value of the other constants:                         *)
(*                                                                         *)
(*   DestroyIsComplete  DestroySpec => DestroyLeavesNothing                *)
(*   DestroyInvariant   DestroySpec => []DestroyInv, when the application  *)
(*                      does not use both RequeueDeadLetter and            *)
(*                      PurgeDeadLetters                                   *)
(*                                                                         *)
(* The steps of consumers and cleanup goroutines are steps of              *)
(* ReliableQueue, whose invariants they keep by the lemmas of its proofs;  *)
(* what is new is proved of LifeInv.                                       *)
(***************************************************************************)
EXTENDS QueueDestroy, ReliableQueueProofs

LifeInv == TypeOK /\ DestroyTypeOK /\ StoppedFirst /\ ListingIsComplete

-----------------------------------------------------------------------------
(* The steps inherited from ReliableQueue                                  *)

(* They are steps of its Next. *)
LEMMA InheritedSteps ==
    /\ \A w \in Workers : Use(w) => Next
    /\ \A c \in Cleaners : Clean(c) => Next
    /\ Tick => Next
BY DEF Use, Clean, Next

(* A step of a worker moves no other process. *)
LEMMA UseMovesOne ==
    ASSUME TypeOK, NEW w \in Workers, Use(w)
    PROVE  \A q \in Procs \ {w} : pc'[q] = pc[q]
<1>1. CallersTypeOK /\ w \in Procs
  BY DEF TypeOK, Procs
<1>2. \/ UNCHANGED pc
      \/ \E l, k, r : Goto(w, l, k, r)
  <2>1. CASE PollStart(w)
    BY <2>1 DEF PollStart
  <2>2. CASE SettleHeld(w)
    BY <2>2 DEF SettleHeld, Ack, NackCheck, local
  <2>3. CASE Operate(w)
    BY <2>3 DEF Operate, Offer, Requeue, PurgeList, Clear, local
  <2>4. CASE Continue(w)
    BY <2>4 DEF Continue, PollPop, PollEmpty, PollFetch, PollMove, NackFetch, NackExec,
                RequeueFetch, RequeueReset, PurgeExec, Return
  <2>5. CASE Fail(w) \/ Crash(w)
    BY <2>5 DEF Fail, Crash, Return
  <2> QED BY <2>1, <2>2, <2>3, <2>4, <2>5 DEF Use
<1> QED BY <1>1, <1>2, GotoEffect

(* Nor does a step of a cleanup goroutine. *)
LEMMA CleanMovesOne ==
    ASSUME TypeOK, NEW c \in Cleaners, Clean(c)
    PROVE  \A q \in Procs \ {c} : pc'[q] = pc[q]
<1>1. CallersTypeOK /\ c \in Procs
  BY DEF TypeOK, Procs
<1>2. \/ UNCHANGED pc
      \/ \E l, k, r : Goto(c, l, k, r)
  <2>1. CASE CleanStep(c)
    BY <2>1 DEF CleanStep, CleanList, CleanExec, CleanDrop, CleanMove, CleanFetch
  <2>2. CASE CleanFail(c) \/ CleanCrash(c)
    BY <2>2 DEF CleanFail, CleanCrash, Return
  <2> QED BY <2>1, <2>2 DEF Clean
<1> QED BY <1>1, <1>2, GotoEffect

(* The keys that exist depend on the structures of Redis alone, not on time. *)
LEMMA ExistingUnchanged ==
    ASSUME UNCHANGED <<pending, deadLetter, processing, delayed, stored, stats>>
    PROVE  Existing' = Existing
BY DEF Existing, Members

LEMMA ExistingUnchangedRedis == UNCHANGED redis => Existing' = Existing
BY ExistingUnchanged DEF redis, lists, inFlight, waiting, data

-----------------------------------------------------------------------------
(* The life of the objects                                                 *)

LEMMA LifeInit == DestroyInit => LifeInv
<1> SUFFICES ASSUME DestroyInit PROVE LifeInv
  OBVIOUS
<1>1. TypeOK
  BY TypeInit DEF DestroyInit
<1> QED BY <1>1 DEF DestroyInit, LifeInv, DestroyTypeOK, StoppedFirst, ListingIsComplete

(* DEL keeps the types of the queue. *)
LEMMA DelType ==
    ASSUME TypeOK, NEW w \in Workers, DestroyDel(w)
    PROVE  TypeOK'
<1> DEFINE gone == keys[w] \cup UNION {Members(k) : k \in keys[w] \cap Collections}
<1>1. RedisTypeOK /\ CallersTypeOK /\ holds \in [Workers -> SUBSET Messages]
      /\ fate \in [Messages -> Fates]
  BY DEF TypeOK
<1>2. RedisTypeOK'
  <2>1. /\ stored' = stored \ keys[w]
        /\ retryCount' = [m \in Messages |-> IF m \in keys[w] THEN 0 ELSE retryCount[m]]
        /\ visibleIn' = [m \in Messages |-> IF "delayed" \in keys[w] THEN 0 ELSE visibleIn[m]]
        /\ expiresIn' = [m \in Messages |-> IF "processing" \in keys[w] THEN 0 ELSE expiresIn[m]]
        /\ stats' = [f \in Counters |-> IF "stats" \in keys[w] THEN 0 ELSE stats[f]]
    BY DEF DestroyDel
  <2>2. /\ pending' = <<>> \/ pending' = pending
        /\ deadLetter' = <<>> \/ deadLetter' = deadLetter
        /\ delayed' = <<>> \/ delayed' = delayed
        /\ processing' = {} \/ processing' = processing
    BY DEF DestroyDel
  <2>3. /\ pending' \in Seq(Messages) /\ deadLetter' \in Seq(Messages)
        /\ delayed' \in Seq(Messages) /\ processing' \subseteq Messages
    <3>1. <<>> \in Seq(Messages)
      OBVIOUS
    <3> QED BY <1>1, <2>2, <3>1 DEF RedisTypeOK
  <2> QED BY <1>1, <2>1, <2>3 DEF RedisTypeOK
<1>3. CallersTypeOK' /\ holds' = holds
  BY <1>1, LocalUnchangedType DEF DestroyDel
<1>4. fate' \in [Messages -> Fates]
  <2>1. Settle(gone, "discarded") /\ "discarded" \in Fates
    BY DEF DestroyDel, Fates
  <2> HIDE DEF gone
  <2> QED BY <1>1, <2>1, SettleType
<1> QED BY <1>1, <1>2, <1>3, <1>4 DEF TypeOK

(* So does the end and new start of a process. *)
LEMMA RestartType ==
    ASSUME TypeOK, NEW ws, NEW c \in Cleaners, Restart(ws, c)
    PROVE  /\ TypeOK'
           /\ pc'[c] = "idle" /\ \A q \in Procs \ {c} : pc'[q] = pc[q]
<1>1. /\ RedisTypeOK /\ CallersTypeOK /\ holds \in [Workers -> SUBSET Messages]
      /\ fate \in [Messages -> Fates] /\ c \in Procs
  BY DEF TypeOK, Procs
<1>2. UNCHANGED redis /\ Return(c) /\ due' = due /\ fate' = fate
      /\ listed' = [listed EXCEPT ![c] = {}]
      /\ holds' = [w \in Workers |-> IF w \in ws THEN {} ELSE holds[w]]
  BY DEF Restart
<1>3. RedisTypeOK'
  BY <1>1, <1>2, RedisUnchangedType
<1>4. CallersTypeOK'
  BY <1>1, <1>2, ReturnType DEF CallersTypeOK
<1>5. pc'[c] = "idle" /\ \A q \in Procs \ {c} : pc'[q] = pc[q]
  BY <1>1, <1>2, GotoEffect DEF Return
<1> QED BY <1>1, <1>2, <1>3, <1>4, <1>5 DEF TypeOK

(* What a process outside Destroy changes outdates the listings under way.           *)
LEMMA OutdateStep ==
    ASSUME LifeInv, NEW p \in Procs \ done, Outdate(p), UNCHANGED keys,
           UNCHANGED <<stage, object, closed, done>>, p \in Workers => stage[p] # "listed"
    PROVE  DestroyTypeOK' /\ ListingIsComplete'
<1>1. DestroyTypeOK /\ StoppedFirst /\ ListingIsComplete
  BY DEF LifeInv
<1>2. stale \subseteq stale' /\ stale' \subseteq Workers
  BY <1>1 DEF Outdate, DestroyTypeOK
<1>3. DestroyTypeOK'
  BY <1>1, <1>2 DEF DestroyTypeOK
<1>4. ASSUME NEW v \in Workers, stage[v] = "listed", v \notin stale'
      PROVE  Existing' \subseteq keys[v]
  <2>1. CASE redis' = redis
    BY <1>1, <1>2, <1>4, <2>1, ExistingUnchangedRedis DEF ListingIsComplete
  <2>2. CASE redis' # redis
    <3>1. v # p /\ object[v] \in done
      BY <1>1, <1>4 DEF StoppedFirst
    <3>2. object[v] # p
      BY <3>1
    <3> QED BY <1>4, <2>2, <3>1, <3>2 DEF Outdate
  <2> QED BY <2>1, <2>2
<1> QED BY <1>3, <1>4 DEF ListingIsComplete

(* A worker or a goroutine that goes on does not disturb a Destroy. *)
LEMMA InheritedLife ==
    ASSUME LifeInv, TypeOK', NEW p \in Procs \ done, Outdate(p), UNCHANGED life,
           \A q \in Procs \ {p} : pc'[q] = pc[q],
           p \in Workers => stage[p] = "none"
    PROVE  LifeInv'
<1>1. DestroyTypeOK' /\ ListingIsComplete'
  BY OutdateStep DEF life
<1>2. StoppedFirst'
  BY QueueAssumption DEF LifeInv, StoppedFirst, DestroyTypeOK, life, Procs
<1> QED BY <1>1, <1>2 DEF LifeInv

(* A process that dies takes the Destroys of its object with it.            *)
LEMMA RestartLife ==
    ASSUME LifeInv, NEW ws, NEW c \in Cleaners, Restart(ws, c), Users(c) \subseteq ws
    PROVE  LifeInv'
<1>1. TypeOK /\ DestroyTypeOK /\ StoppedFirst /\ ListingIsComplete
  BY DEF LifeInv
<1>2. /\ TypeOK' /\ pc'[c] = "idle" /\ \A q \in Procs \ {c} : pc'[q] = pc[q]
  BY <1>1, RestartType
<1>3. /\ closed' = closed \ {c} /\ done' = done \ {c} /\ stale' = stale
      /\ stage' = [w \in Workers |-> IF w \in ws THEN "none" ELSE stage[w]]
      /\ object' = [w \in Workers |-> IF w \in ws THEN None ELSE object[w]]
      /\ keys' = [w \in Workers |-> IF w \in ws THEN {} ELSE keys[w]]
  BY DEF Restart
<1>4. DestroyTypeOK'
  BY <1>1, <1>3 DEF DestroyTypeOK
<1>5. StoppedFirst'
  <2>1. \A v \in Workers : stage'[v] # "none" => v \notin ws /\ object[v] # c
    BY <1>3 DEF Users
  <2> QED BY <1>1, <1>2, <1>3, <2>1 DEF StoppedFirst, DestroyTypeOK, Procs
<1>6. ListingIsComplete'
  <2>1. Existing' = Existing
    BY ExistingUnchangedRedis DEF Restart
  <2> QED BY <1>1, <1>3, <2>1 DEF ListingIsComplete
<1> QED BY <1>2, <1>4, <1>5, <1>6 DEF LifeInv

(* LifeInv is inductive. *)
LEMMA LifeStep == LifeInv /\ [DestroyNext]_dvars => LifeInv'
<1> SUFFICES ASSUME LifeInv, [DestroyNext]_dvars PROVE LifeInv'
  OBVIOUS
<1>i. TypeOK /\ DestroyTypeOK /\ StoppedFirst /\ ListingIsComplete
  BY DEF LifeInv
<1>p. /\ Workers \subseteq Procs /\ Cleaners \subseteq Procs
      /\ \A w \in Workers : w \notin Cleaners /\ w \notin done
  BY <1>i, QueueAssumption DEF Procs, DestroyTypeOK
<1>1. ASSUME NEW w \in Workers, Use(w) PROVE LifeInv'
  <2>1. TypeOK'
    BY <1>i, <1>1, InheritedSteps, TypeStep
  <2>2. Outdate(w) /\ UNCHANGED life /\ stage[w] = "none"
    BY <1>1 DEF Use
  <2> QED BY <1>i, <1>p, <1>1, <2>1, <2>2, UseMovesOne, InheritedLife
<1>2. ASSUME NEW c \in Cleaners, Clean(c) PROVE LifeInv'
  <2>1. TypeOK'
    BY <1>i, <1>2, InheritedSteps, TypeStep
  <2>2. Outdate(c) /\ UNCHANGED life /\ c \notin done
    BY <1>2 DEF Clean
  <2> QED BY <1>i, <1>p, <1>2, <2>1, <2>2, CleanMovesOne, InheritedLife
<1>3. ASSUME Tick, UNCHANGED <<life, stale>> PROVE LifeInv'
  <2>1. TypeOK'
    BY <1>i, <1>3, InheritedSteps, TypeStep
  <2>2. pc' = pc /\ UNCHANGED <<pending, deadLetter, processing, delayed, stored, stats>>
    BY <1>3 DEF Tick, lists, data
  <2>3. Existing' = Existing
    BY <2>2, ExistingUnchanged
  <2> QED BY <1>i, <1>3, <2>1, <2>2, <2>3
          DEF LifeInv, DestroyTypeOK, StoppedFirst, ListingIsComplete, life
<1>v. UNCHANGED vars => Existing' = Existing /\ pc' = pc
  BY ExistingUnchangedRedis DEF vars, local
<1>5. ASSUME NEW w \in Workers, NEW c \in Cleaners, DestroyStart(w, c) PROVE LifeInv'
  <2>1. TypeOK' /\ Existing' = Existing /\ pc' = pc
    BY <1>i, <1>5, <1>v, TypeStep DEF DestroyStart
  <2> QED BY <1>i, <1>5, <2>1
          DEF DestroyStart, LifeInv, DestroyTypeOK, StoppedFirst, ListingIsComplete
<1>6. ASSUME NEW c \in Cleaners, CleanStop(c) \/ Reopen(c) PROVE LifeInv'
  <2>1. TypeOK' /\ Existing' = Existing /\ pc' = pc
    BY <1>i, <1>6, <1>v, TypeStep DEF CleanStop, Reopen
  <2>2. Reopen(c) => \A w \in Workers : object[w] # c
    BY DEF Reopen, Users
  <2> QED BY <1>i, <1>6, <2>1, <2>2
          DEF CleanStop, Reopen, LifeInv, DestroyTypeOK, StoppedFirst, ListingIsComplete
<1>7. ASSUME NEW w \in Workers, DestroyKeys(w) PROVE LifeInv'
  <2>1. TypeOK' /\ Existing' = Existing /\ pc' = pc
    BY <1>i, <1>7, <1>v, TypeStep DEF DestroyKeys
  <2>2. Existing \subseteq Messages \cup Collections
    BY <1>i DEF Existing, TypeOK, RedisTypeOK
  <2>3. /\ stage' = [stage EXCEPT ![w] = "listed"] /\ keys' = [keys EXCEPT ![w] = Existing]
        /\ stale' = stale \ {w} /\ UNCHANGED <<closed, done, object>>
        /\ stage[w] = "stopping" /\ object[w] \in done
    BY <1>7 DEF DestroyKeys
  <2> QED BY <1>i, <2>1, <2>2, <2>3
          DEF LifeInv, DestroyTypeOK, StoppedFirst, ListingIsComplete
<1>r. ASSUME NEW w \in Workers, DestroyReturn(w), UNCHANGED <<closed, done>>
      PROVE  /\ stage'[w] = "none"
             /\ \A v \in Workers \ {w} : /\ stage'[v] = stage[v] /\ object'[v] = object[v]
                                         /\ keys'[v] = keys[v]
             /\ pc' = pc => StoppedFirst'
             /\ stale' \subseteq Workers => DestroyTypeOK'
  BY <1>i, <1>r DEF DestroyReturn, StoppedFirst, DestroyTypeOK
<1>8. ASSUME NEW w \in Workers, DestroyDel(w) PROVE LifeInv'
  <2>1. TypeOK'
    BY <1>i, <1>8, DelType
  <2>2. DestroyReturn(w) /\ UNCHANGED <<closed, done>> /\ pc' = pc /\ Outdate(w)
    BY <1>8 DEF DestroyDel, local
  <2>3. stale \subseteq stale' /\ stale' \subseteq Workers
    BY <1>i, <2>2 DEF Outdate, DestroyTypeOK
  <2>4. ASSUME NEW v \in Workers, stage'[v] = "listed", v \notin stale'
        PROVE  Existing' \subseteq keys'[v]
    <3>1. v # w /\ stage[v] = "listed" /\ keys'[v] = keys[v] /\ object[v] \in done
      BY <1>i, <1>r, <2>2, <2>4 DEF StoppedFirst
    <3>2. object[v] # w
      BY <1>p, <3>1
    <3>3. redis' = redis
      BY <2>2, <2>4, <3>1, <3>2 DEF Outdate
    <3> QED BY <1>i, <2>3, <2>4, <3>1, <3>3, ExistingUnchangedRedis DEF ListingIsComplete
  <2> QED BY <1>r, <2>1, <2>2, <2>3, <2>4 DEF LifeInv, ListingIsComplete
<1>9. ASSUME NEW w \in Workers, DestroyFail(w) PROVE LifeInv'
  <2>1. TypeOK' /\ Existing' = Existing /\ pc' = pc
    BY <1>i, <1>9, <1>v, TypeStep DEF DestroyFail
  <2>2. DestroyReturn(w) /\ UNCHANGED <<closed, done, stale>>
    BY <1>9 DEF DestroyFail
  <2>3. ListingIsComplete'
    BY <1>i, <1>r, <2>1, <2>2 DEF ListingIsComplete
  <2> QED BY <1>i, <1>r, <2>1, <2>2, <2>3 DEF LifeInv, DestroyTypeOK
<1>10. ASSUME NEW w \in Workers, NEW c \in Cleaners, DestroyPanic(w, c) PROVE LifeInv'
  BY <1>10, RestartLife DEF DestroyPanic
<1>11. ASSUME NEW w \in Workers, DestroyCrash(w) PROVE LifeInv'
  <2>1. object[w] \in Cleaners /\ Restart(Users(object[w]), object[w])
    BY <1>i, <1>11 DEF DestroyCrash, StoppedFirst, DestroyTypeOK
  <2> QED BY <2>1, RestartLife
<1>12. ASSUME UNCHANGED dvars PROVE LifeInv'
  <2>1. TypeOK' /\ Existing' = Existing /\ pc' = pc
    BY <1>i, <1>12, <1>v, TypeStep DEF dvars
  <2> QED BY <1>i, <1>12, <2>1
          DEF dvars, life, LifeInv, DestroyTypeOK, StoppedFirst, ListingIsComplete
<1> QED BY <1>1, <1>2, <1>3, <1>5, <1>6, <1>7, <1>8, <1>9, <1>10, <1>11, <1>12 DEF DestroyNext

(* When a Destroy that nobody outdated deletes what it has listed, no key   *)
(* of the queue is left: that its own goroutine has returned is what makes  *)
(* the listing complete, wherever the goroutine was when it was stopped.    *)
THEOREM DestroyIsComplete == DestroySpec => DestroyLeavesNothing
<1> DEFINE Complete == \A w \in Workers : DestroyDel(w) /\ w \notin stale => Existing' = {}
<1>1. LifeInv /\ [DestroyNext]_dvars => [Complete]_dvars
  <2> SUFFICES ASSUME LifeInv, NEW w \in Workers, DestroyDel(w), w \notin stale
               PROVE  Existing' = {}
    OBVIOUS
  <2>1. Existing \subseteq keys[w]
    BY DEF LifeInv, ListingIsComplete, DestroyDel
  <2>2. stored' = {}
    BY <2>1 DEF DestroyDel, Existing
  <2>3. ASSUME NEW k \in Collections PROVE Members(k)' = {}
    <3>1. CASE Members(k) = {} /\ k \notin keys[w]
      BY <2>3, <3>1 DEF Collections, Members, DestroyDel
    <3>2. CASE k \in keys[w]
      BY <2>3, <3>2 DEF Collections, Members, DestroyDel, ToSet
    <3> QED BY <2>1, <2>3, <3>1, <3>2 DEF Existing
  <2> QED BY <2>2, <2>3 DEF Existing
<1>2. DestroySpec => []LifeInv
  BY LifeInit, LifeStep, PTL DEF DestroySpec
<1>3. DestroySpec => [][Complete]_dvars
  <2> HIDE DEF Complete
  <2> QED BY <1>1, <1>2, PTL DEF DestroySpec
<1> QED BY <1>3 DEF DestroyLeavesNothing

-----------------------------------------------------------------------------
(* No message is lost                                                      *)

(* Destroy discards whatever it takes an entry or the data of.              *)
LEMMA DelKeeps ==
    ASSUME QueueInv, StoppedFirst, NEW w \in Workers, DestroyDel(w)
    PROVE  QueueInv'
<1> DEFINE gone == keys[w] \cup UNION {Members(k) : k \in keys[w] \cap Collections}
<1> USE KnownMessages
<1>1. TypeOK'
  BY DelType DEF QueueInv
<1>2. /\ pc' = pc /\ key' = key /\ listed' = listed
      /\ Settle(gone, "discarded") /\ pc[w] = "idle"
      /\ stored' = stored \ keys[w]
  BY DEF DestroyDel, local, StoppedFirst
<1>3. \A m \in Messages : /\ fate'[m] = "open" => fate[m] = "open" /\ m \notin gone
                          /\ fate'[m] = "new" => fate[m] = "new"
  <2>1. "discarded" \in Fates \ {"open", "new"}
    BY DEF Fates
  <2> HIDE DEF gone
  <2> QED BY <1>2, <2>1, SettleEffect
<1>4. /\ "pending" \in keys[w] => ToSet(pending) \subseteq gone
      /\ "processing" \in keys[w] => processing \subseteq gone
      /\ "delayed" \in keys[w] => ToSet(delayed) \subseteq gone
      /\ "dead_letter" \in keys[w] => ToSet(deadLetter) \subseteq gone
  <2>1. /\ Members("pending") = ToSet(pending) /\ Members("processing") = processing
        /\ Members("delayed") = ToSet(delayed) /\ Members("dead_letter") = ToSet(deadLetter)
    BY DEF Members
  <2>2. \A k \in keys[w] \cap Collections : Members(k) \subseteq gone
    OBVIOUS
  <2> QED BY <2>1, <2>2 DEF Collections
<1>5. /\ pending' = IF "pending" \in keys[w] THEN <<>> ELSE pending
      /\ processing' = IF "processing" \in keys[w] THEN {} ELSE processing
      /\ delayed' = IF "delayed" \in keys[w] THEN <<>> ELSE delayed
      /\ deadLetter' = IF "dead_letter" \in keys[w] THEN <<>> ELSE deadLetter
  BY DEF DestroyDel
<1>6. ToSet(<<>>) = {}
  BY DEF ToSet
<1>7. /\ \A m \in Messages : Queued(m)' => Queued(m)
      /\ \A m \in Messages : Queued(m) /\ m \notin gone => Queued(m)'
      /\ \A m \in Messages : m \in ToSet(deadLetter) /\ m \notin gone => m \in ToSet(deadLetter')
  <2> HIDE DEF gone
  <2> QED BY <1>4, <1>5, <1>6 DEF Queued
<1>8. \A m \in Messages : m \in stored /\ m \notin gone => m \in stored'
  BY <1>2
<1> HIDE DEF gone
<1> QED BY <1>1, <1>2, <1>3, <1>7, <1>8, QueueFrame DEF Polled, InHandOf, KeyPCs

(* The end of a process forgets what its goroutine had listed. *)
LEMMA RestartKeeps ==
    ASSUME QueueInv, NEW ws, NEW c \in Cleaners, Restart(ws, c)
    PROVE  QueueInv'
<1> USE KnownMessages
<1>1. /\ TypeOK' /\ UNCHANGED <<redis, fate>> /\ Goto(c, "idle", None, 0)
      /\ listed' = [listed EXCEPT ![c] = {}]
  BY RestartType DEF Restart, Return, QueueInv
<1>2. /\ listed'[c] = {}
      /\ \A q \in Procs \ {c} : listed'[q] = listed[q]
  BY <1>1 DEF CallersTypeOK
<1> QED BY <1>1, <1>2, GotoEffect, ReadFrame
        DEF redis, lists, inFlight, waiting, data, Polled, InHandOf, KeyPCs

(* DestroyInv is inductive, so that it holds in every reachable state: with *)
(* objects that are destroyed, created again and destroyed twice, a message *)
(* that is still owed keeps its data and a place in the queue, and the      *)
(* listing of a Destroy nobody outdated is complete.                        *)
THEOREM DestroyInvariant ==
    ASSUME "RequeueDeadLetter" \notin Calls \/ "PurgeDeadLetters" \notin Calls
    PROVE  DestroySpec => []DestroyInv
<1>1. DestroyInit => DestroyInv
  BY LifeInit, QueueInit DEF DestroyInit, DestroyInv, LifeInv
<1>2. DestroyInv /\ [DestroyNext]_dvars => DestroyInv'
  <2> SUFFICES ASSUME DestroyInv, [DestroyNext]_dvars PROVE DestroyInv'
    OBVIOUS
  <2>1. QueueInv /\ StoppedFirst /\ DestroyTypeOK /\ LifeInv /\ LifeInv'
    BY LifeStep DEF DestroyInv, LifeInv, QueueInv
  <2>2. [Next]_vars => QueueInv'
    BY <2>1, QueueStep
  <2>3. \/ [Next]_vars
        \/ \E w \in Workers : DestroyDel(w)
        \/ \E ws : \E c \in Cleaners : Restart(ws, c)
    <3>1. ASSUME NEW w \in Workers, DestroyCrash(w)
          PROVE  \E ws : \E c \in Cleaners : Restart(ws, c)
      BY <2>1, <3>1 DEF DestroyCrash, StoppedFirst, DestroyTypeOK
    <3>2. ASSUME NEW w \in Workers, NEW c \in Cleaners, DestroyPanic(w, c)
          PROVE  \E ws : \E d \in Cleaners : Restart(ws, d)
      BY <3>2 DEF DestroyPanic
    <3> QED BY <3>1, <3>2, InheritedSteps
            DEF DestroyNext, DestroyStart, DestroyKeys, DestroyFail, CleanStop, Reopen, dvars
  <2>4. QueueInv'
    BY <2>1, <2>2, <2>3, DelKeeps, RestartKeeps
  <2> QED BY <2>1, <2>4 DEF DestroyInv, LifeInv
<1> QED BY <1>1, <1>2, PTL DEF DestroySpec

=============================================================================
