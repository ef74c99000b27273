-------------------------- MODULE RedisLockProofs --------------------------
(***************************************************************************)
(* Proofs about RedisLock: type correctness, and that two handles never    *)
(* rely on the lock at the same time when no re-entrant handle outlives    *)
(* its lease.                                                              *)
(***************************************************************************)
EXTENDS RedisLock, TLAPS

-----------------------------------------------------------------------------
(* Types                                                                    *)

LEMMA TaskSets == \A h \in Handles : TasksOf(h) \subseteq Tasks
BY DEF TasksOf, Tasks

(* The initial state is well typed. *)
LEMMA TypeInit == Init => TypeOK
BY DEF Init, TypeOK, PCs

(* What the shared helpers do to the types of what they write. *)
LEMMA GotoType ==
    ASSUME pc \in [Handles -> PCs], NEW h \in Handles, NEW l \in PCs, Goto(h, l)
    PROVE  /\ pc' \in [Handles -> PCs]
           /\ pc'[h] = l /\ \A g \in Handles \ {h} : pc'[g] = pc[g]
BY DEF Goto

KeyType ==
    /\ owner \in Handles \cup {None, Gone}
    /\ format \in {"date", "number"} /\ expire \in Int /\ hold \in Nat /\ ttl \in Nat

LEMMA WriteType ==
    ASSUME NEW o \in Handles \cup {None, Gone}, NEW f \in {"date", "number"},
           NEW e \in Int, NEW n \in Nat, Write(o, f, e, n)
    PROVE  KeyType'
BY LockAssumption DEF Write, KeyType

LEMMA RemoveType == Remove => KeyType'
BY DEF Remove, KeyType

LEMMA AcquiredType ==
    ASSUME TypeOK, NEW h \in Handles, Acquired(h)
    PROVE  /\ holdCount' \in [Handles -> Nat]
           /\ lease' \in [Handles -> Int]
           /\ pc' \in [Handles -> PCs]
           /\ task' \in [Tasks -> {"none", "spawned", "select", "ticked", "renewing"}]
<1>1. lag[h] \in Nat
  BY DEF TypeOK
<1>2. Lease - lag[h] \in Int
  BY <1>1, LockAssumption
<1>3. lease' \in [Handles -> Int] /\ holdCount' \in [Handles -> Nat]
  BY <1>2 DEF Acquired, TypeOK
<1>4. pc' \in [Handles -> PCs]
  BY DEF Acquired, Goto, TypeOK, PCs
<1>5. task' \in [Tasks -> {"none", "spawned", "select", "ticked", "renewing"}]
  BY TaskSets DEF Acquired, TypeOK
<1> QED BY <1>3, <1>4, <1>5

(* The calls of a handle. *)
LEMMA CallTypeStep ==
    ASSUME TypeOK, NEW h \in Handles,
           \/ \E w \in {0, WaitTimeout} : LockStart(h, w)
           \/ UnlockStart(h) \/ Continue(h) \/ Fail(h)
    PROVE  TypeOK'
<1>1. ASSUME NEW w \in {0, WaitTimeout}, LockStart(h, w) PROVE TypeOK'
  <2>1. w \in Nat
    BY LockAssumption
  <2>2. pc' \in [Handles -> PCs]
    BY <1>1 DEF LockStart, Goto, TypeOK, PCs
  <2> QED BY <1>1, <2>1, <2>2 DEF LockStart, TypeOK, key, channels
<1>2. ASSUME UnlockStart(h) PROVE TypeOK'
  <2>1. pc' \in [Handles -> PCs]
    BY <1>2 DEF UnlockStart, Goto, TypeOK, PCs
  <2>2. holdCount' \in [Handles -> Nat]
    BY <1>2 DEF UnlockStart, TypeOK
  <2> QED BY <1>2, <2>1, <2>2 DEF UnlockStart, TypeOK, key, channels
<1>3. ASSUME Check(h) PROVE TypeOK'
  <2>1. pc' \in [Handles -> PCs]
    BY <1>3 DEF Check, Goto, TypeOK, PCs
  <2>2. holdCount' \in [Handles -> Nat]
    BY <1>3 DEF Check, TypeOK
  <2> QED BY <1>3, <2>1, <2>2 DEF Check, TypeOK, key, channels
<1>4. ASSUME Try(h) PROVE TypeOK'
  <2>1. lag' \in [Handles \cup Tasks -> Nat]
    BY <1>4 DEF Try, TypeOK
  <2>2. /\ KeyType' /\ holdCount' \in [Handles -> Nat] /\ lease' \in [Handles -> Int]
        /\ pc' \in [Handles -> PCs]
        /\ task' \in [Tasks -> {"none", "spawned", "select", "ticked", "renewing"}]
    <3>1. CASE Write(h, "date", 0, 1) /\ Acquired(h)
      BY <3>1, AcquiredType, WriteType
    <3>2. CASE /\ UNCHANGED <<key, holdCount, lease, task>>
               /\ Goto(h, "idle") \/ Goto(h, "waiting")
      BY <3>2 DEF TypeOK, KeyType, key, Goto, PCs
    <3> QED BY <1>4, <3>1, <3>2 DEF Try
  <2>3. /\ broken' \subseteq Handles
        /\ wait' = wait /\ copy' = copy /\ UNCHANGED channels
    BY <1>4 DEF Try, TypeOK
  <2> QED BY <2>1, <2>2, <2>3 DEF TypeOK, KeyType, channels
<1>5. ASSUME Attempt(h) PROVE TypeOK'
  <2>1. pc' \in [Handles -> PCs]
    BY <1>5 DEF Attempt, Goto, TypeOK, PCs
  <2> QED BY <1>5, <2>1 DEF Attempt, TypeOK, key, channels
<1>6. ASSUME UpdateGet(h) PROVE TypeOK'
  <2>1. pc' \in [Handles -> PCs] /\ copy' \in [Handles -> Handles \cup {None, Gone}]
    BY <1>6 DEF UpdateGet, Goto, TypeOK, PCs
  <2> QED BY <1>6, <2>1 DEF UpdateGet, TypeOK, key, channels
<1>7. ASSUME UpdateSet(h) PROVE TypeOK'
  <2>1. KeyType'
    <3>1. Write(copy[h], "date", 0, holdCount[h])
      BY <1>7 DEF UpdateSet
    <3>2. copy[h] \in Handles \cup {None, Gone} /\ holdCount[h] \in Nat
      BY DEF TypeOK
    <3> QED BY <3>1, <3>2, WriteType
  <2>2. /\ pc' \in [Handles -> PCs] /\ copy' \in [Handles -> Handles \cup {None, Gone}]
        /\ lease' \in [Handles -> Int]
    BY <1>7, LockAssumption DEF UpdateSet, Goto, TypeOK, PCs
  <2> QED BY <1>7, <2>1, <2>2 DEF UpdateSet, TypeOK, KeyType, channels
<1>8. ASSUME Release(h) PROVE TypeOK'
  <2>1. pc' \in [Handles -> PCs]
    BY <1>8 DEF Release, Goto, TypeOK, PCs
  <2>2. KeyType' /\ holdCount' \in [Handles -> Nat] /\ lease' \in [Handles -> Int]
    BY <1>8, RemoveType DEF Release, TypeOK, KeyType, key
  <2> QED BY <1>8, <2>1, <2>2 DEF Release, TypeOK, KeyType, channels
<1>9. ASSUME StopWait(h) PROVE TypeOK'
  <2>1. pc' \in [Handles -> PCs]
    BY <1>9 DEF StopWait, Goto, TypeOK, PCs
  <2>2. /\ oldStop' \subseteq Tasks /\ oldDone' \subseteq Tasks
        /\ doneClosed' \subseteq Handles
    BY <1>9, TaskSets DEF StopWait, TypeOK
  <2> QED BY <1>9, <2>1, <2>2 DEF StopWait, TypeOK, key
<1>10. ASSUME Fail(h) PROVE TypeOK'
  <2>1. pc' \in [Handles -> PCs]
    BY <1>10 DEF Fail, Goto, TypeOK, PCs
  <2>2. KeyType'
    <3>1. copy[h] \in Handles \cup {None, Gone} /\ holdCount[h] \in Nat
      BY DEF TypeOK
    <3>2. CASE UNCHANGED key
      BY <3>2 DEF TypeOK, KeyType, key
    <3>3. CASE Write(h, "date", 0, 1) \/ Write(copy[h], "date", 0, holdCount[h])
      BY <3>1, <3>3, WriteType
    <3>4. CASE Remove
      BY <3>4, RemoveType
    <3> QED BY <1>10, <3>2, <3>3, <3>4 DEF Fail
  <2>3. /\ lease' \in [Handles -> Int] /\ lag' \in [Handles \cup Tasks -> Nat]
        /\ copy' \in [Handles -> Handles \cup {None, Gone}]
    BY <1>10 DEF Fail, TypeOK
  <2> QED BY <1>10, <2>1, <2>2, <2>3 DEF Fail, TypeOK, KeyType, channels
<1> QED BY <1>1, <1>2, <1>3, <1>4, <1>5, <1>6, <1>7, <1>8, <1>9, <1>10 DEF Continue

(* A process that starts again. *)
LEMMA RestartType == ASSUME TypeOK, NEW h \in Handles, Restart(h) PROVE TypeOK'
<1>1. pc' \in [Handles -> PCs]
  BY DEF Restart, Goto, TypeOK, PCs
<1>2. /\ owner' \in Handles \cup {None, Gone}
      /\ copy' \in [Handles -> Handles \cup {None, Gone}]
  BY DEF Restart, TypeOK
<1>3. /\ holdCount' \in [Handles -> Nat] /\ wait' \in [Handles -> Nat]
      /\ lease' \in [Handles -> Int]
  BY DEF Restart, TypeOK
<1>4. /\ lag' \in [Handles \cup Tasks -> Nat]
      /\ task' \in [Tasks -> {"none", "spawned", "select", "ticked", "renewing"}]
  BY DEF Restart, TypeOK
<1>5. /\ oldStop' \subseteq Tasks /\ oldDone' \subseteq Tasks
      /\ doneClosed' \subseteq Handles /\ broken' \subseteq Handles
  BY DEF Restart, TypeOK
<1> QED BY <1>1, <1>2, <1>3, <1>4, <1>5 DEF Restart, TypeOK

(* The renewal goroutines. *)
LEMMA TaskTypeStep ==
    ASSUME TypeOK, NEW h \in Handles, NEW k \in TasksOf(h), TaskStep(h, k) \/ RenewFail(h, k)
    PROVE  TypeOK'
<1>t. k \in Tasks
  BY TaskSets
<1>1. CASE TaskStart(h, k)
  BY <1>t, <1>1 DEF TaskStart, TypeOK, key, calls, channels
<1>2. CASE TaskStop(h, k)
  BY <1>t, <1>2 DEF TaskStop, TypeOK, key, calls
<1>3. CASE TaskTick(h, k)
  BY <1>t, <1>3 DEF TaskTick, TypeOK, key, calls
<1>4. CASE RenewStart(h, k)
  BY <1>t, <1>4 DEF RenewStart, TypeOK, key, calls, channels
<1>5. CASE Renew(h, k)
  <2>1. lag[k] \in Nat /\ Lease - lag[k] \in Int
    BY <1>t, LockAssumption DEF TypeOK
  <2>2. KeyType' /\ lease' \in [Handles -> Int]
    BY <1>5, <2>1, WriteType DEF Renew, TypeOK, KeyType, key
  <2>3. /\ task' \in [Tasks -> {"none", "spawned", "select", "ticked", "renewing"}]
        /\ lag' \in [Handles \cup Tasks -> Nat]
    BY <1>5 DEF Renew, TypeOK
  <2> QED BY <1>5, <2>2, <2>3 DEF Renew, TypeOK, KeyType, calls, channels
<1>6. CASE RenewFail(h, k)
  BY <1>t, <1>6 DEF RenewFail, TypeOK, key, calls, channels
<1>7. CASE TaskPanic(h, k)
  BY <1>7, RestartType DEF TaskPanic
<1> QED BY <1>1, <1>2, <1>3, <1>4, <1>5, <1>6, <1>7 DEF TaskStep

(* Time, expiry and forced removal. *)
LEMMA EnvironmentTypeStep == TypeOK /\ (ForceUnlock \/ Expire \/ Tick) => TypeOK'
<1> SUFFICES ASSUME TypeOK, ForceUnlock \/ Expire \/ Tick PROVE TypeOK'
  OBVIOUS
<1>1. CASE ForceUnlock
  <2>1. KeyType'
    BY <1>1, RemoveType DEF ForceUnlock
  <2>2. lease' \in [Handles -> Int]
    BY <1>1 DEF ForceUnlock, TypeOK
  <2> QED BY <1>1, <2>1, <2>2 DEF ForceUnlock, TypeOK, KeyType, calls, channels
<1>2. CASE Expire
  <2>1. KeyType'
    BY <1>2, RemoveType DEF Expire
  <2> QED BY <1>2, <2>1 DEF Expire, TypeOK, KeyType, calls, channels
<1>3. CASE Tick
  <2>1. \A n \in Nat : Decrement(n) \in Nat
    BY DEF Decrement
  <2>2. \A n \in Int : Decrement(n) \in Int
    BY DEF Decrement
  <2>3. ttl' \in Nat /\ expire' \in Int
    BY <1>3, <2>1 DEF Tick, TypeOK
  <2>4. /\ lease' \in [Handles -> Int] /\ wait' \in [Handles -> Nat]
    BY <1>3, <2>1, <2>2 DEF Tick, TypeOK
  <2>5. lag' \in [Handles \cup Tasks -> Nat]
    BY <1>3 DEF Tick, TypeOK
  <2> QED BY <1>3, <2>3, <2>4, <2>5 DEF Tick, TypeOK, channels
<1> QED BY <1>1, <1>2, <1>3

LEMMA TypeStep == TypeOK /\ [Next]_vars => TypeOK'
<1> SUFFICES ASSUME TypeOK, [Next]_vars PROVE TypeOK'
  OBVIOUS
<1>1. ASSUME NEW h \in Handles,
             \/ \E w \in {0, WaitTimeout} : LockStart(h, w)
             \/ UnlockStart(h) \/ Continue(h) \/ Fail(h)
      PROVE  TypeOK'
  BY <1>1, CallTypeStep
<1>2. ASSUME NEW h \in Handles, Crash(h) PROVE TypeOK'
  BY <1>2, RestartType DEF Crash
<1>3. ASSUME NEW h \in Handles, NEW k \in TasksOf(h), TaskStep(h, k) \/ RenewFail(h, k)
      PROVE  TypeOK'
  BY <1>3, TaskTypeStep
<1>4. CASE ForceUnlock \/ Expire \/ Tick
  BY <1>4, EnvironmentTypeStep
<1>5. CASE UNCHANGED vars
  BY <1>5 DEF vars, key, calls, channels, TypeOK
<1> QED BY <1>1, <1>2, <1>3, <1>4, <1>5 DEF Next

(* Every reachable state is well typed: lock.go keeps the stored LockInfo,  *)
(* the handles and the channels of their renewal goroutines in shape.       *)
THEOREM LockTypeCorrect == Spec => []TypeOK
<1>1. Init => TypeOK
  BY TypeInit
<1>2. TypeOK /\ [Next]_vars => TypeOK'
  BY TypeStep
<1> QED BY <1>1, <1>2, PTL DEF Spec

-----------------------------------------------------------------------------
(* Leases                                                                   *)

(* What holds of the leases when the lock is nobody's, or h's.              *)
LEMMA Backed ==
    ASSUME LockInv
    PROVE  /\ \A h \in Handles : lease[h] \in Int /\ holdCount[h] \in Nat
           /\ \A h \in Handles : owner # h => lease[h] <= 0
           /\ \A h \in Handles \ Unreliable : owner # h => holdCount[h] = 0
           /\ \A a \in Handles \cup Tasks : lag[a] \in Nat /\ lag[a] <= MaxLag
           /\ Lease \in Nat /\ ttl \in Nat /\ expire \in Int
BY LockAssumption
DEF LockInv, TypeOK, LeaseIsBacked, ReliableHolds, LagBounded

(* LockInv rules out two leases at once. *)
LEMMA LockInvImpliesMutex == LockInv => LeaseMutex
BY DEF LockInv, LeaseIsBacked, LeaseMutex

LEMMA LockInit == Init => LockInv
<1> SUFFICES ASSUME Init PROVE LockInv
  OBVIOUS
<1>1. TypeOK
  BY TypeInit
<1>2. LeaseIsBacked /\ ReliableHolds /\ UpdatesOwn
  BY LockAssumption DEF Init, LeaseIsBacked, ReliableHolds, UpdatesOwn
<1>3. LagBounded
  BY LockAssumption DEF Init, LagBounded
<1> QED BY <1>1, <1>2, <1>3 DEF LockInv

(* A step that changes neither the key nor a lease, and no hold of a        *)
(* reliable handle from zero.                                               *)
LEMMA QuietStep ==
    ASSUME LockInv, TypeOK', UNCHANGED <<key, lease>>,
           \A h \in Handles \ Unreliable : holdCount'[h] > 0 => owner = h,
           UpdatesOwn', LagBounded'
    PROVE  LockInv'
<1>1. LeaseIsBacked'
  BY DEF LockInv, LeaseIsBacked, key
<1>2. ReliableHolds'
  BY DEF LockInv, ReliableHolds, key
<1> QED BY <1>1, <1>2 DEF LockInv

(* A step after which h has the lock, with n seconds of lease.              *)
LEMMA OwnerStep ==
    ASSUME LockInv, TypeOK', NEW h \in Handles, NEW n \in Int, 0 < n, n <= Lease,
           \A g \in Handles \ {h} : lease[g] <= 0,
           \A g \in Handles \ {h} : g \notin Unreliable => holdCount[g] = 0,
           \A g \in Handles \ {h} : holdCount'[g] = holdCount[g],
           lease' = [lease EXCEPT ![h] = n], owner' = h, ttl' = Lease,
           format' = "number" => expire' = n,
           UpdatesOwn', LagBounded'
    PROVE  LockInv'
<1>1. \A g \in Handles : lease'[g] = IF g = h THEN n ELSE lease[g]
  BY DEF LockInv, TypeOK
<1>a. \A g \in Handles : lease[g] \in Int /\ holdCount[g] \in Nat
  BY Backed
<1>2. LeaseIsBacked'
  <2>1. SUFFICES ASSUME NEW g \in Handles, lease'[g] > 0 PROVE g = h
    BY <1>1, LockAssumption DEF LeaseIsBacked
  <2> QED BY <1>1, <1>a, <2>1
<1>3. ReliableHolds'
  <2>1. SUFFICES ASSUME NEW g \in Handles \ Unreliable
                 PROVE  (holdCount'[g] > 0 => g = h) /\ (g = h => lease'[g] > 0)
    BY DEF ReliableHolds
  <2> QED BY <1>1, <1>a
<1> QED BY <1>2, <1>3 DEF LockInv

(* A step after which nobody has a lease and no reliable handle the lock.   *)
LEMMA FreeStep ==
    ASSUME LockInv, TypeOK', owner' \notin Handles \ Unreliable,
           \A g \in Handles : lease'[g] <= 0,
           \A g \in Handles \ Unreliable : holdCount'[g] = 0,
           UpdatesOwn', LagBounded'
    PROVE  LockInv'
<1>1. \A g \in Handles : lease'[g] \in Int
  BY DEF TypeOK
<1>2. LeaseIsBacked' /\ ReliableHolds'
  BY <1>1 DEF LeaseIsBacked, ReliableHolds
<1> QED BY <1>2 DEF LockInv

(* UpdatesOwn, for a step of the calls of one handle.                       *)
LEMMA UpdatesFrame ==
    ASSUME LockInv, NEW h \in Handles,
           \A g \in Handles \ {h} : /\ pc'[g] = pc[g] /\ holdCount'[g] = holdCount[g]
                                    /\ copy'[g] = copy[g] \/ copy[g] = h,
           pc'[h] \in {"checking", "updating", "storing"} => h \in Reentrant,
           pc'[h] \in {"updating", "storing"} => holdCount'[h] > 0,
           pc'[h] = "storing" => copy'[h] = h
    PROVE  UpdatesOwn'
BY DEF LockInv, UpdatesOwn

(* LagBounded, for a step that leaves the clocks read alone or resets one.  *)
LEMMA LagFrame ==
    ASSUME LockInv, NEW A,
           lag' = lag \/ lag' = [a \in Handles \cup Tasks |-> IF a \in A THEN 0 ELSE lag[a]]
    PROVE  LagBounded'
BY LockAssumption DEF LockInv, LagBounded, TypeOK

LEMMA LagReset ==
    ASSUME LockInv, NEW x, lag' = [lag EXCEPT ![x] = 0]
    PROVE  LagBounded'
BY LockAssumption DEF LockInv, LagBounded, TypeOK

(* What UpdatesOwn says of one handle.                                      *)
LEMMA Updating ==
    ASSUME LockInv, NEW h \in Handles
    PROVE  /\ pc[h] \in {"checking", "updating", "storing"} => h \in Reentrant
           /\ pc[h] \in {"updating", "storing"} => holdCount[h] > 0
           /\ pc[h] = "storing" => copy[h] = h
           /\ h \notin Unreliable => (holdCount[h] > 0 => owner = h)
           /\ h \notin Unreliable => (owner = h => lease[h] > 0)
BY DEF LockInv, UpdatesOwn, ReliableHolds

(* An attempt that finds the lock free, or its number passed, finds no lease. *)
LEMMA NoLeaseLeft ==
    ASSUME LockInv, NEW h \in Handles, Acquirable(h) PROVE \A g \in Handles : lease[g] <= 0
BY Backed, LockAssumption DEF Acquirable, LockInv, LeaseIsBacked

(* The calls of a handle.                                                   *)
LEMMA CallStep ==
    ASSUME LockInv, TypeOK', Reentrant \cap Unreliable = {}, MaxLag < Lease,
           NEW h \in Handles,
           \/ \E w \in {0, WaitTimeout} : LockStart(h, w)
           \/ UnlockStart(h) \/ Continue(h) \/ Fail(h)
    PROVE  LockInv'
<1> USE Backed, Updating
<1>0. /\ pc \in [Handles -> PCs] /\ holdCount \in [Handles -> Nat]
      /\ copy \in [Handles -> Handles \cup {None, Gone}]
      /\ lease \in [Handles -> Int]
  BY DEF LockInv, TypeOK
<1>1. ASSUME NEW w \in {0, WaitTimeout}, LockStart(h, w) PROVE LockInv'
  <2>1. /\ UNCHANGED <<key, lease, lag, copy, holdCount>>
        /\ pc' = [pc EXCEPT ![h] = IF h \in Reentrant /\ holdCount[h] > 0
                                   THEN "checking" ELSE "waiting"]
    BY <1>1 DEF LockStart, Goto
  <2>2. UpdatesOwn'
    BY <1>0, <2>1, UpdatesFrame
  <2>3. LagBounded'
    BY <2>1, LagFrame
  <2> QED BY <2>1, <2>2, <2>3, QuietStep
<1>2. ASSUME UnlockStart(h) PROVE LockInv'
  <2>1. /\ UNCHANGED <<key, lease, lag, copy>> /\ holdCount[h] > 0
        /\ \/ /\ h \in Reentrant /\ holdCount[h] > 1
              /\ holdCount' = [holdCount EXCEPT ![h] = @ - 1]
              /\ pc' = [pc EXCEPT ![h] = "updating"]
           \/ /\ pc' = [pc EXCEPT ![h] = "releasing"]
              /\ holdCount' = holdCount
    BY <1>2 DEF UnlockStart, Goto
  <2>2. UpdatesOwn'
    BY <1>0, <2>1, UpdatesFrame
  <2>3. LagBounded'
    BY <2>1, LagFrame
  <2> QED BY <1>0, <2>1, <2>2, <2>3, QuietStep
<1>3. ASSUME Check(h) PROVE LockInv'
  <2>1. /\ UNCHANGED <<key, lease, lag, copy>> /\ pc[h] = "checking"
        /\ \/ /\ owner = h
              /\ holdCount' = [holdCount EXCEPT ![h] = @ + 1]
              /\ pc' = [pc EXCEPT ![h] = "updating"]
           \/ /\ pc' = [pc EXCEPT ![h] = "waiting"]
              /\ holdCount' = holdCount
    BY <1>3 DEF Check, Goto
  <2>2. UpdatesOwn'
    BY <1>0, <2>1, UpdatesFrame
  <2>3. LagBounded'
    BY <2>1, LagFrame
  <2> QED BY <1>0, <2>1, <2>2, <2>3, QuietStep
<1>4. ASSUME Try(h) PROVE LockInv'
  <2>1. /\ LagBounded' /\ UNCHANGED copy
    BY <1>4, LagReset DEF Try
  <2>2. CASE /\ Acquirable(h)
             /\ Write(h, "date", 0, 1) /\ Acquired(h)
    <3>1. \A g \in Handles : lease[g] <= 0
      BY <2>2, NoLeaseLeft
    <3>2. \A g \in Handles : g \notin Unreliable => holdCount[g] = 0
      BY <1>0, <3>1
    <3>3. /\ Lease - lag[h] \in Int /\ 0 < Lease - lag[h] /\ Lease - lag[h] <= Lease
      <4>1. lag[h] \in Nat /\ lag[h] <= MaxLag /\ Lease \in Nat /\ MaxLag \in Nat
        BY LockAssumption
      <4> HIDE Backed, Updating
      <4> QED BY <4>1
    <3>4. /\ pc' = [pc EXCEPT ![h] = "idle"]
          /\ holdCount' = [holdCount EXCEPT ![h] = 1]
          /\ lease' = [lease EXCEPT ![h] = Lease - lag[h]]
          /\ owner' = h /\ format' = "date" /\ ttl' = Lease
      BY <2>2 DEF Acquired, Goto, Write
    <3>5. UpdatesOwn'
      BY <1>0, <2>1, <3>4, UpdatesFrame
    <3> QED BY <1>0, <2>1, <3>1, <3>2, <3>3, <3>4, <3>5, OwnerStep
  <2>3. CASE /\ UNCHANGED <<key, holdCount, lease, task>>
             /\ Goto(h, "idle") \/ Goto(h, "waiting")
    <3>1. UpdatesOwn'
      BY <1>0, <2>1, <2>3, UpdatesFrame DEF Goto
    <3> QED BY <2>1, <2>3, <3>1, QuietStep
  <2> QED BY <1>4, <2>2, <2>3 DEF Try
<1>5. ASSUME Attempt(h) PROVE LockInv'
  <2>1. /\ UNCHANGED <<key, lease, lag, copy, holdCount>>
        /\ Goto(h, "trying") \/ Goto(h, "idle")
    BY <1>5 DEF Attempt
  <2>2. UpdatesOwn'
    BY <1>0, <2>1, UpdatesFrame DEF Goto
  <2>3. LagBounded'
    BY <2>1, LagFrame
  <2> QED BY <2>1, <2>2, <2>3, QuietStep
<1>6. ASSUME UpdateGet(h) PROVE LockInv'
  <2>1. /\ UNCHANGED <<key, lease, lag, holdCount>> /\ pc[h] = "updating"
        /\ \/ copy' = [copy EXCEPT ![h] = owner] /\ Goto(h, "storing")
           \/ copy' = copy /\ Goto(h, "idle")
    BY <1>6 DEF UpdateGet
  <2>2. owner = h /\ h \in Reentrant /\ holdCount[h] > 0
    BY <2>1
  <2>3. UpdatesOwn'
    BY <1>0, <2>1, <2>2, UpdatesFrame DEF Goto
  <2>4. LagBounded'
    BY <2>1, LagFrame
  <2> QED BY <2>1, <2>3, <2>4, QuietStep
<1>7. ASSUME UpdateSet(h) PROVE LockInv'
  <2>1. pc[h] = "storing" /\ copy[h] = h /\ owner = h /\ h \in Reentrant
    BY <1>7 DEF UpdateSet
  <2>2. /\ owner' = h /\ format' = "date" /\ ttl' = Lease
        /\ lease' = [lease EXCEPT ![h] = Lease] /\ UNCHANGED <<holdCount, lag>>
        /\ pc' = [pc EXCEPT ![h] = "idle"] /\ copy' = [copy EXCEPT ![h] = None]
    BY <1>7, <2>1 DEF UpdateSet, Write, Goto
  <2>3. UpdatesOwn'
    BY <1>0, <2>2, UpdatesFrame
  <2>4. LagBounded'
    BY <2>2, LagFrame
  <2>5. /\ \A g \in Handles \ {h} : lease[g] <= 0
        /\ \A g \in Handles \ {h} : g \notin Unreliable => holdCount[g] = 0
        /\ \A g \in Handles \ {h} : holdCount'[g] = holdCount[g]
    BY <2>1, <2>2
  <2>6. Lease \in Int /\ 0 < Lease /\ Lease <= Lease
    BY LockAssumption
  <2> QED BY <2>2, <2>3, <2>4, <2>5, <2>6, OwnerStep
<1>8. ASSUME Release(h) PROVE LockInv'
  <2>1. UNCHANGED <<lag, copy>> /\ pc[h] = "releasing"
    BY <1>8 DEF Release
  <2>2. LagBounded'
    BY <2>1, LagFrame
  <2>3. CASE owner = h
    <3>1. /\ owner' = None /\ lease' = [lease EXCEPT ![h] = 0]
          /\ holdCount' = [holdCount EXCEPT ![h] = 0]
          /\ \/ pc' = [pc EXCEPT ![h] = "stopping"]
             \/ pc' = [pc EXCEPT ![h] = "idle"]
      BY <1>8, <2>3 DEF Release, Remove, Goto
    <3>2. UpdatesOwn'
      BY <1>0, <2>1, <3>1, UpdatesFrame
    <3> QED BY <1>0, <2>2, <2>3, <3>1, <3>2, FreeStep, LockAssumption
  <2>4. CASE owner # h
    <3>1. UNCHANGED <<key, holdCount, lease>> /\ pc' = [pc EXCEPT ![h] = "idle"]
      BY <1>8, <2>4 DEF Release, Goto
    <3>2. UpdatesOwn'
      BY <1>0, <2>1, <3>1, UpdatesFrame
    <3> QED BY <2>2, <3>1, <3>2, QuietStep
  <2> QED BY <2>3, <2>4
<1>9. ASSUME StopWait(h) PROVE LockInv'
  <2>1. UNCHANGED <<key, lease, lag, copy, holdCount>> /\ Goto(h, "idle")
    BY <1>9 DEF StopWait
  <2>2. UpdatesOwn'
    BY <1>0, <2>1, UpdatesFrame DEF Goto
  <2>3. LagBounded'
    BY <2>1, LagFrame
  <2> QED BY <2>1, <2>2, <2>3, QuietStep
<1>10. ASSUME Fail(h) PROVE LockInv'
  <2>1. /\ h \in Unreliable /\ h \notin Reentrant /\ holdCount' = holdCount
        /\ pc[h] \in {"trying", "releasing"}
        /\ pc' = [pc EXCEPT ![h] = "idle"] /\ copy' = [copy EXCEPT ![h] = None]
        /\ lease' = [lease EXCEPT ![h] = IF owner = h /\ owner' = None THEN 0 ELSE @]
    BY <1>10 DEF Fail, Goto
  <2>2. UpdatesOwn'
    BY <1>0, <2>1, UpdatesFrame
  <2>3. LagBounded'
    BY <1>10, LagReset DEF Fail
  <2>4. CASE UNCHANGED key
    <3>1. lease' = lease
      BY <1>0, <2>1, <2>4, LockAssumption DEF key
    <3> QED BY <2>1, <2>2, <2>3, <2>4, <3>1, QuietStep
  <2>5. CASE Acquirable(h) /\ Write(h, "date", 0, 1)
    <3>1. /\ owner' = h /\ owner' # None /\ \A g \in Handles : lease[g] <= 0
      BY <2>5, NoLeaseLeft, LockAssumption DEF Write
    <3>2. \A g \in Handles : lease'[g] <= 0
      BY <1>0, <2>1, <3>1
    <3>3. \A g \in Handles \ Unreliable : holdCount'[g] = 0
      BY <1>0, <2>1, <3>1
    <3> QED BY <2>1, <2>2, <2>3, <3>1, <3>2, <3>3, FreeStep
  <2>6. CASE owner = h /\ Remove
    BY <1>0, <2>1, <2>2, <2>3, <2>6, FreeStep, LockAssumption DEF Remove
  <2> QED BY <1>10, <2>1, <2>4, <2>5, <2>6 DEF Fail
<1> QED BY <1>1, <1>2, <1>3, <1>4, <1>5, <1>6, <1>7, <1>8, <1>9, <1>10 DEF Continue

(* A process that starts again: its lock becomes the lock of nobody alive. *)
LEMMA RestartStep ==
    ASSUME LockInv, TypeOK', NEW h \in Handles, Restart(h) PROVE LockInv'
<1>1. /\ \A g \in Handles \ {h} : /\ pc'[g] = pc[g] /\ holdCount'[g] = holdCount[g]
                                  /\ copy'[g] = copy[g] \/ copy[g] = h
                                  /\ lease'[g] = lease[g]
      /\ pc'[h] = "idle" /\ holdCount'[h] = 0 /\ lease'[h] = 0
  BY DEF Restart, Goto, LockInv, TypeOK
<1>2. UpdatesOwn'
  BY <1>1, UpdatesFrame
<1>3. LagBounded'
  BY LagFrame DEF Restart
<1>4. CASE owner = h
  <2>1. owner' = Gone /\ Gone \notin Handles
    BY <1>4, LockAssumption DEF Restart
  <2>2. \A g \in Handles : lease'[g] <= 0
    BY <1>1, <1>4, Backed
  <2>3. \A g \in Handles \ Unreliable : holdCount'[g] = 0
    BY <1>1, <1>4, Backed
  <2> QED BY <1>2, <1>3, <2>1, <2>2, <2>3, FreeStep
<1>5. CASE owner # h
  <2>1. UNCHANGED key
    BY <1>5 DEF Restart, key
  <2>2. LeaseIsBacked'
    BY <1>1, <2>1 DEF LockInv, LeaseIsBacked, key
  <2>3. ReliableHolds'
    BY <1>1, <1>5, <2>1 DEF LockInv, ReliableHolds, key
  <2> QED BY <1>2, <1>3, <2>2, <2>3 DEF LockInv
<1> QED BY <1>4, <1>5

(* The renewal goroutines.                                                  *)
LEMMA RenewalStep ==
    ASSUME LockInv, TypeOK', MaxLag < Lease, NEW h \in Handles, NEW k \in TasksOf(h),
           TaskStep(h, k) \/ RenewFail(h, k)
    PROVE  LockInv'
<1>1. CASE TaskPanic(h, k)
  BY <1>1, RestartStep DEF TaskPanic
<1>2. ASSUME \/ TaskStart(h, k) \/ TaskStop(h, k) \/ TaskTick(h, k)
             \/ RenewStart(h, k) \/ RenewFail(h, k)
             \/ Renew(h, k) /\ owner # h
      PROVE  LockInv'
  <2>1. /\ UNCHANGED <<key, lease, calls>>
        /\ lag' = lag \/ lag' = [lag EXCEPT ![k] = 0]
    BY <1>2 DEF TaskStart, TaskStop, TaskTick, RenewStart, RenewFail, Renew
  <2>2. UpdatesOwn'
    BY <2>1 DEF LockInv, UpdatesOwn, calls
  <2>3. LagBounded'
    BY <2>1, LagFrame, LagReset
  <2>4. \A g \in Handles \ Unreliable : holdCount'[g] > 0 => owner = g
    BY <2>1 DEF LockInv, ReliableHolds, calls
  <2> QED BY <2>1, <2>2, <2>3, <2>4, QuietStep
<1>3. CASE Renew(h, k) /\ owner = h
  <2>1. /\ lease' = [lease EXCEPT ![h] = Lease - lag[k]]
        /\ owner' = h /\ ttl' = Lease /\ expire' = Lease - lag[k]
        /\ UNCHANGED calls /\ lag' = [lag EXCEPT ![k] = 0]
    BY <1>3, LockAssumption DEF Renew, Write
  <2>2. /\ Lease - lag[k] \in Int /\ 0 < Lease - lag[k] /\ Lease - lag[k] <= Lease
    <3>1. k \in Tasks
      BY TaskSets
    <3>2. lag[k] \in Nat /\ lag[k] <= MaxLag
      BY <3>1, Backed
    <3> QED BY <3>2, LockAssumption
  <2>3. UpdatesOwn'
    BY <2>1 DEF LockInv, UpdatesOwn, calls
  <2>4. LagBounded'
    BY <2>1, LagReset
  <2>5. /\ \A g \in Handles \ {h} : lease[g] <= 0
        /\ \A g \in Handles \ {h} : g \notin Unreliable => holdCount[g] = 0
        /\ \A g \in Handles \ {h} : holdCount'[g] = holdCount[g]
    BY <1>3, <2>1, Backed DEF calls
  <2> QED BY <2>1, <2>2, <2>3, <2>4, <2>5, OwnerStep
<1>4. CASE Renew(h, k)
  BY <1>2, <1>3, <1>4
<1> QED BY <1>1, <1>2, <1>4 DEF TaskStep

(* Time, expiry and forced removal.                                         *)
LEMMA EnvironmentStep ==
    ASSUME LockInv, TypeOK', ForceUnlock \/ Expire \/ Tick PROVE LockInv'
<1>1. UpdatesOwn'
  BY DEF ForceUnlock, Expire, Tick, calls, LockInv, UpdatesOwn
<1>2. CASE ForceUnlock
  <2>1. /\ owner \in Forced \cup {Gone} /\ owner' = None /\ UNCHANGED <<holdCount, lag>>
        /\ \A g \in Handles : lease'[g] = IF g = owner THEN 0 ELSE lease[g]
    BY <1>2 DEF ForceUnlock, Remove, calls
  <2>2. LagBounded'
    BY <2>1, LagFrame
  <2>3. \A g \in Handles : lease'[g] <= 0
    BY <2>1, Backed
  <2>4. \A g \in Handles \ Unreliable : holdCount'[g] = 0
    BY <2>1, Backed, LockAssumption
  <2> QED BY <1>1, <2>1, <2>2, <2>3, <2>4, FreeStep, LockAssumption
<1>3. CASE Expire
  <2>1. ttl = 0 /\ owner' = None /\ UNCHANGED <<holdCount, lag, lease>>
    BY <1>3 DEF Expire, Remove, calls
  <2>2. LagBounded'
    BY <2>1, LagFrame
  <2>3. \A g \in Handles : lease[g] <= 0
    BY <2>1, Backed DEF LockInv, LeaseIsBacked
  <2>4. \A g \in Handles \ Unreliable : holdCount[g] = 0
    BY <2>3, Backed DEF LockInv, ReliableHolds
  <2> QED BY <1>1, <2>1, <2>2, <2>3, <2>4, FreeStep, LockAssumption
<1>4. CASE Tick
  <2>1. /\ owner \in Handles \ Unreliable => lease[owner] > 1
        /\ \A g \in Handles : lease'[g] = Decrement(lease[g])
        /\ ttl' = Decrement(ttl)
        /\ expire' = IF format = "number" THEN expire - 1 ELSE expire
        /\ UNCHANGED <<owner, format, holdCount>>
    BY <1>4 DEF Tick
  <2>2. \A n \in Int : Decrement(n) = IF n > 0 THEN n - 1 ELSE 0
    BY DEF Decrement
  <2>3. \A g \in Handles : lease[g] \in Int /\ lease'[g] = IF lease[g] > 0 THEN lease[g] - 1 ELSE 0
    BY <2>1, <2>2, Backed
  <2>4. LeaseIsBacked'
    <3>1. SUFFICES ASSUME NEW g \in Handles, lease'[g] > 0
                   PROVE  /\ owner = g /\ lease'[g] <= ttl'
                          /\ format = "number" => lease'[g] <= expire'
      BY <2>1 DEF LeaseIsBacked
    <3>2. lease[g] > 0 /\ lease'[g] = lease[g] - 1
      BY <2>3, <3>1
    <3>3. /\ owner = g /\ lease[g] <= ttl
          /\ format = "number" => lease[g] <= expire
          /\ ttl \in Nat /\ expire \in Int /\ lease[g] \in Int
      BY <3>2, Backed DEF LockInv, LeaseIsBacked
    <3>4. ttl' = ttl - 1
      BY <2>1, <3>2, <3>3 DEF Decrement
    <3> QED BY <2>1, <3>2, <3>3, <3>4
  <2>5. ReliableHolds'
    <3>1. SUFFICES ASSUME NEW g \in Handles \ Unreliable
                   PROVE  /\ holdCount[g] > 0 => owner = g
                          /\ owner = g => lease'[g] > 0
      BY <2>1 DEF ReliableHolds
    <3>2. holdCount[g] > 0 => owner = g
      BY DEF LockInv, ReliableHolds
    <3>3. owner = g => lease[g] > 1
      BY <2>1
    <3> QED BY <2>3, <3>2, <3>3
  <2>6. LagBounded'
    <3>1. /\ lag' = [a \in Handles \cup Tasks |-> IF a \in Timed THEN lag[a] + 1 ELSE 0]
          /\ \A a \in Timed : lag[a] < MaxLag
      BY <1>4 DEF Tick, LockInv, TypeOK
    <3>2. \A a \in Handles \cup Tasks : lag[a] \in Nat
      BY Backed
    <3> QED BY <3>1, <3>2, LockAssumption DEF LagBounded
  <2> QED BY <1>1, <2>4, <2>5, <2>6 DEF LockInv
<1> QED BY <1>2, <1>3, <1>4

LEMMA LockStep ==
    ASSUME Reentrant \cap Unreliable = {}, MaxLag < Lease, LockInv, [Next]_vars
    PROVE  LockInv'
<1>t. TypeOK'
  BY TypeStep DEF LockInv
<1>1. ASSUME NEW h \in Handles,
             \/ \E w \in {0, WaitTimeout} : LockStart(h, w)
             \/ UnlockStart(h) \/ Continue(h) \/ Fail(h)
      PROVE  LockInv'
  BY <1>1, <1>t, CallStep
<1>2. ASSUME NEW h \in Handles, Crash(h) PROVE LockInv'
  BY <1>2, <1>t, RestartStep DEF Crash
<1>3. ASSUME NEW h \in Handles, NEW k \in TasksOf(h), TaskStep(h, k) \/ RenewFail(h, k)
      PROVE  LockInv'
  BY <1>3, <1>t, RenewalStep
<1>4. CASE ForceUnlock \/ Expire \/ Tick
  BY <1>4, <1>t, EnvironmentStep
<1>5. CASE UNCHANGED vars
  BY <1>5, <1>t DEF vars, key, calls, LockInv, LeaseIsBacked, ReliableHolds, UpdatesOwn,
                    LagBounded
<1> QED BY <1>1, <1>2, <1>3, <1>4, <1>5 DEF Next

(* LockInv holds in every reachable state, provided that a handle with      *)
(* re-entrant locks keeps its leases (updateLockInfo does not check the     *)
(* owner) and that no script reaches Redis a whole lease after its clock    *)
(* was read.                                                                *)
THEOREM LockInvariant ==
    ASSUME Reentrant \cap Unreliable = {}, MaxLag < Lease
    PROVE  Spec => []LockInv
<1>1. Init => LockInv
  BY LockInit
<1>2. LockInv /\ [Next]_vars => LockInv'
  BY LockStep
<1> QED BY <1>1, <1>2, PTL DEF Spec

(* lock.go never lets two handles rely on the lock at once.                 *)
THEOREM LeasesAreExclusive ==
    ASSUME Reentrant \cap Unreliable = {}, MaxLag < Lease
    PROVE  Spec => []LeaseMutex
<1>1. LockInv => LeaseMutex
  BY LockInvImpliesMutex
<1> QED BY <1>1, LockInvariant, PTL

-----------------------------------------------------------------------------
(* The refinement of LeaseLock                                              *)

Relying == {h \in Handles : lease[h] > 0}

(* Only a handle that finds the lock free, or passed, takes it from another. *)
LEMMA OwnerChanges ==
    ASSUME Reentrant \cap Unreliable = {}, LockInv, Next,
           owner' # owner, owner' \in Handles
    PROVE  \E h \in Handles : Acquirable(h)
<1> USE Updating
<1>1. ASSUME NEW h \in Handles, Continue(h) PROVE Acquirable(h)
  <2>1. CASE Try(h)
    BY <2>1 DEF Try, key
  <2>2. CASE UpdateSet(h)
    <3>1. owner' = copy[h] /\ pc[h] = "storing"
      BY <2>2 DEF UpdateSet, Write
    <3> QED BY <3>1
  <2>3. CASE Release(h)
    BY <2>3, LockAssumption DEF Release, Remove, key
  <2> QED BY <1>1, <2>1, <2>2, <2>3
        DEF Continue, Check, Attempt, UpdateGet, StopWait, key
<1>2. ASSUME NEW h \in Handles, Fail(h) PROVE Acquirable(h)
  <2>1. pc[h] # "storing"
    BY <1>2 DEF Fail
  <2> QED BY <1>2, <2>1, LockAssumption DEF Fail, Remove, key
<1>3. \A h \in Handles : ~Restart(h)
  BY LockAssumption DEF Restart
<1>4. \A h \in Handles, k \in Tasks : ~TaskStep(h, k) /\ ~RenewFail(h, k)
  BY <1>3 DEF TaskStep, TaskStart, TaskStop, TaskTick, RenewStart, Renew, RenewFail, TaskPanic,
              Write, key
<1>5. ~ForceUnlock /\ ~Expire /\ ~Tick
  BY LockAssumption DEF ForceUnlock, Expire, Tick, Remove
<1>6. \A h \in Handles : ~UnlockStart(h) /\ \A w \in {0, WaitTimeout} : ~LockStart(h, w)
  BY DEF UnlockStart, LockStart, key
<1> QED BY <1>1, <1>2, <1>3, <1>4, <1>5, <1>6, TaskSets DEF Next, Crash

(* A step that does not move the lock from one lease to another is one of   *)
(* the abstract lock, or none.                                              *)
LEMMA LeaseStep ==
    ASSUME LockInv, LockInv', owner' = owner \/ Relying = {} \/ owner' \notin Handles
    PROVE  [Leases!Next]_Relying
<1>1. \A h \in Relying : h = owner
  BY DEF Relying, LockInv, LeaseIsBacked
<1>2. \A h \in Relying' : h = owner' /\ h \in Handles
  BY DEF Relying, LockInv, LeaseIsBacked
<1>3. CASE Relying' \subseteq Relying
  BY <1>3 DEF Relying, Leases!Next, Leases!End
<1>4. CASE ~(Relying' \subseteq Relying)
  <2>1. PICK h \in Handles : h \in Relying' /\ h \notin Relying
    BY <1>2, <1>4
  <2>2. Relying = {} /\ Relying' = {h}
    BY <1>1, <1>2, <2>1
  <2>3. Leases!Grant(h)
    BY <2>2 DEF Relying, Leases!Grant, Leases!Compatible
  <2> QED BY <2>3 DEF Leases!Next
<1> QED BY <1>3, <1>4

(* The lock of lock.go is a lease lock: one lease at a time begins, and none *)
(* while another runs.                                                       *)
THEOREM LockIsALeaseLock ==
    ASSUME Reentrant \cap Unreliable = {}, MaxLag < Lease
    PROVE  Spec => ImplementsLeases
<1>1. Init => Leases!Init
  BY DEF Init, Leases!Init
<1>2. LockInv /\ LockInv' /\ [Next]_vars => [Leases!Next]_Relying
  <2> SUFFICES ASSUME LockInv, LockInv', [Next]_vars PROVE [Leases!Next]_Relying
    OBVIOUS
  <2>1. CASE UNCHANGED vars
    BY <2>1, LeaseStep DEF vars, key
  <2>2. ASSUME Next, owner' # owner, owner' \in Handles PROVE Relying = {}
    <3>1. PICK h \in Handles : Acquirable(h)
      BY <2>2, OwnerChanges
    <3> QED BY <3>1, NoLeaseLeft DEF Relying, LockInv, TypeOK
  <2> QED BY <2>1, <2>2, LeaseStep
<1>3. Init => LockInv
  BY LockInit
<1>4. LockInv /\ [Next]_vars => LockInv'
  BY LockStep
<1> QED BY <1>1, <1>2, <1>3, <1>4, PTL
      DEF Spec, ImplementsLeases, Leases!Spec, Relying

=============================================================================
