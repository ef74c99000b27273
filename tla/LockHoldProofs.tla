--------------------------- MODULE LockHoldProofs ---------------------------
(***************************************************************************)
(* Proofs about what a reliable handle of RedisLock remembers: the count   *)
(* of its holds is the one that the key carries, one goroutine renews the  *)
(* lock while it is held, and none closes a channel that is closed.        *)
(***************************************************************************)
EXTENDS RedisLockProofs, FiniteSetTheorems

-----------------------------------------------------------------------------
(* Steps that leave a handle alone                                          *)

\* A step that does not give h the lock, nor changes the lock of h.
KeyKept(h) == owner' = h => owner = h /\ UNCHANGED <<format, hold>>

\* A step of which neither the calls of h nor its goroutines take part.
CallKept(h) == pc'[h] = pc[h] /\ holdCount'[h] = holdCount[h]

TasksKept(h) ==
    /\ \A k \in TasksOf(h) : /\ task'[k] = task[k]
                             /\ k \notin oldStop => k \notin oldStop'
                             /\ k \notin oldDone => k \notin oldDone'
    /\ h \in doneClosed <=> h \in doneClosed'

LEMMA OwnTasks ==
    \A g, h \in Handles : \A k \in TasksOf(g) : k \in Tasks /\ (k \in TasksOf(h) => g = h)
BY DEF Tasks, TasksOf

LEMMA RecordedFrame ==
    ASSUME NEW h \in Handles, Recorded(h), KeyKept(h), CallKept(h)
    PROVE  Recorded(h)'
BY DEF Recorded, KeyKept, CallKept

LEMMA RenewedFrame ==
    ASSUME NEW h \in Handles, Renewed(h), CallKept(h), TasksKept(h)
    PROVE  Renewed(h)'
BY DEF Renewed, CallKept, TasksKept

(* A handle whose calls and goroutines take no step does not take the lock, *)
(* and what it writes back is its own.                                      *)
LEMMA OthersKey ==
    ASSUME LockInv, Reentrant \cap Unreliable = {},
           NEW g \in Handles, NEW h \in Handles, g # h,
           \/ \E w \in {0, WaitTimeout} : LockStart(g, w)
           \/ UnlockStart(g) \/ Continue(g) \/ Crash(g) \/ Fail(g)
           \/ \E k \in TasksOf(g) : TaskStep(g, k) \/ RenewFail(g, k)
    PROVE  KeyKept(h)
<1> USE Updating, LockAssumption DEF KeyKept
<1>1. CASE UNCHANGED key
  BY <1>1 DEF key
<1>2. CASE Restart(g)
  BY <1>2 DEF Restart
<1>3. CASE Continue(g)
  <2>1. CASE Try(g)
    BY <2>1, <1>1 DEF Try, Write
  <2>2. CASE UpdateSet(g)
    BY <2>2 DEF UpdateSet, Write
  <2>3. CASE Release(g)
    BY <2>3, <1>1 DEF Release, Remove
  <2> QED BY <1>1, <1>3, <2>1, <2>2, <2>3 DEF Continue, Check, Attempt, UpdateGet, StopWait
<1>4. CASE Fail(g)
  <2>1. g \in Unreliable /\ pc[g] # "storing"
    BY <1>4 DEF Fail
  <2> QED BY <1>1, <1>4, <2>1 DEF Fail, Write, Remove
<1>5. CASE \E k \in TasksOf(g) : TaskStep(g, k) \/ RenewFail(g, k)
  BY <1>1, <1>2, <1>5 DEF TaskStep, TaskStart, TaskStop, TaskTick, RenewStart, Renew, RenewFail,
                          TaskPanic, Write
<1>6. CASE UnlockStart(g) \/ \E w \in {0, WaitTimeout} : LockStart(g, w)
  BY <1>1, <1>6 DEF UnlockStart, LockStart
<1> QED BY <1>2, <1>3, <1>4, <1>5, <1>6 DEF Crash

LEMMA OthersHandle ==
    ASSUME LockInv, NEW g \in Handles, NEW h \in Handles, g # h,
           \/ \E w \in {0, WaitTimeout} : LockStart(g, w)
           \/ UnlockStart(g) \/ Continue(g) \/ Crash(g) \/ Fail(g)
           \/ \E k \in TasksOf(g) : TaskStep(g, k) \/ RenewFail(g, k)
    PROVE  CallKept(h) /\ TasksKept(h)
<1>0. /\ pc \in [Handles -> PCs] /\ holdCount \in [Handles -> Nat]
      /\ DOMAIN task = Tasks /\ h \notin {g}
      /\ \A k \in TasksOf(h) : k \in Tasks /\ k \notin TasksOf(g)
  BY OwnTasks DEF LockInv, TypeOK
<1>1. CASE Restart(g)
  BY <1>0, <1>1 DEF Restart, Goto, CallKept, TasksKept
<1>2. CASE Continue(g)
  <2>1. CASE Try(g)
    BY <1>0, <2>1 DEF Try, Acquired, Goto, channels, CallKept, TasksKept
  <2>2. CASE StopWait(g)
    BY <1>0, <2>2 DEF StopWait, Goto, CallKept, TasksKept
  <2>3. CASE Check(g) \/ Attempt(g) \/ UpdateGet(g) \/ UpdateSet(g) \/ Release(g)
    BY <1>0, <2>3 DEF Check, Attempt, UpdateGet, UpdateSet, Release, Goto, channels, CallKept,
                      TasksKept
  <2> QED BY <1>2, <2>1, <2>2, <2>3 DEF Continue
<1>3. CASE Fail(g) \/ UnlockStart(g) \/ \E w \in {0, WaitTimeout} : LockStart(g, w)
  BY <1>0, <1>3 DEF Fail, UnlockStart, LockStart, Goto, channels, CallKept, TasksKept
<1>4. CASE \E k \in TasksOf(g) : TaskStep(g, k) \/ RenewFail(g, k)
  <2>1. PICK k \in TasksOf(g) : TaskStep(g, k) \/ RenewFail(g, k)
    BY <1>4
  <2>2. k \notin TasksOf(h)
    BY OwnTasks
  <2>3. CASE TaskPanic(g, k)
    BY <1>1, <2>3 DEF TaskPanic
  <2> QED BY <1>0, <2>1, <2>2, <2>3
          DEF TaskStep, TaskStart, TaskStop, TaskTick, RenewStart, Renew, RenewFail, calls,
              channels, CallKept, TasksKept
<1> QED BY <1>1, <1>2, <1>3, <1>4 DEF Crash

-----------------------------------------------------------------------------
(* The steps of a reliable handle                                           *)

(* A step of a call that leaves the goroutines and the channels alone, and  *)
(* the handle with a hold if it had one.                                    *)
LEMMA CallRenewed ==
    ASSUME NEW h \in Handles, Renewed(h), UNCHANGED <<task, channels>>,
           pc[h] # "stopping", pc'[h] # "stopping",
           holdCount[h] > 0 <=> holdCount'[h] > 0
    PROVE  Renewed(h)'
BY DEF Renewed, channels

(* Lock.                                                                    *)

LEMMA TryHold ==
    ASSUME LockInv, NEW h \in Handles \ Unreliable, Recorded(h), Renewed(h), Try(h)
    PROVE  Recorded(h)' /\ Renewed(h)'
<1>0. /\ pc \in [Handles -> PCs] /\ holdCount \in [Handles -> Nat]
      /\ task \in [Tasks -> {"none", "spawned", "select", "ticked", "renewing"}]
      /\ \A k \in TasksOf(h) : k \in Tasks
  BY OwnTasks DEF LockInv, TypeOK
<1>1. pc[h] = "trying" /\ UNCHANGED channels
  BY DEF Try
<1>2. CASE Acquirable(h) /\ Write(h, "date", 0, 1) /\ Acquired(h)
  <2>1. owner # h /\ holdCount[h] = 0
    BY <1>2, Backed, Updating, NoLeaseLeft
  <2>2. /\ owner' = h /\ format' = "date" /\ hold' = 1
        /\ holdCount'[h] = 1 /\ pc'[h] = "idle"
    BY <1>0, <1>2 DEF Write, Acquired, Goto
  <2>3. \A k \in TasksOf(h) : task[k] = "none"
    BY <1>1, <2>1 DEF Renewed
  <2>4. CASE h \notin AutoRenewal /\ UNCHANGED task
    BY <1>1, <2>2, <2>3, <2>4 DEF Recorded, Renewed, channels
  <2>5. CASE h \in AutoRenewal /\ \E k \in TasksOf(h) : task' = [task EXCEPT ![k] = "spawned"]
    <3>1. PICK k \in TasksOf(h) : task' = [task EXCEPT ![k] = "spawned"]
      BY <2>5
    <3>2. task'[k] = "spawned" /\ \A j \in TasksOf(h) : j # k => task'[j] = "none"
      BY <1>0, <2>3, <3>1
    <3> QED BY <1>1, <2>2, <2>5, <3>2 DEF Recorded, Renewed, channels
  <2> QED BY <1>2, <2>4, <2>5 DEF Acquired
<1>3. CASE UNCHANGED <<key, holdCount, task>> /\ (Goto(h, "idle") \/ Goto(h, "waiting"))
  <2>1. pc'[h] \in {"idle", "waiting"}
    BY <1>0, <1>3 DEF Goto
  <2> QED BY <1>1, <1>3, <2>1, CallRenewed DEF Recorded, key
<1> QED BY <1>2, <1>3 DEF Try

LEMMA LockHold ==
    ASSUME LockInv, NEW h \in Handles \ Unreliable, Recorded(h), Renewed(h),
           Check(h) \/ Attempt(h) \/ \E w \in {0, WaitTimeout} : LockStart(h, w)
    PROVE  Recorded(h)' /\ Renewed(h)'
<1>0. /\ pc \in [Handles -> PCs] /\ holdCount \in [Handles -> Nat]
      /\ pc[h] \in {"checking", "waiting", "idle"}
      /\ UNCHANGED <<key, task, channels>>
  BY DEF LockInv, TypeOK, Check, Attempt, LockStart, Free
<1>1. CASE /\ owner = h /\ holdCount' = [holdCount EXCEPT ![h] = @ + 1]
           /\ Goto(h, "updating") /\ pc[h] = "checking"
  <2>1. holdCount'[h] = holdCount[h] + 1 /\ holdCount[h] > 0 /\ pc'[h] = "updating"
    BY <1>0, <1>1 DEF Goto, Recorded
  <2> QED BY <1>0, <1>1, <2>1, CallRenewed DEF Recorded, key
<1>2. CASE holdCount' = holdCount
  <2>1. pc'[h] \notin {"updating", "storing", "stopping"}
    BY <1>0, <1>2 DEF Check, Attempt, LockStart, Goto
  <2> QED BY <1>0, <1>2, <2>1, CallRenewed DEF Recorded, key
<1> QED BY <1>1, <1>2 DEF Check, Attempt, LockStart

LEMMA UpdateHold ==
    ASSUME LockInv, NEW h \in Handles \ Unreliable, Recorded(h), Renewed(h),
           UpdateGet(h) \/ UpdateSet(h)
    PROVE  Recorded(h)' /\ Renewed(h)'
<1>0. /\ pc \in [Handles -> PCs] /\ holdCount \in [Handles -> Nat]
      /\ owner = h /\ h \in Reentrant /\ holdCount[h] > 0
  BY Updating DEF LockInv, TypeOK, UpdateGet, UpdateSet
<1>1. UNCHANGED <<task, channels, holdCount>> /\ pc'[h] \in {"storing", "idle"}
  BY <1>0 DEF UpdateGet, UpdateSet, Goto
<1>2. Renewed(h)'
  BY <1>0, <1>1, CallRenewed DEF UpdateGet, UpdateSet
<1>3. CASE UpdateSet(h)
  <2>1. owner' = h /\ format' = "date" /\ hold' = holdCount[h]
    BY <1>3, Updating DEF UpdateSet, Write
  <2> QED BY <1>0, <1>1, <1>2, <2>1 DEF Recorded
<1>4. CASE UpdateGet(h)
  <2>1. UNCHANGED key /\ (pc'[h] = "storing" \/ format = "number")
    BY <1>0, <1>4, LockAssumption DEF UpdateGet, Goto
  <2> QED BY <1>0, <1>1, <1>2, <2>1 DEF Recorded, key
<1> QED BY <1>3, <1>4

(* Unlock.                                                                  *)

LEMMA UnlockHold ==
    ASSUME LockInv, NEW h \in Handles \ Unreliable, Recorded(h), Renewed(h), UnlockStart(h)
    PROVE  Recorded(h)' /\ Renewed(h)'
<1>0. /\ pc \in [Handles -> PCs] /\ holdCount \in [Handles -> Nat]
      /\ pc[h] = "idle" /\ holdCount[h] > 0 /\ UNCHANGED <<key, task, channels>>
  BY DEF LockInv, TypeOK, UnlockStart, Free
<1>1. CASE holdCount[h] > 1 /\ holdCount' = [holdCount EXCEPT ![h] = @ - 1] /\ Goto(h, "updating")
  <2>1. holdCount'[h] > 0 /\ pc'[h] = "updating"
    BY <1>0, <1>1 DEF Goto
  <2> QED BY <1>0, <2>1, CallRenewed DEF Recorded, key
<1>2. CASE Goto(h, "releasing") /\ UNCHANGED holdCount
  <2>1. pc'[h] = "releasing"
    BY <1>0, <1>2 DEF Goto
  <2> QED BY <1>0, <1>2, <2>1, CallRenewed DEF Recorded, key
<1> QED BY <1>1, <1>2 DEF UnlockStart

LEMMA ReleaseHold ==
    ASSUME LockInv, NEW h \in Handles \ Unreliable, Recorded(h), Renewed(h), Release(h)
    PROVE  Recorded(h)' /\ Renewed(h)'
<1>0. /\ pc \in [Handles -> PCs] /\ holdCount \in [Handles -> Nat]
      /\ pc[h] = "releasing" /\ UNCHANGED <<task, channels>>
  BY DEF LockInv, TypeOK, Release
<1>1. CASE owner = h
  <2>1. /\ owner' = None /\ holdCount'[h] = 0
        /\ pc'[h] = IF h \in AutoRenewal THEN "stopping" ELSE "idle"
    BY <1>0, <1>1 DEF Release, Remove, Goto
  <2>2. owner' # h
    BY <2>1, LockAssumption
  <2> QED BY <1>0, <1>1, <2>1, <2>2 DEF Recorded, Renewed, channels
<1>2. CASE owner # h
  <2>1. UNCHANGED <<key, holdCount>> /\ pc'[h] = "idle"
    BY <1>0, <1>2 DEF Release, Goto
  <2> QED BY <1>0, <1>2, <2>1, CallRenewed DEF Recorded, key
<1> QED BY <1>1, <1>2

LEMMA StopHold ==
    ASSUME LockInv, NEW h \in Handles \ Unreliable, Recorded(h), Renewed(h), StopWait(h)
    PROVE  Recorded(h)' /\ Renewed(h)'
<1>0. /\ pc \in [Handles -> PCs] /\ pc[h] = "stopping" /\ h \in doneClosed
      /\ UNCHANGED <<key, holdCount, task>> /\ pc'[h] = "idle" /\ h \notin doneClosed'
  BY DEF LockInv, TypeOK, StopWait, Goto
<1>1. holdCount[h] = 0 /\ \A k \in TasksOf(h) : task[k] = "none"
  BY <1>0 DEF Renewed
<1>2. oldStop' = oldStop /\ oldDone' = oldDone
  BY <1>1 DEF StopWait
<1> QED BY <1>0, <1>1, <1>2 DEF Recorded, Renewed, key

(* The renewal goroutines.                                                  *)

LEMMA NoPanicOf ==
    ASSUME NEW h \in Handles, NEW k \in TasksOf(h), Renewed(h)
    PROVE  ~(Stopped(h, k) /\ (k \in oldDone \/ h \in doneClosed))
BY DEF Renewed, Stopped

LEMMA TaskHold ==
    ASSUME LockInv, NEW h \in Handles \ Unreliable, NEW k \in TasksOf(h),
           Recorded(h), Renewed(h), TaskStep(h, k)
    PROVE  Recorded(h)' /\ Renewed(h)'
<1>0. /\ task \in [Tasks -> {"none", "spawned", "select", "ticked", "renewing"}]
      /\ \A j \in TasksOf(h) : j \in Tasks
  BY OwnTasks DEF LockInv, TypeOK
<1>1. ~TaskPanic(h, k)
  BY NoPanicOf DEF TaskPanic
<1>2. CASE TaskStop(h, k)
  <2>1. /\ k \notin oldStop /\ pc[h] = "stopping" /\ task[k] # "none"
        /\ \A j \in TasksOf(h) : task[j] # "none" => j = k
        /\ holdCount[h] = 0
    BY <1>2 DEF TaskStop, Stopped, Renewed
  <2>2. /\ \A j \in TasksOf(h) : task'[j] = "none"
        /\ h \in doneClosed' /\ oldStop' \subseteq oldStop
        /\ UNCHANGED <<key, calls, oldDone>>
    BY <1>0, <1>2, <2>1 DEF TaskStop
  <2> QED BY <2>1, <2>2 DEF Recorded, Renewed, key, calls
<1>3. CASE TaskStart(h, k) \/ TaskTick(h, k) \/ RenewStart(h, k) \/ Renew(h, k)
  <2>1. /\ task[k] # "none" /\ task'[k] # "none"
        /\ \A j \in TasksOf(h) : j # k => task'[j] = task[j]
        /\ UNCHANGED calls /\ oldStop' \subseteq oldStop /\ UNCHANGED <<oldDone, doneClosed>>
    BY <1>0, <1>3 DEF TaskStart, TaskTick, RenewStart, Renew, channels
  <2>2. Renewed(h)'
    BY <2>1 DEF Renewed, calls
  <2>3. h \in AutoRenewal
    BY <2>1 DEF Renewed
  <2>4. owner' = h => owner = h /\ hold' = hold
    BY <1>3 DEF TaskStart, TaskTick, RenewStart, Renew, Write, key
  <2> QED BY <2>1, <2>2, <2>3, <2>4 DEF Recorded, calls
<1> QED BY <1>1, <1>2, <1>3 DEF TaskStep

(* The death of the process.                                                *)
LEMMA RestartHold ==
    ASSUME LockInv, NEW h \in Handles \ Unreliable, Recorded(h), Renewed(h), Restart(h)
    PROVE  Recorded(h)' /\ Renewed(h)'
<1>0. /\ pc \in [Handles -> PCs] /\ holdCount \in [Handles -> Nat]
      /\ \A j \in TasksOf(h) : j \in Tasks
  BY OwnTasks DEF LockInv, TypeOK
<1>1. owner' # h /\ pc'[h] = "idle" /\ holdCount'[h] = 0
  BY <1>0, LockAssumption DEF Restart, Goto
<1>2. /\ \A j \in TasksOf(h) : task'[j] = "none" /\ j \notin oldStop' /\ j \notin oldDone'
      /\ h \notin doneClosed'
  BY <1>0 DEF Restart
<1> QED BY <1>1, <1>2 DEF Recorded, Renewed

(* Time, expiry and forced removal.                                         *)
LEMMA EnvironmentHold ==
    ASSUME LockInv, NEW h \in Handles \ Unreliable, Recorded(h), Renewed(h),
           ForceUnlock \/ Expire \/ Tick
    PROVE  Recorded(h)' /\ Renewed(h)'
<1>1. CallKept(h) /\ TasksKept(h)
  BY DEF ForceUnlock, Expire, Tick, calls, channels, CallKept, TasksKept
<1>2. KeyKept(h)
  BY LockAssumption DEF ForceUnlock, Expire, Tick, Remove, KeyKept
<1> QED BY <1>1, <1>2, RecordedFrame, RenewedFrame

-----------------------------------------------------------------------------
(* The invariant and what it implies                                        *)

LEMMA HoldStep ==
    ASSUME Reentrant \cap Unreliable = {}, MaxLag < Lease, HoldInv, [Next]_vars
    PROVE  HoldInv'
<1>1. LockInv /\ LockInv'
  BY LockStep DEF HoldInv
<1>2. SUFFICES ASSUME NEW h \in Handles \ Unreliable PROVE Recorded(h)' /\ Renewed(h)'
  BY <1>1 DEF HoldInv
<1>3. Recorded(h) /\ Renewed(h)
  BY DEF HoldInv
<1>4. CASE UNCHANGED vars
  BY <1>3, <1>4, RecordedFrame, RenewedFrame
     DEF vars, key, calls, channels, KeyKept, CallKept, TasksKept
<1>5. CASE ForceUnlock \/ Expire \/ Tick
  BY <1>1, <1>3, <1>5, EnvironmentHold
<1>6. ASSUME NEW g \in Handles,
             \/ \E w \in {0, WaitTimeout} : LockStart(g, w)
             \/ UnlockStart(g) \/ Continue(g) \/ Crash(g) \/ Fail(g)
             \/ \E k \in TasksOf(g) : TaskStep(g, k) \/ RenewFail(g, k)
      PROVE  Recorded(h)' /\ Renewed(h)'
  <2>1. CASE g # h
    <3>1. KeyKept(h)
      BY <1>1, <1>6, <2>1, OthersKey
    <3>2. CallKept(h) /\ TasksKept(h)
      BY <1>1, <1>6, <2>1, OthersHandle
    <3> QED BY <1>3, <3>1, <3>2, RecordedFrame, RenewedFrame
  <2>2. CASE g = h
    <3>1. ~Fail(h) /\ \A k \in TasksOf(h) : ~RenewFail(h, k)
      BY DEF Fail, RenewFail
    <3>2. CASE Continue(h)
      BY <1>1, <1>3, <3>2, TryHold, LockHold, UpdateHold, ReleaseHold, StopHold DEF Continue
    <3>3. CASE Crash(h)
      BY <1>1, <1>3, <3>3, RestartHold DEF Crash
    <3>4. CASE UnlockStart(h) \/ \E w \in {0, WaitTimeout} : LockStart(h, w)
      BY <1>1, <1>3, <3>4, UnlockHold, LockHold
    <3>5. CASE \E k \in TasksOf(h) : TaskStep(h, k)
      BY <1>1, <1>3, <3>5, TaskHold
    <3> QED BY <1>6, <2>2, <3>1, <3>2, <3>3, <3>4, <3>5
  <2> QED BY <2>1, <2>2
<1> QED BY <1>4, <1>5, <1>6 DEF Next

LEMMA HoldInit == Init => HoldInv
<1> SUFFICES ASSUME Init PROVE HoldInv
  OBVIOUS
<1>1. ASSUME NEW h \in Handles PROVE Recorded(h) /\ Renewed(h)
  BY OwnTasks, LockAssumption DEF Init, Recorded, Renewed
<1> QED BY <1>1, LockInit DEF HoldInv

\* A reliable handle, its key and its renewal goroutine keep agreeing, under the
\* hypotheses of LockInvariant: whatever other handles do, lose or force.
THEOREM HoldInvariant ==
    ASSUME Reentrant \cap Unreliable = {}, MaxLag < Lease
    PROVE  Spec => []HoldInv
<1>1. Init => HoldInv
  BY HoldInit
<1>2. HoldInv /\ [Next]_vars => HoldInv'
  BY HoldStep
<1> QED BY <1>1, <1>2, PTL DEF Spec

\* The hold_count that getLockInfo shows is the count of the holder, between its
\* calls.
THEOREM HoldCountsAgree ==
    ASSUME Reentrant \cap Unreliable = {}, MaxLag < Lease
    PROVE  Spec => []HoldCountAgrees
<1>1. HoldInv => HoldCountAgrees
  <2> SUFFICES ASSUME HoldInv, NEW h \in Handles \ (Unreliable \cup (Reentrant \cap AutoRenewal)),
                      pc[h] = "idle"
               PROVE  holdCount[h] = IF owner = h THEN hold ELSE 0
    BY DEF HoldCountAgrees
  <2>1. Recorded(h) /\ (owner # h => holdCount[h] = 0)
    BY Backed DEF HoldInv
  <2> QED BY <2>1 DEF Recorded
<1> QED BY <1>1, HoldInvariant, PTL

\* renewalTask runs once for each hold and no longer: Unlock leaves no goroutine
\* behind and Lock starts no second one.
THEOREM OneGoroutineRenews ==
    ASSUME Reentrant \cap Unreliable = {}, MaxLag < Lease
    PROVE  Spec => []OneRenewalTask
<1>1. HoldInv => OneRenewalTask
  <2> SUFFICES ASSUME HoldInv, NEW h \in Handles \ Unreliable
               PROVE  /\ Cardinality({k \in TasksOf(h) : task[k] # "none"}) <= 1
                      /\ pc[h] = "idle" =>
                           (holdCount[h] > 0 /\ h \in AutoRenewal
                              <=> \E k \in TasksOf(h) : task[k] # "none")
    BY DEF OneRenewalTask
  <2>1. Renewed(h)
    BY DEF HoldInv
  <2> DEFINE T == {k \in TasksOf(h) : task[k] # "none"}
  <2>2. Cardinality(T) <= 1
    <3>1. CASE T = {}
      BY <3>1, FS_EmptySet
    <3>2. CASE T # {}
      <4>1. PICK k \in T : T = {k}
        BY <2>1, <3>2 DEF Renewed
      <4>2. Cardinality(T) = 1
        BY <4>1, FS_Singleton
      <4> QED BY <4>2
    <3> QED BY <3>1, <3>2
  <2> QED BY <2>1, <2>2 DEF Renewed
<1> QED BY <1>1, HoldInvariant, PTL

\* No process panics because a goroutine closes a renewalDone that is closed, as
\* long as its handle keeps its lease.
THEOREM RenewalsDoNotPanic ==
    ASSUME Reentrant \cap Unreliable = {}, MaxLag < Lease
    PROVE  Spec => []NoPanic
<1>1. HoldInv => NoPanic
  BY NoPanicOf DEF HoldInv, NoPanic
<1> QED BY <1>1, HoldInvariant, PTL

-----------------------------------------------------------------------------
(* What a holder is served                                                  *)

\* h has no error while a call of it runs, and does not attempt to take the
\* lock that it has.
Served(h) ==
    /\ pc[h] # "idle" => h \notin broken
    /\ owner = h => h \notin broken /\ pc[h] \notin {"waiting", "trying"}

ServedInv == \A h \in Reentrant \ (Unreliable \cup AutoRenewal) : Served(h)

(* The steps of other handles.                                              *)
LEMMA OthersServed ==
    ASSUME LockInv, Reentrant \cap Unreliable = {},
           NEW g \in Handles, NEW h \in Handles, g # h, Served(h),
           \/ \E w \in {0, WaitTimeout} : LockStart(g, w)
           \/ UnlockStart(g) \/ Continue(g) \/ Crash(g) \/ Fail(g)
           \/ \E k \in TasksOf(g) : TaskStep(g, k) \/ RenewFail(g, k)
    PROVE  Served(h)'
<1>1. pc'[h] = pc[h] /\ (owner' = h => owner = h)
  BY OthersKey, OthersHandle DEF KeyKept, CallKept
<1>2. h \in broken' => h \in broken
  BY DEF LockStart, UnlockStart, Continue, Check, Attempt, Try, UpdateGet, UpdateSet, Release,
         StopWait, Crash, Restart, Fail, TaskStep, TaskStart, TaskStop, TaskTick, RenewStart,
         Renew, TaskPanic, RenewFail
<1> QED BY <1>1, <1>2 DEF Served

(* The steps of the handle itself, which has no goroutines.                 *)
LEMMA OwnServed ==
    ASSUME LockInv, NEW h \in Reentrant \ (Unreliable \cup AutoRenewal),
           Recorded(h), Renewed(h), Served(h),
           \/ \E w \in {0, WaitTimeout} : LockStart(h, w)
           \/ UnlockStart(h) \/ Continue(h) \/ Crash(h)
    PROVE  Served(h)'
<1>0. /\ h \in Handles \ Unreliable /\ pc \in [Handles -> PCs]
      /\ holdCount \in [Handles -> Nat] /\ h # None /\ h # Gone
  BY LockAssumption DEF LockInv, TypeOK
<1>1. CASE \E w \in {0, WaitTimeout} : LockStart(h, w)
  <2>1. /\ h \notin broken' /\ owner' = owner
        /\ pc'[h] = IF holdCount[h] > 0 THEN "checking" ELSE "waiting"
    BY <1>0, <1>1 DEF LockStart, Goto, key
  <2>2. owner = h => holdCount[h] > 0
    BY DEF Recorded
  <2> QED BY <2>1, <2>2 DEF Served
<1>2. CASE UnlockStart(h)
  <2>1. h \notin broken' /\ pc'[h] \in {"updating", "releasing"}
    BY <1>0, <1>2 DEF UnlockStart, Goto
  <2> QED BY <2>1 DEF Served
<1>3. CASE Check(h)
  <2>1. h \notin broken' /\ pc'[h] \in {"updating", "waiting"} /\ owner' = owner
    BY <1>0, <1>3 DEF Check, Goto, Served, key
  <2>2. owner = h => pc'[h] = "updating"
    BY <1>0, <1>3 DEF Check, Goto, Recorded
  <2> QED BY <2>1, <2>2 DEF Served
<1>4. CASE Attempt(h)
  <2>1. h \notin broken' /\ owner' = owner /\ owner # h
    BY <1>4 DEF Attempt, Served, key
  <2> QED BY <2>1 DEF Served
<1>5. CASE Try(h)
  <2>1. owner # h /\ h \notin broken
    BY <1>5 DEF Try, Served
  <2>2. CASE Acquired(h) /\ UNCHANGED broken
    <3>1. pc'[h] = "idle"
      BY <1>0, <2>2 DEF Acquired, Goto
    <3> QED BY <2>1, <2>2, <3>1 DEF Served
  <2>3. CASE UNCHANGED key /\ (Goto(h, "idle") \/ UNCHANGED broken)
    BY <1>0, <2>1, <2>3 DEF Served, key, Goto
  <2> QED BY <1>5, <2>2, <2>3 DEF Try
<1>6. CASE UpdateGet(h) \/ UpdateSet(h)
  <2>1. h \notin broken /\ owner = h /\ format = "date"
    BY <1>0, <1>6, Updating DEF UpdateGet, UpdateSet, Served, Recorded
  <2>2. h \notin broken' /\ pc'[h] \in {"storing", "idle"}
    BY <1>0, <1>6, <2>1 DEF UpdateGet, UpdateSet, Goto
  <2> QED BY <2>2 DEF Served
<1>7. CASE Release(h) \/ StopWait(h)
  <2>1. h \notin broken' /\ pc'[h] \in {"stopping", "idle"}
    BY <1>0, <1>7 DEF Release, StopWait, Goto, Served
  <2> QED BY <2>1 DEF Served
<1>8. CASE Crash(h)
  <2>1. h \notin broken' /\ pc'[h] = "idle"
    BY <1>0, <1>8 DEF Crash, Restart, Goto
  <2> QED BY <2>1 DEF Served
<1> QED BY <1>1, <1>2, <1>3, <1>4, <1>5, <1>6, <1>7, <1>8 DEF Continue

\* A re-entrant handle that keeps its lease, and does not renew, takes its lock again
\* and releases it again without an error: nobody changes its LockInfo to what
\* updateLockInfo cannot read, and it never attempts to take its own lock.
THEOREM HoldersAreServed ==
    ASSUME Reentrant \cap Unreliable = {}, MaxLag < Lease
    PROVE  Spec => []HolderIsServed
<1>1. Init => ServedInv
  BY LockAssumption DEF Init, ServedInv, Served
<1>2. HoldInv /\ ServedInv /\ [Next]_vars => ServedInv'
  <2> SUFFICES ASSUME HoldInv, ServedInv, [Next]_vars,
                      NEW h \in Reentrant \ (Unreliable \cup AutoRenewal)
               PROVE  Served(h)'
    BY DEF ServedInv
  <2>1. /\ LockInv /\ Recorded(h) /\ Renewed(h) /\ Served(h)
        /\ h \in Handles \ Unreliable
    BY LockAssumption DEF HoldInv, ServedInv
  <2>2. CASE UNCHANGED vars
    BY <2>1, <2>2 DEF vars, key, calls, Served
  <2>3. CASE ForceUnlock \/ Expire \/ Tick
    BY <2>1, <2>3, LockAssumption DEF ForceUnlock, Expire, Tick, Remove, calls, Served
  <2>4. ASSUME NEW g \in Handles,
               \/ \E w \in {0, WaitTimeout} : LockStart(g, w)
               \/ UnlockStart(g) \/ Continue(g) \/ Crash(g) \/ Fail(g)
               \/ \E k \in TasksOf(g) : TaskStep(g, k) \/ RenewFail(g, k)
        PROVE  Served(h)'
    <3>1. CASE g # h
      BY <2>1, <2>4, <3>1, OthersServed
    <3>2. CASE g = h
      <4>1. ~Fail(h) /\ \A k \in TasksOf(h) : ~RenewFail(h, k)
        BY <2>1 DEF Fail, RenewFail
      <4>2. \A k \in TasksOf(h) : ~TaskStep(h, k)
        BY <2>1 DEF Renewed, TaskStep, TaskStart, TaskStop, TaskTick, RenewStart, Renew, TaskPanic,
                    Stopped
      <4> QED BY <2>1, <2>4, <3>2, <4>1, <4>2, OwnServed
    <3> QED BY <3>1, <3>2
  <2> QED BY <2>2, <2>3, <2>4 DEF Next
<1>3. ServedInv => HolderIsServed
  BY DEF ServedInv, Served, HolderIsServed
<1> QED BY <1>1, <1>2, <1>3, HoldInvariant, PTL DEF Spec

=============================================================================
