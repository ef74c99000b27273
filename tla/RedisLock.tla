----------------------------- MODULE RedisLock -----------------------------
(***************************************************************************)
(* The distributed lock of lock/lock.go: one lock name, the handles that   *)
(* NewLock returns for it, and the renewal goroutines they start.          *)
(*                                                                         *)
(* A handle's methods run under its mutex mu, so a handle carries out one  *)
(* call at a time, whichever goroutine makes it: pc says where that call   *)
(* stands, and a handle whose pc is not "idle" holds mu.  renewLock takes  *)
(* mu for reading.  A step is one round trip to Redis.                     *)
(*                                                                         *)
(* Time is in seconds, as in the scripts.  Everything that is a date in    *)
(* the code is the number of seconds left until it.                        *)
(***************************************************************************)
EXTENDS Integers, FiniteSets

CONSTANTS
    Handles,        \* the redisLock objects
    None,           \* nobody
    Gone,           \* an owner whose process died
    Lease,          \* LeaseDuration
    WaitTimeout,    \* WaitTimeout
    Reentrant,      \* the handles configured with Reentrant
    AutoRenewal,    \* the handles configured with AutoRenewal
    Unreliable,     \* the handles that may outlive their lease and whose Redis
                    \* calls may fail
    Forced,         \* those of them whose lock others may delete
    MaxLag,         \* bound: seconds between reading the clock and the script
    MaxHold,        \* bound: holdCount
    MaxTasks        \* bound: renewal goroutines of one handle

ASSUME LockAssumption ==
    /\ None \notin Handles /\ Gone \notin Handles /\ None # Gone
    /\ Lease \in Nat \ {0} /\ WaitTimeout \in Nat \ {0}
    /\ Reentrant \subseteq Handles
    /\ AutoRenewal \subseteq Handles
    /\ Unreliable \subseteq Handles /\ Forced \subseteq Unreliable
    /\ MaxLag \in Nat /\ MaxHold \in Nat /\ MaxTasks \in Nat

VARIABLES
    \* Redis: the key lock:<name>
    owner,       \* owner and thread_id of the stored LockInfo, None for no key
    format,      \* how expire_time is written: "date" by Go, "number" by renewLock
    expire,      \* its value when it is a number: seconds left, may be negative
    hold,        \* hold_count
    ttl,         \* time to live of the key
    \* the handles
    pc,
    holdCount,
    wait,        \* seconds left of the wait timeout of the call; 0 for TryLock
    copy,        \* the owner of the LockInfo that updateLockInfo has read
    lag,         \* seconds since the call, or the renewal, read its clock
    \* the renewal goroutines, and the channels of the handles
    task,
    oldStop,     \* the goroutines that wait on a renewalStop since replaced
    oldDone,     \* the goroutines that will close a renewalDone since replaced
    doneClosed,  \* the handles whose renewalDone is closed
    \* history
    lease,       \* seconds a handle may still rely on the lock, by its own clock
    broken       \* the handles whose last call failed though nothing was wrong

key      == <<owner, format, expire, hold, ttl>>
calls    == <<pc, holdCount, wait, copy>>
channels == <<oldStop, oldDone, doneClosed>>
vars     == <<key, calls, lag, task, channels, lease, broken>>

Tasks == Handles \X (1..MaxTasks)
TasksOf(h) == {h} \X (1..MaxTasks)

PCs == {"idle", "checking", "updating", "storing", "trying", "waiting",
        "releasing", "stopping"}

\* mu can be taken for writing, for reading.
Free(h)     == pc[h] = "idle" /\ \A k \in TasksOf(h) : task[k] # "renewing"
Readable(h) == pc[h] = "idle"

Init ==
    /\ owner = None /\ format = "date" /\ expire = 0 /\ hold = 0 /\ ttl = 0
    /\ pc = [h \in Handles |-> "idle"]
    /\ holdCount = [h \in Handles |-> 0]
    /\ wait = [h \in Handles |-> 0]
    /\ copy = [h \in Handles |-> None]
    /\ lag = [a \in Handles \cup Tasks |-> 0]
    /\ task = [k \in Tasks |-> "none"]
    /\ oldStop = {} /\ oldDone = {} /\ doneClosed = {}
    /\ lease = [h \in Handles |-> 0]
    /\ broken = {}

Goto(h, l) == pc' = [pc EXCEPT ![h] = l]

\* SET with EX: the key is written and lives for a whole lease.
Write(o, f, e, n) ==
    /\ owner' = o /\ format' = f /\ expire' = e /\ hold' = n
    /\ ttl' = Lease

Remove ==
    /\ owner' = None /\ format' = "date" /\ expire' = 0 /\ hold' = 0
    /\ ttl' = 0

-----------------------------------------------------------------------------
(* Lock and TryLock.  TryLockWithTimeout does not block and so never looks  *)
(* at its timeout: it is TryLock.                                           *)

\* Mutant of LockStart: the re-entrancy check is left out.
LockStartUnchecked(h, w) ==
    /\ Free(h)
    /\ holdCount[h] < MaxHold
    /\ h \notin Unreliable /\ owner = h /\ w > 0 => format = "date"
    /\ Goto(h, "waiting")
    /\ wait' = [wait EXCEPT ![h] = w]
    /\ broken' = broken \ {h}
    /\ UNCHANGED <<key, holdCount, copy, lag, task, channels, lease>>

\* lockInternal takes mu.  w is the time it may wait.  (A reliable handle does not
\* wait for a lock of its own that has been renewed: its renewal would wait for
\* the call, and its lease would end.  An unreliable one may.)
LockStart(h, w) ==
    /\ Free(h)
    /\ holdCount[h] < MaxHold
    /\ h \notin Unreliable /\ owner = h /\ w > 0 => format = "date"
    /\ Goto(h, IF h \in Reentrant /\ holdCount[h] > 0 THEN "checking" ELSE "waiting")
    /\ wait' = [wait EXCEPT ![h] = w]
    /\ broken' = broken \ {h}
    /\ UNCHANGED <<key, holdCount, copy, lag, task, channels, lease>>

\* The re-entrancy check: a LockInfo that Go cannot parse, because expire_time
\* has become a number, is treated like a lock held by somebody else.
Check(h) ==
    /\ pc[h] = "checking"
    /\ \/ /\ owner = h /\ format = "date"
          /\ holdCount' = [holdCount EXCEPT ![h] = @ + 1]
          /\ Goto(h, "updating")
       \/ /\ owner # h \/ format = "number"
          /\ Goto(h, "waiting")
          /\ UNCHANGED holdCount
    /\ UNCHANGED <<key, wait, copy, lag, task, channels, lease, broken>>

\* The script finds no lock, or one whose expire_time it can read and has
\* passed on the clock the caller read lag seconds ago.
Acquirable(h) == owner = None \/ (format = "number" /\ expire + lag[h] <= 0)

\* What became of an attempt of h that holds the lock now.
Acquired(h) ==
    /\ holdCount' = [holdCount EXCEPT ![h] = 1]
    /\ lease' = [lease EXCEPT ![h] = Lease - lag[h]]
    /\ Goto(h, "idle")
    /\ \/ /\ h \notin AutoRenewal
          /\ UNCHANGED task
       \/ /\ h \in AutoRenewal
          /\ \E k \in TasksOf(h) : /\ task[k] = "none"
                                   /\ task' = [task EXCEPT ![k] = "spawned"]

\* Mutant of Try: the wait timeout is not looked at.
TryNeverGivesUp(h) ==
    /\ pc[h] = "trying"
    /\ lag' = [lag EXCEPT ![h] = 0]
    /\ \/ /\ Acquirable(h)
          /\ Write(h, "date", 0, 1)
          /\ Acquired(h)
          /\ UNCHANGED broken
       \/ /\ owner # None /\ format = "date"
          /\ Goto(h, "idle")
          /\ broken' = broken \cup {h}
          /\ UNCHANGED <<key, holdCount, lease, task>>
       \/ /\ owner # None /\ format = "number" /\ ~Acquirable(h)
          /\ Goto(h, "waiting")
          /\ UNCHANGED <<key, holdCount, lease, task, broken>>
    /\ UNCHANGED <<wait, copy, channels>>

\* The script of tryAcquireLock.  A date is not a number and makes it fail.
Try(h) ==
    /\ pc[h] = "trying"
    /\ lag' = [lag EXCEPT ![h] = 0]
    /\ \/ /\ Acquirable(h)
          /\ Write(h, "date", 0, 1)
          /\ Acquired(h)
          /\ UNCHANGED broken
       \/ /\ owner # None /\ format = "date"
          /\ Goto(h, "idle")
          /\ broken' = broken \cup {h}
          /\ UNCHANGED <<key, holdCount, lease, task>>
       \/ /\ owner # None /\ format = "number" /\ ~Acquirable(h)
          /\ Goto(h, IF wait[h] = 0 THEN "idle" ELSE "waiting")
          /\ UNCHANGED <<key, holdCount, lease, task, broken>>
    /\ UNCHANGED <<wait, copy, channels>>

\* The first attempt, or the next when RetryInterval is over; none when the
\* caller's context is.
Attempt(h) ==
    /\ pc[h] = "waiting"
    /\ Goto(h, "trying") \/ Goto(h, "idle")
    /\ UNCHANGED <<key, holdCount, wait, copy, lag, task, channels, lease, broken>>

-----------------------------------------------------------------------------
(* updateLockInfo: a GET and a SET.                                         *)

\* holdCount has been changed already.  Whose LockInfo it is, is not checked.
UpdateGet(h) ==
    /\ pc[h] = "updating"
    /\ \/ /\ owner # None /\ format = "date"
          /\ copy' = [copy EXCEPT ![h] = owner]
          /\ Goto(h, "storing")
          /\ UNCHANGED broken
       \/ /\ owner # None /\ format = "number"
          /\ broken' = broken \cup {h}
          /\ Goto(h, "idle")
          /\ UNCHANGED copy
       \/ /\ owner = None
          /\ Goto(h, "idle")
          /\ UNCHANGED <<copy, broken>>
    /\ UNCHANGED <<key, holdCount, wait, lag, task, channels, lease>>

UpdateSet(h) ==
    /\ pc[h] = "storing"
    /\ Write(copy[h], "date", 0, holdCount[h])
    /\ copy' = [copy EXCEPT ![h] = None]
    /\ lease' = [lease EXCEPT ![h] = IF copy[h] = h THEN Lease ELSE @]
    /\ Goto(h, "idle")
    /\ UNCHANGED <<holdCount, wait, lag, task, channels, broken>>

-----------------------------------------------------------------------------
(* Unlock                                                                   *)

\* Mutant of UnlockStart: the stored hold_count is not updated.
UnlockKeepsRecord(h) ==
    /\ Free(h)
    /\ holdCount[h] > 0
    /\ \/ /\ h \in Reentrant /\ holdCount[h] > 1
          /\ holdCount' = [holdCount EXCEPT ![h] = @ - 1]
          /\ UNCHANGED pc
       \/ /\ h \notin Reentrant \/ holdCount[h] = 1
          /\ Goto(h, "releasing")
          /\ UNCHANGED holdCount
    /\ broken' = broken \ {h}
    /\ UNCHANGED <<key, wait, copy, lag, task, channels, lease>>

UnlockStart(h) ==
    /\ Free(h)
    /\ holdCount[h] > 0
    /\ \/ /\ h \in Reentrant /\ holdCount[h] > 1
          /\ holdCount' = [holdCount EXCEPT ![h] = @ - 1]
          /\ Goto(h, "updating")
       \/ /\ h \notin Reentrant \/ holdCount[h] = 1
          /\ Goto(h, "releasing")
          /\ UNCHANGED holdCount
    /\ broken' = broken \ {h}
    /\ UNCHANGED <<key, wait, copy, lag, task, channels, lease>>

\* Mutant of Release: the owner is not compared.
ReleaseAnyOwner(h) ==
    /\ pc[h] = "releasing"
    /\ \/ /\ owner # None
          /\ Remove
          /\ holdCount' = [holdCount EXCEPT ![h] = 0]
          /\ lease' = [lease EXCEPT ![h] = 0]
          /\ Goto(h, IF h \in AutoRenewal THEN "stopping" ELSE "idle")
       \/ /\ owner = None
          /\ Goto(h, "idle")
          /\ UNCHANGED <<key, holdCount, lease>>
    /\ UNCHANGED <<wait, copy, lag, task, channels, broken>>

\* The script of releaseLock, then close(renewalStop).  A handle that finds
\* its lock lost keeps its holdCount and its renewal goroutine.
Release(h) ==
    /\ pc[h] = "releasing"
    /\ \/ /\ owner = h
          /\ Remove
          /\ holdCount' = [holdCount EXCEPT ![h] = 0]
          /\ lease' = [lease EXCEPT ![h] = 0]
          /\ Goto(h, IF h \in AutoRenewal THEN "stopping" ELSE "idle")
       \/ /\ owner # h
          /\ Goto(h, "idle")
          /\ UNCHANGED <<key, holdCount, lease>>
    /\ UNCHANGED <<wait, copy, lag, task, channels, broken>>

\* Mutant of StopWait: the goroutine is not waited for.
StopWithoutWait(h) ==
    /\ pc[h] = "stopping"
    /\ doneClosed' = doneClosed \ {h}
    /\ oldStop' = oldStop \cup {k \in TasksOf(h) : task[k] = "select"}
    /\ oldDone' = oldDone \cup {k \in TasksOf(h) : task[k] \notin {"none", "spawned"}}
    /\ Goto(h, "idle")
    /\ UNCHANGED <<key, holdCount, wait, copy, lag, task, lease, broken>>

\* <-renewalDone, and both channels are made anew.
StopWait(h) ==
    /\ pc[h] = "stopping"
    /\ h \in doneClosed
    /\ doneClosed' = doneClosed \ {h}
    /\ oldStop' = oldStop \cup {k \in TasksOf(h) : task[k] = "select"}
    /\ oldDone' = oldDone \cup {k \in TasksOf(h) : task[k] \notin {"none", "spawned"}}
    /\ Goto(h, "idle")
    /\ UNCHANGED <<key, holdCount, wait, copy, lag, task, lease, broken>>

\* ForceUnlock and Delete, called by anyone at any time.
ForceUnlock ==
    /\ owner \in Forced \cup {Gone}
    /\ Remove
    /\ lease' = [h \in Handles |-> IF h = owner THEN 0 ELSE lease[h]]
    /\ UNCHANGED <<calls, lag, task, channels, broken>>

-----------------------------------------------------------------------------
(* renewalTask.  A goroutine keeps the renewalDone it found when it started *)
(* and looks up renewalStop each time it waits.                             *)

TaskStart(h, k) ==
    /\ task[k] = "spawned"
    /\ task' = [task EXCEPT ![k] = "select"]
    /\ UNCHANGED <<key, calls, lag, channels, lease, broken>>

\* The renewalStop that k waits on is closed.
Stopped(h, k) == task[k] = "select" /\ (k \in oldStop \/ pc[h] = "stopping")

\* It returns and closes its renewalDone.
TaskStop(h, k) ==
    /\ Stopped(h, k)
    /\ k \notin oldDone /\ h \notin doneClosed
    /\ doneClosed' = doneClosed \cup {h}
    /\ task' = [task EXCEPT ![k] = "none"]
    /\ oldStop' = oldStop \ {k}
    /\ UNCHANGED <<key, calls, lag, oldDone, lease, broken>>

TaskTick(h, k) ==
    /\ task[k] = "select"
    /\ task' = [task EXCEPT ![k] = "ticked"]
    /\ oldStop' = oldStop \ {k}
    /\ UNCHANGED <<key, calls, lag, oldDone, doneClosed, lease, broken>>

\* renewLock waits for mu.
RenewStart(h, k) ==
    /\ task[k] = "ticked"
    /\ Readable(h)
    /\ task' = [task EXCEPT ![k] = IF holdCount[h] = 0 THEN "select" ELSE "renewing"]
    /\ UNCHANGED <<key, calls, lag, channels, lease, broken>>

\* Mutant of Renew: the script renews whoever holds the lock.
RenewAnyOwner(h, k) ==
    /\ task[k] = "renewing"
    /\ \/ /\ owner # None
          /\ Write(owner, "number", Lease - lag[k], hold)
          /\ lease' = [lease EXCEPT ![h] = Lease - lag[k]]
       \/ /\ owner = None
          /\ UNCHANGED <<key, lease>>
    /\ task' = [task EXCEPT ![k] = "select"]
    /\ lag' = [lag EXCEPT ![k] = 0]
    /\ UNCHANGED <<calls, channels, broken>>

\* Its script: the dates of a lock that is still the handle's own are replaced
\* by numbers.
Renew(h, k) ==
    /\ task[k] = "renewing"
    /\ \/ /\ owner = h
          /\ Write(h, "number", Lease - lag[k], hold)
          /\ lease' = [lease EXCEPT ![h] = Lease - lag[k]]
       \/ /\ owner # h
          /\ UNCHANGED <<key, lease>>
    /\ task' = [task EXCEPT ![k] = "select"]
    /\ lag' = [lag EXCEPT ![k] = 0]
    /\ UNCHANGED <<calls, channels, broken>>

-----------------------------------------------------------------------------
(* The environment                                                          *)

\* The process of h dies, and all it remembered; a new one starts.
Restart(h) ==
    /\ owner' = IF owner = h THEN Gone ELSE owner
    /\ copy' = [g \in Handles |-> IF g = h THEN None
                                  ELSE IF copy[g] = h THEN Gone ELSE copy[g]]
    /\ Goto(h, "idle")
    /\ holdCount' = [holdCount EXCEPT ![h] = 0]
    /\ wait' = [wait EXCEPT ![h] = 0]
    /\ lag' = [a \in Handles \cup Tasks |-> IF a \in {h} \cup TasksOf(h) THEN 0 ELSE lag[a]]
    /\ task' = [k \in Tasks |-> IF k \in TasksOf(h) THEN "none" ELSE task[k]]
    /\ oldStop' = oldStop \ TasksOf(h)
    /\ oldDone' = oldDone \ TasksOf(h)
    /\ doneClosed' = doneClosed \ {h}
    /\ lease' = [lease EXCEPT ![h] = 0]
    /\ broken' = broken \ {h}
    /\ UNCHANGED <<format, expire, hold, ttl>>

Crash(h) == (pc[h] # "idle" \/ holdCount[h] > 0) /\ Restart(h)

\* A goroutine closes a channel that is closed: the process panics.
TaskPanic(h, k) ==
    /\ Stopped(h, k)
    /\ k \in oldDone \/ h \in doneClosed
    /\ Restart(h)

\* A Redis call of h returns an error, before or after it took effect.  The
\* re-entrancy check goes on to the attempts.
Fail(h) ==
    /\ h \in Unreliable
    /\ pc[h] \in {"checking", "updating", "storing", "trying", "releasing"}
    /\ \/ UNCHANGED key
       \/ pc[h] = "trying" /\ Acquirable(h) /\ Write(h, "date", 0, 1)
       \/ pc[h] = "releasing" /\ owner = h /\ Remove
       \/ pc[h] = "storing" /\ Write(copy[h], "date", 0, holdCount[h])
    /\ Goto(h, IF pc[h] = "checking" THEN "waiting" ELSE "idle")
    /\ lag' = [lag EXCEPT ![h] = 0]
    /\ copy' = [copy EXCEPT ![h] = None]
    /\ UNCHANGED <<holdCount, wait, task, channels, broken>>
    /\ lease' = [lease EXCEPT ![h] = IF owner = h /\ owner' = None THEN 0 ELSE @]

\* renewalTask drops the result of renewLock: a reply that is lost is a Renew.
RenewFail(h, k) ==
    /\ h \in Unreliable
    /\ task[k] = "renewing"
    /\ task' = [task EXCEPT ![k] = "select"]
    /\ lag' = [lag EXCEPT ![k] = 0]
    /\ UNCHANGED <<key, calls, channels, lease, broken>>

Expire ==
    /\ owner # None /\ ttl = 0
    /\ Remove
    /\ UNCHANGED <<calls, lag, task, channels, lease, broken>>

\* The calls and goroutines that have read their clock.
Timed == {h \in Handles : pc[h] = "trying"} \cup {k \in Tasks : task[k] = "renewing"}

Decrement(n) == IF n > 0 THEN n - 1 ELSE 0

\* A second passes.  A reliable handle renews or unlocks before its lease ends.
Tick ==
    /\ owner = None \/ ttl > 0
    /\ owner \in Handles \ Unreliable => lease[owner] > 1
    /\ \A a \in Timed : lag[a] < MaxLag
    /\ ttl' = Decrement(ttl)
    /\ expire' = IF format = "number" THEN expire - 1 ELSE expire
    /\ lag' = [a \in DOMAIN lag |-> IF a \in Timed THEN lag[a] + 1 ELSE 0]
    /\ lease' = [h \in Handles |-> Decrement(lease[h])]
    /\ wait' = [h \in Handles |-> IF pc[h] \in {"trying", "waiting"}
                                  THEN Decrement(wait[h]) ELSE wait[h]]
    /\ UNCHANGED <<owner, format, hold, pc, holdCount, copy, task, channels, broken>>

-----------------------------------------------------------------------------
\* A call that has begun goes on.
Continue(h) ==
    \/ Check(h) \/ Try(h) \/ Attempt(h) \/ UpdateGet(h) \/ UpdateSet(h)
    \/ Release(h) \/ StopWait(h)

TaskStep(h, k) ==
    \/ TaskStart(h, k) \/ TaskStop(h, k) \/ TaskTick(h, k)
    \/ RenewStart(h, k) \/ Renew(h, k) \/ TaskPanic(h, k)

Next ==
    \/ \E h \in Handles :
          \/ \E w \in {0, WaitTimeout} : LockStart(h, w)
          \/ UnlockStart(h) \/ Continue(h) \/ Crash(h) \/ Fail(h)
          \/ \E k \in TasksOf(h) : TaskStep(h, k) \/ RenewFail(h, k)
    \/ ForceUnlock \/ Expire \/ Tick

Spec == Init /\ [][Next]_vars

\* Calls and goroutines go on, time passes, and a reliable holder unlocks.  A select
\* does not always choose the tick when renewalStop is closed, too.
LockFairness ==
    /\ \A h \in Handles :
          /\ WF_vars(Continue(h))
          /\ h \notin Unreliable => WF_vars(UnlockStart(h))
          /\ \A k \in TasksOf(h) : WF_vars(TaskStep(h, k)) /\ SF_vars(TaskStop(h, k))
    /\ WF_vars(Tick \/ Expire)

FairSpec == Spec /\ LockFairness

-----------------------------------------------------------------------------
(* Properties                                                               *)

TypeOK ==
    /\ owner \in Handles \cup {None, Gone}
    /\ format \in {"date", "number"} /\ expire \in Int /\ hold \in Nat /\ ttl \in Nat
    /\ pc \in [Handles -> PCs]
    /\ holdCount \in [Handles -> Nat] /\ wait \in [Handles -> Nat]
    /\ copy \in [Handles -> Handles \cup {None, Gone}]
    /\ lag \in [Handles \cup Tasks -> Nat]
    /\ task \in [Tasks -> {"none", "spawned", "select", "ticked", "renewing"}]
    /\ oldStop \subseteq Tasks /\ oldDone \subseteq Tasks /\ doneClosed \subseteq Handles
    /\ lease \in [Handles -> Int] /\ broken \subseteq Handles

\* Two handles never rely on the lock at the same time: as long as a holder's
\* lease has not ended by its own clock, no other has acquired the lock,
\* whatever is renewed, lost, force-unlocked or restarted meanwhile.
LeaseMutex ==
    \A g, h \in Handles : lease[g] > 0 /\ lease[h] > 0 => g = h

\* The lock is a lease lock that all handles have for themselves: see LeaseLock.
Leases == INSTANCE LeaseLock WITH
              Clients <- Handles, Exclusive <- Handles,
              relying <- {h \in Handles : lease[h] > 0}
ImplementsLeases == Leases!Spec

(* The inductive invariant behind LeaseMutex.                               *)

\* A lease that has not ended is the owner's, and neither the key nor the
\* expire_time that renewLock wrote ends before it.
LeaseIsBacked ==
    \A h \in Handles : lease[h] > 0 =>
        /\ owner = h
        /\ lease[h] <= ttl
        /\ format = "number" => lease[h] <= expire

\* A reliable handle has the lock while it counts holds, with time left.
ReliableHolds ==
    \A h \in Handles \ Unreliable :
        /\ holdCount[h] > 0 => owner = h
        /\ owner = h => lease[h] > 0

\* Only re-entrant handles update, and what they write back is their own.
UpdatesOwn ==
    \A h \in Handles :
        /\ pc[h] \in {"checking", "updating", "storing"} => h \in Reentrant
        /\ pc[h] \in {"updating", "storing"} => holdCount[h] > 0
        /\ pc[h] = "storing" => copy[h] = h

LagBounded == \A a \in Handles \cup Tasks : lag[a] <= MaxLag

LockInv == TypeOK /\ LeaseIsBacked /\ ReliableHolds /\ UpdatesOwn /\ LagBounded

\* Between its calls, the hold_count others can read is the one a holder has.  (A
\* handle that is re-entrant and renews cannot read its own LockInfo any more.)
HoldCountAgrees ==
    \A h \in Handles \ (Unreliable \cup (Reentrant \cap AutoRenewal)) :
        pc[h] = "idle" => holdCount[h] = IF owner = h THEN hold ELSE 0

\* A handle has at most one renewal goroutine, and none without a hold.
OneRenewalTask ==
    \A h \in Handles \ Unreliable :
        /\ Cardinality({k \in TasksOf(h) : task[k] # "none"}) <= 1
        /\ pc[h] = "idle" =>
             (holdCount[h] > 0 /\ h \in AutoRenewal
                <=> \E k \in TasksOf(h) : task[k] # "none")

\* No goroutine of a handle is about to close a renewalDone that is closed: however
\* often the lock is taken, renewed and released, the process does not panic.
NoPanic ==
    \A h \in Handles \ Unreliable : \A k \in TasksOf(h) :
        ~(Stopped(h, k) /\ (k \in oldDone \/ h \in doneClosed))

(* The inductive invariant behind HoldCountAgrees, OneRenewalTask, NoPanic. *)

\* The owner counts its holds, and the key has the same count unless a call of the
\* owner is about to write it; only renewLock writes expire_time as a number.
Recorded(h) ==
    owner = h =>
        /\ holdCount[h] > 0
        /\ h \in Reentrant \cap AutoRenewal \/ pc[h] \in {"updating", "storing"}
             \/ hold = holdCount[h]
        /\ h \in AutoRenewal \/ format = "date"

\* A renewal goroutine lives as long as a hold, or until Unlock, which waits for
\* it, has seen it close its renewalDone, the only one there is.
Renewed(h) ==
    /\ \A k \in TasksOf(h) :
          /\ k \notin oldStop /\ k \notin oldDone
          /\ task[k] # "none" =>
               /\ h \in AutoRenewal
               /\ holdCount[h] > 0 \/ (pc[h] = "stopping" /\ h \notin doneClosed)
               /\ \A j \in TasksOf(h) : task[j] # "none" => j = k
    /\ h \in AutoRenewal /\ (holdCount[h] > 0 \/ (pc[h] = "stopping" /\ h \notin doneClosed))
         => \E k \in TasksOf(h) : task[k] # "none"
    /\ pc[h] = "stopping" => holdCount[h] = 0 /\ h \in AutoRenewal
    /\ h \in doneClosed => pc[h] = "stopping"

HoldInv == LockInv /\ \A h \in Handles \ Unreliable : Recorded(h) /\ Renewed(h)

\* A handle that has the lock takes it again and releases it again without an error,
\* whatever others do to the key between its calls.  (One that renews, too, has errors
\* once the renewal has written numbers that Go cannot read.)
HolderIsServed ==
    \A h \in Reentrant \ (Unreliable \cup AutoRenewal) : owner = h => h \notin broken

\* Every call returns.
CallsReturn == \A h \in Handles : pc[h] # "idle" ~> pc[h] = "idle"

\* Every call returns, of the handles without renewal.
CallsReturnUnrenewed ==
    \A h \in Handles \ AutoRenewal : pc[h] # "idle" ~> pc[h] = "idle"

\* The lock of a process that died becomes free.
OrphanExpires == owner = Gone ~> owner # Gone

=============================================================================
