------------------------------ MODULE FairLock ------------------------------
(***************************************************************************)
(* The fair lock of lock/fair_lock.go: a RedisLock whose callers attempt   *)
(* to take the lock from a waiting queue, a sorted set in Redis.           *)
(*                                                                         *)
(* redisFairLock embeds a redisLock and overrides Lock and Unlock, so this *)
(* module extends RedisLock, and its steps are steps of RedisLock, or of   *)
(* the queue alone.  stage says where a call stands in the parts that are  *)
(* the fair lock's own.  A call in a stage other than "none" holds mu.     *)
(***************************************************************************)
EXTENDS RedisLock, Sequences

Ext == INSTANCE SequencesExt

CONSTANTS
    Deserters,      \* the handles that may die, or whose context may end or
                    \* Redis calls may fail, on their way through the queue
    MaxDead         \* bound: entries of processes that died

ASSUME FairAssumption ==
    /\ Unreliable \subseteq Deserters /\ Deserters \subseteq Handles
    /\ MaxDead \in Nat

VARIABLES
    queue,          \* the entries, by score: who, and the seconds since its score
    stage,          \* what a handle's call does
    first,          \* whether the position it read when it joined is 0
    sweeping,       \* the handles with a cleanupQueue goroutine
    \* history
    ahead           \* the handles whose entries were in the queue when the call of
                    \* a handle came to joinQueue, and have been since

fair     == <<queue, stage, first, sweeping>>
fairVars == <<vars, fair, ahead>>

Stages == {"none", "joining", "asking", "attempting", "leaving", "unlocking"}

\* Bound: an entry this old is older than any sweep asks for.
MaxAge == WaitTimeout + MaxLag

InQueue(h) == \E i \in DOMAIN queue : queue[i].who = h

Enter(h, s) == stage' = [stage EXCEPT ![h] = s]

FairInit ==
    /\ Init
    /\ queue = <<>>
    /\ stage = [h \in Handles |-> "none"]
    /\ first = [h \in Handles |-> FALSE]
    /\ sweeping = {}
    /\ ahead = [h \in Handles |-> {}]

-----------------------------------------------------------------------------
(* Lock and TryLock                                                         *)

\* Up to the waiting queue lockFairInternal is lockInternal.
FairLockStart(h, w) ==
    /\ stage[h] = "none"
    /\ LockStart(h, w)
    /\ Enter(h, IF pc'[h] = "waiting" THEN "joining" ELSE "none")
    /\ UNCHANGED <<queue, first, sweeping>>

Reenter(h) ==
    /\ stage[h] = "none"
    /\ \/ Check(h) /\ Enter(h, IF pc'[h] = "waiting" THEN "joining" ELSE "none")
       \/ (UpdateGet(h) \/ UpdateSet(h)) /\ UNCHANGED stage
    /\ UNCHANGED <<queue, first, sweeping>>

\* ZADD with a score that h read from its clock up to MaxLag seconds ago: the
\* queue is in the order of the scores, not of the calls.  The scores that were
\* in the queue before it read its clock are less.
Insert(h) ==
    \E a \in 0..MaxLag, i \in 1..Len(queue) + 1 :
        /\ \A j \in DOMAIN queue :
              /\ IF j < i THEN queue[j].age >= a ELSE queue[j].age <= a
              /\ queue[j].who \in ahead[h] => j < i
        /\ queue' = Ext!InsertAt(queue, i, [who |-> h, age |-> a])

\* Mutant of Join: a caller that finds its entry takes itself for the first.
JoinTrustsEntry(h) ==
    /\ stage[h] = "joining"
    /\ \/ /\ InQueue(h)
          /\ first' = [first EXCEPT ![h] = TRUE]
          /\ UNCHANGED queue
       \/ /\ ~InQueue(h)
          /\ Insert(h)
          /\ first' = [first EXCEPT ![h] = queue'[1].who = h]
    /\ Enter(h, "asking")
    /\ UNCHANGED <<vars, sweeping>>

\* The script of joinQueue.  (Time to wait is counted from here in the code, from
\* the start of the call in the model.)  For an entry that h has left behind it returns the
\* score, which the caller takes for the position.
Join(h) ==
    /\ stage[h] = "joining"
    /\ \/ /\ InQueue(h)
          /\ first' = [first EXCEPT ![h] = FALSE]
          /\ UNCHANGED queue
       \/ /\ ~InQueue(h)
          /\ Insert(h)
          /\ first' = [first EXCEPT ![h] = queue'[1].who = h]
    /\ Enter(h, "asking")
    /\ UNCHANGED <<vars, sweeping>>

\* An error of joinQueue, before or after it took effect: leaveQueue has not
\* been deferred yet.
JoinFail(h) ==
    /\ h \in Deserters
    /\ stage[h] = "joining"
    /\ Attempt(h) /\ pc'[h] = "idle"
    /\ UNCHANGED queue \/ (h \in Unreliable /\ ~InQueue(h) /\ Insert(h))
    /\ Enter(h, "none")
    /\ UNCHANGED <<first, sweeping>>

\* canAcquireFairLock says yes only to the first, and only when it can read the
\* expire_time of the lock.  FALSE becomes nil, which is an error, too.
MayAttempt(h) == first[h] /\ (owner = None \/ format = "number")

\* The script of canAcquireFairLock, or the end of the caller's context.
Ask(h) ==
    /\ stage[h] = "asking"
    /\ Attempt(h)
    /\ \/ /\ MayAttempt(h)
          /\ pc'[h] = "trying" /\ Enter(h, "attempting")
       \/ /\ ~MayAttempt(h) \/ h \in Deserters
          /\ pc'[h] = "idle" /\ Enter(h, "leaving")
    /\ UNCHANGED <<queue, first, sweeping>>

\* Mutant of FairTry: a caller that got the lock does not leave the queue.
FairTryStays(h) ==
    /\ stage[h] = "attempting"
    /\ Try(h)
    /\ Enter(h, IF pc'[h] = "waiting" THEN "asking"
                ELSE IF holdCount'[h] > 0 THEN "none" ELSE "leaving")
    /\ UNCHANGED <<queue, first, sweeping>>

\* tryAcquireLock.  The position is not read again for the next attempt.
FairTry(h) ==
    /\ stage[h] = "attempting"
    /\ Try(h)
    /\ Enter(h, IF pc'[h] = "waiting" THEN "asking" ELSE "leaving")
    /\ UNCHANGED <<queue, first, sweeping>>

\* The deferred leaveQueue, whose error is ignored.  It uses the context of the
\* call, which may be over.
Leave(h) ==
    /\ stage[h] = "leaving"
    /\ \/ \E i \in DOMAIN queue : queue[i].who = h /\ queue' = Ext!RemoveAt(queue, i)
       \/ (~InQueue(h) \/ h \in Deserters) /\ UNCHANGED queue
    /\ Enter(h, "none")
    /\ first' = [first EXCEPT ![h] = FALSE]
    /\ UNCHANGED <<vars, sweeping>>

-----------------------------------------------------------------------------
(* Unlock                                                                   *)

FairUnlockStart(h) ==
    /\ stage[h] = "none"
    /\ UnlockStart(h)
    /\ Enter(h, "unlocking")
    /\ UNCHANGED <<queue, first, sweeping>>

\* The step of h is one of an Unlock that returns no error.
Unlocks(h) ==
    \/ pc[h] \in {"storing", "stopping"}
    \/ pc[h] = "releasing" /\ owner = h

\* The Unlock of the embedded lock, and cleanupQueue if it succeeds.
FairUnlock(h) ==
    /\ stage[h] = "unlocking"
    /\ UpdateGet(h) \/ UpdateSet(h) \/ Release(h) \/ StopWait(h)
    /\ Enter(h, IF pc'[h] = "idle" THEN "none" ELSE "unlocking")
    /\ sweeping' = IF Unlocks(h) /\ pc'[h] = "idle" THEN sweeping \cup {h} ELSE sweeping
    /\ UNCHANGED <<queue, first>>

\* The script of cleanupQueue, with a clock read up to MaxLag seconds ago: the
\* entries with an old score, which are the first.  An error is ignored, like
\* that of a context that has ended.
Sweep(h) ==
    /\ h \in sweeping
    /\ sweeping' = sweeping \ {h}
    /\ \/ \E l \in 0..MaxLag, n \in 0..Len(queue) :
             /\ \A i \in 1..n : queue[i].age >= WaitTimeout + l
             /\ \A i \in n+1..Len(queue) : queue[i].age < WaitTimeout + l
             /\ queue' = SubSeq(queue, n + 1, Len(queue))
       \/ h \in Deserters /\ UNCHANGED queue
    /\ UNCHANGED <<vars, stage, first>>

-----------------------------------------------------------------------------
(* The environment                                                          *)

\* The process of h has died: nobody owns its entry any more.
Orphan(h) ==
    /\ InQueue(h) => Cardinality({i \in DOMAIN queue : queue[i].who = Gone}) < MaxDead
    /\ queue' = [i \in DOMAIN queue |->
                    IF queue[i].who = h THEN [queue[i] EXCEPT !.who = Gone] ELSE queue[i]]
    /\ Enter(h, "none")
    /\ first' = [first EXCEPT ![h] = FALSE]
    /\ sweeping' = sweeping \ {h}

Die(h) ==
    /\ h \in Deserters \/ stage[h] \in {"none", "unlocking"}
    /\ Crash(h) \/ \E k \in TasksOf(h) : TaskPanic(h, k)
    /\ Orphan(h)

FairFail(h) ==
    /\ Fail(h)
    /\ Enter(h, IF stage[h] = "attempting" THEN "leaving"
                ELSE IF pc'[h] = "waiting" THEN "joining" ELSE "none")
    /\ UNCHANGED <<queue, first, sweeping>>

\* renewLock cannot take mu while a call waits in the queue.
FairTask(h, k) ==
    /\ \/ TaskStart(h, k) \/ TaskStop(h, k) \/ TaskTick(h, k)
       \/ Renew(h, k) \/ RenewFail(h, k)
       \/ stage[h] = "none" /\ RenewStart(h, k)
    /\ UNCHANGED fair

\* Delete removes the waiting queue with the lock.
FairDelete ==
    /\ ForceUnlock \/ (owner = None /\ UNCHANGED vars)
    /\ queue # <<>>
    /\ queue' = <<>>
    /\ UNCHANGED <<stage, first, sweeping>>

FairTick ==
    /\ Tick
    /\ queue' = [i \in DOMAIN queue |->
                    [queue[i] EXCEPT !.age = IF @ < MaxAge THEN @ + 1 ELSE @]]
    /\ UNCHANGED <<stage, first, sweeping>>

-----------------------------------------------------------------------------
FairContinue(h) ==
    Reenter(h) \/ Join(h) \/ Ask(h) \/ FairTry(h) \/ Leave(h) \/ FairUnlock(h)

\* ahead follows the step.
Remember ==
    ahead' = [h \in Handles |->
                 {g \in IF stage[h] # "joining" /\ stage'[h] = "joining"
                        THEN Handles \ {h} ELSE ahead[h] :
                     InQueue(g)' /\ stage'[h] # "none"}]

FairStep ==
    \/ \E h \in Handles :
          \/ \E w \in {0, WaitTimeout} : FairLockStart(h, w)
          \/ FairUnlockStart(h) \/ FairContinue(h) \/ Sweep(h)
          \/ JoinFail(h) \/ FairFail(h) \/ Die(h)
          \/ \E k \in TasksOf(h) : FairTask(h, k)
    \/ FairDelete
    \/ (ForceUnlock \/ Expire) /\ UNCHANGED fair
    \/ FairTick

FairNext == FairStep /\ Remember

FairLockSpec == FairInit /\ [][FairNext]_fairVars

\* Calls and goroutines go on, time passes, and a reliable holder unlocks.
LiveFairLock ==
    /\ FairLockSpec
    /\ \A h \in Handles :
          /\ WF_fairVars(FairContinue(h) /\ Remember)
          /\ WF_fairVars(Sweep(h) /\ Remember)
          /\ h \notin Unreliable => WF_fairVars(FairUnlockStart(h) /\ Remember)
          /\ \A k \in TasksOf(h) : WF_fairVars(FairTask(h, k) /\ Remember)
    /\ WF_fairVars((FairTick \/ (Expire /\ UNCHANGED fair)) /\ Remember)

-----------------------------------------------------------------------------
(* Properties                                                               *)

\* The types of what the fair lock adds.
FairTypeOK ==
    /\ TypeOK
    /\ queue \in Seq([who : Handles \cup {Gone}, age : 0..MaxAge])
    /\ stage \in [Handles -> Stages]
    /\ first \in [Handles -> BOOLEAN]
    /\ sweeping \subseteq Handles
    /\ ahead \in [Handles -> SUBSET Handles]

\* An entry in the queue is that of a call that will remove it, unless its
\* process died or its context ended: a caller that got the lock, or an error,
\* stands in nobody's way.
QueueHoldsCallers ==
    \A i \in DOMAIN queue :
        queue[i].who \in Handles \ Deserters =>
            stage[queue[i].who] \in {"asking", "attempting", "leaving"}

\* stage and pc describe the same call.
StageAgrees ==
    \A h \in Handles :
        /\ stage[h] \in {"joining", "asking"} <=> pc[h] = "waiting"
        /\ stage[h] = "attempting" <=> pc[h] = "trying"
        /\ stage[h] = "leaving" => pc[h] = "idle"
        /\ stage[h] = "unlocking" => pc[h] \in {"updating", "storing", "releasing", "stopping"}

\* The queue is in the order of the scores, and a handle has one entry at most.
QueueOrdered ==
    \A i, j \in DOMAIN queue : i < j =>
        /\ queue[i].age >= queue[j].age
        /\ queue[i].who \in Handles => queue[i].who # queue[j].who

\* What every step of the fair lock preserves.
FairInv == FairTypeOK /\ StageAgrees /\ QueueHoldsCallers /\ QueueOrdered

\* FIFO, as far as the code keeps it: a caller attempts to take the lock only when
\* every entry that was in the queue before its call came to it has left the
\* queue, however old the position is that it goes by, and whatever joins late,
\* is swept or is left behind meanwhile.
InTurn == \A h \in Handles : stage[h] = "attempting" => ahead[h] = {}

\* The hand-over that README.md and the tests promise: a lock that is free while
\* a caller waits for it in the queue is taken.
FreeLockIsTaken ==
    \A h \in Handles \ Deserters :
        stage[h] = "asking" /\ wait[h] > 0 /\ owner = None ~> owner # None

=============================================================================
