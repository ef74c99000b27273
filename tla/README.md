# Remix in TLA+

Remix is a Go port of parts of Redisson: a reliable queue (`reliablequeue/`)
and distributed locks (`lock/`), both kept in Redis and used by any number of
processes at once. This directory models their concurrency: what two
consumers, a cleanup goroutine, a renewal goroutine, a crash or a late Redis
call can do to each other between two round trips. TLC checks the modules on
small instances, TLAPS proves the main safety properties for all of them.

## 1. The system

| Component | State | Operations | Modelled in |
| --- | --- | --- | --- |
| Reliable queue (`queue.go`) | Redis: lists `:pending`, `:dead_letter`; sorted sets `:processing`, `:delayed`; `:message:<id>` keys; hash `:stats` | `Offer`, `OfferWithDelay`, `Poll`, `PollWithTimeout`, `Ack`, `Nack` | `ReliableQueue` |
| Cleanup goroutine, one per `NewReliableQueue` | the list of expired keys it works through | `cleanupTask`: `processTimeoutMessages`, `handleTimeoutMessage`, `moveDelayedMessages` | `ReliableQueue` |
| Dead letters, administration | the same | `RequeueDeadLetter`, `PurgeDeadLetters`, `Clear`, `Delete` | `ReliableQueue` |
| `Destroy` | per object: channels `cleanupStop`, `cleanupDone` | `NewReliableQueue`, `Destroy` | `QueueDestroy` |
| `redisLock` (`lock.go`) | Redis: key `lock:<name>` with a JSON `LockInfo` and a time to live; per handle `mu`, `holdCount` | `Lock`, `TryLock`, `TryLockWithTimeout`, `Unlock`, `ForceUnlock`, `Delete` | `RedisLock` |
| Renewal goroutine, one per acquisition | `renewalStop`, `renewalDone`, a ticker | `renewalTask`, `renewLock` | `RedisLock` |
| Fair lock (`fair_lock.go`) | `redisLock` and a sorted set of waiters | `Lock`, `TryLock`, `Unlock` with `joinQueue`, `canAcquireFairLock`, `leaveQueue`, `cleanupQueue` | `FairLock` |
| Read-write lock (`rwlock.go`) | Redis: hashes of read locks and of counts, the write key; its handles keep nothing | `Lock`, `TryLock`, `TryLockWithTimeout`, `Unlock`, `ForceUnlock`, `Delete` of the read and the write handle | `RWLock` |
| Queries and statistics of all of them | none of their own | `Size`, `Peek`, `GetStats`, `IsLocked`, ... | no: they change nothing |
| Examples | | | no |

How they interact. Callers share nothing but Redis, except that the goroutines
of one lock handle share its mutex and its two channels. A Lua script and a
MULTI/EXEC transaction are atomic; a method is a sequence of such calls, and
everything else can happen between two of them. The queue's callers race with
the cleanup goroutines of every process. A lock handle races with the other
handles, with the expiry of the key, with forced unlocks, and with its own
renewal goroutines. The goroutines that share a handle of the read-write lock
share its field in Redis and nothing else. `Destroy` of one queue object stops
its cleanup goroutine and deletes the keys under all other objects.

What is hard here:

* a message between two structures: `Poll` pops a key in one call and records
  it in another (`queue.go:162`, `queue.go:230`);
* decisions on data read earlier: the list of expired keys, the retry count,
  `ZSCORE` in `Nack`, the purge list;
* two clocks: visibility scores and `expire_time` are computed from the
  client's clock before the call, the key expires by Redis' clock;
* a lock whose lease ends under its holder, then is renewed, updated or
  released by it;
* a mutex held across a wait for a goroutine that needs it;
* one expiry for the read locks of everybody, and one count for the users of a
  handle;
* keys listed in one call and deleted in the next, while others write;
* crashes and errors between any two calls.

What makes the components correct:

* queue: no offered message is lost or duplicated, none comes back after its
  `Ack`; a delivery is exclusive until its timeout; retries end in the
  dead-letter queue, after exactly `MaxRetries` retries; nothing stays in
  `:processing` or `:delayed` for ever; the counters add up;
* `Destroy`: nothing is left of a queue nobody else uses, and no message is left
  half deleted under those who do;
* fair lock: it is a lock; nobody attempts to take it before those that were in
  the queue when he came have left it; nobody's entry stays in the queue after its
  call; a free lock is handed on to who waits for it;
* lock: two handles never rely on the lock at once; `hold_count` and
  `holdCount` agree; one renewal goroutine per held handle; calls return;
  a dead process's lock becomes free;
* read-write lock: who relies on the write lock relies on it alone; a read lock
  lasts until its last user unlocks, and the count is the number of users; calls
  return; the locks of dead processes expire.

## 2. The modules

| Module | What it is |
| --- | --- |
| `ReliableQueue` | the queue, its callers and cleanup goroutines, one action per Redis call |
| `MessageLife` | what the queue promises for each message: the abstract specification `ReliableQueue` implements |
| `MCQueue` | its instances for TLC: symmetry sets |
| `SequenceLemmas` | the lemmas on sequences the proofs need |
| `ReliableQueueProofs` | `TypeCorrect`, `QueueInvariant`, `MessagesAreSafe` |
| `PromptQueueProofs` | consumers that settle in time: `PromptInvariant`, `OneCopyOfEach`, `DeliveryIsExclusive`, `TimeoutsAreNotEarly`, `CountersAreExact`, `QueueImplementsLife` |
| `QueueDestroy` | queue objects that are destroyed and created: `ReliableQueue` with `Destroy` |
| `MCDestroy` | its instance for TLC |
| `QueueDestroyProofs` | `DestroyInvariant`, `DestroyIsComplete` |
| `LeaseLock` | what a lock promises: the abstract specification `RedisLock` and `RWLock` implement |
| `RedisLock` | one lock, its handles, their mutex and renewal goroutines |
| `MCLock` | its instances for TLC |
| `RedisLockProofs` | `LockTypeCorrect`, `LockInvariant`, `LeasesAreExclusive`, `LockIsALeaseLock` |
| `LockHoldProofs` | `HoldInvariant`, `HoldCountsAgree`, `OneGoroutineRenews`, `RenewalsDoNotPanic`, `HoldersAreServed` |
| `FairLock` | the fair lock: `RedisLock` with the waiting queue in front |
| `MCFair` | its instances for TLC |
| `FairLockProofs` | `FairLeasesAreExclusive`, `FairHoldsAgree`, `FairQueueInvariant`, `QueueIsInTurn` |
| `RWLock` | the read-write lock, its objects and the callers that share their handles |
| `MCRW` | its instance for TLC: who uses which object |
| `RWLockProofs` | `RWTypeCorrect`, `RWInvariant`, `WriterExcludesAll`, `HoldersKeepTheirLock`, `ReadersAreCounted`, `RWLockIsALeaseLock` |

Operators whose comment starts with "Mutant of" are broken variants of the
operator they name; no specification uses them. They are there to show that
each property fails when the code has the bug in question.

### ReliableQueue

`pending`, `deadLetter`, `delayed`, `processing`, `stored`, `retryCount` and
`stats` are the Redis structures. Scores are kept as seconds left (`expiresIn`,
`visibleIn`), so that `Tick` takes one off and nothing grows. A caller's place
in its method is `pc`, with what it has read so far in `key` (the message),
`reg` (its `RetryCount`), `due` (the timeout score it has computed) and
`listed` (a list it works through). `holds` are the messages a consumer was
given and has not settled. `fate` is history: what became of each message.

| Code | Actions |
| --- | --- |
| `OfferWithDelay` | `Offer` |
| `PollWithTimeout` | `PollStart` (with `MoveDelayed`), `PollPop` or `PollEmpty`, `PollFetch`, `PollMove` |
| `Ack` | `Ack` |
| `Nack` | `NackCheck`, `NackFetch`, `NackExec` |
| `RequeueDeadLetter` | `Requeue`, `RequeueFetch`, `RequeueReset` |
| `PurgeDeadLetters` | `PurgeList`, `PurgeExec` |
| `Clear`, `Delete` | `Clear` |
| `cleanupTask` | `CleanList`, `CleanFetch`, `CleanExec` or `CleanDrop`, `CleanMove` |
| a Redis error, the death of a process | `Fail`, `CleanFail`, `Crash`, `CleanCrash` |

The end of `Nack` and of `handleTimeoutMessage` is the same transaction and is
the operator `RetryOrBury`. In the code a blocked `BRPOP` waits; in the model
it is a caller that stays in "polling". An error of a Redis call is one that
happens before the call took effect; a reply that is lost after it did is not
modelled for the queue.

`MessageLife` is the queue reduced to one message at a time: a place (new,
waiting, delivered, dead, or how it ended) and a number of retries. `Place`
computes the place from the Redis structures and `fate`; a message in the hand
of a poll still waits. The refinement, `ImplementsLife`, says more than the
invariants: no step moves two messages, delivers one that is not waiting,
retries one that has no retry left or buries one that has.

### QueueDestroy

`QueueDestroy` extends `ReliableQueue`; a cleaner is the queue object with its
goroutine. `closed` and `done` are the two channels of the objects, `stage`,
`object` and `keys` where the `Destroy` of a worker stands, which object it
destroys and what `KEYS` returned. `stale` is history: the Destroys whose
listing another worker, or another object's goroutine, has outdated.

| Code | Actions |
| --- | --- |
| `close(rq.cleanupStop)` | `DestroyStart`; on a closed channel `DestroyPanic` |
| the `select` of `cleanupTask` | `CleanStop`, between two rounds; a tick may win |
| `<-rq.cleanupDone` and `KEYS` | `DestroyKeys` |
| `DEL` | `DestroyDel` |
| an error, the death of the process, `NewReliableQueue` | `DestroyFail`, `DestroyCrash`, `Reopen` |
| everything else | `Use`, `Clean`: the steps of `ReliableQueue` |

A collection without members is no key in Redis, so `KEYS` lists the
collections that have some (`Existing`). `DEL` takes the keys that were listed
with whatever they hold by then. A panic or a crash takes the object and the
workers that are destroying it.

### RedisLock

The Redis key is `owner`, `format`, `expire`, `hold` and `ttl`. `format` is
there because Go writes `expire_time` as a date string and `renewLock`'s script
as a number, and each side can only read its own. A handle whose `pc` is not
"idle" holds `mu`; a renewal goroutine in "renewing" holds it for reading.
`lag` is how long ago the running attempt or renewal read its clock. `lease` is
history: the seconds a handle may still rely on the lock by its own clock. It
starts at the clock reading of the attempt, because that is all the caller
knows.

| Code | Actions |
| --- | --- |
| `lockInternal` | `LockStart`, `Check`, `Attempt`, `Try` (with `Acquired`) |
| `updateLockInfo` | `UpdateGet`, `UpdateSet` |
| `Unlock`, `releaseLock` | `UnlockStart`, `Release`, `StopWait` |
| `ForceUnlock`, `Delete` | `ForceUnlock` |
| `renewalTask`, `renewLock` | `TaskStart`, `TaskTick`, `RenewStart`, `Renew`, `TaskStop`, `TaskPanic` |
| errors, lost replies, crashes | `Fail`, `RenewFail`, `Crash` |

`renewalTask` evaluates `l.renewalDone` when it starts and `l.renewalStop` each
time it waits, while `Unlock` replaces both: `oldStop` and `oldDone` say which
goroutines still have an old channel. A goroutine that closes a closed channel
takes its process with it (`TaskPanic`). One handle is one process here: a
panic or a crash takes one handle.

`Unreliable` handles may outlive their lease and see Redis fail; reliable ones
renew, update or unlock in time (a guard of `Tick`). So a reliable handle does
not wait in `Lock` for a lock of its own that has been renewed (a guard of
`LockStart`): `Lock` holds `mu`, and its renewal would wait for it. `Forced` are
the handles whose lock an operator may delete. What is claimed of a handle depends on
these sets, which is the point: the code protects a holder from the others,
not from itself being late.

### FairLock

`redisFairLock` embeds a `redisLock`, and `FairLock` extends `RedisLock`: its
steps are steps of `RedisLock` with a condition and an effect on the queue
added, or steps of the queue alone. `queue` is the sorted set in the order of
the scores, an entry with the seconds since its score; `stage` says where a
call stands in `lockFairInternal`; `first` is all that is looked at of the
position that `joinQueue` returned; `sweeping` are the handles with a
`cleanupQueue` goroutine. `ahead` is history, kept by `Remember` beside every
step: the handles whose entries were in the queue when the call of a handle came
to `joinQueue`, and have been since. `Insert` takes the clocks of the clients to
be synchronized and puts an entry behind those that were there before its call
read the clock; a script that is late may go in front of the others.

| Code | Actions |
| --- | --- |
| `lockFairInternal` | `FairLockStart`, `Reenter`, `Join`, `Ask`, `FairTry`, `Leave` |
| `Unlock`, `cleanupQueue` | `FairUnlockStart`, `FairUnlock`, `Sweep` |
| `Delete` | `FairDelete` |
| errors, contexts that end, crashes | `JoinFail`, `Ask`, `Leave`, `Sweep`, `FairFail`, `Die` |

The scripts are translated with what Redis makes of their results:
`canAcquireFairLock` returns a Lua boolean, FALSE becomes nil, and go-redis
reports nil as the error `redis.Nil`, so a caller that is not the first does
not wait (`MayAttempt`). `leaveQueue` is deferred with the context of the call;
`Deserters` are the handles for which it may fail, because their context ended,
and whose processes may die on their way through the queue. The wait timeout
runs from the start of the call in the model, from the end of `joinQueue` in
the code.

`LeaseLock` is what its users are promised: the set of clients that rely on the
lock, of which an exclusive one is alone. The mapping takes the handles whose
lease has not ended by their own clock; all of them are exclusive here, the
writers in `RWLock`.

### RWLock

The handles of `rwlock.go` have no state and no mutex, and any number of
goroutines may use one. So the actors are callers, one for each `Lock` with its
`Unlock`, and `On` says on which object's handle. `entries`, `count` and
`readTTL` are the two hashes, whose times to live are always set together;
`writer`, `expire` and `writeTTL` the write key. `Gone` stands for the owner ids
of processes that died. `held`, `wait`, `lag` and `lease` are as in `RedisLock`.

| Code | Actions |
| --- | --- |
| `lockInternal` of either handle | `LockStart`, `Try` (with `Acquirable`, `Take`), `Retry` |
| `Unlock` | `UnlockStart`, `Release` (with `IsOwner`, `GiveUp`) |
| `ForceUnlock`, `Delete` | `ForceUnlockRead` (the own field), `ForceUnlockWrite` (the key, whoever wrote it) |
| errors, lost replies, crashes | `Fail`, `Crash` |

`NewReadWriteLock` draws two owner ids, so neither script ever finds that the
lock of the other kind is its own (`rwlock.go:175`, `rwlock.go:431`): an object's
reader is shut out by its own writer and the other way round, and
`Acquirable` says so. The comparison with `expire_time` uses the clock the
client read before the call (`lag`).

## 3. What TLC checks

With two workers `queue_lives`, `fair_queue` and `lock_returns` take about two
minutes, every other run one at most. The four runs marked "finding" end with the
counterexample; all others pass.

| Run | Instance | Shows |
| --- | --- | --- |
| `queue_prompt` | 3 messages, 2 consumers (one without dead-letter queue), 1 cleanup goroutine, 1 retry; crashes and errors; consumers settle before the timeout | `TypeOK`, `PromptInv` (the invariant of the proofs), `OneCopy`, `ExclusiveDelivery`, `StatsExact`, `NoEarlyTimeout`, `ImplementsLife` |
| `queue_races` | 2 messages, 2 consumers, 2 cleanup goroutines, no retry; crashes; consumers may be late; `Nack`, `PurgeDeadLetters`, `Clear` | `QueueInv`, the invariant of the proof, with `NoMessageLost` in it |
| `queue_lives` | 2 messages, 2 late consumers, 1 cleanup goroutine, 1 retry, `RequeueDeadLetter`; fairness of time and cleanup | `NoMessageLost`, `ProcessingEnds`, `DelayedComesDue`, `EveryMessageEnds` (if consumers keep polling) |
| `queue_poll_crash` | 2 messages, 2 consumers, crashes | finding 1 |
| `queue_destroy` | 2 messages, 2 consumers, 2 objects with their goroutines, no retry; crashes and errors | `DestroyInv` (`QueueInv`, `StoppedFirst`, `ListingIsComplete`), `DestroyLeavesNothing` |
| `lock_leases` | 3 handles: re-entrant, renewing, unreliable and forced | `LockInv`, `LeaseMutex`, `HoldInv`, `HoldCountAgrees`, `OneRenewalTask`, `NoPanic`, `HolderIsServed`, `ImplementsLeases` |
| `lock_returns` | 2 handles: re-entrant, and renewing, unreliable and forced, with two goroutines; fairness | `LeaseMutex`, `CallsReturnUnrenewed`, `OrphanExpires` |
| `lock_overwrite` | 2 re-entrant handles that may be late | finding 2 |
| `lock_unlock_hang` | 1 renewing handle; fairness | finding 3 |
| `fair_queue` | 2 handles: reliable, re-entrant and renewing, and one that may die, be cancelled, fail and be force-unlocked; late scripts | `FairInv` (`QueueHoldsCallers`, `QueueOrdered`, `StageAgrees`), `InTurn` |
| `fair_handover` | 2 plain handles; fairness | finding 4 |
| `rw_leases` | 2 objects: two users of one read handle that keep their leases, and a reader and a writer that may outlive theirs, fail, die and be force-unlocked; fairness | `RWInv` with `WritersExclude`, `HoldsAreKept`, `CountsAgree`; `ImplementsLeases`, `RWCallsReturn`, `DeadWriterExpires`, `DeadReadersExpire` |

Bounds. `MaxEntries` caps the entries of the two lists, `MaxCount` the
counters, `MaxHold` re-entrant holds, `MaxTasks` the renewal goroutines of a
handle, `MaxLag` the age of a clock reading. Two messages are enough for one
caller's message to stand next to another's in every structure; the third in
`queue_prompt` lets a message be retried behind one and in front of another.
Two consumers and two cleanup goroutines give every pair of racing roles.
`queue_races` runs without retries, so that every timeout buries; retries are
in `queue_prompt` and `queue_lives`, and the proof has no such bound. Leases of two
seconds leave one second between "held" and "about to end"; a lag of one
second makes every clock reading either fresh or old. Two goroutines of one
handle are what the replaced channels need. `fair_queue` has one goroutine per
handle and one entry of a dead process (`MaxDead`): one is enough to stand in front
of others, and a handle with two goroutines is in `lock_returns`. `queue_destroy`
leaves out `Nack`, the administration and late consumers, which `queue_races` has
and the theorem `DestroyInvariant` covers. `rw_leases` has `MaxCount` 2: a handle used twice is
what the count is for; one writer, as two writers of one object are one owner
to the code (see 5).

Symmetry is used only for safety, and only over sets the configuration treats
alike.

Fairness. `CleanupFairness`: time passes and cleanup goroutines, which are
tickers in a loop, run. `CleanupSpec` has nothing else: whether anybody polls,
or finishes what he began, is open, so that what ends there ends by the cleanup.
`PollFairness` is the premise of `EveryMessageEnds` alone: a consumer finishes the
`Poll` it began and polls again; nothing says it ever acks. `LockFairness`: a call that has
begun and a goroutine that can run go on (Go's scheduler), time passes and
Redis removes expired keys, and a reliable holder unlocks. A renewal goroutine
that comes to its `select` again and again with `renewalStop` closed does not
choose the tick each time, as Go chooses at random: `TaskStop` is strongly fair, so that
what is left of `lock_unlock_hang` is the deadlock. `LiveFairLock` is the same
for the fair lock, without the strong fairness, and with fairness of `cleanupQueue`.
`RWFairness`: calls go on, a reliable caller unlocks, time passes and Redis removes
expired keys. All else is weak fairness: no caller is promised the lock, as
the code retries with no queue. For the same reason no run claims that `Lock`
succeeds, only that it returns; `fair_handover` shows that the queue of the fair
lock does not change that.

Deadlock is checked in every run that passes.

## 4. What is proved

For all values of the constants that satisfy the modules' assumptions:

* `TypeCorrect`: `Spec => []TypeOK` for the queue.
* `QueueInvariant`: `Spec => []QueueInv`, the inductive invariant, under the
  hypothesis of the next one.
* `MessagesAreSafe`: `Spec => []NoMessageLost`, if `RequeueDeadLetter` and
  `PurgeDeadLetters` are not both used. With both, a message that is requeued
  between the two calls of a purge loses its data (see 5), so the
  hypothesis is needed.
* `PromptInvariant`, `OneCopyOfEach`, `DeliveryIsExclusive`,
  `TimeoutsAreNotEarly`, `CountersAreExact`: `PromptInv`, `OneCopy`,
  `ExclusiveDelivery`, `NoEarlyTimeout`, `StatsExact`, under `PromptUse`: consumers
  settle before the visibility timeout, which is at least a second, with `Ack` and
  `Nack`, and the queue has one cleanup goroutine. Errors and crashes are allowed.
* `QueueImplementsLife`: `Spec => ImplementsLife`, under `PromptUse`.
* `DestroyIsComplete`: `DestroySpec => DestroyLeavesNothing`, without any
  hypothesis.
* `DestroyInvariant`: `DestroySpec => []DestroyInv`, under the hypothesis of
  `MessagesAreSafe`.
* `LockTypeCorrect`: `Spec => []TypeOK` for the lock.
* `LockInvariant`: `Spec => []LockInv`, under the hypotheses of the next one.
* `LeasesAreExclusive`: `Spec => []LeaseMutex`, if re-entrant handles keep their
  leases (`Reentrant \cap Unreliable = {}`) and `MaxLag < Lease`. Finding 2 is
  what happens without the first hypothesis. Without the second, a script that
  is a whole lease late grants a lease that has ended.
* `LockIsALeaseLock`: `Spec => ImplementsLeases`, under the same hypotheses.
* `HoldInvariant`, `HoldCountsAgree`, `OneGoroutineRenews`, `RenewalsDoNotPanic`,
  `HoldersAreServed`: `HoldInv`, `HoldCountAgrees`, `OneRenewalTask`, `NoPanic`,
  `HolderIsServed`, under the same hypotheses.
* `FairLeasesAreExclusive`, `FairHoldsAgree`: `LeaseMutex`, and `HoldCountAgrees`,
  `OneRenewalTask` and `NoPanic`, for the fair lock, under the hypotheses of
  `LeasesAreExclusive`.
* `FairQueueInvariant`: `FairLockSpec => []FairInv`, without any hypothesis.
* `QueueIsInTurn`: `FairLockSpec => []InTurn`, without any hypothesis: an attempt
  to take the fair lock finds none of the entries in the queue that were there before
  its call, whatever handles die, leave entries behind or are late.
* `RWTypeCorrect`: `Spec => []TypeOK` for the read-write lock.
* `RWInvariant`, `WriterExcludesAll`, `HoldersKeepTheirLock`, `ReadersAreCounted`,
  `RWLockIsALeaseLock`: `RWInv`, `WritersExclude`, `HoldsAreKept`, `CountsAgree`,
  and `ImplementsLeases`, if `MaxLag < Lease`, the writers that use one object are
  one (`LoneCallers`), and so are the readers of an object that may outlive
  their leases. Section 5 has what happens otherwise.

`MessagesAreSafe` rests on `QueueInv`. `NoMessageLost` is not inductive: a
cleanup goroutine that found a message's data missing will drop its entry, so
the message must be settled for good (`MissingIsSettled`); a message that is
offered must not be in anybody's hands yet (`OnlyOffered`); what a purge has
listed must still be dead when it deletes it (`PurgedIsDead`). Every action
touches one caller, and `QueueFrame` says once what such a step has to respect;
each action is then shown to respect it.

The properties of prompt consumers rest on `PromptInv`, which adds four parts to
`QueueInv`. `PlacedOnce` says that a message is once in one structure or in one
hand; the lists are without repetitions, which the section "Sequences without
repetitions" of `SequenceLemmas` carries through `LPUSH`, `RPOP`, `ZADD` and the
move of a prefix. `Holding` says that what a consumer was given is in
`:processing` with time left, and nobody else was given it; `Expired`, that what
the cleanup goroutine listed has no time left. So the two never meet, and the
transaction that ends `Nack` and `handleTimeoutMessage` always finds the entry
that it removes. `RetriesKnown` says that the `RetryCount` they write back
incremented is still the stored one. `Steps` uses this to rule out the branches
for a missing entry or missing data; each step left moves one message (`MovedOne`)
and concerns one caller (`CallerFrame`), as whoever works on a message has it for
itself (`Alone`). `PromptUse` is what this needs: in the instance of
`queue_prompt`, `OneCopy` and `ExclusiveDelivery` fail with consumers that are late,
and with a second cleanup goroutine when a consumer dies. `StatsExact` is proved
with the fact that only finitely many messages have been offered (`StatsInv`); the refinement of `MessageLife` from `PromptInv`, action by action.

The proofs about `QueueDestroy` reuse all that: `Use`, `Clean` and `Tick` are
steps of `ReliableQueue`, `DestroyDel` respects `QueueFrame` because it settles
what it takes an entry or the data of, and the end of a process only forgets.
What is new is `LifeInv`. `DestroyLeavesNothing` needs `ListingIsComplete`, which
is inductive only together with `StoppedFirst`: a goroutine that has returned is
between two rounds and does nothing more, so whoever changes Redis after the
listing is another, and `stale` records it.

`LeasesAreExclusive` rests on `LockInv`. Mutual exclusion of leases follows
from `LeaseIsBacked`: a lease that has not ended is the stored owner's and ends
neither after the key's time to live nor after the number `renewLock` wrote.
An attempt therefore finds no such lease when it finds no key or a number that
has passed. `ReliableHolds` and `UpdatesOwn` are needed for `updateLockInfo`,
which writes back whatever it has read: what a re-entrant handle reads is its
own lock, still there when it writes. The steps fall into three kinds, each a
lemma: the key and the leases do not change (`QuietStep`), one handle has the
lock with a new lease (`OwnerStep`), nobody has a lease (`FreeStep`).

`HoldInv` adds to `LockInv` what ties a reliable handle to its key and to its
goroutine: `Recorded`, that the stored count is the handle's unless
`updateLockInfo` is about to write it, and `Renewed`, that a goroutine lives as
long as the hold it was started for, or until the `Unlock` that waits for it has
seen it close `renewalDone`. That it is the only one, and has the handle's own
channels, is what makes `close` safe: `NoPanic`. `HoldCountAgrees` leaves out
handles that are re-entrant and renew: after the first renewal they cannot read
their own `LockInfo` (see 5). So does `HolderIsServed`, which needs besides that a handle
that has the lock does not attempt to take it (`Served`): its calls go through the
re-entrancy check, which nobody makes fail.

The fair lock has the exclusion and the hold counts of `RedisLock` because its
steps are steps of `RedisLock` or leave its variables alone, by the way `FairLock`
is built on it (the lemma `FairLockIsALock`, which is of use and no result).
`FairInv` is inductive as it is: `QueueHoldsCallers` alone would not be,
since a caller whose `leaveQueue` removed one of two entries would leave the
other (`QueueOrdered` has one entry of a handle at most), nor would it be without
`StageAgrees`, by which a call cannot end in the embedded lock behind the back of
`lockFairInternal`.

`QueueIsInTurn` is about the position that a caller reads once and goes by until
its call ends. `TurnInv` says of everybody who goes by position 0, and not only of
who attempts, that nobody is ahead of him. A caller that reads 0 has inserted its
entry before all others, and `Insert` inserts behind those ahead: there are none
(`EntryInserted`). From then on `Remember` only takes handles away from `ahead`;
who comes later or is inserted in front joined after the caller's clock reading
and is not in it. An entry that a handle left behind makes it read its score, which is no 0.

The two refinements of `LeaseLock` need one fact beyond the invariants, that no
step hands the lock from one client to another: a step that gives somebody a
lease starts in a state where nobody's lease conflicts with it, because
`Acquirable` fails as long as a lease is backed by the key or by the hashes.

`RWInv` is `LockInv` for two kinds of lock: `LeaseIsBacked` ties a reader's lease
to the field and the time to live of the hashes, a writer's to the key, its
`expire_time` and its time to live. `CountsAgree` and `HoldsAreKept` need each
other: only because the count is the number of users does the Unlock of one
leave the field to the others, and only because the field is there does every
Unlock count. `CallsAgree` says that who locks does not hold yet.

Only model-checked: what holds under fairness (`ProcessingEnds`,
`DelayedComesDue`, `EveryMessageEnds`, `CallsReturnUnrenewed`, `OrphanExpires`,
`RWCallsReturn`, `DeadWriterExpires`, `DeadReadersExpire`), which
is outside the prover's reach. Every invariant, action property and refinement that
a passing run checks is proved, under the hypotheses above where it has any.

## 5. Findings

1. `queue_poll_crash`: a consumer that dies, or whose `GET` fails, between RPOP
   and the script that adds the key to `:processing` loses the message.
2. `lock_overwrite`: `updateLockInfo` overwrites another owner's lock.
3. `lock_unlock_hang`: `Unlock` holds `mu` while it waits for a goroutine that
   waits for `mu`.
4. `fair_handover`: a caller of the fair lock that joined behind another gets an
   error at its first look (`fair_lock.go:187`) instead of waiting; the lock that is
   unlocked next stays free. `README.md` and `integration_test.go` promise FIFO.

Seen while modelling, in the model but in no run of their own:

* A message that is acked between the `GET` and the transaction of
  `handleTimeoutMessage` comes back, data and all (`queue.go:522`); one consumer
  that is late is enough.
* With two instances of a queue, the second cleanup goroutine may take a message
  from its consumer before the timeout, as it listed the delivery before
  (`queue.go:526`): `NoEarlyTimeout` in the instance of `queue_prompt` with two
  cleanup goroutines and crashes, without errors.
* `Poll`, `Nack` and the cleanup write `RetryCount` back as they read it
  (`queue.go:218`). With late consumers and two cleanup goroutines an increment is
  lost again and again, and the message is retried for ever: `EveryMessageEnds` with
  one message, two late consumers, two cleanup goroutines and two retries.
* `PurgeDeadLetters` deletes the data of a message that was requeued after its
  `LRANGE` (`queue.go:617`): `NoMessageLost` with both calls allowed.
* A `Destroy` that fails after it closed `cleanupStop` cannot be repeated: the
  second call panics (`queue.go:409`). A message that is offered between `KEYS`
  and `DEL` may lose its entry and keep its data for ever; objects that are not
  told of the `Destroy` go on and write the keys again. `DestroyDel` counts every
  message that it touches as discarded, so no property sees the halves.
* Two goroutines that take the write lock of one object both get it, since they
  are one owner to the script (`rwlock.go:447`), and the first `Unlock` releases
  it for both (`rwlock.go:518`).
* A handle that lost its lock and takes it again has two renewal goroutines on
  the same channels; its `Unlock` makes both close `renewalDone`
  (`lock.go:475`).
* An attempt on a held lock that was not renewed ends with a script error, because
  `tonumber` of a date string is nil (`lock.go:208`); `lock_test.go:74` expects FALSE
  and no error. In the model the caller is in `broken`.
* With renewal and re-entrancy on, the default, the first renewal replaces the
  dates of the `LockInfo` by numbers, which `encoding/json` cannot read as
  `time.Time` (`lock.go:421`): from then on re-entering, unlocking one of two holds,
  `IsLocked` and `GetHoldCount` fail. `HolderIsServed` without its exception for
  renewal shows it with one handle.
* An entry of the fair queue whose owner died, was cancelled or did not get the reply
  of `joinQueue` keeps a free lock from everybody, as only an `Unlock` sweeps
  (`fair_lock.go:245`). One that its owner left behind makes it take its score for its
  position (`fair_lock.go:140`).
* A repeated or late `Unlock` on a shared read handle counts down the hold of another
  user, whose lock is then gone while it reads (`rwlock.go:247`): `WritersExclude`
  with two late readers on one object.
* The read and the write handle of one object are two owners (`rwlock.go:50`): the
  holder of the write lock cannot take the read lock, though the comment at
  `rwlock.go:170` says that only others are kept out.
* The read locks of dead processes live on as long as new readers come, because
  `EXPIRE` is set on the whole hash (`rwlock.go:195`); a writer waits for them.
* A handle that renews and calls `Lock` while it holds the lock keeps its own
  renewal waiting for `mu` until the call ends, and may lose the lock by it.
* `TryLockWithTimeout` never waits (`lock.go:109`), although `lock_test.go:98`
  expects it to.
* A handle's thread id is that of the goroutine that created it (`lock.go:38`):
  goroutines that share a handle re-enter each other's lock.
* `RetryDelay` is not used: `Nack` makes the message visible at once
  (`queue.go:313`).

## 6. Not modelled, and the plan

Not modelled: queries, which change nothing; wording of errors; times below a
second (`LeaseDuration` below one second makes `EX 0`, which Redis refuses); a
wait timeout of 0, which means "for ever" to `Lock`; replies of queue calls
that are lost after the call took effect; eviction and failover of Redis.

In this order:

1. Proofs with weaker hypotheses: `OneCopy` and `TimeoutsAreNotEarly` with
   `PurgeDeadLetters`; `CountsAgree` of the read-write lock for readers that may be
   late but are alone on their object.
2. FIFO of the queue without retries, the data that `Clear` leaves behind.
3. The halves of messages that a `Destroy` leaves when it races with other
   objects, which needs a fate of their own.
4. `Destroy` among late consumers on larger instances.
