------------------------------- MODULE RWLock -------------------------------
(***************************************************************************)
(* The read-write lock of lock/rwlock.go: one lock name and the objects    *)
(* that NewReadWriteLock returns for it, each with one read handle and one *)
(* write handle.                                                           *)
(*                                                                         *)
(* The handles keep no state and have no mutex: everything is in Redis,    *)
(* under the owner id of the handle.  Any number of goroutines may use one *)
(* handle, and a goroutine may take the lock again.  A caller is one such  *)
(* use, a Lock and the Unlock that belongs to it; On says of which object. *)
(* A step is one round trip to Redis.                                      *)
(*                                                                         *)
(* Time is in seconds, as in the scripts, and a date is the number of      *)
(* seconds left until it, as in RedisLock.                                 *)
(***************************************************************************)
EXTENDS Integers, FiniteSets

CONSTANTS
    Objects,        \* the redisReadWriteLock objects
    Readers,        \* callers of the read handles
    Writers,        \* callers of the write handles
    On,             \* the object whose handle a caller uses
    None,           \* nobody
    Gone,           \* an owner whose process died
    Lease,          \* LeaseDuration
    WaitTimeout,    \* WaitTimeout
    Unreliable,     \* the objects whose callers may outlive their leases and
                    \* whose Redis calls may fail
    Forced,         \* those of them whose locks are also force-unlocked
    MaxLag,         \* bound: seconds between reading the clock and the script
    MaxCount        \* bound: read count of an object when a caller starts to lock

Callers == Readers \cup Writers

ASSUME RWAssumption ==
    /\ Readers \cap Writers = {}
    /\ On \in [Callers -> Objects] /\ IsFiniteSet(Readers)
    /\ None \notin Objects /\ Gone \notin Objects /\ None # Gone
    /\ Lease \in Nat \ {0} /\ WaitTimeout \in Nat \ {0}
    /\ Unreliable \subseteq Objects /\ Forced \subseteq Unreliable
    /\ MaxLag \in Nat /\ MaxCount \in Nat

VARIABLES
    \* Redis: the hashes rwlock:<name>:read and :read_count, the key :write
    entries,    \* the owners with a field in the read hash
    count,      \* the fields of the count hash
    readTTL,    \* time to live of both hashes
    writer,     \* the owner in the stored write lock, None for no key
    expire,     \* its expire_time: seconds left, may be negative
    writeTTL,   \* time to live of the key
    \* the callers
    pc,
    wait,       \* seconds left of the wait timeout of the call; 0 for TryLock
    lag,        \* seconds since the attempt read its clock
    held,       \* the callers whose Lock succeeded and whose Unlock has not
    \* history
    lease       \* seconds a caller may still rely on the lock, by its own clock

readKeys == <<entries, count, readTTL>>
writeKey == <<writer, expire, writeTTL>>
calls    == <<pc, wait, lag, held>>
vars     == <<readKeys, writeKey, calls, lease>>

PCs == {"idle", "trying", "waiting", "releasing"}

UsersOf(o) == {c \in Callers : On[c] = o}

Init ==
    /\ entries = {} /\ count = [o \in Objects |-> 0] /\ readTTL = 0
    /\ writer = None /\ expire = 0 /\ writeTTL = 0
    /\ pc = [c \in Callers |-> "idle"]
    /\ wait = [c \in Callers |-> 0]
    /\ lag = [c \in Callers |-> 0]
    /\ held = {}
    /\ lease = [c \in Callers |-> 0]

\* The call of c goes on at l, or returns.
Goto(c, l) == pc' = [pc EXCEPT ![c] = l] /\ UNCHANGED wait
Return(c)  == pc' = [pc EXCEPT ![c] = "idle"] /\ wait' = [wait EXCEPT ![c] = 0]

-----------------------------------------------------------------------------
(* The scripts                                                              *)

\* Mutant of AddReader: EXPIRE only for a hash that is new.
AddReaderKeepsTTL(o) ==
    /\ entries' = entries \cup {o}
    /\ count' = [count EXCEPT ![o] = @ + 1]
    /\ readTTL' = IF entries = {} THEN Lease ELSE readTTL

\* HSET, HINCRBY, and EXPIRE of the two hashes, with the fields of everybody.
AddReader(o) ==
    /\ entries' = entries \cup {o}
    /\ count' = [count EXCEPT ![o] = @ + 1]
    /\ readTTL' = Lease

\* Mutant of RemoveReader: the count stays.
RemoveReaderKeepsCount(o) ==
    /\ entries' = entries \ {o}
    /\ readTTL' = IF entries' = {} THEN 0 ELSE readTTL
    /\ UNCHANGED count

\* HDEL of both fields; a hash without fields is no key.
RemoveReader(o) ==
    /\ entries' = entries \ {o}
    /\ count' = [count EXCEPT ![o] = 0]
    /\ readTTL' = IF entries' = {} THEN 0 ELSE readTTL

\* Mutant of CountDown: the count is not looked at.
CountDownRemoves(o) == RemoveReader(o)

\* The end of the read handle's Unlock, for an entry that is there.
CountDown(o) ==
    \/ /\ count[o] <= 1
       /\ RemoveReader(o)
    \/ /\ count[o] > 1
       /\ count' = [count EXCEPT ![o] = @ - 1]
       /\ UNCHANGED <<entries, readTTL>>

SetWriter(o, e) == writer' = o /\ expire' = e /\ writeTTL' = Lease

DelWriter == writer' = None /\ expire' = 0 /\ writeTTL' = 0

\* Mutant of WriteLocked: the age of the clock reading has the wrong sign.
WriteLockedByFutureClock(c) ==
    /\ writer # None
    /\ expire - lag[c] > 0
    /\ c \in Readers \/ writer # On[c]

\* A write lock of others that has not passed on the clock c read lag seconds
\* ago.  The owner ids of an object's read and write handle differ, so that to
\* a reader the write lock of its own object is one of others, too.
WriteLocked(c) ==
    /\ writer # None
    /\ expire + lag[c] > 0
    /\ c \in Readers \/ writer # On[c]

\* Mutant of Acquirable: a single field in the read hash is taken for the caller's own.
AcquirableByLastReader(c) ==
    ~WriteLocked(c) /\ (c \in Writers => Cardinality(entries) <= 1)

\* What the script of c asks before it takes the lock.  Of a field in the read
\* hash neither the expire_time is looked at nor, as the owner ids differ, is
\* it ever the writer's own.
Acquirable(c) == ~WriteLocked(c) /\ (c \in Writers => entries = {})

Take(c) ==
    \/ c \in Readers /\ AddReader(On[c]) /\ UNCHANGED writeKey
    \/ c \in Writers /\ SetWriter(On[c], Lease - lag[c]) /\ UNCHANGED readKeys

\* The lock that Unlock finds, by owner.
IsOwner(c) == IF c \in Readers THEN On[c] \in entries ELSE writer = On[c]

GiveUp(c) ==
    \/ c \in Readers /\ CountDown(On[c]) /\ UNCHANGED writeKey
    \/ c \in Writers /\ DelWriter /\ UNCHANGED readKeys

-----------------------------------------------------------------------------
(* Lock, TryLock, TryLockWithTimeout (which does not block: it is TryLock)  *)

\* lockInternal.  w is the time it may wait.
LockStart(c, w) ==
    /\ pc[c] = "idle" /\ c \notin held
    /\ c \in Readers => count[On[c]] < MaxCount
    /\ pc' = [pc EXCEPT ![c] = "trying"]
    /\ wait' = [wait EXCEPT ![c] = w]
    /\ UNCHANGED <<readKeys, writeKey, lag, held, lease>>

\* Mutant of Try: the timeout is not looked at.
TryNeverGivesUp(c) ==
    /\ pc[c] = "trying"
    /\ lag' = [lag EXCEPT ![c] = 0]
    /\ \/ /\ Acquirable(c)
          /\ Take(c)
          /\ held' = held \cup {c}
          /\ lease' = [lease EXCEPT ![c] = Lease - lag[c]]
          /\ Return(c)
       \/ /\ ~Acquirable(c)
          /\ Goto(c, "waiting")
          /\ UNCHANGED <<readKeys, writeKey, held, lease>>

\* Mutant of Try: an attempt that fails gives the locks it found a new lease.
TryExtends(c) ==
    /\ pc[c] = "trying"
    /\ lag' = [lag EXCEPT ![c] = 0]
    /\ \/ /\ Acquirable(c)
          /\ Take(c)
          /\ held' = held \cup {c}
          /\ lease' = [lease EXCEPT ![c] = Lease - lag[c]]
          /\ Return(c)
       \/ /\ ~Acquirable(c)
          /\ IF wait[c] = 0 THEN Return(c) ELSE Goto(c, "waiting")
          /\ readTTL' = IF entries = {} THEN 0 ELSE Lease
          /\ IF writer = None THEN UNCHANGED writeKey ELSE SetWriter(writer, Lease)
          /\ UNCHANGED <<entries, count, held, lease>>

\* tryAcquireReadLock and tryAcquireWriteLock, and what lockInternal does with
\* the answer.
Try(c) ==
    /\ pc[c] = "trying"
    /\ lag' = [lag EXCEPT ![c] = 0]
    /\ \/ /\ Acquirable(c)
          /\ Take(c)
          /\ held' = held \cup {c}
          /\ lease' = [lease EXCEPT ![c] = Lease - lag[c]]
          /\ Return(c)
       \/ /\ ~Acquirable(c)
          /\ IF wait[c] = 0 THEN Return(c) ELSE Goto(c, "waiting")
          /\ UNCHANGED <<readKeys, writeKey, held, lease>>

\* RetryInterval is over, or the caller's context is.
Retry(c) ==
    /\ pc[c] = "waiting"
    /\ Goto(c, "trying") \/ Return(c)
    /\ UNCHANGED <<readKeys, writeKey, lag, held, lease>>

-----------------------------------------------------------------------------
(* Unlock                                                                   *)

UnlockStart(c) ==
    /\ pc[c] = "idle" /\ c \in held
    /\ Goto(c, "releasing")
    /\ UNCHANGED <<readKeys, writeKey, lag, held, lease>>

\* A caller that finds its lock lost gets an error and holds nothing, either.
Release(c) ==
    /\ pc[c] = "releasing"
    /\ \/ IsOwner(c) /\ GiveUp(c)
       \/ ~IsOwner(c) /\ UNCHANGED <<readKeys, writeKey>>
    /\ held' = held \ {c}
    /\ lease' = [lease EXCEPT ![c] = 0]
    /\ Return(c)
    /\ UNCHANGED lag

\* ForceUnlock and Delete of a read handle remove its own entry, those of a
\* write handle the key, whoever wrote it.
ForceUnlockRead ==
    /\ \E o \in Forced \cap entries :
          /\ RemoveReader(o)
          /\ lease' = [c \in Callers |-> IF c \in Readers /\ On[c] = o THEN 0 ELSE lease[c]]
    /\ UNCHANGED <<writeKey, calls>>

ForceUnlockWrite ==
    /\ writer \in Forced \cup {Gone}
    /\ DelWriter
    /\ lease' = [c \in Callers |-> IF c \in Writers /\ On[c] = writer THEN 0 ELSE lease[c]]
    /\ UNCHANGED <<readKeys, calls>>

-----------------------------------------------------------------------------
(* The environment                                                          *)

\* A Redis call of c returns an error, before or after it took effect.
Fail(c) ==
    /\ On[c] \in Unreliable
    /\ \/ /\ pc[c] \in {"trying", "releasing"}
          /\ UNCHANGED <<readKeys, writeKey, lease>>
       \/ /\ pc[c] = "trying" /\ Acquirable(c) /\ Take(c)
          /\ UNCHANGED lease
       \/ /\ pc[c] = "releasing" /\ IsOwner(c) /\ GiveUp(c)
          /\ lease' = [lease EXCEPT ![c] = 0]
    /\ lag' = [lag EXCEPT ![c] = 0]
    /\ Return(c)
    /\ UNCHANGED held

\* The process with object o dies.  Its locks stay, nobody's; the object that
\* takes its place has new owner ids.
Crash(o) ==
    /\ o \in entries \/ o = writer \/ \E c \in UsersOf(o) : pc[c] # "idle" \/ c \in held
    /\ entries' = IF o \in entries THEN (entries \ {o}) \cup {Gone} ELSE entries
    /\ count' = [count EXCEPT ![o] = 0]
    /\ writer' = IF writer = o THEN Gone ELSE writer
    /\ pc' = [c \in Callers |-> IF On[c] = o THEN "idle" ELSE pc[c]]
    /\ wait' = [c \in Callers |-> IF On[c] = o THEN 0 ELSE wait[c]]
    /\ lag' = [c \in Callers |-> IF On[c] = o THEN 0 ELSE lag[c]]
    /\ held' = held \ UsersOf(o)
    /\ lease' = [c \in Callers |-> IF On[c] = o THEN 0 ELSE lease[c]]
    /\ UNCHANGED <<readTTL, expire, writeTTL>>

\* Redis drops both hashes, which were given the same time to live at once.
ExpireRead ==
    /\ entries # {} /\ readTTL = 0
    /\ entries' = {} /\ count' = [o \in Objects |-> 0]
    /\ UNCHANGED <<readTTL, writeKey, calls, lease>>

ExpireWrite ==
    /\ writer # None /\ writeTTL = 0
    /\ DelWriter
    /\ UNCHANGED <<readKeys, calls, lease>>

Decrement(n) == IF n > 0 THEN n - 1 ELSE 0

\* A second passes.  Reliable callers unlock before their leases end.
Tick ==
    /\ entries = {} \/ readTTL > 0
    /\ writer = None \/ writeTTL > 0
    /\ \A c \in held : On[c] \notin Unreliable => lease[c] > 1
    /\ \A c \in Callers : pc[c] = "trying" => lag[c] < MaxLag
    /\ readTTL' = Decrement(readTTL)
    /\ writeTTL' = Decrement(writeTTL)
    /\ expire' = IF writer = None THEN 0 ELSE expire - 1
    /\ lag' = [c \in Callers |-> IF pc[c] = "trying" THEN lag[c] + 1 ELSE 0]
    /\ wait' = [c \in Callers |-> IF pc[c] \in {"trying", "waiting"}
                                  THEN Decrement(wait[c]) ELSE wait[c]]
    /\ lease' = [c \in Callers |-> Decrement(lease[c])]
    /\ UNCHANGED <<entries, count, writer, pc, held>>

-----------------------------------------------------------------------------
Continue(c) == Try(c) \/ Retry(c) \/ Release(c)

Next ==
    \/ \E c \in Callers :
          \/ \E w \in {0, WaitTimeout} : LockStart(c, w)
          \/ UnlockStart(c) \/ Continue(c) \/ Fail(c)
    \/ ForceUnlockRead \/ ForceUnlockWrite
    \/ \E o \in Objects : Crash(o)
    \/ ExpireRead \/ ExpireWrite \/ Tick

Spec == Init /\ [][Next]_vars

\* Calls go on, time passes, and a reliable holder unlocks.
RWFairness ==
    /\ \A c \in Callers : /\ WF_vars(Continue(c))
                          /\ On[c] \notin Unreliable => WF_vars(UnlockStart(c))
    /\ WF_vars(Tick \/ ExpireRead \/ ExpireWrite)

FairSpec == Spec /\ RWFairness

-----------------------------------------------------------------------------
(* Properties                                                               *)

TypeOK ==
    /\ entries \subseteq Objects \cup {Gone}
    /\ count \in [Objects -> Nat] /\ readTTL \in Nat
    /\ writer \in Objects \cup {None, Gone}
    /\ expire \in Int /\ writeTTL \in Nat
    /\ pc \in [Callers -> PCs]
    /\ wait \in [Callers -> Nat] /\ lag \in [Callers -> Nat]
    /\ held \subseteq Callers
    /\ lease \in [Callers -> Int]

\* While a writer relies on its lock nobody else, reader or writer, relies on
\* his, as far as their leases go by their own clocks: whatever reader comes or
\* goes, and whatever is lost, force-unlocked or crashes meanwhile.
WritersExclude ==
    \A w \in Writers : lease[w] > 0 => \A c \in Callers \ {w} : lease[c] <= 0

(* The inductive invariant behind WritersExclude.                           *)

TimesBounded == \A c \in Callers : lag[c] <= MaxLag /\ lease[c] <= Lease

\* Who locks holds nothing, and only who holds unlocks or has a lease.
CallsAgree ==
    \A c \in Callers :
        /\ pc[c] \in {"trying", "waiting"} => c \notin held
        /\ pc[c] = "releasing" \/ lease[c] > 0 => c \in held

\* A reader's lease is backed by the time to live of the hashes, a writer's by
\* the expire_time and the time to live of the key.
LeaseIsBacked ==
    /\ \A c \in Readers : lease[c] > 0 => On[c] \in entries /\ lease[c] <= readTTL
    /\ \A c \in Writers : lease[c] > 0 => /\ writer = On[c]
                                          /\ lease[c] <= expire /\ lease[c] <= writeTTL

\* A caller that keeps its lease finds its lock when it unlocks, whatever the
\* other callers of the same handle do.
HoldsAreKept ==
    \A c \in held : On[c] \notin Unreliable => lease[c] > 0 /\ IsOwner(c)

\* The entries are the objects with a count, and the count of an object is the
\* number of its callers that have the read lock.
Holding(o) == {c \in Readers : c \in held /\ On[c] = o}
CountsAgree ==
    \A o \in Objects : /\ o \in entries <=> count[o] > 0
                       /\ o \notin Unreliable => count[o] = Cardinality(Holding(o))

RWInv ==
    /\ TypeOK /\ TimesBounded /\ CallsAgree /\ LeaseIsBacked
    /\ WritersExclude /\ HoldsAreKept /\ CountsAgree

\* The lock is a lease lock: see LeaseLock.
Leases == INSTANCE LeaseLock WITH
              Clients <- Callers, Exclusive <- Writers,
              relying <- {c \in Callers : lease[c] > 0}
ImplementsLeases == Leases!Spec

\* Every call returns: no caller is in a call from some moment on.
RWCallsReturn == \A c \in Callers : []<>(pc[c] = "idle")

\* The write lock of a process that died becomes free.
DeadWriterExpires == []<>(writer # Gone)

\* So do the read locks of processes that died, once no living reader comes any
\* more; until then each new reader keeps them alive.
ReadersAreDone == \A c \in Readers : pc[c] = "idle" /\ c \notin held
DeadReadersExpire == <>[]ReadersAreDone => <>[](entries = {})

=============================================================================
