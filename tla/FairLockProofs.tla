--------------------------- MODULE FairLockProofs ---------------------------
(***************************************************************************)
(* What is proved of RedisLock holds of the fair lock, too, as each of its *)
(* steps is a step of lock.go or leaves the lock and its handles as they   *)
(* are.  Of the waiting queue is proved that it stays in order, that every *)
(* entry has a call that will remove it, apart from those of handles that  *)
(* die or are cancelled, and that nobody attempts to take the lock before  *)
(* those that stood in the queue when its call came to it have left.       *)
(***************************************************************************)
EXTENDS FairLock, LockHoldProofs

-----------------------------------------------------------------------------
(* The refinement of RedisLock                                              *)

\* The steps of the queue alone.
LEMMA QueueSteps ==
    ASSUME NEW h \in Handles, Join(h) \/ Leave(h) \/ Sweep(h)
    PROVE  UNCHANGED vars
BY DEF Join, Leave, Sweep, vars

\* The steps of a call that take part in the base lock.
LEMMA CallSteps ==
    ASSUME NEW h \in Handles,
           \/ \E w \in {0, WaitTimeout} : FairLockStart(h, w)
           \/ FairUnlockStart(h)
           \/ Reenter(h) \/ Ask(h) \/ FairTry(h) \/ FairUnlock(h)
           \/ JoinFail(h) \/ FairFail(h)
    PROVE  Next
<1>1. \A w \in {0, WaitTimeout} : FairLockStart(h, w) => Next
  BY DEF FairLockStart, Next
<1>2. FairUnlockStart(h) => UnlockStart(h)
  BY DEF FairUnlockStart
<1>3. Reenter(h) \/ Ask(h) \/ FairTry(h) \/ FairUnlock(h) \/ JoinFail(h) => Continue(h)
  BY DEF Reenter, Ask, FairTry, FairUnlock, JoinFail, Continue
<1>4. FairFail(h) => Fail(h)
  BY DEF FairFail
<1> QED
  BY <1>1, <1>2, <1>3, <1>4 DEF Next

\* The death of a process and the steps of its renewal goroutines.
LEMMA ProcessSteps ==
    ASSUME NEW h \in Handles,
           \/ Die(h)
           \/ \E k \in TasksOf(h) : FairTask(h, k)
    PROVE  Next
<1>1. CASE Die(h)
  <2>1. Crash(h) \/ \E k \in TasksOf(h) : TaskStep(h, k)
    BY <1>1 DEF Die, TaskStep
  <2> QED
    BY <2>1 DEF Next
<1>2. CASE \E k \in TasksOf(h) : FairTask(h, k)
  <2>1. \E k \in TasksOf(h) : TaskStep(h, k) \/ RenewFail(h, k)
    BY <1>2 DEF FairTask, TaskStep
  <2> QED
    BY <2>1 DEF Next
<1> QED
  BY <1>1, <1>2

\* A step of the fair lock is one of the lock, or none.
LEMMA FairIsLockStep ==
    ASSUME [FairNext]_fairVars
    PROVE  [Next]_vars
<1>1. CASE \E h \in Handles : Join(h) \/ Leave(h) \/ Sweep(h)
  BY <1>1, QueueSteps
<1>2. CASE \E h \in Handles :
              \/ \E w \in {0, WaitTimeout} : FairLockStart(h, w)
              \/ FairUnlockStart(h)
              \/ Reenter(h) \/ Ask(h) \/ FairTry(h) \/ FairUnlock(h)
              \/ JoinFail(h) \/ FairFail(h)
  BY <1>2, CallSteps
<1>3. CASE \E h \in Handles :
              Die(h) \/ \E k \in TasksOf(h) : FairTask(h, k)
  BY <1>3, ProcessSteps
<1>4. CASE FairDelete \/ ((ForceUnlock \/ Expire) /\ UNCHANGED fair) \/ FairTick
  <2>1. FairTick => Tick
    BY Zenon DEF FairTick
  <2>2. FairDelete => ForceUnlock \/ UNCHANGED vars
    BY DEF FairDelete
  <2> QED
    BY <1>4, <2>1, <2>2 DEF Next
<1>5. CASE UNCHANGED fairVars
  BY <1>5 DEF fairVars
<1>6. CASE FairNext
  <2>1. ASSUME NEW h \in Handles,
               \/ \E w \in {0, WaitTimeout} : FairLockStart(h, w)
               \/ FairUnlockStart(h) \/ FairContinue(h) \/ Sweep(h)
               \/ JoinFail(h) \/ FairFail(h) \/ Die(h)
               \/ \E k \in TasksOf(h) :
                     FairTask(h, k)
        PROVE  [Next]_vars
    BY <2>1, <1>1, <1>2, <1>3 DEF FairContinue
  <2> QED
    BY <1>6, <2>1, <1>4 DEF FairNext, FairStep
<1> QED
  BY <1>5, <1>6

\* What RedisLock never does, the fair lock never does.
LEMMA FairLockIsALock == FairLockSpec => Spec
<1>1. FairInit => Init
  BY DEF FairInit
<1>2. [FairNext]_fairVars => [Next]_vars
  BY FairIsLockStep
<1> QED
  BY <1>1, <1>2, PTL DEF FairLockSpec, Spec

\* Two handles never rely on a fair lock at the same time, under the hypotheses
\* of LeasesAreExclusive.
THEOREM FairLeasesAreExclusive ==
    ASSUME Reentrant \cap Unreliable = {}, MaxLag < Lease
    PROVE  FairLockSpec => []LeaseMutex
<1>1. Spec => []LeaseMutex
  BY LeasesAreExclusive
<1> QED
  BY <1>1, FairLockIsALock, PTL

\* What is proved of the handles of lock.go that keep their lease is true of those
\* that stand in a waiting queue: their holds are counted, one goroutine renews
\* them, and it does not panic.
THEOREM FairHoldsAgree ==
    ASSUME Reentrant \cap Unreliable = {}, MaxLag < Lease
    PROVE  FairLockSpec => [](HoldCountAgrees /\ OneRenewalTask /\ NoPanic)
<1>1. Spec => [](HoldCountAgrees /\ OneRenewalTask /\ NoPanic)
  BY HoldCountsAgree, OneGoroutineRenews, RenewalsDoNotPanic, PTL
<1> QED
  BY <1>1, FairLockIsALock, PTL

-----------------------------------------------------------------------------
(* The sequences of the waiting queue                                       *)

(* Concatenation, position by position. *)
LEMMA Joined ==
    ASSUME NEW S, NEW a \in Seq(S), NEW b \in Seq(S)
    PROVE  /\ a \o b \in Seq(S) /\ Len(a \o b) = Len(a) + Len(b)
           /\ \A j \in 1..Len(a) : (a \o b)[j] = a[j]
           /\ \A j \in 1..Len(b) : (a \o b)[Len(a) + j] = b[j]
<1>1. a \o b \in Seq(S) /\ Len(a \o b) = Len(a) + Len(b)
  OBVIOUS
<1>2. ASSUME NEW j \in 1..Len(a) PROVE (a \o b)[j] = a[j]
  OBVIOUS
<1>3. ASSUME NEW j \in 1..Len(b) PROVE (a \o b)[Len(a) + j] = b[j]
  <2>1. Len(a) \in Nat /\ Len(b) \in Nat
    OBVIOUS
  <2>2. Len(a) + j \in 1..Len(a) + Len(b) /\ ~(Len(a) + j <= Len(a)) /\ Len(a) + j - Len(a) = j
    BY <2>1
  <2> QED BY <2>1, <2>2
<1> QED BY <1>1, <1>2, <1>3

(* InsertAt, position by position. *)
LEMMA Inserted ==
    ASSUME NEW S, NEW s \in Seq(S), NEW i \in 1..Len(s) + 1, NEW e \in S
    PROVE  /\ Ext!InsertAt(s, i, e) \in Seq(S)
           /\ Len(Ext!InsertAt(s, i, e)) = Len(s) + 1
           /\ \A j \in 1..i - 1 : Ext!InsertAt(s, i, e)[j] = s[j]
           /\ Ext!InsertAt(s, i, e)[i] = e
           /\ \A j \in i + 1..Len(s) + 1 : Ext!InsertAt(s, i, e)[j] = s[j - 1]
<1> DEFINE a == SubSeq(s, 1, i - 1)
           b == SubSeq(s, i, Len(s))
           c == Append(a, e)
<1>1. /\ a \in Seq(S) /\ Len(a) = i - 1 /\ \A j \in 1..i - 1 : a[j] = s[j]
      /\ b \in Seq(S) /\ Len(b) = Len(s) - i + 1
      /\ \A j \in 1..Len(s) - i + 1 : b[j] = s[i + j - 1]
  OBVIOUS
<1>2. a \o <<e>> = c
  OBVIOUS
<1>3. Ext!InsertAt(s, i, e) = c \o b
  BY <1>2 DEF Ext!InsertAt
<1> HIDE DEF a, b
<1>4. /\ c \in Seq(S) /\ Len(c) = i
      /\ \A j \in 1..i : c[j] = IF j < i THEN s[j] ELSE e
  BY <1>1
<1> HIDE DEF c
<1>5. /\ c \o b \in Seq(S) /\ Len(c \o b) = Len(c) + Len(b)
      /\ \A j \in 1..Len(c) : (c \o b)[j] = c[j]
      /\ \A j \in 1..Len(b) : (c \o b)[Len(c) + j] = b[j]
  <2>1. c \in Seq(S) /\ b \in Seq(S)
    BY <1>1, <1>4
  <2> QED BY <2>1, Joined
<1>6. ASSUME NEW j \in i + 1..Len(s) + 1 PROVE (c \o b)[j] = s[j - 1]
  <2>1. j - i \in 1..Len(b) /\ i + (j - i) - 1 = j - 1 /\ Len(c) + (j - i) = j
    BY <1>1, <1>4
  <2>2. b[j - i] = s[i + (j - i) - 1]
    BY <1>1, <2>1
  <2>3. (c \o b)[Len(c) + (j - i)] = b[j - i]
    BY <1>5, <2>1
  <2> QED BY <2>1, <2>2, <2>3
<1>7. (c \o b)[i] = e /\ \A j \in 1..i - 1 : (c \o b)[j] = s[j]
  BY <1>4, <1>5
<1>8. Len(c \o b) = Len(s) + 1
  BY <1>1, <1>4, <1>5
<1> QED BY <1>3, <1>5, <1>6, <1>7, <1>8

(* RemoveAt, position by position. *)
LEMMA Removed ==
    ASSUME NEW S, NEW s \in Seq(S), NEW i \in 1..Len(s)
    PROVE  /\ Ext!RemoveAt(s, i) \in Seq(S)
           /\ Len(Ext!RemoveAt(s, i)) = Len(s) - 1
           /\ \A j \in 1..Len(s) - 1 :
                 Ext!RemoveAt(s, i)[j] = IF j < i THEN s[j] ELSE s[j + 1]
<1> DEFINE a == SubSeq(s, 1, i - 1)
           b == SubSeq(s, i + 1, Len(s))
<1>1. /\ a \in Seq(S) /\ Len(a) = i - 1 /\ \A j \in 1..i - 1 : a[j] = s[j]
      /\ b \in Seq(S) /\ Len(b) = Len(s) - i
      /\ \A j \in 1..Len(s) - i : b[j] = s[i + j]
  OBVIOUS
<1>2. Ext!RemoveAt(s, i) = a \o b
  BY DEF Ext!RemoveAt
<1> HIDE DEF a, b
<1>3. /\ a \o b \in Seq(S) /\ Len(a \o b) = Len(a) + Len(b)
      /\ \A j \in 1..Len(a) : (a \o b)[j] = a[j]
      /\ \A j \in 1..Len(b) : (a \o b)[Len(a) + j] = b[j]
  <2>1. a \in Seq(S) /\ b \in Seq(S)
    BY <1>1
  <2> QED BY <2>1, Joined
<1>4. ASSUME NEW j \in 1..Len(s) - 1
      PROVE  (a \o b)[j] = IF j < i THEN s[j] ELSE s[j + 1]
  <2>1. CASE j < i
    <3>1. j \in 1..Len(a)
      BY <1>1, <2>1
    <3> QED BY <1>1, <1>3, <2>1, <3>1
  <2>2. CASE ~(j < i)
    <3>1. j - i + 1 \in 1..Len(b) /\ i + (j - i + 1) = j + 1 /\ Len(a) + (j - i + 1) = j
      BY <1>1, <2>2
    <3>2. (a \o b)[Len(a) + (j - i + 1)] = b[j - i + 1] /\ b[j - i + 1] = s[i + (j - i + 1)]
      BY <1>1, <1>3, <3>1
    <3>3. (a \o b)[j] = s[j + 1]
      BY <3>1, <3>2
    <3> QED BY <2>2, <3>3
  <2> QED BY <2>1, <2>2
<1>5. Len(a \o b) = Len(s) - 1
  BY <1>1, <1>3
<1> QED BY <1>2, <1>3, <1>4, <1>5

-----------------------------------------------------------------------------
(* The waiting queue                                                        *)

Entries == [who : Handles \cup {Gone}, age : 0..MaxAge]

\* The stages of a call that may have an entry in the queue.
Standing == {"asking", "attempting", "leaving"}

\* StageAgrees, for a handle in stage s at l.
Agree(s, l) ==
    /\ s \in {"joining", "asking"} <=> l = "waiting"
    /\ s = "attempting" <=> l = "trying"
    /\ s = "leaving" => l = "idle"
    /\ s = "unlocking" => l \in {"updating", "storing", "releasing", "stopping"}

\* What FairInv says of the queue, for a queue q.
InOrder(q) ==
    /\ q \in Seq(Entries)
    /\ \A i, j \in DOMAIN q : i < j =>
          /\ q[i].age >= q[j].age
          /\ q[i].who \in Handles => q[i].who # q[j].who

AheadOK == ahead \in [Handles -> SUBSET Handles]

(* The parts of FairInv. *)
LEMMA FairInvParts ==
    FairInv <=> /\ TypeOK /\ InOrder(queue)
                /\ stage \in [Handles -> Stages] /\ first \in [Handles -> BOOLEAN]
                /\ sweeping \subseteq Handles /\ AheadOK
                /\ \A h \in Handles : Agree(stage[h], pc[h])
                /\ \A i \in DOMAIN queue : queue[i].who \in Handles \ Deserters =>
                      stage[queue[i].who] \in Standing
BY DEF FairInv, FairTypeOK, StageAgrees, QueueHoldsCallers, QueueOrdered, InOrder, Entries,
       Agree, Standing, AheadOK

LEMMA AgesAreNat == MaxAge \in Nat /\ 0 \in 0..MaxAge /\ 0..MaxLag \subseteq 0..MaxAge
BY LockAssumption DEF MaxAge

(* A step of the call of h, from one stage to another, after which every    *)
(* entry is that of h or was there before.                                  *)
LEMMA CallFrame ==
    ASSUME FairInv, TypeOK', AheadOK', InOrder(queue'), NEW h \in Handles, NEW s \in Stages,
           stage' = [stage EXCEPT ![h] = s],
           first' \in [Handles -> BOOLEAN], sweeping' \subseteq Handles,
           \A g \in Handles \ {h} : pc'[g] = pc[g],
           Agree(s, pc'[h]),
           \A j \in DOMAIN queue' :
              \/ queue'[j].who \notin Handles \ Deserters
              \/ queue'[j].who = h /\ s \in Standing
              \/ queue'[j].who # h /\ \E i \in DOMAIN queue : queue[i].who = queue'[j].who
    PROVE  FairInv'
<1>1. stage' \in [Handles -> Stages]
  BY FairInvParts
<1>2. stage'[h] = s /\ \A g \in Handles \ {h} : stage'[g] = stage[g]
  BY FairInvParts
<1>3. \A g \in Handles : Agree(stage'[g], pc'[g])
  BY <1>2, FairInvParts
<1>4. ASSUME NEW j \in DOMAIN queue', queue'[j].who \in Handles \ Deserters
      PROVE  stage'[queue'[j].who] \in Standing
  BY <1>2, <1>4, FairInvParts
<1> QED BY <1>1, <1>3, <1>4
        DEF FairInv, FairTypeOK, StageAgrees, QueueHoldsCallers, QueueOrdered, InOrder, Entries,
            Agree, Standing, AheadOK

(* ZADD, position by position.                                              *)
LEMMA EntryInserted ==
    ASSUME queue \in Seq(Entries), NEW i \in 1..Len(queue) + 1, NEW e \in Entries,
           queue' = Ext!InsertAt(queue, i, e)
    PROVE  /\ queue' \in Seq(Entries) /\ Len(queue') = Len(queue) + 1
           /\ \A j \in 1..i - 1 : queue'[j] = queue[j]
           /\ queue'[i] = e
           /\ \A j \in i + 1..Len(queue) + 1 : queue'[j] = queue[j - 1]
<1> DEFINE t == Ext!InsertAt(queue, i, e)
<1>1. /\ t \in Seq(Entries) /\ Len(t) = Len(queue) + 1
      /\ \A j \in 1..i - 1 : t[j] = queue[j]
      /\ t[i] = e
      /\ \A j \in i + 1..Len(queue) + 1 : t[j] = queue[j - 1]
  BY Inserted, SMT
<1>2. queue' = t
  OBVIOUS
<1> HIDE DEF t
<1> QED BY <1>1, <1>2, Zenon

(* ZADD of an entry of h keeps the order.                                   *)
LEMMA InsertFrame ==
    ASSUME InOrder(queue), NEW h \in Handles, ~InQueue(h), Insert(h)
    PROVE  /\ InOrder(queue')
           /\ \A j \in DOMAIN queue' :
                 \/ queue'[j].who = h
                 \/ queue'[j].who # h /\ \E i \in DOMAIN queue : queue[i].who = queue'[j].who
<1>1. PICK a \in 0..MaxLag, i \in 1..Len(queue) + 1 :
        /\ \A j \in DOMAIN queue : IF j < i THEN queue[j].age >= a ELSE queue[j].age <= a
        /\ queue' = Ext!InsertAt(queue, i, [who |-> h, age |-> a])
  BY DEF Insert
<1>2. PICK e \in Entries : /\ e.who = h /\ e.age = a
                           /\ queue' = Ext!InsertAt(queue, i, e)
  <2>1. [who |-> h, age |-> a] \in Entries
    BY AgesAreNat DEF Entries
  <2> QED BY <1>1, <2>1
<1>3. queue \in Seq(Entries) /\ Len(queue) \in Nat /\ DOMAIN queue = 1..Len(queue)
  BY DEF InOrder
<1>5. /\ queue' \in Seq(Entries) /\ Len(queue') = Len(queue) + 1
      /\ \A j \in 1..i - 1 : queue'[j] = queue[j]
      /\ queue'[i] = e
      /\ \A j \in i + 1..Len(queue) + 1 : queue'[j] = queue[j - 1]
  BY <1>2, <1>3, EntryInserted
<1>6. DOMAIN queue' = 1..Len(queue) + 1
  BY <1>5
<1>7. \A j \in DOMAIN queue : queue[j].who # h /\ queue[j].age \in Int
  <2>1. \A j \in DOMAIN queue : queue[j] \in Entries
    BY <1>3
  <2> QED BY <2>1, AgesAreNat DEF InQueue, Entries
<1>8. \A j \in DOMAIN queue' :
         \/ j = i /\ queue'[j] = e
         \/ j < i /\ j \in DOMAIN queue /\ queue'[j] = queue[j]
         \/ j > i /\ j - 1 \in DOMAIN queue /\ queue'[j] = queue[j - 1]
  <2> TAKE j \in DOMAIN queue'
  <2>1. j \in 1..Len(queue) + 1 /\ i \in 1..Len(queue) + 1
    BY <1>6
  <2>2. j < i \/ j = i \/ j > i
    BY <2>1, <1>3
  <2> QED BY <1>3, <1>5, <2>1, <2>2
<1>9. ASSUME NEW j \in DOMAIN queue', NEW k \in DOMAIN queue', j < k
      PROVE  /\ queue'[j].age >= queue'[k].age
             /\ queue'[j].who \in Handles => queue'[j].who # queue'[k].who
  <2>1. \A m, n \in DOMAIN queue : m < n => /\ queue[m].age >= queue[n].age
                                            /\ queue[m].who \in Handles => queue[m].who # queue[n].who
    BY DEF InOrder
  <2>2. j \in Int /\ k \in Int /\ i \in Int /\ a \in Int
    BY <1>3, <1>6
  <2>3. CASE j < i /\ j \in DOMAIN queue /\ queue'[j] = queue[j]
    <3>1. queue[j].age >= a /\ queue[j].who # h
      BY <1>1, <1>7, <2>3
    <3>2. CASE k = i /\ queue'[k] = e
      BY <1>2, <2>3, <3>1, <3>2
    <3>3. CASE k < i /\ k \in DOMAIN queue /\ queue'[k] = queue[k]
      BY <1>9, <2>1, <2>3, <3>3
    <3>4. CASE k > i /\ k - 1 \in DOMAIN queue /\ queue'[k] = queue[k - 1]
      <4>1. j < k - 1
        BY <2>2, <2>3, <3>4
      <4> QED BY <2>1, <2>3, <3>4, <4>1
    <3> QED BY <1>8, <3>2, <3>3, <3>4
  <2>4. CASE j = i /\ queue'[j] = e
    <3>1. k > i /\ k - 1 \in DOMAIN queue /\ queue'[k] = queue[k - 1]
      BY <1>8, <1>9, <2>2, <2>4
    <3>2. ~(k - 1 < i)
      BY <2>2, <3>1
    <3>3. queue[k - 1].age <= a /\ queue[k - 1].who # h /\ queue[k - 1].age \in Int
      BY <1>1, <1>7, <3>1, <3>2
    <3> QED BY <1>2, <2>2, <2>4, <3>1, <3>3
  <2>5. CASE j > i /\ j - 1 \in DOMAIN queue /\ queue'[j] = queue[j - 1]
    <3>1. k > i /\ k - 1 \in DOMAIN queue /\ queue'[k] = queue[k - 1]
      BY <1>8, <1>9, <2>2, <2>5
    <3>2. j - 1 < k - 1
      BY <1>9, <2>2
    <3> QED BY <2>1, <2>5, <3>1, <3>2
  <2> QED BY <1>8, <2>3, <2>4, <2>5
<1>10. InOrder(queue')
  BY <1>5, <1>9 DEF InOrder
<1> QED BY <1>2, <1>7, <1>8, <1>10

(* Entries that leave the queue: what stays are entries of before, in the   *)
(* same order.                                                              *)
LEMMA StayInOrder ==
    ASSUME InOrder(queue), queue' \in Seq(Entries), NEW f,
           \A j \in DOMAIN queue' : f[j] \in DOMAIN queue /\ queue'[j] = queue[f[j]],
           \A j, k \in DOMAIN queue' : j < k => f[j] < f[k]
    PROVE  InOrder(queue')
BY DEF InOrder

(* ZREM of the entry at position i. *)
LEMMA RemoveFrame ==
    ASSUME InOrder(queue), NEW i \in DOMAIN queue, queue' = Ext!RemoveAt(queue, i)
    PROVE  /\ InOrder(queue')
           /\ \A j \in DOMAIN queue' : \E k \in DOMAIN queue \ {i} : queue'[j] = queue[k]
<1>1. queue \in Seq(Entries) /\ Len(queue) \in Nat /\ DOMAIN queue = 1..Len(queue)
  BY DEF InOrder
<1>2. /\ queue' \in Seq(Entries) /\ Len(queue') = Len(queue) - 1
      /\ \A j \in 1..Len(queue) - 1 : queue'[j] = IF j < i THEN queue[j] ELSE queue[j + 1]
  BY <1>1, Removed
<1>3. DOMAIN queue' = 1..Len(queue) - 1
  BY <1>2
<1> DEFINE f == [j \in 1..Len(queue) - 1 |-> IF j < i THEN j ELSE j + 1]
<1>4. \A j \in DOMAIN queue' : f[j] \in DOMAIN queue \ {i} /\ queue'[j] = queue[f[j]]
  <2> TAKE j \in DOMAIN queue'
  <2>1. j \in 1..Len(queue) - 1 /\ i \in 1..Len(queue)
    BY <1>1, <1>3
  <2>2. CASE j < i
    BY <1>1, <1>2, <2>1, <2>2
  <2>3. CASE j >= i
    BY <1>1, <1>2, <2>1, <2>3
  <2>4. j < i \/ j >= i
    BY <1>1, <2>1
  <2> QED BY <2>2, <2>3, <2>4
<1>5. \A j, k \in DOMAIN queue' : j < k => f[j] < f[k]
  BY <1>1, <1>3
<1> HIDE DEF f
<1> QED BY <1>2, <1>4, <1>5, StayInOrder

-----------------------------------------------------------------------------
(* The steps of a handle                                                    *)

(* A step of the call of h that leaves the queue as it is.                  *)
LEMMA QueueFrame ==
    ASSUME FairInv, TypeOK', AheadOK', NEW h \in Handles, NEW s \in Stages,
           stage' = [stage EXCEPT ![h] = s],
           first' \in [Handles -> BOOLEAN], sweeping' \subseteq Handles,
           \A g \in Handles \ {h} : pc'[g] = pc[g],
           Agree(s, pc'[h]),
           UNCHANGED queue,
           s \in Standing \/ ~InQueue(h) \/ h \in Deserters
    PROVE  FairInv'
<1>1. InOrder(queue')
  BY FairInvParts
<1>2. \A j \in DOMAIN queue' :
         \/ queue'[j].who \notin Handles \ Deserters
         \/ queue'[j].who = h /\ s \in Standing
         \/ queue'[j].who # h /\ \E i \in DOMAIN queue : queue[i].who = queue'[j].who
  BY DEF InQueue
<1> QED BY <1>1, <1>2, CallFrame

(* Only a handle in one of the stages of Standing is in the queue.          *)
LEMMA NotWaiting ==
    ASSUME FairInv, NEW h \in Handles, stage[h] \notin Standing
    PROVE  ~InQueue(h) \/ h \in Deserters
BY FairInvParts DEF InQueue

LEMMA AtOneStage ==
    ASSUME FairInv, NEW h \in Handles
    PROVE  /\ Agree(stage[h], pc[h]) /\ stage[h] \in Stages /\ pc[h] \in PCs
           /\ pc \in [Handles -> PCs]
           /\ first \in [Handles -> BOOLEAN] /\ sweeping \subseteq Handles
BY FairInvParts DEF TypeOK

(* Lock and TryLock.                                                        *)

LEMMA FairLockStartStep ==
    ASSUME FairInv, TypeOK', AheadOK', NEW h \in Handles, NEW w \in {0, WaitTimeout}, FairLockStart(h, w)
    PROVE  FairInv'
<1> DEFINE s == IF pc'[h] = "waiting" THEN "joining" ELSE "none"
<1>1. pc'[h] \in {"checking", "waiting"} /\ \A g \in Handles \ {h} : pc'[g] = pc[g]
  BY AtOneStage DEF FairLockStart, LockStart, Goto
<1>2. s \in Stages /\ Agree(s, pc'[h])
  BY <1>1 DEF Agree, Stages
<1>3. stage' = [stage EXCEPT ![h] = s] /\ UNCHANGED <<queue, first, sweeping>>
  BY DEF FairLockStart, Enter
<1>4. ~InQueue(h) \/ h \in Deserters
  BY NotWaiting DEF FairLockStart, Standing
<1> HIDE DEF s
<1> QED BY <1>1, <1>2, <1>3, <1>4, AtOneStage, QueueFrame

LEMMA ReenterStep ==
    ASSUME FairInv, TypeOK', AheadOK', NEW h \in Handles, Reenter(h)
    PROVE  FairInv'
<1>1. ~InQueue(h) \/ h \in Deserters
  BY NotWaiting DEF Reenter, Standing
<1>2. UNCHANGED <<queue, first, sweeping>>
  BY DEF Reenter
<1>3. CASE Check(h) /\ Enter(h, IF pc'[h] = "waiting" THEN "joining" ELSE "none")
  <2> DEFINE s == IF pc'[h] = "waiting" THEN "joining" ELSE "none"
  <2>1. pc'[h] \in {"updating", "waiting"} /\ \A g \in Handles \ {h} : pc'[g] = pc[g]
    BY <1>3, AtOneStage DEF Check, Goto
  <2>2. s \in Stages /\ Agree(s, pc'[h])
    BY <2>1 DEF Agree, Stages
  <2>3. stage' = [stage EXCEPT ![h] = s]
    BY <1>3 DEF Enter
  <2> HIDE DEF s
  <2> QED BY <1>1, <1>2, <2>1, <2>2, <2>3, AtOneStage, QueueFrame
<1>4. CASE (UpdateGet(h) \/ UpdateSet(h)) /\ UNCHANGED stage
  <2>1. pc'[h] \in {"storing", "idle"} /\ \A g \in Handles \ {h} : pc'[g] = pc[g]
    BY <1>4, AtOneStage DEF UpdateGet, UpdateSet, Goto
  <2>2. stage' = [stage EXCEPT ![h] = "none"]
    BY <1>4, FairInvParts DEF Reenter
  <2>3. Agree("none", pc'[h])
    BY <2>1 DEF Agree
  <2> QED BY <1>1, <1>2, <2>1, <2>2, <2>3, AtOneStage, QueueFrame DEF Stages
<1> QED BY <1>3, <1>4 DEF Reenter

LEMMA JoinStep ==
    ASSUME FairInv, TypeOK', AheadOK', NEW h \in Handles, Join(h)
    PROVE  FairInv'
<1>1. pc' = pc /\ sweeping' = sweeping /\ stage' = [stage EXCEPT ![h] = "asking"]
  BY DEF Join, vars, calls, Enter
<1>2. Agree("asking", pc'[h])
  BY <1>1, AtOneStage DEF Join, Agree
<1>3. first' \in [Handles -> BOOLEAN]
  BY AtOneStage DEF Join
<1>4. CASE UNCHANGED queue
  BY <1>1, <1>2, <1>3, <1>4, AtOneStage, QueueFrame DEF Standing, Stages
<1>5. CASE ~InQueue(h) /\ Insert(h)
  <2>1. InOrder(queue)
    BY FairInvParts
  <2>2. /\ InOrder(queue')
        /\ \A j \in DOMAIN queue' :
              \/ queue'[j].who = h
              \/ queue'[j].who # h /\ \E i \in DOMAIN queue : queue[i].who = queue'[j].who
    BY <1>5, <2>1, InsertFrame
  <2> QED BY <1>1, <1>2, <1>3, <2>2, AtOneStage, CallFrame DEF Standing, Stages
<1> QED BY <1>4, <1>5 DEF Join

LEMMA JoinFailStep ==
    ASSUME FairInv, TypeOK', AheadOK', NEW h \in Handles, JoinFail(h)
    PROVE  FairInv'
<1>1. /\ h \in Deserters /\ stage' = [stage EXCEPT ![h] = "none"]
      /\ UNCHANGED <<first, sweeping>>
  BY DEF JoinFail, Enter
<1>2. pc'[h] = "idle" /\ \A g \in Handles \ {h} : pc'[g] = pc[g]
  BY AtOneStage DEF JoinFail, Attempt, Goto
<1>3. Agree("none", pc'[h])
  BY <1>2 DEF Agree
<1>4. CASE UNCHANGED queue
  BY <1>1, <1>2, <1>3, <1>4, AtOneStage, QueueFrame DEF Stages
<1>5. CASE ~InQueue(h) /\ Insert(h)
  <2>1. InOrder(queue)
    BY FairInvParts
  <2>2. /\ InOrder(queue')
        /\ \A j \in DOMAIN queue' :
              \/ queue'[j].who = h
              \/ queue'[j].who # h /\ \E i \in DOMAIN queue : queue[i].who = queue'[j].who
    BY <1>5, <2>1, InsertFrame
  <2>3. \A j \in DOMAIN queue' :
           \/ queue'[j].who \notin Handles \ Deserters
           \/ queue'[j].who # h /\ \E i \in DOMAIN queue : queue[i].who = queue'[j].who
    BY <1>1, <2>2
  <2> QED BY <1>1, <1>2, <1>3, <2>2, <2>3, AtOneStage, CallFrame DEF Stages
<1> QED BY <1>4, <1>5 DEF JoinFail

LEMMA AskStep ==
    ASSUME FairInv, TypeOK', AheadOK', NEW h \in Handles, Ask(h)
    PROVE  FairInv'
<1>1. PICK s \in {"attempting", "leaving"} :
         /\ stage' = [stage EXCEPT ![h] = s]
         /\ pc'[h] = IF s = "attempting" THEN "trying" ELSE "idle"
  BY DEF Ask, Enter
<1>2. \A g \in Handles \ {h} : pc'[g] = pc[g]
  BY AtOneStage DEF Ask, Attempt, Goto
<1>3. Agree(s, pc'[h])
  BY <1>1 DEF Agree
<1>4. UNCHANGED <<queue, first, sweeping>>
  BY DEF Ask
<1> QED BY <1>1, <1>2, <1>3, <1>4, AtOneStage, QueueFrame DEF Standing, Stages

LEMMA FairTryStep ==
    ASSUME FairInv, TypeOK', AheadOK', NEW h \in Handles, FairTry(h)
    PROVE  FairInv'
<1> DEFINE s == IF pc'[h] = "waiting" THEN "asking" ELSE "leaving"
<1>1. pc'[h] \in {"waiting", "idle"} /\ \A g \in Handles \ {h} : pc'[g] = pc[g]
  BY AtOneStage DEF FairTry, Try, Acquired, Goto
<1>2. s \in Standing /\ s \in Stages /\ Agree(s, pc'[h])
  BY <1>1 DEF Agree, Stages, Standing
<1>3. stage' = [stage EXCEPT ![h] = s] /\ UNCHANGED <<queue, first, sweeping>>
  BY DEF FairTry, Enter
<1> HIDE DEF s
<1> QED BY <1>1, <1>2, <1>3, AtOneStage, QueueFrame

LEMMA LeaveStep ==
    ASSUME FairInv, TypeOK', AheadOK', NEW h \in Handles, Leave(h)
    PROVE  FairInv'
<1>1. /\ pc' = pc /\ sweeping' = sweeping /\ stage' = [stage EXCEPT ![h] = "none"]
      /\ first' \in [Handles -> BOOLEAN]
  BY AtOneStage DEF Leave, vars, calls, Enter
<1>2. Agree("none", pc'[h])
  BY <1>1, AtOneStage DEF Leave, Agree
<1>3. CASE (~InQueue(h) \/ h \in Deserters) /\ UNCHANGED queue
  BY <1>1, <1>2, <1>3, AtOneStage, QueueFrame DEF Stages
<1>4. CASE \E i \in DOMAIN queue : queue[i].who = h /\ queue' = Ext!RemoveAt(queue, i)
  <2>1. PICK i \in DOMAIN queue : queue[i].who = h /\ queue' = Ext!RemoveAt(queue, i)
    BY <1>4
  <2>2. /\ InOrder(queue')
        /\ \A j \in DOMAIN queue' : \E k \in DOMAIN queue \ {i} : queue'[j] = queue[k]
    BY <2>1, FairInvParts, RemoveFrame
  <2>3. \A k \in DOMAIN queue \ {i} : queue[k].who # h
    <3> TAKE k \in DOMAIN queue \ {i}
    <3>1. InOrder(queue) /\ DOMAIN queue \subseteq Int
      BY FairInvParts DEF InOrder
    <3>2. k < i \/ i < k
      BY <3>1
    <3> QED BY <2>1, <3>1, <3>2 DEF InOrder
  <2>4. \A j \in DOMAIN queue' :
           queue'[j].who # h /\ \E k \in DOMAIN queue : queue[k].who = queue'[j].who
    BY <2>2, <2>3
  <2> QED BY <1>1, <1>2, <2>2, <2>4, AtOneStage, CallFrame DEF Stages
<1> QED BY <1>3, <1>4 DEF Leave

(* Unlock.                                                                  *)

LEMMA FairUnlockStartStep ==
    ASSUME FairInv, TypeOK', AheadOK', NEW h \in Handles, FairUnlockStart(h)
    PROVE  FairInv'
<1>1. ~InQueue(h) \/ h \in Deserters
  BY NotWaiting DEF FairUnlockStart, Standing
<1>2. /\ stage' = [stage EXCEPT ![h] = "unlocking"]
      /\ UNCHANGED <<queue, first, sweeping>>
  BY DEF FairUnlockStart, Enter
<1>3. pc'[h] \in {"updating", "releasing"} /\ \A g \in Handles \ {h} : pc'[g] = pc[g]
  BY AtOneStage DEF FairUnlockStart, UnlockStart, Goto
<1>4. Agree("unlocking", pc'[h])
  BY <1>3 DEF Agree
<1> QED BY <1>1, <1>2, <1>3, <1>4, AtOneStage, QueueFrame DEF Stages

LEMMA FairUnlockStep ==
    ASSUME FairInv, TypeOK', AheadOK', NEW h \in Handles, FairUnlock(h)
    PROVE  FairInv'
<1> DEFINE s == IF pc'[h] = "idle" THEN "none" ELSE "unlocking"
<1>1. ~InQueue(h) \/ h \in Deserters
  BY NotWaiting DEF FairUnlock, Standing
<1>2. pc'[h] \in {"idle", "storing", "stopping"} /\ \A g \in Handles \ {h} : pc'[g] = pc[g]
  BY AtOneStage DEF FairUnlock, UpdateGet, UpdateSet, Release, StopWait, Goto
<1>3. s \in Stages /\ Agree(s, pc'[h])
  BY <1>2 DEF Agree, Stages
<1>4. stage' = [stage EXCEPT ![h] = s] /\ UNCHANGED <<queue, first>>
  BY DEF FairUnlock, Enter
<1>5. sweeping' \subseteq Handles
  BY AtOneStage DEF FairUnlock
<1> HIDE DEF s
<1> QED BY <1>1, <1>2, <1>3, <1>4, <1>5, AtOneStage, QueueFrame

LEMMA FairFailStep ==
    ASSUME FairInv, TypeOK', AheadOK', NEW h \in Handles, FairFail(h)
    PROVE  FairInv'
<1> DEFINE s == IF stage[h] = "attempting" THEN "leaving"
                ELSE IF pc'[h] = "waiting" THEN "joining" ELSE "none"
<1>1. h \in Deserters
  BY FairAssumption DEF FairFail, Fail
<1>2. /\ pc'[h] = IF pc[h] = "checking" THEN "waiting" ELSE "idle"
      /\ \A g \in Handles \ {h} : pc'[g] = pc[g]
  BY AtOneStage DEF FairFail, Fail, Goto
<1>3. s \in Stages /\ Agree(s, pc'[h])
  BY <1>2, AtOneStage DEF Agree, Stages
<1>4. stage' = [stage EXCEPT ![h] = s] /\ UNCHANGED <<queue, first, sweeping>>
  BY DEF FairFail, Enter
<1> HIDE DEF s
<1> QED BY <1>1, <1>2, <1>3, <1>4, AtOneStage, QueueFrame

(* The death of a process, whose entry nobody owns from then on.            *)

LEMMA DieStep ==
    ASSUME FairInv, TypeOK', AheadOK', NEW h \in Handles, Die(h)
    PROVE  FairInv'
<1>1. Restart(h) /\ Orphan(h)
  BY DEF Die, Crash, TaskPanic
<1>2. /\ pc'[h] = "idle" /\ \A g \in Handles \ {h} : pc'[g] = pc[g]
      /\ stage' = [stage EXCEPT ![h] = "none"]
      /\ first' \in [Handles -> BOOLEAN] /\ sweeping' \subseteq Handles
  BY <1>1, AtOneStage DEF Restart, Orphan, Enter, Goto
<1>3. Agree("none", pc'[h])
  BY <1>2 DEF Agree
<1>4. InOrder(queue) /\ queue \in Seq(Entries)
  BY FairInvParts DEF InOrder
<1>5. queue' = [i \in DOMAIN queue |->
                   IF queue[i].who = h THEN [queue[i] EXCEPT !.who = Gone] ELSE queue[i]]
  BY <1>1 DEF Orphan
<1>6. \A i \in DOMAIN queue :
         /\ queue'[i] \in Entries /\ queue'[i].age = queue[i].age
         /\ queue'[i].who = IF queue[i].who = h THEN Gone ELSE queue[i].who
  <2>1. ASSUME NEW e \in Entries
        PROVE  [e EXCEPT !.who = Gone] = [who |-> Gone, age |-> e.age]
    BY DEF Entries
  <2> TAKE i \in DOMAIN queue
  <2>2. PICK e \in Entries : e = queue[i]
    BY <1>4
  <2>3. queue'[i] = IF e.who = h THEN [who |-> Gone, age |-> e.age] ELSE e
    BY <1>5, <2>1, <2>2
  <2> QED BY <2>2, <2>3 DEF Entries
<1>7. queue' \in Seq(Entries) /\ DOMAIN queue' = DOMAIN queue
  BY <1>4, <1>5, <1>6
<1>8. Gone \notin Handles
  BY LockAssumption
<1>9. InOrder(queue')
  BY <1>4, <1>6, <1>7, <1>8 DEF InOrder
<1>10. \A j \in DOMAIN queue' :
          \/ queue'[j].who \notin Handles \ Deserters
          \/ queue'[j].who # h /\ \E i \in DOMAIN queue : queue[i].who = queue'[j].who
  BY <1>6, <1>7, <1>8
<1> QED BY <1>2, <1>3, <1>9, <1>10, CallFrame DEF Stages

(* The goroutines, and the environment                                      *)

\* A step of a renewal goroutine or of the environment: the calls of the
\* handles stand where they stood.
LEMMA ElsewhereFrame ==
    ASSUME FairInv, TypeOK', AheadOK', InOrder(queue'), UNCHANGED <<pc, stage, first>>,
           sweeping' \subseteq Handles,
           \A j \in DOMAIN queue' : \E i \in DOMAIN queue : queue[i].who = queue'[j].who
    PROVE  FairInv'
<1>1. \A h \in Handles : Agree(stage'[h], pc'[h])
  BY FairInvParts
<1>2. ASSUME NEW j \in DOMAIN queue', queue'[j].who \in Handles \ Deserters
      PROVE  stage'[queue'[j].who] \in Standing
  BY <1>2, FairInvParts
<1> QED BY <1>1, <1>2, FairInvParts
        DEF FairInv, FairTypeOK, StageAgrees, QueueHoldsCallers, QueueOrdered, InOrder, Entries,
            Agree, Standing, AheadOK

LEMMA SweepStep ==
    ASSUME FairInv, TypeOK', AheadOK', NEW h \in Handles, Sweep(h)
    PROVE  FairInv'
<1>1. UNCHANGED <<pc, stage, first>> /\ sweeping' \subseteq Handles
  BY AtOneStage DEF Sweep, vars, calls
<1>2. InOrder(queue) /\ queue \in Seq(Entries)
  BY FairInvParts DEF InOrder
<1>3. CASE UNCHANGED queue
  BY <1>1, <1>2, <1>3, ElsewhereFrame
<1>4. CASE \E n \in 0..Len(queue) : queue' = SubSeq(queue, n + 1, Len(queue))
  <2>1. PICK n \in 0..Len(queue) : queue' = SubSeq(queue, n + 1, Len(queue))
    BY <1>4
  <2>2. /\ queue' \in Seq(Entries) /\ DOMAIN queue' = 1..Len(queue) - n
        /\ \A j \in 1..Len(queue) - n : n + j \in DOMAIN queue /\ queue'[j] = queue[n + j]
    BY <1>2, <2>1
  <2> DEFINE f == [j \in 1..Len(queue) - n |-> n + j]
  <2>3. /\ \A j \in DOMAIN queue' : f[j] \in DOMAIN queue /\ queue'[j] = queue[f[j]]
        /\ \A j, k \in DOMAIN queue' : j < k => f[j] < f[k]
    BY <1>2, <2>2
  <2> HIDE DEF f
  <2>4. InOrder(queue')
    BY <1>2, <2>2, <2>3, StayInOrder
  <2> QED BY <1>1, <2>2, <2>4, ElsewhereFrame
<1> QED BY <1>3, <1>4 DEF Sweep

LEMMA FairTaskStep ==
    ASSUME FairInv, TypeOK', AheadOK', NEW h \in Handles, NEW k \in TasksOf(h), FairTask(h, k)
    PROVE  FairInv'
<1>1. UNCHANGED <<pc, fair>>
  BY DEF FairTask, TaskStart, TaskStop, TaskTick, Renew, RenewFail, RenewStart, calls
<1> QED BY <1>1, FairInvParts, ElsewhereFrame DEF fair

LEMMA FairDeleteStep ==
    ASSUME FairInv, TypeOK', AheadOK', FairDelete
    PROVE  FairInv'
<1>1. UNCHANGED <<pc, stage, first, sweeping>> /\ queue' = <<>>
  BY DEF FairDelete, ForceUnlock, calls, vars
<1>2. InOrder(queue') /\ DOMAIN queue' = {}
  BY <1>1 DEF InOrder
<1> QED BY <1>1, <1>2, AgesAreNat, FairInvParts, ElsewhereFrame

LEMMA FairTickStep ==
    ASSUME FairInv, TypeOK', AheadOK', FairTick
    PROVE  FairInv'
<1>1. UNCHANGED <<pc, stage, first, sweeping>>
  BY DEF FairTick, Tick
<1>2. InOrder(queue) /\ queue \in Seq(Entries)
  BY FairInvParts DEF InOrder
<1>3. queue' = [i \in DOMAIN queue |->
                   [queue[i] EXCEPT !.age = IF @ < MaxAge THEN @ + 1 ELSE @]]
  BY DEF FairTick
<1>4. \A i \in DOMAIN queue :
         /\ queue'[i] \in Entries /\ queue'[i].who = queue[i].who
         /\ queue[i].age \in Int
         /\ queue'[i].age = IF queue[i].age < MaxAge THEN queue[i].age + 1 ELSE queue[i].age
  <2> DEFINE older(n) == IF n < MaxAge THEN n + 1 ELSE n
  <2>1. ASSUME NEW e \in Entries
        PROVE  [e EXCEPT !.age = older(@)] = [who |-> e.who, age |-> older(e.age)]
    BY DEF Entries
  <2> TAKE i \in DOMAIN queue
  <2>2. PICK e \in Entries : e = queue[i]
    BY <1>2
  <2>3. queue'[i] = [who |-> e.who, age |-> older(e.age)]
    BY <1>3, <2>1, <2>2
  <2>4. older(e.age) \in 0..MaxAge /\ e.age \in Int
    BY AgesAreNat DEF Entries
  <2> QED BY <2>2, <2>3, <2>4 DEF Entries
<1>5. queue' \in Seq(Entries) /\ DOMAIN queue' = DOMAIN queue
  <2>1. DOMAIN queue = 1..Len(queue) /\ Len(queue) \in Nat
    BY <1>2
  <2>2. queue' = [i \in 1..Len(queue) |-> queue'[i]]
    BY <1>3, <2>1
  <2> QED BY <1>4, <2>1, <2>2
<1>6. InOrder(queue')
  <2>1. ASSUME NEW i \in DOMAIN queue, NEW j \in DOMAIN queue, i < j
        PROVE  /\ queue'[i].age >= queue'[j].age
               /\ queue'[i].who \in Handles => queue'[i].who # queue'[j].who
    <3>1. /\ queue[i].age >= queue[j].age
          /\ queue[i].who \in Handles => queue[i].who # queue[j].who
      BY <1>2, <2>1 DEF InOrder
    <3> QED BY <1>4, <3>1, AgesAreNat
  <2> QED BY <1>5, <2>1 DEF InOrder
<1> QED BY <1>1, <1>4, <1>5, <1>6, FairInvParts, ElsewhereFrame

-----------------------------------------------------------------------------
(* The invariant of the fair lock                                           *)

LEMMA FairInitial ==
    ASSUME FairInit
    PROVE  FairInv
<1>1. TypeOK
  BY TypeInit DEF FairInit
<1> QED BY <1>1 DEF FairInit, Init, FairInv, FairTypeOK, StageAgrees, QueueHoldsCallers,
                    QueueOrdered, Stages

LEMMA FairInductive ==
    ASSUME FairInv, [FairNext]_fairVars
    PROVE  FairInv'
<1>1. TypeOK'
  BY FairIsLockStep, TypeStep DEF FairInv, FairTypeOK
<1>0. AheadOK'
  BY FairInvParts DEF FairNext, Remember, fairVars, AheadOK
<1>2. CASE UNCHANGED fairVars
  BY <1>0, <1>1, <1>2, FairInvParts, ElsewhereFrame DEF fairVars, fair, vars, calls
<1>3. ASSUME NEW h \in Handles,
             \/ \E w \in {0, WaitTimeout} : FairLockStart(h, w)
             \/ FairUnlockStart(h) \/ FairContinue(h) \/ Sweep(h)
             \/ JoinFail(h) \/ FairFail(h) \/ Die(h)
             \/ \E k \in TasksOf(h) : FairTask(h, k)
      PROVE  FairInv'
  <2>1. CASE FairContinue(h)
    BY <1>0, <1>1, <2>1, ReenterStep, JoinStep, AskStep, FairTryStep, LeaveStep, FairUnlockStep
       DEF FairContinue
  <2>2. CASE ~FairContinue(h)
    BY <1>0, <1>1, <1>3, <2>2, FairLockStartStep, FairUnlockStartStep, SweepStep, JoinFailStep,
       FairFailStep, DieStep, FairTaskStep
  <2> QED BY <2>1, <2>2
<1>4. CASE FairDelete
  BY <1>0, <1>1, <1>4, FairDeleteStep
<1>5. CASE (ForceUnlock \/ Expire) /\ UNCHANGED fair
  <2>1. UNCHANGED <<pc, fair>>
    BY <1>5 DEF ForceUnlock, Expire, calls
  <2> QED BY <1>0, <1>1, <2>1, FairInvParts, ElsewhereFrame DEF fair
<1>6. CASE FairTick
  BY <1>0, <1>1, <1>6, FairTickStep
<1> QED BY <1>2, <1>3, <1>4, <1>5, <1>6 DEF FairNext, FairStep

\* The waiting queue stays in the order of the scores with one entry of a handle
\* at most, each entry is that of a call that will remove it, unless its process
\* died or its context ended, and the stages of lockFairInternal agree with
\* those of the embedded lock.
THEOREM FairQueueInvariant == FairLockSpec => []FairInv
<1>1. FairInit => FairInv
  BY FairInitial
<1>2. FairInv /\ [FairNext]_fairVars => FairInv'
  BY FairInductive
<1> QED BY <1>1, <1>2, PTL DEF FairLockSpec

-----------------------------------------------------------------------------
(* FIFO                                                                     *)

\* The inductive invariant behind InTurn: who goes by the position 0 has nobody
\* ahead of him, and only he attempts.
Turn(h) ==
    /\ stage[h] = "attempting" => first[h]
    /\ stage[h] \in {"asking", "attempting"} /\ first[h] => ahead[h] = {}
    /\ h \notin ahead[h]

TurnInv == FairInv /\ \A h \in Handles : Turn(h)

(* Who is ahead of h was so before, unless h comes to the queue.            *)
LEMMA AheadShrinks ==
    ASSUME Remember, NEW h \in Handles
    PROVE  /\ stage[h] = "joining" \/ stage'[h] # "joining" => ahead'[h] \subseteq ahead[h]
           /\ h \notin ahead[h] => h \notin ahead'[h]
           /\ \A g \in ahead'[h] : InQueue(g)'
BY DEF Remember

(* A step after which h stands in the queue only as it stood before.        *)
LEMMA TurnFrame ==
    ASSUME TurnInv, Remember, NEW h \in Handles,
           stage'[h] = "attempting" => first'[h],
           stage'[h] \in {"asking", "attempting"} /\ first'[h] =>
              stage[h] \in {"asking", "attempting"} /\ first[h]
    PROVE  Turn(h)'
BY AheadShrinks DEF TurnInv, Turn

(* A handle that a step is not one of.                                      *)
LEMMA OthersTurn ==
    ASSUME TurnInv, Remember, NEW h \in Handles,
           stage'[h] = stage[h], first'[h] = first[h]
    PROVE  Turn(h)'
BY TurnFrame DEF TurnInv, Turn

(* A caller that joins as the first has joined ahead of nobody.             *)
LEMMA JoinTurn ==
    ASSUME TurnInv, Remember, NEW h \in Handles, Join(h)
    PROVE  Turn(h)'
<1>1. /\ stage[h] = "joining" /\ stage'[h] = "asking"
      /\ first \in [Handles -> BOOLEAN] /\ InOrder(queue) /\ queue \in Seq(Entries)
  BY FairInvParts DEF Join, Enter, TurnInv, InOrder
<1>2. ahead'[h] \subseteq ahead[h] /\ h \notin ahead'[h] /\ \A g \in ahead'[h] : InQueue(g)'
  BY <1>1, AheadShrinks DEF TurnInv, Turn
<1>3. CASE InQueue(h)
  BY <1>1, <1>2, <1>3 DEF Join, Turn
<1>4. CASE ~InQueue(h)
  <2>1. Insert(h) /\ first' = [first EXCEPT ![h] = queue'[1].who = h]
    BY <1>4 DEF Join
  <2>2. PICK a \in 0..MaxLag, i \in 1..Len(queue) + 1 :
           /\ \A j \in DOMAIN queue : queue[j].who \in ahead[h] => j < i
           /\ queue' = Ext!InsertAt(queue, i, [who |-> h, age |-> a])
    BY <2>1 DEF Insert
  <2>3. PICK e \in Entries : e.who = h /\ queue' = Ext!InsertAt(queue, i, e)
    <3>1. [who |-> h, age |-> a] \in Entries
      BY AgesAreNat DEF Entries
    <3> QED BY <2>2, <3>1
  <2>4. /\ queue' \in Seq(Entries) /\ Len(queue') = Len(queue) + 1
        /\ \A j \in 1..i - 1 : queue'[j] = queue[j]
        /\ queue'[i] = e
        /\ \A j \in i + 1..Len(queue) + 1 : queue'[j] = queue[j - 1]
    BY <1>1, <2>3, EntryInserted
  <2>5. DOMAIN queue = 1..Len(queue) /\ DOMAIN queue' = 1..Len(queue) + 1 /\ Len(queue) \in Nat
    BY <1>1, <2>4
  <2>6. ASSUME queue'[1].who = h PROVE ahead'[h] = {}
    <3>1. i = 1
      <4> SUFFICES ASSUME i > 1 PROVE FALSE
        BY <2>5
      <4>1. 1 \in 1..i - 1 /\ 1 \in DOMAIN queue
        BY <2>5
      <4> QED BY <1>4, <2>4, <2>6, <4>1 DEF InQueue
    <3>2. \A j \in DOMAIN queue : queue[j].who \notin ahead[h]
      BY <2>2, <2>5, <3>1
    <3>3. \A j \in DOMAIN queue' : queue'[j].who \notin ahead'[h]
      <4> TAKE j \in DOMAIN queue'
      <4>1. CASE j = 1
        BY <1>2, <2>6, <4>1
      <4>2. CASE j # 1
        <5>1. j - 1 \in DOMAIN queue /\ queue'[j] = queue[j - 1]
          BY <2>4, <2>5, <3>1, <4>2
        <5> QED BY <1>2, <3>2, <5>1
      <4> QED BY <4>1, <4>2
    <3> QED BY <1>2, <3>3 DEF InQueue
  <2>7. first'[h] <=> queue'[1].who = h
    BY <1>1, <2>1
  <2> QED BY <1>1, <1>2, <2>6, <2>7 DEF Turn
<1> QED BY <1>3, <1>4

(* The other steps of a call.                                               *)
LEMMA CallTurn ==
    ASSUME TurnInv, Remember, NEW h \in Handles,
           \/ \E w \in {0, WaitTimeout} : FairLockStart(h, w)
           \/ FairUnlockStart(h) \/ Reenter(h) \/ Ask(h) \/ FairTry(h) \/ Leave(h)
           \/ FairUnlock(h) \/ JoinFail(h) \/ FairFail(h) \/ Die(h)
    PROVE  Turn(h)'
<1>1. stage \in [Handles -> Stages] /\ first \in [Handles -> BOOLEAN]
  BY FairInvParts DEF TurnInv
<1>2. CASE stage'[h] \notin {"asking", "attempting"}
  BY <1>2, TurnFrame
<1>3. CASE Ask(h)
  BY <1>1, <1>3, TurnFrame DEF Ask, MayAttempt, Enter
<1>4. CASE FairTry(h)
  BY <1>1, <1>4, TurnFrame DEF FairTry, Enter, TurnInv, Turn
<1>5. ASSUME \/ \E w \in {0, WaitTimeout} : FairLockStart(h, w)
             \/ FairUnlockStart(h) \/ Reenter(h) \/ Leave(h)
             \/ FairUnlock(h) \/ JoinFail(h) \/ FairFail(h) \/ Die(h)
      PROVE  stage'[h] \notin {"asking", "attempting"}
  BY <1>1, <1>5 DEF FairLockStart, FairUnlockStart, Reenter, Leave, FairUnlock, JoinFail,
                    FairFail, Die, Orphan, Enter
<1> QED BY <1>2, <1>3, <1>4, <1>5

LEMMA TurnInductive ==
    ASSUME TurnInv, [FairNext]_fairVars
    PROVE  TurnInv'
<1>1. FairInv'
  BY FairInductive DEF TurnInv
<1>2. CASE UNCHANGED fairVars
  BY <1>1, <1>2 DEF TurnInv, Turn, fairVars, fair
<1>3. CASE FairNext
  <2> SUFFICES ASSUME NEW h \in Handles PROVE Turn(h)'
    BY <1>1 DEF TurnInv
  <2>1. Remember
    BY <1>3 DEF FairNext
  <2>2. stage \in [Handles -> Stages] /\ first \in [Handles -> BOOLEAN]
    BY FairInvParts DEF TurnInv
  <2>3. ASSUME NEW g \in Handles,
               \/ \E w \in {0, WaitTimeout} : FairLockStart(g, w)
               \/ FairUnlockStart(g) \/ Reenter(g) \/ Join(g) \/ Ask(g) \/ FairTry(g)
               \/ Leave(g) \/ FairUnlock(g) \/ JoinFail(g) \/ FairFail(g) \/ Die(g)
        PROVE  Turn(h)'
    <3>1. CASE g = h
      BY <2>1, <2>3, <3>1, JoinTurn, CallTurn
    <3>2. CASE g # h
      <4>1. stage'[h] = stage[h] /\ first'[h] = first[h]
        BY <2>2, <2>3, <3>2
           DEF FairLockStart, FairUnlockStart, Reenter, Join, Ask, FairTry, Leave, FairUnlock,
               JoinFail, FairFail, Die, Orphan, Enter
      <4> QED BY <2>1, <4>1, OthersTurn
    <3> QED BY <3>1, <3>2
  <2>4. ASSUME UNCHANGED <<stage, first>> PROVE Turn(h)'
    BY <2>1, <2>4, OthersTurn
  <2>5. ASSUME NEW g \in Handles, Sweep(g) \/ \E k \in TasksOf(g) : FairTask(g, k)
        PROVE  UNCHANGED <<stage, first>>
    BY <2>5 DEF Sweep, FairTask, fair
  <2>6. ASSUME FairDelete \/ ((ForceUnlock \/ Expire) /\ UNCHANGED fair) \/ FairTick
        PROVE  UNCHANGED <<stage, first>>
    BY <2>6 DEF FairDelete, FairTick, fair
  <2> QED BY <1>3, <2>3, <2>4, <2>5, <2>6 DEF FairNext, FairStep, FairContinue
<1> QED BY <1>2, <1>3

\* A caller attempts to take the fair lock only when the entries that stood in the
\* queue when its call came to joinQueue have left it, though the position it goes
\* by was read once, and whoever joins with a clock that is behind, dies, is swept
\* or leaves its entry behind meanwhile.
THEOREM QueueIsInTurn == FairLockSpec => []InTurn
<1>1. FairInit => TurnInv
  BY FairInitial DEF FairInit, TurnInv, Turn
<1>2. TurnInv /\ [FairNext]_fairVars => TurnInv'
  BY TurnInductive
<1>3. TurnInv => InTurn
  BY DEF TurnInv, Turn, InTurn
<1> QED BY <1>1, <1>2, <1>3, PTL DEF FairLockSpec
=============================================================================
