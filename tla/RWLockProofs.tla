---------------------------- MODULE RWLockProofs ----------------------------
(***************************************************************************)
(* Proofs about RWLock: type correctness, that nobody relies on the lock   *)
(* together with a writer, that who keeps his lease finds his lock, and    *)
(* that the lock is a LeaseLock.  Assumed is that the clock is read less   *)
(* than a lease before the script runs, and that callers do not share a    *)
(* handle where the code does not count them.                              *)
(***************************************************************************)
EXTENDS RWLock, FiniteSetTheorems, TLAPS

\* A write handle has one caller at a time, as a second Lock of it is not
\* counted, and so has the read handle of an unreliable object, as an Unlock
\* that comes too late counts down for a caller that is not the one it is of.
LoneCallers ==
    /\ \A v, w \in Writers : On[v] = On[w] => v = w
    /\ \A c, d \in Readers : On[c] = On[d] /\ On[c] \in Unreliable => c = d

-----------------------------------------------------------------------------
(* Types                                                                    *)

(* What the scripts do to the read hashes and the write lock. *)
LEMMA TakeType ==
    ASSUME TypeOK, NEW c \in Callers, Take(c)
    PROVE  /\ entries' \subseteq Objects \cup {Gone}
           /\ count' \in [Objects -> Nat] /\ readTTL' \in Nat
           /\ writer' \in Objects \cup {None, Gone}
           /\ expire' \in Int /\ writeTTL' \in Nat
<1>1. On[c] \in Objects /\ lag[c] \in Nat /\ Lease \in Nat
  BY RWAssumption DEF TypeOK
<1>2. CASE AddReader(On[c]) /\ UNCHANGED writeKey
  BY <1>1, <1>2 DEF AddReader, writeKey, TypeOK
<1>3. CASE SetWriter(On[c], Lease - lag[c]) /\ UNCHANGED readKeys
  BY <1>1, <1>3 DEF SetWriter, readKeys, TypeOK
<1> QED BY <1>2, <1>3 DEF Take

LEMMA RemoveType ==
    ASSUME TypeOK, NEW o \in Objects, RemoveReader(o) \/ CountDown(o)
    PROVE  /\ entries' \subseteq Objects \cup {Gone}
           /\ count' \in [Objects -> Nat] /\ readTTL' \in Nat
<1>1. CASE RemoveReader(o)
  BY <1>1 DEF RemoveReader, TypeOK
<1>2. CASE count[o] > 1 /\ count' = [count EXCEPT ![o] = @ - 1] /\ UNCHANGED <<entries, readTTL>>
  BY <1>2 DEF TypeOK
<1> QED BY <1>1, <1>2 DEF CountDown

LEMMA GiveUpType ==
    ASSUME TypeOK, NEW c \in Callers, GiveUp(c)
    PROVE  /\ entries' \subseteq Objects \cup {Gone}
           /\ count' \in [Objects -> Nat] /\ readTTL' \in Nat
           /\ writer' \in Objects \cup {None, Gone}
           /\ expire' \in Int /\ writeTTL' \in Nat
<1>1. On[c] \in Objects
  BY RWAssumption
<1> QED BY <1>1, RemoveType DEF GiveUp, DelWriter, writeKey, readKeys, TypeOK

(* The initial state is well typed, and every step keeps the types. *)
LEMMA TypeInit == Init => TypeOK
BY DEF Init, TypeOK, PCs

LEMMA TypeStep == TypeOK /\ [Next]_vars => TypeOK'
<1> SUFFICES ASSUME TypeOK, [Next]_vars PROVE TypeOK'
  OBVIOUS
<1> USE RWAssumption
<1>1. ASSUME NEW c \in Callers, NEW w \in {0, WaitTimeout}, LockStart(c, w) PROVE TypeOK'
  BY <1>1 DEF LockStart, TypeOK, PCs, readKeys, writeKey
<1>2. ASSUME NEW c \in Callers, UnlockStart(c) PROVE TypeOK'
  BY <1>2 DEF UnlockStart, Goto, TypeOK, PCs, readKeys, writeKey
<1>3. ASSUME NEW c \in Callers, Try(c) PROVE TypeOK'
  <2>1. pc' \in [Callers -> PCs] /\ wait' \in [Callers -> Nat]
    BY <1>3 DEF Try, Return, Goto, TypeOK, PCs
  <2>2. lag' \in [Callers -> Nat] /\ held' \subseteq Callers /\ lease' \in [Callers -> Int]
    <3>1. Lease - lag[c] \in Int
      BY DEF TypeOK
    <3> QED BY <1>3, <3>1 DEF Try, TypeOK
  <2>3. CASE Take(c)
    BY <2>1, <2>2, <2>3, TakeType DEF TypeOK
  <2>4. CASE UNCHANGED <<readKeys, writeKey>>
    BY <2>1, <2>2, <2>4 DEF TypeOK, readKeys, writeKey
  <2> QED BY <1>3, <2>3, <2>4 DEF Try
<1>4. ASSUME NEW c \in Callers, Retry(c) PROVE TypeOK'
  BY <1>4 DEF Retry, Goto, Return, TypeOK, PCs, readKeys, writeKey
<1>5. ASSUME NEW c \in Callers, Release(c) PROVE TypeOK'
  <2>1. /\ pc' \in [Callers -> PCs] /\ wait' \in [Callers -> Nat]
        /\ lag' \in [Callers -> Nat] /\ held' \subseteq Callers /\ lease' \in [Callers -> Int]
    BY <1>5 DEF Release, Return, TypeOK, PCs
  <2>2. CASE GiveUp(c)
    BY <2>1, <2>2, GiveUpType DEF TypeOK
  <2>3. CASE UNCHANGED <<readKeys, writeKey>>
    BY <2>1, <2>3 DEF TypeOK, readKeys, writeKey
  <2> QED BY <1>5, <2>2, <2>3 DEF Release
<1>6. ASSUME NEW c \in Callers, Fail(c) PROVE TypeOK'
  <2>1. /\ pc' \in [Callers -> PCs] /\ wait' \in [Callers -> Nat]
        /\ lag' \in [Callers -> Nat] /\ held' \subseteq Callers /\ lease' \in [Callers -> Int]
    BY <1>6 DEF Fail, Return, TypeOK, PCs
  <2>2. CASE Take(c)
    BY <2>1, <2>2, TakeType DEF TypeOK
  <2>3. CASE GiveUp(c)
    BY <2>1, <2>3, GiveUpType DEF TypeOK
  <2>4. CASE UNCHANGED <<readKeys, writeKey>>
    BY <2>1, <2>4 DEF TypeOK, readKeys, writeKey
  <2> QED BY <1>6, <2>2, <2>3, <2>4 DEF Fail
<1>7. ASSUME ForceUnlockRead PROVE TypeOK'
  <2>1. PICK o \in Forced \cap entries : RemoveReader(o)
    BY <1>7 DEF ForceUnlockRead
  <2>2. o \in Objects /\ lease' \in [Callers -> Int]
    BY <1>7 DEF ForceUnlockRead, TypeOK
  <2> QED BY <1>7, <2>1, <2>2, RemoveType DEF ForceUnlockRead, TypeOK, writeKey, calls
<1>8. ASSUME ForceUnlockWrite PROVE TypeOK'
  BY <1>8 DEF ForceUnlockWrite, DelWriter, TypeOK, readKeys, calls
<1>9. ASSUME NEW o \in Objects, Crash(o) PROVE TypeOK'
  <2>1. pc' \in [Callers -> PCs] /\ wait' \in [Callers -> Nat] /\ lag' \in [Callers -> Nat]
    BY <1>9 DEF Crash, TypeOK, PCs
  <2>2. lease' \in [Callers -> Int] /\ held' \subseteq Callers
    BY <1>9 DEF Crash, TypeOK
  <2> QED BY <1>9, <2>1, <2>2 DEF Crash, TypeOK
<1>10. ASSUME ExpireRead \/ ExpireWrite PROVE TypeOK'
  BY <1>10 DEF ExpireRead, ExpireWrite, DelWriter, TypeOK, readKeys, writeKey, calls
<1>11. ASSUME Tick PROVE TypeOK'
  <2>1. \A n \in Nat : Decrement(n) \in Nat
    BY DEF Decrement
  <2>2. \A n \in Int : Decrement(n) \in Int
    BY DEF Decrement
  <2>3. wait' \in [Callers -> Nat] /\ lag' \in [Callers -> Nat]
    BY <1>11, <2>1 DEF Tick, TypeOK
  <2>4. lease' \in [Callers -> Int]
    BY <1>11, <2>2 DEF Tick, TypeOK
  <2> QED BY <1>11, <2>1, <2>3, <2>4 DEF Tick, TypeOK
<1>12. CASE UNCHANGED vars
  BY <1>12 DEF vars, TypeOK, readKeys, writeKey, calls
<1> QED BY <1>1, <1>2, <1>3, <1>4, <1>5, <1>6, <1>7, <1>8, <1>9, <1>10, <1>11, <1>12
        DEF Next, Continue

(* Every reachable state is well typed. *)
THEOREM RWTypeCorrect == Spec => []TypeOK
BY TypeInit, TypeStep, PTL DEF Spec

-----------------------------------------------------------------------------
(* The inductive invariant                                                  *)

(* The number of holders of a read handle, by who comes and goes. *)
LEMMA HoldingCount ==
    \A o : IsFiniteSet(Holding(o)) /\ Cardinality(Holding(o)) \in Nat
<1> TAKE o
<1>1. Holding(o) \subseteq Readers
  BY DEF Holding
<1> QED BY <1>1, FS_Subset, FS_CardinalityType, RWAssumption

LEMMA HolderJoins ==
    ASSUME NEW c \in Callers, c \notin held, held' = held \cup {c}, NEW o
    PROVE  Cardinality(Holding(o))' =
               IF c \in Readers /\ On[c] = o THEN Cardinality(Holding(o)) + 1
                                            ELSE Cardinality(Holding(o))
<1>1. CASE c \in Readers /\ On[c] = o
  <2>1. Holding(o)' = Holding(o) \cup {c} /\ c \notin Holding(o)
    BY <1>1 DEF Holding
  <2> QED BY <1>1, <2>1, HoldingCount, FS_AddElement
<1>2. CASE ~(c \in Readers /\ On[c] = o)
  <2>1. Holding(o)' = Holding(o)
    BY <1>2 DEF Holding
  <2> QED BY <1>2, <2>1
<1> QED BY <1>1, <1>2

LEMMA HolderLeaves ==
    ASSUME NEW c \in Callers, c \in held, held' = held \ {c}, NEW o
    PROVE  Cardinality(Holding(o))' =
               IF c \in Readers /\ On[c] = o THEN Cardinality(Holding(o)) - 1
                                            ELSE Cardinality(Holding(o))
<1>1. CASE c \in Readers /\ On[c] = o
  <2>1. Holding(o)' = Holding(o) \ {c} /\ c \in Holding(o)
    BY <1>1 DEF Holding
  <2>2. IsFiniteSet(Holding(o))
    BY HoldingCount
  <2>3. Cardinality(Holding(o) \ {c}) = Cardinality(Holding(o)) - 1
    BY <2>1, <2>2, FS_RemoveElement
  <2> QED BY <1>1, <2>1, <2>3
<1>2. CASE ~(c \in Readers /\ On[c] = o)
  <2>1. Holding(o)' = Holding(o)
    BY <1>2 DEF Holding
  <2> QED BY <1>2, <2>1
<1> QED BY <1>1, <1>2

(* Two holders of one read handle make a count above one. *)
LEMMA TwoHolders ==
    ASSUME NEW o, NEW c \in Holding(o), NEW d \in Holding(o), c # d
    PROVE  Cardinality(Holding(o)) > 1
<1>1. IsFiniteSet(Holding(o) \ {c}) /\ Cardinality(Holding(o) \ {c}) = Cardinality(Holding(o)) - 1
  BY HoldingCount, FS_RemoveElement
<1>2. Cardinality(Holding(o) \ {c}) # 0 /\ Cardinality(Holding(o) \ {c}) \in Nat
  BY <1>1, FS_EmptySet, FS_CardinalityType
<1> QED BY <1>1, <1>2, HoldingCount

(* What a caller that finds the lock free may rely on: no other writer has a *)
(* lease and, if it is a writer itself, no reader.                           *)
LEMMA TakesFree ==
    ASSUME RWInv, LoneCallers, NEW c \in Callers, Acquirable(c), lease[c] <= 0
    PROVE  /\ \A w \in Writers : lease[w] <= 0
           /\ c \in Writers => \A d \in Callers : lease[d] <= 0
<1> USE RWAssumption
<1>1. ASSUME NEW w \in Writers, lease[w] > 0 PROVE FALSE
  <2>1. /\ w \in Callers /\ On[w] \in Objects /\ writer = On[w] /\ lease[w] <= expire
        /\ lease[w] \in Int /\ expire \in Int /\ lag[c] \in Nat
    BY <1>1 DEF RWInv, LeaseIsBacked, TypeOK, Callers
  <2>2. writer # None /\ expire + lag[c] > 0
    BY <1>1, <2>1
  <2>3. c \notin Readers /\ writer = On[c]
    BY <2>2 DEF Acquirable, WriteLocked
  <2>4. c = w
    BY <2>1, <2>3 DEF LoneCallers, Callers
  <2> QED BY <1>1, <2>1, <2>4
<1>2. \A w \in Writers : lease[w] \in Int
  BY DEF RWInv, TypeOK, Callers
<1>3. \A w \in Writers : lease[w] <= 0
  BY <1>1, <1>2
<1>4. ASSUME c \in Writers, NEW d \in Readers PROVE lease[d] <= 0
  BY <1>4 DEF Acquirable, RWInv, LeaseIsBacked, TypeOK, Callers
<1> QED BY <1>3, <1>4 DEF Callers

(* Taking the lock, with the lease of the caller or, after an error, without. *)
LEMMA TakeKeepsBacking ==
    ASSUME RWInv, LoneCallers, NEW c \in Callers, Acquirable(c), Take(c), lease[c] <= 0,
           MaxLag < Lease,
           lease' = [lease EXCEPT ![c] = Lease - lag[c]] \/ lease' = lease
    PROVE  LeaseIsBacked' /\ WritersExclude'
<1> USE RWAssumption
<1>1. /\ On[c] \in Objects /\ lag[c] \in Nat /\ lag[c] <= MaxLag
      /\ lease \in [Callers -> Int]
  BY DEF RWInv, TypeOK, TimesBounded
<1>2. \A d \in Callers : lease[d] <= Lease /\ lease'[d] <= Lease
  BY <1>1 DEF RWInv, TimesBounded
<1>3. /\ \A w \in Writers : lease[w] <= 0
      /\ c \in Writers => \A d \in Callers : lease[d] <= 0
  BY TakesFree
<1>4. \A d \in Callers : d # c => lease'[d] = lease[d]
  BY <1>1
<1>5. WritersExclude'
  BY <1>1, <1>3, <1>4 DEF WritersExclude, Callers
<1>6. CASE c \in Readers /\ AddReader(On[c]) /\ UNCHANGED writeKey
  <2>1. \A d \in Readers : lease'[d] > 0 => On[d] \in entries' /\ lease'[d] <= readTTL'
    BY <1>1, <1>2, <1>4, <1>6 DEF AddReader, RWInv, LeaseIsBacked, Callers
  <2>2. \A w \in Writers : ~(lease'[w] > 0)
    BY <1>1, <1>3, <1>4, <1>6 DEF Callers
  <2> QED BY <1>5, <2>1, <2>2 DEF LeaseIsBacked
<1>7. CASE c \in Writers /\ SetWriter(On[c], Lease - lag[c]) /\ UNCHANGED readKeys
  <2>1. \A d \in Callers : d # c => ~(lease'[d] > 0)
    BY <1>1, <1>3, <1>4, <1>7
  <2>2. lease'[c] <= Lease - lag[c]
    BY <1>1, <1>7, <1>3
  <2> QED BY <1>1, <1>2, <1>5, <1>7, <2>1, <2>2 DEF SetWriter, LeaseIsBacked, Callers
<1> QED BY <1>5, <1>6, <1>7 DEF Take

(* Unlocking takes nothing from the others that have a lease. *)
LEMMA GiveUpKeepsBacking ==
    ASSUME RWInv, LoneCallers, NEW c \in Callers, GiveUp(c), IsOwner(c), c \in held,
           lease' = [lease EXCEPT ![c] = 0]
    PROVE  LeaseIsBacked'
<1> USE RWAssumption
<1>1. /\ On[c] \in Objects /\ lease \in [Callers -> Int]
      /\ \A d \in Callers : d # c => lease'[d] = lease[d]
      /\ lease'[c] = 0
  BY DEF RWInv, TypeOK
<1>2. CASE c \in Readers /\ CountDown(On[c]) /\ UNCHANGED writeKey
  <2>1. CASE RemoveReader(On[c]) /\ count[On[c]] <= 1
    <3>1. ASSUME NEW d \in Readers, lease'[d] > 0 PROVE On[d] # On[c]
      <4> SUFFICES ASSUME On[d] = On[c] PROVE FALSE
        OBVIOUS
      <4>1. d # c /\ d \in Callers /\ lease[d] > 0
        BY <1>1, <3>1 DEF Callers
      <4>2. On[c] \notin Unreliable
        BY <1>2, <4>1 DEF LoneCallers
      <4>3. c \in Holding(On[c]) /\ d \in Holding(On[c])
        BY <1>2, <4>1 DEF Holding, RWInv, CallsAgree
      <4>4. Cardinality(Holding(On[c])) > 1
        BY <4>1, <4>3, TwoHolders
      <4>5. count[On[c]] = Cardinality(Holding(On[c]))
        BY <1>1, <4>2 DEF RWInv, CountsAgree
      <4> QED BY <2>1, <4>4, <4>5, HoldingCount
    <3>2. ASSUME NEW d \in Readers, lease'[d] > 0
          PROVE  On[d] \in entries' /\ lease'[d] <= readTTL'
      <4>1. d # c /\ On[d] \in entries /\ lease'[d] <= readTTL
        BY <1>1, <3>2 DEF RWInv, LeaseIsBacked, Callers
      <4> QED BY <2>1, <3>1, <3>2, <4>1 DEF RemoveReader
    <3> QED BY <1>1, <1>2, <3>2 DEF RWInv, LeaseIsBacked, writeKey, Callers
  <2>2. CASE UNCHANGED <<entries, readTTL>>
    BY <1>1, <1>2, <2>2 DEF RWInv, LeaseIsBacked, writeKey, Callers
  <2> QED BY <1>2, <2>1, <2>2 DEF CountDown
<1>3. CASE c \in Writers /\ DelWriter /\ UNCHANGED readKeys
  <2>1. writer = On[c]
    BY <1>3 DEF IsOwner
  <2>2. \A w \in Writers : ~(lease'[w] > 0)
    BY <1>1, <2>1, <1>3 DEF RWInv, LeaseIsBacked, LoneCallers, Callers
  <2> QED BY <1>1, <1>3, <2>2 DEF RWInv, LeaseIsBacked, readKeys, Callers
<1> QED BY <1>2, <1>3 DEF GiveUp

Joins(c)  == held' = held \cup {c}
Leaves(c) == held' = held \ {c}

(* The counts, when a caller takes the lock and when it gives it up. *)
LEMMA TakeCounts ==
    ASSUME RWInv, NEW c \in Callers, Take(c), c \notin held,
           Joins(c) \/ (held' = held /\ On[c] \in Unreliable)
    PROVE  CountsAgree'
<1> USE RWAssumption
<1>1. CASE c \in Readers /\ AddReader(On[c])
  <2>1. /\ On[c] \in Objects /\ count \in [Objects -> Nat]
        /\ entries' = entries \cup {On[c]}
        /\ count' = [count EXCEPT ![On[c]] = @ + 1]
    BY <1>1 DEF RWInv, TypeOK, AddReader
  <2>2. \A o \in Objects : o \in entries' <=> count'[o] > 0
    BY <2>1 DEF RWInv, CountsAgree
  <2>3. CASE Joins(c)
    BY <1>1, <2>1, <2>2, <2>3, HolderJoins DEF Joins, RWInv, CountsAgree
  <2>4. CASE held' = held /\ On[c] \in Unreliable
    <3>1. \A o : Cardinality(Holding(o))' = Cardinality(Holding(o))
      BY <2>4 DEF Holding
    <3> QED BY <2>1, <2>2, <2>4, <3>1 DEF RWInv, CountsAgree
  <2> QED BY <2>3, <2>4
<1>2. CASE c \in Writers /\ UNCHANGED readKeys
  <2>1. \A o : Cardinality(Holding(o))' = Cardinality(Holding(o))
    BY <1>2 DEF Holding, Joins, Leaves
  <2> QED BY <1>2, <2>1 DEF RWInv, CountsAgree, readKeys
<1> QED BY <1>1, <1>2 DEF Take

LEMMA GiveUpCounts ==
    ASSUME RWInv, NEW c \in Callers, GiveUp(c), IsOwner(c), c \in held,
           Leaves(c) \/ (held' = held /\ On[c] \in Unreliable)
    PROVE  CountsAgree'
<1> USE RWAssumption
<1>1. CASE c \in Readers /\ CountDown(On[c])
  <2>1. On[c] \in Objects /\ count \in [Objects -> Nat] /\ count[On[c]] > 0
    BY <1>1 DEF RWInv, TypeOK, IsOwner, CountsAgree
  <2>2. /\ \A o \in Objects : o \in entries' <=> count'[o] > 0
        /\ \A o \in Objects \ {On[c]} : count'[o] = count[o]
        /\ count'[On[c]] = count[On[c]] - 1
    BY <1>1, <2>1 DEF CountDown, RemoveReader, RWInv, CountsAgree
  <2>3. CASE Leaves(c)
    BY <1>1, <2>1, <2>2, <2>3, HolderLeaves DEF Leaves, RWInv, CountsAgree
  <2>4. CASE held' = held /\ On[c] \in Unreliable
    <3>1. \A o : Cardinality(Holding(o))' = Cardinality(Holding(o))
      BY <2>4 DEF Holding
    <3> QED BY <2>2, <2>4, <3>1 DEF RWInv, CountsAgree
  <2> QED BY <2>3, <2>4
<1>2. CASE c \in Writers /\ UNCHANGED readKeys
  <2>1. \A o : Cardinality(Holding(o))' = Cardinality(Holding(o))
    BY <1>2 DEF Holding, Joins, Leaves
  <2> QED BY <1>2, <2>1 DEF RWInv, CountsAgree, readKeys
<1> QED BY <1>1, <1>2 DEF GiveUp

LeasesKept == \A c \in held : On[c] \notin Unreliable => lease[c] > 0

(* Leases that end leave the others alone. *)
LEMMA FewerLeases ==
    ASSUME WritersExclude, \A c \in Callers : lease'[c] > 0 => lease[c] > 0,
           \A c \in Callers : lease[c] \in Int /\ lease'[c] \in Int
    PROVE  WritersExclude'
BY DEF WritersExclude, Callers

(* A step that leaves the locks and the leases alone. *)
LEMMA CallsStep ==
    ASSUME RWInv, UNCHANGED <<readKeys, writeKey, held, lease>>
    PROVE  /\ LeaseIsBacked' /\ WritersExclude' /\ LeasesKept' /\ CountsAgree'
           /\ \A c \in Callers : lease'[c] <= Lease
<1>1. LeaseIsBacked' /\ WritersExclude'
  BY DEF RWInv, LeaseIsBacked, WritersExclude, readKeys, writeKey
<1>2. LeasesKept'
  BY DEF RWInv, HoldsAreKept, LeasesKept
<1>3. CountsAgree'
  BY DEF RWInv, CountsAgree, Holding, readKeys
<1> QED BY <1>1, <1>2, <1>3 DEF RWInv, TimesBounded

(* The rest of the invariant, of which the steps of Next are shown to keep   *)
(* it, beside the types.                                                     *)
Kept == TimesBounded /\ CallsAgree /\ LeaseIsBacked /\ WritersExclude /\ LeasesKept /\ CountsAgree

LEMMA StartKeeps ==
    ASSUME RWInv, NEW c \in Callers,
           (\E w \in {0, WaitTimeout} : LockStart(c, w)) \/ UnlockStart(c) \/ Retry(c)
    PROVE  Kept'
<1>1. /\ UNCHANGED <<readKeys, writeKey, lag, held, lease>>
      /\ \A d \in Callers \ {c} : pc'[d] = pc[d]
      /\ pc'[c] \in {"trying", "waiting"} => c \notin held
      /\ pc'[c] = "releasing" => c \in held
  BY DEF LockStart, UnlockStart, Retry, Goto, Return, RWInv, TypeOK, CallsAgree
<1>2. TimesBounded' /\ CallsAgree'
  BY <1>1 DEF RWInv, TimesBounded, CallsAgree
<1> QED BY <1>1, <1>2, CallsStep DEF Kept

LEMMA TryKeeps ==
    ASSUME RWInv, LoneCallers, MaxLag < Lease, NEW c \in Callers, Try(c)
    PROVE  Kept'
<1> USE RWAssumption
<1>1. /\ c \notin held /\ ~(lease[c] > 0) /\ lease[c] <= 0
      /\ lag[c] \in Nat /\ lag[c] <= MaxLag
      /\ lag \in [Callers -> Nat] /\ lease \in [Callers -> Int] /\ pc \in [Callers -> PCs]
      /\ held \subseteq Callers
  BY DEF Try, RWInv, TypeOK, CallsAgree, TimesBounded
<1>2. lag' = [lag EXCEPT ![c] = 0] /\ pc'[c] \in {"idle", "waiting"}
      /\ \A d \in Callers \ {c} : pc'[d] = pc[d]
  BY <1>1 DEF Try, Goto, Return
<1>3. CASE /\ Acquirable(c) /\ Take(c) /\ held' = held \cup {c}
           /\ lease' = [lease EXCEPT ![c] = Lease - lag[c]] /\ Return(c)
  <2>1. LeaseIsBacked' /\ WritersExclude'
    BY <1>1, <1>3, TakeKeepsBacking
  <2>2. CountsAgree'
    <3>1. Joins(c)
      BY <1>3 DEF Joins
    <3> QED BY <1>1, <1>3, <3>1, TakeCounts
  <2>3. TimesBounded'
    BY <1>1, <1>2, <1>3 DEF RWInv, TimesBounded
  <2>4. CallsAgree'
    BY <1>1, <1>2, <1>3 DEF RWInv, CallsAgree, Return
  <2>5. LeasesKept'
    BY <1>1, <1>3 DEF RWInv, HoldsAreKept, LeasesKept
  <2> QED BY <2>1, <2>2, <2>3, <2>4, <2>5 DEF Kept
<1>4. CASE UNCHANGED <<readKeys, writeKey, held, lease>>
  <2>1. TimesBounded' /\ CallsAgree'
    BY <1>1, <1>2, <1>4 DEF RWInv, TimesBounded, CallsAgree
  <2> QED BY <1>4, <2>1, CallsStep DEF Kept
<1> QED BY <1>3, <1>4 DEF Try

LEMMA ReleaseKeeps ==
    ASSUME RWInv, LoneCallers, NEW c \in Callers, Release(c)
    PROVE  Kept'
<1> USE RWAssumption
<1>1. /\ c \in held /\ held' = held \ {c} /\ lease' = [lease EXCEPT ![c] = 0] /\ lag' = lag
      /\ lease \in [Callers -> Int] /\ pc \in [Callers -> PCs] /\ held \subseteq Callers
  BY DEF Release, RWInv, TypeOK, CallsAgree
<1>2. pc'[c] = "idle" /\ \A d \in Callers \ {c} : pc'[d] = pc[d]
  BY <1>1 DEF Release, Return
<1>3. TimesBounded' /\ CallsAgree'
  BY <1>1, <1>2 DEF RWInv, TimesBounded, CallsAgree
<1>4. WritersExclude' /\ LeasesKept'
  BY <1>1, FewerLeases DEF RWInv, HoldsAreKept, LeasesKept
<1>5. CASE IsOwner(c) /\ GiveUp(c)
  <2>1. LeaseIsBacked'
    BY <1>1, <1>5, GiveUpKeepsBacking
  <2>2. CountsAgree'
    <3>1. Leaves(c)
      BY <1>1 DEF Leaves
    <3> QED BY <1>1, <1>5, <3>1, GiveUpCounts
  <2> QED BY <1>3, <1>4, <2>1, <2>2 DEF Kept
<1>6. CASE ~IsOwner(c) /\ UNCHANGED <<readKeys, writeKey>>
  <2>1. LeaseIsBacked'
    BY <1>1, <1>6 DEF RWInv, LeaseIsBacked, readKeys, writeKey, Callers
  <2>2. On[c] \in Unreliable
    BY <1>1, <1>6 DEF RWInv, HoldsAreKept
  <2>3. \A o \in Objects \ Unreliable : Holding(o)' = Holding(o)
    BY <1>1, <2>2 DEF Holding
  <2>4. CountsAgree'
    BY <1>6, <2>3 DEF RWInv, CountsAgree, readKeys
  <2> QED BY <1>3, <1>4, <2>1, <2>4 DEF Kept
<1> QED BY <1>5, <1>6 DEF Release

LEMMA FailKeeps ==
    ASSUME RWInv, LoneCallers, MaxLag < Lease, NEW c \in Callers, Fail(c)
    PROVE  Kept'
<1> USE RWAssumption
<1>1. /\ On[c] \in Unreliable /\ held' = held /\ lag' = [lag EXCEPT ![c] = 0]
      /\ lag \in [Callers -> Nat]
      /\ lease \in [Callers -> Int] /\ pc \in [Callers -> PCs] /\ held \subseteq Callers
  BY DEF Fail, RWInv, TypeOK
<1>2. pc'[c] = "idle" /\ \A d \in Callers \ {c} : pc'[d] = pc[d]
  BY <1>1 DEF Fail, Return
<1>3. ASSUME lease' = lease \/ lease' = [lease EXCEPT ![c] = 0]
      PROVE  TimesBounded' /\ CallsAgree' /\ LeasesKept'
  BY <1>1, <1>2, <1>3 DEF RWInv, TimesBounded, CallsAgree, HoldsAreKept, LeasesKept
<1>4. CASE UNCHANGED <<readKeys, writeKey, lease>>
  BY <1>1, <1>3, <1>4, CallsStep DEF Kept
<1>5. CASE pc[c] = "trying" /\ Acquirable(c) /\ Take(c) /\ UNCHANGED lease
  <2>1. c \notin held /\ lease[c] <= 0
    BY <1>1, <1>5 DEF RWInv, CallsAgree
  <2> QED BY <1>1, <1>3, <1>5, <2>1, TakeKeepsBacking, TakeCounts DEF Kept
<1>6. CASE /\ pc[c] = "releasing" /\ IsOwner(c) /\ GiveUp(c)
           /\ lease' = [lease EXCEPT ![c] = 0]
  <2>1. c \in held
    BY <1>6 DEF RWInv, CallsAgree
  <2>2. WritersExclude'
    BY <1>1, <1>6, FewerLeases DEF RWInv
  <2> QED BY <1>1, <1>3, <1>6, <2>1, <2>2, GiveUpKeepsBacking, GiveUpCounts DEF Kept
<1> QED BY <1>4, <1>5, <1>6 DEF Fail

LEMMA ForceKeeps ==
    ASSUME RWInv, ForceUnlockRead \/ ForceUnlockWrite
    PROVE  Kept'
<1> USE RWAssumption
<1>1. /\ lease \in [Callers -> Int] /\ held \subseteq Callers
      /\ count \in [Objects -> Nat] /\ UNCHANGED calls
  BY DEF RWInv, TypeOK, ForceUnlockRead, ForceUnlockWrite
<1>2. \A o : Holding(o)' = Holding(o)
  BY <1>1 DEF Holding, calls
<1>3. CASE ForceUnlockRead
  <2>1. PICK o \in Forced \cap entries :
            /\ RemoveReader(o)
            /\ lease' = [c \in Callers |-> IF c \in Readers /\ On[c] = o THEN 0 ELSE lease[c]]
    BY <1>3 DEF ForceUnlockRead
  <2>2. TimesBounded' /\ CallsAgree'
    BY <1>1, <2>1 DEF RWInv, TimesBounded, CallsAgree, calls
  <2>3. WritersExclude'
    BY <1>1, <2>1, FewerLeases DEF RWInv
  <2>4. LeasesKept'
    BY <1>1, <2>1 DEF RWInv, HoldsAreKept, LeasesKept, calls
  <2>5. LeaseIsBacked'
    BY <1>1, <1>3, <2>1 DEF RWInv, LeaseIsBacked, RemoveReader, ForceUnlockRead, writeKey, Callers
  <2>6. CountsAgree'
    BY <1>1, <1>2, <2>1 DEF RWInv, CountsAgree, RemoveReader
  <2> QED BY <2>2, <2>3, <2>4, <2>5, <2>6 DEF Kept
<1>4. CASE ForceUnlockWrite
  <2>1. /\ writer \in Forced \cup {Gone}
        /\ lease' = [c \in Callers |-> IF c \in Writers /\ On[c] = writer THEN 0 ELSE lease[c]]
        /\ UNCHANGED readKeys
    BY <1>4 DEF ForceUnlockWrite
  <2>2. TimesBounded' /\ CallsAgree'
    BY <1>1, <2>1 DEF RWInv, TimesBounded, CallsAgree, calls
  <2>3. WritersExclude'
    BY <1>1, <2>1, FewerLeases DEF RWInv
  <2>4. LeasesKept'
    BY <1>1, <2>1 DEF RWInv, HoldsAreKept, LeasesKept, calls
  <2>5. LeaseIsBacked'
    BY <1>1, <2>1 DEF RWInv, LeaseIsBacked, readKeys, Callers
  <2>6. CountsAgree'
    BY <1>2, <2>1 DEF RWInv, CountsAgree, readKeys
  <2> QED BY <2>2, <2>3, <2>4, <2>5, <2>6 DEF Kept
<1> QED BY <1>3, <1>4

LEMMA CrashKeeps ==
    ASSUME RWInv, NEW o \in Objects, Crash(o)
    PROVE  Kept'
<1> USE RWAssumption
<1>1. /\ held' = held \ UsersOf(o)
      /\ lease' = [c \in Callers |-> IF On[c] = o THEN 0 ELSE lease[c]]
      /\ lag' = [c \in Callers |-> IF On[c] = o THEN 0 ELSE lag[c]]
      /\ pc' = [c \in Callers |-> IF On[c] = o THEN "idle" ELSE pc[c]]
      /\ lease \in [Callers -> Int] /\ held \subseteq Callers
      /\ count \in [Objects -> Nat]
  BY DEF Crash, RWInv, TypeOK
<1>2. TimesBounded' /\ CallsAgree'
  BY <1>1 DEF RWInv, TimesBounded, CallsAgree, UsersOf
<1>3. WritersExclude'
  BY <1>1, FewerLeases DEF RWInv
<1>4. LeasesKept'
  BY <1>1 DEF RWInv, HoldsAreKept, LeasesKept, UsersOf
<1>5. LeaseIsBacked'
  BY <1>1 DEF RWInv, LeaseIsBacked, Crash, Callers
<1>6. CountsAgree'
  <2>1. Holding(o)' = {} /\ \A p \in Objects \ {o} : Holding(p)' = Holding(p)
    BY <1>1 DEF Holding, UsersOf, Callers
  <2>2. Cardinality(Holding(o)') = 0
    BY <2>1, FS_EmptySet
  <2>3. /\ count'[o] = 0 /\ o \notin entries'
        /\ \A p \in Objects \ {o} : count'[p] = count[p] /\ (p \in entries' <=> p \in entries)
    BY <1>1 DEF Crash
  <2> QED BY <2>1, <2>2, <2>3 DEF RWInv, CountsAgree
<1> QED BY <1>2, <1>3, <1>4, <1>5, <1>6 DEF Kept

LEMMA ExpireKeeps ==
    ASSUME RWInv, ExpireRead \/ ExpireWrite
    PROVE  Kept'
<1> USE RWAssumption
<1>1. UNCHANGED <<calls, lease>>
  BY DEF ExpireRead, ExpireWrite
<1>2. TimesBounded' /\ CallsAgree' /\ WritersExclude' /\ LeasesKept'
  BY <1>1 DEF RWInv, TimesBounded, CallsAgree, WritersExclude, HoldsAreKept, LeasesKept, calls
<1>3. CASE ExpireRead
  <2>1. \A c \in Readers : lease[c] <= 0
    BY <1>3 DEF ExpireRead, RWInv, LeaseIsBacked, TypeOK, Callers
  <2>2. LeaseIsBacked'
    BY <1>1, <1>3, <2>1 DEF ExpireRead, RWInv, LeaseIsBacked, TypeOK, writeKey, Callers
  <2>3. \A o \in Objects \ Unreliable : Holding(o)' = {}
    BY <1>1, <2>1 DEF Holding, RWInv, HoldsAreKept, TypeOK, calls, Callers
  <2>4. CountsAgree'
    <3>1. \A o \in Objects \ Unreliable : Cardinality(Holding(o)') = 0
      BY <2>3, FS_EmptySet
    <3>2. entries' = {} /\ \A o \in Objects : count'[o] = 0
      BY <1>3 DEF ExpireRead
    <3> QED BY <3>1, <3>2 DEF CountsAgree
  <2> QED BY <1>2, <2>2, <2>4 DEF Kept
<1>4. CASE ExpireWrite
  <2>1. LeaseIsBacked'
    BY <1>1, <1>4 DEF ExpireWrite, RWInv, LeaseIsBacked, TypeOK, readKeys, Callers
  <2>2. CountsAgree'
    BY <1>1, <1>4 DEF ExpireWrite, RWInv, CountsAgree, Holding, readKeys, calls
  <2> QED BY <1>2, <2>1, <2>2 DEF Kept
<1> QED BY <1>3, <1>4

LEMMA TickKeeps ==
    ASSUME RWInv, Tick
    PROVE  Kept'
<1> USE RWAssumption
<1>1. /\ lease \in [Callers -> Int] /\ lag \in [Callers -> Nat] /\ held \subseteq Callers
      /\ lease' = [c \in Callers |-> Decrement(lease[c])]
      /\ UNCHANGED <<entries, count, writer, pc, held>>
  BY DEF RWInv, TypeOK, Tick
<1>2. \A c \in Callers : /\ lease'[c] > 0 => lease[c] > 0 /\ lease'[c] = lease[c] - 1
                         /\ lease[c] > 1 => lease'[c] > 0
                         /\ lease'[c] <= Lease /\ lease'[c] \in Int
  BY <1>1 DEF Decrement, RWInv, TimesBounded
<1>3. TimesBounded'
  <2>1. \A c \in Callers : lag'[c] <= MaxLag
    BY <1>1 DEF Tick
  <2> QED BY <1>2, <2>1 DEF TimesBounded
<1>4. CallsAgree'
  BY <1>1, <1>2 DEF RWInv, CallsAgree
<1>5. WritersExclude'
  BY <1>1, <1>2, FewerLeases DEF RWInv
<1>6. LeasesKept'
  BY <1>1, <1>2 DEF Tick, LeasesKept
<1>7. LeaseIsBacked'
  <2>1. /\ readTTL \in Nat /\ writeTTL \in Nat /\ expire \in Int
        /\ readTTL > 0 => readTTL' = readTTL - 1
        /\ writeTTL > 0 => writeTTL' = writeTTL - 1
        /\ writer # None => expire' = expire - 1
    BY DEF Tick, Decrement, RWInv, TypeOK
  <2>2. \A c \in Readers : lease'[c] > 0 => On[c] \in entries' /\ lease'[c] <= readTTL'
    BY <1>1, <1>2, <2>1 DEF RWInv, LeaseIsBacked, Callers
  <2>3. \A c \in Writers : On[c] # None
    BY DEF Callers
  <2>4. ASSUME NEW c \in Writers, lease'[c] > 0
        PROVE  writer' = On[c] /\ lease'[c] <= expire' /\ lease'[c] <= writeTTL'
    <3>1. /\ lease[c] > 0 /\ lease'[c] = lease[c] - 1 /\ lease[c] \in Int
      BY <1>1, <1>2, <2>4 DEF Callers
    <3>2. writer = On[c] /\ lease[c] <= expire /\ lease[c] <= writeTTL
      BY <3>1 DEF RWInv, LeaseIsBacked
    <3> QED BY <1>1, <2>1, <2>3, <3>1, <3>2
  <2> QED BY <2>2, <2>4 DEF LeaseIsBacked
<1>8. CountsAgree'
  BY <1>1 DEF RWInv, CountsAgree, Holding
<1> QED BY <1>3, <1>4, <1>5, <1>6, <1>7, <1>8 DEF Kept

(* The initial state satisfies the invariant, and every step keeps it. *)
LEMMA RWInit == Init => RWInv
<1> SUFFICES ASSUME Init PROVE RWInv
  OBVIOUS
<1> USE RWAssumption
<1>1. /\ TypeOK /\ TimesBounded /\ CallsAgree /\ LeaseIsBacked /\ WritersExclude /\ HoldsAreKept
  BY TypeInit DEF Init, TimesBounded, CallsAgree, LeaseIsBacked, WritersExclude, HoldsAreKept,
                  Callers
<1>2. \A o : Holding(o) = {}
  BY DEF Init, Holding
<1>3. CountsAgree
  BY <1>2, FS_EmptySet DEF Init, CountsAgree
<1> QED BY <1>1, <1>3 DEF RWInv

LEMMA RWStep ==
    ASSUME LoneCallers, MaxLag < Lease
    PROVE  RWInv /\ [Next]_vars => RWInv'
<1> SUFFICES ASSUME RWInv, [Next]_vars PROVE RWInv'
  OBVIOUS
<1>1. TypeOK'
  BY TypeStep DEF RWInv
<1>2. ASSUME Next PROVE Kept'
  <2>1. ASSUME NEW c \in Callers, \/ \E w \in {0, WaitTimeout} : LockStart(c, w)
                                \/ UnlockStart(c) \/ Retry(c)
        PROVE  Kept'
    BY <2>1, StartKeeps
  <2>2. ASSUME NEW c \in Callers, Try(c) PROVE Kept'
    BY <2>2, TryKeeps
  <2>3. ASSUME NEW c \in Callers, Release(c) PROVE Kept'
    BY <2>3, ReleaseKeeps
  <2>4. ASSUME NEW c \in Callers, Fail(c) PROVE Kept'
    BY <2>4, FailKeeps
  <2>5. ASSUME ForceUnlockRead \/ ForceUnlockWrite PROVE Kept'
    BY <2>5, ForceKeeps
  <2>6. ASSUME NEW o \in Objects, Crash(o) PROVE Kept'
    BY <2>6, CrashKeeps
  <2>7. ASSUME ExpireRead \/ ExpireWrite PROVE Kept'
    BY <2>7, ExpireKeeps
  <2>8. ASSUME Tick PROVE Kept'
    BY <2>8, TickKeeps
  <2> QED BY <1>2, <2>1, <2>2, <2>3, <2>4, <2>5, <2>6, <2>7, <2>8 DEF Next, Continue
<1>3. ASSUME UNCHANGED vars PROVE Kept'
  <2>1. TimesBounded' /\ CallsAgree'
    BY <1>3 DEF RWInv, TimesBounded, CallsAgree, vars, calls
  <2>2. UNCHANGED <<readKeys, writeKey, held, lease>>
    BY <1>3 DEF vars, calls
  <2> QED BY <2>1, <2>2, CallsStep DEF Kept
<1>4. Kept'
  BY <1>2, <1>3
<1>5. held' \subseteq Callers
  BY <1>1 DEF TypeOK
<1>6. (LeaseIsBacked /\ LeasesKept /\ held \subseteq Callers => HoldsAreKept)'
  BY DEF LeaseIsBacked, LeasesKept, HoldsAreKept, IsOwner, Callers
<1>7. HoldsAreKept'
  BY <1>4, <1>5, <1>6 DEF Kept
<1> QED BY <1>1, <1>4, <1>7 DEF Kept, RWInv

(* Who relies on the write lock relies on it alone, and who keeps his lease   *)
(* finds his lock, for any number of callers, objects and crashes.            *)
THEOREM RWInvariant ==
    ASSUME LoneCallers, MaxLag < Lease
    PROVE  Spec => []RWInv
BY RWInit, RWStep, PTL DEF Spec

(* Whoever relies on the write lock of rwlock.go relies on it alone.          *)
THEOREM WriterExcludesAll ==
    ASSUME LoneCallers, MaxLag < Lease
    PROVE  Spec => []WritersExclude
<1>1. RWInv => WritersExclude
  BY DEF RWInv
<1> QED BY <1>1, RWInvariant, PTL

(* A caller that unlocks in time finds its lock: no crash, error, Unlock of   *)
(* another user or force-unlock of another object takes it away.              *)
THEOREM HoldersKeepTheirLock ==
    ASSUME LoneCallers, MaxLag < Lease
    PROVE  Spec => []HoldsAreKept
<1>1. RWInv => HoldsAreKept
  BY DEF RWInv
<1> QED BY <1>1, RWInvariant, PTL

(* The count of a read handle in Redis is the number of its users, if these   *)
(* keep their leases: the last Unlock, and no other, gives the read lock up.  *)
THEOREM ReadersAreCounted ==
    ASSUME LoneCallers, MaxLag < Lease
    PROVE  Spec => []CountsAgree
<1>1. RWInv => CountsAgree
  BY DEF RWInv
<1> QED BY <1>1, RWInvariant, PTL

-----------------------------------------------------------------------------
(* The refinement of LeaseLock                                              *)

Relying == {c \in Callers : lease[c] > 0}

LEMMA RelyingCompatible == (TypeOK /\ WritersExclude => Leases!Compatible(Relying))'
<1> SUFFICES ASSUME TypeOK', WritersExclude', NEW w \in Relying' \cap Writers
             PROVE  Relying' = {w}
  BY DEF Leases!Compatible
<1>1. ASSUME NEW c \in Relying', c # w PROVE FALSE
  <2>1. lease'[w] > 0 /\ c \in Callers /\ lease'[c] > 0 /\ lease'[c] \in Int
    BY DEF Relying, TypeOK
  <2>2. lease'[c] <= 0
    BY <1>1, <2>1 DEF WritersExclude
  <2> QED BY <2>1, <2>2
<1> QED BY <1>1

(* A lease begins only in the script of its caller. *)
LEMMA LeaseBegins ==
    ASSUME RWInv, [Next]_vars
    PROVE  Relying' \subseteq Relying \/ \E c \in Callers : Relying' = Relying \cup {c}
<1> USE RWAssumption
<1>1. lease \in [Callers -> Int] /\ lag \in [Callers -> Nat]
  BY DEF RWInv, TypeOK
<1>2. ASSUME NEW c \in Callers, Try(c)
      PROVE  Relying' \subseteq Relying \/ Relying' = Relying \cup {c}
  BY <1>1, <1>2 DEF Try, Relying
<1>3. ASSUME NEW c \in Callers, Release(c) \/ Fail(c) PROVE Relying' \subseteq Relying
  BY <1>1, <1>3 DEF Release, Fail, Relying
<1>4. ASSUME UNCHANGED lease PROVE Relying' \subseteq Relying
  BY <1>4 DEF Relying
<1>5. ASSUME ForceUnlockRead \/ ForceUnlockWrite PROVE Relying' \subseteq Relying
  BY <1>1, <1>5 DEF ForceUnlockRead, ForceUnlockWrite, Relying
<1>6. ASSUME NEW o \in Objects, Crash(o) PROVE Relying' \subseteq Relying
  BY <1>1, <1>6 DEF Crash, Relying
<1>7. ASSUME Tick PROVE Relying' \subseteq Relying
  BY <1>1, <1>7 DEF Tick, Decrement, Relying
<1>8. ASSUME NEW c \in Callers, \/ \E w \in {0, WaitTimeout} : LockStart(c, w)
                              \/ UnlockStart(c) \/ Retry(c)
      PROVE  UNCHANGED lease
  BY <1>8 DEF LockStart, UnlockStart, Retry
<1>9. UNCHANGED vars \/ ExpireRead \/ ExpireWrite => UNCHANGED lease
  BY DEF vars, ExpireRead, ExpireWrite
<1>10. CASE UNCHANGED lease
  BY <1>4, <1>10
<1>11. CASE \E c \in Callers : Try(c)
  BY <1>2, <1>11
<1> QED BY <1>3, <1>5, <1>6, <1>7, <1>8, <1>9, <1>10, <1>11 DEF Next, Continue

(* The read-write lock is a lease lock with the writers as the exclusive      *)
(* clients: leases begin one at a time, and none beside a writer's.           *)
THEOREM RWLockIsALeaseLock ==
    ASSUME LoneCallers, MaxLag < Lease
    PROVE  Spec => ImplementsLeases
<1>1. Init => Leases!Init
  BY DEF Init, Leases!Init
<1>2. RWInv /\ RWInv' /\ [Next]_vars => [Leases!Next]_Relying
  <2> SUFFICES ASSUME RWInv, RWInv', [Next]_vars PROVE [Leases!Next]_Relying
    OBVIOUS
  <2>1. CASE Relying' \subseteq Relying
    BY <2>1 DEF Relying, Leases!Next, Leases!End
  <2>2. CASE ~(Relying' \subseteq Relying)
    <3>1. PICK c \in Callers : Relying' = Relying \cup {c}
      BY <2>2, LeaseBegins
    <3>2. c \notin Relying
      BY <2>2, <3>1
    <3>3. Leases!Compatible(Relying')
      BY RelyingCompatible DEF RWInv
    <3>4. Leases!Grant(c)
      BY <3>1, <3>2, <3>3 DEF Relying, Leases!Grant, Leases!Compatible
    <3> QED BY <3>4 DEF Leases!Next
  <2> QED BY <2>1, <2>2
<1>3. Init => RWInv
  BY RWInit
<1>4. RWInv /\ [Next]_vars => RWInv'
  BY RWStep
<1> QED BY <1>1, <1>2, <1>3, <1>4, PTL
      DEF Spec, ImplementsLeases, Leases!Spec, Relying

=============================================================================
