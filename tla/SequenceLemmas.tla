--------------------------- MODULE SequenceLemmas ---------------------------
(* What the sequence operators the models use do to the set of elements.    *)
EXTENDS Integers, Sequences, SequencesExt, TLAPS

(* Concatenation joins the sets of elements. *)
LEMMA ConcatElements ==
    ASSUME NEW S, NEW s \in Seq(S), NEW t \in Seq(S)
    PROVE  /\ s \o t \in Seq(S)
           /\ ToSet(s \o t) = ToSet(s) \cup ToSet(t)
<1>1. s \o t \in Seq(S)
  OBVIOUS
<1>2. ASSUME NEW x \in ToSet(s \o t) PROVE x \in ToSet(s) \cup ToSet(t)
  BY <1>2 DEF ToSet
<1>3. ASSUME NEW x \in ToSet(s) PROVE x \in ToSet(s \o t)
  BY <1>3 DEF ToSet
<1>4. ASSUME NEW x \in ToSet(t) PROVE x \in ToSet(s \o t)
  <2>1. PICK i \in 1..Len(t) : x = t[i]
    BY DEF ToSet
  <2>2. Len(s) + i \in 1..Len(s \o t) /\ (s \o t)[Len(s) + i] = t[i]
    OBVIOUS
  <2> QED BY <2>1, <2>2 DEF ToSet
<1> QED BY <1>1, <1>2, <1>3, <1>4

(* The elements of a subsequence are those at its positions. *)
LEMMA SubSeqElements ==
    ASSUME NEW S, NEW s \in Seq(S), NEW m \in 1..Len(s) + 1, NEW n \in 0..Len(s)
    PROVE  /\ SubSeq(s, m, n) \in Seq(S)
           /\ ToSet(SubSeq(s, m, n)) = {s[i] : i \in m..n}
<1>1. SubSeq(s, m, n) \in Seq(S)
  OBVIOUS
<1>2. ASSUME NEW x \in ToSet(SubSeq(s, m, n)) PROVE x \in {s[i] : i \in m..n}
  BY <1>2 DEF ToSet
<1>3. ASSUME NEW i \in m..n PROVE s[i] \in ToSet(SubSeq(s, m, n))
  <2>1. /\ i - m + 1 \in 1..Len(SubSeq(s, m, n))
        /\ SubSeq(s, m, n)[i - m + 1] = s[i]
    OBVIOUS
  <2>2. DOMAIN SubSeq(s, m, n) = 1..Len(SubSeq(s, m, n))
    OBVIOUS
  <2> QED BY <2>1, <2>2 DEF ToSet
<1> QED BY <1>1, <1>2, <1>3

(* Reversal keeps the elements. *)
LEMMA ReverseElements ==
    ASSUME NEW S, NEW s \in Seq(S)
    PROVE  Reverse(s) \in Seq(S) /\ ToSet(Reverse(s)) = ToSet(s)
<1>1. Reverse(s) \in Seq(S) /\ Len(Reverse(s)) = Len(s)
  BY DEF Reverse
<1>2. ASSUME NEW i \in 1..Len(s) PROVE Reverse(s)[i] \in ToSet(s)
  BY DEF ToSet, Reverse
<1>3. ASSUME NEW i \in 1..Len(s) PROVE s[i] \in ToSet(Reverse(s))
  <2>1. Len(s) - i + 1 \in 1..Len(s) /\ Reverse(s)[Len(s) - i + 1] = s[i]
    BY DEF Reverse
  <2> QED BY <2>1, <1>1 DEF ToSet
<1> QED BY <1>1, <1>2, <1>3 DEF ToSet

(* A sequence of one element. *)
LEMMA SingletonElements ==
    ASSUME NEW S, NEW e \in S
    PROVE  <<e>> \in Seq(S) /\ ToSet(<<e>>) = {e}
<1>1. DOMAIN <<e>> = {1} /\ <<e>>[1] = e /\ <<e>> \in Seq(S)
  OBVIOUS
<1> QED BY <1>1 DEF ToSet

(* LPUSH: the new element and the old ones. *)
LEMMA PushElements ==
    ASSUME NEW S, NEW s \in Seq(S), NEW e \in S
    PROVE  /\ <<e>> \o s \in Seq(S)
           /\ ToSet(<<e>> \o s) = ToSet(s) \cup {e}
<1> DEFINE t == <<e>>
<1>1. t \in Seq(S) /\ ToSet(t) = {e}
  BY SingletonElements
<1> HIDE DEF t
<1>2. t \o s \in Seq(S) /\ ToSet(t \o s) = ToSet(s) \cup {e}
  BY <1>1, ConcatElements
<1> QED BY <1>2 DEF t

(* RPOP: the element taken and the ones that stay. *)
LEMMA PopElements ==
    ASSUME NEW S, NEW s \in Seq(S), s # <<>>
    PROVE  /\ Front(s) \in Seq(S) /\ Last(s) \in S
           /\ ToSet(s) = ToSet(Front(s)) \cup {Last(s)}
<1>1. Len(s) \in Nat /\ Len(s) > 0 /\ ToSet(s) = {s[i] : i \in 1..Len(s)}
  BY DEF ToSet
<1>2. /\ SubSeq(s, 1, Len(s) - 1) \in Seq(S)
      /\ ToSet(SubSeq(s, 1, Len(s) - 1)) = {s[i] : i \in 1..Len(s) - 1}
  <2>1. 1 \in 1..Len(s) + 1 /\ Len(s) - 1 \in 0..Len(s)
    BY <1>1
  <2> QED BY <2>1, SubSeqElements
<1>3. 1..Len(s) = (1..Len(s) - 1) \cup {Len(s)}
  BY <1>1
<1> QED BY <1>1, <1>2, <1>3 DEF Front, Last

(* InsertAt: the new element and the old ones. *)
LEMMA InsertElements ==
    ASSUME NEW S, NEW s \in Seq(S), NEW i \in 1..Len(s) + 1, NEW e \in S
    PROVE  /\ InsertAt(s, i, e) \in Seq(S)
           /\ ToSet(InsertAt(s, i, e)) = ToSet(s) \cup {e}
<1> DEFINE a == SubSeq(s, 1, i - 1)
           b == SubSeq(s, i, Len(s))
<1>1. a \in Seq(S) /\ ToSet(a) = {s[j] : j \in 1..i - 1}
  <2>1. 1 \in 1..Len(s) + 1 /\ i - 1 \in 0..Len(s)
    OBVIOUS
  <2> QED BY <2>1, SubSeqElements
<1>2. b \in Seq(S) /\ ToSet(b) = {s[j] : j \in i..Len(s)}
  <2>1. Len(s) \in 0..Len(s)
    OBVIOUS
  <2> QED BY <2>1, SubSeqElements
<1>3. ToSet(s) = ToSet(a) \cup ToSet(b)
  <2>1. 1..Len(s) = (1..i - 1) \cup (i..Len(s))
    OBVIOUS
  <2>2. ToSet(s) = {s[j] : j \in 1..Len(s)}
    BY DEF ToSet
  <2> QED BY <2>1, <2>2, <1>1, <1>2
<1> DEFINE t == <<e>>
<1>4. t \in Seq(S) /\ ToSet(t) = {e}
  BY SingletonElements
<1> DEFINE c == a \o t
<1>5. InsertAt(s, i, e) = c \o b
  BY DEF InsertAt
<1> HIDE DEF a, b, t
<1>6. c \in Seq(S) /\ ToSet(c) = ToSet(a) \cup {e}
  BY <1>1, <1>4, ConcatElements
<1> HIDE DEF c
<1>7. c \o b \in Seq(S) /\ ToSet(c \o b) = ToSet(c) \cup ToSet(b)
  BY <1>2, <1>6, ConcatElements
<1> QED BY <1>3, <1>5, <1>6, <1>7

(* RemoveAt: the element taken and the ones that stay. *)
LEMMA RemoveElements ==
    ASSUME NEW S, NEW s \in Seq(S), NEW i \in 1..Len(s)
    PROVE  /\ RemoveAt(s, i) \in Seq(S)
           /\ ToSet(s) = ToSet(RemoveAt(s, i)) \cup {s[i]}
<1> DEFINE a == SubSeq(s, 1, i - 1)
           b == SubSeq(s, i + 1, Len(s))
<1>1. a \in Seq(S) /\ ToSet(a) = {s[j] : j \in 1..i - 1}
  <2>1. 1 \in 1..Len(s) + 1 /\ i - 1 \in 0..Len(s)
    OBVIOUS
  <2> QED BY <2>1, SubSeqElements
<1>2. b \in Seq(S) /\ ToSet(b) = {s[j] : j \in i + 1..Len(s)}
  <2>1. Len(s) \in 0..Len(s) /\ i + 1 \in 1..Len(s) + 1
    OBVIOUS
  <2> QED BY <2>1, SubSeqElements
<1>3. ToSet(s) = ToSet(a) \cup ToSet(b) \cup {s[i]}
  <2>1. 1..Len(s) = (1..i - 1) \cup (i + 1..Len(s)) \cup {i}
    OBVIOUS
  <2>2. ToSet(s) = {s[j] : j \in 1..Len(s)}
    BY DEF ToSet
  <2> QED BY <2>1, <2>2, <1>1, <1>2
<1>4. a \o b \in Seq(S) /\ ToSet(a \o b) = ToSet(a) \cup ToSet(b)
  <2> HIDE DEF a, b
  <2> QED BY <1>1, <1>2, ConcatElements
<1> QED BY <1>3, <1>4 DEF RemoveAt

(* A prefix moved, reversed, to the head of another sequence. *)
LEMMA MovePrefixElements ==
    ASSUME NEW S, NEW s \in Seq(S), NEW t \in Seq(S), NEW n \in 0..Len(s)
    PROVE  /\ Reverse(SubSeq(s, 1, n)) \o t \in Seq(S)
           /\ SubSeq(s, n + 1, Len(s)) \in Seq(S)
           /\ ToSet(s) \cup ToSet(t) = ToSet(Reverse(SubSeq(s, 1, n)) \o t)
                                         \cup ToSet(SubSeq(s, n + 1, Len(s)))
<1> DEFINE a == SubSeq(s, 1, n)
           b == SubSeq(s, n + 1, Len(s))
<1>1. a \in Seq(S) /\ ToSet(a) = {s[j] : j \in 1..n}
  <2>1. 1 \in 1..Len(s) + 1
    OBVIOUS
  <2> QED BY <2>1, SubSeqElements
<1>2. b \in Seq(S) /\ ToSet(b) = {s[j] : j \in n + 1..Len(s)}
  <2>1. Len(s) \in 0..Len(s) /\ n + 1 \in 1..Len(s) + 1
    OBVIOUS
  <2> QED BY <2>1, SubSeqElements
<1>3. ToSet(s) = ToSet(a) \cup ToSet(b)
  <2>1. 1..Len(s) = (1..n) \cup (n + 1..Len(s))
    OBVIOUS
  <2>2. ToSet(s) = {s[j] : j \in 1..Len(s)}
    BY DEF ToSet
  <2> QED BY <2>1, <2>2, <1>1, <1>2
<1>4. Reverse(a) \in Seq(S) /\ ToSet(Reverse(a)) = ToSet(a)
  <2> HIDE DEF a
  <2> QED BY <1>1, ReverseElements
<1>5. Reverse(a) \o t \in Seq(S) /\ ToSet(Reverse(a) \o t) = ToSet(a) \cup ToSet(t)
  <2> HIDE DEF a
  <2> QED BY <1>4, ConcatElements
<1> QED BY <1>2, <1>3, <1>5

-----------------------------------------------------------------------------
(* Sequences without repetitions                                            *)

(* Parts that have no element in common. *)
LEMMA ConcatOnce ==
    ASSUME NEW S, NEW s \in Seq(S), NEW t \in Seq(S), IsInjective(s), IsInjective(t),
           ToSet(s) \cap ToSet(t) = {}
    PROVE  IsInjective(s \o t)
<1>1. /\ DOMAIN (s \o t) = 1..Len(s) + Len(t) /\ Len(s) \in Nat /\ Len(t) \in Nat
      /\ DOMAIN s = 1..Len(s) /\ DOMAIN t = 1..Len(t)
  OBVIOUS
<1>2. ASSUME NEW i \in DOMAIN (s \o t)
      PROVE  \/ i <= Len(s) /\ i \in DOMAIN s /\ (s \o t)[i] = s[i]
             \/ i > Len(s) /\ i - Len(s) \in DOMAIN t /\ (s \o t)[i] = t[i - Len(s)]
  BY <1>1
<1>3. ASSUME NEW i \in DOMAIN (s \o t), NEW j \in DOMAIN (s \o t), (s \o t)[i] = (s \o t)[j]
      PROVE  i = j
  <2>0. i \in Int /\ j \in Int
    BY <1>1
  <2>1. \A x \in DOMAIN s, y \in DOMAIN t : s[x] # t[y]
    BY DEF ToSet
  <2>2. CASE i <= Len(s) /\ j <= Len(s)
    BY <1>1, <1>2, <1>3, <2>2 DEF IsInjective
  <2>3. CASE i > Len(s) /\ j > Len(s)
    <3>1. i - Len(s) = j - Len(s)
      BY <1>1, <1>2, <1>3, <2>0, <2>3 DEF IsInjective
    <3> QED BY <1>1, <2>0, <3>1
  <2>4. ~(i <= Len(s) /\ j > Len(s)) /\ ~(i > Len(s) /\ j <= Len(s))
    BY <1>1, <1>2, <1>3, <2>0, <2>1
  <2> QED BY <1>1, <2>0, <2>2, <2>3, <2>4
<1> QED BY <1>3 DEF IsInjective

(* A subsequence. *)
LEMMA SubSeqOnce ==
    ASSUME NEW S, NEW s \in Seq(S), NEW m \in 1..Len(s) + 1, NEW n \in 0..Len(s),
           IsInjective(s)
    PROVE  IsInjective(SubSeq(s, m, n))
<1>1. \A i \in DOMAIN SubSeq(s, m, n) :
         i \in Int /\ i + m - 1 \in DOMAIN s /\ SubSeq(s, m, n)[i] = s[i + m - 1]
  OBVIOUS
<1>2. ASSUME NEW i \in DOMAIN SubSeq(s, m, n), NEW j \in DOMAIN SubSeq(s, m, n),
             SubSeq(s, m, n)[i] = SubSeq(s, m, n)[j]
      PROVE  i = j
  <2>1. i + m - 1 = j + m - 1
    BY <1>1, <1>2 DEF IsInjective
  <2> QED BY <1>1, <2>1
<1> QED BY <1>2 DEF IsInjective

LEMMA ReverseOnce ==
    ASSUME NEW S, NEW s \in Seq(S), IsInjective(s)
    PROVE  IsInjective(Reverse(s))
<1>1. \A i \in DOMAIN Reverse(s) :
         i \in Int /\ Len(s) - i + 1 \in DOMAIN s /\ Reverse(s)[i] = s[Len(s) - i + 1]
  BY DEF Reverse
<1>2. ASSUME NEW i \in DOMAIN Reverse(s), NEW j \in DOMAIN Reverse(s), Reverse(s)[i] = Reverse(s)[j]
      PROVE  i = j
  <2>1. Len(s) - i + 1 = Len(s) - j + 1
    BY <1>1, <1>2 DEF IsInjective
  <2> QED BY <1>1, <2>1
<1> QED BY <1>2 DEF IsInjective

(* The two parts of a sequence without repetitions have nothing in common.  *)
LEMMA SplitOnce ==
    ASSUME NEW S, NEW s \in Seq(S), IsInjective(s), NEW n \in 0..Len(s)
    PROVE  /\ SubSeq(s, 1, n) \in Seq(S) /\ SubSeq(s, n + 1, Len(s)) \in Seq(S)
           /\ IsInjective(SubSeq(s, 1, n)) /\ IsInjective(SubSeq(s, n + 1, Len(s)))
           /\ ToSet(s) = ToSet(SubSeq(s, 1, n)) \cup ToSet(SubSeq(s, n + 1, Len(s)))
           /\ ToSet(SubSeq(s, 1, n)) \cap ToSet(SubSeq(s, n + 1, Len(s))) = {}
<1>1. 1 \in 1..Len(s) + 1 /\ n + 1 \in 1..Len(s) + 1 /\ Len(s) \in 0..Len(s) /\ n \in 0..Len(s)
  OBVIOUS
<1>2. /\ SubSeq(s, 1, n) \in Seq(S) /\ ToSet(SubSeq(s, 1, n)) = {s[i] : i \in 1..n}
      /\ SubSeq(s, n + 1, Len(s)) \in Seq(S)
      /\ ToSet(SubSeq(s, n + 1, Len(s))) = {s[i] : i \in n + 1..Len(s)}
  BY <1>1, SubSeqElements
<1>3. IsInjective(SubSeq(s, 1, n)) /\ IsInjective(SubSeq(s, n + 1, Len(s)))
  BY <1>1, SubSeqOnce
<1>4. ToSet(s) = {s[i] : i \in 1..Len(s)} /\ 1..Len(s) = (1..n) \cup (n + 1..Len(s))
  BY DEF ToSet
<1>5. \A i \in 1..n, j \in n + 1..Len(s) : s[i] # s[j]
  <2>1. \A i \in 1..n, j \in n + 1..Len(s) : i # j /\ i \in DOMAIN s /\ j \in DOMAIN s
    OBVIOUS
  <2> QED BY <2>1 DEF IsInjective
<1>6. {s[i] : i \in 1..n} \cap {s[i] : i \in n + 1..Len(s)} = {}
  BY <1>5
<1> QED BY <1>2, <1>3, <1>4, <1>6

(* LPUSH of a new element. *)
LEMMA PushOnce ==
    ASSUME NEW S, NEW s \in Seq(S), NEW e \in S, IsInjective(s), e \notin ToSet(s)
    PROVE  IsInjective(<<e>> \o s)
<1> DEFINE t == <<e>>
<1>1. t \in Seq(S) /\ ToSet(t) = {e} /\ IsInjective(t)
  BY SingletonElements DEF IsInjective
<1> HIDE DEF t
<1>2. IsInjective(t \o s)
  BY <1>1, ConcatOnce
<1> QED BY <1>2 DEF t

(* RPOP: the element taken is not among those that stay. *)
LEMMA PopOnce ==
    ASSUME NEW S, NEW s \in Seq(S), s # <<>>, IsInjective(s)
    PROVE  IsInjective(Front(s)) /\ Last(s) \notin ToSet(Front(s))
<1>1. Len(s) - 1 \in 0..Len(s) /\ Len(s) \in DOMAIN s /\ 1 \in 1..Len(s) + 1
  OBVIOUS
<1>2. /\ IsInjective(SubSeq(s, 1, Len(s) - 1))
      /\ ToSet(SubSeq(s, 1, Len(s) - 1)) = {s[i] : i \in 1..Len(s) - 1}
  BY <1>1, SubSeqOnce, SubSeqElements
<1>3. \A i \in 1..Len(s) - 1 : i \in DOMAIN s /\ i # Len(s)
  BY <1>1
<1>4. \A i \in 1..Len(s) - 1 : s[i] # s[Len(s)]
  BY <1>1, <1>3 DEF IsInjective
<1> QED BY <1>2, <1>4 DEF Front, Last

(* InsertAt of a new element. *)
LEMMA InsertOnce ==
    ASSUME NEW S, NEW s \in Seq(S), NEW i \in 1..Len(s) + 1, NEW e \in S, IsInjective(s),
           e \notin ToSet(s)
    PROVE  IsInjective(InsertAt(s, i, e))
<1> DEFINE n == i - 1
           a == SubSeq(s, 1, n)
           b == SubSeq(s, n + 1, Len(s))
           t == <<e>>
<1>1. n \in 0..Len(s) /\ n + 1 = i
  OBVIOUS
<1>2. /\ a \in Seq(S) /\ b \in Seq(S) /\ IsInjective(a) /\ IsInjective(b)
      /\ ToSet(s) = ToSet(a) \cup ToSet(b) /\ ToSet(a) \cap ToSet(b) = {}
  <2> HIDE DEF n
  <2> QED BY <1>1, SplitOnce
<1>3. t \in Seq(S) /\ ToSet(t) = {e} /\ IsInjective(t)
  BY SingletonElements DEF IsInjective
<1>4. InsertAt(s, i, e) = (a \o t) \o b
  BY <1>1 DEF InsertAt
<1> HIDE DEF a, b, t
<1> DEFINE c == a \o t
<1>5. c \in Seq(S) /\ ToSet(c) = ToSet(a) \cup {e} /\ IsInjective(c)
  BY <1>2, <1>3, ConcatElements, ConcatOnce
<1> HIDE DEF c
<1>6. IsInjective(c \o b)
  BY <1>2, <1>5, ConcatOnce
<1> QED BY <1>4, <1>6 DEF c

(* A prefix moved, reversed, to the head of a sequence that has none of it. *)
LEMMA MovePrefixOnce ==
    ASSUME NEW S, NEW s \in Seq(S), NEW t \in Seq(S), NEW n \in 0..Len(s),
           IsInjective(s), IsInjective(t), ToSet(s) \cap ToSet(t) = {}
    PROVE  /\ IsInjective(Reverse(SubSeq(s, 1, n)) \o t)
           /\ IsInjective(SubSeq(s, n + 1, Len(s)))
           /\ ToSet(Reverse(SubSeq(s, 1, n)) \o t) \cap ToSet(SubSeq(s, n + 1, Len(s))) = {}
           /\ ToSet(t) \subseteq ToSet(Reverse(SubSeq(s, 1, n)) \o t)
           /\ ToSet(SubSeq(s, n + 1, Len(s))) \subseteq ToSet(s)
<1> DEFINE a == SubSeq(s, 1, n)
           b == SubSeq(s, n + 1, Len(s))
<1>1. /\ a \in Seq(S) /\ b \in Seq(S) /\ IsInjective(a) /\ IsInjective(b)
      /\ ToSet(s) = ToSet(a) \cup ToSet(b) /\ ToSet(a) \cap ToSet(b) = {}
  BY SplitOnce
<1> HIDE DEF a, b
<1>2. Reverse(a) \in Seq(S) /\ ToSet(Reverse(a)) = ToSet(a) /\ IsInjective(Reverse(a))
  BY <1>1, ReverseElements, ReverseOnce
<1>3. /\ ToSet(Reverse(a) \o t) = ToSet(a) \cup ToSet(t)
      /\ IsInjective(Reverse(a) \o t)
  BY <1>1, <1>2, ConcatElements, ConcatOnce
<1> QED BY <1>1, <1>3 DEF a, b
=============================================================================
