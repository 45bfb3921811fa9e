--------------------------- MODULE SequenceLemmas ---------------------------
(***************************************************************************)
(* What the proofs of this project need to know of natural numbers and of  *)
(* the operators on sequences that the modules take from the community     *)
(* modules.                                                                *)
(***************************************************************************)
EXTENDS Integers, FiniteSets, SequencesExt, FiniteSetTheorems,
        SequenceTheorems, WellFoundedInduction, TLAPS

(* The first n elements of a sequence.                                     *)
LEMMA PrefixProperties ==
  ASSUME NEW S, NEW s \in Seq(S), NEW n \in 0..Len(s)
  PROVE  /\ SubSeq(s, 1, n) \in Seq(S)
         /\ Len(SubSeq(s, 1, n)) = n
         /\ \A i \in 1..n : SubSeq(s, 1, n)[i] = s[i]
<1>1. \A i \in 1..n : s[i] \in S
  BY ElementOfSeq
<1>2. /\ SubSeq(s, 1, n) \in Seq(S)
      /\ Len(SubSeq(s, 1, n)) = IF 1 <= n THEN n - 1 + 1 ELSE 0
      /\ \A i \in 1..(n - 1 + 1) : SubSeq(s, 1, n)[i] = s[1 + i - 1]
  BY <1>1, SubSeqProperties
<1> QED BY <1>2

(* A stack without its top.                                                *)
LEMMA FrontProperties ==
  ASSUME NEW S, NEW s \in Seq(S), s # << >>
  PROVE  /\ Front(s) \in Seq(S)
         /\ Len(Front(s)) = Len(s) - 1
         /\ \A i \in 1..(Len(s) - 1) : Front(s)[i] = s[i]
<1>1. Len(s) - 1 \in 0..Len(s)
  BY EmptySeq
<1>2. Front(s) = SubSeq(s, 1, Len(s) - 1)
  BY DEF Front
<1> QED BY <1>1, <1>2, PrefixProperties

(* A stack whose top has become another call.                              *)
LEMMA ReplaceLastProperties ==
  ASSUME NEW S, NEW s \in Seq(S), s # << >>, NEW c \in S
  PROVE  /\ Append(Front(s), c) \in Seq(S)
         /\ Len(Append(Front(s), c)) = Len(s)
         /\ \A i \in 1..(Len(s) - 1) : Append(Front(s), c)[i] = s[i]
         /\ Append(Front(s), c)[Len(s)] = c
<1>1. Len(s) \in Nat \ {0}
  BY EmptySeq
<1> DEFINE f == Front(s)
<1>2. f \in Seq(S) /\ Len(f) = Len(s) - 1 /\ \A i \in 1..(Len(s) - 1) : f[i] = s[i]
  BY FrontProperties
<1> HIDE DEF f
<1>3. /\ Append(f, c) \in Seq(S)
      /\ Len(Append(f, c)) = Len(f) + 1
      /\ \A i \in 1..Len(f) : Append(f, c)[i] = f[i]
      /\ Append(f, c)[Len(f) + 1] = c
  BY <1>2, AppendProperties
<1>4. Append(f, c) = Append(Front(s), c)
  BY DEF f
<1> QED BY <1>1, <1>2, <1>3, <1>4

(* A sequence from which the element at i is taken.                        *)
LEMMA RemoveAtProperties ==
  ASSUME NEW S, NEW s \in Seq(S), NEW i \in 1..Len(s)
  PROVE  /\ RemoveAt(s, i) \in Seq(S)
         /\ Len(RemoveAt(s, i)) = Len(s) - 1
         /\ \A k \in 1..(Len(s) - 1) :
              RemoveAt(s, i)[k] = IF k < i THEN s[k] ELSE s[k + 1]
<1>1. Len(s) \in Nat
  BY EmptySeq
<1>2. \A j \in 1..Len(s) : s[j] \in S
  BY ElementOfSeq
<1> DEFINE a == SubSeq(s, 1, i - 1)  b == SubSeq(s, i + 1, Len(s))
<1>3. a \in Seq(S) /\ Len(a) = i - 1 /\ \A k \in 1..(i - 1) : a[k] = s[k]
  BY <1>1, <1>2, SubSeqProperties
<1>4. /\ b \in Seq(S) /\ Len(b) = Len(s) - i
      /\ \A k \in 1..(Len(s) - i) : b[k] = s[i + k]
  BY <1>1, <1>2, SubSeqProperties
<1>5. RemoveAt(s, i) = a \o b
  BY DEF RemoveAt
<1> HIDE DEF a, b
<1>6. /\ a \o b \in Seq(S) /\ Len(a \o b) = Len(a) + Len(b)
      /\ \A k \in 1..(Len(a) + Len(b)) :
           (a \o b)[k] = IF k <= Len(a) THEN a[k] ELSE b[k - Len(a)]
  BY <1>3, <1>4, ConcatProperties
<1>7. Len(a) + Len(b) = Len(s) - 1
  BY <1>1, <1>3, <1>4
<1>8. \A k \in 1..(Len(s) - 1) : (a \o b)[k] = IF k < i THEN s[k] ELSE s[k + 1]
  BY <1>1, <1>3, <1>4, <1>6, <1>7
<1> QED BY <1>5, <1>6, <1>7, <1>8

---------------------------------------------------------------------------
(* The elements of a sequence, and whether one is in it twice.             *)
LEMMA AppendElements ==
  ASSUME NEW S, NEW s \in Seq(S), NEW e \in S
  PROVE  /\ Range(Append(s, e)) = Range(s) \cup {e}
         /\ IsInjective(s) /\ e \notin Range(s) => IsInjective(Append(s, e))
<1> DEFINE a == Append(s, e)
<1>1. /\ a \in Seq(S) /\ Len(a) = Len(s) + 1 /\ Len(s) \in Nat
      /\ DOMAIN a = 1..(Len(s) + 1) /\ DOMAIN s = 1..Len(s)
      /\ \A i \in 1..Len(s) : a[i] = s[i]
      /\ a[Len(s) + 1] = e
  BY AppendProperties
<1> HIDE DEF a
<1>2. Range(a) = Range(s) \cup {e}
  <2>1. Range(a) \subseteq Range(s) \cup {e}
    BY <1>1 DEF Range
  <2>2. Range(s) \subseteq Range(a)
    BY <1>1 DEF Range
  <2>3. e \in Range(a)
    BY <1>1 DEF Range
  <2> QED BY <2>1, <2>2, <2>3
<1>3. ASSUME IsInjective(s), e \notin Range(s) PROVE IsInjective(a)
  BY <1>1, <1>3 DEF IsInjective, Range
<1> QED BY <1>2, <1>3 DEF a

LEMMA RemoveAtElements ==
  ASSUME NEW S, NEW s \in Seq(S), NEW i \in 1..Len(s), IsInjective(s)
  PROVE  Range(RemoveAt(s, i)) = Range(s) \ {s[i]} /\ IsInjective(RemoveAt(s, i))
<1> DEFINE r == RemoveAt(s, i)
<1>1. /\ r \in Seq(S) /\ Len(r) = Len(s) - 1 /\ Len(s) \in Nat
      /\ DOMAIN r = 1..(Len(s) - 1) /\ DOMAIN s = 1..Len(s)
      /\ \A k \in 1..(Len(s) - 1) : r[k] = IF k < i THEN s[k] ELSE s[k + 1]
  BY RemoveAtProperties
<1> HIDE DEF r
<1>2. ASSUME NEW k \in 1..(Len(s) - 1) PROVE \E j \in 1..Len(s) : j # i /\ r[k] = s[j]
  BY <1>1
<1>3. ASSUME NEW j \in 1..Len(s), j # i PROVE \E k \in 1..(Len(s) - 1) : r[k] = s[j]
  <2>1. CASE j < i
    BY <1>1, <2>1
  <2>2. CASE j > i
    <3>1. j - 1 \in 1..(Len(s) - 1) /\ ~(j - 1 < i) /\ j - 1 + 1 = j
      BY <1>1, <2>2
    <3> QED BY <1>1, <3>1
  <2> QED BY <1>3, <2>1, <2>2
<1>4. Range(r) = Range(s) \ {s[i]}
  <2>1. \A j \in 1..Len(s) : s[j] = s[i] => j = i
    BY <1>1 DEF IsInjective
  <2>2. \A x : x \in Range(r) <=> \E k \in 1..(Len(s) - 1) : r[k] = x
    BY <1>1 DEF Range
  <2>3. \A x : x \in Range(s) <=> \E j \in 1..Len(s) : s[j] = x
    BY <1>1 DEF Range
  <2>4. ASSUME NEW x \in Range(r) PROVE x \in Range(s) /\ x # s[i]
    <3>1. PICK k \in 1..(Len(s) - 1) : r[k] = x
      BY <2>2
    <3>2. PICK j \in 1..Len(s) : j # i /\ s[j] = x
      BY <1>2, <1>1, <3>1
    <3> QED BY <2>1, <2>3, <3>2
  <2>6. ASSUME NEW x \in Range(s), x # s[i] PROVE x \in Range(r)
    <3>1. PICK j \in 1..Len(s) : s[j] = x
      BY <2>3
    <3>2. j # i
      BY <2>6, <3>1
    <3>3. PICK k \in 1..(Len(s) - 1) : r[k] = s[j]
      BY <1>3, <3>2
    <3> QED BY <2>2, <3>1, <3>3
  <2> QED BY <2>4, <2>6
<1>5. IsInjective(r)
  <2> SUFFICES ASSUME NEW j \in 1..(Len(s) - 1), NEW k \in 1..(Len(s) - 1), r[j] = r[k] PROVE j = k
    BY <1>1 DEF IsInjective
  <2> DEFINE at(m) == IF m < i THEN m ELSE m + 1
  <2>1. at(j) \in 1..Len(s) /\ at(k) \in 1..Len(s) /\ s[at(j)] = s[at(k)]
    BY <1>1
  <2>2. at(j) = at(k)
    <3> HIDE DEF at
    <3> QED BY <1>1, <2>1 DEF IsInjective
  <2> QED BY <1>1, <2>2
<1> QED BY <1>4, <1>5 DEF r

LEMMA TailElements ==
  ASSUME NEW S, NEW s \in Seq(S), s # << >>, IsInjective(s)
  PROVE  /\ Head(s) \in Range(s)
         /\ Range(Tail(s)) = Range(s) \ {Head(s)} /\ IsInjective(Tail(s))
<1> DEFINE r == Tail(s)
<1>1. /\ r \in Seq(S) /\ Len(r) = Len(s) - 1 /\ Len(s) \in Nat \ {0} /\ Head(s) = s[1]
      /\ DOMAIN r = 1..(Len(s) - 1) /\ DOMAIN s = 1..Len(s)
      /\ \A k \in 1..(Len(s) - 1) : r[k] = s[k + 1]
  BY HeadTailProperties, EmptySeq
<1> HIDE DEF r
<1>2. ASSUME NEW j \in 1..Len(s), j # 1 PROVE \E k \in 1..(Len(s) - 1) : r[k] = s[j]
  <2>1. j - 1 \in 1..(Len(s) - 1) /\ j - 1 + 1 = j
    BY <1>1, <1>2
  <2> QED BY <1>1, <2>1
<1>3. Range(r) = Range(s) \ {s[1]}
  <2>1. \A j \in 1..Len(s) : s[j] = s[1] => j = 1
    BY <1>1 DEF IsInjective
  <2>2. \A x : x \in Range(r) <=> \E k \in 1..(Len(s) - 1) : r[k] = x
    BY <1>1 DEF Range
  <2>3. \A x : x \in Range(s) <=> \E j \in 1..Len(s) : s[j] = x
    BY <1>1 DEF Range
  <2>4. \A k \in 1..(Len(s) - 1) : k + 1 \in 1..Len(s) /\ k + 1 # 1
    BY <1>1
  <2>5. ASSUME NEW x \in Range(r) PROVE x \in Range(s) /\ x # s[1]
    <3>1. PICK k \in 1..(Len(s) - 1) : r[k] = x
      BY <2>2
    <3>2. PICK j \in 1..Len(s) : j # 1 /\ s[j] = x
      BY <1>1, <2>4, <1>1, <3>1
    <3> QED BY <2>1, <2>3, <3>2
  <2>6. ASSUME NEW x \in Range(s), x # s[1] PROVE x \in Range(r)
    <3>1. PICK j \in 1..Len(s) : s[j] = x
      BY <2>3
    <3>2. j # 1
      BY <2>6, <3>1
    <3>3. PICK k \in 1..(Len(s) - 1) : r[k] = s[j]
      BY <1>2, <3>2
    <3> QED BY <2>2, <3>1, <3>3
  <2> QED BY <2>5, <2>6
<1>4. IsInjective(r)
  BY <1>1 DEF IsInjective
<1>5. s[1] \in Range(s)
  BY <1>1 DEF Range
<1> QED BY <1>1, <1>3, <1>4, <1>5 DEF r

LEMMA EmptyRange ==
  ASSUME NEW S, NEW s \in Seq(S), Range(s) = {}
  PROVE  s = << >>
<1>1. DOMAIN s = 1..Len(s) /\ Len(s) \in Nat
  OBVIOUS
<1>2. Len(s) >= 1 => s[1] \in Range(s)
  BY <1>1 DEF Range
<1>3. Len(s) = 0
  BY <1>1, <1>2
<1> QED BY <1>3, EmptySeq

LEMMA ConcatElements ==
  ASSUME NEW S, NEW s \in Seq(S), NEW t \in Seq(S)
  PROVE  Range(s \o t) = Range(s) \cup Range(t)
<1> DEFINE c == s \o t
<1>1. /\ Len(s) \in Nat /\ Len(t) \in Nat /\ DOMAIN c = 1..(Len(s) + Len(t))
      /\ DOMAIN s = 1..Len(s) /\ DOMAIN t = 1..Len(t)
      /\ \A i \in 1..(Len(s) + Len(t)) : c[i] = IF i <= Len(s) THEN s[i] ELSE t[i - Len(s)]
  BY ConcatProperties
<1> HIDE DEF c
<1>2. ASSUME NEW x \in Range(c) PROVE x \in Range(s) \cup Range(t)
  <2>1. PICK i \in 1..(Len(s) + Len(t)) : c[i] = x
    BY <1>1 DEF Range
  <2>2. CASE i <= Len(s)
    BY <1>1, <2>1, <2>2 DEF Range
  <2>3. CASE i > Len(s)
    <3>1. i - Len(s) \in 1..Len(t) /\ t[i - Len(s)] = x
      BY <1>1, <2>1, <2>3
    <3> QED BY <1>1, <3>1 DEF Range
  <2> QED BY <1>1, <2>2, <2>3
<1>3. ASSUME NEW i \in 1..Len(s) PROVE s[i] \in Range(c)
  BY <1>1 DEF Range
<1>4. ASSUME NEW j \in 1..Len(t) PROVE t[j] \in Range(c)
  <2>1. PICK i \in 1..(Len(s) + Len(t)) : i = Len(s) + j
    BY <1>1
  <2>2. c[i] = t[j]
    BY <1>1, <2>1
  <2> QED BY <1>1, <2>2 DEF Range
<1>5. Range(s) \subseteq Range(c) /\ Range(t) \subseteq Range(c)
  BY <1>1, <1>3, <1>4 DEF Range
<1> QED BY <1>2, <1>5 DEF c

LEMMA ConcatIsInjective ==
  ASSUME NEW S, NEW s \in Seq(S), NEW t \in Seq(S), IsInjective(s), IsInjective(t),
         Range(s) \cap Range(t) = {}
  PROVE  IsInjective(s \o t)
<1> DEFINE c == s \o t
<1>1. /\ Len(s) \in Nat /\ Len(t) \in Nat /\ DOMAIN c = 1..(Len(s) + Len(t))
      /\ DOMAIN s = 1..Len(s) /\ DOMAIN t = 1..Len(t)
      /\ \A i \in 1..(Len(s) + Len(t)) : c[i] = IF i <= Len(s) THEN s[i] ELSE t[i - Len(s)]
  BY ConcatProperties
<1> HIDE DEF c
<1> SUFFICES ASSUME NEW i \in 1..(Len(s) + Len(t)), NEW j \in 1..(Len(s) + Len(t)), c[i] = c[j] PROVE i = j
  BY <1>1 DEF IsInjective, c
<1>2. CASE i <= Len(s) /\ j <= Len(s)
  BY <1>1, <1>2 DEF IsInjective
<1>3. CASE i > Len(s) /\ j > Len(s)
  <2>1. i - Len(s) \in 1..Len(t) /\ j - Len(s) \in 1..Len(t) /\ t[i - Len(s)] = t[j - Len(s)]
    BY <1>1, <1>3
  <2>2. i - Len(s) = j - Len(s)
    BY <1>1, <2>1 DEF IsInjective
  <2> QED BY <1>1, <2>2
<1>4. ASSUME NEW a \in 1..Len(s), NEW b \in 1..Len(t) PROVE s[a] # t[b]
  BY <1>1 DEF Range
<1>5. CASE i <= Len(s) /\ j > Len(s)
  BY <1>1, <1>4, <1>5
<1>6. CASE i > Len(s) /\ j <= Len(s)
  BY <1>1, <1>4, <1>6
<1> QED BY <1>1, <1>2, <1>3, <1>5, <1>6

---------------------------------------------------------------------------
(* A non-empty set of natural numbers has a least element.                 *)
LEMMA NatMin ==
  ASSUME NEW T \in SUBSET Nat, T # {}
  PROVE  \E x \in T : \A y \in T : x <= y
<1>1. PICK n \in T : TRUE
  OBVIOUS
<1> DEFINE S == SUBSET (0..n)
           F == {0..k : k \in {j \in T : j <= n}}
           R == StrictSubsetOrdering(0..n)
<1>2. IsFiniteSet(0..n)
  BY FS_Interval
<1>3. IsWellFoundedOn(R, S)
  BY <1>2, FS_StrictSubsetOrderingWellFounded, FS_FiniteSubsetsOfFinite
<1>4. F \subseteq S /\ F # {}
  OBVIOUS
<1>5. \E x \in F : \A y \in F : ~(<< y, x >> \in R)
  <2> HIDE DEF S, F, R
  <2> QED BY <1>3, <1>4, WFMin
<1>6. PICK k \in {j \in T : j <= n} : \A y \in F : ~(<< y, 0..k >> \in R)
  BY <1>5
<1>7. ASSUME NEW j \in T, j < k PROVE FALSE
  <2>1. 0..j \in F /\ 0..k \in S
    BY <1>7
  <2>2. 0..j \subseteq 0..k /\ 0..j # 0..k
    <3>1. k \in 0..k /\ k \notin 0..j
      BY <1>7
    <3> QED BY <3>1, <1>7
  <2> QED BY <2>1, <2>2, <1>4, <1>6 DEF StrictSubsetOrdering
<1> QED BY <1>6, <1>7

(* Induction, for a set of natural numbers.                                *)
LEMMA NatIsInductive ==
  ASSUME NEW P \in SUBSET Nat, 0 \in P, \A n \in P : n + 1 \in P
  PROVE  P = Nat
<1>1. SUFFICES ASSUME Nat \ P # {} PROVE FALSE
  OBVIOUS
<1>2. PICK m \in Nat \ P : \A k \in Nat \ P : m <= k
  BY <1>1, NatMin
<1>3. m # 0 /\ m - 1 \in P
  BY <1>2
<1> QED BY <1>2, <1>3
=============================================================================
