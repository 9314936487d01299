---------------------------- MODULE ImageRefProofs ----------------------------
(***************************************************************************)
(* Proofs about image references: taking apart what Written has put        *)
(* together gives the parts back, for references of any length.            *)
(***************************************************************************)
EXTENDS ImageRef, TLAPS, SequenceTheorems, FiniteSetTheorems

-----------------------------------------------------------------------------
(* Numbers. *)

(* The smallest and the largest element are the ones that are.             *)
LEMMA MinIs ==
  ASSUME NEW S \in SUBSET Nat, NEW n \in S, \A m \in S : n <= m
  PROVE Min(S) = n
<1>1. \A k \in S : (\A m \in S : k <= m) => k = n
  <2> TAKE k \in S
  <2> HAVE \A m \in S : k <= m
  <2>1. k <= n /\ n <= k /\ k \in Nat /\ n \in Nat
    OBVIOUS
  <2> QED BY <2>1
<1>2. Min(S) \in S /\ \A m \in S : Min(S) <= m
  BY DEF Min
<1> QED BY <1>1, <1>2

LEMMA MaxIs ==
  ASSUME NEW S \in SUBSET Nat, NEW n \in S, \A m \in S : m <= n
  PROVE Max(S) = n
<1>1. \A k \in S : (\A m \in S : k >= m) => k = n
  <2> TAKE k \in S
  <2> HAVE \A m \in S : k >= m
  <2>1. k >= n /\ n >= k /\ k \in Nat /\ n \in Nat
    OBVIOUS
  <2> QED BY <2>1
<1>2. Max(S) \in S /\ \A m \in S : Max(S) >= m
  BY DEF Max
<1> QED BY <1>1, <1>2

(* Of some numbers there is a least one. *)
LEMMA Least ==
  ASSUME NEW S \in SUBSET Nat, S # {}
  PROVE  Min(S) \in S /\ \A m \in S : Min(S) <= m
<1>1. PICK n \in S : \A m \in S : ~(<<m, n>> \in OpToRel(<, Nat))
  BY NatLessThanWellFounded, WFMin, Zenon
<1>2. \A m \in S : n <= m
  <2> TAKE m \in S
  <2>1. <<m, n>> \in Nat \X Nat /\ <<m, n>>[1] = m /\ <<m, n>>[2] = n
    OBVIOUS
  <2>2. ~(m < n)
    BY <1>1, <2>1 DEF OpToRel
  <2> QED BY <2>2
<1>3. Min(S) = n
  BY <1>2, MinIs
<1> QED BY <1>2, <1>3

LEMMA Greatest ==
  ASSUME NEW S \in SUBSET Nat, S # {}, NEW bound \in Nat, \A m \in S : m <= bound
  PROVE  Max(S) \in S /\ \A m \in S : m <= Max(S)
<1> DEFINE T == {bound - m : m \in S}
<1>1. T \in SUBSET Nat /\ T # {}
  OBVIOUS
<1>2. PICK m \in S : Min(T) = bound - m
  BY <1>1, Least
<1>3. \A k \in S : k <= m
  <2> TAKE k \in S
  <2>1. bound - k \in T
    OBVIOUS
  <2> HIDE DEF T
  <2>2. bound - m <= bound - k
    BY <1>1, <1>2, <2>1, Least
  <2> QED BY <2>2
<1>4. Max(S) = m
  BY <1>3, MaxIs
<1> QED BY <1>3, <1>4

(* What holds of 0, and of n + 1 if it does of n, holds of all numbers up   *)
(* to a bound: otherwise there would be a least one of which it does not.   *)
LEMMA Steps ==
  ASSUME NEW bound \in Nat, NEW S, 0 \in S, \A n \in 0..bound : n \in S /\ n < bound => n + 1 \in S
  PROVE  0..bound \subseteq S
<1> DEFINE T == 0..bound \ S
<1> SUFFICES ASSUME T # {} PROVE FALSE
  OBVIOUS
<1>1. T \in SUBSET Nat
  OBVIOUS
<1> DEFINE n == Min(T)
<1>2. n \in T /\ \A m \in T : n <= m
  BY <1>1, Least
<1> HIDE DEF n
<1>3. n \in 0..bound /\ n \notin S /\ n # 0
  BY <1>2
<1>4. n - 1 \in 0..bound /\ n - 1 < bound /\ (n - 1) + 1 = n
  BY <1>3
<1>5. n - 1 \in S
  <2>1. ~(n <= n - 1)
    BY <1>3
  <2> QED BY <1>2, <1>4, <2>1
<1> QED BY <1>3, <1>4, <1>5

(* Numbers in a list have a greatest one. *)
LEMMA GreatestOfList ==
  ASSUME NEW length \in Nat \ {0}, NEW f \in [1..length -> Nat]
  PROVE  /\ Max({f[i] : i \in 1..length}) \in {f[i] : i \in 1..length}
         /\ \A i \in 1..length : f[i] <= Max({f[j] : j \in 1..length})
<1> DEFINE S == {n \in 0..length : \E b \in Nat : \A i \in 1..n : f[i] <= b}
<1>1. 0..length \subseteq S
  <2>1. 0 \in S
    <3>1. \A i \in 1..0 : f[i] <= 0
      OBVIOUS
    <3> QED BY <3>1
  <2>2. ASSUME NEW n \in 0..length, n \in S, n < length PROVE n + 1 \in S
    <3>1. PICK b \in Nat : \A i \in 1..n : f[i] <= b
      BY <2>2
    <3> DEFINE c == IF f[n + 1] <= b THEN b ELSE f[n + 1]
    <3>2. f[n + 1] \in Nat /\ n + 1 \in 0..length
      BY <2>2
    <3>3. c \in Nat
      BY <3>2
    <3>4. ASSUME NEW i \in 1..n + 1 PROVE f[i] <= c
      <4>1. CASE i = n + 1
        BY <3>2, <4>1
      <4>2. CASE i # n + 1
        <5>1. i \in 1..n /\ f[i] \in Nat /\ f[i] <= b
          BY <2>2, <3>1, <4>2
        <5> QED BY <3>2, <5>1
      <4> QED BY <4>1, <4>2
    <3> HIDE DEF c
    <3> QED BY <3>2, <3>3, <3>4
  <2> HIDE DEF S
  <2> QED BY <2>1, <2>2, Steps
<1>2. length \in S
  <2> HIDE DEF S
  <2> QED BY <1>1
<1>3. PICK b \in Nat : \A i \in 1..length : f[i] <= b
  BY <1>2
<1> DEFINE V == {f[i] : i \in 1..length}
<1>4. V \in SUBSET Nat /\ V # {} /\ \A m \in V : m <= b
  <2>1. f[1] \in V
    OBVIOUS
  <2> QED BY <1>3, <2>1
<1>5. \A i \in 1..length : f[i] \in V
  OBVIOUS
<1> HIDE DEF V
<1>6. Max(V) \in V /\ \A m \in V : m <= Max(V)
  BY <1>4, Greatest
<1>7. \A i \in 1..length : f[i] <= Max(V)
  BY <1>5, <1>6
<1> QED BY <1>6, <1>7 DEF V

(* Of n numbers or more, one is the n-th. *)
LEMMA Place ==
  ASSUME NEW length \in Nat, NEW kept \in SUBSET (1..length), NEW n \in 1..Cardinality(kept)
  PROVE  \E i \in kept : Cardinality({j \in kept : j <= i}) = n
<1> DEFINE below(m) == {j \in kept : j <= m}
           T == {m \in 0..length : Cardinality(below(m)) >= n}
<1>1. ASSUME NEW m PROVE IsFiniteSet(below(m)) /\ Cardinality(below(m)) \in Nat
  <2>0. 1 \in Int /\ length \in Int
    OBVIOUS
  <2>1. below(m) \subseteq 1..length /\ IsFiniteSet(1..length)
    BY <2>0, FS_Interval
  <2>2. IsFiniteSet(below(m))
    BY <2>1, FS_Subset
  <2> QED BY <2>2, FS_CardinalityType
<1>2. below(length) = kept /\ below(0) = {}
  <2>1. \A j \in kept : j \in 1..length
    OBVIOUS
  <2>2. \A j \in kept : j <= length /\ ~(j <= 0)
    BY <2>1
  <2> QED BY <2>2
<1>3. n \in Nat \ {0} /\ Cardinality(below(length)) >= n
  <2>1. Cardinality(kept) \in Nat
    BY <1>1, <1>2
  <2> QED BY <1>2, <2>1
<1>4. ASSUME NEW m \in 1..length
      PROVE  below(m) = IF m \in kept THEN below(m - 1) \cup {m} ELSE below(m - 1)
  <2>1. \A j \in kept : j \in 1..length
    OBVIOUS
  <2>2. \A j \in kept : j <= m <=> j <= m - 1 \/ j = m
    BY <2>1
  <2> QED BY <2>2
<1>5. ASSUME NEW m \in 1..length PROVE m \notin below(m - 1)
  OBVIOUS
<1> HIDE DEF below
<1>6. T \in SUBSET Nat /\ T # {}
  BY <1>3
<1> DEFINE m == Min(T)
<1>7. m \in T /\ \A k \in T : m <= k
  BY <1>6, Least
<1> HIDE DEF m
<1>8. m \in 0..length /\ Cardinality(below(m)) >= n
  BY <1>7
<1>9. m # 0
  <2>1. Cardinality(below(0)) = 0
    BY <1>2, FS_EmptySet
  <2> QED BY <1>3, <1>8, <2>1
<1>10. m \in 1..length /\ m - 1 \in 0..length /\ ~(m <= m - 1)
  BY <1>8, <1>9
<1>11. Cardinality(below(m - 1)) < n
  <2>1. m - 1 \notin T
    BY <1>7, <1>10
  <2>2. ~(Cardinality(below(m - 1)) >= n)
    BY <1>10, <2>1
  <2>3. Cardinality(below(m - 1)) \in Nat
    BY <1>1
  <2> QED BY <1>3, <2>2, <2>3
<1>12. m \in kept
  <2> SUFFICES ASSUME m \notin kept PROVE FALSE
    OBVIOUS
  <2>1. below(m) = below(m - 1)
    BY <1>4, <1>10
  <2>2. Cardinality(below(m - 1)) \in Nat
    BY <1>1
  <2> QED BY <1>3, <1>8, <1>11, <2>1, <2>2
<1>13. Cardinality(below(m)) = Cardinality(below(m - 1)) + 1
  <2>1. below(m) = below(m - 1) \cup {m} /\ m \notin below(m - 1)
    BY <1>4, <1>5, <1>10, <1>12
  <2>2. IsFiniteSet(below(m - 1))
    BY <1>1
  <2>3. Cardinality(below(m - 1) \cup {m}) = Cardinality(below(m - 1)) + 1
    BY <2>1, <2>2, FS_AddElement
  <2> QED BY <2>1, <2>3
<1>14. Cardinality(below(m)) = n
  <2>1. Cardinality(below(m - 1)) \in Nat
    BY <1>1
  <2> QED BY <1>3, <1>8, <1>11, <1>13, <2>1
<1> QED BY <1>12, <1>14 DEF below

-----------------------------------------------------------------------------
(* Sequences. *)

(* A separator between two texts. *)
LEMMA Around ==
  ASSUME NEW S, NEW a \in Seq(S), NEW b \in Seq(S), NEW c \in S
  PROVE  /\ a \o <<c>> \o b \in Seq(S)
         /\ Len(a \o <<c>> \o b) = Len(a) + 1 + Len(b)
         /\ Len(a) \in Nat /\ Len(b) \in Nat
         /\ \A i \in 1..Len(a) : (a \o <<c>> \o b)[i] = a[i]
         /\ (a \o <<c>> \o b)[Len(a) + 1] = c
         /\ \A i \in 1..Len(b) : (a \o <<c>> \o b)[Len(a) + 1 + i] = b[i]
<1> DEFINE ac == a \o <<c>>
           text == ac \o b
<1>1. Len(a) \in Nat /\ Len(b) \in Nat /\ <<c>> \in Seq(S) /\ Len(<<c>>) = 1
  BY LenProperties
<1>2. /\ ac \in Seq(S) /\ Len(ac) = Len(a) + 1
      /\ \A i \in 1..Len(a) + 1 : ac[i] = IF i <= Len(a) THEN a[i] ELSE <<c>>[i - Len(a)]
  BY <1>1, ConcatProperties
<1>3. (\A i \in 1..Len(a) : ac[i] = a[i]) /\ ac[Len(a) + 1] = c
  BY <1>1, <1>2
<1> HIDE DEF ac
<1>4. /\ text \in Seq(S) /\ Len(text) = Len(ac) + Len(b)
      /\ \A i \in 1..Len(ac) + Len(b) : text[i] = IF i <= Len(ac) THEN ac[i] ELSE b[i - Len(ac)]
  <2>1. ac \in Seq(S)
    BY <1>2
  <2> QED BY <2>1, ConcatProperties, Zenon
<1> HIDE DEF text
<1>5. \A i \in 1..Len(a) + 1 : text[i] = ac[i]
  BY <1>1, <1>2, <1>4
<1>6. ASSUME NEW i \in 1..Len(b) PROVE text[Len(a) + 1 + i] = b[i]
  <2>1. Len(a) + 1 + i \in 1..Len(ac) + Len(b) /\ ~(Len(a) + 1 + i <= Len(ac))
        /\ Len(a) + 1 + i - Len(ac) = i
    BY <1>1, <1>2
  <2> QED BY <1>4, <2>1
<1>7. text[Len(a) + 1] = c
  BY <1>1, <1>3, <1>5
<1>8. \A i \in 1..Len(a) : text[i] = a[i]
  BY <1>1, <1>3, <1>5
<1>9. Len(text) = Len(a) + 1 + Len(b)
  BY <1>2, <1>4
<1> QED BY <1>1, <1>4, <1>6, <1>7, <1>8, <1>9 DEF text, ac

(* Where a sequence is defined, and with what values. *)
LEMMA SeqDomain ==
  ASSUME NEW S, NEW s \in Seq(S)
  PROVE  DOMAIN s = 1..Len(s) /\ Len(s) \in Nat /\ \A i \in 1..Len(s) : s[i] \in S
BY LenProperties, ElementOfSeq

(* A part of a text is known by its letters. *)
LEMMA SubSeqIs ==
  ASSUME NEW S, NEW text \in Seq(S), NEW s \in Seq(S), NEW m \in Nat, NEW n \in Nat,
         m >= 1, n <= Len(text), Len(s) = n - m + 1,
         \A i \in 1..Len(s) : text[m + i - 1] = s[i]
  PROVE  SubSeq(text, m, n) = s
<1>1. Len(text) \in Nat /\ Len(s) \in Nat /\ \A i \in m..n : text[i] \in S
  <2>1. \A i \in m..n : i \in 1..Len(text)
    BY SeqDomain
  <2> QED BY <2>1, SeqDomain
<1> DEFINE sub == SubSeq(text, m, n)
<1>2. /\ sub \in Seq(S)
      /\ Len(sub) = IF m <= n THEN n - m + 1 ELSE 0
      /\ \A i \in 1..n - m + 1 : sub[i] = text[m + i - 1]
  <2>1. m \in Int /\ n \in Int /\ \A i \in m..n : text[i] \in S
    BY <1>1
  <2> QED BY <2>1, SubSeqProperties
<1> HIDE DEF sub
<1>3. Len(sub) = Len(s)
  BY <1>1, <1>2
<1>4. \A i \in 1..Len(sub) : sub[i] = s[i]
  BY <1>1, <1>2, <1>3
<1>5. sub = s
  BY <1>2, <1>3, <1>4, SeqEqual
<1> QED BY <1>5 DEF sub

(* strings.SplitN: a text without the separator, the separator, and what    *)
(* follows.                                                                 *)
LEMMA CutFirst ==
  ASSUME NEW S, NEW a \in Seq(S), NEW b \in Seq(S), NEW c \in S, ~Has(a, c)
  PROVE  /\ Has(a \o <<c>> \o b, c)
         /\ BeforeFirst(a \o <<c>> \o b, c) = a
         /\ AfterFirst(a \o <<c>> \o b, c) = b
<1> DEFINE text == a \o <<c>> \o b
           n == Len(a) + 1
<1>1. /\ text \in Seq(S) /\ Len(text) = Len(a) + 1 + Len(b)
      /\ Len(a) \in Nat /\ Len(b) \in Nat
      /\ \A i \in 1..Len(a) : text[i] = a[i]
      /\ text[Len(a) + 1] = c
      /\ \A i \in 1..Len(b) : text[Len(a) + 1 + i] = b[i]
  BY Around DEF text
<1> HIDE DEF text
<1>2. DOMAIN text = 1..Len(text) /\ DOMAIN a = 1..Len(a)
  BY <1>1, SeqDomain
<1>3. Positions(text, c) \in SUBSET Nat /\ n \in Positions(text, c)
  BY <1>1, <1>2 DEF Positions
<1>4. ASSUME NEW m \in Positions(text, c) PROVE n <= m
  <2>1. m \in 1..Len(text) /\ text[m] = c
    BY <1>2 DEF Positions
  <2>2. ~(m \in 1..Len(a))
    BY <1>1, <1>2, <2>1 DEF Has, Positions
  <2> QED BY <1>1, <2>1, <2>2
<1>5. Min(Positions(text, c)) = n
  BY <1>3, <1>4, MinIs
<1>6. Has(text, c)
  BY <1>3 DEF Has
<1>7. SubSeq(text, 1, n - 1) = a
  <2>1. n - 1 \in Nat /\ n - 1 <= Len(text) /\ Len(a) = (n - 1) - 1 + 1
        /\ \A i \in 1..Len(a) : text[1 + i - 1] = a[i]
    BY <1>1
  <2> QED BY <1>1, <2>1, SubSeqIs
<1>8. SubSeq(text, n + 1, Len(text)) = b
  <2>1. n + 1 \in Nat /\ n + 1 >= 1 /\ Len(text) \in Nat /\ Len(text) <= Len(text)
        /\ Len(b) = Len(text) - (n + 1) + 1
        /\ \A i \in 1..Len(b) : text[(n + 1) + i - 1] = b[i]
    BY <1>1
  <2> QED BY <1>1, <2>1, SubSeqIs
<1>9. BeforeFirst(text, c) = a /\ AfterFirst(text, c) = b
  BY <1>5, <1>6, <1>7, <1>8 DEF BeforeFirst, AfterFirst
<1> QED BY <1>6, <1>9 DEF text

(* strings.LastIndex: what follows is without the separator.                *)
LEMMA CutLast ==
  ASSUME NEW S, NEW a \in Seq(S), NEW b \in Seq(S), NEW c \in S, ~Has(b, c)
  PROVE  /\ Has(a \o <<c>> \o b, c)
         /\ BeforeLast(a \o <<c>> \o b, c) = a
         /\ AfterLast(a \o <<c>> \o b, c) = b
<1> DEFINE text == a \o <<c>> \o b
           n == Len(a) + 1
<1>1. /\ text \in Seq(S) /\ Len(text) = Len(a) + 1 + Len(b)
      /\ Len(a) \in Nat /\ Len(b) \in Nat
      /\ \A i \in 1..Len(a) : text[i] = a[i]
      /\ text[Len(a) + 1] = c
      /\ \A i \in 1..Len(b) : text[Len(a) + 1 + i] = b[i]
  BY Around DEF text
<1> HIDE DEF text
<1>2. DOMAIN text = 1..Len(text) /\ DOMAIN b = 1..Len(b)
  BY <1>1, SeqDomain
<1>3. Positions(text, c) \in SUBSET Nat /\ n \in Positions(text, c)
  BY <1>1, <1>2 DEF Positions
<1>4. ASSUME NEW m \in Positions(text, c) PROVE m <= n
  <2>1. m \in 1..Len(text) /\ text[m] = c
    BY <1>2 DEF Positions
  <2>2. ASSUME m > n PROVE FALSE
    <3>1. m - n \in 1..Len(b) /\ Len(a) + 1 + (m - n) = m
      BY <1>1, <2>1, <2>2
    <3>2. b[m - n] = c
      BY <1>1, <2>1, <3>1
    <3> QED BY <1>2, <3>1, <3>2 DEF Has, Positions
  <2> QED BY <1>1, <2>1, <2>2
<1>5. Max(Positions(text, c)) = n
  BY <1>3, <1>4, MaxIs
<1>6. Has(text, c)
  BY <1>3 DEF Has
<1>7. SubSeq(text, 1, n - 1) = a
  <2>1. n - 1 \in Nat /\ n - 1 <= Len(text) /\ Len(a) = (n - 1) - 1 + 1
        /\ \A i \in 1..Len(a) : text[1 + i - 1] = a[i]
    BY <1>1
  <2> QED BY <1>1, <2>1, SubSeqIs
<1>8. SubSeq(text, n + 1, Len(text)) = b
  <2>1. n + 1 \in Nat /\ n + 1 >= 1 /\ Len(text) \in Nat /\ Len(text) <= Len(text)
        /\ Len(b) = Len(text) - (n + 1) + 1
        /\ \A i \in 1..Len(b) : text[(n + 1) + i - 1] = b[i]
    BY <1>1
  <2> QED BY <1>1, <2>1, SubSeqIs
<1>9. BeforeLast(text, c) = a /\ AfterLast(text, c) = b
  BY <1>5, <1>7, <1>8 DEF BeforeLast, AfterLast
<1> QED BY <1>6, <1>9 DEF text

(* A letter of two texts is one of either. *)
LEMMA HasConcat ==
  ASSUME NEW S, NEW a \in Seq(S), NEW b \in Seq(S), NEW c
  PROVE  Has(a \o b, c) <=> Has(a, c) \/ Has(b, c)
<1> DEFINE text == a \o b
<1>1. /\ text \in Seq(S) /\ Len(text) = Len(a) + Len(b)
      /\ \A i \in 1..Len(a) + Len(b) : text[i] = IF i <= Len(a) THEN a[i] ELSE b[i - Len(a)]
  BY ConcatProperties, Zenon
<1> HIDE DEF text
<1>2. /\ DOMAIN text = 1..Len(text) /\ DOMAIN a = 1..Len(a) /\ DOMAIN b = 1..Len(b)
      /\ Len(a) \in Nat /\ Len(b) \in Nat
  BY <1>1, SeqDomain
<1>3. ASSUME NEW i \in 1..Len(a), a[i] = c PROVE Has(text, c)
  <2>1. i \in 1..Len(text) /\ text[i] = c
    BY <1>1, <1>2, <1>3
  <2> QED BY <1>2, <2>1 DEF Has, Positions
<1>4. ASSUME NEW i \in 1..Len(b), b[i] = c PROVE Has(text, c)
  <2>1. Len(a) + i \in 1..Len(text) /\ ~(Len(a) + i <= Len(a)) /\ Len(a) + i - Len(a) = i
    BY <1>1, <1>2
  <2>2. text[Len(a) + i] = c
    BY <1>1, <1>4, <2>1
  <2> QED BY <1>2, <2>1, <2>2 DEF Has, Positions
<1>5. ASSUME NEW i \in 1..Len(text), text[i] = c PROVE Has(a, c) \/ Has(b, c)
  <2>1. CASE i <= Len(a)
    BY <1>1, <1>2, <1>5, <2>1 DEF Has, Positions
  <2>2. CASE ~(i <= Len(a))
    <3>1. i - Len(a) \in 1..Len(b) /\ b[i - Len(a)] = c
      BY <1>1, <1>2, <1>5, <2>2
    <3> QED BY <1>2, <3>1 DEF Has, Positions
  <2> QED BY <2>1, <2>2
<1>6. Has(text, c) <=> Has(a, c) \/ Has(b, c)
  BY <1>2, <1>3, <1>4, <1>5 DEF Has, Positions
<1> QED BY <1>6 DEF text

(* Joined is a sequence, of the components and "/".                         *)
LEMMA FunctionIsSeq ==
  ASSUME NEW S, NEW n \in Nat, NEW f \in [1..n -> S]
  PROVE  f \in Seq(S) /\ Len(f) = n
<1>1. f \in Seq(S)
  BY SeqDef, Zenon
<1>2. DOMAIN f = 1..n /\ DOMAIN f = 1..Len(f) /\ Len(f) \in Nat
  BY <1>1, LenProperties
<1>3. Len(f) = n
  BY <1>2
<1> QED BY <1>1, <1>3

LEMMA JoinedIsSeq ==
  ASSUME NEW S, NEW path \in Seq(S), path # <<>>, "/" \in S
  PROVE  /\ Joined(path) \in Seq(S)
         /\ Len(Joined(path)) = 2 * Len(path) - 1
         /\ \A i \in 1..2 * Len(path) - 1 :
               Joined(path)[i] = IF i % 2 = 1 THEN path[(i + 1) \div 2] ELSE "/"
         /\ Len(path) \in Nat \ {0}
<1>1. Len(path) \in Nat \ {0} /\ DOMAIN path = 1..Len(path)
  BY EmptySeq, SeqDomain
<1> DEFINE n == 2 * Len(path) - 1
<1>2. n \in Nat
  BY <1>1
<1>3. ASSUME NEW i \in 1..n PROVE (i + 1) \div 2 \in 1..Len(path)
  BY <1>1, <1>3
<1>4. Joined(path) \in [1..n -> S]
  BY <1>3, SeqDomain DEF Joined
<1>5. Joined(path) \in Seq(S) /\ Len(Joined(path)) = n
  BY <1>2, <1>4, FunctionIsSeq
<1>6. \A i \in 1..n : Joined(path)[i] = IF i % 2 = 1 THEN path[(i + 1) \div 2] ELSE "/"
  BY DEF Joined
<1> QED BY <1>1, <1>5, <1>6

LEMMA JoinedHas ==
  ASSUME NEW S, NEW path \in Seq(S), path # <<>>, "/" \in S,
         NEW c, c # "/", ~Has(path, c)
  PROVE  ~Has(Joined(path), c)
<1>1. Len(path) \in Nat \ {0} /\ DOMAIN path = 1..Len(path)
      /\ DOMAIN Joined(path) = 1..2 * Len(path) - 1
  BY JoinedIsSeq, SeqDomain
<1> SUFFICES ASSUME NEW i \in 1..2 * Len(path) - 1, Joined(path)[i] = c PROVE FALSE
  BY <1>1 DEF Has, Positions
<1>2. i % 2 = 1 /\ path[(i + 1) \div 2] = c
  BY JoinedIsSeq
<1>3. (i + 1) \div 2 \in 1..Len(path)
  BY <1>1
<1> QED BY <1>1, <1>2, <1>3 DEF Has, Positions

(* One component is its own spelling; of more, the first is followed by "/" *)
(* and by the spelling of the others.                                       *)
LEMMA JoinedOne ==
  ASSUME NEW S, NEW path \in Seq(S), Len(path) = 1, "/" \in S
  PROVE  Joined(path) = path
<1>1. path # <<>>
  BY EmptySeq
<1>2. /\ Joined(path) \in Seq(S) /\ Len(Joined(path)) = 1
      /\ Joined(path)[1] = path[1]
  <2>1. /\ Joined(path) \in Seq(S) /\ Len(Joined(path)) = 2 * Len(path) - 1
        /\ \A i \in 1..2 * Len(path) - 1 :
               Joined(path)[i] = IF i % 2 = 1 THEN path[(i + 1) \div 2] ELSE "/"
    BY <1>1, JoinedIsSeq
  <2>2. 1 \in 1..2 * Len(path) - 1 /\ 1 % 2 = 1 /\ (1 + 1) \div 2 = 1 /\ 2 * Len(path) - 1 = 1
    OBVIOUS
  <2> QED BY <2>1, <2>2
<1>3. \A i \in 1..1 : Joined(path)[i] = path[i]
  BY <1>2
<1> QED BY <1>2, <1>3, SeqEqual

LEMMA JoinedMore ==
  ASSUME NEW S, NEW path \in Seq(S), Len(path) > 1, "/" \in S
  PROVE  Joined(path) = <<path[1]>> \o <<"/">> \o Joined(Tail(path))
<1>1. path # <<>> /\ Len(path) \in Nat
  BY EmptySeq, SeqDomain
<1>2. /\ Tail(path) \in Seq(S) /\ Len(Tail(path)) = Len(path) - 1
      /\ \A i \in 1..Len(Tail(path)) : Tail(path)[i] = path[i + 1]
  BY <1>1, HeadTailProperties
<1>3. Tail(path) # <<>>
  <2>1. Len(Tail(path)) # 0
    BY <1>1, <1>2
  <2> QED BY <2>1, EmptySeq
<1> DEFINE rest == Joined(Tail(path))
           head == <<path[1]>>
           text == head \o <<"/">> \o rest
           n == 2 * Len(path) - 1
<1>4. path[1] \in S /\ head \in Seq(S) /\ Len(head) = 1 /\ head[1] = path[1]
  BY <1>1, SeqDomain
<1> HIDE DEF head
<1>5. /\ rest \in Seq(S) /\ Len(rest) = 2 * (Len(path) - 1) - 1
      /\ \A i \in 1..2 * (Len(path) - 1) - 1 :
             rest[i] = IF i % 2 = 1 THEN Tail(path)[(i + 1) \div 2] ELSE "/"
  BY <1>2, <1>3, JoinedIsSeq
<1> HIDE DEF rest
<1>6. /\ text \in Seq(S) /\ Len(text) = 1 + 1 + Len(rest)
      /\ text[1] = path[1] /\ text[2] = "/"
      /\ \A i \in 1..Len(rest) : text[2 + i] = rest[i]
  <2>1. /\ text \in Seq(S)
        /\ Len(text) = Len(head) + 1 + Len(rest)
        /\ \A i \in 1..Len(head) : text[i] = head[i]
        /\ text[Len(head) + 1] = "/"
        /\ \A i \in 1..Len(rest) : text[Len(head) + 1 + i] = rest[i]
    <3>1. head \in Seq(S) /\ rest \in Seq(S)
      BY <1>4, <1>5
    <3> QED BY <3>1, Around DEF text
  <2> HIDE DEF text
  <2> QED BY <1>4, <2>1
<1> HIDE DEF text
<1>7. /\ Joined(path) \in Seq(S) /\ Len(Joined(path)) = n
      /\ \A i \in 1..n : Joined(path)[i] = IF i % 2 = 1 THEN path[(i + 1) \div 2] ELSE "/"
  BY <1>1, JoinedIsSeq
<1>8. ASSUME NEW i \in 1..n PROVE text[i] = Joined(path)[i]
  <2>1. CASE i = 1
    <3>1. i % 2 = 1 /\ (i + 1) \div 2 = 1
      BY <2>1
    <3> QED BY <1>6, <1>7, <2>1, <3>1
  <2>2. CASE i = 2
    <3>1. i % 2 # 1
      BY <2>2
    <3> QED BY <1>6, <1>7, <2>2, <3>1
  <2>3. CASE i > 2
    <3>1. i - 2 \in 1..2 * (Len(path) - 1) - 1 /\ 2 + (i - 2) = i /\ i - 2 \in 1..Len(rest)
      BY <1>1, <1>5, <2>3
    <3>2. text[i] = rest[i - 2]
      BY <1>6, <3>1
    <3>3. (i - 2) % 2 = i % 2
      BY <2>3
    <3>4. CASE i % 2 = 1
      <4>1. (i - 2 + 1) \div 2 \in 1..Len(Tail(path)) /\ (i - 2 + 1) \div 2 + 1 = (i + 1) \div 2
        BY <1>1, <1>2, <2>3, <3>4
      <4>2. rest[i - 2] = Tail(path)[(i - 2 + 1) \div 2]
        BY <1>5, <3>1, <3>3, <3>4
      <4>3. rest[i - 2] = path[(i + 1) \div 2]
        BY <1>2, <4>1, <4>2
      <4> QED BY <1>7, <3>2, <3>4, <4>3
    <3>5. CASE i % 2 # 1
      BY <1>5, <1>7, <3>1, <3>2, <3>3, <3>5
    <3> QED BY <3>4, <3>5
  <2> QED BY <2>1, <2>2, <2>3
<1>9. Len(text) = n
  BY <1>1, <1>5, <1>6
<1>10. text = Joined(path)
  BY <1>6, <1>7, <1>8, <1>9, SeqEqual
<1> QED BY <1>10 DEF text, head, rest

(* What follows the last separator has none. *)
LEMMA AfterLastIs ==
  ASSUME NEW S, NEW text \in Seq(S), NEW c, Has(text, c)
  PROVE  AfterLast(text, c) \in Seq(S) /\ ~Has(AfterLast(text, c), c)
<1> DEFINE m == Max(Positions(text, c))
           n == Len(text)
           sub == SubSeq(text, m + 1, n)
<1>1. DOMAIN text = 1..n /\ n \in Nat /\ \A i \in 1..n : text[i] \in S
  BY SeqDomain
<1>2. Positions(text, c) \in SUBSET Nat /\ Positions(text, c) # {}
      /\ \A i \in Positions(text, c) : i <= n
  BY <1>1 DEF Has, Positions
<1>3. m \in Positions(text, c) /\ \A i \in Positions(text, c) : i <= m
  BY <1>1, <1>2, Greatest
<1>4. m \in 1..n
  BY <1>1, <1>3 DEF Positions
<1> HIDE DEF m, n
<1>5. /\ sub \in Seq(S) /\ DOMAIN sub = 1..Len(sub)
      /\ Len(sub) = IF m + 1 <= n THEN n - (m + 1) + 1 ELSE 0
      /\ \A i \in 1..n - (m + 1) + 1 : sub[i] = text[(m + 1) + i - 1]
  <2>1. m + 1 \in Int /\ n \in Int /\ \A i \in (m + 1)..n : text[i] \in S
    BY <1>1, <1>4
  <2>2. /\ sub \in Seq(S)
        /\ Len(sub) = IF m + 1 <= n THEN n - (m + 1) + 1 ELSE 0
        /\ \A i \in 1..n - (m + 1) + 1 : sub[i] = text[(m + 1) + i - 1]
    BY <2>1, SubSeqProperties
  <2> HIDE DEF sub
  <2> QED BY <2>2, SeqDomain
<1> HIDE DEF sub
<1>6. ASSUME NEW i \in 1..Len(sub), sub[i] = c PROVE FALSE
  <2>1. m + i \in 1..n /\ (m + 1) + i - 1 = m + i /\ i \in 1..n - (m + 1) + 1 /\ ~(m + i <= m)
    BY <1>1, <1>4, <1>5, <1>6
  <2>2. m + i \in Positions(text, c)
    BY <1>1, <1>5, <1>6, <2>1 DEF Positions
  <2> QED BY <1>3, <2>1, <2>2
<1>7. ~Has(sub, c)
  BY <1>5, <1>6 DEF Has, Positions
<1> QED BY <1>5, <1>7 DEF AfterLast, sub, m, n

(* Joining two texts, as an operator that the provers do not expand.        *)
Cat(a, b) == a \o b

LEMMA CatIs == \A S : \A a, b \in Seq(S) : Cat(a, b) \in Seq(S)
BY ConcatProperties DEF Cat

LEMMA CatAssociative == \A S : \A a, b, c \in Seq(S) : Cat(Cat(a, b), c) = Cat(a, Cat(b, c))
<1> SUFFICES ASSUME NEW S, NEW a, NEW b, NEW c, a \in Seq(S), b \in Seq(S), c \in Seq(S)
             PROVE  Cat(Cat(a, b), c) = Cat(a, Cat(b, c))
  OBVIOUS
<1> QED BY ConcatAssociative DEF Cat

LEMMA Regroup ==
  ASSUME NEW S, NEW a \in Seq(S), NEW b \in Seq(S), NEW c \in Seq(S),
         NEW d \in Seq(S), NEW e \in Seq(S)
  PROVE  /\ Cat(Cat(Cat(Cat(a, b), c), d), e) = Cat(Cat(a, b), Cat(Cat(c, d), e))
         /\ Cat(Cat(c, d), e) \in Seq(S)
<1>1. Cat(a, b) \in Seq(S) /\ Cat(c, d) \in Seq(S) /\ Cat(Cat(c, d), e) \in Seq(S)
  BY CatIs
<1>2. Cat(Cat(Cat(a, b), c), d) = Cat(Cat(a, b), Cat(c, d))
  BY <1>1, CatAssociative
<1>3. Cat(Cat(Cat(a, b), Cat(c, d)), e) = Cat(Cat(a, b), Cat(Cat(c, d), e))
  BY <1>1, CatAssociative
<1> QED BY <1>1, <1>2, <1>3

-----------------------------------------------------------------------------
(* References. *)

(* All the words and separators that a reference is written with. *)
Alphabet(ref) ==
    {":", "/"} \cup Range(ref.path) \cup Range(ref.host) \cup Range(ref.port) \cup Range(ref.tag)

(* Host and path, without port and tag. *)
Location(ref) ==
    IF ref.host = NoTag THEN Joined(ref.path) ELSE ref.host \o <<"/">> \o Joined(ref.path)

(* The parts of a reference are texts without separators. *)
LEMMA WordIs ==
  ASSUME NEW text, text = NoTag \/ IsWord(text), NEW S, Range(text) \subseteq S
  PROVE  /\ text \in Seq(S)
         /\ ~Has(text, ":") /\ ~Has(text, "/")
         /\ text # NoTag => Len(text) = 1
<1>1. CASE text = NoTag
  BY <1>1 DEF NoTag, Has, Positions
<1>2. CASE IsWord(text)
  <2>1. text = <<text[1]>> /\ text[1] \notin {":", "/"} /\ Len(text) = 1
    BY <1>2 DEF IsWord
  <2> DEFINE w == text[1]
  <2>2. text = <<w>>
    BY <2>1
  <2> HIDE DEF w
  <2>3. DOMAIN text = 1..1 /\ text[1] = w
    BY <2>2
  <2>4. w \in S
    BY <2>3 DEF Range
  <2>5. text \in Seq(S)
    BY <2>2, <2>4
  <2>6. w \notin {":", "/"}
    BY <2>1, <2>3
  <2> QED BY <2>1, <2>3, <2>5, <2>6 DEF Has, Positions
<1> QED BY <1>1, <1>2

LEMMA PathIs ==
  ASSUME NEW path, IsPath(path), NEW S, Range(path) \subseteq S
  PROVE  /\ path \in Seq(S) /\ path # <<>>
         /\ Len(path) \in Nat \ {0}
         /\ ~Has(path, ":") /\ ~Has(path, "/")
<1>1. path \in Seq(S)
  BY SeqMonotonic DEF IsPath
<1>2. Len(path) \in Nat \ {0}
  BY <1>1, EmptySeq DEF IsPath
<1>3. ~Has(path, ":") /\ ~Has(path, "/")
  BY DEF IsPath, Has, Positions, Range
<1> QED BY <1>1, <1>2, <1>3 DEF IsPath

LEMMA ReferenceIs ==
  ASSUME NEW ref, IsReference(ref), NEW S, Alphabet(ref) \subseteq S
  PROVE  /\ ref.host \in Seq(S) /\ ref.port \in Seq(S) /\ ref.tag \in Seq(S)
         /\ ref.path \in Seq(S) /\ ref.path # <<>> /\ Len(ref.path) \in Nat \ {0}
         /\ Joined(ref.path) \in Seq(S)
         /\ <<>> \in Seq(S) /\ <<":">> \in Seq(S) /\ <<"/">> \in Seq(S)
         /\ ":" \in S /\ "/" \in S
         /\ \A c \in {":", "/"} : ~Has(ref.host, c) /\ ~Has(ref.port, c) /\ ~Has(ref.tag, c)
                                     /\ ~Has(ref.path, c)
         /\ ~Has(Joined(ref.path), ":")
<1>1. ":" \in S /\ "/" \in S /\ Range(ref.path) \subseteq S /\ Range(ref.host) \subseteq S
      /\ Range(ref.port) \subseteq S /\ Range(ref.tag) \subseteq S
  BY DEF Alphabet
<1>2. /\ ref.host \in Seq(S) /\ ref.port \in Seq(S) /\ ref.tag \in Seq(S)
      /\ \A c \in {":", "/"} : ~Has(ref.host, c) /\ ~Has(ref.port, c) /\ ~Has(ref.tag, c)
  BY <1>1, WordIs DEF IsReference
<1>3. /\ ref.path \in Seq(S) /\ ref.path # <<>> /\ Len(ref.path) \in Nat \ {0}
      /\ ~Has(ref.path, ":") /\ ~Has(ref.path, "/")
  BY <1>1, PathIs DEF IsReference
<1>4. Joined(ref.path) \in Seq(S)
  BY <1>1, <1>3, JoinedIsSeq
<1>5. ~Has(Joined(ref.path), ":")
  BY <1>1, <1>3, JoinedHas
<1>6. <<>> \in Seq(S) /\ <<":">> \in Seq(S) /\ <<"/">> \in Seq(S)
  BY <1>1
<1> QED BY <1>1, <1>2, <1>3, <1>4, <1>5, <1>6

LEMMA LocationIs ==
  ASSUME NEW ref, IsReference(ref), NEW S, Alphabet(ref) \subseteq S
  PROVE  Location(ref) \in Seq(S) /\ ~Has(Location(ref), ":")
<1>1. CASE ref.host = NoTag
  BY <1>1, ReferenceIs DEF Location
<1>2. CASE ref.host # NoTag
  <2> DEFINE front == ref.host \o <<"/">>
  <2>1. front \in Seq(S) /\ ~Has(front, ":")
    <3>1. ref.host \in Seq(S) /\ <<"/">> \in Seq(S) /\ ~Has(ref.host, ":") /\ ~Has(<<"/">>, ":")
      <4>1. DOMAIN <<"/">> = 1..1 /\ <<"/">>[1] = "/" /\ "/" # ":"
        OBVIOUS
      <4>2. ~Has(<<"/">>, ":")
        BY <4>1 DEF Has, Positions
      <4>3. ref.host \in Seq(S) /\ <<"/">> \in Seq(S) /\ ~Has(ref.host, ":")
        BY ReferenceIs
      <4> QED BY <4>2, <4>3
    <3>2. front \in Seq(S)
      BY <3>1, ConcatProperties
    <3>3. Has(front, ":") <=> Has(ref.host, ":") \/ Has(<<"/">>, ":")
      <4> DEFINE host == ref.host
                 slash == <<"/">>
      <4>1. host \in Seq(S) /\ slash \in Seq(S)
        BY <3>1
      <4> HIDE DEF host, slash
      <4>2. Has(host \o slash, ":") <=> Has(host, ":") \/ Has(slash, ":")
        BY <4>1, HasConcat
      <4> QED BY <4>2 DEF host, slash
    <3> QED BY <3>1, <3>2, <3>3
  <2> HIDE DEF front
  <2>2. Joined(ref.path) \in Seq(S) /\ ~Has(Joined(ref.path), ":")
    BY ReferenceIs
  <2>3. front \o Joined(ref.path) \in Seq(S) /\ ~Has(front \o Joined(ref.path), ":")
    BY <2>1, <2>2, HasConcat, ConcatProperties
  <2> QED BY <1>2, <2>3 DEF Location, front
<1> QED BY <1>1, <1>2

(* The spelling, with what is after the location. *)
LEMMA WrittenIs ==
  ASSUME NEW ref, IsReference(ref), NEW S, Alphabet(ref) \subseteq S
  PROVE  /\ ref.port = NoTag /\ ref.tag = NoTag => Written(ref) = Location(ref)
         /\ ref.port = NoTag /\ ref.tag # NoTag =>
                Written(ref) = Location(ref) \o <<":">> \o ref.tag
         /\ ref.port # NoTag => \E rest \in Seq(S) : Written(ref) = ref.host \o <<":">> \o rest
<1> DEFINE host == ref.host
           port == ref.port
           slash == <<"/">>
           colon == <<":">>
           path == Joined(ref.path)
           tag == ref.tag
           tail == IF tag = NoTag THEN <<>> ELSE colon \o tag
           middle == IF host = NoTag THEN <<>> ELSE slash
           named == IF port = NoTag THEN <<>> ELSE colon \o port
<1>1. /\ host \in Seq(S) /\ port \in Seq(S) /\ slash \in Seq(S) /\ colon \in Seq(S)
      /\ path \in Seq(S) /\ tag \in Seq(S) /\ <<>> \in Seq(S)
  BY ReferenceIs
<1>2. (IF host = NoTag THEN <<>> ELSE host) = host
  BY DEF NoTag
<1>3. Written(ref) = host \o named \o middle \o path \o tail
  BY <1>2 DEF Written
<1>4. Location(ref) = IF host = NoTag THEN path ELSE host \o slash \o path
  BY DEF Location
<1> HIDE DEF host, port, slash, colon, path, tag
<1>5. tail \in Seq(S) /\ middle \in Seq(S) /\ named \in Seq(S)
  BY <1>1, ConcatProperties
<1>6. ASSUME port = NoTag PROVE host \o named \o middle \o path = Location(ref)
  <2>1. host \o named = host
    BY <1>1, <1>6, ConcatEmptySeq
  <2>2. CASE host = NoTag
    BY <1>1, <1>4, <2>1, <2>2, ConcatEmptySeq DEF NoTag
  <2>3. CASE host # NoTag
    BY <1>4, <2>1, <2>3
  <2> QED BY <2>2, <2>3
<1>7. ASSUME port = NoTag, tag = NoTag PROVE Written(ref) = Location(ref)
  <2>1. Location(ref) \in Seq(S)
    BY LocationIs
  <2> QED BY <1>3, <1>6, <1>7, <2>1, ConcatEmptySeq
<1>8. ASSUME port = NoTag, tag # NoTag PROVE Written(ref) = Location(ref) \o colon \o tag
  <2>1. Location(ref) \in Seq(S)
    BY LocationIs
  <2>2. Written(ref) = Location(ref) \o (colon \o tag)
    BY <1>3, <1>6, <1>8
  <2>3. (Location(ref) \o colon) \o tag = Location(ref) \o (colon \o tag)
    <3> DEFINE location == Location(ref)
    <3>1. location \in Seq(S) /\ colon \in Seq(S) /\ tag \in Seq(S)
      BY <1>1, <2>1
    <3> HIDE DEF location
    <3>2. (location \o colon) \o tag = location \o (colon \o tag)
      BY <3>1, ConcatAssociative
    <3> QED BY <3>2 DEF location
  <2> QED BY <2>2, <2>3
<1>9. ASSUME port # NoTag PROVE \E rest \in Seq(S) : Written(ref) = host \o colon \o rest
  <2> DEFINE r1 == port \o middle
             r2 == r1 \o path
             r3 == r2 \o tail
             r0 == host \o colon
  <2>1. named = colon \o port
    BY <1>9
  <2> HIDE DEF named, middle, tail
  <2>2. r0 \in Seq(S) /\ r1 \in Seq(S)
    BY <1>1, <1>5, ConcatProperties
  <2> HIDE DEF r1
  <2>3. r2 \in Seq(S)
    BY <1>1, <2>2, ConcatProperties
  <2>4. host \o named = r0 \o port
    <3>1. (host \o colon) \o port = host \o (colon \o port)
      <4>1. host \in Seq(S) /\ colon \in Seq(S) /\ port \in Seq(S)
        BY <1>1
      <4> QED BY <4>1, ConcatAssociative
    <3> QED BY <2>1, <3>1
  <2>5. host \o named \o middle = r0 \o r1
    <3>1. r0 \in Seq(S) /\ port \in Seq(S) /\ middle \in Seq(S)
      BY <1>1, <1>5, <2>2
    <3> HIDE DEF r0
    <3>2. (r0 \o port) \o middle = r0 \o (port \o middle)
      BY <3>1, ConcatAssociative
    <3> QED BY <2>4, <3>2 DEF r1
  <2>6. host \o named \o middle \o path = r0 \o r2
    <3>1. r0 \in Seq(S) /\ r1 \in Seq(S) /\ path \in Seq(S)
      BY <1>1, <2>2
    <3> HIDE DEF r0
    <3>2. (r0 \o r1) \o path = r0 \o (r1 \o path)
      BY <3>1, ConcatAssociative
    <3> QED BY <2>5, <3>2 DEF r2
  <2> HIDE DEF r2
  <2>7. r3 \in Seq(S)
    BY <1>5, <2>3, ConcatProperties
  <2>8. Written(ref) = r0 \o r3
    <3>1. r0 \in Seq(S) /\ r2 \in Seq(S) /\ tail \in Seq(S)
      BY <1>5, <2>2, <2>3
    <3> HIDE DEF r0
    <3>2. (r0 \o r2) \o tail = r0 \o (r2 \o tail)
      BY <3>1, ConcatAssociative
    <3> QED BY <1>3, <2>6, <3>2 DEF r3
  <2> QED BY <2>7, <2>8
<1> QED BY <1>7, <1>8, <1>9 DEF host, port, slash, colon, tag

(* Cut at the first ":": the location, or the host alone when it has a      *)
(* port.                                                                    *)
LEMMA BaseIs ==
  ASSUME NEW ref, IsReference(ref)
  PROVE  BeforeFirst(Written(ref), ":") =
             IF ref.port = NoTag THEN Location(ref) ELSE ref.host
<1> DEFINE S == Alphabet(ref)
           location == Location(ref)
           host == ref.host
           tag == ref.tag
           text == Written(ref)
<1>1. /\ location \in Seq(S) /\ ~Has(location, ":")
      /\ host \in Seq(S) /\ ~Has(host, ":") /\ tag \in Seq(S) /\ ":" \in S
  BY LocationIs, ReferenceIs
<1>2. /\ ref.port = NoTag /\ tag = NoTag => text = location
      /\ ref.port = NoTag /\ tag # NoTag => text = location \o <<":">> \o tag
      /\ ref.port # NoTag => \E rest \in Seq(S) : text = host \o <<":">> \o rest
  BY WrittenIs
<1> HIDE DEF S, location, host, tag, text
<1>3. CASE ref.port = NoTag /\ tag = NoTag
  BY <1>1, <1>2, <1>3 DEF BeforeFirst, location, text
<1>4. CASE ref.port = NoTag /\ tag # NoTag
  <2>1. BeforeFirst(location \o <<":">> \o tag, ":") = location
    BY <1>1, CutFirst
  <2> QED BY <1>2, <1>4, <2>1 DEF location, text
<1>5. CASE ref.port # NoTag
  <2>1. PICK rest \in Seq(S) : text = host \o <<":">> \o rest
    BY <1>2, <1>5
  <2>2. BeforeFirst(host \o <<":">> \o rest, ":") = host
    BY <1>1, <2>1, CutFirst
  <2> QED BY <1>5, <2>1, <2>2 DEF host, text
<1> QED BY <1>3, <1>4, <1>5

(* A path of one component has no "/", one of two has one.                  *)
LEMMA FewSlashes ==
  ASSUME NEW S, NEW path \in Seq(S), path # <<>>, Len(path) <= 2, "/" \in S,
         ~Has(path, "/")
  PROVE  Cardinality(Positions(Joined(path), "/")) < 2
<1>1. /\ Joined(path) \in Seq(S) /\ Len(path) \in Nat \ {0}
      /\ DOMAIN Joined(path) = 1..2 * Len(path) - 1 /\ DOMAIN path = 1..Len(path)
      /\ \A i \in 1..2 * Len(path) - 1 :
            Joined(path)[i] = IF i % 2 = 1 THEN path[(i + 1) \div 2] ELSE "/"
  BY JoinedIsSeq, SeqDomain
<1>2. ASSUME NEW i \in Positions(Joined(path), "/") PROVE i = 2
  <2>1. i \in 1..2 * Len(path) - 1 /\ Joined(path)[i] = "/"
    BY <1>1 DEF Positions
  <2>2. i \in 1..3
    BY <1>1, <2>1
  <2>3. ASSUME i % 2 = 1 PROVE FALSE
    <3>1. path[(i + 1) \div 2] = "/" /\ (i + 1) \div 2 \in 1..Len(path)
      BY <1>1, <2>1, <2>3
    <3> QED BY <1>1, <3>1 DEF Has, Positions
  <2> QED BY <2>2, <2>3
<1>3. Positions(Joined(path), "/") \subseteq {2}
  BY <1>2
<1>4. Positions(Joined(path), "/") = {} \/ Positions(Joined(path), "/") = {2}
  BY <1>3
<1>5. Cardinality({}) = 0 /\ Cardinality({2}) = 1
  BY FS_EmptySet, FS_Singleton, Zenon
<1>6. Cardinality(Positions(Joined(path), "/")) \in {0, 1}
  BY <1>4, <1>5
<1> QED BY <1>6

(* Nor does a host in front of a single component make two. *)
LEMMA OneSlash ==
  ASSUME NEW S, NEW host \in Seq(S), NEW path \in Seq(S), "/" \in S,
         ~Has(host, "/"), ~Has(path, "/")
  PROVE  Cardinality(Positions(host \o <<"/">> \o path, "/")) = 1
<1> DEFINE base == host \o <<"/">> \o path
<1>1. /\ base \in Seq(S) /\ Len(base) = Len(host) + 1 + Len(path)
      /\ Len(host) \in Nat /\ Len(path) \in Nat
      /\ \A i \in 1..Len(host) : base[i] = host[i]
      /\ base[Len(host) + 1] = "/"
      /\ \A i \in 1..Len(path) : base[Len(host) + 1 + i] = path[i]
  BY Around DEF base
<1> HIDE DEF base
<1>2. DOMAIN base = 1..Len(base) /\ DOMAIN host = 1..Len(host) /\ DOMAIN path = 1..Len(path)
  BY <1>1, SeqDomain
<1>3. ASSUME NEW i \in Positions(base, "/") PROVE i = Len(host) + 1
  <2>1. i \in 1..Len(host) + 1 + Len(path) /\ base[i] = "/"
    BY <1>1, <1>2 DEF Positions
  <2>2. ASSUME i <= Len(host) PROVE FALSE
    <3>1. i \in DOMAIN host /\ host[i] = "/"
      BY <1>1, <1>2, <2>1, <2>2
    <3> QED BY <3>1 DEF Has, Positions
  <2>3. ASSUME i > Len(host) + 1 PROVE FALSE
    <3> DEFINE j == i - (Len(host) + 1)
    <3>1. j \in 1..Len(path) /\ Len(host) + 1 + j = i
      BY <1>1, <2>1, <2>3
    <3>2. j \in DOMAIN path /\ path[j] = "/"
      BY <1>1, <1>2, <2>1, <3>1
    <3> QED BY <3>2 DEF Has, Positions
  <2> QED BY <1>1, <2>1, <2>2, <2>3
<1>4. Len(host) + 1 \in Positions(base, "/")
  BY <1>1, <1>2 DEF Positions
<1>5. Positions(base, "/") = {Len(host) + 1}
  BY <1>3, <1>4
<1>6. Cardinality({Len(host) + 1}) = 1
  BY FS_Singleton, Zenon
<1> QED BY <1>5, <1>6 DEF base

LEMMA WrittenIsSeq ==
  ASSUME NEW ref, IsReference(ref)
  PROVE  Written(ref) \in Seq(Alphabet(ref))
<1> DEFINE S == Alphabet(ref)
           location == Location(ref)
           host == ref.host
           tag == ref.tag
           colon == <<":">>
<1>1. location \in Seq(S) /\ host \in Seq(S) /\ tag \in Seq(S) /\ colon \in Seq(S)
  BY LocationIs, ReferenceIs
<1>2. /\ ref.port = NoTag /\ tag = NoTag => Written(ref) = location
      /\ ref.port = NoTag /\ tag # NoTag => Written(ref) = location \o colon \o tag
      /\ ref.port # NoTag => \E rest \in Seq(S) : Written(ref) = host \o colon \o rest
  BY WrittenIs
<1> HIDE DEF S, location, host, tag, colon
<1>3. location \o colon \o tag \in Seq(S)
  BY <1>1, ConcatProperties
<1>4. \A rest \in Seq(S) : host \o colon \o rest \in Seq(S)
  BY <1>1, ConcatProperties
<1> QED BY <1>1, <1>2, <1>3, <1>4 DEF S

(* What parseImageBase accepts has a host, and no port. *)
LEMMA ParsedHost ==
  ASSUME NEW ref, IsReference(ref), ref.host # NoTag \/ Len(ref.path) <= 2,
         parseImageBase(Written(ref)).valid
  PROVE  ref.host # NoTag /\ ref.port = NoTag
<1> DEFINE S == Alphabet(ref)
           host == ref.host
           path == ref.path
           base == BeforeFirst(Written(ref), ":")
<1>1. /\ host \in Seq(S) /\ path \in Seq(S) /\ path # <<>> /\ "/" \in S
      /\ ~Has(host, "/") /\ ~Has(path, "/")
  BY ReferenceIs
<1>2. base = IF ref.port = NoTag THEN Location(ref) ELSE host
  BY BaseIs
<1>3. ~(Cardinality(Positions(base, "/")) < 2)
  BY DEF parseImageBase, Invalid
<1>4. host = NoTag => Location(ref) = Joined(path)
  BY DEF Location
<1> HIDE DEF S, host, path, base
<1>5. ref.port = NoTag
  <2> SUFFICES ASSUME ref.port # NoTag PROVE FALSE
    OBVIOUS
  <2>1. Positions(base, "/") = {}
    BY <1>1, <1>2 DEF Has
  <2>2. Cardinality(Positions(base, "/")) = 0
    BY <2>1, FS_EmptySet
  <2> QED BY <1>3, <2>2
<1>6. host # NoTag
  <2> SUFFICES ASSUME host = NoTag PROVE FALSE
    OBVIOUS
  <2>1. Len(path) <= 2
    BY DEF host, path
  <2>2. Cardinality(Positions(Joined(path), "/")) < 2
    BY <1>1, <2>1, FewSlashes
  <2> QED BY <1>2, <1>3, <1>4, <1>5, <2>2
<1> QED BY <1>5, <1>6 DEF host

(* parseImageBase either rejects what was written or finds the owner and    *)
(* the package that were meant.  Without a host it takes the first          *)
(* component for one, which shows from three components on.                 *)
THEOREM ParsedAsMeant ==
  ASSUME NEW ref, IsReference(ref), ref.host # NoTag \/ Len(ref.path) <= 2,
         parseImageBase(Written(ref)).valid
  PROVE  parseImageBase(Written(ref)) = PackageOf(ref)
<1> DEFINE S == Alphabet(ref)
           host == ref.host
           path == ref.path
           base == BeforeFirst(Written(ref), ":")
           rest == AfterFirst(base, "/")
<1>1. /\ host \in Seq(S) /\ path \in Seq(S) /\ path # <<>> /\ Len(path) \in Nat \ {0}
      /\ Joined(path) \in Seq(S) /\ "/" \in S
      /\ ~Has(host, "/") /\ ~Has(path, "/")
  BY ReferenceIs
<1>2. base = IF ref.port = NoTag THEN Location(ref) ELSE host
  BY BaseIs
<1>3. ~(Cardinality(Positions(base, "/")) < 2)
  BY DEF parseImageBase, Invalid
<1>4. parseImageBase(Written(ref)) =
          [valid |-> TRUE, owner |-> BeforeFirst(rest, "/"), package |-> AfterFirst(rest, "/")]
  BY <1>3 DEF parseImageBase
<1>5. Location(ref) = IF host = NoTag THEN Joined(path) ELSE host \o <<"/">> \o Joined(path)
  BY DEF Location
<1> HIDE DEF S, host, path, base, rest
<1>6. Cardinality({}) = 0 /\ \A i : Cardinality({i}) = 1
  BY FS_EmptySet, FS_Singleton, Zenon
<1>7. ref.port = NoTag /\ host # NoTag
  BY ParsedHost DEF host
<1>8. base = host \o <<"/">> \o Joined(path)
  BY <1>2, <1>5, <1>7
<1>9. rest = Joined(path)
  <2>1. AfterFirst(host \o <<"/">> \o Joined(path), "/") = Joined(path)
    <3> DEFINE p == Joined(path)
    <3>1. p \in Seq(S)
      BY <1>1
    <3> HIDE DEF p
    <3>2. AfterFirst(host \o <<"/">> \o p, "/") = p
      BY <1>1, <3>1, CutFirst
    <3> QED BY <3>2 DEF p
  <2> QED BY <1>8, <2>1 DEF rest
<1>10. Len(path) > 1
  <2>0. Len(path) \in Nat \ {0}
    BY <1>1
  <2> SUFFICES ASSUME Len(path) = 1 PROVE FALSE
    BY <2>0
  <2>1. Joined(path) = path
    BY <1>1, JoinedOne
  <2>2. Cardinality(Positions(host \o <<"/">> \o path, "/")) = 1
    BY <1>1, OneSlash
  <2> QED BY <1>3, <1>8, <2>1, <2>2
<1>11. BeforeFirst(rest, "/") = <<path[1]>> /\ AfterFirst(rest, "/") = Joined(Tail(path))
  <2> DEFINE owner == <<path[1]>>
             package == Joined(Tail(path))
  <2>1. rest = owner \o <<"/">> \o package
    BY <1>1, <1>9, <1>10, JoinedMore
  <2>2. package \in Seq(S)
    <3>1. Tail(path) \in Seq(S) /\ Len(Tail(path)) = Len(path) - 1
      BY <1>1, HeadTailProperties
    <3>2. Tail(path) # <<>>
      <4>1. Len(Tail(path)) # 0
        <5>1. Len(path) \in Nat /\ Len(path) > 1
          BY <1>1, <1>10
        <5> QED BY <3>1, <5>1
      <4> QED BY <3>1, <4>1, EmptySeq
    <3> QED BY <1>1, <3>1, <3>2, JoinedIsSeq
  <2>3. DOMAIN path = 1..Len(path) /\ path[1] \in S
    BY <1>1, SeqDomain
  <2>4. owner \in Seq(S) /\ DOMAIN owner = 1..1 /\ owner[1] = path[1]
    BY <2>3
  <2>5. path[1] # "/"
    BY <1>1, <2>3 DEF Has, Positions
  <2>6. ~Has(owner, "/")
    BY <2>4, <2>5 DEF Has, Positions
  <2> HIDE DEF owner, package
  <2>7. BeforeFirst(owner \o <<"/">> \o package, "/") = owner
        /\ AfterFirst(owner \o <<"/">> \o package, "/") = package
    BY <1>1, <2>2, <2>4, <2>6, CutFirst
  <2> QED BY <2>1, <2>7 DEF owner, package
<1> QED BY <1>4, <1>11 DEF PackageOf, path

-----------------------------------------------------------------------------
(* Pulling by a reference. *)

(* What can follow the last ":". *)
IsTag(tag) == tag \in Seq(Range(tag)) /\ ~Has(tag, ":")

LEMMA WordIsTag ==
  ASSUME NEW tag, IsWord(tag)
  PROVE  IsTag(tag) /\ ~Has(tag, "/")
<1>1. tag \in Seq(Range(tag)) /\ ~Has(tag, ":") /\ ~Has(tag, "/")
  BY WordIs
<1> QED BY <1>1 DEF IsTag

LEMMA LatestTagIs == IsWord(LatestTag)
BY DEF IsWord, LatestTag

(* A tag taken from the URL has no ":", and no "/" unless there is a port.  *)
LEMMA UrlTagIs ==
  ASSUME NEW url, IsReference(url),
         NEW tag \in {PinnedTag(Written(url)), Identifier(Written(url)), ArtifactoryTag(Written(url))},
         tag # NoTag
  PROVE  IsTag(tag) /\ (url.port = NoTag => ~Has(tag, "/"))
<1> DEFINE S == Alphabet(url)
           text == Written(url)
           last == AfterLast(text, ":")
<1>1. Has(text, ":") => IsTag(last)
  <2> SUFFICES ASSUME Has(text, ":") PROVE IsTag(last)
    OBVIOUS
  <2>1. text \in Seq(S)
    BY WrittenIsSeq
  <2> HIDE DEF text, S
  <2>2. last \in Seq(S) /\ ~Has(last, ":")
    BY <2>1, AfterLastIs
  <2> HIDE DEF last
  <2> QED BY <2>2, SeqOfRange DEF IsTag
<1>2. ASSUME url.port = NoTag, Has(text, ":") PROVE ~Has(last, "/")
  <2> DEFINE location == Location(url)
             own == url.tag
  <2>1. location \in Seq(S) /\ ~Has(location, ":") /\ own \in Seq(S) /\ ":" \in S
        /\ ~Has(own, ":") /\ ~Has(own, "/")
    BY LocationIs, ReferenceIs
  <2>2. own # NoTag /\ text = location \o <<":">> \o own
    BY <1>2, <2>1, WrittenIs
  <2> HIDE DEF location, own, S
  <2>3. AfterLast(location \o <<":">> \o own, ":") = own
    BY <2>1, CutLast
  <2> QED BY <2>1, <2>2, <2>3
<1>3. tag = LatestTag \/ (Has(text, ":") /\ tag = last)
  BY DEF PinnedTag, Identifier, ArtifactoryTag
<1>4. IsTag(LatestTag) /\ ~Has(LatestTag, "/")
  BY LatestTagIs, WordIsTag
<1> QED BY <1>1, <1>2, <1>3, <1>4

(* The reference to pull, and what the two clients ask for under it. *)
LEMMA PullReferenceIs ==
  ASSUME NEW url, IsReference(url), NEW tag, IsTag(tag)
  PROVE  LET base == IF url.port = NoTag THEN Location(url) ELSE url.host
             S == Alphabet(url) \cup Range(tag)
         IN  /\ base \in Seq(S) /\ tag \in Seq(S) /\ <<":">> \in Seq(S) /\ ":" \in S /\ "/" \in S
             /\ ~Has(base, ":") /\ ~Has(tag, ":")
             /\ PullReference(Written(url), tag) = base \o <<":">> \o tag
             /\ ReferenceTag(PullReference(Written(url), tag)) = tag
<1> DEFINE base == IF url.port = NoTag THEN Location(url) ELSE url.host
           S == Alphabet(url) \cup Range(tag)
<1>1. base \in Seq(S) /\ ~Has(base, ":") /\ <<":">> \in Seq(S) /\ ":" \in S /\ "/" \in S
  <2>1. Alphabet(url) \subseteq S
    OBVIOUS
  <2> HIDE DEF S
  <2> QED BY <2>1, LocationIs, ReferenceIs
<1>2. tag \in Seq(S) /\ ~Has(tag, ":")
  <2>1. tag \in Seq(Range(tag)) /\ Range(tag) \subseteq S
    BY DEF IsTag
  <2> HIDE DEF S
  <2> QED BY <2>1, SeqMonotonic DEF IsTag
<1>3. PullReference(Written(url), tag) = base \o <<":">> \o tag
  BY BaseIs DEF PullReference
<1> HIDE DEF base, S
<1>4. AfterLast(base \o <<":">> \o tag, ":") = tag
  BY <1>1, <1>2, CutLast
<1>5. ReferenceTag(PullReference(Written(url), tag)) = tag
  BY <1>3, <1>4 DEF ReferenceTag
<1> QED BY <1>1, <1>2, <1>3, <1>5 DEF base, S

(* Of a reference with host and without port, all is as it was meant. *)
LEMMA HostAndPath ==
  ASSUME NEW url, IsReference(url), url.host # NoTag, url.port = NoTag,
         NEW S, Alphabet(url) \subseteq S
  PROVE  /\ RepositoryOf(url) = [valid |-> TRUE, host |-> url.host, path |-> Joined(url.path)]
         /\ Has(Location(url), "/")
         /\ BeforeFirst(Location(url), "/") = url.host
         /\ AfterFirst(Location(url), "/") = Joined(url.path)
<1> DEFINE host == url.host
           path == Joined(url.path)
<1>1. host \in Seq(S) /\ path \in Seq(S) /\ "/" \in S /\ ~Has(host, "/")
  BY ReferenceIs
<1>2. Location(url) = host \o <<"/">> \o path
  BY DEF Location
<1>3. RepositoryOf(url) = [valid |-> TRUE, host |-> host \o <<>>, path |-> path]
  BY DEF RepositoryOf
<1> HIDE DEF host, path
<1>4. host \o <<>> = host
  BY <1>1, ConcatEmptySeq
<1>5. /\ Has(host \o <<"/">> \o path, "/")
      /\ BeforeFirst(host \o <<"/">> \o path, "/") = host
      /\ AfterFirst(host \o <<"/">> \o path, "/") = path
  BY <1>1, CutFirst
<1> QED BY <1>2, <1>3, <1>4, <1>5 DEF host, path

LEMMA ParsedRepository ==
  ASSUME NEW url, IsReference(url), url.host # NoTag, url.port = NoTag,
         NEW tag, IsTag(tag), ~Has(tag, "/")
  PROVE  ParseReference(PullReference(Written(url), tag)) = RepositoryOf(url)
<1> DEFINE S == Alphabet(url) \cup Range(tag)
           location == Location(url)
           ref == PullReference(Written(url), tag)
           text == location \o <<":">> \o tag
<1>1. /\ location \in Seq(S) /\ tag \in Seq(S) /\ ":" \in S /\ ~Has(tag, ":")
      /\ ref = text
  BY PullReferenceIs
<1>2. /\ RepositoryOf(url) = [valid |-> TRUE, host |-> url.host, path |-> Joined(url.path)]
      /\ Has(location, "/") /\ BeforeFirst(location, "/") = url.host
      /\ AfterFirst(location, "/") = Joined(url.path)
  BY HostAndPath
<1>3. url.host[1] \in Hosts
  BY DEF IsReference
<1> HIDE DEF S, location, ref
<1>4. Has(text, ":") /\ BeforeLast(text, ":") = location /\ AfterLast(text, ":") = tag
  BY <1>1, CutLast
<1> HIDE DEF text
<1>5. ParseReference(text) = [valid |-> TRUE, host |-> url.host, path |-> Joined(url.path)]
  BY <1>2, <1>3, <1>4 DEF ParseReference
<1> QED BY <1>1, <1>2, <1>5 DEF ref

(* The first component of a path, and the spelling of the others. *)
LEMMA FirstAndOthers ==
  ASSUME NEW S, NEW path \in Seq(S), Len(path) > 1, "/" \in S, ~Has(path, "/")
  PROVE  /\ <<path[1]>> \in Seq(S) /\ ~Has(<<path[1]>>, "/")
         /\ Joined(Tail(path)) \in Seq(S)
         /\ \A c : c # "/" /\ ~Has(path, c) => ~Has(Joined(Tail(path)), c)
<1> DEFINE owner == <<path[1]>>
           tail == Tail(path)
<1>1. Len(path) \in Nat /\ DOMAIN path = 1..Len(path) /\ path[1] \in S
  BY SeqDomain
<1>2. owner \in Seq(S) /\ DOMAIN owner = 1..1 /\ owner[1] = path[1]
  BY <1>1
<1>3. path[1] # "/"
  BY <1>1 DEF Has, Positions
<1>4. ~Has(owner, "/")
  BY <1>2, <1>3 DEF Has, Positions
<1>5. path # <<>>
  BY EmptySeq
<1>6. /\ tail \in Seq(S) /\ Len(tail) = Len(path) - 1
      /\ \A i \in 1..Len(tail) : tail[i] = path[i + 1]
  BY <1>5, HeadTailProperties
<1> HIDE DEF tail, owner
<1>7. tail # <<>>
  <2>1. Len(tail) # 0
    BY <1>1, <1>6
  <2> QED BY <1>6, <2>1, EmptySeq
<1>8. Joined(tail) \in Seq(S)
  BY <1>6, <1>7, JoinedIsSeq
<1>9. ASSUME NEW c, c # "/", ~Has(path, c) PROVE ~Has(Joined(tail), c)
  <2>1. DOMAIN tail = 1..Len(tail)
    BY <1>6, SeqDomain
  <2>2. \A i \in 1..Len(tail) : i + 1 \in DOMAIN path
    BY <1>1, <1>6
  <2>3. ~Has(tail, c)
    BY <1>6, <1>9, <2>1, <2>2 DEF Has, Positions
  <2> QED BY <1>6, <1>7, <1>9, <2>3, JoinedHas
<1> QED BY <1>2, <1>4, <1>8, <1>9 DEF owner, tail

(* ORAS: the repository that is meant, none, or one of a registry without   *)
(* dot.                                                                     *)
LEMMA OrasRepository ==
  ASSUME NEW url, IsReference(url), NEW tag, IsTag(tag),
         url.port = NoTag => ~Has(tag, "/"),
         NEW repository, repository = OrasReference(PullReference(Written(url), tag))
  PROVE  \/ repository = RepositoryOf(url)
         \/ repository = Invalid
         \/ repository.host[1] \notin Hosts
<1> DEFINE S == Alphabet(url) \cup Range(tag)
           location == Location(url)
           ref == PullReference(Written(url), tag)
           path == Joined(url.path)
           colon == <<":">>
           slash == <<"/">>
<1>1. /\ tag \in Seq(S) /\ colon \in Seq(S) /\ slash \in Seq(S) /\ ":" \in S /\ "/" \in S
      /\ path \in Seq(S) /\ url.host \in Seq(S) /\ url.path \in Seq(S)
      /\ ~Has(tag, ":") /\ ~Has(path, ":")
      /\ ~Has(url.host, "/") /\ ~Has(url.path, "/") /\ Len(url.path) \in Nat \ {0}
      /\ ReferenceTag(ref) = tag
      /\ ref = (IF url.port = NoTag THEN location ELSE url.host) \o colon \o tag
  <2>1. Alphabet(url) \subseteq S
    OBVIOUS
  <2> QED BY <2>1, PullReferenceIs, ReferenceIs
<1>2. ~Has(colon, "/")
  <2>1. DOMAIN colon = 1..1 /\ colon[1] = ":"
    OBVIOUS
  <2> HIDE DEF colon
  <2> QED BY <2>1 DEF Has, Positions
<1>3. /\ url.host = NoTag => location = path
      /\ url.host # NoTag => location = url.host \o slash \o path
      /\ url.host = NoTag => url.port = NoTag
      /\ url.host = NoTag /\ Len(url.path) > 1 => url.path[1] \notin Hosts
  BY DEF Location, IsReference
<1>4. url.host # NoTag /\ url.port = NoTag =>
          RepositoryOf(url) = [valid |-> TRUE, host |-> url.host, path |-> path]
  BY HostAndPath
<1>5. repository = OrasReference(ref)
  OBVIOUS
<1> HIDE DEF S, location, ref, path, colon, slash

(* A reference whose part before the first "/" is a, and after it b : tag. *)
<1>6. ASSUME NEW a \in Seq(S), NEW b \in Seq(S), ~Has(a, "/"), ~Has(b, ":"), ~Has(tag, "/"),
             ref = a \o slash \o b \o colon \o tag
      PROVE  repository = [valid |-> TRUE, host |-> a, path |-> b]
  <2> DEFINE rest == b \o colon \o tag
             text == a \o <<"/">> \o rest
  <2>1. slash \in Seq(S) /\ colon \in Seq(S) /\ tag \in Seq(S)
    BY <1>1
  <2>2. rest \in Seq(S) /\ a \o slash \o b \o colon \o tag = a \o slash \o rest
    <3>1. /\ Cat(Cat(Cat(Cat(a, slash), b), colon), tag)
                 = Cat(Cat(a, slash), Cat(Cat(b, colon), tag))
          /\ Cat(Cat(b, colon), tag) \in Seq(S)
      BY <2>1, Regroup
    <3> QED BY <3>1, Zenon DEF Cat
  <2>3. ref = text
    BY <1>6, <2>2 DEF slash
  <2>4. Has(text, "/") /\ BeforeFirst(text, "/") = a /\ AfterFirst(text, "/") = rest
    <3> HIDE DEF rest
    <3> QED BY <1>1, <1>6, <2>2, CutFirst
  <2>5. BeforeFirst(rest, ":") = b
    BY <1>1, <1>6, CutFirst DEF colon
  <2> HIDE DEF text, rest
  <2> QED BY <1>1, <1>5, <1>6, <2>3, <2>4, <2>5 DEF OrasReference

<1>7. CASE url.port # NoTag
  <2>1. ref = url.host \o colon \o tag
    BY <1>1, <1>7
  <2>2. Has(ref, "/") => Has(tag, "/")
    <3> DEFINE host == url.host
               front == host \o colon
    <3>1. host \in Seq(S) /\ ~Has(host, "/")
      BY <1>1
    <3> HIDE DEF host
    <3>2. front \in Seq(S) /\ ~Has(front, "/")
      BY <1>1, <1>2, <3>1, HasConcat, ConcatProperties
    <3> HIDE DEF front
    <3>3. Has(front \o tag, "/") <=> Has(front, "/") \/ Has(tag, "/")
      BY <1>1, <3>2, HasConcat
    <3> QED BY <2>1, <3>2, <3>3 DEF front, host
  <2> QED BY <1>1, <1>5, <2>2 DEF OrasReference
<1>8. CASE url.port = NoTag /\ url.host # NoTag
  <2>1. ref = url.host \o slash \o path \o colon \o tag
    BY <1>1, <1>3, <1>8
  <2> DEFINE host == url.host
  <2>2. host \in Seq(S) /\ ~Has(host, "/") /\ ref = host \o slash \o path \o colon \o tag
    BY <1>1, <2>1
  <2> HIDE DEF host
  <2>3. repository = [valid |-> TRUE, host |-> host, path |-> path]
    BY <1>1, <1>6, <1>8, <2>2
  <2> QED BY <1>4, <1>8, <2>3 DEF host
<1>9. CASE url.host = NoTag /\ Len(url.path) = 1
  <2>1. path = url.path
    BY <1>1, <1>9, JoinedOne DEF path
  <2>2. ref = path \o colon \o tag
    BY <1>1, <1>3, <1>9
  <2> DEFINE front == path \o colon
  <2>3. front \in Seq(S) /\ ~Has(front, "/")
    BY <1>1, <1>2, <2>1, HasConcat, ConcatProperties
  <2> HIDE DEF front
  <2>4. Has(front \o tag, "/") <=> Has(front, "/") \/ Has(tag, "/")
    BY <1>1, <2>3, HasConcat
  <2>5. ~Has(ref, "/")
    BY <1>3, <1>9, <2>2, <2>3, <2>4 DEF front
  <2> QED BY <1>5, <2>5 DEF OrasReference
<1>10. CASE url.host = NoTag /\ Len(url.path) > 1
  <2> DEFINE first == <<url.path[1]>>
             others == Joined(Tail(url.path))
  <2>1. path = first \o slash \o others
    BY <1>1, <1>10, JoinedMore DEF path, slash
  <2>2. first \in Seq(S) /\ ~Has(first, "/") /\ first[1] = url.path[1]
        /\ others \in Seq(S) /\ ~Has(others, ":")
    BY <1>1, <1>10, FirstAndOthers, ReferenceIs
  <2>3. ref = path \o colon \o tag
    BY <1>1, <1>3, <1>10
  <2> HIDE DEF first, others
  <2>4. repository = [valid |-> TRUE, host |-> first, path |-> others]
    BY <1>1, <1>3, <1>6, <1>10, <2>1, <2>2, <2>3
  <2> QED BY <1>3, <1>10, <2>2, <2>4
<1>11. Len(url.path) = 1 \/ Len(url.path) > 1
  <2> DEFINE n == Len(url.path)
  <2>1. n \in Nat \ {0}
    BY <1>1
  <2> HIDE DEF n
  <2>2. n = 1 \/ n > 1
    BY <2>1
  <2> QED BY <2>2 DEF n
<1> QED BY <1>3, <1>7, <1>8, <1>9, <1>10, <1>11
=============================================================================
