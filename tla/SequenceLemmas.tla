--------------------------- MODULE SequenceLemmas ---------------------------
(***************************************************************************)
(* What the proofs need to know of a sequence from which an element is     *)
(* taken, as both the query pool and the lanes of the runtime do.          *)
(***************************************************************************)
EXTENDS Integers, Sequences, SequencesExt, SequenceTheorems, TLAPS

\* What remains of a sequence from which the i-th element is taken.
LEMMA RemoveAtRemains ==
  ASSUME NEW S, NEW s \in Seq(S), NEW i \in DOMAIN s
  PROVE  /\ RemoveAt(s, i) \in Seq(S)
         /\ DOMAIN RemoveAt(s, i) = 1 .. Len(s) - 1
         /\ \A k \in 1 .. Len(s) - 1 : RemoveAt(s, i)[k] = s[IF k < i THEN k ELSE k + 1]
<1>. DEFINE a == SubSeq(s, 1, i - 1)
            b == SubSeq(s, i + 1, Len(s))
<1>0. i \in 1 .. Len(s) /\ Len(s) \in Nat /\ \A k \in 1 .. Len(s) : s[k] \in S
  BY LenProperties
<1>1. a \in Seq(S) /\ Len(a) = i - 1 /\ \A k \in 1 .. i - 1 : a[k] = s[k]
  <2>1. \A k \in 1 .. i - 1 : s[k] \in S
    BY <1>0
  <2>. QED
    BY <1>0, <2>1, SubSeqProperties
<1>2. b \in Seq(S) /\ Len(b) = Len(s) - i /\ \A k \in 1 .. Len(s) - i : b[k] = s[i + k]
  <2>1. \A k \in i + 1 .. Len(s) : s[k] \in S
    BY <1>0
  <2>. QED
    BY <1>0, <2>1, SubSeqProperties
<1>3. RemoveAt(s, i) = a \o b
  BY DEF RemoveAt
<1>. HIDE DEF a, b
<1>4. /\ a \o b \in Seq(S)
      /\ Len(a \o b) = Len(a) + Len(b)
      /\ \A k \in 1 .. Len(a) + Len(b) : (a \o b)[k] =
           IF k <= Len(a) THEN a[k] ELSE b[k - Len(a)]
  BY <1>1, <1>2, ConcatProperties
<1>5. ASSUME NEW k \in 1 .. Len(s) - 1
      PROVE  (a \o b)[k] = s[IF k < i THEN k ELSE k + 1]
  <2>1. k \in Int /\ i \in Int /\ Len(s) \in Int /\ k \in 1 .. Len(a) + Len(b)
    BY <1>0, <1>1, <1>2
  <2>2. CASE k < i
    <3>1. k \in 1 .. i - 1 /\ k <= Len(a)
      BY <2>1, <2>2, <1>1
    <3>. QED
      BY <2>1, <2>2, <3>1, <1>1, <1>4
  <2>3. CASE ~(k < i)
    <3>1. k - Len(a) \in 1 .. Len(s) - i /\ ~(k <= Len(a)) /\ i + (k - Len(a)) = k + 1
      BY <2>1, <2>3, <1>0, <1>1
    <3>2. (a \o b)[k] = b[k - Len(a)]
      BY <2>1, <3>1, <1>4
    <3>3. b[k - Len(a)] = s[i + (k - Len(a))]
      BY <3>1, <1>2
    <3>. QED
      BY <2>3, <3>1, <3>2, <3>3
  <2>. QED
    BY <2>2, <2>3
<1>6. DOMAIN (a \o b) = 1 .. Len(s) - 1
  BY <1>0, <1>1, <1>2, <1>4, LenProperties
<1>. QED
  BY <1>3, <1>4, <1>5, <1>6

\* Nothing new comes into a sequence by it.
LEMMA RemoveAtSubset ==
  ASSUME NEW S, NEW s \in Seq(S), NEW i \in DOMAIN s
  PROVE  \A k \in DOMAIN RemoveAt(s, i) : \E j \in DOMAIN s : RemoveAt(s, i)[k] = s[j]
<1>1. Len(s) \in Nat /\ DOMAIN s = 1 .. Len(s)
  BY LenProperties
<1>. SUFFICES ASSUME NEW k \in DOMAIN RemoveAt(s, i)
              PROVE  \E j \in DOMAIN s : RemoveAt(s, i)[k] = s[j]
  OBVIOUS
<1>2. /\ k \in 1 .. Len(s) - 1
      /\ RemoveAt(s, i)[k] = s[IF k < i THEN k ELSE k + 1]
  BY RemoveAtRemains
<1>3. (IF k < i THEN k ELSE k + 1) \in DOMAIN s
  BY <1>1, <1>2
<1>. QED
  BY <1>2, <1>3

\* A sequence without repetitions stays so, and no longer has the element.
LEMMA RemoveAtDistinct ==
  ASSUME NEW S, NEW s \in Seq(S), NEW i \in DOMAIN s,
         \A k, l \in DOMAIN s : s[k] = s[l] => k = l
  PROVE  /\ \A k, l \in DOMAIN RemoveAt(s, i) : RemoveAt(s, i)[k] = RemoveAt(s, i)[l] => k = l
         /\ \A k \in DOMAIN RemoveAt(s, i) : RemoveAt(s, i)[k] # s[i]
         /\ \A j \in DOMAIN s \ {i} : \E k \in DOMAIN RemoveAt(s, i) : RemoveAt(s, i)[k] = s[j]
<1>. DEFINE at(n) == IF n < i THEN n ELSE n + 1
            r     == RemoveAt(s, i)
<1>1. Len(s) \in Nat /\ DOMAIN s = 1 .. Len(s) /\ i \in 1 .. Len(s)
  BY LenProperties
<1>2. /\ DOMAIN r = 1 .. Len(s) - 1
      /\ \A k \in 1 .. Len(s) - 1 : r[k] = s[at(k)] /\ at(k) \in DOMAIN s /\ at(k) # i
  BY <1>1, RemoveAtRemains
<1>. HIDE DEF r
<1>3. ASSUME NEW k \in DOMAIN r, NEW l \in DOMAIN r, r[k] = r[l]
      PROVE  k = l
  <2>1. at(k) = at(l)
    BY <1>2, <1>3
  <2>. QED
    BY <1>1, <1>2, <2>1
<1>4. \A k \in DOMAIN r : r[k] # s[i]
  BY <1>1, <1>2
<1>5. ASSUME NEW j \in DOMAIN s \ {i}
      PROVE  \E k \in DOMAIN r : r[k] = s[j]
  <2>. DEFINE k == IF j < i THEN j ELSE j - 1
  <2>1. k \in 1 .. Len(s) - 1 /\ at(k) = j
    BY <1>1
  <2>2. r[k] = s[j]
    BY <1>2, <2>1
  <2>. QED
    BY <1>2, <2>1, <2>2
<1>. QED
  BY <1>3, <1>4, <1>5 DEF r

\* What remains keeps its order.
LEMMA RemoveAtOrder ==
  ASSUME NEW S, NEW s \in Seq(S), NEW i \in DOMAIN s,
         NEW k \in DOMAIN RemoveAt(s, i), NEW l \in DOMAIN RemoveAt(s, i), k < l
  PROVE  \E m, n \in DOMAIN s :
           m < n /\ RemoveAt(s, i)[k] = s[m] /\ RemoveAt(s, i)[l] = s[n]
<1>. DEFINE at(n) == IF n < i THEN n ELSE n + 1
            r     == RemoveAt(s, i)
<1>1. Len(s) \in Nat /\ DOMAIN s = 1 .. Len(s) /\ i \in 1 .. Len(s)
  BY LenProperties
<1>2. /\ DOMAIN r = 1 .. Len(s) - 1
      /\ \A n \in 1 .. Len(s) - 1 : r[n] = s[at(n)]
  BY RemoveAtRemains
<1>3. k \in 1 .. Len(s) - 1 /\ l \in 1 .. Len(s) - 1
  BY <1>2
<1>4. at(k) \in DOMAIN s /\ at(l) \in DOMAIN s /\ at(k) < at(l)
  BY <1>1, <1>3
<1>. QED
  BY <1>2, <1>3, <1>4
=============================================================================
