----------------------------- MODULE CommonLemmas -----------------------------
(***************************************************************************)
(* Facts about numbers and sequences that the proofs of several components *)
(* rest on.                                                                *)
(***************************************************************************)
EXTENDS FiniteSetTheorems, SequenceTheorems, TLAPS

(* A set of numbers that is not empty has a least one. *)
LEMMA LeastNumber ==
  ASSUME NEW T \in SUBSET Nat, T # {}
  PROVE  \E n \in T : \A m \in T : n <= m
<1> DEFINE R == {ss \in Nat \X Nat : ss[1] < ss[2]}
<1>1. IsWellFoundedOn(R, Nat)
  BY NatLessThanWellFounded DEF OpToRel
<1>2. \E x \in T : \A y \in T : ~(<<y, x>> \in R)
  <2> HIDE DEF R
  <2> QED BY <1>1, WFMin
<1>3. PICK n \in T : \A y \in T : <<y, n>> \notin R
  BY <1>2
<1>4. \A m \in T : ~(m < n)
  BY <1>3
<1> QED BY <1>4

(* A chain of steps can be followed from where it starts. *)
Follows(f, n, S, start, F) ==
  /\ f \in [0 .. n -> S] /\ f[0] = start
  /\ \A c \in 1 .. n : f[c] = F[c][f[c - 1]]

LEMMA Iteration ==
  ASSUME NEW n \in Nat, NEW S, NEW start \in S, NEW F \in [1 .. n -> [S -> S]]
  PROVE  \E f : Follows(f, n, S, start, F)
<1> DEFINE Chain(m, f) == /\ f \in [0 .. m -> S] /\ f[0] = start
                          /\ \A c \in 1 .. m : f[c] = F[c][f[c - 1]]
           bad == {m \in 0 .. n : ~\E f : Chain(m, f)}
<1>1. CASE bad = {}
  <2>1. \E f : Chain(n, f)
    <3> HIDE DEF Chain
    <3>1. n \in 0 .. n /\ n \notin bad
      <4> HIDE DEF bad
      <4> QED BY <1>1
    <3> QED BY <3>1
  <2>2. PICK f : Chain(n, f)
    BY <2>1
  <2> QED BY <2>2 DEF Follows
<1>2. CASE bad # {}
  <2>1. PICK m \in bad : \A k \in bad : m <= k
    <3>1. bad \in SUBSET Nat
      OBVIOUS
    <3> HIDE DEF bad
    <3> QED BY <1>2, <3>1, LeastNumber
  <2>2. m \in 0 .. n /\ ~\E f : Chain(m, f)
    OBVIOUS
  <2>3. m # 0
    <3> DEFINE f == [c \in 0 .. 0 |-> start]
    <3>1. Chain(0, f)
      OBVIOUS
    <3> QED BY <2>2, <3>1
  <2>4. m - 1 \in 0 .. n /\ m - 1 \notin bad
    <3>1. m - 1 \in 0 .. n /\ ~(m <= m - 1)
      BY <2>2, <2>3
    <3> HIDE DEF bad
    <3> QED BY <2>1, <3>1
  <2>5. PICK f : Chain(m - 1, f)
    <3> HIDE DEF Chain
    <3> QED BY <2>4
  <2> DEFINE g == [c \in 0 .. m |-> IF c = m THEN F[m][f[m - 1]] ELSE f[c]]
  <2>6. F[m][f[m - 1]] \in S
    <3>1. f[m - 1] \in S /\ m \in 1 .. n
      BY <2>2, <2>3, <2>5
    <3> QED BY <3>1
  <2>7. g \in [0 .. m -> S] /\ g[0] = start
    BY <2>2, <2>3, <2>5, <2>6
  <2>8. ASSUME NEW c \in 1 .. m PROVE g[c] = F[c][g[c - 1]]
    <3>1. CASE c = m
      <4>1. g[c] = F[m][f[m - 1]] /\ g[c - 1] = f[m - 1]
        BY <2>2, <2>3, <3>1
      <4> QED BY <3>1, <4>1
    <3>2. CASE c # m
      <4>1. c \in 1 .. m - 1 /\ g[c] = f[c] /\ g[c - 1] = f[c - 1]
        BY <2>2, <2>3, <3>2
      <4> QED BY <2>5, <4>1
    <3> QED BY <3>1, <3>2
  <2>9. Chain(m, g)
    BY <2>7, <2>8
  <2> QED BY <2>2, <2>9
<1> QED BY <1>1, <1>2

(* A set of numbers with a bound, when it is not empty, has a greatest one. *)
LEMMA Greatest ==
  ASSUME NEW n \in Nat, NEW S \in SUBSET (0 .. n), S # {}
  PROVE  \E i \in S : \A j \in S : j <= i
<1> DEFINE less == OpToRel(<, Nat)
           dist == {d \in Nat : n - d \in S}
<1>1. dist # {}
  <2>1. PICK i \in S : TRUE
    OBVIOUS
  <2>2. n - i \in Nat /\ n - (n - i) = i
    BY <2>1
  <2> QED BY <2>1, <2>2
<1>2. dist \subseteq Nat /\ IsWellFoundedOn(less, Nat)
  BY NatLessThanWellFounded
<1>3. \A d, e \in Nat : <<e, d>> \in less <=> e < d
  BY DEF OpToRel
<1>4. \A j \in S : n - j \in dist /\ j \in Nat /\ j <= n
  <2>1. ASSUME NEW j \in S PROVE n - j \in Nat /\ n - (n - j) = j
    OBVIOUS
  <2> QED BY <2>1
<1>5. \A d \in dist : n - d \in S
  OBVIOUS
<1> HIDE DEF less, dist
<1>6. PICK d \in dist : \A e \in dist : ~(<<e, d>> \in less)
  BY <1>1, <1>2, WFMin
<1>7. \A e \in dist : d <= e
  <2> SUFFICES ASSUME NEW e \in dist PROVE d <= e
    OBVIOUS
  <2>1. d \in Nat /\ e \in Nat
    BY <1>2
  <2>2. ~(<<e, d>> \in less)
    BY <1>6
  <2>3. ~(e < d)
    BY <1>3, <2>1, <2>2, Zenon
  <2> QED BY <2>1, <2>3
<1> QED BY <1>2, <1>4, <1>5, <1>7

-----------------------------------------------------------------------------
(* The items from place m to place n of a sequence, item by item. *)
LEMMA PartOf ==
  ASSUME NEW S, NEW s \in Seq(S), NEW m \in 1 .. Len(s) + 1, NEW n \in m - 1 .. Len(s)
  PROVE  /\ SubSeq(s, m, n) \in Seq(S)
         /\ Len(SubSeq(s, m, n)) = n - m + 1
         /\ \A k \in 1 .. n - m + 1 : SubSeq(s, m, n)[k] = s[m + k - 1]
<1>1. Len(s) \in Nat /\ \A i \in m .. n : s[i] \in S
  BY LenProperties, ElementOfSeq
<1>2. m \in Int /\ n \in Int
  BY <1>1
<1>3. /\ SubSeq(s, m, n) \in Seq(S)
      /\ Len(SubSeq(s, m, n)) = IF m <= n THEN n - m + 1 ELSE 0
      /\ \A i \in 1 .. n - m + 1 : SubSeq(s, m, n)[i] = s[m + i - 1]
  BY <1>1, <1>2, SubSeqProperties
<1> QED BY <1>1, <1>3

(* A sequence with an item put in at place i. *)
Inserted(s, i, x) == SubSeq(s, 1, i - 1) \o <<x>> \o SubSeq(s, i, Len(s))

IsInserted(s, i, x, t) ==
  /\ Len(t) = Len(s) + 1
  /\ \A k \in 1 .. Len(s) + 1 : t[k] = IF k < i THEN s[k] ELSE IF k = i THEN x ELSE s[k - 1]

LEMMA InsertedAt ==
  ASSUME NEW S, NEW s \in Seq(S), NEW i \in 1 .. Len(s) + 1, NEW x \in S
  PROVE  Inserted(s, i, x) \in Seq(S) /\ IsInserted(s, i, x, Inserted(s, i, x))
<1> DEFINE a   == SubSeq(s, 1, i - 1)
           one == <<x>>
           b   == SubSeq(s, i, Len(s))
           c   == a \o one
<1>1. Len(s) \in Nat
  BY LenProperties
<1>2. /\ a \in Seq(S) /\ Len(a) = i - 1
      /\ \A k \in 1 .. i - 1 : a[k] = s[k]
  <2>1. 1 \in 1 .. Len(s) + 1 /\ i - 1 \in 1 - 1 .. Len(s)
    BY <1>1
  <2> QED BY <1>1, <2>1, PartOf
<1>3. /\ b \in Seq(S) /\ Len(b) = Len(s) - i + 1
      /\ \A k \in 1 .. Len(s) - i + 1 : b[k] = s[i + k - 1]
  <2>1. Len(s) \in i - 1 .. Len(s)
    BY <1>1
  <2> QED BY <1>1, <2>1, PartOf
<1>4. one \in Seq(S) /\ Len(one) = 1 /\ one[1] = x
  OBVIOUS
<1> HIDE DEF a, b, one, c
<1>5. /\ c \in Seq(S) /\ Len(c) = Len(a) + Len(one)
      /\ \A k \in 1 .. Len(a) + Len(one) : c[k] = IF k <= Len(a) THEN a[k] ELSE one[k - Len(a)]
  BY <1>2, <1>4, ConcatProperties DEF c
<1>6. /\ c \o b \in Seq(S) /\ Len(c \o b) = Len(c) + Len(b)
      /\ \A k \in 1 .. Len(c) + Len(b) :
           (c \o b)[k] = IF k <= Len(c) THEN c[k] ELSE b[k - Len(c)]
  <2>1. c \in Seq(S) /\ b \in Seq(S)
    BY <1>3, <1>5
  <2> QED BY <2>1, ConcatProperties
<1>7. Inserted(s, i, x) = c \o b
  BY DEF Inserted, a, b, c, one
<1>8. Len(c) = i /\ \A k \in 1 .. i : c[k] = IF k < i THEN s[k] ELSE x
  <2>1. Len(c) = i
    BY <1>1, <1>2, <1>4, <1>5
  <2>2. ASSUME NEW k \in 1 .. i PROVE c[k] = IF k < i THEN s[k] ELSE x
    <3>1. c[k] = IF k <= i - 1 THEN a[k] ELSE one[k - (i - 1)]
      <4>1. Len(a) = i - 1 /\ k \in 1 .. Len(a) + Len(one)
        BY <1>1, <1>2, <1>4
      <4>2. c[k] = IF k <= Len(a) THEN a[k] ELSE one[k - Len(a)]
        BY <1>5, <4>1
      <4> QED BY <4>1, <4>2
    <3>2. k = i => k - (i - 1) = 1
      BY <1>1
    <3> QED BY <1>1, <1>2, <1>4, <3>1, <3>2
  <2> QED BY <2>1, <2>2
<1>9. ASSUME NEW k \in 1 .. Len(s) + 1
      PROVE  (c \o b)[k] = IF k < i THEN s[k] ELSE IF k = i THEN x ELSE s[k - 1]
  <2>1. (c \o b)[k] = IF k <= i THEN c[k] ELSE b[k - i]
    BY <1>1, <1>3, <1>6, <1>8
  <2>2. ASSUME ~(k <= i) PROVE b[k - i] = s[k - 1]
    <3>1. k - i \in 1 .. Len(s) - i + 1 /\ i + (k - i) - 1 = k - 1
      BY <1>1, <2>2
    <3> QED BY <1>3, <3>1
  <2>3. ASSUME k <= i PROVE c[k] = IF k < i THEN s[k] ELSE x
    BY <1>8, <2>3
  <2> QED BY <1>1, <2>1, <2>2, <2>3
<1> QED BY <1>1, <1>3, <1>6, <1>7, <1>8, <1>9 DEF IsInserted

(* A sequence with the item at place i taken out. *)
Without(s, i) == SubSeq(s, 1, i - 1) \o SubSeq(s, i + 1, Len(s))

IsWithout(s, i, t) ==
  /\ Len(t) = Len(s) - 1
  /\ \A k \in 1 .. Len(s) - 1 : t[k] = IF k < i THEN s[k] ELSE s[k + 1]

LEMMA WithoutAt ==
  ASSUME NEW S, NEW s \in Seq(S), NEW i \in 1 .. Len(s)
  PROVE  Without(s, i) \in Seq(S) /\ IsWithout(s, i, Without(s, i))
<1> DEFINE a == SubSeq(s, 1, i - 1)
           b == SubSeq(s, i + 1, Len(s))
<1>1. Len(s) \in Nat
  BY LenProperties
<1>2. /\ a \in Seq(S) /\ Len(a) = i - 1
      /\ \A k \in 1 .. i - 1 : a[k] = s[k]
  <2>1. 1 \in 1 .. Len(s) + 1 /\ i - 1 \in 1 - 1 .. Len(s)
    BY <1>1
  <2> QED BY <1>1, <2>1, PartOf
<1>3. /\ b \in Seq(S) /\ Len(b) = Len(s) - i
      /\ \A k \in 1 .. Len(s) - i : b[k] = s[i + k]
  <2>1. Len(s) \in (i + 1) - 1 .. Len(s) /\ i + 1 \in 1 .. Len(s) + 1
    BY <1>1
  <2>2. /\ b \in Seq(S) /\ Len(b) = Len(s) - (i + 1) + 1
        /\ \A k \in 1 .. Len(s) - (i + 1) + 1 : b[k] = s[(i + 1) + k - 1]
    BY <2>1, PartOf
  <2> QED BY <1>1, <2>2
<1> HIDE DEF a, b
<1>4. /\ a \o b \in Seq(S) /\ Len(a \o b) = Len(a) + Len(b)
      /\ \A k \in 1 .. Len(a) + Len(b) :
           (a \o b)[k] = IF k <= Len(a) THEN a[k] ELSE b[k - Len(a)]
  BY <1>2, <1>3, ConcatProperties
<1>5. Without(s, i) = a \o b
  BY DEF Without, a, b
<1>6. ASSUME NEW k \in 1 .. Len(s) - 1
      PROVE  (a \o b)[k] = IF k < i THEN s[k] ELSE s[k + 1]
  <2>1. (a \o b)[k] = IF k <= i - 1 THEN a[k] ELSE b[k - (i - 1)]
    BY <1>1, <1>2, <1>3, <1>4
  <2>2. ASSUME ~(k <= i - 1) PROVE b[k - (i - 1)] = s[k + 1]
    <3>1. k - (i - 1) \in 1 .. Len(s) - i /\ i + (k - (i - 1)) = k + 1
      BY <1>1, <2>2
    <3> QED BY <1>3, <3>1
  <2>3. ASSUME k <= i - 1 PROVE a[k] = s[k]
    BY <1>2, <2>3
  <2> QED BY <1>1, <2>1, <2>2, <2>3
<1>7. Len(a \o b) = Len(s) - 1
  BY <1>1, <1>2, <1>3, <1>4
<1> QED BY <1>4, <1>5, <1>6, <1>7 DEF IsWithout
=============================================================================
