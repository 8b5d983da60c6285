---------------------------- MODULE BTreePageProofs ----------------------------
(***************************************************************************)
(* What a page of an index on a VARCHAR column keeps, for every page size,  *)
(* length of the column and length of the constants that are sought.        *)
(***************************************************************************)
EXTENDS BTreePage, CommonLemmas

Byte  == Nat \cup {Junk}
Raw   == {item \in [value : Seq(Byte), key : Seq(Byte)] : Len(item.value) = ValueSize}
Entry == {item \in Raw : item.key \in Seq(Nat \ {0}) /\ Len(item.key) <= Length}

(* The place of the k-th byte of the i-th item. *)
PlaceOf(len, i, k) == ItemSize(len) * (i - 1) + k

(* The k-th byte of an item that is written with keys of len bytes. *)
ByteOf(item, k) ==
  IF k <= ValueSize THEN item.value[k]
  ELSE IF k - ValueSize <= Len(item.key) THEN item.key[k - ValueSize] ELSE 0

Filed(bytes, its) ==
  \A i \in 1 .. Len(its), k \in 1 .. ItemSize(Length) :
    bytes[PlaceOf(Length, i, k)] = ByteOf(its[i], k)

(* The inductive invariant: the items, written with keys of the length of    *)
(* the column, are what the page begins with.                               *)
PInv ==
  ~spoiled =>
    /\ data \in [1 .. DataBytes -> Byte] /\ size \in Nat
    /\ items \in Seq(Entry) /\ size = Len(items) /\ size <= Capacity(Length)
    /\ Filed(data, items)

-----------------------------------------------------------------------------
(* Numbers. *)

LEMMA Sizes ==
  /\ DataBytes \in Nat /\ DataBytes >= 1 /\ ValueSize \in Nat /\ ValueSize >= 1
  /\ Length \in Nat /\ Length >= 1
  /\ \A len \in Nat : ItemSize(len) \in Nat /\ ItemSize(len) = ValueSize + len
BY PageAssumption DEF ItemSize

LEMMA Product ==
  ASSUME NEW a \in Nat, NEW b \in Nat, NEW c \in Nat, NEW d \in Nat, a <= b, c <= d
  PROVE  a * c <= b * d /\ a * c \in Nat
OBVIOUS

LEMMA Divided ==
  ASSUME NEW n \in Nat, NEW m \in Nat, m >= 1
  PROVE  /\ n \div m \in Nat /\ n % m \in 0 .. m - 1
         /\ n = m * (n \div m) + (n % m)
         /\ m * (n \div m) <= n
OBVIOUS

LEMMA Quotient ==
  ASSUME NEW m \in Nat, m >= 1, NEW q \in Nat, NEW r \in 0 .. m - 1
  PROVE  (m * q + r) \div m = q /\ (m * q + r) % m = r
OBVIOUS

LEMMA Capacities == ASSUME NEW len \in Nat PROVE Capacity(len) \in Nat
<1>1. ItemSize(len) \in Nat /\ ItemSize(len) >= 1 /\ DataBytes \in Nat
  BY Sizes
<1> QED BY <1>1, Divided DEF Capacity

LEMMA MaxIs ==
  ASSUME NEW n \in Nat, NEW S \in SUBSET (0 .. n), S # {}
  PROVE  Max(S) \in S /\ \A y \in S : y <= Max(S)
<1>1. \E x \in S : \A y \in S : y <= x
  BY Greatest
<1>2. \E x \in S : \A y \in S : x >= y
  BY <1>1
<1>3. Max(S) \in S /\ \A y \in S : Max(S) >= y
  BY <1>2, Zenon DEF Max
<1> QED BY <1>3

LEMMA LeastIs ==
  ASSUME NEW a \in Nat, NEW b \in Nat
  PROVE  Least(a, b) = IF a <= b THEN a ELSE b
<1> DEFINE S == {a, b}
<1>1. \E x \in S : \A y \in S : x =< y
  BY DEF S
<1> HIDE DEF S
<1>2. Min(S) \in S /\ \A y \in S : Min(S) =< y
  BY <1>1, Zenon DEF Min
<1>3. Least(a, b) = Min(S)
  BY DEF Least, S
<1> QED BY <1>2, <1>3 DEF S

(* The i-th of n items fits a page that has room for n. *)
LEMMA InPage ==
  ASSUME NEW len \in Nat, NEW n \in Nat, n <= Capacity(len), NEW i \in 1 .. n,
         NEW k \in 1 .. ItemSize(len)
  PROVE  /\ PlaceOf(len, i, k) \in 1 .. DataBytes
         /\ PlaceOf(len, i, k) \in Nat /\ PlaceOf(len, i, k) <= ItemSize(len) * n
<1>1. PICK m : m = ItemSize(len)
  OBVIOUS
<1>2. m \in Nat /\ m >= 1 /\ DataBytes \in Nat
  BY <1>1, Sizes
<1>3. PICK c : c = Capacity(len)
  OBVIOUS
<1>4. c \in Nat /\ m * c <= DataBytes
  BY <1>1, <1>2, <1>3, Divided DEF Capacity
<1>5. m * n <= m * c /\ m * n \in Nat
  BY <1>2, <1>3, <1>4, Product
<1>6. PICK j : j = i - 1
  OBVIOUS
<1>7. j \in Nat /\ j + 1 <= n
  BY <1>6
<1>8. m * j \in Nat /\ m * (j + 1) <= m * n
  BY <1>2, <1>7, Product
<1>9. m * (j + 1) = m * j + m
  BY <1>2, <1>7
<1>10. k \in 1 .. m /\ PlaceOf(len, i, k) = m * j + k
  BY <1>1, <1>6 DEF PlaceOf
<1> HIDE DEF PlaceOf
<1>11. m * j + k \in Nat /\ m * j + k >= 1 /\ m * j + k <= m * n
  <2>1. PICK x : x = m * j
    OBVIOUS
  <2>2. PICK y : y = m * n
    OBVIOUS
  <2>3. x \in Nat /\ y \in Nat /\ x + m <= y
    BY <1>5, <1>8, <1>9, <2>1, <2>2
  <2> QED BY <1>2, <1>10, <2>1, <2>2, <2>3
<1>12. m * j + k <= DataBytes
  <2>1. PICK x, y, z : x = m * j + k /\ y = m * n /\ z = m * c
    OBVIOUS
  <2>2. z \in Nat
    BY <1>2, <1>4, Product, <2>1
  <2> QED BY <1>2, <1>4, <1>5, <1>11, <2>1, <2>2
<1> QED BY <1>1, <1>2, <1>10, <1>11, <1>12

-----------------------------------------------------------------------------
(* Items and their bytes. *)

LEMMA RawFacts ==
  ASSUME NEW item \in Raw
  PROVE  /\ item.value \in Seq(Byte) /\ Len(item.value) = ValueSize
         /\ item.key \in Seq(Byte) /\ Len(item.key) \in Nat
         /\ item = [value |-> item.value, key |-> item.key]
BY LenProperties DEF Raw

LEMMA BytesAre ==
  ASSUME NEW item \in Raw, NEW len \in Nat
  PROVE  \A k \in 1 .. ItemSize(len) : Bytes(item, len)[k] = ByteOf(item, k) /\ ByteOf(item, k) \in Byte
<1>1. PICK val, key : val = item.value /\ key = item.key
  OBVIOUS
<1>2. val \in Seq(Byte) /\ Len(val) = ValueSize /\ key \in Seq(Byte) /\ Len(key) \in Nat
  BY <1>1, RawFacts
<1>3. PICK padded : padded = [k \in 1 .. len |-> IF k <= Len(key) THEN key[k] ELSE 0]
  OBVIOUS
<1>4. \A k \in 1 .. len : padded[k] = (IF k <= Len(key) THEN key[k] ELSE 0) /\ padded[k] \in Byte
  <2> SUFFICES ASSUME NEW k \in 1 .. len
               PROVE  padded[k] = (IF k <= Len(key) THEN key[k] ELSE 0) /\ padded[k] \in Byte
    OBVIOUS
  <2>1. k <= Len(key) => key[k] \in Byte
    <3>1. k <= Len(key) => k \in 1 .. Len(key)
      BY <1>2
    <3> QED BY <1>2, <3>1, ElementOfSeq
  <2>2. 0 \in Byte
    BY DEF Byte
  <2> QED BY <1>3, <2>1, <2>2
<1>5. padded \in Seq(Byte) /\ Len(padded) = len
  <2>1. padded \in [1 .. len -> Byte]
    BY <1>3, <1>4
  <2> QED BY <2>1, SeqDef, LenProperties
<1>6. Bytes(item, len) = val \o padded
  BY <1>1, <1>3 DEF Bytes
<1>7. \A k \in 1 .. Len(val) + Len(padded) :
        (val \o padded)[k] = IF k <= Len(val) THEN val[k] ELSE padded[k - Len(val)]
  BY <1>2, <1>5, ConcatProperties
<1>8. ASSUME NEW k \in 1 .. ItemSize(len)
      PROVE  Bytes(item, len)[k] = ByteOf(item, k) /\ ByteOf(item, k) \in Byte
  <2>1. k \in 1 .. ValueSize + len /\ ValueSize \in Nat
    BY Sizes
  <2>2. Bytes(item, len)[k] = IF k <= ValueSize THEN val[k] ELSE padded[k - ValueSize]
    BY <1>2, <1>5, <1>6, <1>7, <2>1
  <2>3. CASE k <= ValueSize
    <3>1. k \in 1 .. Len(val)
      BY <1>2, <2>1, <2>3
    <3>2. val[k] \in Byte
      BY <1>2, <3>1, ElementOfSeq
    <3> QED BY <1>1, <2>2, <2>3, <3>2 DEF ByteOf
  <2>4. CASE ~(k <= ValueSize)
    <3>1. k - ValueSize \in 1 .. len
      BY <2>1, <2>4
    <3> QED BY <1>1, <1>4, <2>2, <2>4, <3>1 DEF ByteOf
  <2> QED BY <2>3, <2>4
<1> QED BY <1>8

(* What the destructor writes: the items' bytes, in order. *)
Laid(bytes, vertex, len) ==
  \A i \in 1 .. Len(vertex), k \in 1 .. ItemSize(len) :
    PlaceOf(len, i, k) \in 1 .. DataBytes => bytes[PlaceOf(len, i, k)] = ByteOf(vertex[i], k)

LEMMA WriteBackLays ==
  ASSUME NEW len \in Nat, NEW vertex \in Seq(Raw), WriteBack(vertex, len)
  PROVE  /\ data' \in [1 .. DataBytes -> Byte] /\ size' = Len(vertex) /\ size' \in Nat
         /\ Laid(data', vertex, len)
<1>1. PICK m : m = ItemSize(len)
  OBVIOUS
<1>2. m \in Nat /\ m >= 1 /\ DataBytes \in Nat
  BY <1>1, Sizes
<1>3. Len(vertex) \in Nat /\ \A i \in 1 .. Len(vertex) : vertex[i] \in Raw
  BY LenProperties, ElementOfSeq
<1>4. size' = Len(vertex)
  BY DEF WriteBack
<1>5. /\ DOMAIN data' = 1 .. DataBytes
      /\ data' = [b \in 1 .. DataBytes |-> data'[b]]
      /\ \A b \in 1 .. DataBytes :
           data'[b] = IF ((b - 1) \div m) + 1 <= Len(vertex)
                      THEN Bytes(vertex[((b - 1) \div m) + 1], len)[((b - 1) % m) + 1] ELSE Junk
  BY <1>1 DEF WriteBack
<1>6. ASSUME NEW b \in 1 .. DataBytes PROVE data'[b] \in Byte
  <2>1. PICK q, r : q = (b - 1) \div m /\ r = (b - 1) % m
    OBVIOUS
  <2>2. q \in Nat /\ r \in 0 .. m - 1
    <3>1. b - 1 \in Nat
      BY <1>2
    <3> QED BY <1>2, <2>1, <3>1, Divided
  <2>3. q + 1 <= Len(vertex) => Bytes(vertex[q + 1], len)[r + 1] \in Byte
    <3>1. SUFFICES ASSUME q + 1 <= Len(vertex) PROVE Bytes(vertex[q + 1], len)[r + 1] \in Byte
      OBVIOUS
    <3>2. q + 1 \in 1 .. Len(vertex)
      BY <1>3, <2>2, <3>1
    <3>3. vertex[q + 1] \in Raw /\ r + 1 \in 1 .. ItemSize(len)
      BY <1>1, <1>2, <1>3, <2>2, <3>2
    <3> QED BY <3>3, BytesAre
  <2>4. data'[b] = IF q + 1 <= Len(vertex) THEN Bytes(vertex[q + 1], len)[r + 1] ELSE Junk
    BY <1>5, <2>1
  <2> QED BY <2>3, <2>4 DEF Byte
<1>7. ASSUME NEW i \in 1 .. Len(vertex), NEW k \in 1 .. ItemSize(len),
             PlaceOf(len, i, k) \in 1 .. DataBytes
      PROVE  data'[PlaceOf(len, i, k)] = ByteOf(vertex[i], k)
  <2>1. PICK j, r, b : j = i - 1 /\ r = k - 1 /\ b = PlaceOf(len, i, k)
    OBVIOUS
  <2>2. j \in Nat /\ r \in 0 .. m - 1 /\ j + 1 = i /\ r + 1 = k
    BY <1>1, <1>2, <1>3, <2>1
  <2>3. b - 1 = m * j + r
    <3>1. PICK x : x = m * j
      OBVIOUS
    <3>2. x \in Nat
      BY <1>2, <2>2, <3>1
    <3>3. b = x + k
      BY <1>1, <2>1, <3>1 DEF PlaceOf
    <3> QED BY <2>1, <2>2, <3>1, <3>2, <3>3, <1>1, <1>2
  <2>4. (b - 1) \div m = j /\ (b - 1) % m = r
    BY <1>2, <2>2, <2>3, Quotient
  <2>5. data'[b] = Bytes(vertex[i], len)[k]
    <3>1. b \in 1 .. DataBytes /\ i <= Len(vertex)
      BY <1>3, <1>7, <2>1
    <3>2. data'[b] = IF ((b - 1) \div m) + 1 <= Len(vertex)
                     THEN Bytes(vertex[((b - 1) \div m) + 1], len)[((b - 1) % m) + 1] ELSE Junk
      BY <1>5, <3>1
    <3> QED BY <2>2, <2>4, <3>1, <3>2
  <2> QED BY <1>3, <2>1, <2>5, BytesAre
<1>8. data' \in [1 .. DataBytes -> Byte]
  BY <1>5, <1>6
<1>9. Laid(data', vertex, len)
  BY <1>7 DEF Laid
<1> QED BY <1>3, <1>4, <1>8, <1>9

-----------------------------------------------------------------------------
(* What the constructor reads. *)

(* A text with zeros put behind it. *)
IsPadded(s, key) ==
  /\ Len(key) <= Len(s)
  /\ \A k \in 1 .. Len(s) : s[k] = IF k <= Len(key) THEN key[k] ELSE 0

LEMMA StrippedIs ==
  ASSUME NEW s \in Seq(Byte)
  PROVE  Stripped(s) \in Seq(Byte) /\ IsPadded(s, Stripped(s))
<1> DEFINE S == {0} \cup {k \in DOMAIN s : s[k] # 0}
<1>1. Len(s) \in Nat /\ DOMAIN s = 1 .. Len(s)
  BY LenProperties
<1>2. S \in SUBSET (0 .. Len(s)) /\ S # {} /\ \A k \in 1 .. Len(s) : k \notin S => s[k] = 0
  BY <1>1
<1>3. Stripped(s) = SubSeq(s, 1, Max(S))
  BY DEF Stripped
<1> HIDE DEF S
<1>4. PICK m : m = Max(S)
  OBVIOUS
<1>5. m \in 0 .. Len(s) /\ \A k \in 1 .. Len(s) : m < k => s[k] = 0
  <2>1. m \in S /\ \A y \in S : y <= m
    BY <1>1, <1>2, <1>4, MaxIs
  <2>2. m \in 0 .. Len(s)
    BY <1>2, <2>1
  <2>3. ASSUME NEW k \in 1 .. Len(s), m < k PROVE s[k] = 0
    <3>1. k \notin S
      BY <1>1, <2>1, <2>2, <2>3
    <3> QED BY <1>2, <3>1
  <2> QED BY <2>2, <2>3
<1>6. /\ SubSeq(s, 1, m) \in Seq(Byte) /\ Len(SubSeq(s, 1, m)) = m
      /\ \A k \in 1 .. m : SubSeq(s, 1, m)[k] = s[k]
  <2>1. 1 \in 1 .. Len(s) + 1 /\ m \in 1 - 1 .. Len(s) /\ m - 1 + 1 = m
    BY <1>1, <1>5
  <2>2. /\ SubSeq(s, 1, m) \in Seq(Byte) /\ Len(SubSeq(s, 1, m)) = m - 1 + 1
        /\ \A k \in 1 .. m - 1 + 1 : SubSeq(s, 1, m)[k] = s[1 + k - 1]
    BY <2>1, PartOf
  <2> QED BY <1>5, <2>1, <2>2
<1>7. PICK t : t = Stripped(s)
  OBVIOUS
<1>8. t \in Seq(Byte) /\ Len(t) = m /\ \A k \in 1 .. m : t[k] = s[k]
  BY <1>3, <1>4, <1>6, <1>7
<1>9. IsPadded(s, t)
  <2>1. ASSUME NEW k \in 1 .. Len(s) PROVE s[k] = IF k <= m THEN t[k] ELSE 0
    <3>1. CASE k <= m
      <4>1. k \in 1 .. m
        BY <1>1, <1>5, <3>1
      <4> QED BY <1>8, <3>1, <4>1
    <3>2. CASE ~(k <= m)
      BY <1>1, <1>5, <3>2
    <3> QED BY <3>1, <3>2
  <2> QED BY <1>1, <1>5, <1>8, <2>1 DEF IsPadded
<1> QED BY <1>7, <1>8, <1>9

(* Zeros behind a text without zeros are what is stripped. *)
LEMMA StrippedExactly ==
  ASSUME NEW s \in Seq(Byte), NEW key \in Seq(Nat \ {0}), IsPadded(s, key)
  PROVE  Stripped(s) = key
<1> DEFINE S == {0} \cup {k \in DOMAIN s : s[k] # 0}
<1>1. Len(s) \in Nat /\ DOMAIN s = 1 .. Len(s) /\ Len(key) \in Nat /\ Len(key) <= Len(s)
  BY LenProperties DEF IsPadded
<1>2. S = 0 .. Len(key)
  <2>1. ASSUME NEW k \in 1 .. Len(s) PROVE s[k] # 0 <=> k <= Len(key)
    <3>1. s[k] = IF k <= Len(key) THEN key[k] ELSE 0
      BY DEF IsPadded
    <3>2. k <= Len(key) => key[k] \in Nat \ {0}
      <4>1. k <= Len(key) => k \in 1 .. Len(key)
        BY <1>1
      <4> QED BY <4>1, ElementOfSeq
    <3> QED BY <3>1, <3>2
  <2> QED BY <1>1, <2>1
<1>3. Stripped(s) = SubSeq(s, 1, Max(S))
  BY DEF Stripped
<1> HIDE DEF S
<1>4. Max(S) = Len(key)
  <2>1. S \in SUBSET (0 .. Len(key)) /\ S # {} /\ Len(key) \in S
    BY <1>1, <1>2
  <2>2. Max(S) \in S /\ \A y \in S : y <= Max(S)
    BY <1>1, <2>1, MaxIs
  <2>3. Max(S) \in 0 .. Len(key) /\ Len(key) <= Max(S)
    BY <2>1, <2>2
  <2> QED BY <1>1, <2>3
<1>5. PICK m, t : m = Len(key) /\ t = SubSeq(s, 1, m)
  OBVIOUS
<1>6. t \in Seq(Byte) /\ Len(t) = m /\ \A k \in 1 .. m : t[k] = s[k]
  <2>1. 1 \in 1 .. Len(s) + 1 /\ m \in 1 - 1 .. Len(s) /\ m - 1 + 1 = m
    BY <1>1, <1>5
  <2>2. /\ SubSeq(s, 1, m) \in Seq(Byte) /\ Len(SubSeq(s, 1, m)) = m - 1 + 1
        /\ \A k \in 1 .. m - 1 + 1 : SubSeq(s, 1, m)[k] = s[1 + k - 1]
    BY <2>1, PartOf
  <2> QED BY <1>1, <1>5, <2>1, <2>2
<1>7. \A k \in 1 .. m : t[k] = key[k]
  <2> SUFFICES ASSUME NEW k \in 1 .. m PROVE t[k] = key[k]
    OBVIOUS
  <2>1. k \in 1 .. Len(s) /\ k <= Len(key)
    BY <1>1, <1>5
  <2>2. s[k] = IF k <= Len(key) THEN key[k] ELSE 0
    BY <2>1 DEF IsPadded
  <2> QED BY <1>6, <2>1, <2>2
<1>8. t = key
  <2>1. Len(t) = Len(key)
    BY <1>5, <1>6
  <2>2. t \in Seq(Byte \cup Nat) /\ key \in Seq(Byte \cup Nat)
    <3>1. key \in Seq(Byte)
      BY DEF Byte
    <3> QED BY <1>6, <3>1 DEF Byte
  <2> QED BY <1>5, <1>7, <2>1, <2>2, SeqEqual
<1> QED BY <1>3, <1>4, <1>5, <1>8

(* The vertex, item by item. *)
LEMMA VertexIs ==
  ASSUME data \in [1 .. DataBytes -> Byte], size \in Nat, NEW len \in Nat, size <= Capacity(len)
  PROVE  /\ Vertex(len) \in Seq(Raw) /\ Len(Vertex(len)) = size
         /\ \A i \in 1 .. size :
              /\ Vertex(len)[i].value = [k \in 1 .. ValueSize |-> data[PlaceOf(len, i, k)]]
              /\ \E s \in Seq(Byte) :
                   /\ Len(s) = len /\ Vertex(len)[i].key = Stripped(s)
                   /\ \A k \in 1 .. len : s[k] = data[PlaceOf(len, i, ValueSize + k)]
<1>1. PICK m : m = ItemSize(len)
  OBVIOUS
<1>2. /\ m \in Nat /\ m = ValueSize + len /\ DataBytes \in Nat /\ DataBytes >= 1
      /\ ValueSize \in Nat /\ ValueSize >= 1 /\ m >= 1
  BY <1>1, Sizes
<1>3. data \in Seq(Byte) /\ Len(data) = DataBytes
  BY <1>2, SeqDef, LenProperties
<1>4. Least(size, Capacity(len)) = size
  <2>1. Capacity(len) \in Nat
    BY <1>1, <1>2, Divided DEF Capacity
  <2> QED BY <2>1, LeastIs
<1> DEFINE value(i) == SubSeq(data, m * (i - 1) + 1, m * (i - 1) + ValueSize)
           text(i)  == SubSeq(data, m * (i - 1) + ValueSize + 1, m * (i - 1) + m)
           item(i)  == [value |-> value(i), key |-> Stripped(text(i))]
<1>5. Vertex(len) = [i \in 1 .. size |-> item(i)]
  BY <1>1, <1>4 DEF Vertex
<1>6. ASSUME NEW i \in 1 .. size
      PROVE  /\ value(i) \in Seq(Byte) /\ Len(value(i)) = ValueSize
             /\ value(i) = [k \in 1 .. ValueSize |-> data[PlaceOf(len, i, k)]]
             /\ text(i) \in Seq(Byte) /\ Len(text(i)) = len
             /\ \A k \in 1 .. len : text(i)[k] = data[PlaceOf(len, i, ValueSize + k)]
  <2>1. PICK x : x = m * (i - 1)
    OBVIOUS
  <2>2. x \in Nat /\ x + m <= DataBytes
    <3>1. m \in 1 .. ItemSize(len)
      BY <1>1, <1>2
    <3>2. PlaceOf(len, i, m) \in 1 .. DataBytes
      BY <3>1, InPage
    <3>3. i - 1 \in Nat
      OBVIOUS
    <3>4. m * (i - 1) \in Nat
      BY <1>2, <3>3, Product
    <3> QED BY <1>1, <2>1, <3>2, <3>4 DEF PlaceOf
  <2>3. \A k : PlaceOf(len, i, k) = x + k
    BY <1>1, <2>1 DEF PlaceOf
  <2>4. value(i) = SubSeq(data, x + 1, x + ValueSize) /\ text(i) = SubSeq(data, x + ValueSize + 1, x + m)
    BY <2>1
  <2> HIDE DEF value, text
  <2>5. /\ value(i) \in Seq(Byte) /\ Len(value(i)) = ValueSize
        /\ \A k \in 1 .. ValueSize : value(i)[k] = data[x + k]
    <3>1. PICK a, b : a = x + 1 /\ b = x + ValueSize
      OBVIOUS
    <3>2. a \in 1 .. Len(data) + 1 /\ b \in a - 1 .. Len(data)
      BY <1>2, <1>3, <2>2, <3>1
    <3>3. /\ SubSeq(data, a, b) \in Seq(Byte) /\ Len(SubSeq(data, a, b)) = b - a + 1
          /\ \A k \in 1 .. b - a + 1 : SubSeq(data, a, b)[k] = data[a + k - 1]
      BY <1>3, <3>2, PartOf
    <3>4. b - a + 1 = ValueSize /\ \A k \in 1 .. ValueSize : a + k - 1 = x + k
      BY <1>2, <2>2, <3>1
    <3>5. value(i) = SubSeq(data, a, b)
      BY <2>4, <3>1
    <3> QED BY <3>3, <3>4, <3>5
  <2>6. /\ text(i) \in Seq(Byte) /\ Len(text(i)) = len
        /\ \A k \in 1 .. len : text(i)[k] = data[x + (ValueSize + k)]
    <3>1. PICK a, b : a = x + ValueSize + 1 /\ b = x + m
      OBVIOUS
    <3>2. a \in 1 .. Len(data) + 1 /\ b \in a - 1 .. Len(data)
      BY <1>2, <1>3, <2>2, <3>1
    <3>3. /\ SubSeq(data, a, b) \in Seq(Byte) /\ Len(SubSeq(data, a, b)) = b - a + 1
          /\ \A k \in 1 .. b - a + 1 : SubSeq(data, a, b)[k] = data[a + k - 1]
      BY <1>3, <3>2, PartOf
    <3>4. b - a + 1 = len /\ \A k \in 1 .. len : a + k - 1 = x + (ValueSize + k)
      BY <1>2, <2>2, <3>1
    <3>5. text(i) = SubSeq(data, a, b)
      BY <2>4, <3>1
    <3> QED BY <3>3, <3>4, <3>5
  <2>7. value(i) = [k \in 1 .. ValueSize |-> data[PlaceOf(len, i, k)]]
    <3>1. DOMAIN value(i) = 1 .. ValueSize /\ value(i) = [k \in DOMAIN value(i) |-> value(i)[k]]
      BY <2>5, LenProperties
    <3> QED BY <2>3, <2>5, <3>1
  <2>8. \A k \in 1 .. len : text(i)[k] = data[PlaceOf(len, i, ValueSize + k)]
    BY <2>3, <2>6
  <2> QED BY <2>5, <2>6, <2>7, <2>8
<1> HIDE DEF value, text
<1>7. \A i \in 1 .. size : item(i) \in Raw
  <2> SUFFICES ASSUME NEW i \in 1 .. size PROVE item(i) \in Raw
    OBVIOUS
  <2>1. value(i) \in Seq(Byte) /\ Len(value(i)) = ValueSize /\ text(i) \in Seq(Byte)
    BY <1>6
  <2>2. Stripped(text(i)) \in Seq(Byte)
    BY <2>1, StrippedIs
  <2> QED BY <2>1, <2>2 DEF Raw
<1>8. Vertex(len) \in Seq(Raw) /\ Len(Vertex(len)) = size
  <2>1. Vertex(len) \in [1 .. size -> Raw]
    BY <1>5, <1>7
  <2> QED BY <2>1, SeqDef, LenProperties
<1>9. ASSUME NEW i \in 1 .. size
      PROVE  /\ Vertex(len)[i].value = value(i) /\ Vertex(len)[i].key = Stripped(text(i))
  BY <1>5
<1> QED BY <1>6, <1>8, <1>9

(* Read with the length of the column, the page holds the items. *)
LEMMA ItemsRead == ASSUME PInv, ~spoiled PROVE Vertex(Length) = items
<1>1. /\ data \in [1 .. DataBytes -> Byte] /\ size \in Nat /\ items \in Seq(Entry)
      /\ size = Len(items) /\ size <= Capacity(Length) /\ Filed(data, items)
  BY DEF PInv
<1>2. Length \in Nat /\ ValueSize \in Nat /\ ValueSize >= 1 /\ ItemSize(Length) = ValueSize + Length
  BY Sizes
<1>3. PICK vertex : vertex = Vertex(Length)
  OBVIOUS
<1>4. /\ vertex \in Seq(Raw) /\ Len(vertex) = size
      /\ \A i \in 1 .. size :
           /\ vertex[i].value = [k \in 1 .. ValueSize |-> data[PlaceOf(Length, i, k)]]
           /\ \E s \in Seq(Byte) :
                /\ Len(s) = Length /\ vertex[i].key = Stripped(s)
                /\ \A k \in 1 .. Length : s[k] = data[PlaceOf(Length, i, ValueSize + k)]
  BY <1>1, <1>2, <1>3, VertexIs
<1>5. ASSUME NEW i \in 1 .. size PROVE vertex[i] = items[i]
  <2>1. items[i] \in Entry /\ vertex[i] \in Raw
    BY <1>1, <1>4, ElementOfSeq
  <2>2. PICK item : item = items[i]
    OBVIOUS
  <2>3. /\ item \in Raw /\ item.key \in Seq(Nat \ {0}) /\ Len(item.key) <= Length
    BY <2>1, <2>2 DEF Entry
  <2>4. /\ item.value \in Seq(Byte) /\ Len(item.value) = ValueSize /\ Len(item.key) \in Nat
        /\ item = [value |-> item.value, key |-> item.key]
        /\ vertex[i] = [value |-> vertex[i].value, key |-> vertex[i].key]
    BY <2>1, <2>3, RawFacts
  <2>5. \A k \in 1 .. ValueSize + Length : data[PlaceOf(Length, i, k)] = ByteOf(item, k)
    BY <1>1, <1>2, <2>2 DEF Filed
  <2>6. vertex[i].value = item.value
    <3>1. \A k \in 1 .. ValueSize : data[PlaceOf(Length, i, k)] = item.value[k]
      <4> SUFFICES ASSUME NEW k \in 1 .. ValueSize PROVE data[PlaceOf(Length, i, k)] = item.value[k]
        OBVIOUS
      <4>1. k \in 1 .. ValueSize + Length /\ k <= ValueSize
        BY <1>2
      <4> QED BY <2>5, <4>1 DEF ByteOf
    <3>2. item.value = [k \in 1 .. ValueSize |-> item.value[k]]
      <4>1. DOMAIN item.value = 1 .. ValueSize /\ item.value \in [1 .. ValueSize -> Byte]
        BY <2>4, LenProperties
      <4> QED BY <4>1
    <3>3. vertex[i].value = [k \in 1 .. ValueSize |-> data[PlaceOf(Length, i, k)]]
      BY <1>4
    <3>4. vertex[i].value = [k \in 1 .. ValueSize |-> item.value[k]]
      BY <3>1, <3>3
    <3> QED BY <3>2, <3>4
  <2>7. vertex[i].key = item.key
    <3>1. PICK s \in Seq(Byte) :
            /\ Len(s) = Length /\ vertex[i].key = Stripped(s)
            /\ \A k \in 1 .. Length : s[k] = data[PlaceOf(Length, i, ValueSize + k)]
      BY <1>4
    <3>2. ASSUME NEW k \in 1 .. Length PROVE s[k] = IF k <= Len(item.key) THEN item.key[k] ELSE 0
      <4>1. PICK j : j = ValueSize + k
        OBVIOUS
      <4>2. j \in 1 .. ValueSize + Length /\ ~(j <= ValueSize) /\ j - ValueSize = k
        BY <1>2, <4>1
      <4>3. s[k] = ByteOf(item, j)
        BY <2>5, <3>1, <4>1, <4>2
      <4> QED BY <4>2, <4>3 DEF ByteOf
    <3>3. IsPadded(s, item.key)
      BY <2>3, <3>1, <3>2 DEF IsPadded
    <3>4. Stripped(s) = item.key
      BY <2>3, <3>3, StrippedExactly
    <3> QED BY <3>1, <3>4
  <2> QED BY <2>2, <2>4, <2>6, <2>7
<1>6. items \in Seq(Raw)
  <2>1. Entry \subseteq Raw
    BY DEF Entry
  <2> QED BY <1>1, <2>1
<1>7. vertex = items
  BY <1>1, <1>4, <1>5, <1>6, SeqEqual
<1> QED BY <1>3, <1>7

(* A page that is read and written back with one length keeps every byte of  *)
(* its items, whatever the length its items were written with.              *)
LEMMA SameBytes ==
  ASSUME data \in [1 .. DataBytes -> Byte], size \in Nat,
         NEW len \in Nat, size <= Capacity(len), WriteBack(Vertex(len), len)
  PROVE  /\ data' \in [1 .. DataBytes -> Byte] /\ size' = size
         /\ \A b \in 1 .. ItemSize(len) * size : data'[b] = data[b]
<1>1. PICK m : m = ItemSize(len)
  OBVIOUS
<1>2. m \in Nat /\ m >= 1 /\ m = ValueSize + len /\ ValueSize \in Nat /\ ValueSize >= 1
  BY <1>1, Sizes
<1>3. PICK vertex : vertex = Vertex(len)
  OBVIOUS
<1>4. /\ vertex \in Seq(Raw) /\ Len(vertex) = size
      /\ \A i \in 1 .. size :
           /\ vertex[i].value = [k \in 1 .. ValueSize |-> data[PlaceOf(len, i, k)]]
           /\ \E s \in Seq(Byte) :
                /\ Len(s) = len /\ vertex[i].key = Stripped(s)
                /\ \A k \in 1 .. len : s[k] = data[PlaceOf(len, i, ValueSize + k)]
  BY <1>3, VertexIs
<1>5. data' \in [1 .. DataBytes -> Byte] /\ size' = size /\ Laid(data', vertex, len)
  <2>1. vertex \in Seq(Raw) /\ WriteBack(vertex, len)
    BY <1>3, <1>4
  <2>2. data' \in [1 .. DataBytes -> Byte] /\ size' = Len(vertex) /\ Laid(data', vertex, len)
    BY <2>1, WriteBackLays
  <2> QED BY <1>4, <2>2
<1>6. ASSUME NEW i \in 1 .. size, NEW k \in 1 .. m
      PROVE  data'[PlaceOf(len, i, k)] = data[PlaceOf(len, i, k)]
  <2>1. PlaceOf(len, i, k) \in 1 .. DataBytes
    BY <1>1, InPage
  <2>2. data'[PlaceOf(len, i, k)] = ByteOf(vertex[i], k)
    BY <1>1, <1>4, <1>5, <2>1 DEF Laid
  <2>3. CASE k <= ValueSize
    <3>1. k \in 1 .. ValueSize
      BY <1>2, <2>3
    <3>2. vertex[i].value[k] = data[PlaceOf(len, i, k)]
      BY <1>4, <3>1
    <3> QED BY <2>2, <2>3, <3>2 DEF ByteOf
  <2>4. CASE ~(k <= ValueSize)
    <3>1. PICK j : j = k - ValueSize
      OBVIOUS
    <3>2. j \in 1 .. len /\ ValueSize + j = k
      BY <1>2, <2>4, <3>1
    <3>3. PICK s \in Seq(Byte) :
            /\ Len(s) = len /\ vertex[i].key = Stripped(s)
            /\ \A n \in 1 .. len : s[n] = data[PlaceOf(len, i, ValueSize + n)]
      BY <1>4
    <3>4. IsPadded(s, vertex[i].key)
      BY <3>3, StrippedIs
    <3>5. s[j] = IF j <= Len(vertex[i].key) THEN vertex[i].key[j] ELSE 0
      BY <3>2, <3>3, <3>4 DEF IsPadded
    <3>6. ByteOf(vertex[i], k) = s[j]
      BY <2>4, <3>1, <3>5 DEF ByteOf
    <3>7. s[j] = data[PlaceOf(len, i, k)]
      BY <3>2, <3>3
    <3> QED BY <2>2, <3>6, <3>7
  <2> QED BY <2>3, <2>4
<1>7. ASSUME NEW b \in 1 .. m * size PROVE data'[b] = data[b]
  <2>1. PICK q, r : q = (b - 1) \div m /\ r = (b - 1) % m
    OBVIOUS
  <2>2. PICK x : x = m * size
    OBVIOUS
  <2>3. x \in Nat /\ b \in 1 .. x /\ b - 1 \in Nat
    <3>1. x \in Nat
      BY <1>2, <2>2, Product
    <3> QED BY <2>2, <3>1
  <2>4. q \in Nat /\ r \in 0 .. m - 1 /\ b - 1 = m * q + r
    BY <1>2, <2>1, <2>3, Divided
  <2>5. q < size
    <3> SUFFICES ASSUME ~(q < size) PROVE FALSE
      OBVIOUS
    <3>1. m * size <= m * q /\ m * q \in Nat
      BY <1>2, <2>4, Product
    <3>2. PICK y : y = m * q
      OBVIOUS
    <3>3. y \in Nat /\ x <= y /\ b - 1 = y + r
      BY <2>2, <2>4, <3>1, <3>2
    <3> QED BY <1>2, <2>3, <2>4, <3>3
  <2>6. PICK i, k : i = q + 1 /\ k = r + 1
    OBVIOUS
  <2>7. i \in 1 .. size /\ k \in 1 .. m /\ i - 1 = q
    BY <1>2, <2>4, <2>5, <2>6
  <2>8. b = PlaceOf(len, i, k)
    <3>1. PICK y : y = m * q
      OBVIOUS
    <3>2. y \in Nat
      BY <1>2, <2>4, <3>1, Product
    <3>3. b = y + k
      BY <2>3, <2>4, <2>6, <3>1, <3>2, <1>2
    <3> QED BY <1>1, <2>7, <3>1, <3>3 DEF PlaceOf
  <2> QED BY <1>6, <2>7, <2>8
<1> QED BY <1>1, <1>5, <1>7

(* A search with a length that is not too short, and does not make too much  *)
(* of the items, leaves them.                                               *)
LEMMA HarmlessSearch ==
  ASSUME PInv, ~spoiled, NEW len \in Nat, ~Harmful(len), WriteBack(Vertex(len), len)
  PROVE  /\ data' \in [1 .. DataBytes -> Byte] /\ size' = size /\ Filed(data', items)
<1>1. /\ data \in [1 .. DataBytes -> Byte] /\ size \in Nat /\ items \in Seq(Entry)
      /\ size = Len(items) /\ size <= Capacity(Length) /\ Filed(data, items)
  BY DEF PInv
<1>2. /\ Length \in Nat /\ ItemSize(Length) \in Nat /\ ItemSize(Length) = ValueSize + Length
      /\ ItemSize(len) \in Nat /\ ItemSize(len) = ValueSize + len /\ ValueSize \in Nat
      /\ ItemSize(len) >= 1 /\ DataBytes \in Nat
  BY Sizes
<1>3. Capacity(len) \in Nat
  BY Capacities
<1>4. size <= Capacity(len) /\ (size = 0 \/ Length <= len)
  BY <1>1, <1>2, <1>3 DEF Harmful
<1>5. /\ data' \in [1 .. DataBytes -> Byte] /\ size' = size
      /\ \A b \in 1 .. ItemSize(len) * size : data'[b] = data[b]
  BY <1>1, <1>4, SameBytes
<1>6. ASSUME NEW i \in 1 .. Len(items), NEW k \in 1 .. ItemSize(Length)
      PROVE  data'[PlaceOf(Length, i, k)] = ByteOf(items[i], k)
  <2>1. i \in 1 .. size /\ Length <= len
    BY <1>1, <1>4
  <2>2. PICK b, x, y : /\ b = PlaceOf(Length, i, k)
                       /\ x = ItemSize(Length) * size /\ y = ItemSize(len) * size
    OBVIOUS
  <2>3. b \in Nat /\ b \in 1 .. DataBytes /\ b <= x
    BY <1>1, <1>2, <2>1, <2>2, InPage
  <2>4. x \in Nat /\ y \in Nat /\ x <= y
    <3>1. ItemSize(Length) <= ItemSize(len)
      BY <1>2, <2>1
    <3> QED BY <1>1, <1>2, <2>2, <3>1, Product
  <2>5. b \in 1 .. y
    BY <1>2, <2>3, <2>4
  <2>6. data'[b] = data[b]
    BY <1>5, <2>2, <2>5
  <2>7. data[b] = ByteOf(items[i], k)
    BY <1>1, <2>2 DEF Filed
  <2> QED BY <2>2, <2>6, <2>7
<1> QED BY <1>5, <1>6 DEF Filed

-----------------------------------------------------------------------------
(* The steps. *)

LEMMA PlaceIs ==
  ASSUME NEW vertex \in Seq(Raw), NEW key
  PROVE  Place(vertex, key) \in 1 .. Len(vertex) + 1
<1> DEFINE S == {0} \cup {i \in DOMAIN vertex : ~Before(key, vertex[i].key)}
<1>1. Len(vertex) \in Nat /\ DOMAIN vertex = 1 .. Len(vertex)
  BY LenProperties
<1>2. S \in SUBSET (0 .. Len(vertex)) /\ S # {}
  BY <1>1
<1>3. Place(vertex, key) = Max(S) + 1
  BY DEF Place
<1> HIDE DEF S
<1>4. Max(S) \in 0 .. Len(vertex)
  <2>1. Max(S) \in S
    BY <1>1, <1>2, MaxIs
  <2> QED BY <1>2, <2>1
<1> QED BY <1>1, <1>3, <1>4

(* A key as it is given, and cut to the length of the column. *)
LEMMA CutKey ==
  ASSUME NEW key \in Keys, NEW pos \in Positions
  PROVE  /\ [value |-> pos, key |-> key] \in Raw
         /\ [value |-> pos, key |-> Cut(key, Length)] \in Entry
         /\ \A k \in 1 .. ItemSize(Length) :
              ByteOf([value |-> pos, key |-> key], k)
                = ByteOf([value |-> pos, key |-> Cut(key, Length)], k)
<1>1. key \in Seq(Nat \ {0}) /\ pos \in [1 .. ValueSize -> Nat]
  BY PageAssumption
<1>2. Length \in Nat /\ ValueSize \in Nat /\ ItemSize(Length) = ValueSize + Length /\ Len(key) \in Nat
  BY <1>1, Sizes, LenProperties
<1>3. pos \in Seq(Byte) /\ Len(pos) = ValueSize /\ key \in Seq(Byte)
  <2>1. pos \in [1 .. ValueSize -> Byte]
    BY <1>1 DEF Byte
  <2>2. pos \in Seq(Byte) /\ Len(pos) = ValueSize
    BY <1>2, <2>1, SeqDef, LenProperties
  <2> QED BY <1>1, <2>2 DEF Byte
<1>4. PICK n, cut : n = Least(Len(key), Length) /\ cut = SubSeq(key, 1, n)
  OBVIOUS
<1>5. n \in 0 .. Len(key) /\ n <= Length /\ (n = Len(key) \/ n = Length)
  BY <1>2, <1>4, LeastIs
<1>6. cut \in Seq(Nat \ {0}) /\ Len(cut) = n /\ \A k \in 1 .. n : cut[k] = key[k]
  <2>1. 1 \in 1 .. Len(key) + 1 /\ n \in 1 - 1 .. Len(key) /\ n - 1 + 1 = n
    BY <1>2, <1>5
  <2>2. /\ SubSeq(key, 1, n) \in Seq(Nat \ {0}) /\ Len(SubSeq(key, 1, n)) = n - 1 + 1
        /\ \A k \in 1 .. n - 1 + 1 : SubSeq(key, 1, n)[k] = key[1 + k - 1]
    BY <1>1, <2>1, PartOf
  <2> QED BY <1>2, <1>4, <1>5, <2>1, <2>2
<1>7. Cut(key, Length) = cut
  BY <1>4 DEF Cut
<1>8. [value |-> pos, key |-> key] \in Raw
  BY <1>3 DEF Raw
<1>9. [value |-> pos, key |-> cut] \in Entry
  <2>1. cut \in Seq(Byte)
    BY <1>6 DEF Byte
  <2> QED BY <1>3, <1>5, <1>6, <2>1 DEF Raw, Entry
<1>10. ASSUME NEW k \in 1 .. ValueSize + Length
       PROVE  ByteOf([value |-> pos, key |-> key], k) = ByteOf([value |-> pos, key |-> cut], k)
  <2>1. CASE k <= ValueSize
    BY <2>1 DEF ByteOf
  <2>2. CASE ~(k <= ValueSize)
    <3>1. PICK j : j = k - ValueSize
      OBVIOUS
    <3>2. j \in 1 .. Length
      BY <1>2, <2>2, <3>1
    <3>3. (j <= Len(key)) = (j <= Len(cut)) /\ (j <= Len(key) => key[j] = cut[j])
      BY <1>2, <1>5, <1>6, <3>2
    <3> QED BY <2>2, <3>1, <3>3 DEF ByteOf
  <2> QED BY <2>1, <2>2
<1> QED BY <1>2, <1>7, <1>8, <1>9, <1>10

(* A vertex whose items have the bytes of the items is a page that holds     *)
(* them.                                                                    *)
LEMMA WrittenItems ==
  ASSUME NEW vertex \in Seq(Raw), NEW its \in Seq(Entry), Len(vertex) = Len(its),
         Len(vertex) <= Capacity(Length), WriteBack(vertex, Length),
         \A i \in 1 .. Len(its), k \in 1 .. ItemSize(Length) : ByteOf(vertex[i], k) = ByteOf(its[i], k)
  PROVE  /\ data' \in [1 .. DataBytes -> Byte] /\ size' = Len(its) /\ size' \in Nat
         /\ size' <= Capacity(Length) /\ Filed(data', its)
<1>1. Length \in Nat
  BY Sizes
<1>2. /\ data' \in [1 .. DataBytes -> Byte] /\ size' = Len(vertex) /\ size' \in Nat
      /\ Laid(data', vertex, Length)
  BY <1>1, WriteBackLays
<1>3. ASSUME NEW i \in 1 .. Len(its), NEW k \in 1 .. ItemSize(Length)
      PROVE  data'[PlaceOf(Length, i, k)] = ByteOf(its[i], k)
  <2>1. PICK n : n = Len(vertex)
    OBVIOUS
  <2>2. n \in Nat /\ n <= Capacity(Length) /\ i \in 1 .. n
    BY <1>2, <2>1
  <2>3. PlaceOf(Length, i, k) \in 1 .. DataBytes
    BY <1>1, <2>2, InPage
  <2> QED BY <1>2, <2>3 DEF Laid
<1> QED BY <1>2, <1>3 DEF Filed

LEMMA EntriesAreRaw == Entry \subseteq Raw
BY DEF Entry

LEMMA AddKeyStep ==
  ASSUME PInv, NEW key \in Keys, NEW pos \in Positions, AddKey(key, pos)
  PROVE  PInv'
<1>1. /\ data \in [1 .. DataBytes -> Byte] /\ size \in Nat /\ items \in Seq(Entry)
      /\ size = Len(items) /\ ~spoiled /\ ~spoiled' /\ size < Capacity(Length)
  BY DEF PInv, AddKey
<1>2. Vertex(Length) = items
  BY <1>1, ItemsRead
<1>3. PICK p, raw, cut : /\ p = Place(items, key)
                         /\ raw = [value |-> pos, key |-> key]
                         /\ cut = [value |-> pos, key |-> Cut(key, Length)]
  OBVIOUS
<1>4. raw \in Raw /\ cut \in Entry /\ \A k \in 1 .. ItemSize(Length) : ByteOf(raw, k) = ByteOf(cut, k)
  BY <1>3, CutKey
<1>5. items \in Seq(Raw) /\ p \in 1 .. Len(items) + 1
  <2>1. items \in Seq(Raw)
    BY <1>1, EntriesAreRaw
  <2> QED BY <1>3, <2>1, PlaceIs
<1>6. PICK vertex, its : vertex = Inserted(items, p, raw) /\ its = Inserted(items, p, cut)
  OBVIOUS
<1>7. vertex \in Seq(Raw) /\ IsInserted(items, p, raw, vertex)
  BY <1>4, <1>5, <1>6, InsertedAt
<1>8. its \in Seq(Entry) /\ IsInserted(items, p, cut, its)
  BY <1>1, <1>4, <1>5, <1>6, InsertedAt
<1>9. WriteBack(vertex, Length) /\ items' = its
  BY <1>2, <1>3, <1>6 DEF AddKey, InsertAt, Inserted
<1>10. Len(vertex) = Len(items) + 1 /\ Len(its) = Len(items) + 1
  BY <1>7, <1>8 DEF IsInserted
<1>11. Len(vertex) <= Capacity(Length)
  <2>1. Capacity(Length) \in Nat
    BY Sizes, Capacities
  <2> QED BY <1>1, <1>10, <2>1
<1>12. ASSUME NEW i \in 1 .. Len(its), NEW k \in 1 .. ItemSize(Length)
       PROVE  ByteOf(vertex[i], k) = ByteOf(its[i], k)
  <2>1. i \in 1 .. Len(items) + 1
    BY <1>10
  <2>2. vertex[i] = IF i < p THEN items[i] ELSE IF i = p THEN raw ELSE items[i - 1]
    BY <1>7, <2>1 DEF IsInserted
  <2>3. its[i] = IF i < p THEN items[i] ELSE IF i = p THEN cut ELSE items[i - 1]
    BY <1>8, <2>1 DEF IsInserted
  <2>4. CASE i = p
    <3>1. vertex[i] = raw /\ its[i] = cut
      BY <1>5, <2>2, <2>3, <2>4
    <3> QED BY <1>4, <3>1
  <2>5. CASE i # p
    BY <2>2, <2>3, <2>5
  <2> QED BY <2>4, <2>5
<1>13. /\ data' \in [1 .. DataBytes -> Byte] /\ size' = Len(its) /\ size' \in Nat
       /\ size' <= Capacity(Length) /\ Filed(data', its)
  <2>1. Len(vertex) = Len(its)
    BY <1>10
  <2> QED BY <1>7, <1>8, <1>9, <1>11, <1>12, <2>1, WrittenItems
<1> QED BY <1>8, <1>9, <1>13 DEF PInv

(* A search that does no harm writes the items back. *)
LEMMA SearchStep ==
  ASSUME PInv, ~spoiled, NEW len \in Nat, WriteBack(Vertex(len), len), UNCHANGED items,
         Harmful(len) => spoiled'
  PROVE  PInv'
<1>1. CASE Harmful(len)
  BY <1>1 DEF PInv
<1>2. CASE ~Harmful(len)
  <2>1. data' \in [1 .. DataBytes -> Byte] /\ size' = size /\ Filed(data', items)
    BY <1>2, HarmlessSearch
  <2> QED BY <2>1 DEF PInv
<1> QED BY <1>1, <1>2

LEMMA KeyLength ==
  /\ Length \in Nat
  /\ \A key \in Keys : Len(key) \in Nat
  /\ \A its \in Seq(Entry) : \A i \in DOMAIN its : Len(its[i].key) \in Nat /\ Len(its[i].key) <= Length
<1>1. \A key \in Keys : Len(key) \in Nat
  BY PageAssumption, LenProperties
<1>2. ASSUME NEW its \in Seq(Entry), NEW i \in DOMAIN its
      PROVE  Len(its[i].key) \in Nat /\ Len(its[i].key) <= Length
  <2>1. i \in 1 .. Len(its)
    BY LenProperties
  <2>2. its[i] \in Entry
    BY <2>1, ElementOfSeq
  <2> QED BY <2>2, LenProperties DEF Entry
<1> QED BY <1>1, <1>2, Sizes

LEMMA SelectStep == ASSUME PInv, NEW key \in Keys, Select(key) PROVE PInv'
<1>1. ~spoiled /\ WriteBack(Vertex(Length), Length) /\ UNCHANGED items
  BY DEF Select
<1>2. ~Harmful(Length)
  <2>1. Length \in Nat /\ Capacity(Length) \in Nat /\ size \in Nat /\ size <= Capacity(Length)
    BY <1>1, KeyLength, Capacities DEF PInv
  <2> QED BY <2>1 DEF Harmful
<1> QED BY <1>1, <1>2, KeyLength, SearchStep

LEMMA SearchKeyStep == ASSUME PInv, NEW key \in Keys, Search(key) PROVE PInv'
<1>1. PICK len : len = Len(key)
  OBVIOUS
<1>2. /\ ~spoiled /\ WriteBack(Vertex(len), len) /\ UNCHANGED items
      /\ Harmful(len) => spoiled'
  BY <1>1 DEF Search
<1>3. len \in Nat
  BY <1>1, KeyLength
<1> QED BY <1>2, <1>3, SearchStep

LEMMA DeleteKeyStep == ASSUME PInv, NEW i \in DOMAIN items, DeleteKey(i) PROVE PInv'
<1>1. /\ data \in [1 .. DataBytes -> Byte] /\ size \in Nat /\ items \in Seq(Entry)
      /\ size = Len(items) /\ ~spoiled /\ size <= Capacity(Length)
  BY DEF PInv, DeleteKey
<1>2. PICK len : len = Len(items[i].key)
  OBVIOUS
<1>3. len \in Nat /\ len <= Length /\ Length \in Nat
  BY <1>1, <1>2, KeyLength
<1>4. CASE len = Length
  <2>1. WriteBack(RemoveAt(Vertex(Length), i), Length) /\ items' = RemoveAt(items, i)
    BY <1>2, <1>4 DEF DeleteKey
  <2>2. PICK its : its = Without(items, i)
    OBVIOUS
  <2>3. i \in 1 .. Len(items)
    BY <1>1, LenProperties
  <2>4. its \in Seq(Entry) /\ Len(its) = Len(items) - 1
    BY <1>1, <2>2, <2>3, WithoutAt DEF IsWithout
  <2>5. its \in Seq(Raw)
    BY <2>4, EntriesAreRaw
  <2>6. WriteBack(its, Length) /\ items' = its
    <3>1. Vertex(Length) = items
      BY <1>1, ItemsRead
    <3> QED BY <2>1, <2>2, <3>1 DEF RemoveAt, Without
  <2>7. Len(its) <= Capacity(Length)
    <3>1. Capacity(Length) \in Nat
      BY Sizes, Capacities
    <3> QED BY <1>1, <2>4, <3>1
  <2>8. /\ data' \in [1 .. DataBytes -> Byte] /\ size' = Len(its) /\ size' \in Nat
        /\ size' <= Capacity(Length) /\ Filed(data', its)
    BY <2>4, <2>5, <2>6, <2>7, WrittenItems
  <2> QED BY <2>4, <2>6, <2>8 DEF PInv
<1>5. CASE len # Length
  <2>1. /\ WriteBack(Vertex(len), len) /\ UNCHANGED items /\ (Harmful(len) => spoiled')
    BY <1>2, <1>5 DEF DeleteKey
  <2> QED BY <1>1, <1>3, <2>1, SearchStep
<1> QED BY <1>4, <1>5

LEMMA PageInvariant == Spec => []PInv
<1>1. Init => PInv
  <2> SUFFICES ASSUME Init PROVE PInv
    OBVIOUS
  <2>1. data \in [1 .. DataBytes -> Byte]
    BY DEF Init, Byte
  <2>2. size = 0 /\ items = <<>> /\ items \in Seq(Entry) /\ Len(items) = 0
    BY DEF Init
  <2>3. 0 <= Capacity(Length)
    <3>1. Capacity(Length) \in Nat
      BY Sizes, Capacities
    <3> QED BY <3>1
  <2>4. Filed(data, items)
    BY <2>2 DEF Filed
  <2> QED BY <2>1, <2>2, <2>3, <2>4 DEF PInv
<1>2. PInv /\ [Next]_vars => PInv'
  <2> SUFFICES ASSUME PInv, [Next]_vars PROVE PInv'
    OBVIOUS
  <2>1. ASSUME NEW key \in Keys, NEW pos \in Positions, AddKey(key, pos) PROVE PInv'
    BY <2>1, AddKeyStep
  <2>2. ASSUME NEW key \in Keys, Select(key) PROVE PInv'
    BY <2>2, SelectStep
  <2>3. ASSUME NEW key \in Keys, Search(key) PROVE PInv'
    BY <2>3, SearchKeyStep
  <2>4. ASSUME NEW i \in DOMAIN items, DeleteKey(i) PROVE PInv'
    BY <2>4, DeleteKeyStep
  <2>5. CASE UNCHANGED vars
    BY <2>5 DEF vars, PInv, Filed
  <2> QED BY <2>1, <2>2, <2>3, <2>4, <2>5 DEF Next
<1> QED BY <1>1, <1>2, PTL DEF Spec

(* Whatever was inserted, sought or deleted, with constants of whatever       *)
(* length, the page holds the items until a search with a length that is    *)
(* too short, or makes too much of the page, has written it back.           *)
THEOREM ItemsAreKept == Spec => []ItemsKept
<1>1. PInv => ItemsKept
  BY ItemsRead DEF ItemsKept
<1> QED BY <1>1, PageInvariant, PTL
=============================================================================
