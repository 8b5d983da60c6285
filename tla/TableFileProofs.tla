---------------------------- MODULE TableFileProofs ----------------------------
(***************************************************************************)
(* What a table file gives back of the rows put in it, for every signature, *)
(* page size, header, number of rows and constants.                        *)
(***************************************************************************)
EXTENDS TableFile, CommonLemmas

Constant == [type : Types, val : Seq(Nat)]
Data     == [1 .. RecordSize -> Nat]

-----------------------------------------------------------------------------
-----------------------------------------------------------------------------
(* Signature. *)

LEMMA Numbers ==
  /\ PAGESIZE \in Nat /\ PAGESIZE >= 1 /\ TABLE_HEADER_SIZE \in Nat
  /\ MaxRows \in Nat /\ MaxRows >= 1 /\ Len(Fields) \in Nat /\ Len(Fields) >= 1
  /\ Cols = 1 .. Len(Fields)
  /\ \A c \in Cols : Fields[c].type \in Types /\ Size(Fields[c]) \in Nat /\ Size(Fields[c]) >= 1
  /\ \A c \in Cols : /\ Fields[c].type = "INT" => Size(Fields[c]) = IntSize
                     /\ Fields[c].type = "DOUBLE" => Size(Fields[c]) = DoubleSize
                     /\ Fields[c].type = "VARCHAR" => Size(Fields[c]) = Fields[c].len
<1>1. /\ PAGESIZE \in Nat /\ PAGESIZE >= 1 /\ TABLE_HEADER_SIZE \in Nat
      /\ MaxRows \in Nat /\ MaxRows >= 1
  BY LayoutAssumption
<1>2. /\ Fields \in Seq([type : Types, len : Nat]) /\ Fields # <<>>
      /\ Len(Fields) \in Nat /\ DOMAIN Fields = 1 .. Len(Fields)
  BY LayoutAssumption, LenProperties
<1>3. Len(Fields) >= 1
  BY <1>2, EmptySeq
<1>4. ASSUME NEW c \in Cols
      PROVE  /\ Fields[c].type \in Types /\ Size(Fields[c]) \in Nat /\ Size(Fields[c]) >= 1
             /\ Fields[c].type = "INT" => Size(Fields[c]) = IntSize
             /\ Fields[c].type = "DOUBLE" => Size(Fields[c]) = DoubleSize
             /\ Fields[c].type = "VARCHAR" => Size(Fields[c]) = Fields[c].len
  <2>1. Fields[c] \in [type : Types, len : Nat]
    <3>1. c \in 1 .. Len(Fields)
      BY <1>2 DEF Cols
    <3> QED BY <1>2, <3>1, ElementOfSeq
  <2>2. Fields[c].type \in Types /\ Fields[c].len \in Nat
    BY <2>1
  <2>3. IntSize \in Nat /\ DoubleSize \in Nat /\ Size(Fields[c]) > 0
    BY LayoutAssumption
  <2>4. /\ Fields[c].type = "INT" => Size(Fields[c]) = IntSize
        /\ Fields[c].type = "DOUBLE" => Size(Fields[c]) = DoubleSize
        /\ Fields[c].type = "VARCHAR" => Size(Fields[c]) = Fields[c].len
    BY <2>2 DEF Types, Size
  <2> QED BY <2>2, <2>3, <2>4 DEF Types
<1> QED BY <1>1, <1>2, <1>3, <1>4 DEF Cols

OffsetFrom(f) == [c \in 1 .. Len(Fields) + 1 |-> IF c = 1 THEN 0 ELSE f[c - 1] + Size(Fields[c - 1])]

(* Each field begins where the one before it ends. *)
LEMMA Offsets ==
  /\ Offset \in [1 .. Len(Fields) + 1 -> Nat] /\ Offset[1] = 0
  /\ \A c \in Cols : Offset[c + 1] = Offset[c] + Size(Fields[c])
<1>1. PICK n : n = Len(Fields)
  OBVIOUS
<1>2. n \in Nat /\ Cols = 1 .. n /\ \A c \in 1 .. n : Size(Fields[c]) \in Nat
  BY <1>1, Numbers
<1> DEFINE F == [c \in 1 .. n |-> [x \in Nat |-> x + Size(Fields[c])]]
<1>3. F \in [1 .. n -> [Nat -> Nat]]
  BY <1>2
<1>4. \A c \in 1 .. n : \A x \in Nat : F[c][x] = x + Size(Fields[c])
  OBVIOUS
<1> HIDE DEF F
<1>5. 0 \in Nat
  OBVIOUS
<1>6. PICK f \in [0 .. n -> Nat] : f[0] = 0 /\ \A c \in 1 .. n : f[c] = F[c][f[c - 1]]
  <2>1. \E f : Follows(f, n, Nat, 0, F)
    BY <1>2, <1>3, <1>5, Iteration
  <2> QED BY <2>1 DEF Follows
<1> DEFINE g == [c \in 1 .. n + 1 |-> f[c - 1]]
<1>7. ASSUME NEW c \in 1 .. n + 1
      PROVE  g[c] = IF c = 1 THEN 0 ELSE g[c - 1] + Size(Fields[c - 1])
  <2>1. CASE c = 1
    BY <1>2, <1>6, <2>1
  <2>2. CASE c # 1
    <3>1. c - 1 \in 1 .. n /\ c - 1 - 1 \in 0 .. n /\ g[c] = f[c - 1] /\ g[c - 1] = f[c - 1 - 1]
      BY <1>2, <2>2
    <3>2. f[c - 1 - 1] \in Nat
      BY <3>1
    <3> HIDE DEF g
    <3>3. f[c - 1] = f[c - 1 - 1] + Size(Fields[c - 1])
      BY <1>4, <1>6, <3>1, <3>2
    <3> QED BY <2>2, <3>1, <3>3
  <2> QED BY <2>1, <2>2
<1>8. g = OffsetFrom(g)
  BY <1>1, <1>7 DEF OffsetFrom
<1>9. Offset = CHOOSE h : h = OffsetFrom(h)
  BY DEF Offset, OffsetFrom
<1> HIDE DEF g
<1>10. Offset = OffsetFrom(Offset)
  BY <1>8, <1>9, Zenon
<1>11. \A c \in 1 .. n + 1 :
         Offset[c] = IF c = 1 THEN 0 ELSE Offset[c - 1] + Size(Fields[c - 1])
  BY <1>1, <1>10 DEF OffsetFrom
<1>12. DOMAIN Offset = 1 .. n + 1 /\ Offset = [c \in DOMAIN Offset |-> Offset[c]]
  <2>1. PICK h : h = Offset
    OBVIOUS
  <2>2. h = OffsetFrom(h)
    BY <1>10, <2>1
  <2> QED BY <1>1, <2>1, <2>2 DEF OffsetFrom
<1> DEFINE bad == {c \in 1 .. n + 1 : Offset[c] \notin Nat}
<1>13. bad = {}
  <2> SUFFICES ASSUME bad # {} PROVE FALSE
    OBVIOUS
  <2>1. bad \in SUBSET Nat
    BY <1>2
  <2>2. PICK c \in bad : \A d \in bad : c <= d
    BY <2>1, LeastNumber
  <2>3. c \in 1 .. n + 1 /\ Offset[c] \notin Nat
    OBVIOUS
  <2>4. c # 1
    BY <1>11, <2>3
  <2>5. c - 1 \in 1 .. n /\ c - 1 \notin bad
    BY <1>2, <2>2, <2>3, <2>4
  <2>6. Offset[c - 1] \in Nat /\ Size(Fields[c - 1]) \in Nat
    BY <1>2, <2>5
  <2>7. Offset[c] = Offset[c - 1] + Size(Fields[c - 1])
    BY <1>11, <2>3, <2>4
  <2> QED BY <2>3, <2>6, <2>7
<1>14. Offset \in [1 .. n + 1 -> Nat]
  BY <1>12, <1>13
<1>15. Offset[1] = 0
  BY <1>2, <1>11
<1>16. ASSUME NEW c \in 1 .. n PROVE Offset[c + 1] = Offset[c] + Size(Fields[c])
  <2>1. c + 1 \in 1 .. n + 1 /\ c + 1 # 1 /\ c + 1 - 1 = c
    BY <1>2
  <2> QED BY <1>11, <2>1
<1> QED BY <1>1, <1>2, <1>14, <1>15, <1>16

(* A field lies before every later one. *)
LEMMA Ascending ==
  ASSUME NEW c \in Cols, NEW d \in 1 .. Len(Fields) + 1, c < d
  PROVE  Offset[c] + Size(Fields[c]) <= Offset[d]
<1>1. PICK n : n = Len(Fields)
  OBVIOUS
<1>2. /\ n \in Nat /\ Cols = 1 .. n /\ \A e \in 1 .. n : Size(Fields[e]) \in Nat
      /\ \A e \in 1 .. n + 1 : Offset[e] \in Nat
      /\ \A e \in 1 .. n : Offset[e + 1] = Offset[e] + Size(Fields[e])
  BY <1>1, Numbers, Offsets
<1> DEFINE bad == {e \in 1 .. n + 1 : c < e /\ ~(Offset[c + 1] <= Offset[e])}
<1>3. bad = {}
  <2> SUFFICES ASSUME bad # {} PROVE FALSE
    OBVIOUS
  <2>1. bad \in SUBSET Nat
    BY <1>2
  <2>2. PICK e \in bad : \A i \in bad : e <= i
    BY <2>1, LeastNumber
  <2>3. e \in 1 .. n + 1 /\ c < e /\ ~(Offset[c + 1] <= Offset[e])
    OBVIOUS
  <2>4. c \in 1 .. n /\ c + 1 \in 1 .. n + 1
    BY <1>2
  <2>5. e # c + 1
    BY <1>2, <2>3, <2>4
  <2>6. e - 1 \in 1 .. n /\ c < e - 1 /\ e - 1 \notin bad /\ (e - 1) + 1 = e
    BY <1>2, <2>2, <2>3, <2>4, <2>5
  <2>7. Offset[c + 1] <= Offset[e - 1] /\ Offset[e] = Offset[e - 1] + Size(Fields[e - 1])
    <3>1. e - 1 \in 1 .. n + 1
      BY <1>2, <2>6
    <3>2. Offset[(e - 1) + 1] = Offset[e - 1] + Size(Fields[e - 1])
      BY <1>2, <2>6
    <3> QED BY <2>6, <3>1, <3>2
  <2>8. /\ Offset[e - 1] \in Nat /\ Offset[c + 1] \in Nat /\ Offset[e] \in Nat
        /\ Size(Fields[e - 1]) \in Nat
    BY <1>2, <2>3, <2>4, <2>6
  <2> QED BY <2>3, <2>7, <2>8
<1>4. d \notin bad /\ d \in 1 .. n + 1
  BY <1>1, <1>3
<1> QED BY <1>2, <1>4

LEMMA Within ==
  /\ RecordSize \in Nat /\ RecordSize >= 1
  /\ \A c \in Cols : /\ Offset[c] \in Nat /\ Size(Fields[c]) \in Nat /\ Size(Fields[c]) >= 1
                     /\ Offset[c] + Size(Fields[c]) <= RecordSize
<1>1. /\ Len(Fields) \in Nat /\ Len(Fields) >= 1 /\ Cols = 1 .. Len(Fields)
      /\ \A c \in Cols : Size(Fields[c]) \in Nat /\ Size(Fields[c]) >= 1
  BY Numbers
<1>2. \A c \in 1 .. Len(Fields) + 1 : Offset[c] \in Nat
  BY Offsets
<1>3. Len(Fields) + 1 \in 1 .. Len(Fields) + 1 /\ \A c \in Cols : c < Len(Fields) + 1
  BY <1>1
<1>4. \A c \in Cols : Offset[c] + Size(Fields[c]) <= Offset[Len(Fields) + 1]
  BY <1>3, Ascending
<1>5. RecordSize \in Nat /\ 1 \in Cols
  BY <1>1, <1>2, <1>3 DEF RecordSize
<1>6. \A c \in Cols : Offset[c] \in Nat
  BY <1>1, <1>2
<1> QED BY <1>1, <1>4, <1>5, <1>6 DEF RecordSize

(* Two fields have no byte in common. *)
LEMMA Apart ==
  ASSUME NEW c \in Cols, NEW d \in Cols, c # d
  PROVE  \/ Offset[c] + Size(Fields[c]) <= Offset[d]
         \/ Offset[d] + Size(Fields[d]) <= Offset[c]
<1>1. Cols = 1 .. Len(Fields) /\ Len(Fields) \in Nat
  BY Numbers
<1>2. c \in 1 .. Len(Fields) + 1 /\ d \in 1 .. Len(Fields) + 1 /\ (c < d \/ d < c)
  BY <1>1
<1> QED BY <1>2, Ascending

-----------------------------------------------------------------------------
(* Record. *)

IsStored(data, c, v) ==
  \A k \in 1 .. Size(Fields[c]) : data[Offset[c] + k] = IF k <= Len(v) THEN v[k] ELSE 0

(* What a column gives back when it holds it. *)
Fits(c, v) ==
  /\ v \in Seq(Nat) /\ Len(v) <= Size(Fields[c])
  /\ IF Fields[c].type = "VARCHAR" THEN \A k \in 1 .. Len(v) : v[k] # 0
                                   ELSE Len(v) = Size(Fields[c])

SameField(data, new, c) ==
  \A k \in 1 .. Size(Fields[c]) : new[Offset[c] + k] = data[Offset[c] + k]

(* The bytes of a field. *)
IsField(v, data, c) ==
  /\ v \in Seq(Nat) /\ Len(v) = Size(Fields[c])
  /\ \A k \in 1 .. Size(Fields[c]) : v[k] = data[Offset[c] + k]

LEMMA FieldBytes ==
  ASSUME NEW c \in Cols, NEW data \in Data,
         NEW v, v = SubSeq(data, Offset[c] + 1, Offset[c] + Size(Fields[c]))
  PROVE  IsField(v, data, c)
<1>1. PICK n, o, s : n = RecordSize /\ o = Offset[c] /\ s = Size(Fields[c])
  OBVIOUS
<1>2. n \in Nat /\ o \in Nat /\ s \in Nat /\ s >= 1 /\ o + s <= n
  BY <1>1, Within
<1>3. data \in Seq(Nat) /\ Len(data) = n
  <2>1. data \in [1 .. n -> Nat]
    BY <1>1 DEF Data
  <2> QED BY <1>2, <2>1
<1>4. PICK a, b : a = o + 1 /\ b = o + s
  OBVIOUS
<1>5. a \in 1 .. Len(data) + 1 /\ b \in a - 1 .. Len(data) /\ b - a + 1 = s
  BY <1>2, <1>3, <1>4
<1>6. /\ v \in Seq(Nat) /\ Len(v) = b - a + 1
      /\ \A k \in 1 .. b - a + 1 : v[k] = data[a + k - 1]
  <2>1. v = SubSeq(data, a, b)
    BY <1>1, <1>4
  <2>2. /\ SubSeq(data, a, b) \in Seq(Nat) /\ Len(SubSeq(data, a, b)) = b - a + 1
        /\ \A k \in 1 .. b - a + 1 : SubSeq(data, a, b)[k] = data[a + k - 1]
    <3>1. data \in Seq(Nat)
      BY <1>3
    <3> QED BY <1>5, <3>1, PartOf
  <2> QED BY <2>1, <2>2
<1>7. ASSUME NEW k \in 1 .. s PROVE v[k] = data[o + k]
  <2>1. a + k - 1 = o + k
    BY <1>2, <1>4
  <2> QED BY <1>5, <1>6, <2>1
<1> QED BY <1>1, <1>5, <1>6, <1>7 DEF IsField

LEMMA Beginning ==
  ASSUME NEW v \in Seq(Nat), NEW m \in 0 .. Len(v)
  PROVE  /\ SubSeq(v, 1, m) \in Seq(Nat) /\ Len(SubSeq(v, 1, m)) = m
         /\ \A k \in 1 .. m : SubSeq(v, 1, m)[k] = v[k]
<1>1. Len(v) \in Nat
  BY LenProperties
<1>2. 1 \in 1 .. Len(v) + 1 /\ m \in 1 - 1 .. Len(v) /\ m - 1 + 1 = m
  BY <1>1
<1>3. /\ SubSeq(v, 1, m) \in Seq(Nat) /\ Len(SubSeq(v, 1, m)) = m - 1 + 1
      /\ \A k \in 1 .. m - 1 + 1 : SubSeq(v, 1, m)[k] = v[1 + k - 1]
  BY <1>2, PartOf
<1> QED BY <1>2, <1>3

(* Stripped finds the last byte that is not 0. *)
LEMMA StrippedAt ==
  ASSUME NEW v \in Seq(Nat)
  PROVE  \E m \in 0 .. Len(v) :
           /\ Stripped(v) = SubSeq(v, 1, m) /\ (m > 0 => v[m] # 0)
           /\ \A k \in 1 .. Len(v) : m < k => v[k] = 0
<1> DEFINE last == {k \in DOMAIN v : v[k] # 0}
<1>1. Len(v) \in Nat /\ DOMAIN v = 1 .. Len(v)
  BY LenProperties
<1>2. Stripped(v) = SubSeq(v, 1, IF last = {} THEN 0 ELSE CHOOSE k \in last : \A j \in last : j <= k)
  BY DEF Stripped
<1>3. last \in SUBSET (0 .. Len(v)) /\ last \in SUBSET (1 .. Len(v))
  BY <1>1
<1>4. \A k \in 1 .. Len(v) : k \in last <=> v[k] # 0
  BY <1>1
<1> HIDE DEF last
<1>5. CASE last = {}
  BY <1>1, <1>2, <1>4, <1>5
<1>6. CASE last # {}
  <2>1. PICK m : m = CHOOSE k \in last : \A j \in last : j <= k
    OBVIOUS
  <2>2. \E k \in last : \A j \in last : j <= k
    BY <1>1, <1>3, <1>6, Greatest
  <2>3. m \in last /\ \A j \in last : j <= m
    BY <2>1, <2>2, Zenon
  <2>4. m \in 1 .. Len(v) /\ v[m] # 0
    BY <1>3, <1>4, <2>3
  <2>5. ASSUME NEW k \in 1 .. Len(v), m < k PROVE v[k] = 0
    <3>1. k \notin last
      BY <1>1, <2>3, <2>4, <2>5
    <3> QED BY <1>4, <3>1
  <2>6. Stripped(v) = SubSeq(v, 1, m)
    BY <1>2, <1>6, <2>1, Zenon
  <2> QED BY <1>1, <2>4, <2>5, <2>6
<1> QED BY <1>5, <1>6

LEMMA GetTyped ==
  ASSUME NEW c \in Cols, NEW data \in Data
  PROVE  get(data, c) \in Seq(Nat)
<1>1. PICK v : v = SubSeq(data, Offset[c] + 1, Offset[c] + Size(Fields[c]))
  OBVIOUS
<1>2. v \in Seq(Nat)
  <2>1. IsField(v, data, c)
    BY <1>1, FieldBytes
  <2> QED BY <2>1 DEF IsField
<1>3. Stripped(v) \in Seq(Nat)
  <2>1. PICK m \in 0 .. Len(v) : Stripped(v) = SubSeq(v, 1, m)
    BY <1>2, StrippedAt
  <2> QED BY <1>2, <2>1, Beginning
<1>4. get(data, c) = IF Fields[c].type = "VARCHAR" THEN Stripped(v) ELSE v
  BY <1>1 DEF get
<1> QED BY <1>2, <1>3, <1>4

(* A field depends on its own bytes. *)
LEMMA GetSame ==
  ASSUME NEW c \in Cols, NEW data \in Data, NEW new \in Data, SameField(data, new, c)
  PROVE  get(new, c) = get(data, c)
<1>1. PICK v, w : /\ v = SubSeq(data, Offset[c] + 1, Offset[c] + Size(Fields[c]))
                  /\ w = SubSeq(new, Offset[c] + 1, Offset[c] + Size(Fields[c]))
  OBVIOUS
<1>2. /\ v \in Seq(Nat) /\ Len(v) = Size(Fields[c])
      /\ \A k \in 1 .. Size(Fields[c]) : v[k] = data[Offset[c] + k]
  <2>1. IsField(v, data, c)
    BY <1>1, FieldBytes
  <2> QED BY <2>1 DEF IsField
<1>3. /\ w \in Seq(Nat) /\ Len(w) = Size(Fields[c])
      /\ \A k \in 1 .. Size(Fields[c]) : w[k] = new[Offset[c] + k]
  <2>1. IsField(w, new, c)
    BY <1>1, FieldBytes
  <2> QED BY <2>1 DEF IsField
<1>4. \A k \in 1 .. Len(v) : w[k] = v[k]
  BY <1>2, <1>3 DEF SameField
<1>5. v = w
  BY <1>2, <1>3, <1>4, SeqEqual
<1> QED BY <1>1, <1>5 DEF get

(* What is stored in a field comes back. *)
LEMMA GetStored ==
  ASSUME NEW c \in Cols, NEW data \in Data, NEW x, Fits(c, x), IsStored(data, c, x)
  PROVE  get(data, c) = x
<1>1. PICK v : v = SubSeq(data, Offset[c] + 1, Offset[c] + Size(Fields[c]))
  OBVIOUS
<1>2. /\ v \in Seq(Nat) /\ Len(v) = Size(Fields[c])
      /\ \A k \in 1 .. Size(Fields[c]) : v[k] = data[Offset[c] + k]
  <2>1. IsField(v, data, c)
    BY <1>1, FieldBytes
  <2> QED BY <2>1 DEF IsField
<1>3. \A k \in 1 .. Len(v) : v[k] = IF k <= Len(x) THEN x[k] ELSE 0
  BY <1>2 DEF IsStored
<1>4. /\ x \in Seq(Nat) /\ Len(x) \in Nat /\ Len(v) \in Nat /\ Len(x) <= Len(v)
  BY <1>2, LenProperties DEF Fits
<1>5. get(data, c) = IF Fields[c].type = "VARCHAR" THEN Stripped(v) ELSE v
  BY <1>1 DEF get
<1>6. CASE Fields[c].type # "VARCHAR"
  <2>1. Len(x) = Len(v)
    BY <1>2, <1>6 DEF Fits
  <2>2. \A k \in 1 .. Len(v) : v[k] = x[k]
    BY <1>3, <1>4, <2>1
  <2>3. v = x
    BY <1>2, <1>4, <2>1, <2>2, SeqEqual
  <2> QED BY <1>5, <1>6, <2>3
<1>7. CASE Fields[c].type = "VARCHAR"
  <2>1. \A k \in 1 .. Len(x) : x[k] # 0
    BY <1>7 DEF Fits
  <2>2. PICK m \in 0 .. Len(v) :
          /\ Stripped(v) = SubSeq(v, 1, m) /\ (m > 0 => v[m] # 0)
          /\ \A k \in 1 .. Len(v) : m < k => v[k] = 0
    BY <1>2, StrippedAt
  <2>3. m = Len(x)
    <3>1. ~(m > Len(x))
      <4> SUFFICES ASSUME m > Len(x) PROVE FALSE
        OBVIOUS
      <4>1. m \in 1 .. Len(v) /\ m > 0 /\ ~(m <= Len(x))
        BY <1>4
      <4>2. v[m] = 0
        BY <1>3, <4>1
      <4> QED BY <2>2, <4>1, <4>2
    <3>2. ~(m < Len(x))
      <4> SUFFICES ASSUME m < Len(x) PROVE FALSE
        OBVIOUS
      <4>1. Len(x) \in 1 .. Len(v) /\ Len(x) \in 1 .. Len(x) /\ Len(x) <= Len(x)
        BY <1>4
      <4>2. v[Len(x)] = x[Len(x)] /\ x[Len(x)] # 0
        BY <1>3, <2>1, <4>1
      <4>3. v[Len(x)] = 0
        BY <2>2, <4>1
      <4> QED BY <4>2, <4>3
    <3> QED BY <1>4, <3>1, <3>2
  <2>4. PICK w : w = SubSeq(v, 1, m)
    OBVIOUS
  <2>5. w \in Seq(Nat) /\ Len(w) = m /\ \A k \in 1 .. m : w[k] = v[k]
    BY <1>2, <2>4, Beginning
  <2>6. ASSUME NEW k \in 1 .. m PROVE w[k] = x[k]
    <3>1. k \in 1 .. Len(v) /\ k <= Len(x)
      BY <1>4, <2>3
    <3> QED BY <1>3, <2>5, <3>1
  <2>7. w = x
    BY <1>4, <2>3, <2>5, <2>6, SeqEqual
  <2> QED BY <1>5, <1>7, <2>2, <2>4, <2>7
<1> QED BY <1>6, <1>7

(* A record made of zeros, and every field of which nothing was read. *)
LEMMA ZerosFit ==
  ASSUME NEW c \in Cols
  PROVE  /\ Fits(c, Zeros(c))
         /\ \A data : (\A k \in 1 .. Size(Fields[c]) : data[Offset[c] + k] = 0)
                        => IsStored(data, c, Zeros(c))
<1>1. PICK s : s = Size(Fields[c])
  OBVIOUS
<1>2. s \in Nat
  BY <1>1, Within
<1>3. CASE Fields[c].type = "VARCHAR"
  <2>1. Zeros(c) = <<>>
    BY <1>3 DEF Zeros
  <2>2. <<>> \in Seq(Nat) /\ Len(<<>>) = 0
    OBVIOUS
  <2> QED BY <1>1, <1>2, <1>3, <2>1, <2>2 DEF Fits, IsStored
<1>4. CASE Fields[c].type # "VARCHAR"
  <2>1. Zeros(c) = [k \in 1 .. s |-> 0]
    BY <1>1, <1>4 DEF Zeros
  <2>2. PICK z : z = [k \in 1 .. s |-> 0]
    OBVIOUS
  <2>3. z \in [1 .. s -> Nat] /\ \A k \in 1 .. s : z[k] = 0
    BY <2>2
  <2>4. z \in Seq(Nat) /\ Len(z) = s
    BY <1>2, <2>3
  <2> QED BY <1>1, <1>2, <1>4, <2>1, <2>2, <2>3, <2>4 DEF Fits, IsStored
<1> QED BY <1>3, <1>4

-----------------------------------------------------------------------------
(* Setting a field. *)

IsConstant(l) ==
  /\ l \in Constant
  /\ l.type = "INT" => Len(l.val) = IntSize
  /\ l.type = "DOUBLE" => Len(l.val) = DoubleSize
  /\ l.type = "VARCHAR" => \A k \in 1 .. Len(l.val) : l.val[k] # 0

LEMMA Constants ==
  /\ \A l \in Literals : IsConstant(l)
  /\ \A v \in ValueLists : DOMAIN v \subseteq Cols /\ \A c \in DOMAIN v : IsConstant(v[c])
<1>1. ASSUME NEW l, l \in Literals \cup UNION {{v[c] : c \in DOMAIN v} : v \in ValueLists}
      PROVE  IsConstant(l)
  <2>1. /\ l \in [type : Types, val : Seq(Nat)]
        /\ l.type = "INT" => Len(l.val) = IntSize
        /\ l.type = "DOUBLE" => Len(l.val) = DoubleSize
        /\ l.type = "VARCHAR" => \A i \in DOMAIN l.val : l.val[i] # 0
    BY <1>1, LayoutAssumption
  <2>2. l.val \in Seq(Nat)
    BY <2>1
  <2>3. DOMAIN l.val = 1 .. Len(l.val)
    BY <2>2, LenProperties
  <2> QED BY <2>1, <2>3 DEF IsConstant, Constant
<1>2. \A v \in ValueLists : DOMAIN v \subseteq Cols
  BY LayoutAssumption
<1> QED BY <1>1, <1>2

(* The bytes that setting takes. *)
Width(c, l) == IF l.type = "VARCHAR" THEN Size(Fields[c]) ELSE Len(l.val)

LEMMA SetIs ==
  ASSUME NEW c \in Cols, NEW data \in Data, NEW l, IsConstant(l)
  PROVE  /\ set(data, c, l) \in Data
         /\ \A k \in 1 .. RecordSize :
              k <= Offset[c] \/ Offset[c] + Width(c, l) < k => set(data, c, l)[k] = data[k]
         /\ \A k \in 1 .. Width(c, l) :
              Offset[c] + k <= RecordSize =>
                set(data, c, l)[Offset[c] + k] = IF k <= Len(l.val) THEN l.val[k] ELSE 0
<1>1. PICK n, o, s, x : n = RecordSize /\ o = Offset[c] /\ s = Width(c, l) /\ x = l.val
  OBVIOUS
<1>2. x \in Seq(Nat) /\ Len(x) \in Nat /\ \A k \in 1 .. Len(x) : x[k] \in Nat
  <2>1. x \in Seq(Nat)
    BY <1>1 DEF IsConstant, Constant
  <2> QED BY <2>1, LenProperties, ElementOfSeq
<1>3. n \in Nat /\ o \in Nat /\ s \in Nat
  BY <1>1, <1>2, Within DEF Width
<1>4. PICK v : v = IF l.type = "VARCHAR" THEN Padded(x, Size(Fields[c])) ELSE x
  OBVIOUS
<1>5. DOMAIN v = 1 .. s /\ \A k \in 1 .. s : v[k] \in Nat /\ v[k] = IF k <= Len(x) THEN x[k] ELSE 0
  <2>1. CASE l.type = "VARCHAR"
    <3>1. v = [k \in 1 .. s |-> IF k <= Len(x) THEN x[k] ELSE 0]
      BY <1>1, <1>4, <2>1 DEF Padded, Width
    <3>2. \A k \in 1 .. s : k <= Len(x) => x[k] \in Nat
      BY <1>2
    <3> QED BY <3>1, <3>2
  <2>2. CASE l.type # "VARCHAR"
    <3>1. v = x /\ s = Len(x)
      BY <1>1, <1>4, <2>2 DEF Width
    <3>2. DOMAIN x = 1 .. Len(x)
      BY <1>2, LenProperties
    <3> QED BY <1>2, <3>1, <3>2
  <2> QED BY <2>1, <2>2
<1>6. PICK new : new = set(data, c, l)
  OBVIOUS
<1>7. data \in [1 .. n -> Nat]
  BY <1>1 DEF Data
<1>8. new = [k \in 1 .. n |-> IF k - o \in 1 .. s THEN v[k - o] ELSE data[k]]
  <2>1. new = [k \in DOMAIN data |-> IF k - o \in DOMAIN v THEN v[k - o] ELSE data[k]]
    BY <1>1, <1>4, <1>6 DEF set, Put
  <2> QED BY <1>5, <1>7, <2>1
<1>9. new \in [1 .. n -> Nat]
  BY <1>5, <1>7, <1>8
<1>10. ASSUME NEW k \in 1 .. n, k <= o \/ o + s < k PROVE new[k] = data[k]
  <2>1. k - o \notin 1 .. s
    BY <1>3, <1>10
  <2> QED BY <1>8, <2>1
<1>11. ASSUME NEW k \in 1 .. s, o + k <= n
       PROVE  new[o + k] = IF k <= Len(x) THEN x[k] ELSE 0
  <2>1. o + k \in 1 .. n /\ (o + k) - o = k
    BY <1>3, <1>11
  <2>2. new[o + k] = v[k]
    BY <1>8, <2>1
  <2> QED BY <1>5, <2>2
<1> QED BY <1>1, <1>6, <1>9, <1>10, <1>11 DEF Data

LEMMA HeldFits ==
  ASSUME NEW c \in Cols, NEW l, IsConstant(l), l.type = Fields[c].type
  PROVE  /\ Fits(c, Held(c, l)) /\ Width(c, l) = Size(Fields[c])
         /\ \A k \in 1 .. Size(Fields[c]) :
              (IF k <= Len(Held(c, l)) THEN Held(c, l)[k] ELSE 0)
                = (IF k <= Len(l.val) THEN l.val[k] ELSE 0)
<1>1. PICK s, x, h : s = Size(Fields[c]) /\ x = l.val /\ h = Held(c, l)
  OBVIOUS
<1>2. x \in Seq(Nat) /\ Len(x) \in Nat /\ s \in Nat
  <2>1. x \in Seq(Nat)
    BY <1>1 DEF IsConstant, Constant
  <2> QED BY <1>1, <2>1, LenProperties, Within
<1>3. CASE l.type # "VARCHAR"
  <2>1. Fields[c].type \in {"INT", "DOUBLE", "VARCHAR"}
    BY Numbers DEF Types
  <2>2. Len(x) = s
    <3>1. CASE l.type = "INT"
      BY <1>1, <3>1, Numbers DEF IsConstant
    <3>2. CASE l.type = "DOUBLE"
      BY <1>1, <3>2, Numbers DEF IsConstant
    <3> QED BY <1>3, <2>1, <3>1, <3>2
  <2>3. h = x
    BY <1>1, <1>3 DEF Held
  <2> QED BY <1>1, <1>2, <1>3, <2>2, <2>3 DEF Fits, Width
<1>4. CASE l.type = "VARCHAR"
  <2>1. s = Fields[c].len
    BY <1>1, <1>4, Numbers
  <2>2. \A k \in 1 .. Len(x) : x[k] # 0
    BY <1>1, <1>4 DEF IsConstant
  <2>3. CASE Len(x) > s
    <3>1. h = SubSeq(x, 1, s)
      BY <1>1, <1>4, <2>1, <2>3 DEF Held
    <3>2. s \in 0 .. Len(x)
      BY <1>2, <2>3
    <3>3. h \in Seq(Nat) /\ Len(h) = s /\ \A k \in 1 .. s : h[k] = x[k]
      BY <1>2, <3>1, <3>2, Beginning
    <3>4. \A k \in 1 .. s : k \in 1 .. Len(x) /\ k <= s /\ k <= Len(x)
      BY <1>2, <2>3
    <3>5. \A k \in 1 .. s : h[k] # 0
      BY <2>2, <3>3, <3>4
    <3>6. Fits(c, h) /\ Width(c, l) = s
      BY <1>1, <1>2, <1>4, <3>3, <3>5 DEF Fits, Width
    <3>7. \A k \in 1 .. s :
            (IF k <= Len(h) THEN h[k] ELSE 0) = (IF k <= Len(x) THEN x[k] ELSE 0)
      BY <3>3, <3>4
    <3> QED BY <1>1, <3>6, <3>7
  <2>4. CASE ~(Len(x) > s)
    <3>1. h = x
      BY <1>1, <1>4, <2>1, <2>4 DEF Held
    <3> QED BY <1>1, <1>2, <1>4, <2>2, <2>4, <3>1 DEF Fits, Width
  <2> QED BY <2>3, <2>4
<1> QED BY <1>3, <1>4

(* A constant of the type of the column is stored, cut to its length. *)
LEMMA SetStores ==
  ASSUME NEW c \in Cols, NEW data \in Data, NEW l, IsConstant(l), l.type = Fields[c].type
  PROVE  IsStored(set(data, c, l), c, Held(c, l)) /\ Fits(c, Held(c, l))
<1>1. PICK h, new : h = Held(c, l) /\ new = set(data, c, l)
  OBVIOUS
<1>2. /\ Fits(c, h) /\ Width(c, l) = Size(Fields[c])
      /\ \A k \in 1 .. Size(Fields[c]) :
           (IF k <= Len(h) THEN h[k] ELSE 0) = (IF k <= Len(l.val) THEN l.val[k] ELSE 0)
  BY <1>1, HeldFits
<1>3. ASSUME NEW k \in 1 .. Size(Fields[c])
      PROVE  new[Offset[c] + k] = IF k <= Len(l.val) THEN l.val[k] ELSE 0
  <2>1. Offset[c] + k <= RecordSize
    BY Within
  <2> QED BY <1>1, <1>2, <2>1, SetIs
<1> QED BY <1>1, <1>2, <1>3 DEF IsStored

(* Fields that are not written over stay. *)
LEMMA SetLeaves ==
  ASSUME NEW c \in Cols, NEW d \in Cols, NEW data \in Data, NEW l, IsConstant(l),
         \/ Offset[d] + Size(Fields[d]) <= Offset[c]
         \/ Offset[c] + Width(c, l) <= Offset[d]
  PROVE  SameField(data, set(data, c, l), d)
<1>1. /\ Offset[c] \in Nat /\ Offset[d] \in Nat /\ Size(Fields[d]) \in Nat /\ RecordSize \in Nat
      /\ Offset[d] + Size(Fields[d]) <= RecordSize
  BY Within
<1>2. Width(c, l) \in Nat
  <2>1. l.val \in Seq(Nat)
    BY DEF IsConstant, Constant
  <2>2. Len(l.val) \in Nat /\ Size(Fields[c]) \in Nat
    BY <2>1, LenProperties, Within
  <2> QED BY <2>2 DEF Width
<1>3. ASSUME NEW k \in 1 .. Size(Fields[d])
      PROVE  set(data, c, l)[Offset[d] + k] = data[Offset[d] + k]
  <2>1. PICK b : b = Offset[d] + k
    OBVIOUS
  <2>2. b \in 1 .. RecordSize /\ (b <= Offset[c] \/ Offset[c] + Width(c, l) < b)
    BY <1>1, <1>2, <2>1
  <2> QED BY <2>1, <2>2, SetIs
<1> QED BY <1>3 DEF SameField

-----------------------------------------------------------------------------
(* The record of INSERT. *)

LEMMA StaysStored ==
  ASSUME NEW c \in Cols, NEW data, NEW new, NEW v, IsStored(data, c, v), SameField(data, new, c)
  PROVE  IsStored(new, c, v)
BY DEF IsStored, SameField

RecordFrom(named, f) ==
  [c \in 0 .. Len(Fields) |->
     IF c = 0 THEN Blank
     ELSE IF c \in DOMAIN named THEN set(f[c - 1], c, named[c]) ELSE f[c - 1]]

Value(named, c) == IF c \in DOMAIN named THEN Held(c, named[c]) ELSE Zeros(c)

(* The fields of the first m columns have been set. *)
SetUpTo(named, m, data) ==
  /\ data \in Data
  /\ \A c \in Cols : IsStored(data, c, IF c <= m THEN Value(named, c) ELSE Zeros(c))

LEMMA BlankIs == Blank \in Data /\ \A k \in 1 .. RecordSize : Blank[k] = 0
BY DEF Blank, Data

LEMMA RecordEquation ==
  ASSUME NEW named, DOMAIN named \subseteq Cols, \A c \in DOMAIN named : IsConstant(named[c])
  PROVE  \E f : f = RecordFrom(named, f) /\ Record(named) = f[Len(Fields)]
<1>1. PICK n : n = Len(Fields)
  OBVIOUS
<1>2. n \in Nat /\ Cols = 1 .. n
  BY <1>1, Numbers
<1> DEFINE Step(c) == [d \in Data |-> IF c \in DOMAIN named THEN set(d, c, named[c]) ELSE d]
           F == [c \in 1 .. n |-> Step(c)]
<1>3. F \in [1 .. n -> [Data -> Data]]
  <2>1. ASSUME NEW c \in 1 .. n, NEW d \in Data
        PROVE  (IF c \in DOMAIN named THEN set(d, c, named[c]) ELSE d) \in Data
    BY <1>2, <2>1, SetIs
  <2> QED BY <2>1
<1>4. \A c \in 1 .. n : \A d \in Data :
        F[c][d] = IF c \in DOMAIN named THEN set(d, c, named[c]) ELSE d
  OBVIOUS
<1> HIDE DEF F
<1>5. \E f : Follows(f, n, Data, Blank, F)
  BY <1>2, <1>3, BlankIs, Iteration
<1>6. PICK f : Follows(f, n, Data, Blank, F)
  BY <1>5
<1>7. f \in [0 .. n -> Data] /\ f[0] = Blank /\ \A c \in 1 .. n : f[c] = F[c][f[c - 1]]
  BY <1>6 DEF Follows
<1>8. ASSUME NEW c \in 0 .. n
      PROVE  f[c] = IF c = 0 THEN Blank
                    ELSE IF c \in DOMAIN named THEN set(f[c - 1], c, named[c]) ELSE f[c - 1]
  <2>1. CASE c = 0
    BY <1>7, <2>1
  <2>2. CASE c # 0
    <3>1. c \in 1 .. n /\ c - 1 \in 0 .. n
      BY <1>2, <2>2
    <3>2. f[c - 1] \in Data /\ f[c] = F[c][f[c - 1]]
      BY <1>7, <3>1
    <3> QED BY <1>4, <2>2, <3>1, <3>2
  <2> QED BY <2>1, <2>2
<1>9. f = RecordFrom(named, f)
  BY <1>1, <1>7, <1>8 DEF RecordFrom
<1>10. Record(named) = (CHOOSE g : g = RecordFrom(named, g))[Len(Fields)]
  BY DEF Record, RecordFrom
<1>11. PICK g : g = CHOOSE h : h = RecordFrom(named, h)
  OBVIOUS
<1>12. g = RecordFrom(named, g)
  BY <1>9, <1>11, Zenon
<1> QED BY <1>10, <1>11, <1>12

LEMMA SetNext ==
  ASSUME NEW named, DOMAIN named \subseteq Cols, \A c \in DOMAIN named : IsConstant(named[c]),
         \A c \in DOMAIN named : named[c].type = Fields[c].type,
         NEW m \in Cols, NEW data, SetUpTo(named, m - 1, data), NEW new,
         new = IF m \in DOMAIN named THEN set(data, m, named[m]) ELSE data
  PROVE  SetUpTo(named, m, new)
<1>1. Cols = 1 .. Len(Fields) /\ Len(Fields) \in Nat
  BY Numbers
<1>2. \A c \in Cols : c # m => (c <= m - 1 <=> c <= m)
  BY <1>1
<1>3. ~(m <= m - 1) /\ m <= m
  BY <1>1
<1>4. CASE m \notin DOMAIN named
  <2>1. Value(named, m) = Zeros(m) /\ new = data
    BY <1>4 DEF Value
  <2>2. ASSUME NEW c \in Cols
        PROVE  (IF c <= m - 1 THEN Value(named, c) ELSE Zeros(c))
                 = (IF c <= m THEN Value(named, c) ELSE Zeros(c))
    BY <1>2, <1>3, <2>1
  <2> QED BY <2>1, <2>2 DEF SetUpTo
<1>5. CASE m \in DOMAIN named
  <2>1. new = set(data, m, named[m]) /\ Value(named, m) = Held(m, named[m])
    BY <1>5 DEF Value
  <2>2. data \in Data /\ IsConstant(named[m]) /\ named[m].type = Fields[m].type
    BY <1>5 DEF SetUpTo
  <2>3. new \in Data
    BY <2>1, <2>2, SetIs
  <2>4. IsStored(new, m, Value(named, m))
    BY <2>1, <2>2, SetStores
  <2>5. Width(m, named[m]) = Size(Fields[m])
    BY <2>2, HeldFits
  <2>6. ASSUME NEW c \in Cols, c # m
        PROVE  IsStored(new, c, IF c <= m THEN Value(named, c) ELSE Zeros(c))
    <3>1. PICK v : v = IF c <= m - 1 THEN Value(named, c) ELSE Zeros(c)
      OBVIOUS
    <3>2. v = IF c <= m THEN Value(named, c) ELSE Zeros(c)
      BY <1>2, <2>6, <3>1
    <3>3. IsStored(data, c, v)
      BY <3>1 DEF SetUpTo
    <3>4. \/ Offset[c] + Size(Fields[c]) <= Offset[m]
          \/ Offset[m] + Width(m, named[m]) <= Offset[c]
      BY <2>5, <2>6, Apart
    <3>5. SameField(data, new, c)
      BY <2>1, <2>2, <3>4, SetLeaves
    <3> QED BY <3>2, <3>3, <3>5, StaysStored
  <2> QED BY <1>3, <2>3, <2>4, <2>6 DEF SetUpTo
<1> QED BY <1>4, <1>5

(* The record holds the constants of the columns that are named, and zeros. *)
LEMMA RecordIs ==
  ASSUME NEW named, DOMAIN named \subseteq Cols, \A c \in DOMAIN named : IsConstant(named[c]),
         \A c \in DOMAIN named : named[c].type = Fields[c].type
  PROVE  /\ Record(named) \in Data
         /\ \A c \in Cols : /\ get(Record(named), c) = Value(named, c)
                            /\ Value(named, c) \in Seq(Nat)
<1>1. PICK n : n = Len(Fields)
  OBVIOUS
<1>2. n \in Nat /\ n >= 1 /\ Cols = 1 .. n
  BY <1>1, Numbers
<1>3. PICK f : f = RecordFrom(named, f) /\ Record(named) = f[n]
  BY <1>1, RecordEquation
<1>4. \A c \in 0 .. n :
        f[c] = IF c = 0 THEN Blank
               ELSE IF c \in DOMAIN named THEN set(f[c - 1], c, named[c]) ELSE f[c - 1]
  <2>1. PICK g : g = f
    OBVIOUS
  <2>2. g = RecordFrom(named, f)
    BY <1>3, <2>1
  <2>3. \A c \in 0 .. n :
          g[c] = IF c = 0 THEN Blank
                 ELSE IF c \in DOMAIN named THEN set(f[c - 1], c, named[c]) ELSE f[c - 1]
    BY <1>1, <2>2 DEF RecordFrom
  <2> QED BY <2>1, <2>3
<1>5. SetUpTo(named, 0, f[0])
  <2>1. f[0] = Blank
    <3>1. 0 \in 0 .. n
      BY <1>2
    <3> QED BY <1>4, <3>1
  <2>2. ASSUME NEW c \in Cols PROVE IsStored(Blank, c, Zeros(c)) /\ ~(c <= 0)
    <3>1. \A k \in 1 .. Size(Fields[c]) : Offset[c] + k \in 1 .. RecordSize
      BY Within
    <3>2. \A k \in 1 .. Size(Fields[c]) : Blank[Offset[c] + k] = 0
      BY <3>1, BlankIs
    <3> QED BY <1>2, <3>2, ZerosFit
  <2> QED BY <2>1, <2>2, BlankIs DEF SetUpTo
<1> DEFINE bad == {m \in 0 .. n : ~SetUpTo(named, m, f[m])}
<1>6. bad = {}
  <2> SUFFICES ASSUME bad # {} PROVE FALSE
    OBVIOUS
  <2>1. bad \in SUBSET Nat
    BY <1>2
  <2>2. PICK m \in bad : \A i \in bad : m <= i
    <3> HIDE DEF bad
    <3> QED BY <2>1, LeastNumber
  <2>3. m \in 0 .. n /\ ~SetUpTo(named, m, f[m])
    OBVIOUS
  <2>4. m # 0
    BY <1>5, <2>3
  <2>5. m \in Cols /\ m - 1 \in 0 .. n /\ m - 1 \notin bad
    BY <1>2, <2>2, <2>3, <2>4
  <2>6. SetUpTo(named, m - 1, f[m - 1])
    BY <2>5
  <2>7. f[m] = IF m \in DOMAIN named THEN set(f[m - 1], m, named[m]) ELSE f[m - 1]
    BY <1>4, <2>3, <2>4
  <2>8. SetUpTo(named, m, f[m])
    BY <2>5, <2>6, <2>7, SetNext
  <2> QED BY <2>3, <2>8
<1>7. SetUpTo(named, n, Record(named))
  <2>1. n \in 0 .. n
    BY <1>2
  <2> QED BY <1>3, <1>6, <2>1
<1>8. ASSUME NEW c \in Cols PROVE Fits(c, Value(named, c))
  <2>1. CASE c \in DOMAIN named
    BY <2>1, HeldFits DEF Value
  <2>2. CASE c \notin DOMAIN named
    BY <2>2, ZerosFit DEF Value
  <2> QED BY <2>1, <2>2
<1>9. ASSUME NEW c \in Cols
      PROVE  get(Record(named), c) = Value(named, c) /\ Value(named, c) \in Seq(Nat)
  <2>1. c <= n
    BY <1>2
  <2>2. IsStored(Record(named), c, Value(named, c)) /\ Record(named) \in Data
    BY <1>7, <2>1 DEF SetUpTo
  <2>3. get(Record(named), c) = Value(named, c)
    BY <1>8, <2>2, GetStored
  <2> QED BY <1>8, <2>3 DEF Fits
<1> QED BY <1>7, <1>9 DEF SetUpTo

-----------------------------------------------------------------------------
(* IndexFile. *)

LEMMA Addresses ==
  ASSUME NEW pos \in Pos
  PROVE  /\ pos \in Nat /\ Address(pos) \in Nat
         /\ \A k \in 1 .. RecordSize : Address(pos) + k - 1 \in FileBytes
<1>1. PICK n, h, m : n = RecordSize /\ h = TABLE_HEADER_SIZE /\ m = MaxRows
  OBVIOUS
<1>2. n \in Nat /\ n >= 1 /\ h \in Nat /\ m \in Nat /\ pos \in Nat /\ pos + 1 <= m
  BY <1>1, Numbers, Within DEF Pos
<1>3. n * (pos + 1) <= n * m /\ n * pos \in Nat /\ n * m \in Nat /\ n * (pos + 1) = n * pos + n
  BY <1>2
<1>4. PICK a, b : a = n * pos /\ b = n * m
  OBVIOUS
<1>5. a \in Nat /\ b \in Nat /\ a + n <= b
  BY <1>3, <1>4
<1>6. Address(pos) = h + a /\ FileBytes = h .. h + b - 1
  BY <1>1, <1>4 DEF Address, FileBytes
<1>7. \A k \in 1 .. n : h + a + k - 1 \in h .. h + b - 1
  BY <1>2, <1>5
<1> QED BY <1>1, <1>2, <1>5, <1>6, <1>7

(* Two records have no byte in common. *)
LEMMA RowsApart ==
  ASSUME NEW pos \in Pos, NEW other \in Pos, pos # other, NEW k \in 1 .. RecordSize
  PROVE  (Address(other) + k - 1) - Address(pos) + 1 \notin 1 .. RecordSize
<1>1. PICK n, h : n = RecordSize /\ h = TABLE_HEADER_SIZE
  OBVIOUS
<1>2. n \in Nat /\ n >= 1 /\ h \in Nat /\ pos \in Nat /\ other \in Nat
  BY <1>1, Numbers, Within, Addresses
<1>3. PICK a, b : a = n * pos /\ b = n * other
  OBVIOUS
<1>4. a \in Nat /\ b \in Nat
  BY <1>2, <1>3
<1>5. a + n <= b \/ b + n <= a
  <2>1. CASE pos < other
    <3>1. n * (pos + 1) <= n * other /\ n * (pos + 1) = n * pos + n
      BY <1>2, <2>1
    <3> QED BY <1>3, <3>1
  <2>2. CASE other < pos
    <3>1. n * (other + 1) <= n * pos /\ n * (other + 1) = n * other + n
      BY <1>2, <2>2
    <3> QED BY <1>3, <3>1
  <2> QED BY <1>2, <2>1, <2>2
<1>6. Address(pos) = h + a /\ Address(other) = h + b
  BY <1>1, <1>3 DEF Address
<1>7. (h + b + k - 1) - (h + a) + 1 \notin 1 .. n
  BY <1>1, <1>2, <1>4, <1>5
<1> QED BY <1>1, <1>6, <1>7

(* A call reaches the end of the record or the end of the page. *)
LEMMA Reached ==
  ASSUME NEW pos \in Pos
  PROVE  /\ Reach(Address(pos), RecordSize) \in 1 .. RecordSize
         /\ \A c \in Cols : InPage(pos, c)
              => Offset[c] + Size(Fields[c]) <= Reach(Address(pos), RecordSize)
         /\ \A c \in Cols : Offset[c] >= PAGESIZE - (Address(pos) % PAGESIZE)
              => Reach(Address(pos), RecordSize) <= Offset[c]
<1>1. PICK n, p, r : n = RecordSize /\ p = PAGESIZE /\ r = Address(pos) % PAGESIZE
  OBVIOUS
<1>2. n \in Nat /\ n >= 1 /\ p \in Nat /\ p >= 1 /\ r \in 0 .. p - 1
  <2>1. PICK a : a = Address(pos)
    OBVIOUS
  <2>2. a \in Nat /\ p \in Nat /\ p >= 1
    BY <1>1, <2>1, Addresses, Numbers
  <2>3. a % p \in 0 .. p - 1
    BY <2>2
  <2> QED BY <1>1, <2>1, <2>2, <2>3, Within
<1>3. Reach(Address(pos), RecordSize) = IF r + n > p THEN p - r ELSE n
  BY <1>1 DEF Reach
<1>4. \A c \in Cols : /\ Offset[c] \in Nat /\ Size(Fields[c]) \in Nat /\ Size(Fields[c]) >= 1
                      /\ Offset[c] + Size(Fields[c]) <= n
  BY <1>1, Within
<1>5. ASSUME NEW c \in Cols, InPage(pos, c)
      PROVE  Offset[c] + Size(Fields[c]) <= Reach(Address(pos), RecordSize)
  <2>1. Offset[c] + Size(Fields[c]) <= p - r
    BY <1>1, <1>5 DEF InPage
  <2> QED BY <1>3, <1>4, <2>1
<1>6. ASSUME NEW c \in Cols, Offset[c] >= p - r
      PROVE  Reach(Address(pos), RecordSize) <= Offset[c]
  BY <1>2, <1>3, <1>4, <1>6
<1>7. Reach(Address(pos), RecordSize) \in 1 .. RecordSize
  BY <1>1, <1>2, <1>3
<1> QED BY <1>1, <1>5, <1>6, <1>7

LEMMA RecordRead ==
  ASSUME bytes \in [FileBytes -> Nat], NEW pos \in Pos
  PROVE  getRecord(pos) \in Data
<1>1. \A k \in 1 .. RecordSize : bytes[Address(pos) + k - 1] \in Nat
  BY Addresses
<1> QED BY <1>1 DEF getRecord, Data

(* What writing a record changes. *)
LEMMA RecordWritten ==
  ASSUME bytes \in [FileBytes -> Nat], NEW pos \in Pos, NEW data \in Data,
         bytes' = Written(pos, data)
  PROVE  /\ bytes' \in [FileBytes -> Nat] /\ getRecord(pos)' \in Data
         /\ \A c \in Cols : InPage(pos, c) => get(getRecord(pos)', c) = get(data, c)
         /\ \A other \in Pos : other # pos => getRecord(other)' = getRecord(other)
<1>1. PICK n, r, a : n = RecordSize /\ r = Reach(Address(pos), RecordSize) /\ a = Address(pos)
  OBVIOUS
<1>2. n \in Nat /\ r \in 1 .. n /\ a \in Nat
  BY <1>1, Within, Reached, Addresses
<1>3. data \in [1 .. n -> Nat]
  BY <1>1 DEF Data
<1>4. bytes' = [x \in FileBytes |-> IF x - a + 1 \in 1 .. r THEN data[x - a + 1] ELSE bytes[x]]
  BY <1>1 DEF Written
<1>5. \A x : x - a + 1 \in 1 .. r => x - a + 1 \in 1 .. n
  BY <1>2
<1>6. bytes' \in [FileBytes -> Nat]
  BY <1>3, <1>4, <1>5
<1>7. \A k \in 1 .. n : a + k - 1 \in FileBytes
  BY <1>1, Addresses
<1>8. PICK new : new = getRecord(pos)'
  OBVIOUS
<1>9. new = [k \in 1 .. n |-> IF k <= r THEN bytes'[a + k - 1] ELSE 0]
  BY <1>1, <1>8 DEF getRecord
<1>10. ASSUME NEW k \in 1 .. n, k <= r PROVE new[k] = data[k]
  <2>1. PICK x : x = a + k - 1
    OBVIOUS
  <2>2. x \in FileBytes /\ x - a + 1 = k /\ k \in 1 .. r
    BY <1>2, <1>7, <1>10, <2>1
  <2>3. bytes'[x] = data[k]
    BY <1>4, <2>2
  <2> QED BY <1>9, <1>10, <2>1, <2>3
<1>11. new \in Data
  <2>1. \A k \in 1 .. n : bytes'[a + k - 1] \in Nat
    BY <1>6, <1>7
  <2> QED BY <1>1, <1>9, <2>1 DEF Data
<1>12. ASSUME NEW c \in Cols, InPage(pos, c) PROVE get(new, c) = get(data, c)
  <2>1. /\ Offset[c] + Size(Fields[c]) <= r /\ Offset[c] \in Nat /\ Size(Fields[c]) \in Nat
    BY <1>1, <1>12, Reached, Within
  <2>2. \A k \in 1 .. Size(Fields[c]) : Offset[c] + k \in 1 .. n /\ Offset[c] + k <= r
    BY <1>2, <2>1
  <2>3. SameField(data, new, c)
    BY <1>10, <2>2 DEF SameField
  <2> QED BY <1>11, <2>3, GetSame
<1>13. ASSUME NEW other \in Pos, other # pos PROVE getRecord(other)' = getRecord(other)
  <2>1. PICK b, s : b = Address(other) /\ s = Reach(Address(other), RecordSize)
    OBVIOUS
  <2>2. ASSUME NEW k \in 1 .. n PROVE bytes'[b + k - 1] = bytes[b + k - 1]
    <3>1. PICK x : x = b + k - 1
      OBVIOUS
    <3>2. x \in FileBytes /\ x - a + 1 \notin 1 .. n
      BY <1>1, <1>13, <2>1, <3>1, Addresses, RowsApart
    <3>3. x - a + 1 \notin 1 .. r
      BY <1>2, <3>2
    <3> QED BY <1>4, <3>1, <3>2, <3>3
  <2>3. getRecord(other) = [k \in 1 .. n |-> IF k <= s THEN bytes[b + k - 1] ELSE 0]
    BY <1>1, <2>1 DEF getRecord
  <2>4. getRecord(other)' = [k \in 1 .. n |-> IF k <= s THEN bytes'[b + k - 1] ELSE 0]
    BY <1>1, <2>1 DEF getRecord
  <2> QED BY <2>2, <2>3, <2>4
<1> QED BY <1>6, <1>8, <1>11, <1>12, <1>13

-----------------------------------------------------------------------------
(* Every row reads back. *)

Row == [Cols -> Seq(Nat)]

FInv ==
  /\ bytes \in [FileBytes -> Nat] /\ size \in 0 .. MaxRows
  /\ put \in Seq(Row) /\ Len(put) = size
  /\ ReadBack

LEMMA RowIsPos ==
  ASSUME size \in 0 .. MaxRows
  PROVE  \A pos \in 0 .. size - 1 : pos \in Pos /\ pos \in Nat /\ pos + 1 \in 1 .. size
BY Numbers DEF Pos

LEMMA InsertBack == ASSUME FInv, NEW named \in ValueLists, Insert(named) PROVE FInv'
<1>1. PICK n, data : n = size /\ data = Record(named)
  OBVIOUS
<1>2. /\ bytes \in [FileBytes -> Nat] /\ n \in 0 .. MaxRows /\ put \in Seq(Row) /\ Len(put) = n
      /\ n < MaxRows /\ n \in Pos
  BY <1>1, Numbers DEF FInv, Insert, Pos
<1>3. /\ data \in Data
      /\ \A c \in Cols : get(data, c) = Value(named, c) /\ Value(named, c) \in Seq(Nat)
  <2>1. DOMAIN named \subseteq Cols /\ \A c \in DOMAIN named : IsConstant(named[c])
    BY Constants
  <2>2. \A c \in DOMAIN named : named[c].type = Fields[c].type
    BY DEF Insert
  <2> QED BY <1>1, <2>1, <2>2, RecordIs
<1>4. /\ bytes' = Written(n, data) /\ size' = n + 1 /\ spoiled' = spoiled
      /\ put' = Append(put, [c \in Cols |-> Value(named, c)])
  BY <1>1 DEF Insert, Value
<1>5. /\ bytes' \in [FileBytes -> Nat]
      /\ \A c \in Cols : InPage(n, c) => get(getRecord(n)', c) = get(data, c)
      /\ \A other \in Pos : other # n => getRecord(other)' = getRecord(other)
  BY <1>2, <1>3, <1>4, RecordWritten
<1>6. PICK row : row = [c \in Cols |-> Value(named, c)]
  OBVIOUS
<1>7. row \in Row /\ \A c \in Cols : row[c] = Value(named, c)
  BY <1>3, <1>6 DEF Row
<1>8. /\ put' \in Seq(Row) /\ Len(put') = n + 1 /\ put'[n + 1] = row
      /\ \A i \in 1 .. n : put'[i] = put[i]
  BY <1>2, <1>4, <1>6, <1>7, AppendProperties
<1>9. ASSUME NEW pos \in 0 .. n, NEW c \in Cols, InPage(pos, c), <<pos, c>> \notin spoiled
      PROVE  get(getRecord(pos)', c) = put'[pos + 1][c]
  <2>1. CASE pos = n
    BY <1>3, <1>5, <1>7, <1>8, <1>9, <2>1
  <2>2. CASE pos # n
    <3>1. pos \in 0 .. size - 1 /\ pos \in Pos /\ pos + 1 \in 1 .. n
      BY <1>1, <1>2, <2>2, Numbers DEF Pos
    <3>2. get(getRecord(pos), c) = put[pos + 1][c]
      BY <1>9, <3>1 DEF FInv, ReadBack
    <3> QED BY <1>5, <1>8, <2>2, <3>1, <3>2
  <2> QED BY <2>1, <2>2
<1>10. ReadBack'
  <2>1. \A pos \in 0 .. size' - 1 : pos \in 0 .. n
    BY <1>2, <1>4
  <2> QED BY <1>4, <1>9, <2>1 DEF ReadBack, InPage
<1>11. size' \in 0 .. MaxRows
  BY <1>2, <1>4, Numbers
<1> QED BY <1>4, <1>5, <1>8, <1>10, <1>11 DEF FInv

LEMMA UpdateBack ==
  ASSUME FInv, NEW pos \in Pos, NEW c \in Cols, NEW l \in Literals, Update(pos, c, l)
  PROVE  FInv'
<1>1. PICK n, old, new : n = size /\ old = getRecord(pos) /\ new = set(old, c, l)
  OBVIOUS
<1>2. /\ bytes \in [FileBytes -> Nat] /\ n \in 0 .. MaxRows /\ put \in Seq(Row) /\ Len(put) = n
      /\ pos < n /\ pos \in Nat /\ MaxRows \in Nat /\ n \in Nat
  BY <1>1, Numbers DEF FInv, Update, Pos
<1>3. old \in Data /\ IsConstant(l)
  BY <1>1, <1>2, RecordRead, Constants
<1>4. new \in Data
  BY <1>1, <1>3, SetIs
<1>5. PICK v : v = IF l.type = Fields[c].type THEN Held(c, l) ELSE <<>>
  OBVIOUS
<1>6. /\ bytes' = Written(pos, new) /\ size' = n
      /\ put' = [put EXCEPT ![pos + 1][c] = v]
      /\ spoiled' = (spoiled \ {<<pos, c>>}) \cup {<<pos, d>> : d \in Under(c, l)}
  BY <1>1, <1>5 DEF Update
<1>7. /\ bytes' \in [FileBytes -> Nat]
      /\ \A d \in Cols : InPage(pos, d) => get(getRecord(pos)', d) = get(new, d)
      /\ \A other \in Pos : other # pos => getRecord(other)' = getRecord(other)
  BY <1>2, <1>4, <1>6, RecordWritten
<1>8. v \in Seq(Nat)
  <2>1. CASE l.type = Fields[c].type
    BY <1>3, <1>5, <2>1, HeldFits DEF Fits
  <2>2. CASE l.type # Fields[c].type
    BY <1>5, <2>2
  <2> QED BY <2>1, <2>2
<1>9. pos + 1 \in 1 .. n /\ DOMAIN put = 1 .. n /\ \A i \in 1 .. n : put[i] \in Row
  BY <1>2, LenProperties, ElementOfSeq
<1>10. /\ put' \in Seq(Row) /\ Len(put') = n
       /\ \A i \in 1 .. n : i # pos + 1 => put'[i] = put[i]
       /\ \A d \in Cols : put'[pos + 1][d] = IF d = c THEN v ELSE put[pos + 1][d]
  <2>1. PICK row : row = [put[pos + 1] EXCEPT ![c] = v]
    OBVIOUS
  <2>2. row \in Row /\ \A d \in Cols : row[d] = IF d = c THEN v ELSE put[pos + 1][d]
    BY <1>8, <1>9, <2>1 DEF Row
  <2>3. put' = [put EXCEPT ![pos + 1] = row]
    BY <1>6, <2>1
  <2>4. put' \in Seq(Row) /\ Len(put') = n
    BY <1>2, <1>9, <2>2, <2>3, ExceptSeq
  <2>5. put'[pos + 1] = row /\ \A i \in 1 .. n : i # pos + 1 => put'[i] = put[i]
    BY <1>9, <2>3
  <2> QED BY <2>2, <2>4, <2>5
<1>11. ASSUME NEW d \in Cols, InPage(pos, d), <<pos, d>> \notin spoiled'
       PROVE  get(new, d) = put'[pos + 1][d]
  <2>1. d \notin Under(c, l)
    BY <1>6, <1>11
  <2>2. CASE d = c
    <3>1. l.type = Fields[c].type
      <4> SUFFICES ASSUME l.type # Fields[c].type PROVE FALSE
        OBVIOUS
      <4>1. /\ Offset[c] \in Nat /\ Size(Fields[c]) \in Nat /\ Size(Fields[c]) >= 1
        BY Within
      <4>2. Width(c, l) \in Nat /\ Width(c, l) >= 1
        <5>1. l.type \in {"INT", "DOUBLE", "VARCHAR"}
          BY <1>3 DEF IsConstant, Constant, Types
        <5>2. IntSize \in Nat /\ IntSize >= 1 /\ DoubleSize \in Nat /\ DoubleSize >= 1
          BY LayoutAssumption
        <5> QED BY <1>3, <4>1, <5>1, <5>2 DEF Width, IsConstant
      <4>3. Offset[c] < Offset[c] + Width(c, l) /\ Offset[c] + Size(Fields[c]) > Offset[c]
        BY <4>1, <4>2
      <4>4. c \in Under(c, l)
        BY <4>3 DEF Under, Width
      <4> QED BY <2>1, <2>2, <4>4
    <3>2. IsStored(new, c, v) /\ Fits(c, v)
      BY <1>1, <1>3, <1>5, <3>1, SetStores
    <3> QED BY <1>4, <1>10, <2>2, <3>2, GetStored
  <2>3. CASE d # c
    <3>1. \/ Offset[d] + Size(Fields[d]) <= Offset[c]
          \/ Offset[c] + Width(c, l) <= Offset[d]
      <4>1. CASE l.type = Fields[c].type
        <5>1. Width(c, l) = Size(Fields[c])
          BY <1>3, <4>1, HeldFits
        <5> QED BY <2>3, <5>1, Apart
      <4>2. CASE l.type # Fields[c].type
        <5>1. ~(Offset[d] < Offset[c] + Width(c, l) /\ Offset[d] + Size(Fields[d]) > Offset[c])
          BY <2>1, <4>2 DEF Under, Width
        <5>2. Width(c, l) \in Nat
          <6>1. l.val \in Seq(Nat)
            BY <1>3 DEF IsConstant, Constant
          <6>2. Len(l.val) \in Nat /\ Size(Fields[c]) \in Nat
            BY <6>1, LenProperties, Within
          <6> QED BY <6>2 DEF Width
        <5>3. Offset[c] \in Nat /\ Offset[d] \in Nat /\ Size(Fields[d]) \in Nat
          BY Within
        <5> QED BY <5>1, <5>2, <5>3
      <4> QED BY <4>1, <4>2
    <3>2. SameField(old, new, d)
      BY <1>1, <1>3, <3>1, SetLeaves
    <3>3. get(new, d) = get(old, d)
      BY <1>3, <1>4, <3>2, GetSame
    <3>4. <<pos, d>> \notin spoiled
      BY <1>6, <1>11, <2>3
    <3>5. get(old, d) = put[pos + 1][d]
      <4>1. pos \in 0 .. size - 1
        BY <1>1, <1>2
      <4> QED BY <1>1, <1>11, <3>4, <4>1 DEF FInv, ReadBack
    <3> QED BY <1>10, <2>3, <3>3, <3>5
  <2> QED BY <2>2, <2>3
<1>12. ASSUME NEW other \in 0 .. n - 1, NEW d \in Cols, InPage(other, d),
              <<other, d>> \notin spoiled'
       PROVE  get(getRecord(other)', d) = put'[other + 1][d]
  <2>1. CASE other = pos
    BY <1>7, <1>11, <1>12, <2>1
  <2>2. CASE other # pos
    <3>1. other \in 0 .. size - 1 /\ other \in Pos /\ other + 1 \in 1 .. n /\ other + 1 # pos + 1
      BY <1>1, <1>2, <2>2 DEF Pos
    <3>2. <<other, d>> \notin spoiled
      BY <1>6, <1>12, <2>2
    <3>3. get(getRecord(other), d) = put[other + 1][d]
      BY <1>12, <3>1, <3>2 DEF FInv, ReadBack
    <3> QED BY <1>7, <1>10, <2>2, <3>1, <3>3
  <2> QED BY <2>1, <2>2
<1>13. ReadBack'
  BY <1>6, <1>12 DEF ReadBack, InPage
<1> QED BY <1>2, <1>6, <1>7, <1>10, <1>13 DEF FInv

LEMMA DeleteBack == ASSUME FInv, NEW pos \in Pos, Delete(pos) PROVE FInv'
<1>1. PICK n, tail, data : n = size /\ tail = size - 1 /\ data = getRecord(tail)
  OBVIOUS
<1>2. /\ bytes \in [FileBytes -> Nat] /\ n \in 0 .. MaxRows /\ put \in Seq(Row) /\ Len(put) = n
      /\ pos < n /\ pos \in Nat /\ MaxRows \in Nat /\ n \in Nat /\ tail \in Nat /\ tail = n - 1
      /\ tail \in Pos
  BY <1>1, Numbers DEF FInv, Delete, Pos
<1>3. data \in Data
  BY <1>1, <1>2, RecordRead
<1>4. PICK row : row = [c \in Cols |-> get(data, c)]
  OBVIOUS
<1>5. row \in Row /\ \A c \in Cols : row[c] = get(data, c)
  <2>1. \A c \in Cols : get(data, c) \in Seq(Nat)
    BY <1>3, GetTyped
  <2> QED BY <1>4, <2>1 DEF Row
<1>6. PICK moved : moved = [put EXCEPT ![pos + 1] = row]
  OBVIOUS
<1>7. /\ bytes' = Written(pos, data) /\ size' = tail /\ put' = SubSeq(moved, 1, tail)
      /\ spoiled' = {e \in spoiled : e[1] \notin {pos, tail}}
  BY <1>1, <1>4, <1>6 DEF Delete
<1>8. /\ bytes' \in [FileBytes -> Nat]
      /\ \A d \in Cols : InPage(pos, d) => get(getRecord(pos)', d) = get(data, d)
      /\ \A other \in Pos : other # pos => getRecord(other)' = getRecord(other)
  BY <1>2, <1>3, <1>7, RecordWritten
<1>9. /\ moved \in Seq(Row) /\ Len(moved) = n /\ moved[pos + 1] = row
      /\ \A i \in 1 .. n : i # pos + 1 => moved[i] = put[i]
  <2>1. pos + 1 \in 1 .. n /\ DOMAIN put = 1 .. n
    BY <1>2, LenProperties
  <2> QED BY <1>2, <1>5, <1>6, <2>1, ExceptSeq
<1>10. put' \in Seq(Row) /\ Len(put') = tail /\ \A i \in 1 .. tail : put'[i] = moved[i]
  <2>1. 1 \in 1 .. Len(moved) + 1 /\ tail \in 1 - 1 .. Len(moved) /\ tail - 1 + 1 = tail
    BY <1>2, <1>9
  <2>2. /\ put' \in Seq(Row) /\ Len(put') = tail - 1 + 1
        /\ \A k \in 1 .. tail - 1 + 1 : put'[k] = moved[1 + k - 1]
    BY <1>7, <1>9, <2>1, PartOf
  <2> QED BY <1>2, <2>1, <2>2
<1>11. ASSUME NEW other \in 0 .. tail - 1, NEW d \in Cols, InPage(other, d),
              <<other, d>> \notin spoiled'
       PROVE  get(getRecord(other)', d) = put'[other + 1][d]
  <2>1. other + 1 \in 1 .. tail /\ other + 1 \in 1 .. n /\ other \in 0 .. size - 1 /\ other \in Pos
    BY <1>1, <1>2 DEF Pos
  <2>2. put'[other + 1] = moved[other + 1]
    BY <1>10, <2>1
  <2>3. CASE other = pos
    BY <1>5, <1>8, <1>9, <1>11, <2>2, <2>3
  <2>4. CASE other # pos
    <3>1. put'[other + 1] = put[other + 1]
      BY <1>2, <1>9, <2>1, <2>2, <2>4
    <3>2. <<other, d>> \notin spoiled
      <4>1. other # tail
        BY <1>2
      <4> QED BY <1>7, <1>11, <2>4, <4>1
    <3>3. get(getRecord(other), d) = put[other + 1][d]
      BY <1>11, <2>1, <3>2 DEF FInv, ReadBack
    <3> QED BY <1>8, <2>1, <2>4, <3>1, <3>3
  <2> QED BY <2>3, <2>4
<1>12. ReadBack'
  BY <1>7, <1>11 DEF ReadBack, InPage
<1>13. size' \in 0 .. MaxRows
  BY <1>2, <1>7
<1> QED BY <1>7, <1>8, <1>10, <1>12, <1>13 DEF FInv

LEMMA FileInvariant == Spec => []FInv
<1>1. Init => FInv
  <2> SUFFICES ASSUME Init PROVE FInv
    OBVIOUS
  <2>1. bytes \in [FileBytes -> Nat] /\ size = 0 /\ put = <<>>
    BY DEF Init
  <2>2. put \in Seq(Row) /\ Len(put) = 0
    BY <2>1
  <2>3. ReadBack
    BY <2>1 DEF ReadBack
  <2> QED BY <2>1, <2>2, <2>3, Numbers DEF FInv
<1>2. FInv /\ [Next]_vars => FInv'
  <2> SUFFICES ASSUME FInv, [Next]_vars PROVE FInv'
    OBVIOUS
  <2>1. ASSUME NEW named \in ValueLists, Insert(named) PROVE FInv'
    BY <2>1, InsertBack
  <2>2. ASSUME NEW pos \in Pos, NEW c \in Cols, NEW l \in Literals, Update(pos, c, l) PROVE FInv'
    BY <2>2, UpdateBack
  <2>3. ASSUME NEW pos \in Pos, Delete(pos) PROVE FInv'
    BY <2>3, DeleteBack
  <2>4. CASE UNCHANGED vars
    <3>1. bytes' = bytes /\ size' = size /\ put' = put /\ spoiled' = spoiled
      BY <2>4 DEF vars
    <3>2. \A pos : getRecord(pos)' = getRecord(pos)
      BY <3>1 DEF getRecord
    <3>3. ReadBack'
      BY <3>1, <3>2 DEF FInv, ReadBack, InPage
    <3> QED BY <3>1, <3>3 DEF FInv
  <2>5. CASE Next
    BY <2>1, <2>2, <2>3, <2>5 DEF Next
  <2> QED BY <2>4, <2>5
<1> QED BY <1>1, <1>2, PTL DEF Spec

-----------------------------------------------------------------------------
(* Every column of every row reads back the value that was put in it last,  *)
(* through every INSERT, UPDATE and DELETE, if it lies before the end of    *)
(* the page and no value of another type has gone over it: Record::set      *)
(* leaves the fields next to it alone, IndexFile::set the rows next to it.  *)
THEOREM RowsReadBack == Spec => []ReadBack
<1>1. FInv => ReadBack
  BY DEF FInv
<1> QED BY <1>1, FileInvariant, PTL

(* Of a record across a page border the columns behind the border are 0 or  *)
(* empty, whatever was put in them: the read stops at the border, and       *)
(* IndexFile::get does not look at how far it came.                         *)
THEOREM TailsAreLost == Spec => []CutAway
<1>1. FInv => CutAway
  <2> SUFFICES ASSUME FInv, NEW pos \in 0 .. size - 1, NEW c \in Cols,
                      Offset[c] >= PAGESIZE - (Address(pos) % PAGESIZE)
               PROVE  get(getRecord(pos), c) = Zeros(c)
    BY DEF CutAway
  <2>1. pos \in Pos /\ getRecord(pos) \in Data
    BY RowIsPos, RecordRead DEF FInv
  <2>2. PICK r : r = Reach(Address(pos), RecordSize)
    OBVIOUS
  <2>3. r \in 1 .. RecordSize /\ r <= Offset[c]
    BY <2>1, <2>2, Reached
  <2>4. ASSUME NEW k \in 1 .. Size(Fields[c]) PROVE getRecord(pos)[Offset[c] + k] = 0
    <3>1. Offset[c] + k \in 1 .. RecordSize /\ ~(Offset[c] + k <= r)
      BY <2>3, Within
    <3> QED BY <2>2, <3>1 DEF getRecord
  <2>5. IsStored(getRecord(pos), c, Zeros(c)) /\ Fits(c, Zeros(c))
    BY <2>4, ZerosFit
  <2> QED BY <2>1, <2>5, GetStored
<1> QED BY <1>1, FileInvariant, PTL

=============================================================================
