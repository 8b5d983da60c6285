------------------------------ MODULE TableFile ------------------------------
(***************************************************************************)
(* The bytes of a table file: records (buffer/record.cpp) laid out by a    *)
(* signature (buffer/signature.cpp), put one after the other behind a       *)
(* header (buffer/indexfile.cpp), read and written by calls that stop at    *)
(* the end of a page.  IndexFile does not look at how far they came.        *)
(***************************************************************************)
EXTENDS Integers, Sequences

CONSTANTS
  PAGESIZE,
  TABLE_HEADER_SIZE,
  IntSize, DoubleSize,    \* sizeof(int), sizeof(double)
  Fields,                 \* the columns: <<[type |-> ..., len |-> ...], ...>>
  Literals,               \* the constants of UPDATE: [type |-> ..., val |-> bytes]
  ValueLists,             \* those of INSERT: functions from columns to constants
  MaxRows                 \* bound: rows of the table

Size(field) == CASE field.type = "INT"     -> IntSize
                 [] field.type = "DOUBLE"  -> DoubleSize
                 [] field.type = "VARCHAR" -> field.len

Cols == DOMAIN Fields
Pos  == 0 .. MaxRows - 1

(* Signature: offsets and the length of a record. *)
Offset[c \in 1 .. Len(Fields) + 1] ==
  IF c = 1 THEN 0 ELSE Offset[c - 1] + Size(Fields[c - 1])
RecordSize == Offset[Len(Fields) + 1]

Types == {"INT", "DOUBLE", "VARCHAR"}

ASSUME LayoutAssumption ==
  /\ {PAGESIZE, IntSize, DoubleSize, TABLE_HEADER_SIZE, MaxRows} \subseteq Nat \ {0}
  /\ Fields \in Seq([type : Types, len : Nat]) /\ Fields # <<>>
  /\ \A c \in Cols : Size(Fields[c]) > 0
  /\ \A v \in ValueLists : DOMAIN v \subseteq Cols
  /\ \A l \in Literals \cup UNION {{v[c] : c \in DOMAIN v} : v \in ValueLists} :
       /\ l \in [type : Types, val : Seq(Nat)]
       /\ l.type = "INT" => Len(l.val) = IntSize
       /\ l.type = "DOUBLE" => Len(l.val) = DoubleSize
       /\ l.type = "VARCHAR" => \A i \in DOMAIN l.val : l.val[i] # 0

VARIABLES
  bytes,    \* the file behind its header; a byte nobody wrote is 0 or anything
  size,     \* the header
  put,      \* history: the value of each column of each row
  spoiled   \* history: the fields an UPDATE with another type has written over

vars == <<bytes, size, put, spoiled>>

FileBytes == TABLE_HEADER_SIZE .. TABLE_HEADER_SIZE + RecordSize * MaxRows - 1

-----------------------------------------------------------------------------
(* Record.  Data is a sequence; the offset of a field counts from 0. *)
Blank == [k \in 1 .. RecordSize |-> 0]

Put(data, offset, v) ==
  [k \in DOMAIN data |-> IF k - offset \in DOMAIN v THEN v[k - offset] ELSE data[k]]

(* setVarchar: cut to the length of the column, zeros behind. *)
Padded(v, length) == [k \in 1 .. length |-> IF k <= Len(v) THEN v[k] ELSE 0]

(* A mutant of set: setVarchar writes no zeros behind a shorter text. *)
setUnpadded(data, c, l) == Put(data, Offset[c], l.val)

(* set goes by the type of the value, not by that of the column. *)
set(data, c, l) ==
  Put(data, Offset[c], IF l.type = "VARCHAR" THEN Padded(l.val, Size(Fields[c])) ELSE l.val)

Stripped(v) ==
  LET last == {k \in DOMAIN v : v[k] # 0}
  IN  SubSeq(v, 1, IF last = {} THEN 0 ELSE CHOOSE k \in last : \A j \in last : j <= k)

(* get: getInt and getDouble, or getVarchar without the zeros at the end. *)
get(data, c) ==
  LET v == SubSeq(data, Offset[c] + 1, Offset[c] + Size(Fields[c]))
  IN  IF Fields[c].type = "VARCHAR" THEN Stripped(v) ELSE v

-----------------------------------------------------------------------------
(* IndexFile over BufferManager. *)
Address(pos) == TABLE_HEADER_SIZE + RecordSize * pos

(* How many of the n bytes at an address a call reads or writes. *)
Reach(address, n) == 
  IF (address % PAGESIZE) + n > PAGESIZE THEN PAGESIZE - (address % PAGESIZE) ELSE n

(* A mutant of getRecord: the record is not zeroed first. *)
getRecordUnzeroed(pos) ==
  [k \in 1 .. RecordSize |->
     IF k <= Reach(Address(pos), RecordSize) THEN bytes[Address(pos) + k - 1] ELSE 9]

(* The record is made of zeros, and as much as is read goes into it. *)
getRecord(pos) ==
  [k \in 1 .. RecordSize |->
     IF k <= Reach(Address(pos), RecordSize) THEN bytes[Address(pos) + k - 1] ELSE 0]

Written(pos, data) ==
  [a \in FileBytes |->
     LET k == a - Address(pos) + 1
     IN  IF k \in 1 .. Reach(Address(pos), RecordSize) THEN data[k] ELSE bytes[a]]

-----------------------------------------------------------------------------
Zeros(c) == IF Fields[c].type = "VARCHAR" THEN <<>> ELSE [k \in 1 .. Size(Fields[c]) |-> 0]

Init ==
  /\ bytes \in {[a \in FileBytes |-> b] : b \in {0, 9}}
  /\ size = 0
  /\ put = <<>>
  /\ spoiled = {}

(* What a column holds of a literal of its type. *)
Held(c, l) ==
  IF l.type = "VARCHAR" /\ Len(l.val) > Fields[c].len THEN SubSeq(l.val, 1, Fields[c].len) ELSE l.val

(* The record of INSERT: the fields it names are set one after the other. *)
Record(named) ==
  LET upto[c \in 0 .. Len(Fields)] ==
        IF c = 0 THEN Blank
        ELSE IF c \in DOMAIN named THEN set(upto[c - 1], c, named[c]) ELSE upto[c - 1]
  IN  upto[Len(Fields)]

(* INSERT; a literal of another type is refused. *)
Insert(named) ==
  /\ size < MaxRows
  /\ \A c \in DOMAIN named : named[c].type = Fields[c].type
  /\ bytes' = Written(size, Record(named))
  /\ size' = size + 1
  /\ put' = Append(put, [c \in Cols |-> IF c \in DOMAIN named THEN Held(c, named[c]) ELSE Zeros(c)])
  /\ UNCHANGED spoiled

(* The columns whose bytes a value takes when it is set in column c. *)
Under(c, l) ==
  IF l.type = Fields[c].type THEN {}
  ELSE {d \in Cols : /\ Offset[d] < Offset[c] + (IF l.type = "VARCHAR" THEN Size(Fields[c]) ELSE Len(l.val))
                     /\ Offset[d] + Size(Fields[d]) > Offset[c]}

(* UPDATE of one row and one column: no type is checked.  Bound: the bytes   *)
(* of a value end within the record.                                        *)
Update(pos, c, l) ==
  /\ pos < size
  /\ l.type # "VARCHAR" => Offset[c] + Len(l.val) <= RecordSize
  /\ bytes' = Written(pos, set(getRecord(pos), c, l))
  /\ put' = [put EXCEPT ![pos + 1][c] = IF l.type = Fields[c].type THEN Held(c, l) ELSE <<>>]
  /\ spoiled' = (spoiled \ {<<pos, c>>}) \cup {<<pos, d>> : d \in Under(c, l)}
  /\ UNCHANGED size

(* DELETE of one row: the last record is put in its place, cut as it was    *)
(* read.                                                                    *)
Delete(pos) ==
  LET tail == size - 1
  IN  /\ pos < size
      /\ bytes' = Written(pos, getRecord(tail))
      /\ size' = tail
      /\ put' = SubSeq([put EXCEPT ![pos + 1] = [c \in Cols |-> get(getRecord(tail), c)]], 1, tail)
      /\ spoiled' = {e \in spoiled : e[1] \notin {pos, tail}}

Next ==
  \/ \E named \in ValueLists : Insert(named)
  \/ \E pos \in Pos, c \in Cols, l \in Literals : Update(pos, c, l)
  \/ \E pos \in Pos : Delete(pos)

Spec == Init /\ [][Next]_vars

-----------------------------------------------------------------------------
(* Properties. *)

(* The columns of a row that lie before the end of the page it starts in. *)
InPage(pos, c) == Offset[c] + Size(Fields[c]) <= PAGESIZE - (Address(pos) % PAGESIZE)

(* Every column of every row reads back the value that was put in it last,  *)
(* a text cut to the length of its column, whatever happens to other rows   *)
(* and columns, unless it lies beyond the end of the page or an UPDATE with *)
(* a value of another type has gone over it.                                *)
ReadBack ==
  \A pos \in 0 .. size - 1, c \in Cols :
    InPage(pos, c) /\ <<pos, c>> \notin spoiled => get(getRecord(pos), c) = put[pos + 1][c]

(* A column that starts beyond the end of the page is always 0 or empty.    *)
CutAway ==
  \A pos \in 0 .. size - 1, c \in Cols :
    Offset[c] >= PAGESIZE - (Address(pos) % PAGESIZE) => get(getRecord(pos), c) = Zeros(c)
=============================================================================
