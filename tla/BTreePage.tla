------------------------------ MODULE BTreePage ------------------------------
(***************************************************************************)
(* A page of an index on a VARCHAR column, as BTreeVertex reads it and     *)
(* writes it back (buffer/btreeindex.cpp).  An item is a row number and a  *)
(* key of as many bytes as the type says that the vertex is made with.     *)
(* Most calls use the type of the column; BTreeIterator uses that of the   *)
(* key it seeks, which for a literal is as long as the literal.            *)
(* The tree is one leaf.                                                   *)
(***************************************************************************)
EXTENDS Integers, Sequences, SequencesExt, FiniteSetsExt

CONSTANTS
  DataBytes,   \* PAGESIZE - HEADER_SIZE
  ValueSize,   \* sizeof(uint32)
  Length,      \* the length of the column
  Keys,        \* the constants of statements, sequences of bytes that are not 0
  Positions,   \* row numbers, sequences of ValueSize bytes
  Junk         \* a byte that nobody set

ASSUME PageAssumption ==
  /\ {DataBytes, ValueSize, Length} \subseteq Nat \ {0}
  /\ Keys \subseteq Seq(Nat \ {0})
  /\ Positions \subseteq [1 .. ValueSize -> Nat]
  /\ Junk \notin Nat

VARIABLES
  data,      \* the bytes behind the header of the page
  size,      \* the header
  items,     \* history: the items added and not removed, in order
  spoiled    \* history: a search has cut items off

vars == <<data, size, items, spoiled>>

-----------------------------------------------------------------------------
ItemSize(len) == ValueSize + len
Capacity(len) == DataBytes \div ItemSize(len)

Least(a, b) == Min({a, b})

Stripped(key) == SubSeq(key, 1, Max({0} \cup {k \in DOMAIN key : key[k] # 0}))
Cut(key, len) == SubSeq(key, 1, Least(Len(key), len))

(* The constructor. *)
Vertex(len) ==
  [i \in 1 .. Least(size, Capacity(len)) |->
     LET at == ItemSize(len) * (i - 1)
     IN  [value |-> SubSeq(data, at + 1, at + ValueSize),
          key   |-> Stripped(SubSeq(data, at + ValueSize + 1, at + ItemSize(len)))]]

(* The bytes of one slot.  All of a longer key is copied; what is past the   *)
(* slot goes under the next one, or past the last, where nobody reads it,    *)
(* and when the page is full past the buffer, which is left out.             *)
Bytes(item, len) ==
  item.value \o [k \in 1 .. len |-> IF k <= Len(item.key) THEN item.key[k] ELSE 0]

(* The destructor: a page is made anew from the items, and written. *)
WriteBack(vertex, len) ==
  /\ size' = Len(vertex)
  /\ data' = [b \in 1 .. DataBytes |->
       LET i == ((b - 1) \div ItemSize(len)) + 1
       IN  IF i <= Len(vertex) THEN Bytes(vertex[i], len)[((b - 1) % ItemSize(len)) + 1] ELSE Junk]

Before(a, b) ==
  \E n \in 0 .. Len(a) :
    /\ n <= Len(b) /\ SubSeq(a, 1, n) = SubSeq(b, 1, n)
    /\ n < Len(b) /\ (n < Len(a) => a[n + 1] < b[n + 1])

(* Where insert_nonfull puts a key: behind the last one that is not greater. *)
Place(vertex, key) == Max({0} \cup {i \in DOMAIN vertex : ~Before(key, vertex[i].key)}) + 1

(* A search with a type of this length cuts items off: one that is shorter  *)
(* writes fewer bytes back, one that is longer may hold fewer items.        *)
Harmful(len) == size > 0 /\ (len < Length \/ size > Capacity(len))

-----------------------------------------------------------------------------
Init ==
  /\ data = [b \in 1 .. DataBytes |-> Junk]
  /\ size = 0
  /\ items = <<>>
  /\ spoiled = FALSE

(* addKey.  UPDATE adds its constant as it is, however long.  Bound: the     *)
(* page is not split.                                                       *)
AddKey(key, pos) ==
  LET vertex == Vertex(Length)
      at     == Place(vertex, key)
  IN  /\ ~spoiled
      /\ size < Capacity(Length)
      /\ \A i \in DOMAIN items : items[i].value # pos
      /\ WriteBack(InsertAt(vertex, at, [value |-> pos, key |-> key]), Length)
      /\ items' = InsertAt(items, at, [value |-> pos, key |-> Cut(key, Length)])
      /\ UNCHANGED spoiled

(* A mutant of Select: the key keeps the type of its literal. *)
SelectAsGiven(key) ==
  /\ ~spoiled
  /\ WriteBack(Vertex(Len(key)), Len(key))
  /\ UNCHANGED <<items, spoiled>>

(* One call of hasNextRecord for SELECT, which gives the key the type of the *)
(* column.                                                                  *)
Select(key) ==
  /\ ~spoiled
  /\ WriteBack(Vertex(Length), Length)
  /\ UNCHANGED <<items, spoiled>>

(* The same for DELETE and UPDATE, which do not. *)
Search(key) ==
  /\ ~spoiled
  /\ WriteBack(Vertex(Len(key)), Len(key))
  /\ spoiled' = Harmful(Len(key))
  /\ UNCHANGED items

(* deleteKey with the key that a record gives, which has lost the zeros at   *)
(* its end: a search, as above, and for a key of full length the removal.    *)
DeleteKey(i) ==
  LET key == items[i].key
  IN  /\ ~spoiled
      /\ spoiled' = Harmful(Len(key))
      /\ IF Len(key) = Length
         THEN WriteBack(RemoveAt(Vertex(Length), i), Length) /\ items' = RemoveAt(items, i)
         ELSE WriteBack(Vertex(Len(key)), Len(key)) /\ UNCHANGED items

Next ==
  \/ \E key \in Keys, pos \in Positions : AddKey(key, pos)
  \/ \E key \in Keys : Select(key) \/ Search(key)
  \/ \E i \in DOMAIN items : DeleteKey(i)

Spec == Init /\ [][Next]_vars

-----------------------------------------------------------------------------
(* Properties. *)

(* Read with the type of the column, the page holds the items added and not *)
(* removed, in order, each key cut to the length of the column, whatever    *)
(* was sought in between; only DELETE and UPDATE can break this, by a       *)
(* constant or a row whose text is not as long as the column.               *)
ItemsKept == ~spoiled => Vertex(Length) = items
=============================================================================
