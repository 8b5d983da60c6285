----------------------------- MODULE MCBTreeIndex -----------------------------
EXTENDS BTreeIndex

KeysOf(keys) == [r \in 0 .. Len(keys) - 1 |-> keys[r + 1]]

(* Equal keys on both sides of a separator. *)
SharedRows == 0 .. 5
SharedKeys == KeysOf(<<1, 1, 2, 2, 2, 1>>)

(* Row 0 may have its entry in the index twice.                              *)
SharedCopies == [r \in SharedRows |-> IF r = 0 THEN {1, 2} ELSE {1}]

(* Ten ascending keys make four leaves of pages of five; the rest fills the  *)
(* first leaf and the second.                                                *)
WideRows == 0 .. 17
WideKeys == KeysOf(<<4, 5, 6, 7, 8, 9, 10, 11, 12, 13, 0, 1, 2, 3, 6, 7, 7, 7>>)
WideCopies == [r \in WideRows |-> {1}]
=============================================================================
