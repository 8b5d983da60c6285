----------------------------- MODULE MCBTreePage -----------------------------
EXTENDS BTreePage

(* Texts shorter than the column, as long, and longer; one begins another. *)
MCKeys == {<<>>, <<1>>, <<1, 2>>, <<2, 1>>, <<1, 2, 1>>, <<1, 2, 1, 1, 1>>}

MCPositions == {<<0, 0>>, <<1, 0>>, <<2, 0>>}
=============================================================================
