----------------------------- MODULE MCTableFile -----------------------------
EXTENDS TableFile, TLC

(* Records of 5 bytes on pages of 10, behind a header of 2: the second one  *)
(* straddles with its second column and loses the third.                    *)
MCFields == <<[type |-> "VARCHAR", len |-> 2], [type |-> "INT", len |-> 0],
              [type |-> "VARCHAR", len |-> 1]>>

One   == [type |-> "INT", val |-> <<1, 0>>]
Short == [type |-> "VARCHAR", val |-> <<2>>]
Long  == [type |-> "VARCHAR", val |-> <<3, 4, 5>>]

MCLiterals == {One, Long}

MCValueLists == {<<Long, One, Short>>, 2 :> One, 1 :> One @@ 2 :> One}
=============================================================================
