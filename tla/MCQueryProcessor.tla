--------------------------- MODULE MCQueryProcessor ---------------------------
EXTENDS QueryProcessor

(* The SET lists: the column of the condition or another one, twice the same *)
(* column, and a second column that does not exist.                          *)
MCSetLists == {<< <<"a", 1>> >>,
               << <<"b", 2>> >>,
               << <<"a", 2>>, <<"a", 1>> >>,
               << <<"a", 2>>, <<NoCol, 1>> >>}
=============================================================================
