------------------------------ MODULE PageStore ------------------------------
(***************************************************************************)
(* What a caller of BufferManager may rely on, stated without frames,      *)
(* queues or files: a set of pages, each with a current content (what the  *)
(* next read returns) and a durable content (what the next process finds). *)
(*                                                                         *)
(* A cell that nobody has written is Absent.  It may become any value at   *)
(* any moment and then keeps it: the code promises nothing about bytes     *)
(* past the end of a file.                                                 *)
(***************************************************************************)
CONSTANTS
  PageIds,   \* the pages callers address
  Cells,     \* the places within a page
  Vals,      \* what a place can hold
  Absent     \* nothing has been written there

VARIABLES
  cur,       \* cur[p][c]: what a read of the page returns
  durable    \* durable[p][c]: what survives the process

storeVars == <<cur, durable>>

Blank == [p \in PageIds |-> [c \in Cells |-> Absent]]

Init == cur = Blank /\ durable = Blank

(* A page may gain values where it had none; it never loses or changes one. *)
Settles(old, new) == \A c \in Cells : old[c] # Absent => new[c] = old[c]

(* At any step any set of pages may be saved, in any order, each as a whole. *)
SomeSaved ==
  \A p \in PageIds : durable'[p] = cur[p] \/ Settles(durable[p], durable'[p])

Read(p) ==
  /\ \A q \in PageIds : Settles(cur[q], cur'[q])
  /\ \A c \in Cells : cur'[p][c] # Absent
  /\ SomeSaved

Write(p, written, v) ==
  /\ \A q \in PageIds \ {p} : Settles(cur[q], cur'[q])
  /\ \A c \in Cells :
       IF c \in written THEN cur'[p][c] = v
       ELSE cur'[p][c] # Absent /\ (cur[p][c] # Absent => cur'[p][c] = cur[p][c])
  /\ SomeSaved

Save ==
  /\ \A p \in PageIds : Settles(cur[p], cur'[p])
  /\ SomeSaved

(* The process dies: what was durable is all that is left. *)
Crash ==
  /\ cur' = durable
  /\ durable' = durable

Next ==
  \/ \E p \in PageIds : Read(p)
  \/ \E p \in PageIds, written \in SUBSET Cells, v \in Vals : Write(p, written, v)
  \/ Save
  \/ Crash

Spec == Init /\ [][Next]_storeVars
=============================================================================
