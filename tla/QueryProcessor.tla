---------------------------- MODULE QueryProcessor ----------------------------
(***************************************************************************)
(* The statements of QueryProcessor::runQuery that work on the rows of a   *)
(* table (query/queryprocessor.cpp), with IndexFile (buffer/indexfile.cpp) *)
(* and Noindex (buffer/noindex.cpp) beneath.                               *)
(*                                                                         *)
(* A tree index is a bag of <<key, position>> entries that finds all it    *)
(* holds; BTreeIndex says how far that is so.  A statement that returns    *)
(* before it changes anything (no such table, a type error) is no step.    *)
(***************************************************************************)
EXTENDS Integers, Sequences, FiniteSets

CONSTANTS
  Cols,          \* the columns of the table
  Vals,          \* what a field can hold
  MaxRows,       \* bound: rows of the table
  Indexable,     \* bound: the columns that get an index
  CountMod,      \* 2^32: the count of rows in a reply is a uint32
  SetLists,      \* bound: the SET lists of UPDATE, sequences of <<column, value>>
  NoCol,         \* a name that is no column; get_index gives -1
  NoCond,        \* a statement without WHERE
  NoReader       \* UPDATE: data = 0

ASSUME TableAssumption ==
  /\ MaxRows \in Nat \ {0}
  /\ CountMod \in Nat /\ MaxRows < CountMod
  /\ Vals # {} /\ Cols # {}
  /\ Indexable \subseteq Cols
  /\ NoCol \notin Cols
  /\ SetLists \subseteq Seq((Cols \cup {NoCol}) \X Vals)

Pos   == 0 .. MaxRows - 1
Rows  == [Cols -> Vals]
Conds == [col : Cols, val : Vals] \cup {NoCond}

ASSUME NoCondAssumption == NoCond \notin [col : Cols, val : Vals]

VARIABLES
  row,       \* the records in the file, those past the end too
  size,      \* the header of the file
  kind,      \* the kind of index of each column
  index,     \* index[c][<<v, p>>]: how often the tree of c holds the entry
  query,     \* the statement that is running
  damage     \* history: the columns whose index is out of step with the table

vars == <<row, size, kind, index, query, damage>>

Idle == [op |-> "idle"]

NoEntries == [e \in Vals \X Pos |-> 0]

Init ==
  /\ row \in {[p \in Pos |-> r] : r \in Rows}
  /\ size = 0
  /\ kind = [c \in Cols |-> "NOINDEX"]
  /\ index = [c \in Cols |-> NoEntries]
  /\ query = Idle
  /\ damage = {}

-----------------------------------------------------------------------------
(* Index::addKey and deleteKey; Noindex does nothing. *)
addKey(tree, c, v, p) ==
  IF kind[c] = "TREEINDEX" THEN [tree EXCEPT ![<<v, p>>] = @ + 1] ELSE tree

deleteKey(tree, c, v, p) ==
  IF kind[c] = "TREEINDEX" /\ p \in Pos /\ tree[<<v, p>>] > 0
  THEN [tree EXCEPT ![<<v, p>>] = @ - 1] ELSE tree

Holds(cond, r) == cond = NoCond \/ r[cond.col] = cond.val

ByTree(cond) == cond # NoCond /\ kind[cond.col] = "TREEINDEX"

(* The positions a reader would return, each with how often. *)
Selected(cond) ==
  [p \in Pos |-> IF ByTree(cond) THEN index[cond.col][<<cond.val, p>>]
                 ELSE IF p < size /\ Holds(cond, row[p]) THEN 1 ELSE 0]

(* getNextRecord: scans go by position, entries of a tree come in any order. *)
IsNext(cond, reader, p) ==
  /\ reader[p] > 0
  /\ ~ByTree(cond) => \A q \in 0 .. p - 1 : reader[q] = 0

Exhausted(reader) == \A p \in Pos : reader[p] = 0

Trees == {c \in Cols : kind[c] = "TREEINDEX"}

(* Bound: a statement on rows starts with all indexes in step.              *)
Ready == query = Idle /\ damage = {}

-----------------------------------------------------------------------------
(* A mutant of Insert: the size is written before the keys are added. *)
InsertSizeFirst(r) ==
  /\ Ready
  /\ size < MaxRows
  /\ row' = [row EXCEPT ![size] = r]
  /\ size' = size + 1
  /\ index' = [c \in Cols |->
       IF size' \in Pos THEN addKey(index[c], c, r[c], size') ELSE index[c]]
  /\ UNCHANGED <<kind, query, damage>>

(* IndexFile::add. *)
Insert(r) ==
  /\ Ready
  /\ size < MaxRows
  /\ row' = [row EXCEPT ![size] = r]
  /\ index' = [c \in Cols |-> addKey(index[c], c, r[c], size)]
  /\ size' = size + 1
  /\ UNCHANGED <<kind, query, damage>>

(* CREATE INDEX, on a column that has one already too, whatever its state.   *)
CreateIndex(c) ==
  /\ query = Idle
  /\ damage' = damage \ {c}
  /\ kind' = [kind EXCEPT ![c] = "TREEINDEX"]
  /\ index' = [index EXCEPT ![c] =
       [e \in Vals \X Pos |-> IF e[2] < size /\ row[e[2]][c] = e[1] THEN 1 ELSE 0]]
  /\ UNCHANGED <<row, size, query>>

-----------------------------------------------------------------------------
(* DELETE: one row per iteration, the condition evaluated again each time. *)
Contents == [p \in 0 .. size - 1 |-> row[p]]

BeginDelete(cond) ==
  /\ Ready
  /\ query' = [op |-> "delete", cond |-> cond, cnt |-> 0, before |-> Contents]
  /\ UNCHANGED <<row, size, kind, index, damage>>

(* get(filesize - 1); with filesize 0 that is a record nobody wrote. *)
IsTail(r) == IF size > 0 THEN r = row[size - 1] ELSE r \in Rows

(* Mutants of DeleteRow: the row is cut off the end, not filled with the     *)
(* tail; the size goes down whatever it is.                                  *)
DeleteRowNoMove(p, tail) ==
  /\ query.op = "delete"
  /\ IsNext(query.cond, Selected(query.cond), p)
  /\ IsTail(tail)
  /\ index' = [c \in Cols |-> deleteKey(index[c], c, row[p][c], p)]
  /\ size' = IF size > 0 THEN size - 1 ELSE 0
  /\ query' = [query EXCEPT !.cnt = (@ + 1) % CountMod]
  /\ damage' = IF p >= size - 1 THEN damage \cup Trees ELSE damage
  /\ UNCHANGED <<row, kind>>

DeleteRowUnguarded(p, tail) ==
  /\ query.op = "delete"
  /\ IsNext(query.cond, Selected(query.cond), p)
  /\ IsTail(tail)
  /\ row' = [row EXCEPT ![p] = tail]
  /\ index' = [c \in Cols |->
       LET removed == deleteKey(index[c], c, row[p][c], p)
           moved   == deleteKey(removed, c, tail[c], size - 1)
       IN  addKey(moved, c, tail[c], p)]
  /\ size' = size - 1
  /\ query' = [query EXCEPT !.cnt = (@ + 1) % CountMod]
  /\ damage' = IF p >= size - 1 THEN damage \cup Trees ELSE damage
  /\ UNCHANGED kind

DeleteRow(p, tail) ==
  /\ query.op = "delete"
  /\ IsNext(query.cond, Selected(query.cond), p)
  /\ IsTail(tail)
  /\ row' = [row EXCEPT ![p] = tail]
  /\ index' = [c \in Cols |->
       LET removed == deleteKey(index[c], c, row[p][c], p)
           moved   == deleteKey(removed, c, tail[c], size - 1)
       IN  addKey(moved, c, tail[c], p)]
  /\ size' = IF size > 0 THEN size - 1 ELSE 0
  /\ query' = [query EXCEPT !.cnt = (@ + 1) % CountMod]
  /\ damage' = IF p >= size - 1 THEN damage \cup Trees ELSE damage
  /\ UNCHANGED kind

EndDelete ==
  /\ query.op = "delete"
  /\ Exhausted(Selected(query.cond))
  /\ query' = [query EXCEPT !.op = "deleted"]
  /\ UNCHANGED <<row, size, kind, index, damage>>

-----------------------------------------------------------------------------
(* UPDATE: the reader is kept from row to row, and thrown away when the      *)
(* column of the condition is assigned in the iteration that made it.        *)
BeginUpdate(cond, set) ==
  /\ Ready
  /\ query' = [op |-> "update", cond |-> cond, set |-> set, cnt |-> 0,
               reader |-> NoReader, column |-> NoCol, p |-> 0, i |-> 0,
               record |-> row[0], before |-> Contents]
  /\ UNCHANGED <<row, size, kind, index, damage>>

Reader == IF query.reader = NoReader THEN Selected(query.cond) ELSE query.reader

Fetch(p) ==
  /\ query.op = "update" /\ query.i = 0
  /\ IsNext(query.cond, Reader, p)
  /\ query' = [query EXCEPT
       !.reader = [Reader EXCEPT ![p] = @ - 1],
       !.column = IF query.reader = NoReader /\ query.cond # NoCond
                  THEN query.cond.col ELSE NoCol,
       !.p = p, !.i = 1, !.record = row[p]]
  /\ UNCHANGED <<row, size, kind, index, damage>>

(* Mutants of Assign: the record is not set; the reader is thrown away when  *)
(* any column is assigned.                                                   *)
AssignNoRecord ==
  /\ query.op = "update" /\ query.i \in DOMAIN query.set
  /\ LET c == query.set[query.i][1]
         v == query.set[query.i][2]
     IN  /\ c # NoCol
         /\ index' = [index EXCEPT ![c] =
              addKey(deleteKey(@, c, query.record[c], query.p), c, v, query.p)]
         /\ query' = [query EXCEPT
              !.reader = IF c = query.column THEN NoReader ELSE @,
              !.i = @ + 1]
  /\ UNCHANGED <<row, size, kind, damage>>

AssignRestarts ==
  /\ query.op = "update" /\ query.i \in DOMAIN query.set
  /\ LET c == query.set[query.i][1]
         v == query.set[query.i][2]
     IN  /\ c # NoCol
         /\ index' = [index EXCEPT ![c] =
              addKey(deleteKey(@, c, query.record[c], query.p), c, v, query.p)]
         /\ query' = [query EXCEPT
              !.record = [@ EXCEPT ![c] = v],
              !.reader = NoReader,
              !.i = @ + 1]
  /\ UNCHANGED <<row, size, kind, damage>>

Assign ==
  /\ query.op = "update" /\ query.i \in DOMAIN query.set
  /\ LET c == query.set[query.i][1]
         v == query.set[query.i][2]
     IN  /\ c # NoCol
         /\ index' = [index EXCEPT ![c] =
              addKey(deleteKey(@, c, query.record[c], query.p), c, v, query.p)]
         /\ query' = [query EXCEPT
              !.record = [@ EXCEPT ![c] = v],
              !.reader = IF c = query.column THEN NoReader ELSE @,
              !.i = @ + 1]
  /\ UNCHANGED <<row, size, kind, damage>>

(* A column that does not exist is noticed after those before it are done:   *)
(* their entries have changed, the row has not.                              *)
AssignFails ==
  /\ query.op = "update" /\ query.i \in DOMAIN query.set
  /\ query.set[query.i][1] = NoCol
  /\ query' = [query EXCEPT !.op = "failed"]
  /\ damage' = damage \cup {c \in Trees : query.record[c] # row[query.p][c]}
  /\ UNCHANGED <<row, size, kind, index>>

Store ==
  /\ query.op = "update" /\ query.i = Len(query.set) + 1
  /\ row' = [row EXCEPT ![query.p] = query.record]
  /\ query' = [query EXCEPT !.cnt = (@ + 1) % CountMod, !.i = 0]
  /\ UNCHANGED <<size, kind, index, damage>>

EndUpdate ==
  /\ query.op = "update" /\ query.i = 0
  /\ Exhausted(Reader)
  /\ query' = [query EXCEPT !.op = "updated"]
  /\ UNCHANGED <<row, size, kind, index, damage>>

-----------------------------------------------------------------------------
Replied == query.op \in {"deleted", "updated", "failed"}

Reply ==
  /\ Replied
  /\ query' = Idle
  /\ UNCHANGED <<row, size, kind, index, damage>>

Step ==
  \/ \E p \in Pos, tail \in Rows : DeleteRow(p, tail)
  \/ EndDelete
  \/ \E p \in Pos : Fetch(p)
  \/ Assign
  \/ AssignFails
  \/ Store
  \/ EndUpdate
  \/ Reply

Next ==
  \/ \E r \in Rows : Insert(r)
  \/ \E c \in Indexable : CreateIndex(c)
  \/ \E cond \in Conds : BeginDelete(cond)
  \/ \E cond \in Conds, set \in SetLists : BeginUpdate(cond, set)
  \/ Step

Spec == Init /\ [][Next]_vars

(* The thread that runs a statement goes on with it. *)
FairSpec == Spec /\ WF_vars(Step)

-----------------------------------------------------------------------------
(* Properties. *)

TypeOK ==
  /\ row \in [Pos -> Rows]
  /\ size \in 0 .. MaxRows
  /\ kind \in [Cols -> {"NOINDEX", "TREEINDEX"}]
  /\ index \in [Cols -> [Vals \X Pos -> Nat]]
  /\ query.op \in {"idle", "delete", "update", "deleted", "updated", "failed"}
  /\ damage \subseteq Trees

(* Between statements a SELECT by any column returns exactly the rows with  *)
(* the value, each once, whether the column has an index or not, unless a   *)
(* DELETE of the last row or a failed UPDATE has put its index out of step; *)
(* CREATE INDEX puts it right.                                              *)
SelectExact ==
  query = Idle =>
    \A cond \in [col : Cols \ damage, val : Vals], p \in Pos :
      Selected(cond)[p] = IF p < size /\ Holds(cond, row[p]) THEN 1 ELSE 0

(* How often a row occurs in a table. *)
Copies(table, r) == Cardinality({p \in DOMAIN table : table[p] = r})

(* DELETE has taken out the rows that match, all of them and no others, and *)
(* replies with their number; positions may have changed.                   *)
Deleted ==
  /\ \A r \in Rows :
       Copies(Contents, r) = IF Holds(query.cond, r) THEN 0 ELSE Copies(query.before, r)
  /\ query.cnt = Cardinality(DOMAIN query.before) - size

(* It does so as long as no index has gone out of step.                     *)
DeleteExact == query.op = "deleted" /\ damage = {} => Deleted

(* The reply "OK Affected rows: n" of DELETE, taken at its word.            *)
DeleteReplyTrue == query.op = "deleted" => Deleted

(* The value the last assignment to a column gives it. *)
Assigned(r, set) ==
  [c \in Cols |->
     LET at == {i \in DOMAIN set : set[i][1] = c}
     IN  IF at = {} THEN r[c] ELSE set[CHOOSE i \in at : \A j \in at : j <= i][2]]

(* UPDATE assigns to the rows that match at its start and to no others; one *)
(* that replies with an error has changed no row.                           *)
UpdateExact ==
  /\ query.op = "updated" =>
       Contents = [p \in DOMAIN query.before |->
                     IF Holds(query.cond, query.before[p])
                     THEN Assigned(query.before[p], query.set) ELSE query.before[p]]
  /\ query.op = "failed" => Contents = query.before

(* An UPDATE that leaves a row matching its condition starts over for ever. *)
KeepsMatching ==
  /\ query.op = "update" /\ query.cond # NoCond
  /\ \E i \in DOMAIN query.set : query.set[i][1] = query.cond.col
  /\ \A r \in Rows : Holds(query.cond, Assigned(r, query.set))

(* Every other statement comes to its reply, unless an index goes out of    *)
(* step.                                                                    *)
StatementsReply ==
  query # Idle /\ ~KeepsMatching ~> query = Idle \/ damage # {}
=============================================================================
