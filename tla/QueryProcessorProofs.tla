------------------------- MODULE QueryProcessorProofs -------------------------
(***************************************************************************)
(* Theorems about QueryProcessor for every table size, every set of columns *)
(* and values, and every list of assignments.                              *)
(***************************************************************************)
EXTENDS QueryProcessor, CommonLemmas

USE TableAssumption DEF Pos, Rows

Tree == [Vals \X Pos -> Nat]

-----------------------------------------------------------------------------
(* What a tree holds after addKey and deleteKey, entry by entry. *)

Adds(old, new, v, p) ==
  \A w \in Vals, q \in Pos :
    new[<<w, q>>] = IF w = v /\ q = p THEN old[<<w, q>>] + 1 ELSE old[<<w, q>>]

Removes(old, new, v, p) ==
  \A w \in Vals, q \in Pos :
    new[<<w, q>>] = IF w = v /\ q = p /\ old[<<w, q>>] > 0
                    THEN old[<<w, q>>] - 1 ELSE old[<<w, q>>]

(* Adding an entry counts it once more and leaves the others alone. *)
LEMMA AddedKey ==
  ASSUME NEW tree \in Tree, NEW c, NEW v \in Vals, NEW p \in Pos
  PROVE  /\ addKey(tree, c, v, p) \in Tree
         /\ kind[c] = "TREEINDEX" => Adds(tree, addKey(tree, c, v, p), v, p)
<1> DEFINE key == <<v, p>>
<1>1. key \in Vals \X Pos
  OBVIOUS
<1>2. \A w \in Vals, q \in Pos :
        <<w, q>> \in Vals \X Pos /\ (<<w, q>> = key <=> w = v /\ q = p)
  OBVIOUS
<1>3. addKey(tree, c, v, p) = IF kind[c] = "TREEINDEX" THEN [tree EXCEPT ![key] = @ + 1] ELSE tree
  BY DEF addKey
<1> HIDE DEF key
<1>4. /\ [tree EXCEPT ![key] = @ + 1] \in Tree
      /\ \A e \in Vals \X Pos :
           [tree EXCEPT ![key] = @ + 1][e] = IF e = key THEN tree[e] + 1 ELSE tree[e]
  BY <1>1 DEF Tree
<1> QED BY <1>2, <1>3, <1>4 DEF Adds

(* Taking an entry out counts it once less and leaves the others alone. *)
LEMMA DeletedKey ==
  ASSUME NEW tree \in Tree, NEW c, NEW v \in Vals, NEW p \in Int
  PROVE  /\ deleteKey(tree, c, v, p) \in Tree
         /\ kind[c] = "TREEINDEX" => Removes(tree, deleteKey(tree, c, v, p), v, p)
<1> DEFINE key == <<v, p>>
<1>1. \A w \in Vals, q \in Pos :
        <<w, q>> \in Vals \X Pos /\ (<<w, q>> = key <=> w = v /\ q = p)
  OBVIOUS
<1>2. p \in Pos <=> key \in Vals \X Pos
  OBVIOUS
<1>3. deleteKey(tree, c, v, p) =
        IF kind[c] = "TREEINDEX" /\ p \in Pos /\ tree[key] > 0
        THEN [tree EXCEPT ![key] = @ - 1] ELSE tree
  BY DEF deleteKey
<1> HIDE DEF key
<1>4. ASSUME key \in Vals \X Pos, tree[key] > 0
      PROVE  /\ [tree EXCEPT ![key] = @ - 1] \in Tree
             /\ \A e \in Vals \X Pos :
                  [tree EXCEPT ![key] = @ - 1][e] = IF e = key THEN tree[e] - 1 ELSE tree[e]
  BY <1>4 DEF Tree
<1> QED BY <1>1, <1>2, <1>3, <1>4 DEF Removes

-----------------------------------------------------------------------------
(* The inductive invariant. *)

Tables == UNION {[0 .. n - 1 -> Rows] : n \in 0 .. MaxRows}

Deletes == [op : {"delete", "deleted"}, cond : Conds, cnt : Nat, before : Tables]

Readers == {NoReader} \cup [Pos -> Nat]

Updates == [op : {"update", "updated", "failed"}, cond : Conds, set : SetLists, cnt : Nat,
            reader : Readers, column : Cols \cup {NoCol},
            p : Pos, i : Nat, record : Rows, before : Tables]

(* A reader that is kept holds rows of the table only; what goes out of step *)
(* in a DELETE is every tree, and in an UPDATE that goes on, nothing.        *)
QueryOK ==
  /\ query \in {Idle} \cup Deletes \cup Updates
  /\ query.op = "delete" => damage = {} \/ damage = Trees
  /\ query.op = "update" =>
       /\ damage = {}
       /\ query.i > 0 => query.p < size
       /\ query.reader # NoReader => \A q \in Pos : query.reader[q] > 0 => q < size

(* The rows as the indexes have them: UPDATE changes the keys of a row       *)
(* before it stores the row.                                                *)
Current == IF query.op = "update" /\ query.i > 0
           THEN [row EXCEPT ![query.p] = query.record] ELSE row

Exact(tree, c, rows, n) ==
  \A v \in Vals, p \in Pos :
    tree[<<v, p>>] = IF p < n /\ rows[p][c] = v THEN 1 ELSE 0

InStep == \A c \in Trees \ damage : Exact(index[c], c, Current, size)

IInv == TypeOK /\ QueryOK /\ InStep

-----------------------------------------------------------------------------
(* Facts about the parts of the state. *)

(* The sets the parts of the state range over. *)
LEMMA Types ==
  ASSUME TypeOK
  PROVE  /\ \A p \in Pos : row[p] \in Rows
         /\ \A c \in Cols : index[c] \in Tree
         /\ Trees \subseteq Cols
         /\ size \in Nat
<1>1. \A p \in Pos : row[p] \in Rows
  BY DEF TypeOK
<1>2. \A c \in Cols : index[c] \in Tree
  BY Zenon DEF TypeOK, Tree
<1> QED BY <1>1, <1>2 DEF TypeOK, Trees

(* What a statement remembers of the file is a table. *)
LEMMA ContentsIsTable == ASSUME TypeOK PROVE Contents \in Tables
<1>1. /\ size \in 0 .. MaxRows
      /\ \A p \in 0 .. size - 1 : row[p] \in Rows
  BY DEF TypeOK
<1>2. Contents \in [0 .. size - 1 -> Rows]
  BY <1>1 DEF Contents
<1> QED BY <1>1, <1>2 DEF Tables

(* The next count of rows is a count. *)
LEMMA NextCount == ASSUME NEW n \in Nat PROVE (n + 1) % CountMod \in Nat
OBVIOUS

(* While indexes are in step, a reader returns rows of the table only.      *)
LEMMA SelectedInTable ==
  ASSUME IInv, damage = {}, Current = row, NEW cond \in Conds
  PROVE  /\ Selected(cond) \in [Pos -> Nat]
         /\ \A p \in Pos : Selected(cond)[p] > 0 => p < size
<1>1. CASE ByTree(cond)
  <2>1. cond \in [col : Cols, val : Vals] /\ cond.col \in Trees
    BY <1>1 DEF ByTree, Conds, Trees
  <2>2. Exact(index[cond.col], cond.col, row, size) /\ index[cond.col] \in Tree
    BY <2>1, Types DEF IInv, InStep
  <2>3. \A p \in Pos : Selected(cond)[p] = index[cond.col][<<cond.val, p>>]
    BY <1>1 DEF Selected
  <2>4. \A p \in Pos : <<cond.val, p>> \in Vals \X Pos
    BY <2>1
  <2>5. \A p \in Pos : index[cond.col][<<cond.val, p>>] \in Nat
    BY <2>2, <2>4 DEF Tree
  <2>6. Selected(cond) = [p \in Pos |-> index[cond.col][<<cond.val, p>>]]
    BY <1>1 DEF Selected
  <2> QED BY <2>1, <2>2, <2>3, <2>5, <2>6 DEF Exact
<1>2. CASE ~ByTree(cond)
  BY <1>2 DEF Selected
<1> QED BY <1>1, <1>2

(* One that works on stale trees still returns places for rows. *)
LEMMA SelectedType ==
  ASSUME TypeOK, NEW cond \in Conds
  PROVE  Selected(cond) \in [Pos -> Nat]
<1>1. CASE ByTree(cond)
  <2>1. cond \in [col : Cols, val : Vals]
    BY <1>1 DEF ByTree, Conds
  <2>2. \A p \in Pos : <<cond.val, p>> \in Vals \X Pos
    BY <2>1
  <2>3. index[cond.col] \in Tree
    BY <2>1, Types
  <2>4. \A p \in Pos : index[cond.col][<<cond.val, p>>] \in Nat
    BY <2>2, <2>3 DEF Tree
  <2> QED BY <1>1, <2>4 DEF Selected
<1>2. CASE ~ByTree(cond)
  BY <1>2 DEF Selected
<1> QED BY <1>1, <1>2

-----------------------------------------------------------------------------
(* The invariant holds at the start. *)
LEMMA InitIInv == Init => IInv
<1> SUFFICES ASSUME Init PROVE IInv
  OBVIOUS
<1>1. Trees = {} /\ NoEntries \in [Vals \X Pos -> Nat]
  BY DEF Init, Trees, NoEntries
<1>2. TypeOK
  BY <1>1 DEF Init, TypeOK, Idle
<1>3. QueryOK
  BY DEF Init, QueryOK, Idle
<1>4. InStep
  BY <1>1 DEF InStep
<1> QED BY <1>2, <1>3, <1>4 DEF IInv

(* INSERT: the row and its keys appear together. *)
LEMMA InsertStep == ASSUME IInv, NEW r \in Rows, Insert(r) PROVE IInv'
<1>1. query = Idle /\ damage = {} /\ query.op = "idle"
  BY DEF Insert, Ready, Idle
<1>2. /\ size \in Pos /\ size' = size + 1
      /\ row' = [row EXCEPT ![size] = r]
      /\ index' = [c \in Cols |-> addKey(index[c], c, r[c], size)]
      /\ UNCHANGED <<kind, query, damage>>
  BY DEF Insert, IInv, TypeOK
<1>3. \A c \in Cols : r[c] \in Vals /\ index[c] \in Tree
  BY Types DEF IInv
<1>4. \A c \in Cols : index'[c] \in Tree
  BY <1>2, <1>3, AddedKey
<1>5. TypeOK'
  <2>1. row' \in [Pos -> Rows] /\ size' \in 0 .. MaxRows
    BY <1>2 DEF IInv, TypeOK
  <2>2. index' \in [Cols -> [Vals \X Pos -> Nat]]
    <3>1. index' = [c \in Cols |-> index'[c]]
      BY <1>2
    <3> QED BY <1>4, <3>1, Zenon DEF Tree
  <2> QED BY <1>2, <2>1, <2>2 DEF IInv, TypeOK, Trees
<1>6. QueryOK'
  BY <1>1, <1>2 DEF QueryOK, Idle
<1>7. Current = row /\ Current' = row'
  BY <1>1, <1>2 DEF Current
<1>8. ASSUME NEW c \in Trees PROVE Exact(index'[c], c, row', size')
  <2>1. c \in Cols /\ kind[c] = "TREEINDEX" /\ Exact(index[c], c, row, size)
    BY <1>1, <1>7, <1>8 DEF IInv, InStep, Trees
  <2>2. Adds(index[c], index'[c], r[c], size)
    <3>1. index'[c] = addKey(index[c], c, r[c], size)
      BY <1>2, <2>1
    <3> QED BY <1>2, <1>3, <2>1, <3>1, AddedKey
  <2>3. \A q \in Pos : row'[q] = IF q = size THEN r ELSE row[q]
    BY <1>2 DEF IInv, TypeOK
  <2>4. size \in Nat /\ r \in Rows
    BY Types DEF IInv
  <2>5. \A w \in Vals, q \in Pos :
          index[c][<<w, q>>] = IF q < size /\ row[q][c] = w THEN 1 ELSE 0
    BY <2>1 DEF Exact
  <2>6. ASSUME NEW w \in Vals, NEW q \in Pos
        PROVE  index'[c][<<w, q>>] = IF q < size + 1 /\ row'[q][c] = w THEN 1 ELSE 0
    <3>1. CASE q = size
      BY <2>2, <2>3, <2>4, <2>5, <3>1 DEF Adds
    <3>2. CASE q # size
      BY <2>2, <2>3, <2>4, <2>5, <3>2 DEF Adds
    <3> QED BY <3>1, <3>2
  <2>7. size' = size + 1
    BY <1>2
  <2> QED BY <2>6, <2>7, Zenon DEF Exact
<1>9. InStep'
  BY <1>1, <1>2, <1>7, <1>8 DEF InStep, Trees
<1> QED BY <1>5, <1>6, <1>9 DEF IInv

(* CREATE INDEX fills the tree from the rows. *)
LEMMA CreateIndexStep == ASSUME IInv, NEW c \in Indexable, CreateIndex(c) PROVE IInv'
<1> DEFINE new == [e \in Vals \X Pos |-> IF e[2] < size /\ row[e[2]][c] = e[1] THEN 1 ELSE 0]
<1>1. /\ query = Idle /\ query.op = "idle"
      /\ damage' = damage \ {c}
      /\ kind' = [kind EXCEPT ![c] = "TREEINDEX"]
      /\ index' = [index EXCEPT ![c] = new]
      /\ UNCHANGED <<row, size, query>>
  BY DEF CreateIndex, Idle
<1>2. c \in Cols /\ new \in Tree
  BY DEF Tree
<1>3. Exact(new, c, row, size)
  <2>1. \A v \in Vals, p \in Pos : <<v, p>> \in Vals \X Pos
    OBVIOUS
  <2>2. \A v \in Vals, p \in Pos :
          new[<<v, p>>] = IF p < size /\ row[p][c] = v THEN 1 ELSE 0
    BY <2>1
  <2> QED BY <2>2 DEF Exact
<1> HIDE DEF new
<1>4. Trees' = Trees \cup {c}
  BY <1>1, <1>2 DEF IInv, TypeOK, Trees
<1>5. TypeOK'
  BY <1>1, <1>2, <1>4 DEF IInv, TypeOK, Tree, Trees
<1>6. QueryOK'
  BY <1>1 DEF QueryOK, Idle
<1>7. Current = row /\ Current' = row'
  BY <1>1 DEF Current
<1>8. \A d \in Cols : index'[d] = IF d = c THEN new ELSE index[d]
  BY <1>1, <1>2 DEF IInv, TypeOK
<1>9. InStep'
  <2> SUFFICES ASSUME NEW d \in Trees', d \notin damage'
               PROVE  Exact(index'[d], d, row', size')
    BY <1>7 DEF InStep
  <2>1. CASE d = c
    BY <1>1, <1>2, <1>3, <1>8, <2>1
  <2>2. CASE d # c
    <3>1. d \in Trees /\ d \in Cols /\ d \notin damage
      BY <1>1, <1>4, <2>2 DEF Trees
    <3>2. Exact(index[d], d, row, size)
      BY <1>7, <3>1 DEF IInv, InStep
    <3> QED BY <1>1, <1>8, <2>2, <3>1, <3>2
  <2> QED BY <2>1, <2>2
<1> QED BY <1>5, <1>6, <1>9 DEF IInv

-----------------------------------------------------------------------------
(* DELETE. *)

(* A statement that only looks at the table leaves indexes and rows alone.  *)
LEMMA SameTable ==
  ASSUME IInv, UNCHANGED <<row, size, kind, index, damage>>,
         Current = row, Current' = row', QueryOK',
         query'.op \in {"idle", "delete", "update", "deleted", "updated", "failed"}
  PROVE  IInv'
<1>1. TypeOK'
  BY DEF IInv, TypeOK, Trees
<1>2. InStep'
  BY DEF IInv, InStep, Trees
<1> QED BY <1>1, <1>2 DEF IInv

(* DELETE starts: neither rows nor indexes change yet. *)
LEMMA BeginDeleteStep ==
  ASSUME IInv, NEW cond \in Conds, BeginDelete(cond)
  PROVE  IInv'
<1>1. /\ query = Idle /\ query.op = "idle" /\ damage = {}
      /\ query' = [op |-> "delete", cond |-> cond, cnt |-> 0, before |-> Contents]
      /\ UNCHANGED <<row, size, kind, index, damage>>
  BY DEF BeginDelete, Ready, Idle
<1>2. Contents \in Tables
  BY ContentsIsTable DEF IInv
<1>3. query' \in Deletes /\ query'.op = "delete"
  BY <1>1, <1>2 DEF Deletes
<1>4. QueryOK'
  BY <1>1, <1>3 DEF QueryOK
<1>5. Current = row /\ Current' = row'
  BY <1>1, <1>3 DEF Current
<1> QED BY <1>1, <1>3, <1>4, <1>5, SameTable

(* While the trees are in step and the row is not the last one, the last row *)
(* and its entries move to its place.                                       *)
LEMMA MovedEntries ==
  ASSUME NEW c \in Cols, NEW n \in 1 .. MaxRows, NEW p \in Pos, p < n - 1,
         row \in [Pos -> Rows], Exact(index[c], c, row, n),
         NEW removed, NEW moved, NEW added,
         Removes(index[c], removed, row[p][c], p),
         Removes(removed, moved, row[n - 1][c], n - 1),
         Adds(moved, added, row[n - 1][c], p)
  PROVE  Exact(added, c, [row EXCEPT ![p] = row[n - 1]], n - 1)
<1> DEFINE tail == row[n - 1]
           rows == [row EXCEPT ![p] = tail]
<1>1. /\ n - 1 \in Pos /\ n \in Int /\ p \in Int
      /\ tail \in Rows /\ row[p] \in Rows
  OBVIOUS
<1>2. \A q \in Pos : rows[q] = IF q = p THEN tail ELSE row[q]
  OBVIOUS
<1> HIDE DEF rows, tail
<1>3. tail = row[n - 1]
  BY DEF tail
<1>4. ASSUME NEW w \in Vals, NEW q \in Pos
      PROVE  added[<<w, q>>] = IF q < n - 1 /\ rows[q][c] = w THEN 1 ELSE 0
  <2>1. index[c][<<w, q>>] = IF q < n /\ row[q][c] = w THEN 1 ELSE 0
    BY Zenon DEF Exact
  <2>2. removed[<<w, q>>] = IF w = row[p][c] /\ q = p /\ index[c][<<w, q>>] > 0
                            THEN index[c][<<w, q>>] - 1 ELSE index[c][<<w, q>>]
    BY Zenon DEF Removes
  <2>3. moved[<<w, q>>] = IF w = tail[c] /\ q = n - 1 /\ removed[<<w, q>>] > 0
                          THEN removed[<<w, q>>] - 1 ELSE removed[<<w, q>>]
    BY Zenon DEF Removes, tail
  <2>4. added[<<w, q>>] = IF w = tail[c] /\ q = p THEN moved[<<w, q>>] + 1 ELSE moved[<<w, q>>]
    BY Zenon DEF Adds, tail
  <2>5. q \in Int
    OBVIOUS
  <2>6. CASE q = p
    <3>1. removed[<<w, q>>] = 0
      BY <1>1, <2>1, <2>2, <2>6
    <3>2. moved[<<w, q>>] = 0
      BY <1>1, <2>3, <2>6, <3>1
    <3>3. rows[q] = tail
      BY <1>2, <2>6
    <3> QED BY <1>1, <2>4, <2>6, <3>2, <3>3
  <2>7. CASE q # p
    <3>1. removed[<<w, q>>] = IF q < n /\ row[q][c] = w THEN 1 ELSE 0
      BY <2>1, <2>2, <2>7
    <3>2. moved[<<w, q>>] = IF q < n - 1 /\ row[q][c] = w THEN 1 ELSE 0
      BY <1>1, <1>3, <2>3, <2>5, <3>1
    <3>3. rows[q] = row[q]
      BY <1>2, <2>7
    <3> QED BY <2>4, <2>7, <3>2, <3>3
  <2> QED BY <2>6, <2>7
<1>7. Exact(added, c, rows, n - 1)
  BY <1>4, Zenon DEF Exact
<1> QED BY <1>7, Zenon DEF rows, tail

(* One round of DELETE: the last row takes the place of the row found. When
   that is the last row itself, every tree is out of step. *)
LEMMA DeleteRowStep ==
  ASSUME IInv, NEW p \in Pos, NEW tail \in Rows, DeleteRow(p, tail)
  PROVE  IInv'
<1> DEFINE removed(c) == deleteKey(index[c], c, row[p][c], p)
           moved(c)   == deleteKey(removed(c), c, tail[c], size - 1)
           added(c)   == addKey(moved(c), c, tail[c], p)
<1>1. /\ query.op = "delete"
      /\ IsNext(query.cond, Selected(query.cond), p)
      /\ IsTail(tail)
      /\ row' = [row EXCEPT ![p] = tail]
      /\ index' = [c \in Cols |-> added(c)]
      /\ size' = IF size > 0 THEN size - 1 ELSE 0
      /\ query' = [query EXCEPT !.cnt = (@ + 1) % CountMod]
      /\ damage' = IF p >= size - 1 THEN damage \cup Trees ELSE damage
      /\ UNCHANGED kind
  BY DEF DeleteRow
<1>2. query \in Deletes /\ (damage = {} \/ damage = Trees)
  BY <1>1 DEF IInv, QueryOK, Idle, Updates
<1>3. Trees' = Trees /\ Trees \subseteq Cols /\ size \in 0 .. MaxRows
  BY <1>1 DEF Trees, IInv, TypeOK
<1>4. ASSUME NEW c \in Cols
      PROVE  /\ added(c) \in Tree
             /\ kind[c] = "TREEINDEX" =>
                  /\ Removes(index[c], removed(c), row[p][c], p)
                  /\ Removes(removed(c), moved(c), tail[c], size - 1)
                  /\ Adds(moved(c), added(c), tail[c], p)
  <2>1. index[c] \in Tree /\ row[p][c] \in Vals /\ tail[c] \in Vals /\ p \in Int /\ size - 1 \in Int
    BY <1>3, Types DEF IInv
  <2>2. /\ removed(c) \in Tree
        /\ kind[c] = "TREEINDEX" => Removes(index[c], removed(c), row[p][c], p)
    BY <2>1, DeletedKey
  <2> HIDE DEF removed
  <2>3. /\ moved(c) \in Tree
        /\ kind[c] = "TREEINDEX" => Removes(removed(c), moved(c), tail[c], size - 1)
    BY <2>1, <2>2, DeletedKey
  <2> HIDE DEF moved
  <2>4. /\ added(c) \in Tree
        /\ kind[c] = "TREEINDEX" => Adds(moved(c), added(c), tail[c], p)
    BY <2>1, <2>3, AddedKey
  <2> QED BY <2>2, <2>3, <2>4
<1> HIDE DEF removed, moved, added
<1>5. TypeOK'
  <2>1. row' \in [Pos -> Rows] /\ size' \in 0 .. MaxRows
    BY <1>1, <1>3 DEF IInv, TypeOK
  <2>2. index' \in [Cols -> [Vals \X Pos -> Nat]]
    BY <1>1, <1>4, Zenon DEF Tree
  <2>3. damage' \subseteq Trees'
    BY <1>1, <1>2, <1>3
  <2>4. query'.op = "delete"
    BY <1>1, <1>2 DEF Deletes
  <2>5. kind' \in [Cols -> {"NOINDEX", "TREEINDEX"}]
    BY <1>1 DEF IInv, TypeOK
  <2> QED BY <2>1, <2>2, <2>3, <2>4, <2>5 DEF TypeOK
<1>6. query' \in Deletes /\ query'.op = "delete"
  <2>1. (query.cnt + 1) % CountMod \in Nat
    BY <1>2, NextCount DEF Deletes
  <2> QED BY <1>1, <1>2, <2>1 DEF Deletes
<1>7. QueryOK'
  BY <1>1, <1>2, <1>3, <1>6 DEF QueryOK
<1>8. Current = row /\ Current' = row'
  BY <1>1, <1>6 DEF Current
<1>9. InStep'
  <2> SUFFICES ASSUME NEW c \in Trees, c \notin damage'
               PROVE  Exact(index'[c], c, row', size')
    BY <1>3, <1>8 DEF InStep
  <2>1. damage = {} /\ ~(p >= size - 1) /\ c \in Cols /\ kind[c] = "TREEINDEX"
    BY <1>1, <1>2, <1>3 DEF Trees
  <2>2. size \in 1 .. MaxRows /\ p < size - 1 /\ size' = size - 1
    BY <1>1, <1>3, <2>1
  <2>3. tail = row[size - 1]
    BY <1>1, <2>2 DEF IsTail
  <2>4. Exact(index[c], c, row, size) /\ row \in [Pos -> Rows]
    BY <1>8, <2>1 DEF IInv, InStep, TypeOK
  <2>5. Exact(added(c), c, [row EXCEPT ![p] = row[size - 1]], size - 1)
    BY <1>4, <2>1, <2>2, <2>3, <2>4, MovedEntries
  <2>6. index'[c] = added(c)
    BY <1>1, <2>1
  <2> QED BY <1>1, <2>2, <2>3, <2>5, <2>6
<1> QED BY <1>5, <1>7, <1>9 DEF IInv

(* DELETE finds no more rows. *)
LEMMA EndDeleteStep == ASSUME IInv, EndDelete PROVE IInv'
<1>1. /\ query.op = "delete"
      /\ query' = [query EXCEPT !.op = "deleted"]
      /\ UNCHANGED <<row, size, kind, index, damage>>
  BY DEF EndDelete
<1>2. query \in Deletes
  BY <1>1 DEF IInv, QueryOK, Idle, Updates
<1>3. query' \in Deletes /\ query'.op = "deleted"
  BY <1>1, <1>2 DEF Deletes
<1>4. QueryOK'
  BY <1>3 DEF QueryOK
<1>5. Current = row /\ Current' = row'
  BY <1>1, <1>3 DEF Current
<1> QED BY <1>1, <1>3, <1>4, <1>5, SameTable

-----------------------------------------------------------------------------
(* UPDATE. *)

(* UPDATE starts: neither rows nor indexes change yet. *)
LEMMA BeginUpdateStep ==
  ASSUME IInv, NEW cond \in Conds, NEW set \in SetLists, BeginUpdate(cond, set)
  PROVE  IInv'
<1>1. /\ query = Idle /\ query.op = "idle" /\ damage = {}
      /\ query' = [op |-> "update", cond |-> cond, set |-> set, cnt |-> 0,
                   reader |-> NoReader, column |-> NoCol, p |-> 0, i |-> 0,
                   record |-> row[0], before |-> Contents]
      /\ UNCHANGED <<row, size, kind, index, damage>>
  BY DEF BeginUpdate, Ready, Idle
<1>2. Contents \in Tables /\ 0 \in Pos /\ row[0] \in Rows
  BY ContentsIsTable, Types DEF IInv
<1>3. query' \in Updates /\ query'.op = "update" /\ query'.i = 0 /\ query'.reader = NoReader
  BY <1>1, <1>2 DEF Updates, Readers
<1>4. QueryOK'
  BY <1>1, <1>3 DEF QueryOK
<1>5. Current = row /\ Current' = row'
  BY <1>1, <1>3 DEF Current
<1> QED BY <1>1, <1>3, <1>4, <1>5, SameTable

(* An UPDATE that is running has put no index out of step. *)
LEMMA Updating ==
  ASSUME IInv, query.op = "update"
  PROVE  query \in Updates /\ damage = {}
BY DEF IInv, QueryOK, Idle, Deletes

(* The reader of an UPDATE, new or kept, returns rows of the table only.    *)
LEMMA ReaderInTable ==
  ASSUME IInv, query.op = "update", query.i = 0
  PROVE  /\ Reader \in [Pos -> Nat]
         /\ \A q \in Pos : Reader[q] > 0 => q < size
<1>1. query \in Updates /\ damage = {} /\ Current = row
  BY Updating DEF Current
<1>2. query.cond \in Conds /\ query.reader \in {NoReader} \cup [Pos -> Nat]
  BY <1>1 DEF Updates, Readers
<1>3. CASE query.reader = NoReader
  BY <1>1, <1>2, <1>3, SelectedInTable DEF Reader
<1>4. CASE query.reader # NoReader
  BY <1>2, <1>4 DEF Reader, IInv, QueryOK
<1> QED BY <1>3, <1>4

(* UPDATE takes the next row; the copy it will change equals the row. *)
LEMMA FetchStep == ASSUME IInv, NEW p \in Pos, Fetch(p) PROVE IInv'
<1> DEFINE reader == [Reader EXCEPT ![p] = @ - 1]
           column == IF query.reader = NoReader /\ query.cond # NoCond
                     THEN query.cond.col ELSE NoCol
<1>1. /\ query.op = "update" /\ query.i = 0
      /\ IsNext(query.cond, Reader, p)
      /\ query' = [query EXCEPT !.reader = reader, !.column = column,
                                !.p = p, !.i = 1, !.record = row[p]]
      /\ UNCHANGED <<row, size, kind, index, damage>>
  BY DEF Fetch
<1>2. query \in Updates /\ damage = {}
  BY <1>1, Updating
<1>3. Reader \in [Pos -> Nat] /\ \A q \in Pos : Reader[q] > 0 => q < size
  BY <1>1, ReaderInTable
<1>4. Reader[p] > 0
  BY <1>1 DEF IsNext
<1>5. reader \in [Pos -> Nat] /\ \A q \in Pos : reader[q] > 0 => q < size
  BY <1>3, <1>4
<1>6. column \in Cols \cup {NoCol}
  <2>1. query.cond \in Conds
    BY <1>2 DEF Updates
  <2> QED BY <2>1 DEF Conds
<1>7. row[p] \in Rows
  BY Types DEF IInv
<1> HIDE DEF reader, column
<1>8. /\ query' \in Updates /\ query'.op = "update" /\ query'.i = 1
      /\ query'.p = p /\ query'.record = row[p] /\ query'.reader = reader
  <2>1. reader \in Readers
    BY <1>5 DEF Readers
  <2> QED BY <1>1, <1>2, <1>6, <1>7, <2>1 DEF Updates
<1>9. QueryOK'
  BY <1>1, <1>2, <1>3, <1>4, <1>5, <1>8 DEF QueryOK
<1>10. Current = row /\ Current' = row'
  BY <1>1, <1>8 DEF Current, IInv, TypeOK
<1> QED BY <1>1, <1>8, <1>9, <1>10, SameTable

(* Column c of row p gets the value v. *)
Sets(rows, after, c, p, v) ==
  \A q \in Pos : after[q][c] = IF q = p THEN v ELSE rows[q][c]

(* One assignment takes the old key of the row out and puts the new one in.  *)
LEMMA RekeyedRow ==
  ASSUME NEW c \in Cols, NEW n \in 0 .. MaxRows, NEW p \in Pos, p < n, NEW v \in Vals,
         NEW rows \in [Pos -> Rows], NEW tree, Exact(tree, c, rows, n),
         NEW removed, NEW added,
         Removes(tree, removed, rows[p][c], p), Adds(removed, added, v, p),
         NEW after \in [Pos -> Rows], Sets(rows, after, c, p, v)
  PROVE  Exact(added, c, after, n)
<1>1. ASSUME NEW w \in Vals, NEW q \in Pos
      PROVE  added[<<w, q>>] = IF q < n /\ after[q][c] = w THEN 1 ELSE 0
  <2>1. tree[<<w, q>>] = IF q < n /\ rows[q][c] = w THEN 1 ELSE 0
    BY Zenon DEF Exact
  <2>2. removed[<<w, q>>] = IF w = rows[p][c] /\ q = p /\ tree[<<w, q>>] > 0
                            THEN tree[<<w, q>>] - 1 ELSE tree[<<w, q>>]
    BY Zenon DEF Removes
  <2>3. added[<<w, q>>] = IF w = v /\ q = p THEN removed[<<w, q>>] + 1 ELSE removed[<<w, q>>]
    BY Zenon DEF Adds
  <2>4. CASE q = p
    <3>1. removed[<<w, q>>] = 0
      BY <2>1, <2>2, <2>4
    <3> QED BY <2>3, <2>4, <3>1 DEF Sets
  <2>5. CASE q # p
    BY <2>1, <2>2, <2>3, <2>5 DEF Sets
  <2> QED BY <2>4, <2>5
<1> QED BY <1>1, Zenon DEF Exact

(* One item of SET: the index follows the copy, not yet the row. *)
LEMMA AssignStep == ASSUME IInv, Assign PROVE IInv'
<1> DEFINE c       == query.set[query.i][1]
           v       == query.set[query.i][2]
           record  == [query.record EXCEPT ![c] = v]
           reader  == IF c = query.column THEN NoReader ELSE query.reader
           removed == deleteKey(index[c], c, query.record[c], query.p)
           added   == addKey(removed, c, v, query.p)
<1>1. /\ query.op = "update" /\ query.i \in DOMAIN query.set
      /\ c # NoCol
      /\ index' = [index EXCEPT ![c] = added]
      /\ query' = [query EXCEPT !.record = record, !.reader = reader, !.i = @ + 1]
      /\ UNCHANGED <<row, size, kind, damage>>
  BY DEF Assign
<1>2. query \in Updates /\ damage = {}
  BY <1>1, Updating
<1>3. /\ query.record \in Rows /\ query.p \in Pos /\ query.i \in Nat
      /\ query.set \in SetLists /\ query.reader \in Readers
  BY <1>2 DEF Updates
<1>4. query.i > 0 /\ c \in Cols /\ v \in Vals
  <2>1. query.set \in Seq((Cols \cup {NoCol}) \X Vals)
    BY <1>3
  <2>2. query.i \in 1 .. Len(query.set)
    BY <1>1, <2>1
  <2>3. query.set[query.i] \in (Cols \cup {NoCol}) \X Vals
    BY <2>1, <2>2
  <2> QED BY <1>1, <2>2, <2>3
<1>5. query.p < size
  BY <1>1, <1>4 DEF IInv, QueryOK
<1>6. record \in Rows /\ reader \in Readers
  BY <1>3, <1>4 DEF Readers
<1>7. /\ added \in Tree
      /\ kind[c] = "TREEINDEX" =>
           /\ Removes(index[c], removed, query.record[c], query.p)
           /\ Adds(removed, added, v, query.p)
  <2>1. index[c] \in Tree /\ query.record[c] \in Vals /\ query.p \in Int
    BY <1>3, <1>4, Types DEF IInv
  <2> HIDE DEF c, v
  <2>2. /\ removed \in Tree
        /\ kind[c] = "TREEINDEX" => Removes(index[c], removed, query.record[c], query.p)
    BY <2>1, DeletedKey
  <2> HIDE DEF removed
  <2> QED BY <1>3, <1>4, <2>2, AddedKey
<1>8. reader # NoReader => reader = query.reader
  OBVIOUS
<1>9. \A d \in Cols : record[d] = IF d = c THEN v ELSE query.record[d]
  BY <1>3, <1>4
<1> HIDE DEF c, v, record, reader, removed, added
<1>10. /\ query' \in Updates /\ query'.op = "update" /\ query'.i > 0
       /\ query'.p = query.p /\ query'.record = record /\ query'.reader = reader
  <2>1. query' \in Updates
    <3>1. query.i + 1 \in Nat
      BY <1>3
    <3>2. query' = [query EXCEPT !.record = record, !.reader = reader, !.i = query.i + 1]
      BY <1>1, Zenon
    <3> QED BY <1>2, <1>6, <3>1, <3>2 DEF Updates
  <2>2. /\ query'.op = query.op /\ query'.p = query.p /\ query'.i = query.i + 1
        /\ query'.record = record /\ query'.reader = reader
    BY <1>1, <1>2 DEF Updates
  <2> QED BY <1>1, <1>3, <2>1, <2>2
<1>11. QueryOK'
  BY <1>1, <1>2, <1>5, <1>8, <1>10 DEF IInv, QueryOK
<1>12. \A d \in Cols : index'[d] = IF d = c THEN added ELSE index[d]
  BY <1>1, <1>4 DEF IInv, TypeOK
<1>13. TypeOK'
  <2>1. index' \in [Cols -> [Vals \X Pos -> Nat]]
    BY <1>1, <1>4, <1>7 DEF IInv, TypeOK, Tree
  <2> QED BY <1>1, <1>10, <2>1 DEF IInv, TypeOK, Trees
<1>14. /\ Current = [row EXCEPT ![query.p] = query.record]
       /\ Current' = [row EXCEPT ![query.p] = record]
       /\ row \in [Pos -> Rows]
  BY <1>1, <1>4, <1>10 DEF Current, IInv, TypeOK
<1>15. /\ Current \in [Pos -> Rows] /\ Current' \in [Pos -> Rows]
       /\ Current[query.p] = query.record
       /\ \A q \in Pos : Current'[q] = IF q = query.p THEN record ELSE Current[q]
  BY <1>3, <1>6, <1>14
<1>16. InStep'
  <2> SUFFICES ASSUME NEW d \in Trees PROVE Exact(index'[d], d, Current', size)
    BY <1>1 DEF InStep, Trees
  <2>1. d \in Cols /\ kind[d] = "TREEINDEX" /\ Exact(index[d], d, Current, size)
    BY <1>2 DEF IInv, InStep, Trees
  <2>2. size \in 0 .. MaxRows
    BY DEF IInv, TypeOK
  <2>3. CASE d = c
    <3>1. Sets(Current, Current', c, query.p, v)
      BY <1>4, <1>9, <1>15 DEF Sets
    <3>2. /\ Removes(index[c], removed, Current[query.p][c], query.p)
          /\ Adds(removed, added, v, query.p)
      BY <1>7, <1>15, <2>1, <2>3
    <3>3. Exact(index[c], c, Current, size)
      BY <2>1, <2>3
    <3>4. query.p \in Pos /\ query.p < size /\ c \in Cols /\ v \in Vals
      BY <1>3, <1>4, <1>5
    <3>5. Current \in [Pos -> Rows] /\ Current' \in [Pos -> Rows]
      BY <1>15
    <3>6. Exact(added, c, Current', size)
      BY <2>2, <3>1, <3>2, <3>3, <3>4, <3>5, RekeyedRow
    <3> QED BY <1>12, <2>1, <2>3, <3>6
  <2>4. CASE d # c
    <3>1. \A q \in Pos : Current'[q][d] = Current[q][d]
      BY <1>3, <1>9, <1>15, <2>1, <2>4
    <3>2. index'[d] = index[d]
      BY <1>12, <2>1, <2>4
    <3>3. ASSUME NEW w \in Vals, NEW q \in Pos
          PROVE  index'[d][<<w, q>>] = IF q < size /\ Current'[q][d] = w THEN 1 ELSE 0
      <4>1. index[d][<<w, q>>] = IF q < size /\ Current[q][d] = w THEN 1 ELSE 0
        BY <2>1, Zenon DEF Exact
      <4> QED BY <3>1, <3>2, <4>1
    <3> QED BY <3>3, Zenon DEF Exact
  <2> QED BY <2>3, <2>4
<1> QED BY <1>11, <1>13, <1>16 DEF IInv

(* A column that does not exist: the rows stay, and the trees that have had  *)
(* an entry changed are the ones that are out of step.                      *)
LEMMA AssignFailsStep == ASSUME IInv, AssignFails PROVE IInv'
<1>1. /\ query.op = "update" /\ query.i \in DOMAIN query.set
      /\ query' = [query EXCEPT !.op = "failed"]
      /\ damage' = damage \cup {c \in Trees : query.record[c] # row[query.p][c]}
      /\ UNCHANGED <<row, size, kind, index>>
  BY DEF AssignFails
<1>2. query \in Updates /\ damage = {}
  BY <1>1, Updating
<1>3. query' \in Updates /\ query'.op = "failed"
  BY <1>1, <1>2 DEF Updates
<1>4. QueryOK'
  BY <1>3 DEF QueryOK
<1>5. TypeOK'
  BY <1>1, <1>3 DEF IInv, TypeOK, Trees
<1>6. Current' = row'
  BY <1>3 DEF Current
<1>7. query.i \in Nat /\ query.p \in Pos /\ query.record \in Rows
  BY <1>2 DEF Updates
<1>8. InStep'
  <2> SUFFICES ASSUME NEW c \in Trees, c \notin damage'
               PROVE  Exact(index[c], c, row, size)
    BY <1>1, <1>6 DEF InStep, Trees
  <2>1. Exact(index[c], c, Current, size) /\ query.record[c] = row[query.p][c]
    BY <1>1, <1>2 DEF IInv, InStep
  <2>2. \A q \in Pos : Current[q][c] = row[q][c]
    BY <1>7, <2>1 DEF Current, IInv, TypeOK
  <2>3. ASSUME NEW w \in Vals, NEW q \in Pos
        PROVE  index[c][<<w, q>>] = IF q < size /\ row[q][c] = w THEN 1 ELSE 0
    <3>1. index[c][<<w, q>>] = IF q < size /\ Current[q][c] = w THEN 1 ELSE 0
      BY <2>1, Zenon DEF Exact
    <3> QED BY <2>2, <3>1
  <2> QED BY <2>3, Zenon DEF Exact
<1> QED BY <1>4, <1>5, <1>8 DEF IInv

(* The row joins its keys. *)
LEMMA StoreStep == ASSUME IInv, Store PROVE IInv'
<1>1. /\ query.op = "update" /\ query.i = Len(query.set) + 1
      /\ row' = [row EXCEPT ![query.p] = query.record]
      /\ query' = [query EXCEPT !.cnt = (query.cnt + 1) % CountMod, !.i = 0]
      /\ UNCHANGED <<size, kind, index, damage>>
  BY DEF Store
<1>2. query \in Updates /\ damage = {}
  BY <1>1, Updating
<1>3. /\ query.p \in Pos /\ query.record \in Rows /\ query.cnt \in Nat
      /\ query.reader \in Readers /\ query.set \in Seq((Cols \cup {NoCol}) \X Vals)
  BY <1>2 DEF Updates
<1>4. (query.cnt + 1) % CountMod \in Nat
  BY <1>3, NextCount
<1>5. query' \in Updates /\ query'.op = "update" /\ query'.i = 0 /\ query'.reader = query.reader
  BY <1>1, <1>2, <1>4 DEF Updates
<1>6. QueryOK'
  BY <1>1, <1>2, <1>5 DEF IInv, QueryOK
<1>7. TypeOK'
  BY <1>1, <1>3, <1>5 DEF IInv, TypeOK, Trees
<1>8. Current' = row' /\ Current = row'
  <2>1. query.i > 0
    BY <1>1, <1>3
  <2> QED BY <1>1, <1>5, <2>1 DEF Current
<1>9. InStep'
  BY <1>1, <1>8 DEF IInv, InStep, Trees
<1> QED BY <1>6, <1>7, <1>9 DEF IInv

(* UPDATE finds no more rows. *)
LEMMA EndUpdateStep == ASSUME IInv, EndUpdate PROVE IInv'
<1>1. /\ query.op = "update" /\ query.i = 0
      /\ query' = [query EXCEPT !.op = "updated"]
      /\ UNCHANGED <<row, size, kind, index, damage>>
  BY DEF EndUpdate
<1>2. query \in Updates
  BY <1>1, Updating
<1>3. query' \in Updates /\ query'.op = "updated"
  BY <1>1, <1>2 DEF Updates
<1>4. QueryOK'
  BY <1>3 DEF QueryOK
<1>5. Current = row /\ Current' = row'
  BY <1>1, <1>3 DEF Current
<1> QED BY <1>1, <1>3, <1>4, <1>5, SameTable

(* The reply ends the statement and leaves the table alone. *)
LEMMA ReplyStep == ASSUME IInv, Reply PROVE IInv'
<1>1. /\ query.op # "update" /\ query' = Idle /\ query'.op = "idle"
      /\ UNCHANGED <<row, size, kind, index, damage>>
  BY DEF Reply, Replied, Idle
<1>2. QueryOK'
  BY <1>1 DEF QueryOK
<1>3. Current = row /\ Current' = row'
  BY <1>1 DEF Current
<1> QED BY <1>1, <1>2, <1>3, SameTable

-----------------------------------------------------------------------------
(* Every step of the specification. *)
LEMMA NextIInv == IInv /\ [Next]_vars => IInv'
<1> SUFFICES ASSUME IInv, [Next]_vars PROVE IInv'
  OBVIOUS
<1>1. ASSUME NEW r \in Rows, Insert(r) PROVE IInv'
  BY <1>1, InsertStep
<1>2. ASSUME NEW c \in Indexable, CreateIndex(c) PROVE IInv'
  BY <1>2, CreateIndexStep
<1>3. ASSUME NEW cond \in Conds, BeginDelete(cond) PROVE IInv'
  BY <1>3, BeginDeleteStep
<1>4. ASSUME NEW cond \in Conds, NEW set \in SetLists, BeginUpdate(cond, set) PROVE IInv'
  BY <1>4, BeginUpdateStep
<1>5. ASSUME NEW p \in Pos, NEW tail \in Rows, DeleteRow(p, tail) PROVE IInv'
  BY <1>5, DeleteRowStep
<1>6. CASE EndDelete
  BY <1>6, EndDeleteStep
<1>7. ASSUME NEW p \in Pos, Fetch(p) PROVE IInv'
  BY <1>7, FetchStep
<1>8. CASE Assign
  BY <1>8, AssignStep
<1>9. CASE AssignFails
  BY <1>9, AssignFailsStep
<1>10. CASE Store
  BY <1>10, StoreStep
<1>11. CASE EndUpdate
  BY <1>11, EndUpdateStep
<1>12. CASE Reply
  BY <1>12, ReplyStep
<1>13. CASE UNCHANGED vars
  <2>1. /\ Current' = Current /\ Trees' = Trees
        /\ UNCHANGED <<row, size, kind, index, query, damage>>
    BY <1>13 DEF vars, Current, Trees
  <2> QED BY <2>1 DEF IInv, TypeOK, QueryOK, InStep
<1> QED
  BY <1>1, <1>2, <1>3, <1>4, <1>5, <1>6, <1>7, <1>8, <1>9, <1>10, <1>11, <1>12, <1>13
  DEF Next, Step

(* Every reachable state satisfies the inductive invariant: the trees that
   are not out of step hold exactly the keys of the rows, those of the row
   that an UPDATE is at as it will be stored. *)
THEOREM Invariant == Spec => []IInv
BY InitIInv, NextIInv, PTL DEF Spec

(* Rows, trees, counts and sizes stay what they are meant to be; a DELETE    *)
(* never takes the size below 0, nor an UPDATE an entry that is not there.  *)
THEOREM TypeCorrect == Spec => []TypeOK
<1>1. IInv => TypeOK
  BY DEF IInv
<1> QED BY Invariant, <1>1, PTL

(* Between statements a SELECT by an indexed column returns the rows that a  *)
(* scan would, each once, unless a DELETE of the last row or an UPDATE that  *)
(* failed has put the index out of step (queryprocessor.cpp:166, :213).      *)
THEOREM IndexedSelectIsExact == Spec => []SelectExact
<1>1. IInv => SelectExact
  <2> SUFFICES ASSUME IInv, query = Idle,
                      NEW cond \in [col : Cols \ damage, val : Vals], NEW p \in Pos
               PROVE  Selected(cond)[p] = IF p < size /\ Holds(cond, row[p]) THEN 1 ELSE 0
    BY DEF SelectExact
  <2>1. /\ cond \in [col : Cols, val : Vals] /\ cond.col \notin damage
        /\ cond.col \in Cols /\ cond.val \in Vals
    OBVIOUS
  <2>2. cond # NoCond
    BY <2>1, NoCondAssumption
  <2>3. Current = row
    BY DEF Current, Idle
  <2>4. CASE kind[cond.col] = "TREEINDEX"
    <3>1. Exact(index[cond.col], cond.col, row, size)
      BY <2>1, <2>3, <2>4 DEF IInv, InStep, Trees
    <3>2. index[cond.col][<<cond.val, p>>] =
            IF p < size /\ row[p][cond.col] = cond.val THEN 1 ELSE 0
      BY <2>1, <3>1 DEF Exact
    <3> QED BY <2>2, <2>4, <3>2 DEF Selected, ByTree, Holds
  <2>5. CASE kind[cond.col] # "TREEINDEX"
    BY <2>2, <2>5 DEF Selected, ByTree
  <2> QED BY <2>4, <2>5
<1> QED BY Invariant, <1>1, PTL

-----------------------------------------------------------------------------
(* What DELETE and UPDATE have done when they reply: on the invariant above,  *)
(* what a reader returns is what a scan would.                              *)

(* DELETE: every row removed so far has been counted, and each row that does *)
(* not match is there as often as at the start.                             *)
DeleteOK ==
  query.op \in {"delete", "deleted"} /\ damage = {} =>
    /\ query.cnt = Cardinality(DOMAIN query.before) - size
    /\ \A r \in Rows : ~Holds(query.cond, r) => Copies(Contents, r) = Copies(query.before, r)
    /\ query.op = "deleted" => \A p \in 0 .. size - 1 : ~Holds(query.cond, row[p])

(* A row as it was, or a row that matched with its assignments made; those   *)
(* cannot be made when one of them names no column.                         *)
Touched(p) ==
  /\ Holds(query.cond, query.before[p])
  /\ row[p] = Assigned(query.before[p], query.set)
  /\ \A j \in DOMAIN query.set : query.set[j][1] # NoCol

RowsOK ==
  /\ DOMAIN query.before = 0 .. size - 1
  /\ \A p \in 0 .. size - 1 : row[p] = query.before[p] \/ Touched(p)

(* The copy of the row has had the assignments before the i-th made, the     *)
(* last one to each column being the one that counts.                       *)
CopyOf(record, r, set, i) ==
  \A c \in Cols :
    /\ (\A j \in 1 .. i - 1 : set[j][1] # c) => record[c] = r[c]
    /\ \A j \in 1 .. i - 1 :
         set[j][1] = c /\ (\A k \in j + 1 .. i - 1 : set[k][1] # c) => record[c] = set[j][2]

RecordOK ==
  query.i > 0 =>
    /\ query.i <= Len(query.set) + 1
    /\ Holds(query.cond, row[query.p])
    /\ \A j \in 1 .. query.i - 1 : query.set[j][1] # NoCol
    /\ CopyOf(query.record, row[query.p], query.set, query.i)

(* A reader that is kept gives each row that matches once; the rows it has   *)
(* given, but for the one UPDATE is at, are done.                           *)
ReaderOK ==
  query.reader # NoReader =>
    \A q \in 0 .. size - 1 :
      /\ query.reader[q] \in {0, 1}
      /\ query.reader[q] = 1 => Holds(query.cond, row[q]) /\ (query.i > 0 => q # query.p)
      /\ /\ query.reader[q] = 0 /\ Holds(query.cond, query.before[q])
         /\ ~(query.i > 0 /\ q = query.p)
         => Touched(q)

UpdateOK ==
  /\ query.op \in {"update", "updated", "failed"} => RowsOK
  /\ query.op = "update" => RecordOK /\ ReaderOK
  /\ query.op = "updated" =>
       \A p \in 0 .. size - 1 : Holds(query.cond, query.before[p]) => Touched(p)
  /\ query.op = "failed" => \E j \in DOMAIN query.set : query.set[j][1] = NoCol

SInv == IInv /\ DeleteOK /\ UpdateOK

-----------------------------------------------------------------------------
(* Facts about readers, assignments and counts. *)

(* While indexes are in step, a reader returns the rows that match, once.    *)
LEMMA SelectedExact ==
  ASSUME IInv, damage = {}, Current = row, NEW cond \in Conds, NEW p \in Pos
  PROVE  Selected(cond)[p] = IF p < size /\ Holds(cond, row[p]) THEN 1 ELSE 0
<1>1. CASE ByTree(cond)
  <2>1. cond \in [col : Cols, val : Vals] /\ cond # NoCond /\ cond.col \in Trees
    BY <1>1 DEF ByTree, Conds, Trees
  <2>2. Exact(index[cond.col], cond.col, row, size)
    BY <2>1 DEF IInv, InStep
  <2>3. index[cond.col][<<cond.val, p>>] = IF p < size /\ row[p][cond.col] = cond.val THEN 1 ELSE 0
    BY <2>1, <2>2 DEF Exact
  <2> QED BY <1>1, <2>1, <2>3 DEF Selected, Holds
<1>2. CASE ~ByTree(cond)
  BY <1>2 DEF Selected
<1> QED BY <1>1, <1>2

SetList == Seq((Cols \cup {NoCol}) \X Vals)

(* The assignment that counts for a column: none, or the last. *)
LEMMA LastAssignment ==
  ASSUME NEW set \in SetList, NEW c \in Cols
  PROVE  \/ \A j \in 1 .. Len(set) : set[j][1] # c
         \/ \E j \in 1 .. Len(set) :
              set[j][1] = c /\ \A k \in j + 1 .. Len(set) : set[k][1] # c
<1> DEFINE at == {j \in 1 .. Len(set) : set[j][1] = c}
<1>1. CASE at = {}
  BY <1>1
<1>2. CASE at # {}
  <2>1. at \in SUBSET (0 .. Len(set)) /\ Len(set) \in Nat
    BY DEF SetList
  <2>2. PICK j \in at : \A k \in at : k <= j
    BY <1>2, <2>1, Greatest
  <2>3. ASSUME NEW k \in j + 1 .. Len(set) PROVE set[k][1] # c
    <3>1. k \in 1 .. Len(set) /\ ~(k <= j)
      BY <2>1, <2>2
    <3> QED BY <2>2, <3>1
  <2> QED BY <2>2, <2>3
<1> QED BY <1>1, <1>2

(* Assigned takes the value of that assignment, or what was there. *)
LEMMA AssignedIs ==
  ASSUME NEW r, NEW set \in SetList, NEW c \in Cols
  PROVE  /\ (\A j \in 1 .. Len(set) : set[j][1] # c) => Assigned(r, set)[c] = r[c]
         /\ \A j \in 1 .. Len(set) :
              set[j][1] = c /\ (\A k \in j + 1 .. Len(set) : set[k][1] # c)
              => Assigned(r, set)[c] = set[j][2]
<1> DEFINE at == {i \in DOMAIN set : set[i][1] = c}
<1>1. DOMAIN set = 1 .. Len(set) /\ Len(set) \in Nat
  BY DEF SetList
<1>2. Assigned(r, set)[c] =
        IF at = {} THEN r[c] ELSE set[CHOOSE i \in at : \A j \in at : j <= i][2]
  BY DEF Assigned
<1>3. ASSUME \A j \in 1 .. Len(set) : set[j][1] # c PROVE at = {}
  BY <1>1, <1>3
<1>4. ASSUME NEW j \in 1 .. Len(set), set[j][1] = c,
             \A k \in j + 1 .. Len(set) : set[k][1] # c
      PROVE  at # {} /\ j = CHOOSE i \in at : \A k \in at : k <= i
  <2>1. j \in at
    BY <1>1, <1>4
  <2>2. \A k \in at : k \in 1 .. Len(set) /\ k <= j
    <3>1. ASSUME NEW k \in at, ~(k <= j) PROVE FALSE
      <4>1. k \in j + 1 .. Len(set) /\ set[k][1] = c
        BY <1>1, <3>1
      <4> QED BY <1>4, <4>1
    <3> QED BY <1>1, <3>1
  <2> HIDE DEF at
  <2>3. \A i \in at : (\A k \in at : k <= i) => i = j
    BY <2>1, <2>2
  <2> QED BY <2>1, <2>2, <2>3
<1> QED BY <1>2, <1>3, <1>4

(* A copy that has had every assignment made is the row assigned. *)
LEMMA CopyIsAssigned ==
  ASSUME NEW r, NEW set \in SetList, NEW record \in Rows, CopyOf(record, r, set, Len(set) + 1)
  PROVE  record = Assigned(r, set)
<1>1. ASSUME NEW c \in Cols PROVE record[c] = Assigned(r, set)[c]
  <2>1. Len(set) \in Nat /\ Len(set) + 1 - 1 = Len(set)
    BY DEF SetList
  <2>2. /\ (\A j \in 1 .. Len(set) : set[j][1] # c) => record[c] = r[c]
        /\ \A j \in 1 .. Len(set) :
             set[j][1] = c /\ (\A k \in j + 1 .. Len(set) : set[k][1] # c)
             => record[c] = set[j][2]
    BY <2>1 DEF CopyOf
  <2> QED BY <2>2, AssignedIs, LastAssignment
<1> QED BY <1>1 DEF Assigned

(* Making the assignments twice is making them once: an UPDATE that starts   *)
(* over may come to a row again.                                            *)
LEMMA AssignedTwice ==
  ASSUME NEW r, NEW set \in SetList
  PROVE  Assigned(Assigned(r, set), set) = Assigned(r, set)
<1>1. ASSUME NEW c \in Cols PROVE Assigned(Assigned(r, set), set)[c] = Assigned(r, set)[c]
  BY AssignedIs, LastAssignment
<1> QED BY <1>1 DEF Assigned

(* The places a row has among the first n. *)
Places(rows, n, r) == {q \in 0 .. n - 1 : rows[q] = r}

(* They are finitely many. *)
LEMMA PlacesFinite ==
  ASSUME NEW n \in 0 .. MaxRows, NEW rows, NEW r
  PROVE  IsFiniteSet(Places(rows, n, r)) /\ Cardinality(Places(rows, n, r)) \in Nat
<1>1. IsFiniteSet(0 .. n - 1)
  BY FS_Interval
<1>2. Places(rows, n, r) \in SUBSET (0 .. n - 1)
  BY DEF Places
<1> QED BY <1>1, <1>2, FS_Subset, FS_CardinalityType

MoveLast(rows, n, p) == [rows EXCEPT ![p] = rows[n - 1]]

(* Filling a place with the last row and cutting that off changes the number *)
(* of copies of the row that was there, and of no other.                    *)
LEMMA CopiesAfterMove ==
  ASSUME NEW n \in 1 .. MaxRows, NEW rows \in [Pos -> Rows], NEW p \in 0 .. n - 1,
         NEW r \in Rows, r # rows[p]
  PROVE  Cardinality(Places(MoveLast(rows, n, p), n - 1, r)) = Cardinality(Places(rows, n, r))
<1> DEFINE after == MoveLast(rows, n, p)
           A == Places(rows, n, r)
           B == Places(after, n - 1, r)
<1>1. \A q \in Pos : after[q] = IF q = p THEN rows[n - 1] ELSE rows[q]
  BY DEF MoveLast
<1> HIDE DEF after
<1>2. CASE rows[n - 1] # r
  <2>1. A = B
    BY <1>1, <1>2 DEF Places
  <2> QED BY <2>1 DEF after
<1>3. CASE rows[n - 1] = r
  <2>1. n - 1 \in A /\ p # n - 1 /\ p \notin A
    BY <1>3 DEF Places
  <2>2. B = (A \ {n - 1}) \cup {p}
    BY <1>1, <1>3, <2>1 DEF Places
  <2>3. IsFiniteSet(A) /\ Cardinality(A) \in Nat
    <3>1. n \in 0 .. MaxRows
      OBVIOUS
    <3> QED BY <3>1, PlacesFinite
  <2> HIDE DEF A, B
  <2>4. IsFiniteSet(A \ {n - 1}) /\ Cardinality(A \ {n - 1}) = Cardinality(A) - 1
    BY <2>1, <2>3, FS_RemoveElement
  <2>5. Cardinality(B) = Cardinality(A \ {n - 1}) + 1
    BY <2>1, <2>2, <2>4, FS_AddElement
  <2> QED BY <2>3, <2>4, <2>5 DEF A, B, after
<1> QED BY <1>2, <1>3

(* Those are the copies of the row in a table of n rows. *)
LEMMA CopiesInTable ==
  ASSUME NEW n, NEW rows, NEW r, NEW table, table = [q \in 0 .. n - 1 |-> rows[q]]
  PROVE  Copies(table, r) = Cardinality(Places(rows, n, r))
<1>1. {q \in DOMAIN table : table[q] = r} = Places(rows, n, r)
  BY DEF Places
<1> QED BY <1>1 DEF Copies

(* The rows a statement has kept from its start are no more than fit. *)
LEMMA TableSize ==
  ASSUME NEW table \in Tables
  PROVE  Cardinality(DOMAIN table) \in 0 .. MaxRows
<1>1. PICK n \in 0 .. MaxRows : table \in [0 .. n - 1 -> Rows]
  BY DEF Tables
<1>2. DOMAIN table = 0 .. n - 1
  BY <1>1
<1>3. Cardinality(0 .. n - 1) = IF 0 > n - 1 THEN 0 ELSE n - 1 - 0 + 1
  BY FS_Interval
<1> QED BY <1>2, <1>3

-----------------------------------------------------------------------------
(* DELETE. *)

(* DELETE starts with nothing counted and every row in place. *)
LEMMA BeginDeleteDone ==
  ASSUME IInv, NEW cond \in Conds, BeginDelete(cond)
  PROVE  SInv'
<1>1. /\ query' = [op |-> "delete", cond |-> cond, cnt |-> 0, before |-> Contents]
      /\ UNCHANGED <<row, size>>
  BY DEF BeginDelete
<1>2. query'.op = "delete" /\ query'.cnt = 0 /\ query'.before = Contents
  BY <1>1
<1>3. Contents' = Contents
  BY <1>1 DEF Contents
<1>4. Cardinality(DOMAIN Contents) = size
  <2>1. size \in Nat /\ DOMAIN Contents = 0 .. size - 1
    BY Types DEF IInv, Contents
  <2>2. Cardinality(0 .. size - 1) = IF 0 > size - 1 THEN 0 ELSE size - 1 - 0 + 1
    BY <2>1, FS_Interval
  <2> QED BY <2>1, <2>2
<1>5. size \in Nat
  BY Types DEF IInv
<1>6. DeleteOK'
  BY <1>1, <1>2, <1>3, <1>4, <1>5 DEF DeleteOK
<1>7. UpdateOK'
  BY <1>2 DEF UpdateOK
<1> QED BY <1>6, <1>7, BeginDeleteStep DEF SInv

(* One round takes one row that matches out, and counts it. *)
LEMMA DeleteRowDone ==
  ASSUME SInv, NEW p \in Pos, NEW tail \in Rows, DeleteRow(p, tail)
  PROVE  SInv'
<1>1. /\ query.op = "delete"
      /\ IsNext(query.cond, Selected(query.cond), p)
      /\ IsTail(tail)
      /\ row' = [row EXCEPT ![p] = tail]
      /\ size' = IF size > 0 THEN size - 1 ELSE 0
      /\ query' = [query EXCEPT !.cnt = (query.cnt + 1) % CountMod]
      /\ damage' = IF p >= size - 1 THEN damage \cup Trees ELSE damage
  BY DEF DeleteRow
<1>2. query \in Deletes /\ IInv
  BY <1>1 DEF SInv, IInv, QueryOK, Idle, Updates
<1>3. /\ query'.op = "delete" /\ query'.cond = query.cond /\ query'.before = query.before
      /\ query'.cnt = (query.cnt + 1) % CountMod
      /\ query.cond \in Conds /\ query.cnt \in Nat /\ query.before \in Tables
  BY <1>1, <1>2 DEF Deletes
<1>4. UpdateOK'
  BY <1>3 DEF UpdateOK
<1>5. ASSUME damage' = {} PROVE DeleteOK'
  <2>1. damage = {} /\ Current = row /\ row \in [Pos -> Rows] /\ size \in 0 .. MaxRows
    BY <1>1, <1>2, <1>5 DEF Current, IInv, TypeOK
  <2>2. p < size /\ Holds(query.cond, row[p])
    <3>1. Selected(query.cond)[p] > 0
      BY <1>1 DEF IsNext
    <3>2. Selected(query.cond)[p] = IF p < size /\ Holds(query.cond, row[p]) THEN 1 ELSE 0
      BY <1>2, <1>3, <2>1, SelectedExact
    <3> QED BY <3>1, <3>2
  <2>3. /\ size \in 1 .. MaxRows /\ p \in 0 .. size - 1 /\ size' = size - 1
        /\ row' = [row EXCEPT ![p] = row[size - 1]]
    <3>1. /\ row' = [row EXCEPT ![p] = tail] /\ IsTail(tail)
          /\ size' = IF size > 0 THEN size - 1 ELSE 0
      BY <1>1
    <3>2. size \in 1 .. MaxRows /\ p \in 0 .. size - 1
      BY <2>1, <2>2
    <3>3. tail = row[size - 1]
      BY <3>1, <3>2 DEF IsTail
    <3>4. size' = size - 1
      BY <3>1, <3>2
    <3> QED BY <3>1, <3>2, <3>3, <3>4, Zenon
  <2>4. /\ query.cnt = Cardinality(DOMAIN query.before) - size
        /\ \A r \in Rows : ~Holds(query.cond, r) => Copies(Contents, r) = Copies(query.before, r)
    BY <1>1, <2>1 DEF SInv, DeleteOK
  <2>5. query'.cnt = Cardinality(DOMAIN query.before) - size'
    <3>1. Cardinality(DOMAIN query.before) \in 0 .. MaxRows
      BY <1>3, TableSize
    <3>2. PICK n \in 0 .. MaxRows : n = Cardinality(DOMAIN query.before)
      BY <3>1
    <3>3. query.cnt = n - size /\ size \in 1 .. MaxRows /\ size' = size - 1
      BY <2>3, <2>4, <3>2
    <3>4. query'.cnt = (query.cnt + 1) % CountMod
      BY <1>3
    <3>5. query.cnt + 1 \in 0 .. MaxRows /\ query.cnt + 1 = n - (size - 1)
      BY <1>3, <3>3
    <3>6. (query.cnt + 1) % CountMod = query.cnt + 1
      BY <3>5
    <3> QED BY <3>2, <3>3, <3>4, <3>5, <3>6
  <2>6. ASSUME NEW r \in Rows, ~Holds(query.cond, r)
        PROVE  Copies(Contents', r) = Copies(query.before, r)
    <3>1. r # row[p]
      BY <2>2, <2>6
    <3>2. Cardinality(Places(row', size - 1, r)) = Cardinality(Places(row, size, r))
      <4>1. row' = MoveLast(row, size, p)
        BY <2>3, Zenon DEF MoveLast
      <4>2. size \in 1 .. MaxRows /\ row \in [Pos -> Rows] /\ p \in 0 .. size - 1
        BY <2>1, <2>3
      <4>3. Cardinality(Places(MoveLast(row, size, p), size - 1, r))
              = Cardinality(Places(row, size, r))
        BY <3>1, <4>2, CopiesAfterMove
      <4> QED BY <4>1, <4>3
    <3>3. Copies(Contents, r) = Cardinality(Places(row, size, r))
      BY CopiesInTable DEF Contents
    <3>4. Copies(Contents', r) = Cardinality(Places(row', size', r))
      BY CopiesInTable DEF Contents
    <3>5. Copies(Contents', r) = Copies(Contents, r)
      BY <2>3, <3>2, <3>3, <3>4
    <3> QED BY <2>4, <2>6, <3>5
  <2> QED BY <1>3, <2>5, <2>6 DEF DeleteOK
<1>6. DeleteOK'
  BY <1>5 DEF DeleteOK
<1>7. IInv'
  BY <1>2, DeleteRowStep
<1> QED BY <1>4, <1>6, <1>7 DEF SInv

(* DELETE ends when no row matches any more. *)
LEMMA EndDeleteDone == ASSUME SInv, EndDelete PROVE SInv'
<1>1. /\ query.op = "delete" /\ Exhausted(Selected(query.cond))
      /\ query' = [query EXCEPT !.op = "deleted"]
      /\ UNCHANGED <<row, size, kind, index, damage>>
  BY DEF EndDelete
<1>2. query \in Deletes /\ IInv
  BY <1>1 DEF SInv, IInv, QueryOK, Idle, Updates
<1>3. /\ query'.op = "deleted" /\ query'.cond = query.cond /\ query'.before = query.before
      /\ query'.cnt = query.cnt /\ query.cond \in Conds
  BY <1>1, <1>2 DEF Deletes
<1>4. UpdateOK'
  BY <1>3 DEF UpdateOK
<1>5. ASSUME damage = {}, NEW p \in 0 .. size - 1 PROVE ~Holds(query.cond, row[p])
  <2>1. p \in Pos /\ p < size
    BY <1>2 DEF IInv, TypeOK
  <2>2. Current = row
    BY <1>1 DEF Current
  <2>3. Selected(query.cond)[p] = IF p < size /\ Holds(query.cond, row[p]) THEN 1 ELSE 0
    BY <1>2, <1>3, <1>5, <2>1, <2>2, SelectedExact
  <2> QED BY <1>1, <2>1, <2>3 DEF Exhausted
<1>6. Contents' = Contents
  BY <1>1 DEF Contents
<1>7. DeleteOK'
  BY <1>1, <1>3, <1>5, <1>6 DEF SInv, DeleteOK
<1> QED BY <1>2, <1>4, <1>7, EndDeleteStep DEF SInv

-----------------------------------------------------------------------------
(* UPDATE. *)

(* The parts of a running UPDATE. *)
LEMMA UpdateParts ==
  ASSUME SInv, query.op = "update"
  PROVE  /\ IInv /\ RowsOK /\ RecordOK /\ ReaderOK
         /\ query \in Updates /\ damage = {} /\ size \in 0 .. MaxRows
         /\ query.cond \in Conds /\ query.set \in SetList /\ query.p \in Pos /\ query.i \in Nat
         /\ query.record \in Rows /\ query.reader \in Readers
         /\ query.i > 0 => query.p < size
         /\ row \in [Pos -> Rows]
<1>1. IInv /\ RowsOK /\ RecordOK /\ ReaderOK
  BY DEF SInv, UpdateOK
<1>2. query \in Updates /\ damage = {}
  BY <1>1, Updating
<1>3. /\ query.cond \in Conds /\ query.set \in SetLists /\ query.p \in Pos /\ query.i \in Nat
      /\ query.record \in Rows /\ query.reader \in Readers
  BY <1>2 DEF Updates
<1>4. size \in 0 .. MaxRows /\ row \in [Pos -> Rows]
  BY <1>1 DEF IInv, TypeOK
<1>5. query.i > 0 => query.p < size
  BY <1>1 DEF IInv, QueryOK
<1> QED BY <1>1, <1>2, <1>3, <1>4, <1>5 DEF SetList

(* A step that changes neither rows nor statement leaves what was done done. *)
LEMMA SameTouched ==
  ASSUME row' = row, query'.cond = query.cond, query'.set = query.set,
         query'.before = query.before, NEW p
  PROVE  Touched(p)' <=> Touched(p)
BY DEF Touched

(* So it keeps every row as it was or done. *)
LEMMA SameRows ==
  ASSUME RowsOK, UNCHANGED <<row, size>>, query'.cond = query.cond, query'.set = query.set,
         query'.before = query.before
  PROVE  RowsOK'
BY SameTouched DEF RowsOK

(* UPDATE starts with every row as it was. *)
LEMMA BeginUpdateDone ==
  ASSUME IInv, NEW cond \in Conds, NEW set \in SetLists, BeginUpdate(cond, set)
  PROVE  SInv'
<1>1. /\ query' = [op |-> "update", cond |-> cond, set |-> set, cnt |-> 0,
                   reader |-> NoReader, column |-> NoCol, p |-> 0, i |-> 0,
                   record |-> row[0], before |-> Contents]
      /\ UNCHANGED <<row, size>>
  BY DEF BeginUpdate
<1>2. /\ query'.op = "update" /\ query'.before = Contents
      /\ query'.i = 0 /\ query'.reader = NoReader
  BY <1>1
<1>3. RowsOK'
  <2>1. DOMAIN Contents = 0 .. size - 1 /\ \A p \in 0 .. size - 1 : row[p] = Contents[p]
    BY DEF Contents
  <2> QED BY <1>1, <1>2, <2>1 DEF RowsOK
<1>4. RecordOK' /\ ReaderOK'
  BY <1>2 DEF RecordOK, ReaderOK
<1>5. DeleteOK' /\ UpdateOK'
  BY <1>2, <1>3, <1>4 DEF DeleteOK, UpdateOK
<1> QED BY <1>5, BeginUpdateStep DEF SInv

(* The reader, new or kept, has each row that matches and is not done once,  *)
(* and no other.                                                            *)
LEMMA ReaderExact ==
  ASSUME SInv, query.op = "update", query.i = 0, NEW q \in 0 .. size - 1
  PROVE  /\ q \in Pos /\ Reader[q] \in {0, 1}
         /\ Reader[q] = 1 => Holds(query.cond, row[q])
         /\ Reader[q] = 0 /\ Holds(query.cond, query.before[q]) => Touched(q)
<1>1. IInv /\ RowsOK /\ ReaderOK /\ query.cond \in Conds /\ damage = {} /\ size \in 0 .. MaxRows
  BY UpdateParts
<1>2. q \in Pos /\ q < size
  BY <1>1
<1>3. CASE query.reader = NoReader
  <2>1. Current = row
    BY DEF Current
  <2>2. Selected(query.cond)[q] = IF q < size /\ Holds(query.cond, row[q]) THEN 1 ELSE 0
    BY <1>1, <1>2, <2>1, SelectedExact
  <2>3. Reader[q] = IF Holds(query.cond, row[q]) THEN 1 ELSE 0
    BY <1>2, <1>3, <2>2 DEF Reader
  <2>4. row[q] = query.before[q] \/ Touched(q)
    BY <1>1 DEF RowsOK
  <2> QED BY <1>2, <2>3, <2>4
<1>4. CASE query.reader # NoReader
  <2>1. Reader = query.reader
    BY <1>4 DEF Reader
  <2>2. ~(query.i > 0)
    OBVIOUS
  <2> QED BY <1>1, <1>2, <1>4, <2>1, <2>2 DEF ReaderOK
<1> QED BY <1>3, <1>4

(* UPDATE takes a row that matches; the copy has no assignment made yet. *)
LEMMA FetchDone == ASSUME SInv, NEW p \in Pos, Fetch(p) PROVE SInv'
<1> DEFINE reader == [Reader EXCEPT ![p] = @ - 1]
           column == IF query.reader = NoReader /\ query.cond # NoCond
                     THEN query.cond.col ELSE NoCol
<1>1. /\ query.op = "update" /\ query.i = 0
      /\ IsNext(query.cond, Reader, p)
      /\ query' = [query EXCEPT !.reader = reader, !.column = column,
                                !.p = p, !.i = 1, !.record = row[p]]
      /\ UNCHANGED <<row, size, kind, index, damage>>
  BY DEF Fetch
<1>2. /\ IInv /\ RowsOK /\ query \in Updates /\ size \in 0 .. MaxRows
      /\ query.set \in SetList
  BY <1>1, UpdateParts
<1>3. Reader \in [Pos -> Nat] /\ p < size
  BY <1>1, <1>2, ReaderInTable DEF IsNext
<1>4. p \in 0 .. size - 1
  BY <1>2, <1>3
<1>5. Reader[p] = 1 /\ Holds(query.cond, row[p])
  <2>1. Reader[p] > 0
    BY <1>1 DEF IsNext
  <2> QED BY <1>1, <1>4, <2>1, ReaderExact
<1>6. reader[p] = 0 /\ \A q \in Pos : q # p => reader[q] = Reader[q]
  BY <1>3, <1>5
<1> HIDE DEF reader, column
<1>7. /\ query'.op = "update" /\ query'.i = 1 /\ query'.p = p /\ query'.record = row[p]
      /\ query'.reader = reader /\ query'.cond = query.cond /\ query'.set = query.set
      /\ query'.before = query.before
  BY <1>1, <1>2 DEF Updates
<1>8. RowsOK'
  BY <1>1, <1>2, <1>7, SameRows
<1>9. RecordOK'
  <2>1. CopyOf(row[p], row[p], query.set, 1)
    BY DEF CopyOf
  <2>2. Len(query.set) \in Nat
    BY <1>2 DEF SetList
  <2> QED BY <1>1, <1>5, <1>7, <2>1, <2>2 DEF RecordOK
<1>10. ReaderOK'
  <2> SUFFICES ASSUME NEW q \in 0 .. size - 1
               PROVE  /\ reader[q] \in {0, 1}
                      /\ reader[q] = 1 => Holds(query.cond, row[q]) /\ q # p
                      /\ reader[q] = 0 /\ Holds(query.cond, query.before[q]) /\ q # p => Touched(q)
    BY <1>1, <1>7, SameTouched DEF ReaderOK
  <2>1. /\ q \in Pos /\ Reader[q] \in {0, 1}
        /\ Reader[q] = 1 => Holds(query.cond, row[q])
        /\ Reader[q] = 0 /\ Holds(query.cond, query.before[q]) => Touched(q)
    BY <1>1, ReaderExact
  <2> QED BY <1>6, <2>1
<1>11. DeleteOK' /\ UpdateOK'
  BY <1>7, <1>8, <1>9, <1>10 DEF DeleteOK, UpdateOK
<1> QED BY <1>2, <1>11, FetchStep DEF SInv

(* One more assignment is made to the copy. *)
LEMMA CopyAfterAssign ==
  ASSUME NEW set \in SetList, NEW i \in 1 .. Len(set), NEW r, NEW record \in Rows,
         set[i][1] \in Cols, CopyOf(record, r, set, i)
  PROVE  CopyOf([record EXCEPT ![set[i][1]] = set[i][2]], r, set, i + 1)
<1> DEFINE after == [record EXCEPT ![set[i][1]] = set[i][2]]
<1>1. \A c \in Cols : after[c] = IF c = set[i][1] THEN set[i][2] ELSE record[c]
  OBVIOUS
<1> HIDE DEF after
<1>2. i \in Nat /\ Len(set) \in Nat /\ i + 1 - 1 = i /\ i >= 1
  BY DEF SetList
<1> SUFFICES ASSUME NEW c \in Cols
             PROVE  /\ (\A j \in 1 .. i : set[j][1] # c) => after[c] = r[c]
                    /\ \A j \in 1 .. i :
                         set[j][1] = c /\ (\A k \in j + 1 .. i : set[k][1] # c)
                         => after[c] = set[j][2]
  BY <1>2 DEF CopyOf, after
<1>3. /\ (\A j \in 1 .. i - 1 : set[j][1] # c) => record[c] = r[c]
      /\ \A j \in 1 .. i - 1 :
           set[j][1] = c /\ (\A k \in j + 1 .. i - 1 : set[k][1] # c) => record[c] = set[j][2]
  BY DEF CopyOf
<1>4. CASE c = set[i][1]
  <2>1. after[c] = set[i][2]
    BY <1>1, <1>4
  <2>2. i \in 1 .. i
    BY <1>2
  <2>3. ASSUME NEW j \in 1 .. i, \A k \in j + 1 .. i : set[k][1] # c PROVE j = i
    <3>1. ASSUME j # i PROVE i \in j + 1 .. i
      BY <1>2, <3>1
    <3> QED BY <1>4, <2>3, <3>1
  <2> QED BY <1>4, <2>1, <2>2, <2>3
<1>5. CASE c # set[i][1]
  <2>1. after[c] = record[c]
    BY <1>1, <1>5
  <2>2. \A j \in 1 .. i - 1 : j \in 1 .. i
    BY <1>2
  <2>3. \A j \in 1 .. i : set[j][1] = c => j \in 1 .. i - 1
    BY <1>2, <1>5
  <2>4. \A j \in 1 .. i : \A k \in j + 1 .. i - 1 : k \in j + 1 .. i
    BY <1>2
  <2> QED BY <1>3, <2>1, <2>2, <2>3, <2>4
<1> QED BY <1>4, <1>5

(* One item of SET. *)
LEMMA AssignDone == ASSUME SInv, Assign PROVE SInv'
<1> DEFINE c      == query.set[query.i][1]
           v      == query.set[query.i][2]
           record == [query.record EXCEPT ![c] = v]
           reader == IF c = query.column THEN NoReader ELSE query.reader
<1>1. /\ query.op = "update" /\ query.i \in DOMAIN query.set
      /\ c # NoCol
      /\ query' = [query EXCEPT !.record = record, !.reader = reader, !.i = query.i + 1]
      /\ UNCHANGED <<row, size, kind, damage>>
  BY DEF Assign
<1>2. /\ IInv /\ RowsOK /\ RecordOK /\ ReaderOK /\ query \in Updates /\ size \in 0 .. MaxRows
      /\ query.set \in SetList /\ query.record \in Rows /\ query.i \in Nat
  BY <1>1, UpdateParts
<1>3. Len(query.set) \in Nat /\ query.i \in 1 .. Len(query.set) /\ query.i > 0
  BY <1>1, <1>2 DEF SetList
<1>4. c \in Cols
  BY <1>1, <1>2, <1>3 DEF SetList
<1>5. CopyOf(record, row[query.p], query.set, query.i + 1)
  BY <1>2, <1>3, <1>4, CopyAfterAssign DEF RecordOK
<1>6. \A j \in 1 .. query.i + 1 - 1 : query.set[j][1] # NoCol
  BY <1>1, <1>2, <1>3 DEF RecordOK
<1>7. reader # NoReader => reader = query.reader
  OBVIOUS
<1> HIDE DEF record, reader, c, v
<1>8. /\ query'.op = "update" /\ query'.i = query.i + 1 /\ query'.p = query.p
      /\ query'.record = record /\ query'.reader = reader /\ query'.cond = query.cond
      /\ query'.set = query.set /\ query'.before = query.before
  BY <1>1, <1>2 DEF Updates
<1>9. RowsOK'
  BY <1>1, <1>2, <1>8, SameRows
<1>10. RecordOK'
  BY <1>1, <1>2, <1>3, <1>5, <1>6, <1>8 DEF RecordOK
<1>11. ReaderOK'
  <2>1. query'.i > 0
    BY <1>3, <1>8
  <2> QED BY <1>1, <1>2, <1>3, <1>7, <1>8, <2>1, SameTouched DEF ReaderOK
<1>12. DeleteOK' /\ UpdateOK'
  BY <1>8, <1>9, <1>10, <1>11 DEF DeleteOK, UpdateOK
<1> QED BY <1>2, <1>12, AssignStep DEF SInv

(* A column that does not exist: the rows are as they were or assigned. *)
LEMMA AssignFailsDone == ASSUME SInv, AssignFails PROVE SInv'
<1>1. /\ query.op = "update" /\ query.i \in DOMAIN query.set
      /\ query.set[query.i][1] = NoCol
      /\ query' = [query EXCEPT !.op = "failed"]
      /\ UNCHANGED <<row, size>>
  BY DEF AssignFails
<1>2. IInv /\ RowsOK /\ query \in Updates
  BY <1>1, UpdateParts
<1>3. /\ query'.op = "failed" /\ query'.cond = query.cond /\ query'.set = query.set
      /\ query'.before = query.before
  BY <1>1, <1>2 DEF Updates
<1>4. RowsOK'
  BY <1>1, <1>2, <1>3, SameRows
<1>5. DeleteOK' /\ UpdateOK'
  BY <1>1, <1>3, <1>4 DEF DeleteOK, UpdateOK
<1> QED BY <1>2, <1>5, AssignFailsStep DEF SInv

(* The row joins its keys: the row has its assignments made, whether it was  *)
(* as at the start or had been done before.                                 *)
LEMMA StoreDone == ASSUME SInv, Store PROVE SInv'
<1>0. PICK p : p = query.p
  OBVIOUS
<1>1. /\ query.op = "update" /\ query.i = Len(query.set) + 1
      /\ row' = [row EXCEPT ![p] = query.record]
      /\ query' = [query EXCEPT !.cnt = (query.cnt + 1) % CountMod, !.i = 0]
      /\ UNCHANGED <<size, kind, index, damage>>
  BY <1>0 DEF Store
<1>2. /\ IInv /\ RowsOK /\ RecordOK /\ ReaderOK /\ query \in Updates /\ size \in 0 .. MaxRows
      /\ query.set \in SetList /\ query.record \in Rows /\ p \in Pos /\ row \in [Pos -> Rows]
      /\ query.i > 0 => p < size
  BY <1>0, <1>1, UpdateParts
<1>3. Len(query.set) \in Nat /\ query.i > 0 /\ p \in 0 .. size - 1
  BY <1>1, <1>2 DEF SetList
<1>4. /\ query'.op = "update" /\ query'.i = 0 /\ query'.reader = query.reader
      /\ query'.cond = query.cond /\ query'.set = query.set /\ query'.before = query.before
  BY <1>1, <1>2 DEF Updates
<1>5. query.record = Assigned(row[p], query.set)
  BY <1>0, <1>1, <1>2, <1>3, CopyIsAssigned DEF RecordOK
<1>6. \A q \in 0 .. size - 1 : row'[q] = IF q = p THEN query.record ELSE row[q]
  BY <1>1, <1>2
<1>7. ASSUME NEW q \in 0 .. size - 1, q # p
      PROVE  row'[q] = row[q] /\ (Touched(q)' <=> Touched(q))
  BY <1>4, <1>6, <1>7 DEF Touched
<1>8. Touched(p)'
  <2>1. row[p] = query.before[p] \/ Touched(p)
    BY <1>2, <1>3 DEF RowsOK
  <2>2. row'[p] = query.record
    BY <1>3, <1>6
  <2>3. Holds(query.cond, row[p]) /\ \A j \in DOMAIN query.set : query.set[j][1] # NoCol
    <3>1. DOMAIN query.set = 1 .. Len(query.set) /\ Len(query.set) + 1 - 1 = Len(query.set)
      BY <1>2 DEF SetList
    <3> QED BY <1>0, <1>1, <1>2, <1>3, <3>1 DEF RecordOK
  <2>4. Holds(query.cond, query.before[p])
    BY <2>1, <2>3 DEF Touched
  <2>5. query.record = Assigned(query.before[p], query.set)
    BY <1>2, <1>5, <2>1, AssignedTwice DEF Touched
  <2> QED BY <1>4, <2>2, <2>3, <2>4, <2>5 DEF Touched
<1>9. RowsOK'
  BY <1>1, <1>2, <1>4, <1>7, <1>8 DEF RowsOK
<1>10. RecordOK'
  BY <1>4 DEF RecordOK
<1>11. ReaderOK'
  <2> SUFFICES ASSUME query.reader # NoReader, NEW q \in 0 .. size - 1
               PROVE  /\ query.reader[q] \in {0, 1}
                      /\ query.reader[q] = 1 => Holds(query.cond, row'[q])
                      /\ query.reader[q] = 0 /\ Holds(query.cond, query.before[q]) => Touched(q)'
    BY <1>1, <1>4 DEF ReaderOK
  <2>1. /\ query.reader[q] \in {0, 1}
        /\ query.reader[q] = 1 => Holds(query.cond, row[q]) /\ q # p
        /\ query.reader[q] = 0 /\ Holds(query.cond, query.before[q]) /\ q # p => Touched(q)
    BY <1>0, <1>2, <1>3 DEF ReaderOK
  <2> QED BY <1>7, <1>8, <2>1
<1>12. DeleteOK' /\ UpdateOK'
  BY <1>4, <1>9, <1>10, <1>11 DEF DeleteOK, UpdateOK
<1> QED BY <1>2, <1>12, StoreStep DEF SInv

(* UPDATE ends when the reader, new or kept, has no row left. *)
LEMMA EndUpdateDone == ASSUME SInv, EndUpdate PROVE SInv'
<1>1. /\ query.op = "update" /\ query.i = 0 /\ Exhausted(Reader)
      /\ query' = [query EXCEPT !.op = "updated"]
      /\ UNCHANGED <<row, size, kind, index, damage>>
  BY DEF EndUpdate
<1>2. IInv /\ RowsOK /\ query \in Updates
  BY <1>1, UpdateParts
<1>3. /\ query'.op = "updated" /\ query'.cond = query.cond /\ query'.set = query.set
      /\ query'.before = query.before
  BY <1>1, <1>2 DEF Updates
<1>4. RowsOK'
  BY <1>1, <1>2, <1>3, SameRows
<1>5. ASSUME NEW p \in 0 .. size - 1, Holds(query.cond, query.before[p]) PROVE Touched(p)'
  <2>1. p \in Pos /\ (Reader[p] = 0 => Touched(p))
    BY <1>1, <1>5, ReaderExact
  <2>2. Touched(p)
    BY <1>1, <2>1 DEF Exhausted
  <2> QED BY <1>1, <1>3, <2>2, SameTouched
<1>6. DeleteOK' /\ UpdateOK'
  BY <1>1, <1>3, <1>4, <1>5 DEF DeleteOK, UpdateOK
<1> QED BY <1>2, <1>6, EndUpdateStep DEF SInv

-----------------------------------------------------------------------------
(* Every step of the specification. *)

(* No statement runs: nothing is to be shown of one. *)
LEMMA IdleDone == ASSUME IInv', query' = Idle PROVE SInv'
<1>1. query'.op = "idle"
  BY DEF Idle
<1> QED BY <1>1 DEF SInv, DeleteOK, UpdateOK

(* The invariant holds at the start and each step keeps it. *)
LEMMA StatementsInv == (Init => SInv) /\ (SInv /\ [Next]_vars => SInv')
<1>1. Init => SInv
  <2>1. Init => query.op = "idle"
    BY DEF Init, Idle
  <2> QED BY <2>1, InitIInv DEF SInv, DeleteOK, UpdateOK
<1>2. SUFFICES ASSUME SInv, [Next]_vars PROVE SInv'
  BY <1>1
<1>3. IInv /\ IInv'
  BY <1>2, NextIInv DEF SInv
<1>4. ASSUME NEW r \in Rows, Insert(r) PROVE SInv'
  BY <1>3, <1>4, IdleDone DEF Insert, Ready
<1>5. ASSUME NEW c \in Indexable, CreateIndex(c) PROVE SInv'
  BY <1>3, <1>5, IdleDone DEF CreateIndex
<1>6. ASSUME NEW cond \in Conds, BeginDelete(cond) PROVE SInv'
  BY <1>3, <1>6, BeginDeleteDone
<1>7. ASSUME NEW cond \in Conds, NEW set \in SetLists, BeginUpdate(cond, set) PROVE SInv'
  BY <1>3, <1>7, BeginUpdateDone
<1>8. ASSUME NEW p \in Pos, NEW tail \in Rows, DeleteRow(p, tail) PROVE SInv'
  BY <1>2, <1>8, DeleteRowDone
<1>9. CASE EndDelete
  BY <1>2, <1>9, EndDeleteDone
<1>10. ASSUME NEW p \in Pos, Fetch(p) PROVE SInv'
  BY <1>2, <1>10, FetchDone
<1>11. CASE Assign
  BY <1>2, <1>11, AssignDone
<1>12. CASE AssignFails
  BY <1>2, <1>12, AssignFailsDone
<1>13. CASE Store
  BY <1>2, <1>13, StoreDone
<1>14. CASE EndUpdate
  BY <1>2, <1>14, EndUpdateDone
<1>15. CASE Reply
  BY <1>3, <1>15, IdleDone DEF Reply
<1>16. CASE UNCHANGED vars
  <2>1. UNCHANGED <<row, size, kind, index, query, damage>> /\ Contents' = Contents
    BY <1>16 DEF vars, Contents
  <2>2. \A p : Touched(p)' <=> Touched(p)
    BY <2>1 DEF Touched
  <2>3. DeleteOK' = DeleteOK
    BY <2>1 DEF DeleteOK
  <2>4. UpdateOK' <=> UpdateOK
    BY <2>1, <2>2 DEF UpdateOK, RowsOK, RecordOK, ReaderOK
  <2> QED BY <1>2, <1>3, <2>3, <2>4 DEF SInv
<1> QED
  BY <1>2, <1>4, <1>5, <1>6, <1>7, <1>8, <1>9, <1>10, <1>11, <1>12, <1>13, <1>14, <1>15, <1>16
  DEF Next, Step

(* DELETE that replies has taken out the rows that match, all of them and no *)
(* others, and gives their number, as long as no index has gone out of step *)
(* (queryprocessor.cpp:142-170).                                            *)
THEOREM DeleteDoesWhatItSays == Spec => []DeleteExact
<1>1. SInv => DeleteExact
  <2> SUFFICES ASSUME SInv, query.op = "deleted", damage = {} PROVE Deleted
    BY DEF DeleteExact
  <2>1. /\ query.cnt = Cardinality(DOMAIN query.before) - size
        /\ \A r \in Rows : ~Holds(query.cond, r) => Copies(Contents, r) = Copies(query.before, r)
        /\ \A p \in 0 .. size - 1 : ~Holds(query.cond, row[p])
    BY DEF SInv, DeleteOK
  <2>2. ASSUME NEW r \in Rows, Holds(query.cond, r) PROVE Copies(Contents, r) = 0
    <3>1. Places(row, size, r) = {}
      BY <2>1, <2>2 DEF Places
    <3>2. Copies(Contents, r) = Cardinality(Places(row, size, r))
      BY CopiesInTable DEF Contents
    <3> QED BY <3>1, <3>2, FS_EmptySet
  <2> QED BY <2>1, <2>2 DEF Deleted
<1> QED BY <1>1, StatementsInv, PTL DEF Spec

(* UPDATE that replies has assigned to the rows that matched at its start    *)
(* and to no others, each once, though it may start over and indexes move   *)
(* its rows; one that fails has changed no row (queryprocessor.cpp:173-225). *)
THEOREM UpdateDoesWhatItSays == Spec => []UpdateExact
<1>1. SInv => UpdateExact
  <2> SUFFICES ASSUME SInv PROVE UpdateExact
    OBVIOUS
  <2>1. ASSUME query.op = "updated"
        PROVE  Contents = [p \in DOMAIN query.before |->
                             IF Holds(query.cond, query.before[p])
                             THEN Assigned(query.before[p], query.set) ELSE query.before[p]]
    <3>1. DOMAIN query.before = 0 .. size - 1
      BY <2>1 DEF SInv, UpdateOK, RowsOK
    <3>2. ASSUME NEW p \in 0 .. size - 1
          PROVE  row[p] = IF Holds(query.cond, query.before[p])
                          THEN Assigned(query.before[p], query.set) ELSE query.before[p]
      BY <2>1 DEF SInv, UpdateOK, RowsOK, Touched
    <3> QED BY <3>1, <3>2 DEF Contents
  <2>2. ASSUME query.op = "failed" PROVE Contents = query.before
    <3>1. DOMAIN query.before = 0 .. size - 1
      BY <2>2 DEF SInv, UpdateOK, RowsOK
    <3>2. ASSUME NEW p \in 0 .. size - 1 PROVE row[p] = query.before[p]
      BY <2>2 DEF SInv, UpdateOK, RowsOK, Touched
    <3>3. query \in Updates
      BY <2>2 DEF SInv, IInv, QueryOK, Idle, Deletes
    <3>4. query.before = [p \in DOMAIN query.before |-> query.before[p]]
      BY <3>3 DEF Updates, Tables
    <3> QED BY <3>1, <3>2, <3>4 DEF Contents
  <2> QED BY <2>1, <2>2 DEF UpdateExact
<1> QED BY <1>1, StatementsInv, PTL DEF Spec
=============================================================================
