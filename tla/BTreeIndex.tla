------------------------------ MODULE BTreeIndex ------------------------------
(***************************************************************************)
(* BTreeindex, BTreeVertex and BTreeIterator (buffer/btreeindex.cpp): a    *)
(* B-tree of <<key, row position>> entries kept in the pages of one file.  *)
(*                                                                         *)
(* A BTreeVertex object is a copy of a page: its constructor reads the     *)
(* page, its destructor writes it back.  Which copies are alive at the     *)
(* same time, and the order in which they are written, is kept.  Page 0    *)
(* carries the header of the file (root, total) and a vertex.              *)
(*                                                                         *)
(* Keys are of a fixed-size type (INT).  insert_nonfull takes one step per *)
(* level and hasNextRecord one step per iteration of its outer loop.       *)
(*                                                                         *)
(* addKey does not ask whether it has the entry already, and its callers   *)
(* do add one twice.  The items of a leaf therefore carry a number, copy,  *)
(* that tells equal entries apart: a history field, on which no step of    *)
(* the program depends.                                                    *)
(***************************************************************************)
EXTENDS Integers, Sequences, FiniteSets

CONSTANTS
  Capacity,      \* get_capacity(type): the items a page can hold
  MaxVertices,   \* bound: pages of the index file
  Rows,          \* row positions callers index
  TableSizes,    \* bound: the rows 0..n-1 a table has when its index is created
  Recreations,   \* bound: the same, when an index is created again
  KeyOf,         \* KeyOf[r]: the key of row r
  CopiesOf,      \* bound: the copies of its entry row r may have at one time
  Keys,          \* what a key can be
  Sought,        \* bound: the keys callers search for
  Removed,       \* bound: the rows callers take out of the index
  Junk,          \* an uninitialised key
  NoRow          \* findKey: no row is to be deleted

ASSUME BTreeAssumption ==
  /\ Capacity \in Nat /\ Capacity >= 4
  /\ MaxVertices \in Nat \ {0}
  /\ Rows \subseteq Nat
  /\ Keys \subseteq Int
  /\ KeyOf \in [Rows -> Keys]
  /\ CopiesOf \in [Rows -> SUBSET Nat] /\ \A r \in Rows : CopiesOf[r] # {}
  /\ \A n \in TableSizes \cup Recreations : n \in Nat /\ 0 .. n - 1 \subseteq Rows
  /\ Sought \subseteq Keys /\ Removed \subseteq Rows
  /\ Junk \notin Keys
  /\ NoRow \notin Rows

VertexIds == 0 .. MaxVertices - 1

(* An item of a leaf, and one of an inner vertex, which is never told apart. *)
EntryOf(row, copy) == [key |-> KeyOf[row], value |-> row, copy |-> copy]
Item(key, value) == [key |-> key, value |-> value, copy |-> 0]

VARIABLES
  page,      \* the pages of the index file
  call,      \* the call that is running, Idle when none is
  load,      \* createIndex: the row it adds next, of how many
  entries,   \* history: the entries added and not removed
  skewed     \* history: a split has left a separator in a wrong place

vars == <<page, call, load, entries, skewed>>

Idle == [op |-> "idle"]

(* get_capacity / 2, the items that stay in a vertex that is split. *)
T1 == Capacity \div 2

Size(v)  == Len(v.data)
Full(v)  == Size(v) = Capacity

-----------------------------------------------------------------------------
(* A page nobody has written since the file was created: its size, leaf flag *)
(* and items are set before they are used.                                  *)
Unwritten == [root |-> 0, total |-> 0, isleaf |-> FALSE, data |-> <<>>]

(* createIndex: page 0 becomes an empty leaf, the pages of an earlier index  *)
(* on the column stay as they are; then the rows are added one by one.       *)
EmptyRoot == [root |-> 0, total |-> 1, isleaf |-> TRUE, data |-> <<>>]

Init ==
  /\ page = [u \in VertexIds |-> IF u = 0 THEN EmptyRoot ELSE Unwritten]
  /\ call = Idle
  /\ \E n \in TableSizes : load = [next |-> 0, size |-> n]
  /\ entries = {}
  /\ skewed = FALSE

Loading == load.next < load.size
Ready   == call = Idle /\ ~Loading

(* A mutant of createIndex: root is not reset. *)
createIndexKeepsRoot(n) ==
  /\ Ready
  /\ page' = [page EXCEPT ![0] = [EmptyRoot EXCEPT !.root = page[0].root]]
  /\ load' = [next |-> 0, size |-> n]
  /\ entries' = {}
  /\ skewed' = FALSE
  /\ UNCHANGED call

createIndex(n) ==
  /\ Ready
  /\ page' = [page EXCEPT ![0] = EmptyRoot]
  /\ load' = [next |-> 0, size |-> n]
  /\ entries' = {}
  /\ skewed' = FALSE
  /\ UNCHANGED call

-----------------------------------------------------------------------------
(* A mutant of ParentAfterSplit: the separators to the right stay where they *)
(* were.                                                                    *)
ParentNotRekeyed(data, index, z, key) ==
  LET size == Len(data)
  IN  [i \in 1 .. size + 1 |->
         IF i > index + 1 THEN data[i - 1]
         ELSE IF i = index + 1
         THEN Item(IF i <= size THEN data[i].key ELSE Junk, z)
         ELSE IF i = index THEN Item(key, data[i].value)
         ELSE data[i]]

(* BTree_split_child(u, index), index counted from 1: what its two loops and  *)
(* the assignments around them leave in the parent.                          *)
ParentAfterSplit(data, index, z, key) ==
  LET size    == Len(data)
      shifted == [i \in 1 .. size + 1 |->
                    IF i > index + 1 THEN data[i - 1]
                    ELSE IF i = index + 1
                    THEN Item(IF i <= size THEN data[i].key ELSE Junk, z)
                    ELSE data[i]]
      rekeyed == [i \in 1 .. size + 1 |->
                    IF index < i /\ i <= size
                    THEN Item(shifted[i - 1].key, shifted[i].value)
                    ELSE shifted[i]]
  IN  [rekeyed EXCEPT ![index].key = key]

(* Mutants of BTree_split_child: the middle item goes up and is kept nowhere; *)
(* the copy of the child is taken before total is incremented.               *)
SplitDropsMiddle(pages, u, index) ==
  LET vertex == pages[u]
      z      == pages[0].total
      begun  == [pages EXCEPT ![0].total = z + 1]
      y      == vertex.data[index].value
      vy     == begun[y]
  IN  [begun EXCEPT
         ![z].isleaf = vy.isleaf,
         ![z].data = SubSeq(vy.data, T1 + 2, Capacity),
         ![y].data = SubSeq(vy.data, 1, T1),
         ![u].data = ParentAfterSplit(@, index, z, vy.data[T1 + 1].key)]

SplitStaleHeader(pages, u, index) ==
  LET vertex == pages[u]
      z      == pages[0].total
      begun  == [pages EXCEPT ![0].total = z + 1]
      y      == vertex.data[index].value
      vy     == pages[y]
  IN  [begun EXCEPT
         ![z].isleaf = vy.isleaf,
         ![z].data = SubSeq(vy.data, T1 + 1, Capacity),
         ![y] = [vy EXCEPT !.data = SubSeq(vy.data, 1, T1)],
         ![u].data = ParentAfterSplit(@, index, z, vy.data[T1 + 1].key)]

(* The copy of u is taken before total is incremented, those of the child and *)
(* of the new vertex after; all three are written at the end, u last.        *)
BTree_split_child(pages, u, index) ==
  LET vertex == pages[u]
      z      == pages[0].total
      begun  == [pages EXCEPT ![0].total = z + 1]
      y      == vertex.data[index].value
      vy     == begun[y]
      vz     == begun[z]
  IN  [begun EXCEPT
         ![z] = [vz EXCEPT !.isleaf = vy.isleaf,
                           !.data = SubSeq(vy.data, T1 + 1, Capacity)],
         ![y] = [vy EXCEPT !.data = SubSeq(vy.data, 1, T1)],
         ![u] = [vertex EXCEPT
                   !.data = ParentAfterSplit(@, index, z, vy.data[T1 + 1].key)]]

(* A split shifts the separators to its right twice, and promotes the wrong  *)
(* one when the child has children itself.                                   *)
Skews(pages, u, index) ==
  \/ ~pages[pages[u].data[index].value].isleaf
  \/ Size(pages[u]) - index >= 3

(* addKey: a full root is put below a new root and split. *)
GrownRoot(pages) ==
  LET s     == pages[0].total
      begun == [pages EXCEPT ![0].total = s + 1, ![0].root = s]
  IN  [begun EXCEPT ![s].isleaf = FALSE,
                    ![s].data = <<Item(Junk, pages[0].root)>>]

(* Bound: an insertion grows the tree and splits at most two vertices below  *)
(* the root; none begins, and none goes on, without the pages for it.       *)
Room        == page[0].total + 4 <= MaxVertices
RoomToSplit == page[0].total < MaxVertices

(* The number for one more entry of a row: the least that is free. *)
FreeCopies(r) ==
  {copy \in CopiesOf[r] :
     /\ EntryOf(r, copy) \notin entries
     /\ \A c \in CopiesOf[r] : c < copy => EntryOf(r, c) \in entries}

(* A mutant of addKey: a full root is inserted into. *)
addKeyNoSplit(r) ==
  /\ call = Idle
  /\ Room
  /\ \E copy \in FreeCopies(r) :
       call' = [op |-> "insert", u |-> page[0].root, item |-> EntryOf(r, copy)]
  /\ UNCHANGED <<page, entries, skewed>>

addKey(r) ==
  /\ call = Idle
  /\ Room
  /\ LET root  == page[0].root
         grown == GrownRoot(page)
         s     == grown[0].root
     IN  \E copy \in FreeCopies(r) :
           IF Full(page[root])
           THEN /\ page' = BTree_split_child(grown, s, 1)
                /\ skewed' = (skewed \/ Skews(grown, s, 1))
                /\ call' = [op |-> "insert", u |-> s, item |-> EntryOf(r, copy)]
           ELSE /\ call' = [op |-> "insert", u |-> root, item |-> EntryOf(r, copy)]
                /\ UNCHANGED <<page, skewed>>
  /\ UNCHANGED entries

(* The loop of createIndex, and a call from IndexFile. *)
LoadRow ==
  /\ Loading
  /\ addKey(load.next)
  /\ load' = [load EXCEPT !.next = @ + 1]

AddRow(r) ==
  /\ Ready
  /\ addKey(r)
  /\ UNCHANGED load

-----------------------------------------------------------------------------
(* BTree_insert_nonfull.  The first place, from the right, whose left        *)
(* neighbour among the first n items is not above the key.                   *)
Place(data, n, key) ==
  CHOOSE i \in 1 .. n + 1 :
    /\ \A j \in i .. n : key < data[j].key
    /\ i = 1 \/ ~(key < data[i - 1].key)

InsertLeaf ==
  /\ call.op = "insert"
  /\ page[call.u].isleaf
  /\ LET data == page[call.u].data
         i    == Place(data, Len(data), call.item.key)
     IN  page' = [page EXCEPT ![call.u].data =
                    SubSeq(data, 1, i - 1) \o <<call.item>> \o SubSeq(data, i, Len(data))]
  /\ entries' = entries \cup {call.item}
  /\ call' = Idle
  /\ UNCHANGED <<load, skewed>>

(* A mutant of InsertBelow: a full child is gone into without a split. *)
InsertBelowNoSplit ==
  /\ call.op = "insert"
  /\ ~page[call.u].isleaf
  /\ LET vertex == page[call.u]
         i      == Place(vertex.data, Size(vertex) - 1, call.item.key)
     IN  call' = [call EXCEPT !.u = vertex.data[i].value]
  /\ UNCHANGED <<page, skewed, load, entries>>

InsertBelow ==
  /\ call.op = "insert"
  /\ ~page[call.u].isleaf
  /\ LET vertex == page[call.u]
         i      == Place(vertex.data, Size(vertex) - 1, call.item.key)
         split  == BTree_split_child(page, call.u, i)
         j      == IF call.item.key > split[call.u].data[i].key THEN i + 1 ELSE i
     IN  IF Full(page[vertex.data[i].value])
         THEN /\ RoomToSplit
              /\ page' = split
              /\ skewed' = (skewed \/ Skews(page, call.u, i))
              /\ call' = [call EXCEPT !.u = split[call.u].data[j].value]
         ELSE /\ call' = [call EXCEPT !.u = vertex.data[i].value]
              /\ UNCHANGED <<page, skewed>>
  /\ UNCHANGED <<load, entries>>

-----------------------------------------------------------------------------
(* BTreeIterator: a path of <<vertex, position>> pairs, position counting    *)
(* the items passed; room is the capacity of the vector that holds it.       *)
(* found and before, the entries when the call began, are history.           *)
Search(key, row) ==
  [op |-> "search", key |-> key, row |-> row,
   path |-> <<<<page[0].root, 0>>>>, room |-> 1,
   found |-> <<>>, before |-> entries, skipped |-> FALSE]

findKey(key) ==
  /\ Ready
  /\ call' = Search(key, NoRow)
  /\ UNCHANGED <<page, load, entries, skewed>>

deleteKey(r) ==
  /\ Ready
  /\ call' = Search(KeyOf[r], r)
  /\ UNCHANGED <<page, load, entries, skewed>>

Top      == call.path[Len(call.path)]
Cur      == page[Top[1]]
Popped   == SubSeq(call.path, 1, Len(call.path) - 1)

(* A mutant of MovedTo: the position is not moved past the item. *)
MovedBefore(i) == [call.path EXCEPT ![Len(call.path)] = <<Top[1], i - 1>>]

MovedTo(i) == [call.path EXCEPT ![Len(call.path)] = <<Top[1], i>>]

(* A mutant of Matches: a key equal to a separator is looked for on one side. *)
MatchesStrict(i) ==
  /\ Top[2] < i
  /\ IF Cur.isleaf THEN Cur.data[i].key = call.key
     ELSE /\ i > 1 => Cur.data[i - 1].key <= call.key
          /\ i < Size(Cur) => call.key < Cur.data[i].key

(* The items hasNextRecord stops at. *)
Matches(i) ==
  /\ Top[2] < i
  /\ IF Cur.isleaf THEN Cur.data[i].key = call.key
     ELSE /\ i > 1 => Cur.data[i - 1].key <= call.key
          /\ i < Size(Cur) => call.key <= Cur.data[i].key

FirstMatch(i) == Matches(i) /\ \A j \in 1 .. i - 1 : ~Matches(j)

Searching == call.op = "search" /\ call.path # <<>>

(* An entry of the key in the current leaf: the caller takes it, or removes  *)
(* it when it is the row to delete.                                          *)
FoundEntry(i) ==
  /\ Searching /\ Cur.isleaf
  /\ i \in DOMAIN Cur.data /\ FirstMatch(i)
  /\ IF Cur.data[i].value = call.row
     THEN /\ page' = [page EXCEPT ![Top[1]].data =
                        SubSeq(@, 1, i - 1) \o SubSeq(@, i + 1, Len(@))]
          /\ entries' = entries \ {Cur.data[i]}
          /\ call' = [call EXCEPT !.op = "done"]
     ELSE /\ call' = [call EXCEPT !.path = MovedTo(i),
                                  !.found = Append(@, Cur.data[i])]
          /\ UNCHANGED <<page, entries>>
  /\ UNCHANGED <<load, skewed>>

(* A child that may hold the key is pushed on the path.  current_position is *)
(* a reference into the path: when push_back has moved the vector it dangles *)
(* and may or may not compare equal to cur.size; when it has not and this is *)
(* the last child, it does, and the pop that follows drops the child.        *)
Descend(i) ==
  /\ Searching /\ ~Cur.isleaf
  /\ i \in DOMAIN Cur.data /\ FirstMatch(i)
  /\ LET moved  == Len(call.path) = call.room
         pushed == Append(MovedTo(i), <<Cur.data[i].value, 0>>)
     IN  \E dropped \in BOOLEAN :
           /\ ~moved => dropped = (i = Size(Cur))
           /\ call' = [call EXCEPT
                !.path = IF dropped THEN MovedTo(i) ELSE pushed,
                !.room = IF moved THEN 2 * @ ELSE @,
                !.skipped = @ \/ dropped]
  /\ UNCHANGED <<page, load, entries, skewed>>

(* Nothing is left in the current vertex. *)
(* A mutant of Ascend: the exhausted vertex stays on the path. *)
AscendKeepsPath ==
  /\ Searching
  /\ \A i \in DOMAIN Cur.data : ~Matches(i)
  /\ UNCHANGED vars

Ascend ==
  /\ Searching
  /\ \A i \in DOMAIN Cur.data : ~Matches(i)
  /\ call' = [call EXCEPT !.path = Popped]
  /\ UNCHANGED <<page, load, entries, skewed>>

(* hasNextRecord returns false: the caller stops. *)
EndSearch ==
  /\ call.op = "search" /\ call.path = <<>>
  /\ call' = [call EXCEPT !.op = "done"]
  /\ UNCHANGED <<page, load, entries, skewed>>

Return ==
  /\ call.op = "done"
  /\ call' = Idle
  /\ UNCHANGED <<page, load, entries, skewed>>

Step ==
  \/ LoadRow
  \/ InsertLeaf
  \/ InsertBelow
  \/ \E i \in 1 .. Capacity : FoundEntry(i)
  \/ \E i \in 1 .. Capacity : Descend(i)
  \/ Ascend
  \/ EndSearch
  \/ Return

Next ==
  \/ \E n \in Recreations : createIndex(n)
  \/ \E r \in Rows : AddRow(r)
  \/ \E key \in Sought : findKey(key)
  \/ \E r \in Removed : deleteKey(r)
  \/ Step

Spec == Init /\ [][Next]_vars

(* The one thread that runs a call goes on with it. *)
FairSpec == Spec /\ WF_vars(Step)

-----------------------------------------------------------------------------
(* Properties. *)

Header      == page[0]
Allocated   == 0 .. Header.total - 1
Leaves      == {u \in Allocated : page[u].isleaf}
SlotsOf(us) == {s \in us \X (1 .. Capacity) : s[2] <= Size(page[s[1]])}
InnerSlots  == SlotsOf(Allocated \ Leaves)
ItemAt(s)   == page[s[1]].data[s[2]]
ItemsOf(u)  == {page[u].data[i] : i \in DOMAIN page[u].data}
Children(u) == IF page[u].isleaf THEN {} ELSE {e.value : e \in ItemsOf(u)}

(* The vertices n steps below the root. *)
Level == LET level[n \in 0 .. MaxVertices] ==
               IF n = 0 THEN {Header.root}
               ELSE UNION {Children(u) : u \in level[n - 1]}
         IN  level

(* The entries below a vertex. *)
Below == LET below[u \in VertexIds] ==
               IF page[u].isleaf THEN ItemsOf(u)
               ELSE UNION {below[w] : w \in Children(u)}
         IN  below

TypeOK ==
  /\ page \in [VertexIds ->
       [root : VertexIds, total : 0 .. MaxVertices, isleaf : BOOLEAN,
        data : Seq([key : Keys \cup {Junk}, value : Rows \cup VertexIds, copy : Nat])]]
  /\ \A u \in VertexIds : Len(page[u].data) <= Capacity
  /\ call.op \in {"idle", "insert", "search", "done"}
  /\ load \in [next : Nat, size : Nat] /\ load.next <= load.size
  /\ entries \subseteq [key : Keys, value : Rows, copy : Nat]
  /\ skewed \in BOOLEAN

(* Splitting and growing keep the file one balanced tree: total counts the  *)
(* vertices (no copy of page 0 written late takes an allocation back), each *)
(* but the root is the child of exactly one slot, all leaves are on a level.*)
OneTree ==
  /\ UNION {Level[n] : n \in 0 .. MaxVertices} = Allocated
  /\ \A s \in InnerSlots : ItemAt(s).value # Header.root
  /\ \A s, t \in InnerSlots : ItemAt(s).value = ItemAt(t).value => s = t
  /\ \A n \in 0 .. MaxVertices : Level[n] \subseteq Leaves \/ Level[n] \cap Leaves = {}

(* Splitting moves entries and never loses or repeats one.                  *)
EntriesKept ==
  /\ entries = UNION {ItemsOf(u) : u \in Leaves}
  /\ Cardinality(entries) = Cardinality(SlotsOf(Leaves))

(* BTree_insert_nonfull is never called on a full vertex, whose data array  *)
(* it would run over.                                                       *)
InsertHasRoom == call.op = "insert" => ~Full(page[call.u])

(* The keys compared are keys: an uninitialised one is only ever the last   *)
(* of an inner vertex, which nothing reads.                                 *)
JunkUnread ==
  \A s \in SlotsOf(Allocated) :
    ItemAt(s).key = Junk => s[1] \notin Leaves /\ s[2] = Size(page[s[1]])

(* Every separator divides the entries below it, until a split has shifted  *)
(* separators too far or promoted the wrong one.                            *)
SeparatorsDivide ==
  ~skewed =>
    \A s, t \in InnerSlots :
      t = <<s[1], s[2] + 1>> =>
        /\ ItemAt(s).key # Junk
        /\ \A e \in Below[ItemAt(s).value] : e.key <= ItemAt(s).key
        /\ \A e \in Below[ItemAt(t).value] : ItemAt(s).key <= e.key

(* A finished search has returned every entry of the key, one that was added *)
(* twice twice, unless separators are wrong or the iterator dropped a child  *)
(* it had pushed.                                                            *)
SearchComplete ==
  call.op = "done" /\ call.row = NoRow /\ ~skewed /\ ~call.skipped
    => \A e \in entries : e.key = call.key => \E n \in DOMAIN call.found :
                                                call.found[n] = e

(* Whatever is wrong with the tree, a search returns only entries of the     *)
(* key, and none more often than it has been added and not removed.          *)
SearchSound ==
  call.op \in {"search", "done"} =>
    /\ \A n \in DOMAIN call.found :
         call.found[n] \in entries /\ call.found[n].key = call.key
    /\ \A m, n \in DOMAIN call.found : call.found[m] = call.found[n] => m = n

OneTaken(before, after, key, row) ==
  LET ofRow == {e \in before : e.key = key /\ e.value = row}
  IN  IF ofRow = {} THEN after = before ELSE \E e \in ofRow : after = before \ {e}

(* deleteKey takes exactly one entry of the row away, when the index has one, *)
(* and nothing else, under the same provisos; of two it leaves one.          *)
DeleteEffective ==
  call.op = "done" /\ call.row # NoRow /\ ~skewed /\ ~call.skipped
    => OneTaken(call.before, entries, call.key, call.row)

(* Every call returns.                                                      *)
CallsReturn == call # Idle ~> Ready
=============================================================================
