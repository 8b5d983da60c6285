--------------------------- MODULE BTreeIndexProofs ---------------------------
(***************************************************************************)
(* Theorems about BTreeIndex for every page capacity, every number of      *)
(* pages, all keys and rows.  The first part shows that every split leaves  *)
(* the pages one balanced tree in which each vertex hangs from one slot and *)
(* each entry is in one slot of a leaf; no separator has to be right for   *)
(* that.  The second part is about separators, and what searches find.     *)
(***************************************************************************)
EXTENDS BTreeIndex, CommonLemmas

USE BTreeAssumption DEF VertexIds

Entry  == [key : Keys, value : Rows, copy : Nat]
Slot   == [key : Keys \cup {Junk}, value : Rows \cup VertexIds, copy : Nat]
Vertex == [root : VertexIds, total : 0 .. MaxVertices, isleaf : BOOLEAN, data : Seq(Slot)]

-----------------------------------------------------------------------------
(* The inductive invariant: the pages. *)

Alloc(pages) == 0 .. pages[0].total - 1

InnerSlot(pages, u, i) ==
  u \in Alloc(pages) /\ ~pages[u].isleaf /\ i \in 1 .. Len(pages[u].data)

LeafSlot(pages, u, i) ==
  u \in Alloc(pages) /\ pages[u].isleaf /\ i \in 1 .. Len(pages[u].data)

At(pages, u, i) == pages[u].data[i]

(* Page 0 stays a leaf, so the header is never in a vertex that is split     *)
(* into; an inner vertex is never empty.                                    *)
Shape(pages) ==
  /\ pages \in [VertexIds -> Vertex]
  /\ \A u \in VertexIds : Len(pages[u].data) <= Capacity
  /\ pages[0].total >= 1 /\ pages[0].root \in Alloc(pages) /\ pages[0].isleaf
  /\ \A u \in Alloc(pages) : ~pages[u].isleaf => Len(pages[u].data) >= 1

(* Inner slots lead to vertices below the root; only the last one of a       *)
(* vertex may lack a key.                                                   *)
InnerOK(pages) ==
  \A u \in VertexIds, i \in 1 .. Capacity :
    InnerSlot(pages, u, i) =>
      /\ At(pages, u, i).value \in Alloc(pages) \ {pages[0].root}
      /\ i < Len(pages[u].data) => At(pages, u, i).key \in Keys

LeavesOK(pages) ==
  \A u \in VertexIds, i \in 1 .. Capacity : LeafSlot(pages, u, i) => At(pages, u, i) \in Entry

ChildOnce(pages) ==
  \A u, w \in VertexIds, i, j \in 1 .. Capacity :
    InnerSlot(pages, u, i) /\ InnerSlot(pages, w, j)
      /\ At(pages, u, i).value = At(pages, w, j).value => u = w /\ i = j

EntryOnce(pages) ==
  \A u, w \in VertexIds, i, j \in 1 .. Capacity :
    LeafSlot(pages, u, i) /\ LeafSlot(pages, w, j)
      /\ At(pages, u, i) = At(pages, w, j) => u = w /\ i = j

Tree(pages) ==
  Shape(pages) /\ InnerOK(pages) /\ LeavesOK(pages) /\ ChildOnce(pages) /\ EntryOnce(pages)

(* The leaves hold the entries. *)
Kept(pages, es) ==
  \A e \in Entry :
    e \in es <=> \E u \in VertexIds, i \in 1 .. Capacity :
                   LeafSlot(pages, u, i) /\ At(pages, u, i) = e

-----------------------------------------------------------------------------
(* The inductive invariant: the calls. *)

Inserts  == [op : {"insert"}, u : VertexIds, item : Entry]
Searches == [op : {"search", "done"}, key : Keys, row : Rows \cup {NoRow},
             path : Seq(VertexIds \X Nat), room : Nat,
             found : Seq(Entry), before : SUBSET Entry, skipped : BOOLEAN]

InsertOK ==
  call.op = "insert" =>
    /\ call.u \in Alloc(page) /\ Len(page[call.u].data) < Capacity
    /\ call.item \notin entries

(* While createIndex adds its rows no search runs. *)
LoadOK ==
  /\ load \in [next : Nat, size : TableSizes \cup Recreations]
  /\ load.next <= load.size
  /\ Loading => call.op \in {"idle", "insert"}

(* A search has visited the vertices V, those on the path at most up to the  *)
(* position there: a child is visited from its one slot, an entry found in  *)
(* its one slot, and neither lies ahead.                                    *)
Passed(path, u, i) == \A k \in DOMAIN path : path[k][1] = u => i <= path[k][2]

Visited(V, pages, path, found) ==
  /\ \A k \in DOMAIN path : path[k][1] \in V
  /\ \A k, l \in DOMAIN path : path[k][1] = path[l][1] => k = l
  /\ \A u \in VertexIds, i \in 1 .. Capacity :
       InnerSlot(pages, u, i) /\ At(pages, u, i).value \in V => u \in V /\ Passed(path, u, i)
  /\ \A n \in DOMAIN found :
       \E u \in V, i \in 1 .. Capacity :
         LeafSlot(pages, u, i) /\ At(pages, u, i) = found[n] /\ Passed(path, u, i)

SearchOK ==
  /\ call.op \in {"search", "done"} =>
       \A n \in DOMAIN call.found :
         /\ call.found[n] \in entries /\ call.found[n].key = call.key
         /\ call.found[n].value # call.row
         /\ \A m \in DOMAIN call.found : call.found[m] = call.found[n] => m = n
  /\ call.op = "search" =>
       /\ entries = call.before
       /\ \E V \in SUBSET Alloc(page) : Visited(V, page, call.path, call.found)

IInv ==
  /\ Tree(page) /\ Kept(page, entries)
  /\ entries \subseteq Entry /\ skewed \in BOOLEAN
  /\ call \in {Idle} \cup Inserts \cup Searches
  /\ InsertOK /\ LoadOK /\ SearchOK

-----------------------------------------------------------------------------
(* BTree_split_child. *)

(* A vertex that is not full has a full child, and the file has room. *)
Splittable(pages, u, index) ==
  /\ u \in Alloc(pages) /\ ~pages[u].isleaf
  /\ Len(pages[u].data) < Capacity /\ index \in 1 .. Len(pages[u].data)
  /\ Len(pages[At(pages, u, index).value].data) = Capacity
  /\ pages[0].total < MaxVertices

(* The first n slots have keys. *)
Keyed(data, n) == \A i \in 1 .. n : data[i].key \in Keys

(* The slots as they were, but for a new one behind the one at index. *)
OneMore(data, after, index, z) ==
  /\ Len(after) = Len(data) + 1
  /\ \A i \in 1 .. Len(data) + 1 :
       after[i].value = IF i <= index THEN data[i].value
                        ELSE IF i = index + 1 THEN z ELSE data[i - 1].value

(* What the parent's two loops leave: one slot more, and every key but the   *)
(* last is a key.                                                           *)
LEMMA ParentSlots ==
  ASSUME NEW data \in Seq(Slot), NEW index \in 1 .. Len(data), NEW z \in VertexIds,
         NEW key \in Keys, Keyed(data, Len(data) - 1)
  PROVE  /\ ParentAfterSplit(data, index, z, key) \in Seq(Slot)
         /\ OneMore(data, ParentAfterSplit(data, index, z, key), index, z)
         /\ Keyed(ParentAfterSplit(data, index, z, key), Len(data))
<1> DEFINE n       == Len(data)
           shifted == [i \in 1 .. n + 1 |->
                         IF i > index + 1 THEN data[i - 1]
                         ELSE IF i = index + 1
                         THEN Item(IF i <= n THEN data[i].key ELSE Junk, z)
                         ELSE data[i]]
           rekeyed == [i \in 1 .. n + 1 |->
                         IF index < i /\ i <= n
                         THEN Item(shifted[i - 1].key, shifted[i].value)
                         ELSE shifted[i]]
           after   == ParentAfterSplit(data, index, z, key)
<1>0. \A i \in 1 .. n - 1 : data[i].key \in Keys
  BY DEF Keyed
<1>1. n \in Nat /\ \A i \in 1 .. n : data[i] \in Slot
  BY LenProperties, ElementOfSeq
<1>2. after = [rekeyed EXCEPT ![index].key = key]
  BY DEF ParentAfterSplit
<1>3. \A k \in Keys \cup {Junk}, v \in Rows \cup VertexIds :
        Item(k, v) \in Slot /\ Item(k, v).key = k /\ Item(k, v).value = v
  BY DEF Item, Slot
<1>4. ASSUME NEW i \in 1 .. n + 1
      PROVE  /\ shifted[i] \in Slot
             /\ shifted[i].value = IF i <= index THEN data[i].value
                                   ELSE IF i = index + 1 THEN z ELSE data[i - 1].value
             /\ i <= n /\ i # n => shifted[i].key \in Keys
             /\ i = n /\ i > index + 1 => shifted[i].key \in Keys
  <2>1. CASE i > index + 1
    <3>1. shifted[i] = data[i - 1] /\ i - 1 \in 1 .. n
      BY <1>1, <2>1
    <3>2. i <= n => data[i - 1].key \in Keys
      BY <1>1, <1>0, <3>1
    <3> HIDE DEF shifted
    <3> QED BY <1>1, <2>1, <3>1, <3>2
  <2>2. CASE i = index + 1
    <3>1. shifted[i] = Item(IF i <= n THEN data[i].key ELSE Junk, z)
      BY <1>1, <2>2
    <3>2. (IF i <= n THEN data[i].key ELSE Junk) \in Keys \cup {Junk}
      BY <1>1 DEF Slot
    <3>3. i # n => i > n \/ i \in 1 .. n - 1
      BY <1>1
    <3>4. i \in 1 .. n - 1 => data[i].key \in Keys
      BY <1>0
    <3>5. shifted[i].key = (IF i <= n THEN data[i].key ELSE Junk) /\ shifted[i].value = z
      <4>1. PICK k : k = IF i <= n THEN data[i].key ELSE Junk
        OBVIOUS
      <4>2. shifted[i] = Item(k, z) /\ k \in Keys \cup {Junk} /\ z \in Rows \cup VertexIds
        BY <3>1, <3>2, <4>1
      <4> HIDE DEF shifted
      <4> QED BY <1>3, <4>1, <4>2
    <3>6. shifted[i] \in Slot
      <4> DEFINE k == IF i <= n THEN data[i].key ELSE Junk
      <4>1. shifted[i] = Item(k, z) /\ k \in Keys \cup {Junk} /\ z \in Rows \cup VertexIds
        BY <3>1, <3>2
      <4> HIDE DEF k, shifted
      <4> QED BY <1>3, <4>1
    <3> HIDE DEF shifted
    <3> QED BY <1>1, <2>2, <3>3, <3>4, <3>5, <3>6
  <2>3. CASE i <= index
    <3>1. shifted[i] = data[i] /\ i \in 1 .. n
      BY <1>1, <2>3
    <3>2. i # n => data[i].key \in Keys
      BY <1>1, <1>0, <3>1
    <3> HIDE DEF shifted
    <3> QED BY <1>1, <2>3, <3>1, <3>2
  <2> QED BY <1>1, <2>1, <2>2, <2>3
<1> HIDE DEF shifted
<1>5. ASSUME NEW i \in 1 .. n + 1
      PROVE  /\ rekeyed[i] \in Slot
             /\ rekeyed[i].value = shifted[i].value
             /\ i <= n /\ i # index => rekeyed[i].key \in Keys
  <2>1. CASE index < i /\ i <= n
    <3>1. rekeyed[i] = Item(shifted[i - 1].key, shifted[i].value)
      BY <2>1
    <3>2. i - 1 \in 1 .. n + 1 /\ i - 1 <= n /\ i - 1 # n
      BY <1>1, <2>1
    <3>3. shifted[i - 1].key \in Keys /\ shifted[i].value \in Rows \cup VertexIds
      BY <1>4, <3>2 DEF Slot
    <3> HIDE DEF rekeyed
    <3> QED BY <1>3, <3>1, <3>3
  <2>2. CASE ~(index < i /\ i <= n)
    <3>1. rekeyed[i] = shifted[i]
      BY <2>2
    <3> HIDE DEF rekeyed
    <3>2. i <= n /\ i # index => i # n
      BY <1>1, <2>2
    <3> QED BY <1>4, <3>1, <3>2
  <2> QED BY <2>1, <2>2
<1>6. DOMAIN rekeyed = 1 .. n + 1
  OBVIOUS
<1> HIDE DEF rekeyed
<1>7. ASSUME NEW i \in 1 .. n + 1
      PROVE  /\ after[i] \in Slot
             /\ after[i].value = shifted[i].value
             /\ i <= n => after[i].key \in Keys
  <2>1. CASE i = index
    <3>1. after[i] = [rekeyed[i] EXCEPT !.key = key]
      BY <1>2, <1>6, <2>1
    <3> HIDE DEF after
    <3> QED BY <1>5, <3>1 DEF Slot
  <2>2. CASE i # index
    <3>1. after[i] = rekeyed[i]
      BY <1>2, <1>6, <2>2
    <3> HIDE DEF after
    <3> QED BY <1>5, <2>2, <3>1
  <2> QED BY <2>1, <2>2
<1>8. after \in Seq(Slot) /\ Len(after) = n + 1
  <2>1. DOMAIN after = 1 .. n + 1 /\ after = [i \in 1 .. n + 1 |-> after[i]]
    BY <1>2, <1>6
  <2> HIDE DEF after
  <2>2. after \in [1 .. n + 1 -> Slot]
    BY <1>7, <2>1
  <2>3. after \in Seq(Slot)
    <3>1. n + 1 \in Nat
      BY <1>1
    <3> QED BY <2>2, <3>1, SeqDef
  <2> QED BY <1>1, <2>1, <2>3, LenProperties
<1> HIDE DEF after
<1>9. \A i \in 1 .. n : i \in 1 .. n + 1 /\ i <= n
  BY <1>1
<1> QED BY <1>4, <1>7, <1>8, <1>9 DEF after, OneMore, Keyed

(* A vertex with another leaf flag and other items. *)
Remade(v, flag, items) == [v EXCEPT !.isleaf = flag, !.data = items]

LEMMA RemadeVertex ==
  ASSUME NEW v \in Vertex, NEW flag \in BOOLEAN, NEW items \in Seq(Slot)
  PROVE  /\ Remade(v, flag, items) \in Vertex
         /\ Remade(v, flag, items).isleaf = flag /\ Remade(v, flag, items).data = items
         /\ Remade(v, flag, items).root = v.root /\ Remade(v, flag, items).total = v.total
BY DEF Vertex, Remade

(* A vertex with other items. *)
Refilled(v, items) == [v EXCEPT !.data = items]

LEMMA RefilledVertex ==
  ASSUME NEW v \in Vertex, NEW items \in Seq(Slot)
  PROVE  /\ Refilled(v, items) \in Vertex
         /\ Refilled(v, items).isleaf = v.isleaf /\ Refilled(v, items).data = items
         /\ Refilled(v, items).root = v.root /\ Refilled(v, items).total = v.total
BY DEF Vertex, Refilled

(* Both halves of a vertex that is split hold an item, the second two. *)
LEMMA Halves == T1 \in Nat /\ 1 <= T1 /\ T1 + 2 <= Capacity
BY DEF T1

(* The file after a split, vertex by vertex: the header keeps its root and   *)
(* counts the new vertex, the child's items are divided, the parent has one *)
(* slot more, and no other vertex changes.                                  *)
IsSplit(pages, new, u, index, y, z) ==
  /\ new \in [VertexIds -> Vertex]
  /\ new[0].total = z + 1 /\ new[0].root = pages[0].root
  /\ \A w \in VertexIds : new[w].isleaf = IF w = z THEN pages[y].isleaf ELSE pages[w].isleaf
  /\ \A w \in VertexIds \ {u, y, z} : new[w].data = pages[w].data
  /\ Len(new[y].data) = T1 /\ \A i \in 1 .. T1 : new[y].data[i] = pages[y].data[i]
  /\ Len(new[z].data) = Capacity - T1
  /\ \A i \in 1 .. Capacity - T1 : new[z].data[i] = pages[y].data[T1 + i]
  /\ OneMore(pages[u].data, new[u].data, index, z)
  /\ Keyed(new[u].data, Len(pages[u].data))

(* The places a split has to do with. *)
LEMMA SplitPlaces ==
  ASSUME NEW pages, Shape(pages), InnerOK(pages), NEW u, NEW index, Splittable(pages, u, index),
         NEW y, y = At(pages, u, index).value, NEW z, z = pages[0].total
  PROVE  /\ u \in Alloc(pages) /\ y \in Alloc(pages) /\ z \notin Alloc(pages)
         /\ u \in VertexIds /\ y \in VertexIds /\ z \in VertexIds
         /\ y # u /\ u # 0 /\ z # u /\ z # y /\ z # 0
         /\ index \in 1 .. Len(pages[u].data) /\ Len(pages[u].data) \in 1 .. Capacity - 1
         /\ Len(pages[y].data) = Capacity
         /\ pages \in [VertexIds -> Vertex]
<1>1. /\ pages \in [VertexIds -> Vertex] /\ 0 \in VertexIds /\ pages[0].isleaf
      /\ u \in Alloc(pages) /\ ~pages[u].isleaf /\ z >= 1 /\ z < MaxVertices
      /\ index \in 1 .. Len(pages[u].data) /\ Len(pages[u].data) < Capacity
      /\ Len(pages[y].data) = Capacity
  BY DEF Shape, Splittable
<1>2. z \in 0 .. MaxVertices
  BY <1>1 DEF Vertex
<1>3. u \in VertexIds /\ z \in VertexIds /\ z \notin Alloc(pages) /\ u # 0 /\ z # 0
  BY <1>1, <1>2 DEF Alloc
<1>4. pages[u].data \in Seq(Slot) /\ Len(pages[u].data) \in Nat
  BY <1>1, <1>3, LenProperties DEF Vertex
<1>5. InnerSlot(pages, u, index) /\ index \in 1 .. Capacity
  BY <1>1, <1>4 DEF InnerSlot
<1>6. y \in Alloc(pages)
  BY <1>3, <1>5 DEF InnerOK
<1>7. y \in VertexIds
  BY <1>2, <1>3, <1>6 DEF Alloc
<1> QED BY <1>1, <1>3, <1>4, <1>6, <1>7

LEMMA SplitPages ==
  ASSUME NEW pages, Shape(pages), InnerOK(pages), LeavesOK(pages),
         NEW u, NEW index, Splittable(pages, u, index),
         NEW y, y = At(pages, u, index).value, NEW z, z = pages[0].total
  PROVE  IsSplit(pages, BTree_split_child(pages, u, index), u, index, y, z)
<1> DEFINE begun == [pages EXCEPT ![0].total = z + 1]
           vz    == [begun[z] EXCEPT !.isleaf = begun[y].isleaf,
                                     !.data = SubSeq(begun[y].data, T1 + 1, Capacity)]
           vy    == [begun[y] EXCEPT !.data = SubSeq(begun[y].data, 1, T1)]
           key   == begun[y].data[T1 + 1].key
           vu    == [pages[u] EXCEPT !.data = ParentAfterSplit(pages[u].data, index, z, key)]
           new   == BTree_split_child(pages, u, index)
<1>1. new = [begun EXCEPT ![z] = vz, ![y] = vy, ![u] = vu]
  BY DEF BTree_split_child, At
<1>2. /\ u \in Alloc(pages) /\ y \in Alloc(pages) /\ z \notin Alloc(pages)
      /\ u \in VertexIds /\ y \in VertexIds /\ z \in VertexIds
      /\ y # u /\ u # 0 /\ z # u /\ z # y /\ z # 0
      /\ index \in 1 .. Len(pages[u].data) /\ Len(pages[u].data) \in 1 .. Capacity - 1
      /\ Len(pages[y].data) = Capacity
      /\ pages \in [VertexIds -> Vertex]
  BY SplitPlaces
<1>3. \A w \in VertexIds :
        /\ begun[w] \in Vertex
        /\ begun[w].root = pages[w].root /\ begun[w].isleaf = pages[w].isleaf
        /\ begun[w].data = pages[w].data
        /\ begun[w].total = IF w = 0 THEN z + 1 ELSE pages[w].total
  <2> SUFFICES ASSUME NEW w \in VertexIds
               PROVE  /\ begun[w] \in Vertex
                      /\ begun[w].root = pages[w].root /\ begun[w].isleaf = pages[w].isleaf
                      /\ begun[w].data = pages[w].data
                      /\ begun[w].total = IF w = 0 THEN z + 1 ELSE pages[w].total
    OBVIOUS
  <2>1. pages[w] \in Vertex /\ z + 1 \in 0 .. MaxVertices
    BY <1>2
  <2>2. begun[w] = IF w = 0 THEN [pages[w] EXCEPT !.total = z + 1] ELSE pages[w]
    BY <1>2
  <2> HIDE DEF begun
  <2> QED BY <2>1, <2>2 DEF Vertex
<1>4. \A w \in VertexIds : pages[w].data \in Seq(Slot)
  BY <1>2 DEF Vertex
<1>5. begun[y].data = pages[y].data /\ DOMAIN begun = VertexIds
  BY <1>2, <1>3
<1> HIDE DEF begun
<1>6. /\ SubSeq(pages[y].data, 1, T1) \in Seq(Slot)
      /\ Len(SubSeq(pages[y].data, 1, T1)) = T1
      /\ \A i \in 1 .. T1 : SubSeq(pages[y].data, 1, T1)[i] = pages[y].data[i]
  <2>1. 1 \in 1 .. Len(pages[y].data) + 1 /\ T1 \in 1 - 1 .. Len(pages[y].data)
    BY <1>2, Halves
  <2> QED BY <1>2, <1>4, <2>1, Halves, PartOf
<1>7. /\ SubSeq(pages[y].data, T1 + 1, Capacity) \in Seq(Slot)
      /\ Len(SubSeq(pages[y].data, T1 + 1, Capacity)) = Capacity - T1
      /\ \A i \in 1 .. Capacity - T1 :
           SubSeq(pages[y].data, T1 + 1, Capacity)[i] = pages[y].data[T1 + i]
  <2>1. /\ T1 + 1 \in 1 .. Len(pages[y].data) + 1
        /\ Capacity \in (T1 + 1) - 1 .. Len(pages[y].data)
    BY <1>2, Halves
  <2> DEFINE data == pages[y].data
             m    == T1 + 1
  <2>2. data \in Seq(Slot) /\ m \in 1 .. Len(data) + 1 /\ Capacity \in m - 1 .. Len(data)
    BY <1>2, <1>4, <2>1
  <2> HIDE DEF data, m
  <2>3. /\ SubSeq(data, m, Capacity) \in Seq(Slot)
        /\ Len(SubSeq(data, m, Capacity)) = Capacity - m + 1
        /\ \A i \in 1 .. Capacity - m + 1 : SubSeq(data, m, Capacity)[i] = data[m + i - 1]
    BY <2>2, PartOf
  <2>4. Capacity - m + 1 = Capacity - T1 /\ \A i \in Nat : m + i - 1 = T1 + i
    BY Halves DEF m
  <2>5. \A i \in 1 .. Capacity - T1 : SubSeq(data, m, Capacity)[i] = data[T1 + i]
    BY <2>3, <2>4, Halves
  <2> QED BY <2>3, <2>4, <2>5 DEF data, m
<1>8. key \in Keys
  <2>1. T1 + 1 \in 1 .. Capacity /\ T1 + 1 < Len(pages[y].data)
    BY <1>2, Halves
  <2>2. CASE pages[y].isleaf
    <3>1. LeafSlot(pages, y, T1 + 1)
      BY <1>2, <2>1, <2>2 DEF LeafSlot
    <3>2. At(pages, y, T1 + 1) \in Entry
      BY <1>2, <2>1, <3>1 DEF LeavesOK
    <3> QED BY <1>5, <3>2 DEF Entry, At
  <2>3. CASE ~pages[y].isleaf
    <3>1. InnerSlot(pages, y, T1 + 1)
      BY <1>2, <2>1, <2>3 DEF InnerSlot
    <3>2. At(pages, y, T1 + 1).key \in Keys
      BY <1>2, <2>1, <3>1 DEF InnerOK
    <3> QED BY <1>5, <3>2 DEF At
  <2> QED BY <2>2, <2>3
<1> HIDE DEF key
<1> DEFINE after == ParentAfterSplit(pages[u].data, index, z, key)
<1>9. /\ after \in Seq(Slot) /\ OneMore(pages[u].data, after, index, z)
      /\ Keyed(after, Len(pages[u].data))
  <2>1. ASSUME NEW i \in 1 .. Len(pages[u].data) - 1 PROVE pages[u].data[i].key \in Keys
    <3>1. InnerSlot(pages, u, i) /\ i \in 1 .. Capacity /\ i < Len(pages[u].data)
      BY <1>2 DEF InnerSlot, Splittable
    <3> QED BY <1>2, <3>1 DEF InnerOK, At
  <2>2. Keyed(pages[u].data, Len(pages[u].data) - 1)
    BY <2>1 DEF Keyed
  <2> QED BY <1>2, <1>4, <1>8, <2>2, ParentSlots
<1> HIDE DEF after
<1>10. /\ vz \in Vertex /\ vz.isleaf = pages[y].isleaf
       /\ vz.data = SubSeq(pages[y].data, T1 + 1, Capacity)
  <2> DEFINE items == SubSeq(pages[y].data, T1 + 1, Capacity)
  <2>1. begun[z] \in Vertex /\ pages[y].isleaf \in BOOLEAN /\ items \in Seq(Slot)
    BY <1>2, <1>3, <1>7 DEF Vertex
  <2>2. begun[y].isleaf = pages[y].isleaf
    BY <1>2, <1>3
  <2>3. vz = Remade(begun[z], pages[y].isleaf, items)
    BY <1>5, <2>2 DEF Remade
  <2> HIDE DEF items, vz
  <2>4. vz \in Vertex /\ vz.isleaf = pages[y].isleaf /\ vz.data = items
    BY <2>1, <2>3, RemadeVertex
  <2> QED BY <2>4 DEF items
<1>11. /\ vy \in Vertex /\ vy.isleaf = pages[y].isleaf
       /\ vy.data = SubSeq(pages[y].data, 1, T1)
       /\ vy.root = pages[y].root /\ vy.total = begun[y].total
  <2> DEFINE items == SubSeq(pages[y].data, 1, T1)
  <2>1. begun[y] \in Vertex /\ items \in Seq(Slot)
    BY <1>2, <1>3, <1>6
  <2>2. vy = Refilled(begun[y], items)
    BY <1>5 DEF Refilled
  <2> HIDE DEF items, vy
  <2>3. /\ vy \in Vertex /\ vy.isleaf = begun[y].isleaf /\ vy.data = items
        /\ vy.root = begun[y].root /\ vy.total = begun[y].total
    BY <2>1, <2>2, RefilledVertex
  <2> QED BY <1>2, <1>3, <2>3 DEF items
<1>12. /\ vu \in Vertex /\ vu.isleaf = pages[u].isleaf /\ vu.data = after
  <2>1. pages[u] \in Vertex /\ after \in Seq(Slot)
    BY <1>2, <1>9
  <2>2. vu = Refilled(pages[u], after)
    BY DEF after, Refilled
  <2> HIDE DEF vu
  <2> QED BY <2>1, <2>2, RefilledVertex
<1> HIDE DEF vz, vy, vu
<1>13. \A w \in VertexIds : new[w] = IF w = u THEN vu ELSE IF w = y THEN vy
                                     ELSE IF w = z THEN vz ELSE begun[w]
  BY <1>1, <1>2, <1>5
<1>14. DOMAIN new = VertexIds /\ new = [w \in VertexIds |-> new[w]]
  BY <1>1, <1>5
<1> HIDE DEF new
<1>15. new \in [VertexIds -> Vertex]
  BY <1>3, <1>10, <1>11, <1>12, <1>13, <1>14
<1>16. new[0].total = z + 1 /\ new[0].root = pages[0].root
  <2>1. 0 \in VertexIds
    OBVIOUS
  <2> QED BY <1>2, <1>3, <1>11, <1>13, <2>1
<1>17. \A w \in VertexIds : new[w].isleaf = IF w = z THEN pages[y].isleaf ELSE pages[w].isleaf
  <2>1. /\ new[z].isleaf = pages[y].isleaf /\ new[y].isleaf = pages[y].isleaf
        /\ new[u].isleaf = pages[u].isleaf
    BY <1>2, <1>10, <1>11, <1>12, <1>13
  <2>2. \A w \in VertexIds \ {u, y, z} : new[w].isleaf = pages[w].isleaf
    BY <1>3, <1>13
  <2> QED BY <2>1, <2>2
<1>18. /\ new[u].data = after
       /\ new[y].data = SubSeq(pages[y].data, 1, T1)
       /\ new[z].data = SubSeq(pages[y].data, T1 + 1, Capacity)
       /\ \A w \in VertexIds \ {u, y, z} : new[w].data = pages[w].data
  <2>1. new[u].data = after
    BY <1>2, <1>12, <1>13
  <2>2. new[y].data = SubSeq(pages[y].data, 1, T1)
    BY <1>2, <1>11, <1>13
  <2>3. new[z].data = SubSeq(pages[y].data, T1 + 1, Capacity)
    BY <1>2, <1>10, <1>13
  <2>4. \A w \in VertexIds \ {u, y, z} : new[w].data = pages[w].data
    BY <1>3, <1>13
  <2> QED BY <2>1, <2>2, <2>3, <2>4
<1> QED BY <1>6, <1>7, <1>9, <1>15, <1>16, <1>17, <1>18 DEF IsSplit, new

(* Where the item in slot i of vertex w was before the split. *)
WasIn(w, y, z)           == IF w = z THEN y ELSE w
WasAt(w, i, u, index, z) == IF w = z THEN T1 + i ELSE IF w = u /\ i > index + 1 THEN i - 1 ELSE i

(* A slot of an inner vertex, but for the new one, has the child of an inner *)
(* slot of the old file.                                                    *)
LEMMA SplitInnerSlot ==
  ASSUME NEW pages, Shape(pages), InnerOK(pages), NEW u, NEW index, Splittable(pages, u, index),
         NEW y, y = At(pages, u, index).value, NEW z, z = pages[0].total,
         NEW new, IsSplit(pages, new, u, index, y, z),
         NEW w, NEW i, InnerSlot(new, w, i), ~(w = u /\ i = index + 1)
  PROVE  /\ InnerSlot(pages, WasIn(w, y, z), WasAt(w, i, u, index, z))
         /\ At(new, w, i).value
              = At(pages, WasIn(w, y, z), WasAt(w, i, u, index, z)).value
         /\ WasIn(w, y, z) \in VertexIds /\ WasAt(w, i, u, index, z) \in 1 .. Capacity
         /\ i < Len(new[w].data) => At(new, w, i).key \in Keys
<1>1. /\ u \in Alloc(pages) /\ y \in Alloc(pages) /\ z \notin Alloc(pages)
      /\ u \in VertexIds /\ y \in VertexIds /\ z \in VertexIds
      /\ y # u /\ u # 0 /\ z # u /\ z # y /\ z # 0
      /\ index \in 1 .. Len(pages[u].data) /\ Len(pages[u].data) \in 1 .. Capacity - 1
      /\ Len(pages[y].data) = Capacity
      /\ pages \in [VertexIds -> Vertex]
  BY SplitPlaces
<1>2. w \in Alloc(new) /\ ~new[w].isleaf /\ i \in 1 .. Len(new[w].data)
  BY DEF InnerSlot
<1>3. w \in VertexIds /\ (w # z => w \in Alloc(pages))
  BY <1>1, <1>2 DEF Alloc, IsSplit
<1>4. ~pages[WasIn(w, y, z)].isleaf /\ WasIn(w, y, z) \in Alloc(pages)
  BY <1>1, <1>2, <1>3 DEF IsSplit, WasIn
<1>5. WasIn(w, y, z) \in VertexIds /\ Len(pages[WasIn(w, y, z)].data) \in 0 .. Capacity
  <2>1. WasIn(w, y, z) \in VertexIds
    BY <1>1, <1>3 DEF WasIn
  <2>2. pages[WasIn(w, y, z)].data \in Seq(Slot)
    BY <1>1, <2>1 DEF Vertex
  <2> QED BY <2>1, <2>2, LenProperties DEF Shape
<1>6. CASE w = z
  <2>1. Len(new[z].data) = Capacity - T1 /\ i \in 1 .. Capacity - T1
    BY <1>2, <1>6 DEF IsSplit
  <2>2. At(new, w, i) = At(pages, y, T1 + i)
    BY <1>6, <2>1 DEF IsSplit, At
  <2>3. T1 + i \in 1 .. Len(pages[y].data)
    BY <1>1, <2>1, Halves
  <2>4. InnerSlot(pages, y, T1 + i)
    BY <1>1, <1>4, <1>6, <2>3 DEF InnerSlot, WasIn
  <2>5. i < Len(new[w].data) => T1 + i < Len(pages[y].data)
    BY <1>1, <1>6, <2>1, Halves
  <2>6. T1 + i < Len(pages[y].data) => At(pages, y, T1 + i).key \in Keys
    BY <1>1, <2>3, <2>4 DEF InnerOK
  <2> QED BY <1>1, <1>6, <2>2, <2>3, <2>4, <2>5, <2>6 DEF WasIn, WasAt
<1>7. CASE w = y
  <2>1. Len(new[y].data) = T1 /\ i \in 1 .. T1
    BY <1>2, <1>7 DEF IsSplit
  <2>2. At(new, w, i) = At(pages, y, i)
    BY <1>7, <2>1 DEF IsSplit, At
  <2>3. i \in 1 .. Len(pages[y].data) /\ i < Len(pages[y].data)
    BY <1>1, <2>1, Halves
  <2>4. InnerSlot(pages, y, i)
    BY <1>1, <1>4, <1>7, <2>3 DEF InnerSlot, WasIn
  <2>5. At(pages, y, i).key \in Keys
    BY <1>1, <2>3, <2>4 DEF InnerOK
  <2> QED BY <1>1, <1>7, <2>2, <2>3, <2>4, <2>5 DEF WasIn, WasAt
<1>8. CASE w = u
  <2>1. OneMore(pages[u].data, new[u].data, index, z) /\ Keyed(new[u].data, Len(pages[u].data))
    BY DEF IsSplit
  <2>2. Len(new[u].data) = Len(pages[u].data) + 1 /\ i \in 1 .. Len(pages[u].data) + 1
    BY <1>2, <1>8, <2>1 DEF OneMore
  <2>3. new[u].data[i].value = IF i <= index THEN pages[u].data[i].value ELSE pages[u].data[i - 1].value
    BY <1>1, <1>8, <2>1, <2>2 DEF OneMore
  <2>4. WasAt(w, i, u, index, z) = IF i <= index THEN i ELSE i - 1
    BY <1>1, <1>8, <2>2 DEF WasAt
  <2>5. WasAt(w, i, u, index, z) \in 1 .. Len(pages[u].data)
    BY <1>1, <1>8, <2>2, <2>4
  <2>6. InnerSlot(pages, u, WasAt(w, i, u, index, z)) /\ WasIn(w, y, z) = u
    BY <1>1, <1>4, <1>8, <2>5 DEF InnerSlot, WasIn
  <2>7. i < Len(new[w].data) => i \in 1 .. Len(pages[u].data)
    BY <1>1, <1>8, <2>2
  <2>8. i < Len(new[w].data) => At(new, w, i).key \in Keys
    BY <1>8, <2>1, <2>7 DEF Keyed, At
  <2>9. WasAt(w, i, u, index, z) \in 1 .. Capacity
    BY <1>1, <2>5
  <2> QED BY <1>1, <1>8, <2>3, <2>4, <2>6, <2>8, <2>9 DEF At
<1>9. CASE w \notin {u, y, z}
  <2>1. new[w].data = pages[w].data
    BY <1>3, <1>9 DEF IsSplit
  <2>2. WasIn(w, y, z) = w /\ WasAt(w, i, u, index, z) = i
    BY <1>9 DEF WasIn, WasAt
  <2>3. InnerSlot(pages, w, i)
    BY <1>2, <1>4, <2>1, <2>2 DEF InnerSlot
  <2>4. i \in 1 .. Capacity
    BY <1>2, <1>5, <2>1, <2>2
  <2>5. i < Len(new[w].data) => At(pages, w, i).key \in Keys
    BY <1>3, <2>1, <2>3, <2>4 DEF InnerOK
  <2> QED BY <1>3, <2>1, <2>2, <2>3, <2>4, <2>5 DEF At
<1> QED BY <1>6, <1>7, <1>8, <1>9

(* A slot of a leaf has the entry of a slot of a leaf of the old file. *)
LEMMA SplitLeafSlot ==
  ASSUME NEW pages, Shape(pages), InnerOK(pages), NEW u, NEW index, Splittable(pages, u, index),
         NEW y, y = At(pages, u, index).value, NEW z, z = pages[0].total,
         NEW new, IsSplit(pages, new, u, index, y, z),
         NEW w, NEW i, LeafSlot(new, w, i)
  PROVE  /\ LeafSlot(pages, WasIn(w, y, z), WasAt(w, i, u, index, z))
         /\ At(new, w, i) = At(pages, WasIn(w, y, z), WasAt(w, i, u, index, z))
         /\ WasIn(w, y, z) \in VertexIds /\ WasAt(w, i, u, index, z) \in 1 .. Capacity
         /\ w # u
<1>1. /\ u \in Alloc(pages) /\ y \in Alloc(pages) /\ z \notin Alloc(pages)
      /\ u \in VertexIds /\ y \in VertexIds /\ z \in VertexIds
      /\ y # u /\ u # 0 /\ z # u /\ z # y /\ z # 0
      /\ index \in 1 .. Len(pages[u].data) /\ Len(pages[u].data) \in 1 .. Capacity - 1
      /\ Len(pages[y].data) = Capacity
      /\ pages \in [VertexIds -> Vertex]
  BY SplitPlaces
<1>2. w \in Alloc(new) /\ new[w].isleaf /\ i \in 1 .. Len(new[w].data)
  BY DEF LeafSlot
<1>3. w \in VertexIds /\ (w # z => w \in Alloc(pages))
  BY <1>1, <1>2 DEF Alloc, IsSplit
<1>4. /\ pages[WasIn(w, y, z)].isleaf /\ WasIn(w, y, z) \in Alloc(pages)
      /\ WasIn(w, y, z) \in VertexIds /\ w # u
  BY <1>1, <1>2, <1>3 DEF IsSplit, WasIn, Splittable
<1>5. Len(pages[WasIn(w, y, z)].data) \in 0 .. Capacity
  <2>1. pages[WasIn(w, y, z)].data \in Seq(Slot)
    BY <1>1, <1>4 DEF Vertex
  <2> QED BY <1>4, <2>1, LenProperties DEF Shape
<1>6. CASE w = z
  <2>1. Len(new[z].data) = Capacity - T1 /\ i \in 1 .. Capacity - T1
    BY <1>2, <1>6 DEF IsSplit
  <2>2. At(new, w, i) = At(pages, y, T1 + i)
    BY <1>6, <2>1 DEF IsSplit, At
  <2>3. T1 + i \in 1 .. Len(pages[y].data)
    BY <1>1, <2>1, Halves
  <2>4. LeafSlot(pages, y, T1 + i)
    BY <1>1, <1>4, <1>6, <2>3 DEF LeafSlot, WasIn
  <2> QED BY <1>1, <1>6, <2>2, <2>3, <2>4 DEF WasIn, WasAt
<1>7. CASE w = y
  <2>1. Len(new[y].data) = T1 /\ i \in 1 .. T1
    BY <1>2, <1>7 DEF IsSplit
  <2>2. At(new, w, i) = At(pages, y, i)
    BY <1>7, <2>1 DEF IsSplit, At
  <2>3. i \in 1 .. Len(pages[y].data)
    BY <1>1, <2>1, Halves
  <2>4. LeafSlot(pages, y, i)
    BY <1>1, <1>4, <1>7, <2>3 DEF LeafSlot, WasIn
  <2> QED BY <1>1, <1>7, <2>2, <2>3, <2>4 DEF WasIn, WasAt
<1>8. CASE w \notin {u, y, z}
  <2>1. new[w].data = pages[w].data
    BY <1>3, <1>8 DEF IsSplit
  <2>2. WasIn(w, y, z) = w /\ WasAt(w, i, u, index, z) = i
    BY <1>8 DEF WasIn, WasAt
  <2>3. LeafSlot(pages, w, i)
    BY <1>2, <1>4, <2>1, <2>2 DEF LeafSlot
  <2>4. i \in 1 .. Capacity
    BY <1>2, <1>5, <2>1, <2>2
  <2> QED BY <1>3, <1>4, <2>1, <2>2, <2>3, <2>4 DEF At
<1> QED BY <1>4, <1>6, <1>7, <1>8

InLeaf(pages, e) ==
  \E x \in VertexIds, j \in 1 .. Capacity : LeafSlot(pages, x, j) /\ At(pages, x, j) = e

(* Every slot of a leaf of the old file is a slot of a leaf of the new one. *)
LEMMA SplitKeepsLeafSlot ==
  ASSUME NEW pages, Shape(pages), InnerOK(pages), NEW u, NEW index, Splittable(pages, u, index),
         NEW y, y = At(pages, u, index).value, NEW z, z = pages[0].total,
         NEW new, IsSplit(pages, new, u, index, y, z),
         NEW w \in VertexIds, NEW i \in 1 .. Capacity, LeafSlot(pages, w, i)
  PROVE  InLeaf(new, At(pages, w, i))
<1>1. /\ u \in Alloc(pages) /\ y \in Alloc(pages) /\ z \notin Alloc(pages)
      /\ u \in VertexIds /\ y \in VertexIds /\ z \in VertexIds
      /\ y # u /\ u # 0 /\ z # u /\ z # y /\ z # 0
      /\ Len(pages[y].data) = Capacity
      /\ pages \in [VertexIds -> Vertex]
  BY SplitPlaces
<1>2. w \in Alloc(pages) /\ pages[w].isleaf /\ i \in 1 .. Len(pages[w].data)
  BY DEF LeafSlot
<1>3. w # u /\ w # z /\ new[w].isleaf
  BY <1>1, <1>2 DEF Splittable, IsSplit
<1>4. w \in Alloc(new) /\ z \in Alloc(new)
  <2>1. z \in Nat
    BY <1>1
  <2>2. new[0].total = z + 1 /\ new[0].root = pages[0].root
    BY DEF IsSplit
  <2>3. Alloc(new) = 0 .. new[0].total - 1 /\ Alloc(pages) = 0 .. pages[0].total - 1
    BY DEF Alloc
  <2>4. 0 .. new[0].total - 1 = (0 .. pages[0].total - 1) \cup {z}
    BY <2>1, <2>2
  <2>5. Alloc(new) = Alloc(pages) \cup {z}
    BY <2>3, <2>4
  <2> QED BY <1>2, <2>5
<1>5. CASE w = y /\ i <= T1
  <2>1. LeafSlot(new, w, i) /\ At(new, w, i) = At(pages, w, i)
    <3>1. i \in 1 .. T1
      BY <1>2, <1>5, Halves
    <3>2. Len(new[w].data) = T1 /\ new[w].data[i] = pages[w].data[i]
      BY <1>5, <3>1 DEF IsSplit
    <3> QED BY <1>3, <1>4, <3>1, <3>2 DEF LeafSlot, At
  <2> QED BY <2>1 DEF InLeaf
<1>6. CASE w = y /\ ~(i <= T1)
  <2>1. i - T1 \in 1 .. Capacity - T1 /\ T1 + (i - T1) = i /\ i - T1 \in 1 .. Capacity
    BY <1>6, Halves
  <2>2. At(new, z, i - T1) = At(pages, w, i)
    <3>1. new[z].data[i - T1] = pages[y].data[T1 + (i - T1)]
      BY <2>1 DEF IsSplit
    <3> QED BY <1>6, <2>1, <3>1 DEF At
  <2>3. new[z].isleaf
    BY <1>1, <1>2, <1>6 DEF IsSplit
  <2>4. LeafSlot(new, z, i - T1)
    BY <1>4, <2>1, <2>3 DEF LeafSlot, IsSplit
  <2> QED BY <1>1, <2>1, <2>2, <2>4 DEF InLeaf
<1>7. CASE w # y
  <2>1. new[w].data = pages[w].data
    BY <1>3, <1>7 DEF IsSplit
  <2>2. LeafSlot(new, w, i) /\ At(new, w, i) = At(pages, w, i)
    BY <1>2, <1>3, <1>4, <2>1 DEF LeafSlot, At
  <2> QED BY <2>2 DEF InLeaf
<1> QED BY <1>5, <1>6, <1>7

(* No two slots come from the same one. *)
LEMMA SplitApart ==
  ASSUME NEW pages, Shape(pages), InnerOK(pages), NEW u, NEW index, Splittable(pages, u, index),
         NEW y, y = At(pages, u, index).value, NEW z, z = pages[0].total,
         NEW new, IsSplit(pages, new, u, index, y, z),
         NEW w, NEW i \in 1 .. Len(new[w].data), ~(w = u /\ i = index + 1),
         NEW x, NEW j \in 1 .. Len(new[x].data), ~(x = u /\ j = index + 1),
         WasIn(w, y, z) = WasIn(x, y, z), WasAt(w, i, u, index, z) = WasAt(x, j, u, index, z)
  PROVE  w = x /\ i = j
<1>1. y # u /\ z # u /\ z # y /\ index \in Nat
  BY SplitPlaces
<1>2. Len(new[y].data) = T1 /\ T1 \in Nat
  BY Halves DEF IsSplit
<1>3. i \in Nat /\ j \in Nat /\ (w = y => i <= T1) /\ (x = y => j <= T1) /\ 1 <= i /\ 1 <= j
  BY <1>2
<1>4. w = x
  BY <1>1, <1>2, <1>3 DEF WasIn, WasAt
<1> QED BY <1>1, <1>2, <1>3, <1>4 DEF WasAt

(* After a split the pages are a tree as before, with the same entries.  *)
LEMMA SplitTree ==
  ASSUME NEW pages, Tree(pages), NEW u, NEW index, Splittable(pages, u, index),
         NEW y, y = At(pages, u, index).value, NEW z, z = pages[0].total,
         NEW new, IsSplit(pages, new, u, index, y, z),
         NEW es, Kept(pages, es)
  PROVE  Tree(new) /\ Kept(new, es)
<1>1. Shape(pages) /\ InnerOK(pages) /\ LeavesOK(pages) /\ ChildOnce(pages) /\ EntryOnce(pages)
  BY DEF Tree
<1>2. /\ u \in Alloc(pages) /\ y \in Alloc(pages) /\ z \notin Alloc(pages)
      /\ u \in VertexIds /\ y \in VertexIds /\ z \in VertexIds
      /\ y # u /\ u # 0 /\ z # u /\ z # y /\ z # 0
      /\ index \in 1 .. Len(pages[u].data) /\ Len(pages[u].data) \in 1 .. Capacity - 1
      /\ Len(pages[y].data) = Capacity
      /\ pages \in [VertexIds -> Vertex]
  BY <1>1, SplitPlaces
<1>3. /\ Alloc(new) = Alloc(pages) \cup {z} /\ new[0].root = pages[0].root
      /\ new[0].total = z + 1
  <2>1. z \in Nat
    BY <1>2
  <2>2. new[0].total = z + 1 /\ new[0].root = pages[0].root
    BY DEF IsSplit
  <2>3. Alloc(new) = 0 .. new[0].total - 1 /\ Alloc(pages) = 0 .. pages[0].total - 1
    BY DEF Alloc
  <2>4. 0 .. new[0].total - 1 = (0 .. pages[0].total - 1) \cup {z}
    BY <2>1, <2>2
  <2> QED BY <2>2, <2>3, <2>4
<1>4. Len(new[u].data) = Len(pages[u].data) + 1
  BY DEF IsSplit, OneMore
<1>5. Shape(new)
  <2>1. new \in [VertexIds -> Vertex]
    BY DEF IsSplit
  <2>2. ASSUME NEW w \in VertexIds
        PROVE  /\ Len(new[w].data) <= Capacity
               /\ w \in Alloc(new) /\ ~new[w].isleaf => Len(new[w].data) >= 1
    <3>1. CASE w = y \/ w = z
      <4>1. Len(new[w].data) = T1 \/ Len(new[w].data) = Capacity - T1
        BY <3>1 DEF IsSplit
      <4> QED BY <4>1, Halves
    <3>2. CASE w = u
      BY <1>2, <1>4, <3>2
    <3>3. CASE w \notin {u, y, z}
      BY <1>1, <1>3, <3>3 DEF IsSplit, Shape
    <3> QED BY <3>1, <3>2, <3>3
  <2>3. new[0].total >= 1 /\ new[0].root \in Alloc(new)
    <3>1. pages[0].total >= 1 /\ pages[0].root \in Alloc(pages)
      BY <1>1 DEF Shape
    <3>2. z \in Nat
      BY <1>2
    <3> QED BY <1>3, <3>1, <3>2
  <2>4. new[0].isleaf
    <3>1. 0 \in VertexIds /\ 0 # z /\ pages[0].isleaf
      BY <1>1, <1>2 DEF Shape
    <3> QED BY <3>1 DEF IsSplit
  <2>5. \A w \in Alloc(new) : w \in VertexIds
    <3>1. z \in Nat /\ z < MaxVertices /\ new[0].total = z + 1
      BY <1>2 DEF IsSplit
    <3>2. Alloc(new) = 0 .. z
      BY <3>1 DEF Alloc
    <3> QED BY <3>1, <3>2
  <2> QED BY <2>1, <2>2, <2>3, <2>4, <2>5 DEF Shape
<1>6. At(new, u, index + 1).value = z
  <2>1. index + 1 \in 1 .. Len(pages[u].data) + 1
    BY <1>2
  <2>2. OneMore(pages[u].data, new[u].data, index, z)
    BY DEF IsSplit
  <2>3. new[u].data[index + 1].value = z
    BY <1>2, <2>1, <2>2 DEF OneMore
  <2> QED BY <2>3 DEF At
<1>7. ASSUME NEW w \in VertexIds, NEW i \in 1 .. Capacity, InnerSlot(new, w, i),
             ~(w = u /\ i = index + 1)
      PROVE  /\ InnerSlot(pages, WasIn(w, y, z), WasAt(w, i, u, index, z))
             /\ At(new, w, i).value
                  = At(pages, WasIn(w, y, z), WasAt(w, i, u, index, z)).value
             /\ WasIn(w, y, z) \in VertexIds /\ WasAt(w, i, u, index, z) \in 1 .. Capacity
             /\ i < Len(new[w].data) => At(new, w, i).key \in Keys
             /\ At(new, w, i).value \in Alloc(pages) \ {pages[0].root}
  <2>1. /\ InnerSlot(pages, WasIn(w, y, z), WasAt(w, i, u, index, z))
        /\ At(new, w, i).value
             = At(pages, WasIn(w, y, z), WasAt(w, i, u, index, z)).value
        /\ WasIn(w, y, z) \in VertexIds /\ WasAt(w, i, u, index, z) \in 1 .. Capacity
        /\ i < Len(new[w].data) => At(new, w, i).key \in Keys
    BY <1>1, <1>7, SplitInnerSlot
  <2>2. At(pages, WasIn(w, y, z), WasAt(w, i, u, index, z)).value \in Alloc(pages) \ {pages[0].root}
    BY <1>1, <2>1 DEF InnerOK
  <2> QED BY <2>1, <2>2
<1>8. ASSUME NEW w \in VertexIds, NEW i \in 1 .. Capacity, LeafSlot(new, w, i)
      PROVE  /\ LeafSlot(pages, WasIn(w, y, z), WasAt(w, i, u, index, z))
             /\ At(new, w, i) = At(pages, WasIn(w, y, z), WasAt(w, i, u, index, z))
             /\ WasIn(w, y, z) \in VertexIds /\ WasAt(w, i, u, index, z) \in 1 .. Capacity
             /\ w # u
  BY <1>1, <1>8, SplitLeafSlot
<1>8a. ASSUME NEW w \in VertexIds, NEW i \in 1 .. Capacity, LeafSlot(pages, w, i)
       PROVE  InLeaf(new, At(pages, w, i))
  BY <1>1, <1>8a, SplitKeepsLeafSlot
<1>9. InnerOK(new)
  <2> SUFFICES ASSUME NEW w \in VertexIds, NEW i \in 1 .. Capacity, InnerSlot(new, w, i)
               PROVE  /\ At(new, w, i).value \in Alloc(new) \ {new[0].root}
                      /\ i < Len(new[w].data) => At(new, w, i).key \in Keys
    BY DEF InnerOK
  <2>1. CASE w = u /\ i = index + 1
    <3>1. z # pages[0].root
      BY <1>1, <1>2 DEF Shape
    <3>2. i < Len(new[w].data) => i \in 1 .. Len(pages[u].data)
      BY <1>2, <1>4, <2>1
    <3>3. i \in 1 .. Len(pages[u].data) => new[u].data[i].key \in Keys
      BY DEF IsSplit, Keyed
    <3> QED BY <1>3, <1>6, <2>1, <3>1, <3>2, <3>3 DEF At
  <2>2. CASE ~(w = u /\ i = index + 1)
    BY <1>3, <1>7, <2>2
  <2> QED BY <2>1, <2>2
<1>10. LeavesOK(new)
  BY <1>1, <1>8 DEF LeavesOK
<1>11. ChildOnce(new)
  <2> SUFFICES ASSUME NEW w \in VertexIds, NEW x \in VertexIds,
                      NEW i \in 1 .. Capacity, NEW j \in 1 .. Capacity,
                      InnerSlot(new, w, i), InnerSlot(new, x, j),
                      At(new, w, i).value = At(new, x, j).value
               PROVE  w = x /\ i = j
    BY DEF ChildOnce
  <2>1. CASE w = u /\ i = index + 1
    <3>1. At(new, x, j).value = z
      BY <1>6, <2>1
    <3> QED BY <1>2, <1>7, <2>1, <3>1
  <2>2. CASE x = u /\ j = index + 1
    <3>1. At(new, w, i).value = z
      BY <1>6, <2>2
    <3> QED BY <1>2, <1>7, <2>2, <3>1
  <2>3. CASE ~(w = u /\ i = index + 1) /\ ~(x = u /\ j = index + 1)
    <3>1. PICK v \in VertexIds, k \in 1 .. Capacity :
            /\ v = WasIn(w, y, z) /\ k = WasAt(w, i, u, index, z)
            /\ InnerSlot(pages, v, k) /\ At(new, w, i).value = At(pages, v, k).value
      <4>1. PICK v, k : v = WasIn(w, y, z) /\ k = WasAt(w, i, u, index, z)
        OBVIOUS
      <4>2. /\ v \in VertexIds /\ k \in 1 .. Capacity /\ InnerSlot(pages, v, k)
            /\ At(new, w, i).value = At(pages, v, k).value
        BY <1>7, <2>3, <4>1
      <4> QED BY <4>1, <4>2
    <3>2. PICK b \in VertexIds, l \in 1 .. Capacity :
            /\ b = WasIn(x, y, z) /\ l = WasAt(x, j, u, index, z)
            /\ InnerSlot(pages, b, l) /\ At(new, x, j).value = At(pages, b, l).value
      <4>1. PICK b, l : b = WasIn(x, y, z) /\ l = WasAt(x, j, u, index, z)
        OBVIOUS
      <4>2. /\ b \in VertexIds /\ l \in 1 .. Capacity /\ InnerSlot(pages, b, l)
            /\ At(new, x, j).value = At(pages, b, l).value
        BY <1>7, <2>3, <4>1
      <4> QED BY <4>1, <4>2
    <3>3. v = b /\ k = l
      <4>1. InnerSlot(pages, v, k) /\ InnerSlot(pages, b, l) /\ At(pages, v, k).value = At(pages, b, l).value
        BY <3>1, <3>2
      <4>2. ChildOnce(pages)
        BY <1>1
      <4> QED BY <4>1, <4>2 DEF ChildOnce
    <3>4. WasIn(w, y, z) = WasIn(x, y, z) /\ WasAt(w, i, u, index, z) = WasAt(x, j, u, index, z)
      BY <3>1, <3>2, <3>3
    <3>5. i \in 1 .. Len(new[w].data) /\ j \in 1 .. Len(new[x].data)
      BY DEF InnerSlot
    <3> QED BY <1>1, <2>3, <3>4, <3>5, SplitApart
  <2> QED BY <2>1, <2>2, <2>3
<1>12. EntryOnce(new)
  <2> SUFFICES ASSUME NEW w \in VertexIds, NEW x \in VertexIds,
                      NEW i \in 1 .. Capacity, NEW j \in 1 .. Capacity,
                      LeafSlot(new, w, i), LeafSlot(new, x, j), At(new, w, i) = At(new, x, j)
               PROVE  w = x /\ i = j
    BY DEF EntryOnce
  <2>1. WasIn(w, y, z) = WasIn(x, y, z) /\ WasAt(w, i, u, index, z) = WasAt(x, j, u, index, z)
    BY <1>1, <1>8 DEF EntryOnce
  <2>2. i \in 1 .. Len(new[w].data) /\ j \in 1 .. Len(new[x].data) /\ w # u /\ x # u
    BY <1>8 DEF LeafSlot
  <2>3. Shape(pages) /\ InnerOK(pages) /\ ~(w = u /\ i = index + 1) /\ ~(x = u /\ j = index + 1)
    BY <1>1, <2>2
  <2> QED BY <2>1, <2>2, <2>3, SplitApart
<1>13. Kept(new, es)
  <2> SUFFICES ASSUME NEW e \in Entry
               PROVE  e \in es <=> \E w \in VertexIds, i \in 1 .. Capacity :
                                     LeafSlot(new, w, i) /\ At(new, w, i) = e
    BY DEF Kept
  <2>1. ASSUME e \in es
        PROVE  \E w \in VertexIds, i \in 1 .. Capacity : LeafSlot(new, w, i) /\ At(new, w, i) = e
    <3>1. PICK w \in VertexIds, i \in 1 .. Capacity : LeafSlot(pages, w, i) /\ At(pages, w, i) = e
      BY <2>1 DEF Kept
    <3>2. \E x \in VertexIds, j \in 1 .. Capacity :
            LeafSlot(new, x, j) /\ At(new, x, j) = At(pages, w, i)
      BY <1>8a, <3>1 DEF InLeaf
    <3> QED BY <3>1, <3>2
  <2>2. ASSUME NEW w \in VertexIds, NEW i \in 1 .. Capacity, LeafSlot(new, w, i), At(new, w, i) = e
        PROVE  e \in es
    BY <1>8, <2>2 DEF Kept
  <2> QED BY <2>1, <2>2
<1> QED BY <1>5, <1>9, <1>10, <1>11, <1>12, <1>13 DEF Tree

(* A split leaves room in the two vertices it divides the child into: the    *)
(* slot split and the one behind it lead to vertices that are not full.     *)
LEMMA SplitMakesRoom ==
  ASSUME NEW pages, Shape(pages), InnerOK(pages), NEW u, NEW index, Splittable(pages, u, index),
         NEW y, y = At(pages, u, index).value, NEW z, z = pages[0].total,
         NEW new, IsSplit(pages, new, u, index, y, z),
         NEW j \in {index, index + 1}
  PROVE  /\ new[u].data[j].value \in Alloc(new)
         /\ Len(new[new[u].data[j].value].data) < Capacity
<1>1. index \in 1 .. Len(pages[u].data) /\ Len(pages[u].data) \in Nat /\ y \in Alloc(pages)
  BY SplitPlaces
<1>2. OneMore(pages[u].data, new[u].data, index, z)
  BY DEF IsSplit
<1>3. j \in 1 .. Len(pages[u].data) + 1 /\ (j <= index \/ j = index + 1)
  BY <1>1
<1>4. new[u].data[j].value = y \/ new[u].data[j].value = z
  <2>1. CASE j = index
    BY <1>1, <1>2, <1>3, <2>1 DEF OneMore, At
  <2>2. CASE j = index + 1
    BY <1>1, <1>2, <1>3, <2>2 DEF OneMore
  <2> QED BY <2>1, <2>2
<1>5. y \in Alloc(new) /\ z \in Alloc(new)
  <2>1. new[0].total = z + 1 /\ z \in VertexIds
    BY SplitPlaces DEF IsSplit
  <2> QED BY <1>1, <2>1 DEF Alloc
<1>6. Len(new[y].data) = T1 /\ Len(new[z].data) = Capacity - T1
  BY DEF IsSplit
<1>7. PICK v : v = new[u].data[j].value
  OBVIOUS
<1>8. v \in Alloc(new)
  BY <1>4, <1>5, <1>7
<1>9. Len(new[v].data) < Capacity
  <2>1. T1 < Capacity /\ Capacity - T1 < Capacity
    BY Halves
  <2> QED BY <1>4, <1>6, <1>7, <2>1
<1> QED BY <1>7, <1>8, <1>9

-----------------------------------------------------------------------------
(* addKey: the new root above a full one. *)

IsGrown(pages, new, s) ==
  /\ new \in [VertexIds -> Vertex]
  /\ new[0].total = s + 1 /\ new[0].root = s
  /\ ~new[s].isleaf /\ Len(new[s].data) = 1 /\ new[s].data[1] = Item(Junk, pages[0].root)
  /\ \A w \in VertexIds \ {s} : new[w].isleaf = pages[w].isleaf /\ new[w].data = pages[w].data

LEMMA GrownPages ==
  ASSUME NEW pages, Shape(pages), NEW s, s = pages[0].total, s + 1 < MaxVertices
  PROVE  IsGrown(pages, GrownRoot(pages), s)
<1> DEFINE begun == [pages EXCEPT ![0].total = s + 1, ![0].root = s]
           items == <<Item(Junk, pages[0].root)>>
           new   == GrownRoot(pages)
<1>1. /\ pages \in [VertexIds -> Vertex] /\ 0 \in VertexIds
      /\ s \in VertexIds /\ s # 0 /\ s + 1 \in 0 .. MaxVertices
      /\ pages[0].root \in VertexIds
  <2>1. pages \in [VertexIds -> Vertex] /\ 0 \in VertexIds /\ pages[0].total >= 1
    BY DEF Shape
  <2>2. s \in 0 .. MaxVertices /\ pages[0].root \in VertexIds
    BY <2>1 DEF Vertex
  <2> QED BY <2>1, <2>2
<1>2. new = [begun EXCEPT ![s].isleaf = FALSE, ![s].data = items]
  BY DEF GrownRoot
<1>3. ASSUME NEW w \in VertexIds
      PROVE  /\ begun[w] \in Vertex
             /\ begun[w].isleaf = pages[w].isleaf /\ begun[w].data = pages[w].data
             /\ w = 0 => begun[w].total = s + 1 /\ begun[w].root = s
  <2>1. pages[w] \in Vertex
    BY <1>1
  <2>2. begun[w] = IF w = 0 THEN [pages[w] EXCEPT !.total = s + 1, !.root = s] ELSE pages[w]
    BY <1>1
  <2> HIDE DEF begun
  <2> QED BY <1>1, <2>1, <2>2 DEF Vertex
<1>4. DOMAIN begun = VertexIds
  BY <1>1
<1>5. items \in Seq(Slot) /\ Len(items) = 1 /\ items[1] = Item(Junk, pages[0].root)
  <2>1. Item(Junk, pages[0].root) \in Slot
    BY <1>1 DEF Item, Slot
  <2> QED BY <2>1
<1> HIDE DEF begun, items
<1>6. /\ DOMAIN new = VertexIds
      /\ \A w \in VertexIds : new[w] = IF w = s THEN Remade(begun[s], FALSE, items) ELSE begun[w]
  BY <1>1, <1>2, <1>4 DEF Remade
<1>7. new = [w \in VertexIds |-> new[w]]
  BY <1>2, <1>4
<1> HIDE DEF new
<1>8. new[s] \in Vertex /\ new[s].isleaf = FALSE /\ new[s].data = items
  <2> DEFINE before == begun[s]
  <2>1. before \in Vertex /\ items \in Seq(Slot) /\ FALSE \in BOOLEAN
    BY <1>1, <1>3, <1>5
  <2>2. new[s] = Remade(before, FALSE, items)
    BY <1>1, <1>6
  <2> HIDE DEF before
  <2>3. Remade(before, FALSE, items) \in Vertex
    BY <2>1, RemadeVertex
  <2>4. Remade(before, FALSE, items).isleaf = FALSE /\ Remade(before, FALSE, items).data = items
    BY <2>1, RemadeVertex
  <2> QED BY <2>2, <2>3, <2>4
<1>9. new \in [VertexIds -> Vertex]
  BY <1>3, <1>6, <1>7, <1>8
<1>10. new[0].total = s + 1 /\ new[0].root = s
  BY <1>1, <1>3, <1>6
<1>11. \A w \in VertexIds \ {s} : new[w].isleaf = pages[w].isleaf /\ new[w].data = pages[w].data
  BY <1>3, <1>6
<1> QED BY <1>5, <1>8, <1>9, <1>10, <1>11 DEF IsGrown, new

(* The pages are still a tree, with the same entries; the new root has one   *)
(* slot, and what was the root is its child.                                *)
LEMMA GrownTree ==
  ASSUME NEW pages, Tree(pages), NEW s, s = pages[0].total, s + 1 < MaxVertices,
         NEW new, IsGrown(pages, new, s), NEW es, Kept(pages, es)
  PROVE  /\ Tree(new) /\ Kept(new, es)
         /\ Len(pages[pages[0].root].data) = Capacity => Splittable(new, s, 1)
<1>1. Shape(pages) /\ InnerOK(pages) /\ LeavesOK(pages) /\ ChildOnce(pages) /\ EntryOnce(pages)
  BY DEF Tree
<1>2. /\ pages \in [VertexIds -> Vertex] /\ 0 \in VertexIds /\ s \in VertexIds /\ s # 0
      /\ s \notin Alloc(pages) /\ Alloc(new) = Alloc(pages) \cup {s}
      /\ pages[0].root \in Alloc(pages) /\ pages[0].root # s
      /\ \A w \in Alloc(pages) : w \in VertexIds
  <2>1. pages \in [VertexIds -> Vertex] /\ 0 \in VertexIds /\ pages[0].total >= 1
    BY <1>1 DEF Shape
  <2>2. s \in 0 .. MaxVertices
    BY <2>1 DEF Vertex
  <2>3. s \in VertexIds /\ s # 0 /\ s \notin Alloc(pages) /\ Alloc(new) = Alloc(pages) \cup {s}
    BY <2>1, <2>2 DEF Alloc, IsGrown
  <2>4. \A w \in Alloc(pages) : w \in VertexIds
    BY <2>2, <2>3 DEF Alloc
  <2> QED BY <1>1, <2>1, <2>3, <2>4 DEF Shape
<1>3. At(new, s, 1).value = pages[0].root /\ Len(new[s].data) = 1 /\ ~new[s].isleaf /\ new[0].root = s
  BY DEF IsGrown, At, Item
<1>4. \A w \in VertexIds \ {s} : new[w].isleaf = pages[w].isleaf /\ new[w].data = pages[w].data
  BY DEF IsGrown
<1>5. Shape(new)
  <2>1. new \in [VertexIds -> Vertex] /\ new[0].total = s + 1
    BY DEF IsGrown
  <2>2. ASSUME NEW w \in VertexIds PROVE Len(new[w].data) <= Capacity
    <3>1. CASE w = s
      <4>1. Len(new[w].data) = 1
        BY <1>3, <3>1
      <4>2. 1 <= Capacity
        OBVIOUS
      <4> QED BY <4>1, <4>2
    <3>2. CASE w # s
      BY <1>1, <1>4, <3>2 DEF Shape
    <3> QED BY <3>1, <3>2
  <2>3. ASSUME NEW w \in Alloc(new), ~new[w].isleaf PROVE Len(new[w].data) >= 1
    <3>1. CASE w = s
      BY <1>3, <3>1
    <3>2. CASE w # s
      <4>1. w \in Alloc(pages) /\ w \in VertexIds
        BY <1>2, <3>2
      <4>2. new[w].isleaf = pages[w].isleaf /\ new[w].data = pages[w].data
        BY <1>4, <3>2, <4>1
      <4> QED BY <1>1, <2>3, <4>1, <4>2 DEF Shape
    <3> QED BY <3>1, <3>2
  <2>4. new[0].total >= 1 /\ new[0].root \in Alloc(new) /\ new[0].isleaf
    <3>1. 0 \in VertexIds \ {s} /\ pages[0].isleaf /\ s \in Nat
      BY <1>1, <1>2 DEF Shape
    <3> QED BY <1>2, <1>3, <1>4, <2>1, <3>1
  <2> QED BY <2>1, <2>2, <2>3, <2>4 DEF Shape
<1>6. ASSUME NEW w \in VertexIds, NEW i \in 1 .. Capacity, InnerSlot(new, w, i)
      PROVE  \/ w = s /\ i = 1
             \/ /\ InnerSlot(pages, w, i) /\ At(new, w, i) = At(pages, w, i)
                /\ new[w].data = pages[w].data
                /\ At(pages, w, i).value \in Alloc(pages) \ {pages[0].root}
  <2>1. CASE w = s
    <3>1. i \in 1 .. Len(new[s].data)
      BY <1>6, <2>1 DEF InnerSlot
    <3> QED BY <1>3, <2>1, <3>1
  <2>2. CASE w # s
    <3>1. InnerSlot(pages, w, i) /\ At(new, w, i) = At(pages, w, i) /\ new[w].data = pages[w].data
      BY <1>2, <1>4, <1>6, <2>2 DEF InnerSlot, At
    <3> QED BY <1>1, <3>1 DEF InnerOK
  <2> QED BY <2>1, <2>2
<1>7. ASSUME NEW w \in VertexIds, NEW i \in 1 .. Capacity
      PROVE  /\ LeafSlot(new, w, i) <=> LeafSlot(pages, w, i)
             /\ LeafSlot(pages, w, i) => At(new, w, i) = At(pages, w, i)
  <2>1. CASE w = s
    BY <1>2, <1>3, <2>1 DEF LeafSlot
  <2>2. CASE w # s
    BY <1>2, <1>4, <2>2 DEF LeafSlot, At
  <2> QED BY <2>1, <2>2
<1>8. InnerOK(new)
  <2> SUFFICES ASSUME NEW w \in VertexIds, NEW i \in 1 .. Capacity, InnerSlot(new, w, i)
               PROVE  /\ At(new, w, i).value \in Alloc(new) \ {new[0].root}
                      /\ i < Len(new[w].data) => At(new, w, i).key \in Keys
    BY DEF InnerOK
  <2>1. CASE w = s /\ i = 1
    <3>1. At(new, w, i).value \in Alloc(new) \ {new[0].root}
      BY <1>2, <1>3, <2>1
    <3>2. ~(i < Len(new[w].data))
      <4>1. Len(new[w].data) = 1
        BY <1>3, <2>1
      <4>2. i = 1
        BY <2>1
      <4> QED BY <4>1, <4>2
    <3> QED BY <3>1, <3>2
  <2>2. CASE ~(w = s /\ i = 1)
    <3>1. /\ InnerSlot(pages, w, i) /\ At(new, w, i) = At(pages, w, i)
          /\ new[w].data = pages[w].data
          /\ At(pages, w, i).value \in Alloc(pages) \ {pages[0].root}
      BY <1>6, <2>2
    <3>2. At(new, w, i).value \in Alloc(new) \ {new[0].root}
      BY <1>2, <1>3, <3>1
    <3>3. i < Len(new[w].data) => At(new, w, i).key \in Keys
      BY <1>1, <3>1 DEF InnerOK
    <3> QED BY <3>2, <3>3
  <2> QED BY <2>1, <2>2
<1>9. LeavesOK(new)
  BY <1>1, <1>7 DEF LeavesOK
<1>10. ChildOnce(new)
  BY <1>1, <1>3, <1>6 DEF ChildOnce
<1>11. EntryOnce(new)
  BY <1>1, <1>7 DEF EntryOnce
<1>12. Kept(new, es)
  <2> SUFFICES ASSUME NEW e \in Entry
               PROVE  e \in es <=> \E w \in VertexIds, i \in 1 .. Capacity :
                                     LeafSlot(new, w, i) /\ At(new, w, i) = e
    BY DEF Kept
  <2>1. e \in es <=> \E w \in VertexIds, i \in 1 .. Capacity :
                       LeafSlot(pages, w, i) /\ At(pages, w, i) = e
    BY DEF Kept
  <2> QED BY <1>7, <2>1
<1>13. ASSUME Len(pages[pages[0].root].data) = Capacity PROVE Splittable(new, s, 1)
  <2>1. new[At(new, s, 1).value].data = pages[pages[0].root].data
    BY <1>2, <1>3, <1>4
  <2>2. s \in Alloc(new) /\ new[0].total < MaxVertices
    BY <1>2 DEF IsGrown
  <2> QED BY <1>3, <1>13, <2>1, <2>2 DEF Splittable
<1> QED BY <1>5, <1>8, <1>9, <1>10, <1>11, <1>12, <1>13 DEF Tree

-----------------------------------------------------------------------------
(* The place BTree_insert_nonfull looks for: nothing above the key is to its *)
(* left, nothing else to its right.                                         *)
RightPlace(data, n, key, i) ==
  /\ \A j \in i .. n : key < data[j].key
  /\ i = 1 \/ ~(key < data[i - 1].key)

(* It finds one. *)
LEMMA PlaceFound ==
  ASSUME NEW data, NEW n \in Nat, NEW key
  PROVE  Place(data, n, key) \in 1 .. n + 1 /\ RightPlace(data, n, key, Place(data, n, key))
<1> DEFINE low == {j \in 0 .. n : j >= 1 /\ ~(key < data[j].key)}
           OK(i) == RightPlace(data, n, key, i)
<1>1. \E i \in 1 .. n + 1 : OK(i)
  <2>1. CASE low = {}
    <3>1. \A j \in 1 .. n : key < data[j].key
      BY <2>1
    <3>2. 1 \in 1 .. n + 1
      OBVIOUS
    <3> QED BY <3>1, <3>2 DEF RightPlace
  <2>2. CASE low # {}
    <3>1. low \in SUBSET (0 .. n)
      OBVIOUS
    <3> HIDE DEF low
    <3>2. PICK m \in low : \A j \in low : j <= m
      BY <2>2, <3>1, Greatest
    <3> USE DEF low
    <3>3. m + 1 \in 1 .. n + 1 /\ ~(key < data[m].key) /\ (m + 1) - 1 = m
      OBVIOUS
    <3>4. \A j \in m + 1 .. n : key < data[j].key
      <4> SUFFICES ASSUME NEW j \in m + 1 .. n, ~(key < data[j].key) PROVE FALSE
        OBVIOUS
      <4>1. j \in 0 .. n /\ j >= 1 /\ ~(j <= m)
        OBVIOUS
      <4>2. j \in low
        BY <4>1
      <4> HIDE DEF low
      <4> QED BY <3>2, <4>1, <4>2
    <3> HIDE DEF low
    <3>5. OK(m + 1)
      BY <3>3, <3>4 DEF OK, RightPlace
    <3> QED BY <3>3, <3>5
  <2> QED BY <2>1, <2>2
<1>2. Place(data, n, key) = CHOOSE i \in 1 .. n + 1 : OK(i)
  BY DEF Place, RightPlace
<1>3. Place(data, n, key) \in 1 .. n + 1 /\ OK(Place(data, n, key))
  <2> DEFINE S == 1 .. n + 1
  <2> HIDE DEF OK, S
  <2>1. \E i \in S : OK(i)
    BY <1>1 DEF S
  <2>2. (CHOOSE i \in S : OK(i)) \in S /\ OK(CHOOSE i \in S : OK(i))
    BY <2>1, Zenon
  <2> QED BY <1>2, <2>2 DEF S
<1> QED BY <1>3

-----------------------------------------------------------------------------
(* The items of a leaf change: an entry is put in or taken out.              *)

IsRefill(pages, new, u, items) ==
  /\ new \in [VertexIds -> Vertex]
  /\ \A w \in VertexIds : /\ new[w].root = pages[w].root /\ new[w].total = pages[w].total
                          /\ new[w].isleaf = pages[w].isleaf
  /\ \A w \in VertexIds \ {u} : new[w].data = pages[w].data
  /\ new[u].data = items

LEMMA RefillPages ==
  ASSUME NEW pages \in [VertexIds -> Vertex], NEW u \in VertexIds, NEW items \in Seq(Slot),
         NEW new, new = [pages EXCEPT ![u].data = items]
  PROVE  IsRefill(pages, new, u, items)
<1>1. new = [w \in VertexIds |-> IF w = u THEN Refilled(pages[u], items) ELSE pages[w]]
  BY DEF Refilled
<1>2. \A w \in VertexIds : pages[w] \in Vertex
  OBVIOUS
<1>3. /\ Refilled(pages[u], items) \in Vertex
      /\ Refilled(pages[u], items).isleaf = pages[u].isleaf /\ Refilled(pages[u], items).data = items
      /\ Refilled(pages[u], items).root = pages[u].root
      /\ Refilled(pages[u], items).total = pages[u].total
  BY <1>2, RefilledVertex
<1> QED BY <1>1, <1>2, <1>3 DEF IsRefill

(* The slots of the other leaves stay as they are. *)
OtherLeaves(pages, new, u, items) ==
  \A w \in VertexIds, i \in 1 .. Capacity :
    /\ w # u => (LeafSlot(new, w, i) <=> LeafSlot(pages, w, i))
    /\ w # u => At(new, w, i) = At(pages, w, i)
    /\ LeafSlot(new, u, i) <=> i \in 1 .. Len(items)

(* Nothing above the leaf changes. *)
LEMMA RefillTree ==
  ASSUME NEW pages, Tree(pages), NEW u \in VertexIds, u \in Alloc(pages), pages[u].isleaf,
         NEW items, Len(items) <= Capacity, NEW new, IsRefill(pages, new, u, items)
  PROVE  /\ Shape(new) /\ InnerOK(new) /\ ChildOnce(new) /\ Alloc(new) = Alloc(pages)
         /\ OtherLeaves(pages, new, u, items)
<1>1. Shape(pages) /\ InnerOK(pages) /\ ChildOnce(pages)
  BY DEF Tree
<1>2. 0 \in VertexIds
  OBVIOUS
<1>3. Alloc(new) = Alloc(pages) /\ new[0].root = pages[0].root /\ new[0].total = pages[0].total
  BY <1>2 DEF Alloc, IsRefill
<1>4. \A w \in VertexIds : w # u => new[w].data = pages[w].data
  BY DEF IsRefill
<1>5. \A w \in VertexIds : new[w].isleaf = pages[w].isleaf
  BY DEF IsRefill
<1>6. \A w \in Alloc(pages) : w \in VertexIds
  <2>1. pages[0].total \in 0 .. MaxVertices
    BY <1>1, <1>2 DEF Shape, Vertex
  <2> QED BY <2>1 DEF Alloc
<1>7. Shape(new)
  <2>1. new \in [VertexIds -> Vertex]
    BY DEF IsRefill
  <2>2. ASSUME NEW w \in VertexIds PROVE Len(new[w].data) <= Capacity
    <3>1. CASE w = u
      BY <3>1 DEF IsRefill
    <3>2. CASE w # u
      BY <1>1, <1>4, <3>2 DEF Shape
    <3> QED BY <3>1, <3>2
  <2>3. ASSUME NEW w \in Alloc(new), ~new[w].isleaf PROVE Len(new[w].data) >= 1
    <3>1. w \in VertexIds /\ w \in Alloc(pages)
      BY <1>3, <1>6
    <3>2. ~pages[w].isleaf /\ w # u /\ new[w].data = pages[w].data
      BY <1>4, <1>5, <2>3, <3>1
    <3> QED BY <1>1, <3>1, <3>2 DEF Shape
  <2>4. new[0].total >= 1 /\ new[0].root \in Alloc(new) /\ new[0].isleaf
    BY <1>1, <1>2, <1>3, <1>5 DEF Shape
  <2> QED BY <2>1, <2>2, <2>3, <2>4 DEF Shape
<1>8. ASSUME NEW w \in VertexIds, NEW i \in 1 .. Capacity
      PROVE  /\ InnerSlot(new, w, i) <=> InnerSlot(pages, w, i)
             /\ InnerSlot(pages, w, i) => /\ At(new, w, i) = At(pages, w, i)
                                          /\ new[w].data = pages[w].data
  <2>1. CASE w = u
    BY <1>5, <2>1 DEF InnerSlot
  <2>2. CASE w # u
    BY <1>3, <1>4, <1>5, <2>2 DEF InnerSlot, At
  <2> QED BY <2>1, <2>2
<1>9. InnerOK(new)
  <2> SUFFICES ASSUME NEW w \in VertexIds, NEW i \in 1 .. Capacity, InnerSlot(new, w, i)
               PROVE  /\ At(new, w, i).value \in Alloc(new) \ {new[0].root}
                      /\ i < Len(new[w].data) => At(new, w, i).key \in Keys
    BY DEF InnerOK
  <2>1. InnerSlot(pages, w, i) /\ At(new, w, i) = At(pages, w, i) /\ new[w].data = pages[w].data
    BY <1>8
  <2> QED BY <1>1, <1>3, <2>1 DEF InnerOK
<1>10. ChildOnce(new)
  BY <1>1, <1>8 DEF ChildOnce
<1>11. ASSUME NEW w \in VertexIds, NEW i \in 1 .. Capacity
       PROVE  /\ w # u => (LeafSlot(new, w, i) <=> LeafSlot(pages, w, i))
              /\ w # u => At(new, w, i) = At(pages, w, i)
              /\ LeafSlot(new, u, i) <=> i \in 1 .. Len(items)
  <2>1. new[u].data = items /\ new[u].isleaf
    BY DEF IsRefill
  <2> QED BY <1>3, <1>4, <1>5, <2>1 DEF LeafSlot, At
<1> QED BY <1>3, <1>7, <1>9, <1>10, <1>11 DEF OtherLeaves

(* An entry the leaves do not hold is put in a leaf. *)
LEMMA InsertTree ==
  ASSUME NEW pages, Tree(pages), NEW u \in VertexIds, u \in Alloc(pages), pages[u].isleaf,
         Len(pages[u].data) < Capacity, NEW es, Kept(pages, es), NEW e \in Entry, e \notin es,
         NEW p \in 1 .. Len(pages[u].data) + 1,
         NEW new, new = [pages EXCEPT ![u].data = Inserted(pages[u].data, p, e)]
  PROVE  Tree(new) /\ Kept(new, es \cup {e})
<1> DEFINE items == Inserted(pages[u].data, p, e)
           n     == Len(pages[u].data)
<1>1. LeavesOK(pages) /\ EntryOnce(pages) /\ pages \in [VertexIds -> Vertex]
  BY DEF Tree, Shape
<1>2. pages[u].data \in Seq(Slot) /\ e \in Slot
  BY <1>1 DEF Vertex, Entry, Slot
<1>3. n \in Nat /\ n < Capacity
  BY <1>2, LenProperties
<1>4. /\ items \in Seq(Slot) /\ Len(items) = n + 1
      /\ \A k \in 1 .. n + 1 :
           items[k] = IF k < p THEN At(pages, u, k) ELSE IF k = p THEN e ELSE At(pages, u, k - 1)
  <2> DEFINE data == pages[u].data
  <2>1. data \in Seq(Slot) /\ p \in 1 .. Len(data) + 1 /\ e \in Slot
    BY <1>2
  <2> HIDE DEF data
  <2>2. Inserted(data, p, e) \in Seq(Slot) /\ IsInserted(data, p, e, Inserted(data, p, e))
    BY <2>1, InsertedAt
  <2> QED BY <2>2 DEF data, At, IsInserted
<1> HIDE DEF items
<1>5. IsRefill(pages, new, u, items)
  BY <1>1, <1>4, RefillPages DEF items
<1> HIDE DEF n
<1>6. n \in Nat /\ n < Capacity /\ p \in 1 .. n + 1 /\ n + 1 \in 1 .. Capacity
  BY <1>3 DEF n
<1>7. /\ Shape(new) /\ InnerOK(new) /\ ChildOnce(new)
      /\ \A w \in VertexIds, i \in 1 .. Capacity :
           /\ w # u => (LeafSlot(new, w, i) <=> LeafSlot(pages, w, i))
           /\ w # u => At(new, w, i) = At(pages, w, i)
           /\ LeafSlot(new, u, i) <=> i \in 1 .. Len(items)
  <2>1. Len(items) <= Capacity
    BY <1>4, <1>6
  <2>2. Shape(new) /\ InnerOK(new) /\ ChildOnce(new) /\ OtherLeaves(pages, new, u, items)
    BY <1>5, <2>1, RefillTree
  <2> QED BY <2>2 DEF OtherLeaves
<1>8. \A i \in 1 .. Capacity : LeafSlot(pages, u, i) <=> i \in 1 .. n
  BY DEF LeafSlot, n
<1>9. \A k \in 1 .. n + 1 : At(new, u, k) = items[k]
  BY <1>5 DEF At, IsRefill
<1> DEFINE old(i) == IF i < p THEN i ELSE i - 1
<1>10. ASSUME NEW w \in VertexIds, NEW i \in 1 .. Capacity, LeafSlot(new, w, i)
       PROVE  \/ w = u /\ i = p /\ At(new, w, i) = e
              \/ /\ w = u => i # p
                 /\ (IF w = u THEN old(i) ELSE i) \in 1 .. Capacity
                 /\ LeafSlot(pages, w, IF w = u THEN old(i) ELSE i)
                 /\ At(new, w, i) = At(pages, w, IF w = u THEN old(i) ELSE i)
  <2>1. CASE w # u
    BY <1>7, <1>10, <2>1
  <2>2. CASE w = u
    <3>1. i \in 1 .. n + 1
      BY <1>4, <1>7, <1>10, <2>2
    <3>2. At(new, u, i) = IF i < p THEN At(pages, u, i) ELSE IF i = p THEN e ELSE At(pages, u, i - 1)
      BY <1>4, <1>9, <3>1
    <3>3. i # p => old(i) \in 1 .. n /\ old(i) \in 1 .. Capacity
      BY <1>6, <3>1
    <3>4. i # p => LeafSlot(pages, u, old(i))
      BY <1>8, <3>3
    <3>5. i # p => At(new, u, i) = At(pages, u, old(i))
      BY <1>6, <3>1, <3>2
    <3> HIDE DEF old
    <3> QED BY <1>6, <2>2, <3>2, <3>3, <3>4, <3>5
  <2> QED BY <2>1, <2>2
<1>11. ASSUME NEW w \in VertexIds, NEW i \in 1 .. Capacity, LeafSlot(pages, w, i)
       PROVE  At(pages, w, i) \in es
  BY <1>1, <1>11 DEF LeavesOK, Kept
<1>12. LeavesOK(new)
  BY <1>1, <1>10 DEF LeavesOK
<1>13. ASSUME NEW w \in VertexIds, NEW i \in 1 .. Capacity, LeafSlot(new, w, i), At(new, w, i) = e
       PROVE  w = u /\ i = p
  <2> DEFINE k == IF w = u THEN old(i) ELSE i
  <2> SUFFICES ASSUME ~(w = u /\ i = p) PROVE FALSE
    OBVIOUS
  <2>1. k \in 1 .. Capacity /\ LeafSlot(pages, w, k) /\ At(new, w, i) = At(pages, w, k)
    BY <1>10, <1>13
  <2> HIDE DEF k
  <2> QED BY <1>11, <1>13, <2>1
<1>14. EntryOnce(new)
  <2> SUFFICES ASSUME NEW w \in VertexIds, NEW x \in VertexIds,
                      NEW i \in 1 .. Capacity, NEW j \in 1 .. Capacity,
                      LeafSlot(new, w, i), LeafSlot(new, x, j), At(new, w, i) = At(new, x, j)
               PROVE  w = x /\ i = j
    BY DEF EntryOnce
  <2>1. CASE w = u /\ i = p /\ At(new, w, i) = e
    <3>1. At(new, x, j) = e
      BY <2>1
    <3>2. x = u /\ j = p
      BY <1>13, <3>1
    <3> QED BY <2>1, <3>2
  <2>2. CASE x = u /\ j = p /\ At(new, x, j) = e
    <3>1. At(new, w, i) = e
      BY <2>2
    <3>2. w = u /\ i = p
      BY <1>13, <3>1
    <3> QED BY <2>2, <3>2
  <2>3. CASE ~(w = u /\ i = p /\ At(new, w, i) = e) /\ ~(x = u /\ j = p /\ At(new, x, j) = e)
    <3>1. /\ w = u => i # p
          /\ (IF w = u THEN old(i) ELSE i) \in 1 .. Capacity
          /\ LeafSlot(pages, w, IF w = u THEN old(i) ELSE i)
          /\ At(new, w, i) = At(pages, w, IF w = u THEN old(i) ELSE i)
      BY <1>10, <2>3
    <3>2. /\ x = u => j # p
          /\ (IF x = u THEN old(j) ELSE j) \in 1 .. Capacity
          /\ LeafSlot(pages, x, IF x = u THEN old(j) ELSE j)
          /\ At(new, x, j) = At(pages, x, IF x = u THEN old(j) ELSE j)
      BY <1>10, <2>3
    <3>3. w = x /\ (IF w = u THEN old(i) ELSE i) = (IF x = u THEN old(j) ELSE j)
      <4> HIDE DEF old
      <4>1. PICK k \in 1 .. Capacity : /\ k = IF w = u THEN old(i) ELSE i
                                       /\ LeafSlot(pages, w, k) /\ At(new, w, i) = At(pages, w, k)
        BY <3>1
      <4>2. PICK l \in 1 .. Capacity : /\ l = IF x = u THEN old(j) ELSE j
                                       /\ LeafSlot(pages, x, l) /\ At(new, x, j) = At(pages, x, l)
        BY <3>2
      <4>3. w = x /\ k = l
        <5>1. At(pages, w, k) = At(pages, x, l) /\ EntryOnce(pages)
          BY <1>1, <4>1, <4>2
        <5> QED BY <4>1, <4>2, <5>1 DEF EntryOnce
      <4> QED BY <4>1, <4>2, <4>3
    <3> QED BY <1>6, <3>1, <3>2, <3>3
  <2> QED BY <2>1, <2>2, <2>3
<1>15. Kept(new, es \cup {e})
  <2> SUFFICES ASSUME NEW x \in Entry
               PROVE  x \in es \cup {e} <=> \E w \in VertexIds, i \in 1 .. Capacity :
                                              LeafSlot(new, w, i) /\ At(new, w, i) = x
    BY DEF Kept
  <2>1. ASSUME NEW w \in VertexIds, NEW i \in 1 .. Capacity, LeafSlot(new, w, i), At(new, w, i) = x
        PROVE  x \in es \cup {e}
    BY <1>10, <1>11, <2>1
  <2>2. ASSUME x = e
        PROVE  \E w \in VertexIds, i \in 1 .. Capacity : LeafSlot(new, w, i) /\ At(new, w, i) = x
    <3>1. p \in 1 .. Capacity /\ p \in 1 .. Len(items)
      BY <1>4, <1>6
    <3>2. LeafSlot(new, u, p)
      BY <1>7, <3>1
    <3>3. At(new, u, p) = e
      <4>1. At(new, u, p) = items[p]
        BY <1>6, <1>9
      <4>2. items[p] = e
        BY <1>4, <1>6
      <4> QED BY <4>1, <4>2
    <3> QED BY <2>2, <3>1, <3>2, <3>3
  <2>3. ASSUME x \in es
        PROVE  \E w \in VertexIds, i \in 1 .. Capacity : LeafSlot(new, w, i) /\ At(new, w, i) = x
    <3>1. PICK w \in VertexIds, i \in 1 .. Capacity : LeafSlot(pages, w, i) /\ At(pages, w, i) = x
      BY <2>3 DEF Kept
    <3>2. CASE w # u
      BY <1>7, <3>1, <3>2
    <3>3. CASE w = u
      <4> DEFINE j == IF i < p THEN i ELSE i + 1
      <4>1. i \in 1 .. n
        BY <1>8, <3>1, <3>3
      <4>2. j \in 1 .. n + 1 /\ j \in 1 .. Capacity /\ j # p /\ (IF j < p THEN j ELSE j - 1) = i
        BY <1>6, <4>1
      <4> HIDE DEF j
      <4>3. At(new, u, j) = At(pages, u, i)
        BY <1>4, <1>9, <4>2
      <4>4. LeafSlot(new, u, j)
        BY <1>4, <1>7, <4>2
      <4> QED BY <3>1, <3>3, <4>2, <4>3, <4>4
    <3> QED BY <3>2, <3>3
  <2> QED BY <2>1, <2>2, <2>3
<1> QED BY <1>7, <1>12, <1>14, <1>15 DEF Tree

(* The entry in a slot of a leaf is taken out. *)
TakenOut(pages, u, p) == [pages EXCEPT ![u].data = Without(pages[u].data, p)]

LEMMA RemoveTree ==
  ASSUME NEW pages, Tree(pages), NEW u \in VertexIds, u \in Alloc(pages), pages[u].isleaf,
         NEW es, Kept(pages, es), NEW p \in 1 .. Len(pages[u].data),
         NEW e, e = At(pages, u, p),
         NEW new, new = TakenOut(pages, u, p)
  PROVE  Tree(new) /\ Kept(new, es \ {e})
<1> DEFINE items == Without(pages[u].data, p)
           n     == Len(pages[u].data)
<1>1. /\ LeavesOK(pages) /\ EntryOnce(pages) /\ pages \in [VertexIds -> Vertex]
      /\ Len(pages[u].data) <= Capacity
  BY DEF Tree, Shape
<1>2. pages[u].data \in Seq(Slot)
  BY <1>1 DEF Vertex
<1>3. /\ items \in Seq(Slot) /\ Len(items) = n - 1
      /\ \A k \in 1 .. n - 1 : items[k] = IF k < p THEN At(pages, u, k) ELSE At(pages, u, k + 1)
  <2> DEFINE data == pages[u].data
  <2>1. data \in Seq(Slot) /\ p \in 1 .. Len(data)
    BY <1>2
  <2> HIDE DEF data
  <2>2. Without(data, p) \in Seq(Slot) /\ IsWithout(data, p, Without(data, p))
    BY <2>1, WithoutAt
  <2> QED BY <2>2 DEF data, At, IsWithout
<1> HIDE DEF items
<1>4. IsRefill(pages, new, u, items)
  BY <1>1, <1>3, RefillPages DEF items, TakenOut
<1>5. n \in Nat
  BY <1>2, LenProperties
<1> HIDE DEF n
<1>6. n \in Nat /\ n <= Capacity /\ p \in 1 .. n
  BY <1>1, <1>5 DEF n
<1>7. /\ Shape(new) /\ InnerOK(new) /\ ChildOnce(new)
      /\ \A w \in VertexIds, i \in 1 .. Capacity :
           /\ w # u => (LeafSlot(new, w, i) <=> LeafSlot(pages, w, i))
           /\ w # u => At(new, w, i) = At(pages, w, i)
           /\ LeafSlot(new, u, i) <=> i \in 1 .. Len(items)
  <2>1. Len(items) <= Capacity
    BY <1>3, <1>6
  <2>2. Shape(new) /\ InnerOK(new) /\ ChildOnce(new) /\ OtherLeaves(pages, new, u, items)
    BY <1>4, <2>1, RefillTree
  <2> QED BY <2>2 DEF OtherLeaves
<1>8. \A i \in 1 .. Capacity : LeafSlot(pages, u, i) <=> i \in 1 .. n
  BY DEF LeafSlot, n
<1>9. \A k \in 1 .. n - 1 : At(new, u, k) = items[k]
  BY <1>4 DEF At, IsRefill
<1> DEFINE old(w, i) == IF w = u /\ i >= p THEN i + 1 ELSE i
<1>10. ASSUME NEW w \in VertexIds, NEW i \in 1 .. Capacity, LeafSlot(new, w, i)
       PROVE  /\ old(w, i) \in 1 .. Capacity /\ LeafSlot(pages, w, old(w, i))
              /\ At(new, w, i) = At(pages, w, old(w, i))
              /\ ~(w = u /\ old(w, i) = p)
  <2>1. CASE w # u
    BY <1>7, <1>10, <2>1
  <2>2. CASE w = u
    <3>1. i \in 1 .. n - 1
      BY <1>3, <1>7, <1>10, <2>2
    <3>2. At(new, u, i) = IF i < p THEN At(pages, u, i) ELSE At(pages, u, i + 1)
      BY <1>3, <1>9, <3>1
    <3>3. old(w, i) \in 1 .. n /\ old(w, i) \in 1 .. Capacity /\ old(w, i) # p
      BY <1>6, <2>2, <3>1
    <3>4. LeafSlot(pages, u, old(w, i))
      BY <1>8, <3>3
    <3>5. At(new, u, i) = At(pages, u, old(w, i))
      BY <1>6, <2>2, <3>1, <3>2
    <3> HIDE DEF old
    <3> QED BY <2>2, <3>3, <3>4, <3>5
  <2> QED BY <2>1, <2>2
<1>11. \A i, j \in Nat, w \in VertexIds : old(w, i) = old(w, j) => i = j
  BY <1>6
<1> HIDE DEF old
<1>12. LeavesOK(new)
  BY <1>1, <1>10 DEF LeavesOK
<1>13. EntryOnce(new)
  <2> SUFFICES ASSUME NEW w \in VertexIds, NEW x \in VertexIds,
                      NEW i \in 1 .. Capacity, NEW j \in 1 .. Capacity,
                      LeafSlot(new, w, i), LeafSlot(new, x, j), At(new, w, i) = At(new, x, j)
               PROVE  w = x /\ i = j
    BY DEF EntryOnce
  <2>1. /\ old(w, i) \in 1 .. Capacity /\ LeafSlot(pages, w, old(w, i))
        /\ At(new, w, i) = At(pages, w, old(w, i))
    BY <1>10
  <2>2. /\ old(x, j) \in 1 .. Capacity /\ LeafSlot(pages, x, old(x, j))
        /\ At(new, x, j) = At(pages, x, old(x, j))
    BY <1>10
  <2>3. w = x /\ old(w, i) = old(x, j)
    BY <1>1, <2>1, <2>2 DEF EntryOnce
  <2> QED BY <1>11, <2>3
<1>14. Kept(new, es \ {e})
  <2> SUFFICES ASSUME NEW x \in Entry
               PROVE  x \in es \ {e} <=> \E w \in VertexIds, i \in 1 .. Capacity :
                                           LeafSlot(new, w, i) /\ At(new, w, i) = x
    BY DEF Kept
  <2>1. p \in 1 .. Capacity /\ LeafSlot(pages, u, p)
    BY <1>6, <1>8
  <2>2. ASSUME NEW w \in VertexIds, NEW i \in 1 .. Capacity, LeafSlot(new, w, i), At(new, w, i) = x
        PROVE  x \in es \ {e}
    <3>1. /\ old(w, i) \in 1 .. Capacity /\ LeafSlot(pages, w, old(w, i))
          /\ x = At(pages, w, old(w, i)) /\ ~(w = u /\ old(w, i) = p)
      BY <1>10, <2>2
    <3>2. x # e
      BY <1>1, <2>1, <3>1 DEF EntryOnce
    <3> QED BY <3>1, <3>2 DEF Kept
  <2>3. ASSUME x \in es, x # e
        PROVE  \E w \in VertexIds, i \in 1 .. Capacity : LeafSlot(new, w, i) /\ At(new, w, i) = x
    <3>1. PICK w \in VertexIds, i \in 1 .. Capacity : LeafSlot(pages, w, i) /\ At(pages, w, i) = x
      BY <2>3 DEF Kept
    <3>2. CASE w # u
      BY <1>7, <3>1, <3>2
    <3>3. CASE w = u
      <4> DEFINE j == IF i < p THEN i ELSE i - 1
      <4>1. i \in 1 .. n /\ i # p
        BY <1>8, <2>3, <3>1, <3>3
      <4>2. /\ j \in 1 .. n - 1 /\ j \in 1 .. Capacity
            /\ (IF j < p THEN j ELSE j + 1) = i
        BY <1>6, <4>1
      <4> HIDE DEF j
      <4>3. At(new, u, j) = At(pages, u, i)
        BY <1>3, <1>9, <4>2
      <4>4. LeafSlot(new, u, j)
        BY <1>3, <1>7, <4>2
      <4> QED BY <3>1, <3>3, <4>2, <4>3, <4>4
    <3> QED BY <3>2, <3>3
  <2> QED BY <2>2, <2>3
<1> QED BY <1>7, <1>12, <1>13, <1>14 DEF Tree

-----------------------------------------------------------------------------
(* The invariant holds initially and after every step. *)

(* A call is known by its name. *)
LEMMA Calls ==
  ASSUME call \in {Idle} \cup Inserts \cup Searches
  PROVE  /\ call.op = "insert" => call \in Inserts
         /\ call.op \in {"search", "done"} => call \in Searches
BY DEF Idle, Inserts, Searches

(* A vertex of the tree has at least one item, if it has a child. *)
LEMMA VertexFacts ==
  ASSUME NEW pages, Shape(pages), NEW u, u \in Alloc(pages)
  PROVE  /\ u \in VertexIds /\ pages \in [VertexIds -> Vertex]
         /\ pages[u].data \in Seq(Slot) /\ Len(pages[u].data) \in 0 .. Capacity
         /\ ~pages[u].isleaf => Len(pages[u].data) \in 1 .. Capacity
<1>1. pages \in [VertexIds -> Vertex] /\ 0 \in VertexIds
  BY DEF Shape
<1>2. pages[0].total \in 0 .. MaxVertices
  BY <1>1 DEF Vertex
<1>3. u \in VertexIds
  BY <1>2 DEF Alloc
<1>4. pages[u].data \in Seq(Slot)
  BY <1>1, <1>3 DEF Vertex
<1>5. Len(pages[u].data) \in Nat
  BY <1>4, LenProperties
<1>6. Len(pages[u].data) <= Capacity /\ (~pages[u].isleaf => Len(pages[u].data) >= 1)
  BY <1>3 DEF Shape
<1> QED BY <1>1, <1>3, <1>4, <1>5, <1>6

(* Init *)
LEMMA InitInv == Init => IInv
<1> SUFFICES ASSUME Init PROVE IInv
  OBVIOUS
<1>1. page = [u \in VertexIds |-> IF u = 0 THEN EmptyRoot ELSE Unwritten]
  BY DEF Init
<1>2. EmptyRoot \in Vertex /\ Unwritten \in Vertex
  BY DEF EmptyRoot, Unwritten, Vertex
<1>3. /\ page \in [VertexIds -> Vertex] /\ 0 \in VertexIds
      /\ page[0].total = 1 /\ page[0].root = 0 /\ page[0].isleaf
      /\ \A u \in VertexIds : Len(page[u].data) = 0
  BY <1>1, <1>2 DEF EmptyRoot, Unwritten
<1>4. Alloc(page) = {0}
  BY <1>3 DEF Alloc
<1>5. \A u, i : ~InnerSlot(page, u, i) /\ ~LeafSlot(page, u, i)
  BY <1>3, <1>4 DEF InnerSlot, LeafSlot
<1>6. Tree(page)
  <2>1. Shape(page)
    <3>1. \A u \in VertexIds : Len(page[u].data) <= Capacity
      BY <1>3
    <3> QED BY <1>3, <1>4, <3>1 DEF Shape
  <2> QED BY <1>5, <2>1 DEF Tree, InnerOK, LeavesOK, ChildOnce, EntryOnce
<1>7. Kept(page, entries)
  BY <1>5 DEF Kept, Init
<1>8. call = Idle /\ call.op = "idle"
  BY DEF Init, Idle
<1>9. InsertOK /\ SearchOK
  BY <1>8 DEF InsertOK, SearchOK
<1>10. LoadOK
  <2>1. PICK n \in TableSizes : load = [next |-> 0, size |-> n]
    BY DEF Init
  <2>2. n \in Nat
    OBVIOUS
  <2> QED BY <1>8, <2>1, <2>2 DEF LoadOK, Loading, Init
<1> QED BY <1>6, <1>7, <1>8, <1>9, <1>10 DEF IInv, Init

(* createIndex *)
LEMMA CreateStep ==
  ASSUME IInv, NEW n \in Recreations, createIndex(n)
  PROVE  IInv'
<1>1. page' = [page EXCEPT ![0] = EmptyRoot] /\ Shape(page)
  BY DEF createIndex, IInv, Tree
<1>2. EmptyRoot \in Vertex /\ page \in [VertexIds -> Vertex] /\ 0 \in VertexIds
  <2>1. EmptyRoot \in Vertex
    BY DEF EmptyRoot, Vertex
  <2> QED BY <1>1, <2>1 DEF Shape
<1>3. /\ page' \in [VertexIds -> Vertex]
      /\ page'[0].total = 1 /\ page'[0].root = 0 /\ page'[0].isleaf
      /\ Len(page'[0].data) = 0
  BY <1>1, <1>2 DEF EmptyRoot
<1>4. Alloc(page') = {0}
  BY <1>3 DEF Alloc
<1>5. \A u, i : ~InnerSlot(page', u, i) /\ ~LeafSlot(page', u, i)
  BY <1>3, <1>4 DEF InnerSlot, LeafSlot
<1>6. Tree(page')
  <2>1. Shape(page')
    <3>1. ASSUME NEW u \in VertexIds PROVE Len(page'[u].data) <= Capacity
      <4>1. CASE u = 0
        BY <1>3, <4>1
      <4>2. CASE u # 0
        BY <1>1, <1>2, <4>2 DEF Shape
      <4> QED BY <4>1, <4>2
    <3> QED BY <1>3, <1>4, <3>1 DEF Shape
  <2> QED BY <1>5, <2>1 DEF Tree, InnerOK, LeavesOK, ChildOnce, EntryOnce
<1>7. Kept(page', entries')
  BY <1>5 DEF Kept, createIndex
<1>8. call' = Idle /\ call'.op = "idle"
  BY DEF createIndex, Ready, Idle
<1>9. InsertOK' /\ SearchOK'
  BY <1>8 DEF InsertOK, SearchOK
<1>10. LoadOK'
  <2>1. load' = [next |-> 0, size |-> n] /\ entries' = {} /\ n \in Nat
    BY DEF createIndex
  <2> QED BY <1>8, <2>1 DEF LoadOK, Loading
<1>11. entries' \subseteq Entry /\ skewed' \in BOOLEAN
  BY DEF createIndex
<1> QED BY <1>6, <1>7, <1>8, <1>9, <1>10, <1>11 DEF IInv

(* addKey *)
Adds(r, item) ==
  /\ Room /\ entries' = entries
  /\ LET root  == page[0].root
         grown == GrownRoot(page)
         s     == grown[0].root
     IN  IF Full(page[root])
         THEN /\ page' = BTree_split_child(grown, s, 1)
              /\ skewed' = (skewed \/ Skews(grown, s, 1))
              /\ call' = [op |-> "insert", u |-> s, item |-> item]
         ELSE /\ page' = page /\ skewed' = skewed
              /\ call' = [op |-> "insert", u |-> root, item |-> item]

(* The item it adds is told apart from those that are there. *)
LEMMA AddKeyItem ==
  ASSUME NEW r \in Rows, addKey(r)
  PROVE  \E item \in Entry : item \notin entries /\ Adds(r, item)
<1>1. PICK copy \in FreeCopies(r) :
        LET root  == page[0].root
            grown == GrownRoot(page)
            s     == grown[0].root
        IN  IF Full(page[root])
            THEN /\ page' = BTree_split_child(grown, s, 1)
                 /\ skewed' = (skewed \/ Skews(grown, s, 1))
                 /\ call' = [op |-> "insert", u |-> s, item |-> EntryOf(r, copy)]
            ELSE /\ call' = [op |-> "insert", u |-> root, item |-> EntryOf(r, copy)]
                 /\ UNCHANGED <<page, skewed>>
  BY DEF addKey
<1>2. copy \in CopiesOf[r] /\ EntryOf(r, copy) \notin entries
  BY DEF FreeCopies
<1>3. EntryOf(r, copy) \in Entry
  <2>1. copy \in Nat /\ KeyOf[r] \in Keys
    BY <1>2
  <2> QED BY <2>1 DEF EntryOf, Entry
<1>4. Adds(r, EntryOf(r, copy))
  <2>1. Room /\ entries' = entries
    BY DEF addKey
  <2> QED BY <1>1, <2>1 DEF Adds
<1> QED BY <1>2, <1>3, <1>4

LEMMA AddKeyStep ==
  ASSUME IInv, NEW r \in Rows, addKey(r)
  PROVE  /\ Tree(page') /\ Kept(page', entries') /\ entries' \subseteq Entry
         /\ skewed' \in BOOLEAN /\ call' \in Inserts /\ InsertOK' /\ SearchOK'
         /\ call'.op = "insert"
<1> DEFINE root  == page[0].root
           grown == GrownRoot(page)
           s     == page[0].total
           new   == BTree_split_child(grown, s, 1)
<1>1. Tree(page) /\ Kept(page, entries) /\ Shape(page) /\ entries \subseteq Entry /\ skewed \in BOOLEAN
  BY DEF IInv, Tree
<1>2. root \in Alloc(page) /\ root \in VertexIds
  <2>1. root \in Alloc(page)
    BY <1>1 DEF Shape
  <2> QED BY <1>1, <2>1, VertexFacts
<1>2a. PICK item : item \in Entry /\ item \notin entries /\ Adds(r, item)
  BY AddKeyItem
<1>3. item \in Entry
  BY <1>2a
<1>4. entries' = entries
  BY <1>2a DEF Adds
<1>5. ASSUME NEW u \in VertexIds PROVE [op |-> "insert", u |-> u, item |-> item] \in Inserts
  BY <1>3 DEF Inserts
<1>6. CASE ~Full(page[root])
  <2>1. page' = page /\ skewed' = skewed /\ call' = [op |-> "insert", u |-> root, item |-> item]
    BY <1>2a, <1>6 DEF Adds
  <2>2. call' \in Inserts /\ call'.op = "insert" /\ call'.u = root /\ call'.item = item
    BY <1>2, <1>5, <2>1
  <2>3. Len(page[root].data) < Capacity
    <3>1. Len(page[root].data) \in 0 .. Capacity
      BY <1>1, <1>2, VertexFacts
    <3> QED BY <1>6, <3>1 DEF Full, Size
  <2>4. InsertOK' /\ SearchOK'
    BY <1>2, <1>2a, <1>4, <2>1, <2>2, <2>3 DEF InsertOK, SearchOK
  <2> QED BY <1>1, <1>4, <2>1, <2>2, <2>4
<1>7. CASE Full(page[root])
  <2>1. s + 1 < MaxVertices
    <3>1. s \in 0 .. MaxVertices
      BY <1>1 DEF Shape, Vertex
    <3> QED BY <3>1 DEF addKey, Room
  <2>2. IsGrown(page, grown, s)
    BY <1>1, <2>1, GrownPages
  <2>3. grown[0].root = s
    BY <2>2 DEF IsGrown
  <2>4. Tree(grown) /\ Kept(grown, entries) /\ Splittable(grown, s, 1)
    <3>1. Len(page[root].data) = Capacity
      BY <1>7 DEF Full, Size
    <3> HIDE DEF grown
    <3> QED BY <1>1, <2>1, <2>2, <3>1, GrownTree
  <2>5. /\ page' = new /\ skewed' = (skewed \/ Skews(grown, s, 1))
        /\ call' = [op |-> "insert", u |-> s, item |-> item]
    BY <1>2a, <1>7, <2>3 DEF Adds
  <2> HIDE DEF grown
  <2>6. PICK y, z : y = At(grown, s, 1).value /\ z = grown[0].total
    OBVIOUS
  <2>7. Shape(grown) /\ InnerOK(grown) /\ LeavesOK(grown)
    BY <2>4 DEF Tree
  <2>8. IsSplit(grown, new, s, 1, y, z)
    BY <2>4, <2>6, <2>7, SplitPages
  <2>9. Tree(new) /\ Kept(new, entries)
    <3> HIDE DEF new
    <3> QED BY <2>4, <2>6, <2>8, SplitTree
  <2>10. s \in VertexIds /\ s \in Alloc(grown) /\ z \in VertexIds
    BY <2>4, <2>6, <2>7, SplitPlaces
  <2>11. s \in Alloc(new)
    <3>1. s \in 0 .. z - 1 /\ z \in Nat
      BY <2>6, <2>10 DEF Alloc
    <3>2. new[0].total = z + 1
      BY <2>8 DEF IsSplit
    <3> QED BY <3>1, <3>2 DEF Alloc
  <2>12. Len(new[s].data) < Capacity
    <3>1. Len(grown[s].data) = 1
      BY <2>2 DEF IsGrown
    <3>2. Len(new[s].data) = Len(grown[s].data) + 1
      BY <2>8 DEF IsSplit, OneMore
    <3>3. Len(new[s].data) = 2
      BY <3>1, <3>2
    <3> HIDE DEF new
    <3> QED BY <3>3
  <2> HIDE DEF new
  <2>13. call' \in Inserts /\ call'.op = "insert" /\ call'.u = s /\ call'.item = item
    BY <1>5, <2>5, <2>10
  <2>14. InsertOK' /\ SearchOK'
    BY <1>2a, <1>4, <2>5, <2>11, <2>12, <2>13 DEF InsertOK, SearchOK
  <2>15. skewed' \in BOOLEAN
    BY <2>5 DEF Skews
  <2> QED BY <1>1, <1>4, <2>5, <2>9, <2>13, <2>14, <2>15
<1> QED BY <1>6, <1>7

(* The loop of createIndex *)
LEMMA LoadRowStep == ASSUME IInv, LoadRow PROVE IInv'
<1>1. /\ Loading /\ addKey(load.next) /\ load' = [load EXCEPT !.next = @ + 1]
      /\ LoadOK
  BY DEF LoadRow, IInv
<1>2. load \in [next : Nat, size : TableSizes \cup Recreations] /\ load.next < load.size
  BY <1>1 DEF LoadOK, Loading
<1>3. load.next \in Nat /\ load.size \in Nat /\ 0 .. load.size - 1 \subseteq Rows
  BY <1>2
<1>4. load.next \in Rows
  BY <1>2, <1>3
<1>5. /\ Tree(page') /\ Kept(page', entries') /\ entries' \subseteq Entry
      /\ skewed' \in BOOLEAN /\ call' \in Inserts /\ InsertOK' /\ SearchOK'
      /\ call'.op = "insert"
  BY <1>1, <1>4, AddKeyStep
<1>6. /\ load' \in [next : Nat, size : TableSizes \cup Recreations]
      /\ load'.next <= load'.size
  BY <1>1, <1>2, <1>3
<1>7. LoadOK'
  BY <1>5, <1>6 DEF LoadOK
<1> QED BY <1>5, <1>7 DEF IInv

LEMMA AddRowStep == ASSUME IInv, NEW r \in Rows, AddRow(r) PROVE IInv'
<1>1. ~Loading /\ addKey(r) /\ load' = load /\ LoadOK
  BY DEF AddRow, Ready, IInv
<1>2. /\ Tree(page') /\ Kept(page', entries') /\ entries' \subseteq Entry
      /\ skewed' \in BOOLEAN /\ call' \in Inserts /\ InsertOK' /\ SearchOK'
  BY <1>1, AddKeyStep
<1>3. LoadOK'
  BY <1>1 DEF LoadOK, Loading
<1> QED BY <1>2, <1>3 DEF IInv

(* BTree_insert_nonfull in a leaf *)
LEMMA InsertLeafStep == ASSUME IInv, InsertLeaf PROVE IInv'
<1>1. /\ Tree(page) /\ Kept(page, entries) /\ entries \subseteq Entry /\ skewed \in BOOLEAN
      /\ Shape(page) /\ InsertOK /\ LoadOK
  BY DEF IInv, Tree
<1>2. call \in Inserts /\ call.op = "insert"
  BY Calls DEF InsertLeaf, IInv
<1>3. PICK u, e : u = call.u /\ e = call.item
  OBVIOUS
<1>4. /\ u \in VertexIds /\ u \in Alloc(page) /\ e \in Entry /\ e \notin entries
      /\ Len(page[u].data) < Capacity /\ page[u].isleaf
  BY <1>1, <1>2, <1>3 DEF InsertOK, Inserts, InsertLeaf
<1>5. PICK p : p = Place(page[u].data, Len(page[u].data), e.key)
  OBVIOUS
<1>6. p \in 1 .. Len(page[u].data) + 1
  <2>1. Len(page[u].data) \in Nat
    BY <1>1, <1>4, VertexFacts
  <2> QED BY <1>5, <2>1, PlaceFound
<1>7. /\ page' = [page EXCEPT ![u].data = Inserted(page[u].data, p, e)]
      /\ entries' = entries \cup {e} /\ call' = Idle /\ load' = load /\ skewed' = skewed
  BY <1>3, <1>5 DEF InsertLeaf, Inserted
<1>8. Tree(page') /\ Kept(page', entries')
  BY <1>1, <1>4, <1>6, <1>7, InsertTree
<1>9. InsertOK' /\ SearchOK'
  BY <1>7 DEF InsertOK, SearchOK, Idle
<1>10. LoadOK'
  BY <1>1, <1>7 DEF LoadOK, Loading, Idle
<1> QED BY <1>1, <1>4, <1>7, <1>8, <1>9, <1>10 DEF IInv

(* BTree_insert_nonfull in an inner vertex *)
LEMMA InsertBelowStep == ASSUME IInv, InsertBelow PROVE IInv'
<1>1. /\ Tree(page) /\ Kept(page, entries) /\ entries \subseteq Entry /\ skewed \in BOOLEAN
      /\ Shape(page) /\ InnerOK(page) /\ LeavesOK(page) /\ InsertOK /\ LoadOK
  BY DEF IInv, Tree
<1>2. call \in Inserts /\ call.op = "insert"
  BY Calls DEF InsertBelow, IInv
<1>3. PICK u : u = call.u
  OBVIOUS
<1>4. /\ u \in VertexIds /\ u \in Alloc(page) /\ call.item \notin entries
      /\ Len(page[u].data) < Capacity /\ ~page[u].isleaf
  BY <1>1, <1>2, <1>3 DEF InsertOK, Inserts, InsertBelow
<1>5. Len(page[u].data) \in 1 .. Capacity /\ page \in [VertexIds -> Vertex]
  BY <1>1, <1>4, VertexFacts
<1>6. PICK p : p = Place(page[u].data, Len(page[u].data) - 1, call.item.key)
  OBVIOUS
<1>7. p \in 1 .. Len(page[u].data)
  <2>1. Len(page[u].data) - 1 \in Nat /\ (Len(page[u].data) - 1) + 1 = Len(page[u].data)
    BY <1>5
  <2>2. p \in 1 .. (Len(page[u].data) - 1) + 1
    BY <1>6, <2>1, PlaceFound
  <2> QED BY <2>1, <2>2
<1>8. PICK y : y = page[u].data[p].value
  OBVIOUS
<1>9. y \in Alloc(page)
  <2>1. InnerSlot(page, u, p) /\ p \in 1 .. Capacity
    BY <1>4, <1>5, <1>7 DEF InnerSlot
  <2> QED BY <1>1, <1>4, <1>8, <2>1 DEF InnerOK, At
<1>10. entries' = entries /\ load' = load
  BY DEF InsertBelow
<1>11. ASSUME NEW v \in VertexIds, call' = [call EXCEPT !.u = v]
       PROVE  call' \in Inserts /\ call'.op = "insert" /\ call'.u = v /\ call'.item = call.item
  BY <1>2, <1>11 DEF Inserts
<1>12. ASSUME NEW v, v \in Alloc(page'), Shape(page'), Len(page'[v].data) < Capacity,
              call' = [call EXCEPT !.u = v]
       PROVE  call' \in Inserts /\ InsertOK' /\ LoadOK' /\ SearchOK'
  <2>1. v \in VertexIds
    BY <1>12, VertexFacts
  <2>2. call' \in Inserts /\ call'.op = "insert" /\ call'.u = v /\ call'.item = call.item
    BY <1>11, <1>12, <2>1
  <2>3. InsertOK'
    BY <1>4, <1>10, <1>12, <2>2 DEF InsertOK
  <2>4. LoadOK'
    BY <1>1, <1>2, <1>10, <2>2 DEF LoadOK, Loading
  <2>5. SearchOK'
    BY <2>2 DEF SearchOK
  <2> QED BY <2>2, <2>3, <2>4, <2>5
<1>13. CASE ~Full(page[y])
  <2>1. page' = page /\ skewed' = skewed /\ call' = [call EXCEPT !.u = y]
    BY <1>3, <1>6, <1>8, <1>13 DEF InsertBelow, Size
  <2>2. Len(page[y].data) < Capacity
    <3>1. Len(page[y].data) \in 0 .. Capacity
      BY <1>1, <1>9, VertexFacts
    <3> QED BY <1>13, <3>1 DEF Full, Size
  <2>3. call' \in Inserts /\ InsertOK' /\ LoadOK' /\ SearchOK'
    BY <1>1, <1>9, <1>12, <2>1, <2>2
  <2> QED BY <1>1, <1>10, <2>1, <2>3 DEF IInv
<1>14. CASE Full(page[y])
  <2> DEFINE new == BTree_split_child(page, u, p)
             j   == IF call.item.key > new[u].data[p].key THEN p + 1 ELSE p
  <2>1. /\ RoomToSplit /\ page' = new /\ skewed' = (skewed \/ Skews(page, u, p))
        /\ call' = [call EXCEPT !.u = new[u].data[j].value]
    BY <1>3, <1>6, <1>8, <1>14 DEF InsertBelow, Size
  <2>2. j \in {p, p + 1}
    OBVIOUS
  <2>3. Splittable(page, u, p)
    BY <1>4, <1>7, <1>8, <1>14, <2>1 DEF Splittable, RoomToSplit, Full, Size, At
  <2>4. PICK z : z = page[0].total
    OBVIOUS
  <2>5. y = At(page, u, p).value
    BY <1>8 DEF At
  <2>6. IsSplit(page, new, u, p, y, z)
    BY <1>1, <2>3, <2>4, <2>5, SplitPages
  <2> HIDE DEF new, j
  <2>7. Tree(new) /\ Kept(new, entries)
    BY <1>1, <2>3, <2>4, <2>5, <2>6, SplitTree
  <2>8. new[u].data[j].value \in Alloc(new) /\ Len(new[new[u].data[j].value].data) < Capacity
    BY <1>1, <2>2, <2>3, <2>4, <2>5, <2>6, SplitMakesRoom
  <2>9. call' \in Inserts /\ InsertOK' /\ LoadOK' /\ SearchOK'
    <3>1. Shape(page')
      BY <2>1, <2>7 DEF Tree
    <3> QED BY <1>12, <2>1, <2>8, <3>1
  <2>10. skewed' \in BOOLEAN
    BY <2>1 DEF Skews
  <2> QED BY <1>1, <1>10, <2>1, <2>7, <2>9, <2>10 DEF IInv
<1> QED BY <1>13, <1>14

-----------------------------------------------------------------------------
(* The searches. *)

(* While one runs, no index is being created. *)
LEMMA NotLoading == ASSUME IInv, call.op \in {"search", "done"} PROVE ~Loading
BY DEF IInv, LoadOK

(* findKey and deleteKey *)
LEMMA BeginSearch ==
  ASSUME IInv, Ready, NEW key \in Keys, NEW row \in Rows \cup {NoRow}, call' = Search(key, row),
         UNCHANGED <<page, load, entries, skewed>>
  PROVE  IInv'
<1> DEFINE root == page[0].root
<1>1. /\ Tree(page) /\ Kept(page, entries) /\ entries \subseteq Entry /\ skewed \in BOOLEAN
      /\ Shape(page) /\ InnerOK(page) /\ LoadOK /\ ~Loading
  BY DEF IInv, Tree, Ready
<1>2. root \in Alloc(page)
  BY <1>1 DEF Shape
<1>3. root \in VertexIds
  BY <1>1, <1>2, VertexFacts
<1>4. /\ call' \in Searches /\ call'.op = "search" /\ call'.path = <<<<root, 0>>>>
      /\ call'.key = key /\ call'.found = <<>> /\ call'.before = entries
  BY <1>1, <1>3 DEF Search, Searches
<1>5. Visited({root}, page, <<<<root, 0>>>>, <<>>)
  <2>1. \A u \in VertexIds, i \in 1 .. Capacity :
          ~(InnerSlot(page, u, i) /\ At(page, u, i).value \in {root})
    BY <1>1 DEF InnerOK
  <2> HIDE DEF root
  <2>2. DOMAIN <<<<root, 0>>>> = {1} /\ <<<<root, 0>>>>[1] = <<root, 0>>
    OBVIOUS
  <2>3. DOMAIN <<>> = {}
    OBVIOUS
  <2> QED BY <2>1, <2>2, <2>3 DEF Visited
<1> HIDE DEF root
<1>6. SearchOK'
  <2>1. {root} \in SUBSET Alloc(page)
    BY <1>2
  <2>2. Visited({root}, page', call'.path, call'.found)
    BY <1>4, <1>5
  <2>3. DOMAIN call'.found = {} /\ call'.before = entries'
    BY <1>4
  <2> QED BY <2>1, <2>2, <2>3 DEF SearchOK
<1>7. InsertOK' /\ LoadOK'
  BY <1>1, <1>4 DEF InsertOK, LoadOK, Loading
<1> QED BY <1>1, <1>4, <1>6, <1>7 DEF IInv

LEMMA findKeyStep == ASSUME IInv, NEW key \in Sought, findKey(key) PROVE IInv'
BY BeginSearch DEF findKey

LEMMA deleteKeyStep == ASSUME IInv, NEW r \in Removed, deleteKey(r) PROVE IInv'
<1>1. r \in Rows /\ KeyOf[r] \in Keys
  OBVIOUS
<1> QED BY <1>1, BeginSearch DEF deleteKey

(* A path whose last position is moved on. *)
MoveLast(path, i) == [path EXCEPT ![Len(path)] = <<path[Len(path)][1], i>>]

IsMoved(path, new, i) ==
  /\ new \in Seq(VertexIds \X Nat) /\ DOMAIN new = DOMAIN path
  /\ \A k \in DOMAIN path : new[k] = IF k = Len(path) THEN <<path[k][1], i>> ELSE path[k]

LEMMA MovedPath ==
  ASSUME NEW path \in Seq(VertexIds \X Nat), path # <<>>, NEW i \in Nat,
         NEW new, new = MoveLast(path, i)
  PROVE  /\ IsMoved(path, new, i) /\ Len(path) \in DOMAIN path
         /\ path[Len(path)] \in VertexIds \X Nat
<1>1. Len(path) \in Nat \ {0} /\ DOMAIN path = 1 .. Len(path)
  BY LenProperties, EmptySeq
<1>2. Len(path) \in DOMAIN path
  BY <1>1
<1>3. path[Len(path)] \in VertexIds \X Nat
  BY <1>1, ElementOfSeq
<1>4. <<path[Len(path)][1], i>> \in VertexIds \X Nat
  BY <1>3
<1>5. new \in Seq(VertexIds \X Nat)
  BY <1>1, <1>4, ExceptSeq DEF MoveLast
<1> QED BY <1>1, <1>2, <1>3, <1>5 DEF IsMoved, MoveLast

LEMMA MovedPassed ==
  ASSUME NEW path, NEW new, NEW i \in Nat, IsMoved(path, new, i),
         path[Len(path)][2] \in Nat, path[Len(path)][2] < i,
         \A k \in DOMAIN path : path[k] \in VertexIds \X Nat,
         NEW u, NEW n \in Nat, Passed(path, u, n)
  PROVE  Passed(new, u, n)
<1> SUFFICES ASSUME NEW k \in DOMAIN new, new[k][1] = u PROVE n <= new[k][2]
  BY DEF Passed
<1>1. k \in DOMAIN path /\ new[k] = IF k = Len(path) THEN <<path[k][1], i>> ELSE path[k]
  BY DEF IsMoved
<1>2. path[k][1] = u
  BY <1>1
<1>3. n <= path[k][2] /\ path[k][2] \in Nat
  BY <1>1, <1>2 DEF Passed
<1> QED BY <1>1, <1>3

(* What has been visited stays so when the position is moved on. *)
LEMMA MovedVisited ==
  ASSUME NEW path \in Seq(VertexIds \X Nat), path # <<>>, NEW i \in Nat, path[Len(path)][2] < i,
         NEW new, new = MoveLast(path, i),
         NEW V, NEW pages, NEW found, Visited(V, pages, path, found)
  PROVE  Visited(V, pages, new, found)
<1>1. IsMoved(path, new, i) /\ Len(path) \in DOMAIN path /\ path[Len(path)] \in VertexIds \X Nat
  BY MovedPath
<1>2. \A k \in DOMAIN path : path[k] \in VertexIds \X Nat
  BY ElementOfSeq, LenProperties
<1>3. path[Len(path)][2] \in Nat
  BY <1>1
<1> DEFINE item(u, n) == Passed(path, u, n) => Passed(new, u, n)
<1>4. \A u, n : n \in Nat => item(u, n)
  BY <1>1, <1>2, <1>3, MovedPassed
<1>5. DOMAIN new = DOMAIN path /\ \A k \in DOMAIN path : new[k][1] = path[k][1]
  BY <1>1 DEF IsMoved
<1>6. \A n \in 1 .. Capacity : n \in Nat
  OBVIOUS
<1>7. \A k \in DOMAIN new : new[k][1] \in V
  BY <1>5 DEF Visited
<1>8. \A k, l \in DOMAIN new : new[k][1] = new[l][1] => k = l
  BY <1>5 DEF Visited
<1>9. \A u \in VertexIds, n \in 1 .. Capacity :
        InnerSlot(pages, u, n) /\ At(pages, u, n).value \in V => u \in V /\ Passed(new, u, n)
  BY <1>4, <1>6 DEF Visited
<1>10. ASSUME NEW m \in DOMAIN found
       PROVE  \E u \in V, n \in 1 .. Capacity :
                LeafSlot(pages, u, n) /\ At(pages, u, n) = found[m] /\ Passed(new, u, n)
  <2>1. PICK u \in V, n \in 1 .. Capacity :
          LeafSlot(pages, u, n) /\ At(pages, u, n) = found[m] /\ Passed(path, u, n)
    BY DEF Visited
  <2>2. Passed(new, u, n)
    BY <1>4, <1>6, <2>1
  <2> QED BY <2>1, <2>2
<1> QED BY <1>7, <1>8, <1>9, <1>10 DEF Visited

(* What a step of a running search can rely on: it is at position `pos' of   *)
(* vertex u, and has visited V.                                             *)
LEMMA SearchFacts ==
  ASSUME IInv, Searching, NEW path, path = call.path
  PROVE  /\ path \in Seq(VertexIds \X Nat) /\ path # <<>> /\ Len(path) \in DOMAIN path
         /\ call \in Searches /\ call.op = "search"
         /\ path[Len(path)] \in VertexIds \X Nat
         /\ \E V \in SUBSET Alloc(page) :
              Visited(V, page, path, call.found) /\ path[Len(path)][1] \in V
<1>1. call \in Searches /\ call.op = "search" /\ path # <<>> /\ SearchOK
  BY Calls DEF Searching, IInv
<1>2. path \in Seq(VertexIds \X Nat)
  BY <1>1 DEF Searches
<1>3. Len(path) \in DOMAIN path /\ path[Len(path)] \in VertexIds \X Nat
  <2>1. Len(path) \in Nat \ {0} /\ DOMAIN path = 1 .. Len(path)
    BY <1>1, <1>2, LenProperties, EmptySeq
  <2> QED BY <1>2, <2>1, ElementOfSeq
<1>4. PICK V \in SUBSET Alloc(page) : Visited(V, page, path, call.found)
  BY <1>1 DEF SearchOK
<1>5. path[Len(path)][1] \in V
  BY <1>3, <1>4 DEF Visited
<1> QED BY <1>1, <1>2, <1>3, <1>4, <1>5

(* A search that takes an entry it has come to. *)
LEMMA TakeStep ==
  ASSUME IInv, NEW i \in 1 .. Capacity, FoundEntry(i), Cur.data[i].value # call.row
  PROVE  IInv'
<1>1. /\ Tree(page) /\ Kept(page, entries) /\ entries \subseteq Entry /\ skewed \in BOOLEAN
      /\ Shape(page) /\ LeavesOK(page) /\ EntryOnce(page) /\ LoadOK /\ SearchOK /\ Searching
  BY DEF IInv, Tree, FoundEntry
<1>2. PICK path, u, e : path = call.path /\ u = path[Len(path)][1] /\ e = page[u].data[i]
  OBVIOUS
<1>3. /\ path \in Seq(VertexIds \X Nat) /\ path # <<>> /\ Len(path) \in DOMAIN path
      /\ call \in Searches /\ call.op = "search"
      /\ path[Len(path)] \in VertexIds \X Nat
  BY <1>1, <1>2, SearchFacts
<1>4. PICK V \in SUBSET Alloc(page) : Visited(V, page, path, call.found) /\ u \in V
  BY <1>1, <1>2, SearchFacts
<1>5. PICK moved : moved = MoveLast(path, i)
  OBVIOUS
<1>6. /\ page[u].isleaf /\ i \in DOMAIN page[u].data
      /\ path[Len(path)][2] < i /\ e.key = call.key /\ e.value # call.row
      /\ page' = page /\ entries' = entries /\ load' = load /\ skewed' = skewed
      /\ call' = [call EXCEPT !.path = moved, !.found = Append(@, e)]
  BY <1>2, <1>5 DEF FoundEntry, FirstMatch, Matches, Cur, Top, MovedTo, MoveLast
<1>7. u \in VertexIds /\ LeafSlot(page, u, i) /\ At(page, u, i) = e
  <2>1. u \in VertexIds /\ u \in Alloc(page) /\ page[u].data \in Seq(Slot)
    BY <1>1, <1>4, VertexFacts
  <2>2. DOMAIN page[u].data = 1 .. Len(page[u].data)
    BY <2>1, LenProperties
  <2> QED BY <1>2, <1>6, <2>1, <2>2 DEF LeafSlot, At
<1>8. e \in Entry /\ e \in entries
  <2>1. e \in Entry
    BY <1>1, <1>7 DEF LeavesOK
  <2> QED BY <1>1, <1>7, <2>1 DEF Kept
<1>9. PICK found : found = call.found
  OBVIOUS
<1>10. found \in Seq(Entry)
  BY <1>3, <1>9 DEF Searches
<1>11. /\ Append(found, e) \in Seq(Entry)
       /\ DOMAIN Append(found, e) = 1 .. Len(found) + 1
       /\ DOMAIN found = 1 .. Len(found) /\ Len(found) \in Nat
       /\ \A n \in 1 .. Len(found) : Append(found, e)[n] = found[n]
       /\ Append(found, e)[Len(found) + 1] = e
  BY <1>8, <1>10, AppendProperties, LenProperties
<1>12. IsMoved(path, moved, i)
  BY <1>3, <1>5, MovedPath
<1>13. /\ call' \in Searches /\ call'.op = "search" /\ call'.path = moved
       /\ call'.found = Append(found, e) /\ call'.key = call.key /\ call'.row = call.row
       /\ call'.before = call.before
  <2>1. moved \in Seq(VertexIds \X Nat)
    BY <1>12 DEF IsMoved
  <2> QED BY <1>3, <1>6, <1>9, <1>11, <2>1 DEF Searches
<1>14. \A n \in DOMAIN found : found[n] # e
  <2> SUFFICES ASSUME NEW n \in DOMAIN found, found[n] = e PROVE FALSE
    OBVIOUS
  <2>1. PICK w \in V, j \in 1 .. Capacity :
          LeafSlot(page, w, j) /\ At(page, w, j) = found[n] /\ Passed(path, w, j)
    BY <1>4, <1>9 DEF Visited
  <2>2. w \in VertexIds
    BY <1>1, VertexFacts
  <2>3. w = u /\ j = i
    BY <1>1, <1>7, <1>8, <2>1, <2>2 DEF EntryOnce
  <2>4. i <= path[Len(path)][2] /\ path[Len(path)][2] \in Nat
    BY <1>2, <1>3, <2>1, <2>3 DEF Passed
  <2> QED BY <1>6, <2>4
<1>15. Visited(V, page, moved, found)
  <2>1. Visited(V, page, path, found) /\ path[Len(path)][2] < i /\ i \in Nat
    BY <1>4, <1>6, <1>9
  <2> QED BY <1>3, <1>5, <2>1, MovedVisited
<1>16. Passed(moved, u, i)
  <2> SUFFICES ASSUME NEW k \in DOMAIN moved, moved[k][1] = u PROVE i <= moved[k][2]
    BY DEF Passed
  <2>1. k \in DOMAIN path /\ Len(path) \in DOMAIN moved /\ moved[Len(path)] = <<u, i>>
    BY <1>2, <1>3, <1>12 DEF IsMoved
  <2>2. moved[Len(path)][1] = u /\ moved[Len(path)][2] = i
    BY <2>1
  <2>3. k = Len(path)
    BY <1>15, <2>1, <2>2 DEF Visited
  <2> QED BY <2>2, <2>3
<1>17. Visited(V, page, moved, Append(found, e))
  <2>1. ASSUME NEW n \in DOMAIN Append(found, e)
        PROVE  \E w \in V, j \in 1 .. Capacity :
                 /\ LeafSlot(page, w, j) /\ At(page, w, j) = Append(found, e)[n]
                 /\ Passed(moved, w, j)
    <3>1. CASE n \in DOMAIN found
      <4>1. Append(found, e)[n] = found[n]
        BY <1>11, <3>1
      <4> QED BY <1>15, <3>1, <4>1 DEF Visited
    <3>2. CASE n \notin DOMAIN found
      <4>1. n = Len(found) + 1
        BY <1>11, <3>2
      <4>2. Append(found, e)[n] = e
        BY <1>11, <4>1
      <4> QED BY <1>4, <1>7, <1>8, <1>16, <4>2
    <3> QED BY <3>1, <3>2
  <2> QED BY <1>15, <2>1 DEF Visited
<1>18. SearchOK'
  <2>1. ASSUME NEW n \in DOMAIN Append(found, e)
        PROVE  /\ Append(found, e)[n] \in entries /\ Append(found, e)[n].key = call.key
               /\ Append(found, e)[n].value # call.row
               /\ \A m \in DOMAIN Append(found, e) :
                    Append(found, e)[m] = Append(found, e)[n] => m = n
    <3>1. \A m \in DOMAIN found :
            /\ found[m] \in entries /\ found[m].key = call.key /\ found[m].value # call.row
            /\ \A l \in DOMAIN found : found[l] = found[m] => l = m
      BY <1>1, <1>3, <1>9 DEF SearchOK
    <3>2. CASE n \in DOMAIN found
      <4>1. Append(found, e)[n] = found[n]
        BY <1>11, <3>2
      <4>2. ASSUME NEW m \in DOMAIN Append(found, e),
                   Append(found, e)[m] = Append(found, e)[n]
            PROVE  m = n
        <5>1. m \in DOMAIN found
          <6> SUFFICES ASSUME m \notin DOMAIN found PROVE FALSE
            OBVIOUS
          <6>1. m = Len(found) + 1
            BY <1>11
          <6> QED BY <1>11, <1>14, <3>2, <4>1, <4>2, <6>1
        <5>2. Append(found, e)[m] = found[m]
          BY <1>11, <5>1
        <5> QED BY <3>1, <3>2, <4>1, <4>2, <5>1, <5>2
      <4> QED BY <3>1, <3>2, <4>1, <4>2
    <3>3. CASE n \notin DOMAIN found
      <4>1. n = Len(found) + 1
        BY <1>11, <3>3
      <4>2. Append(found, e)[n] = e
        BY <1>11, <4>1
      <4>3. ASSUME NEW m \in DOMAIN Append(found, e),
                   Append(found, e)[m] = Append(found, e)[n]
            PROVE  m = n
        <5>1. m \notin DOMAIN found
          BY <1>11, <1>14, <4>2, <4>3
        <5> QED BY <1>11, <4>1, <5>1
      <4> QED BY <1>6, <1>8, <4>2, <4>3
    <3> QED BY <3>2, <3>3
  <2>2. \E W \in SUBSET Alloc(page') : Visited(W, page', call'.path, call'.found)
    BY <1>6, <1>13, <1>17
  <2>3. call'.op = "search" /\ entries' = call'.before
    BY <1>1, <1>3, <1>6, <1>13 DEF SearchOK
  <2>4. \A n \in DOMAIN call'.found :
          /\ call'.found[n] \in entries' /\ call'.found[n].key = call'.key
          /\ call'.found[n].value # call'.row
          /\ \A m \in DOMAIN call'.found : call'.found[m] = call'.found[n] => m = n
    BY <1>6, <1>13, <2>1
  <2> QED BY <2>2, <2>3, <2>4 DEF SearchOK
<1>19. InsertOK' /\ LoadOK'
  <2>1. ~Loading
    BY <1>3, NotLoading
  <2> QED BY <1>1, <1>6, <1>13, <2>1 DEF InsertOK, LoadOK, Loading
<1> QED BY <1>1, <1>6, <1>13, <1>18, <1>19 DEF IInv

(* A search that removes the entry of the row to delete. *)
LEMMA RemoveStep ==
  ASSUME IInv, NEW i \in 1 .. Capacity, FoundEntry(i), Cur.data[i].value = call.row
  PROVE  IInv'
<1>1. /\ Tree(page) /\ Kept(page, entries) /\ entries \subseteq Entry /\ skewed \in BOOLEAN
      /\ Shape(page) /\ LeavesOK(page) /\ LoadOK /\ SearchOK /\ Searching
  BY DEF IInv, Tree, FoundEntry
<1>2. PICK path, u, e : path = call.path /\ u = path[Len(path)][1] /\ e = page[u].data[i]
  OBVIOUS
<1>3. call \in Searches /\ call.op = "search"
  BY <1>1, <1>2, SearchFacts
<1>4. PICK V \in SUBSET Alloc(page) : u \in V
  BY <1>1, <1>2, SearchFacts
<1>5. /\ page[u].isleaf /\ i \in DOMAIN page[u].data
      /\ e.key = call.key /\ e.value = call.row
      /\ page' = [page EXCEPT ![u].data = Without(page[u].data, i)]
      /\ entries' = entries \ {e} /\ load' = load /\ skewed' = skewed
      /\ call' = [call EXCEPT !.op = "done"]
  BY <1>2 DEF FoundEntry, FirstMatch, Matches, Cur, Top, Without
<1>6. u \in VertexIds /\ u \in Alloc(page) /\ i \in 1 .. Len(page[u].data) /\ e = At(page, u, i)
  <2>1. u \in VertexIds /\ u \in Alloc(page) /\ page[u].data \in Seq(Slot)
    BY <1>1, <1>4, VertexFacts
  <2>2. DOMAIN page[u].data = 1 .. Len(page[u].data)
    BY <2>1, LenProperties
  <2> QED BY <1>2, <1>5, <2>1, <2>2 DEF At
<1>7. Tree(page') /\ Kept(page', entries')
  <2>1. /\ Tree(page) /\ Kept(page, entries) /\ page[u].isleaf
        /\ page' = TakenOut(page, u, i)
    BY <1>1, <1>5 DEF TakenOut
  <2>2. Tree(page') /\ Kept(page', entries \ {e})
    BY <1>6, <2>1, RemoveTree
  <2> QED BY <1>5, <2>2
<1>8. /\ call' \in Searches /\ call'.op = "done" /\ call'.found = call.found
      /\ call'.key = call.key /\ call'.row = call.row
  BY <1>3, <1>5 DEF Searches
<1>9. SearchOK'
  <2>1. ASSUME NEW n \in DOMAIN call.found
        PROVE  /\ call.found[n] \in entries' /\ call.found[n].key = call.key
               /\ call.found[n].value # call.row
               /\ \A m \in DOMAIN call.found : call.found[m] = call.found[n] => m = n
    <3>1. /\ call.found[n] \in entries /\ call.found[n].key = call.key
          /\ call.found[n].value # call.row
          /\ \A m \in DOMAIN call.found : call.found[m] = call.found[n] => m = n
      BY <1>1, <1>3 DEF SearchOK
    <3> QED BY <1>5, <3>1
  <2> QED BY <1>8, <2>1 DEF SearchOK
<1>10. InsertOK' /\ LoadOK'
  <2>1. ~Loading
    BY <1>3, NotLoading
  <2> QED BY <1>1, <1>5, <1>8, <2>1 DEF InsertOK, LoadOK, Loading
<1> QED BY <1>1, <1>5, <1>7, <1>8, <1>9, <1>10 DEF IInv

(* Steps that change nothing but the place of the search, and its path is of *)
(* vertices it has visited.                                                 *)
LEMMA SearchMoves ==
  ASSUME IInv, call.op = "search", UNCHANGED <<page, load, entries, skewed>>,
         NEW path \in Seq(VertexIds \X Nat), NEW room \in Nat, NEW skipped \in BOOLEAN,
         call' = [call EXCEPT !.path = path, !.room = room, !.skipped = skipped],
         NEW V \in SUBSET Alloc(page), Visited(V, page, path, call.found)
  PROVE  IInv'
<1>1. call \in Searches /\ LoadOK /\ SearchOK
  BY Calls DEF IInv
<1>2. /\ call' \in Searches /\ call'.op = "search" /\ call'.path = path /\ call'.found = call.found
      /\ call'.key = call.key /\ call'.row = call.row /\ call'.before = call.before
  BY <1>1 DEF Searches
<1>3. ~Loading
  BY NotLoading
<1>4. InsertOK' /\ LoadOK'
  BY <1>1, <1>2, <1>3 DEF InsertOK, LoadOK, Loading
<1>5. SearchOK'
  <2>1. \E W \in SUBSET Alloc(page') : Visited(W, page', call'.path, call'.found)
    BY <1>2
  <2> QED BY <1>1, <1>2, <2>1 DEF SearchOK
<1> QED BY <1>2, <1>4, <1>5 DEF IInv

(* A child that may hold the key is gone into, or dropped. *)
LEMMA DescendStep == ASSUME IInv, NEW i \in 1 .. Capacity, Descend(i) PROVE IInv'
<1>1. /\ Tree(page) /\ Shape(page) /\ InnerOK(page) /\ ChildOnce(page) /\ Searching
      /\ UNCHANGED <<page, load, entries, skewed>>
  BY DEF IInv, Tree, Descend
<1>2. PICK path, u, c, pos : /\ path = call.path /\ u = path[Len(path)][1]
                             /\ c = page[u].data[i].value /\ pos = path[Len(path)][2]
  OBVIOUS
<1>3. /\ path \in Seq(VertexIds \X Nat) /\ path # <<>> /\ Len(path) \in DOMAIN path
      /\ call \in Searches /\ call.op = "search"
      /\ path[Len(path)] \in VertexIds \X Nat
  BY <1>1, <1>2, SearchFacts
<1>4. PICK V \in SUBSET Alloc(page) : Visited(V, page, path, call.found) /\ u \in V
  BY <1>1, <1>2, SearchFacts
<1>5. PICK moved : moved = MoveLast(path, i)
  OBVIOUS
<1>5a. PICK room : room = IF Len(path) = call.room THEN 2 * call.room ELSE call.room
  OBVIOUS
<1>6. PICK dropped \in BOOLEAN :
        /\ call' = [call EXCEPT
             !.path = IF dropped THEN moved ELSE Append(moved, <<c, 0>>),
             !.room = room,
             !.skipped = @ \/ dropped]
        /\ room = IF Len(path) = call.room THEN 2 * call.room ELSE call.room
        /\ ~page[u].isleaf /\ i \in DOMAIN page[u].data /\ pos < i
  <2>1. Cur = page[u] /\ Top[2] = pos /\ MovedTo(i) = moved
    BY <1>2, <1>5 DEF Cur, Top, MovedTo, MoveLast
  <2>2. PICK d \in BOOLEAN :
          call' = [call EXCEPT
             !.path = IF d THEN MovedTo(i) ELSE Append(MovedTo(i), <<Cur.data[i].value, 0>>),
             !.room = IF Len(call.path) = call.room THEN 2 * @ ELSE @,
             !.skipped = @ \/ d]
    BY DEF Descend
  <2>3. call' = [call EXCEPT !.path = IF d THEN moved ELSE Append(moved, <<c, 0>>),
                             !.room = room, !.skipped = @ \/ d]
    BY <1>2, <1>5a, <2>1, <2>2
  <2>4. ~page[u].isleaf /\ i \in DOMAIN page[u].data /\ pos < i
    BY <2>1 DEF Descend, FirstMatch, Matches
  <2> QED BY <1>5a, <2>3, <2>4
<1>7. u \in VertexIds /\ InnerSlot(page, u, i) /\ At(page, u, i).value = c
  <2>1. u \in VertexIds /\ u \in Alloc(page) /\ page[u].data \in Seq(Slot)
    BY <1>1, <1>4, VertexFacts
  <2>2. DOMAIN page[u].data = 1 .. Len(page[u].data)
    BY <2>1, LenProperties
  <2> QED BY <1>2, <1>6, <2>1, <2>2 DEF InnerSlot, At
<1>8. c \in Alloc(page) /\ c \in VertexIds
  <2>1. c \in Alloc(page)
    BY <1>1, <1>7 DEF InnerOK
  <2> QED BY <1>1, <2>1, VertexFacts
<1>9. PICK skipped : skipped = (call.skipped \/ dropped)
  OBVIOUS
<1>10. room \in Nat /\ skipped \in BOOLEAN
  <2>1. call.room \in Nat
    BY <1>3 DEF Searches
  <2> QED BY <1>6, <1>9, <2>1
<1>11. IsMoved(path, moved, i)
  <2>1. i \in Nat
    OBVIOUS
  <2>2. path \in Seq(VertexIds \X Nat) /\ path # <<>>
    BY <1>3
  <2> QED BY <1>5, <2>1, <2>2, MovedPath
<1>12. Visited(V, page, moved, call.found)
  <2>1. path[Len(path)][2] < i /\ i \in Nat
    BY <1>2, <1>6
  <2> QED BY <1>3, <1>4, <1>5, <2>1, MovedVisited
<1>13. moved \in Seq(VertexIds \X Nat)
  BY <1>11 DEF IsMoved
<1>14. CASE dropped
  <2>1. call' = [call EXCEPT !.path = moved, !.room = room, !.skipped = skipped]
    BY <1>6, <1>9, <1>14
  <2> QED BY <1>1, <1>3, <1>10, <1>12, <1>13, <2>1, SearchMoves
<1>15. CASE ~dropped
  <2>1. PICK next : next = Append(moved, <<c, 0>>)
    OBVIOUS
  <2>2. call' = [call EXCEPT !.path = next, !.room = room, !.skipped = skipped]
    BY <1>6, <1>9, <1>15, <2>1
  <2>3. /\ next \in Seq(VertexIds \X Nat) /\ Len(moved) \in Nat
        /\ DOMAIN next = 1 .. Len(moved) + 1 /\ DOMAIN moved = 1 .. Len(moved)
        /\ \A k \in 1 .. Len(moved) : next[k] = moved[k]
        /\ next[Len(moved) + 1] = <<c, 0>>
    <3>1. <<c, 0>> \in VertexIds \X Nat
      BY <1>8
    <3> QED BY <1>13, <2>1, <3>1, AppendProperties, LenProperties
  <2>4. \A k \in DOMAIN next : \/ k \in DOMAIN moved /\ next[k] = moved[k]
                               \/ k \notin DOMAIN moved /\ next[k] = <<c, 0>>
    BY <2>3
  <2>5. \A k, l \in DOMAIN next : k \notin DOMAIN moved /\ l \notin DOMAIN moved => k = l
    BY <2>3
  <2>6. c \notin V
    <3> SUFFICES ASSUME c \in V PROVE FALSE
      OBVIOUS
    <3>1. Passed(path, u, i)
      BY <1>4, <1>7 DEF Visited
    <3>2. i <= pos /\ pos \in Nat
      BY <1>2, <1>3, <3>1 DEF Passed
    <3> QED BY <1>6, <3>2
  <2>7. ASSUME NEW w \in V, NEW n, Passed(moved, w, n) PROVE Passed(next, w, n)
    <3> SUFFICES ASSUME NEW k \in DOMAIN next, next[k][1] = w PROVE n <= next[k][2]
      BY DEF Passed
    <3>1. k \in DOMAIN moved /\ next[k] = moved[k]
      BY <2>4, <2>6
    <3> QED BY <2>7, <3>1 DEF Passed
  <2>8. Passed(moved, u, i)
    <3> SUFFICES ASSUME NEW k \in DOMAIN moved, moved[k][1] = u PROVE i <= moved[k][2]
      BY DEF Passed
    <3>1. k \in DOMAIN path /\ Len(path) \in DOMAIN moved /\ moved[Len(path)] = <<u, i>>
      BY <1>2, <1>3, <1>11 DEF IsMoved
    <3>2. moved[Len(path)][1] = u /\ moved[Len(path)][2] = i
      BY <3>1
    <3>3. k = Len(path)
      BY <1>12, <3>1, <3>2 DEF Visited
    <3> QED BY <3>2, <3>3
  <2> DEFINE W == V \cup {c}
  <2>9. Visited(W, page, next, call.found)
    <3>1. \A k \in DOMAIN next : next[k][1] \in W
      BY <1>12, <2>4 DEF Visited
    <3>2. ASSUME NEW k \in DOMAIN next, NEW l \in DOMAIN next, next[k][1] = next[l][1] PROVE k = l
      <4>1. CASE k \in DOMAIN moved /\ l \in DOMAIN moved
        BY <1>12, <2>4, <3>2, <4>1 DEF Visited
      <4>2. CASE k \in DOMAIN moved /\ l \notin DOMAIN moved
        <5>1. next[k][1] \in V /\ next[l][1] = c
          BY <1>12, <2>4, <4>2 DEF Visited
        <5> QED BY <2>6, <3>2, <5>1
      <4>3. CASE k \notin DOMAIN moved /\ l \in DOMAIN moved
        <5>1. next[l][1] \in V /\ next[k][1] = c
          BY <1>12, <2>4, <4>3 DEF Visited
        <5> QED BY <2>6, <3>2, <5>1
      <4>4. CASE k \notin DOMAIN moved /\ l \notin DOMAIN moved
        BY <2>5, <4>4
      <4> QED BY <4>1, <4>2, <4>3, <4>4
    <3>3. ASSUME NEW w \in VertexIds, NEW n \in 1 .. Capacity,
                 InnerSlot(page, w, n), At(page, w, n).value \in W
          PROVE  w \in W /\ Passed(next, w, n)
      <4>1. CASE At(page, w, n).value \in V
        <5>1. w \in V /\ Passed(moved, w, n)
          BY <1>12, <3>3, <4>1 DEF Visited
        <5> QED BY <2>7, <5>1
      <4>2. CASE At(page, w, n).value = c
        <5>1. w = u /\ n = i
          BY <1>1, <1>7, <3>3, <4>2 DEF ChildOnce
        <5> QED BY <1>4, <2>7, <2>8, <5>1
      <4> QED BY <3>3, <4>1, <4>2
    <3>4. ASSUME NEW m \in DOMAIN call.found
          PROVE  \E w \in W, n \in 1 .. Capacity :
                   /\ LeafSlot(page, w, n) /\ At(page, w, n) = call.found[m]
                   /\ Passed(next, w, n)
      <4>1. PICK w \in V, n \in 1 .. Capacity :
              /\ LeafSlot(page, w, n) /\ At(page, w, n) = call.found[m]
              /\ Passed(moved, w, n)
        BY <1>12 DEF Visited
      <4>2. Passed(next, w, n) /\ w \in W
        BY <2>7, <4>1
      <4> QED BY <4>1, <4>2
    <3> HIDE DEF W
    <3> QED BY <3>1, <3>2, <3>3, <3>4 DEF Visited
  <2>10. W \in SUBSET Alloc(page)
    BY <1>8
  <2> HIDE DEF W
  <2> QED BY <1>1, <1>3, <1>10, <2>2, <2>3, <2>9, <2>10, SearchMoves
<1> QED BY <1>14, <1>15

(* An exhausted vertex is left. *)
LEMMA AscendStep == ASSUME IInv, Ascend PROVE IInv'
<1>1. Searching /\ UNCHANGED <<page, load, entries, skewed>>
  BY DEF Ascend
<1>2. PICK path, next : path = call.path /\ next = SubSeq(path, 1, Len(path) - 1)
  OBVIOUS
<1>3. /\ path \in Seq(VertexIds \X Nat) /\ path # <<>>
      /\ call \in Searches /\ call.op = "search"
  BY <1>1, <1>2, SearchFacts
<1>4. PICK V \in SUBSET Alloc(page) : Visited(V, page, path, call.found)
  BY <1>1, <1>2, SearchFacts
<1>5. /\ next \in Seq(VertexIds \X Nat)
      /\ \A k \in DOMAIN next : k \in DOMAIN path /\ next[k] = path[k]
  <2>1. Len(path) \in Nat \ {0} /\ DOMAIN path = 1 .. Len(path)
    BY <1>3, LenProperties, EmptySeq
  <2>2. 1 \in 1 .. Len(path) + 1 /\ Len(path) - 1 \in 1 - 1 .. Len(path)
    BY <2>1
  <2>3. /\ next \in Seq(VertexIds \X Nat) /\ Len(next) = Len(path) - 1
        /\ \A k \in 1 .. Len(path) - 1 : next[k] = path[k]
    <3> DEFINE S == VertexIds \X Nat
               n == Len(path) - 1
    <3>1. path \in Seq(S) /\ 1 \in 1 .. Len(path) + 1 /\ n \in 1 - 1 .. Len(path)
      BY <1>3, <2>2
    <3> HIDE DEF S, n
    <3>2. /\ SubSeq(path, 1, n) \in Seq(S)
          /\ Len(SubSeq(path, 1, n)) = n - 1 + 1
          /\ \A k \in 1 .. n - 1 + 1 : SubSeq(path, 1, n)[k] = path[1 + k - 1]
      BY <3>1, PartOf
    <3> QED BY <1>2, <2>1, <3>2 DEF S, n
  <2>4. DOMAIN next = 1 .. Len(path) - 1
    BY <2>3, LenProperties
  <2> QED BY <2>1, <2>3, <2>4
<1>6. \A w, n : Passed(path, w, n) => Passed(next, w, n)
  BY <1>5 DEF Passed
<1>7. Visited(V, page, next, call.found)
  <2>1. \A k \in DOMAIN next : next[k][1] \in V
    BY <1>4, <1>5 DEF Visited
  <2>2. \A k, l \in DOMAIN next : next[k][1] = next[l][1] => k = l
    BY <1>4, <1>5 DEF Visited
  <2>3. \A w \in VertexIds, n \in 1 .. Capacity :
          InnerSlot(page, w, n) /\ At(page, w, n).value \in V => w \in V /\ Passed(next, w, n)
    BY <1>4, <1>6 DEF Visited
  <2>4. ASSUME NEW m \in DOMAIN call.found
        PROVE  \E w \in V, n \in 1 .. Capacity :
                 /\ LeafSlot(page, w, n) /\ At(page, w, n) = call.found[m]
                 /\ Passed(next, w, n)
    <3>1. PICK w \in V, n \in 1 .. Capacity :
            /\ LeafSlot(page, w, n) /\ At(page, w, n) = call.found[m]
            /\ Passed(path, w, n)
      BY <1>4 DEF Visited
    <3> QED BY <1>6, <3>1
  <2> QED BY <2>1, <2>2, <2>3, <2>4 DEF Visited
<1>8. PICK room, skipped : room = call.room /\ skipped = call.skipped
  OBVIOUS
<1>9. room \in Nat /\ skipped \in BOOLEAN
  BY <1>3, <1>8 DEF Searches
<1>10. call' = [call EXCEPT !.path = next, !.room = room, !.skipped = skipped]
  <2>1. call' = [call EXCEPT !.path = next]
    BY <1>2 DEF Ascend, Popped
  <2> QED BY <1>3, <1>8, <2>1 DEF Searches
<1> QED BY <1>1, <1>3, <1>4, <1>5, <1>7, <1>9, <1>10, SearchMoves

(* The search is over, and its caller goes on. *)
LEMMA EndSearchStep == ASSUME IInv, EndSearch PROVE IInv'
<1>1. /\ call.op = "search" /\ call' = [call EXCEPT !.op = "done"]
      /\ UNCHANGED <<page, load, entries, skewed>> /\ LoadOK /\ SearchOK
  BY DEF EndSearch, IInv
<1>2. call \in Searches /\ ~Loading
  BY <1>1, Calls, NotLoading DEF IInv
<1>3. /\ call' \in Searches /\ call'.op = "done" /\ call'.found = call.found
      /\ call'.key = call.key /\ call'.row = call.row
  BY <1>1, <1>2 DEF Searches
<1>4. InsertOK' /\ LoadOK'
  BY <1>1, <1>2, <1>3 DEF InsertOK, LoadOK, Loading
<1>5. SearchOK'
  BY <1>1, <1>3 DEF SearchOK
<1> QED BY <1>1, <1>3, <1>4, <1>5 DEF IInv

LEMMA ReturnStep == ASSUME IInv, Return PROVE IInv'
<1>1. /\ call' = Idle /\ call'.op = "idle" /\ call.op = "done"
      /\ UNCHANGED <<page, load, entries, skewed>> /\ LoadOK
  BY DEF Return, Idle, IInv
<1>2. ~Loading
  BY <1>1, NotLoading
<1>3. InsertOK' /\ LoadOK' /\ SearchOK'
  BY <1>1, <1>2 DEF InsertOK, LoadOK, SearchOK, Loading
<1> QED BY <1>1, <1>3 DEF IInv

LEMMA NextInv == IInv /\ [Next]_vars => IInv'
<1> SUFFICES ASSUME IInv, [Next]_vars PROVE IInv'
  OBVIOUS
<1>1. ASSUME NEW n \in Recreations, createIndex(n) PROVE IInv'
  BY <1>1, CreateStep
<1>2. ASSUME NEW r \in Rows, AddRow(r) PROVE IInv'
  BY <1>2, AddRowStep
<1>3. ASSUME NEW key \in Sought, findKey(key) PROVE IInv'
  BY <1>3, findKeyStep
<1>4. ASSUME NEW r \in Removed, deleteKey(r) PROVE IInv'
  BY <1>4, deleteKeyStep
<1>5. CASE LoadRow
  BY <1>5, LoadRowStep
<1>6. CASE InsertLeaf
  BY <1>6, InsertLeafStep
<1>7. CASE InsertBelow
  BY <1>7, InsertBelowStep
<1>8. ASSUME NEW i \in 1 .. Capacity, FoundEntry(i) PROVE IInv'
  <2>1. CASE Cur.data[i].value = call.row
    BY <1>8, <2>1, RemoveStep
  <2>2. CASE Cur.data[i].value # call.row
    BY <1>8, <2>2, TakeStep
  <2> QED BY <2>1, <2>2
<1>9. ASSUME NEW i \in 1 .. Capacity, Descend(i) PROVE IInv'
  BY <1>9, DescendStep
<1>10. CASE Ascend
  BY <1>10, AscendStep
<1>11. CASE EndSearch
  BY <1>11, EndSearchStep
<1>12. CASE Return
  BY <1>12, ReturnStep
<1>13. CASE UNCHANGED vars
  BY <1>13 DEF vars, IInv, InsertOK, LoadOK, SearchOK, Loading
<1> QED
  BY <1>1, <1>2, <1>3, <1>4, <1>5, <1>6, <1>7, <1>8, <1>9, <1>10, <1>11, <1>12, <1>13
  DEF Next, Step

LEMMA Invariant == Spec => []IInv
BY InitInv, NextInv, PTL DEF Spec

-----------------------------------------------------------------------------
(* The theorems. *)

LEMMA SlotFacts ==
  ASSUME IInv, NEW s \in SlotsOf(Allocated)
  PROVE  /\ s[1] \in VertexIds /\ s[2] \in 1 .. Capacity /\ s = <<s[1], s[2]>>
         /\ s[1] \in Alloc(page) /\ ItemAt(s) = At(page, s[1], s[2])
         /\ s[1] \in Leaves => LeafSlot(page, s[1], s[2])
         /\ s[1] \notin Leaves => InnerSlot(page, s[1], s[2])
<1>1. Shape(page)
  BY DEF IInv, Tree
<1>2. /\ s[1] \in Alloc(page) /\ s[2] \in 1 .. Capacity /\ s = <<s[1], s[2]>>
      /\ s[2] <= Len(page[s[1]].data)
  BY DEF SlotsOf, Allocated, Header, Alloc, Size
<1>3. s[1] \in VertexIds /\ Len(page[s[1]].data) \in Nat
  BY <1>1, <1>2, VertexFacts
<1>4. s[2] \in 1 .. Len(page[s[1]].data)
  BY <1>2, <1>3
<1> QED BY <1>2, <1>3, <1>4
        DEF ItemAt, At, LeafSlot, InnerSlot, Leaves, Allocated, Header, Alloc

(* Each vertex is a vertex, each item an item, and no page holds more items  *)
(* than it has room for.                                                    *)
THEOREM TypeCorrect == Spec => []TypeOK
<1>1. IInv => TypeOK
  <2> SUFFICES ASSUME IInv PROVE TypeOK
    OBVIOUS
  <2>1. Shape(page) /\ LoadOK
    BY DEF IInv, Tree
  <2>2. page \in [VertexIds ->
          [root : VertexIds, total : 0 .. MaxVertices, isleaf : BOOLEAN,
           data : Seq([key : Keys \cup {Junk}, value : Rows \cup VertexIds, copy : Nat])]]
    BY <2>1 DEF Shape, Vertex, Slot
  <2>3. \A u \in VertexIds : Len(page[u].data) <= Capacity
    BY <2>1 DEF Shape
  <2>4. call.op \in {"idle", "insert", "search", "done"}
    BY DEF IInv, Idle, Inserts, Searches
  <2>5. load \in [next : Nat, size : Nat] /\ load.next <= load.size
    BY <2>1 DEF LoadOK
  <2> QED BY <2>2, <2>3, <2>4, <2>5 DEF TypeOK, IInv, Entry
<1> QED BY <1>1, Invariant, PTL

(* BTree_insert_nonfull is called on a vertex with a free place, at every    *)
(* level it goes down: the item it writes is inside the data array.         *)
THEOREM InsertsFindRoom == Spec => []InsertHasRoom
<1>1. IInv => InsertHasRoom
  <2> SUFFICES ASSUME IInv, call.op = "insert" PROVE ~Full(page[call.u])
    BY DEF InsertHasRoom
  <2>1. Len(page[call.u].data) < Capacity
    BY DEF IInv, InsertOK
  <2>2. Shape(page) /\ call.u \in Alloc(page)
    BY DEF IInv, InsertOK, Tree
  <2>3. Len(page[call.u].data) \in Nat
    BY <2>2, VertexFacts
  <2> QED BY <2>1, <2>3 DEF Full, Size
<1> QED BY <1>1, Invariant, PTL

(* No comparison reads a key that was never set: what a split leaves        *)
(* uninitialised is the last key of an inner vertex.                        *)
THEOREM JunkIsLast == Spec => []JunkUnread
<1>1. IInv => JunkUnread
  <2> SUFFICES ASSUME IInv, NEW s \in SlotsOf(Allocated), ItemAt(s).key = Junk
               PROVE  s[1] \notin Leaves /\ s[2] = Size(page[s[1]])
    BY DEF JunkUnread
  <2>1. InnerOK(page) /\ LeavesOK(page) /\ Shape(page)
    BY DEF IInv, Tree
  <2>2. /\ s[1] \in VertexIds /\ s[2] \in 1 .. Capacity
        /\ s[1] \in Alloc(page) /\ ItemAt(s) = At(page, s[1], s[2])
        /\ s[1] \in Leaves => LeafSlot(page, s[1], s[2])
        /\ s[1] \notin Leaves => InnerSlot(page, s[1], s[2])
    BY SlotFacts
  <2>3. s[1] \notin Leaves
    <3> SUFFICES ASSUME s[1] \in Leaves PROVE FALSE
      OBVIOUS
    <3>1. At(page, s[1], s[2]) \in Entry
      BY <2>1, <2>2 DEF LeavesOK
    <3> QED BY <2>2, <3>1 DEF Entry
  <2>4. ~(s[2] < Len(page[s[1]].data))
    BY <2>1, <2>2, <2>3 DEF InnerOK
  <2>5. s[2] \in 1 .. Len(page[s[1]].data) /\ Len(page[s[1]].data) \in Nat
    <3>1. s[2] \in 1 .. Len(page[s[1]].data)
      BY <2>2, <2>3 DEF InnerSlot
    <3> QED BY <2>1, <2>2, <3>1, VertexFacts
  <2> QED BY <2>3, <2>4, <2>5 DEF Size
<1> QED BY <1>1, Invariant, PTL

(* Inserting, splitting and deleting keep the entries: the leaves hold those *)
(* added and not removed, and none in two places.                           *)
THEOREM EntriesAreKept == Spec => []EntriesKept
<1>1. IInv => EntriesKept
  <2> SUFFICES ASSUME IInv PROVE EntriesKept
    OBVIOUS
  <2>1. /\ Shape(page) /\ LeavesOK(page) /\ EntryOnce(page) /\ Kept(page, entries)
        /\ entries \subseteq Entry
    BY DEF IInv, Tree
  <2>2. ASSUME NEW u \in Leaves, NEW i \in DOMAIN page[u].data
        PROVE  /\ u \in VertexIds /\ i \in 1 .. Capacity /\ LeafSlot(page, u, i)
               /\ At(page, u, i) = page[u].data[i] /\ <<u, i>> \in SlotsOf(Leaves)
    <3>1. u \in Alloc(page) /\ page[u].isleaf
      BY DEF Leaves, Allocated, Header, Alloc
    <3>2. u \in VertexIds /\ page[u].data \in Seq(Slot) /\ Len(page[u].data) \in 0 .. Capacity
      BY <2>1, <3>1, VertexFacts
    <3>3. i \in 1 .. Len(page[u].data)
      BY <3>2, LenProperties
    <3>4. i \in 1 .. Capacity /\ i <= Len(page[u].data)
      BY <3>2, <3>3
    <3> QED BY <3>1, <3>2, <3>3, <3>4 DEF LeafSlot, At, SlotsOf, Size
  <2>3. ASSUME NEW s \in SlotsOf(Leaves)
        PROVE  /\ s[1] \in VertexIds /\ s[2] \in 1 .. Capacity /\ s = <<s[1], s[2]>>
               /\ LeafSlot(page, s[1], s[2]) /\ ItemAt(s) = At(page, s[1], s[2])
               /\ ItemAt(s) \in entries
    <3>1. s \in SlotsOf(Allocated) /\ s[1] \in Leaves
      BY DEF SlotsOf, Leaves
    <3>2. /\ s[1] \in VertexIds /\ s[2] \in 1 .. Capacity /\ s = <<s[1], s[2]>>
          /\ LeafSlot(page, s[1], s[2]) /\ ItemAt(s) = At(page, s[1], s[2])
      BY <3>1, SlotFacts
    <3>3. ItemAt(s) \in Entry
      BY <2>1, <3>2 DEF LeavesOK
    <3> QED BY <2>1, <3>2, <3>3 DEF Kept
  <2>4. ASSUME NEW e \in entries PROVE \E s \in SlotsOf(Leaves) : ItemAt(s) = e
    <3>1. PICK u \in VertexIds, i \in 1 .. Capacity : LeafSlot(page, u, i) /\ At(page, u, i) = e
      BY <2>1 DEF Kept
    <3>2. u \in Leaves /\ i <= Size(page[u])
      BY <3>1 DEF LeafSlot, Leaves, Allocated, Header, Alloc, Size
    <3>3. <<u, i>> \in SlotsOf(Leaves)
      BY <3>2 DEF SlotsOf
    <3>4. ItemAt(<<u, i>>) = e
      BY <3>1 DEF ItemAt, At
    <3> QED BY <3>3, <3>4
  <2>5. entries = UNION {ItemsOf(u) : u \in Leaves}
    <3>1. ASSUME NEW e \in entries PROVE e \in UNION {ItemsOf(u) : u \in Leaves}
      <4>1. PICK u \in VertexIds, i \in 1 .. Capacity : LeafSlot(page, u, i) /\ At(page, u, i) = e
        BY <2>1 DEF Kept
      <4>2. u \in Leaves /\ page[u].data \in Seq(Slot)
        <5>1. u \in Leaves
          BY <4>1 DEF LeafSlot, Leaves, Allocated, Header, Alloc
        <5>2. u \in Alloc(page)
          BY <4>1 DEF LeafSlot
        <5> QED BY <2>1, <5>1, <5>2, VertexFacts
      <4>3. i \in DOMAIN page[u].data
        BY <4>1, <4>2, LenProperties DEF LeafSlot
      <4>4. e \in ItemsOf(u)
        BY <4>1, <4>3 DEF ItemsOf, At
      <4> QED BY <4>2, <4>4
    <3>2. ASSUME NEW u \in Leaves, NEW e \in ItemsOf(u) PROVE e \in entries
      <4>1. PICK i \in DOMAIN page[u].data : e = page[u].data[i]
        BY DEF ItemsOf
      <4>2. u \in VertexIds /\ i \in 1 .. Capacity /\ LeafSlot(page, u, i) /\ At(page, u, i) = e
        BY <2>2, <4>1
      <4>3. e \in Entry
        BY <2>1, <4>2 DEF LeavesOK
      <4> QED BY <2>1, <4>2, <4>3 DEF Kept
    <3> QED BY <3>1, <3>2
  <2>6. IsFiniteSet(SlotsOf(Leaves))
    <3>1. IsFiniteSet(0 .. MaxVertices - 1) /\ IsFiniteSet(1 .. Capacity)
      BY FS_Interval
    <3>2. IsFiniteSet(VertexIds \X (1 .. Capacity))
      BY <3>1, FS_Product
    <3>3. SlotsOf(Leaves) \in SUBSET (VertexIds \X (1 .. Capacity))
      BY <2>3
    <3> QED BY <3>2, <3>3, FS_Subset
  <2>7. ExistsBijection(SlotsOf(Leaves), entries)
    <3> DEFINE S == SlotsOf(Leaves)
               f == [s \in S |-> ItemAt(s)]
    <3>1. f \in [S -> entries]
      BY <2>3
    <3>2. ASSUME NEW s \in S, NEW t \in S, f[s] = f[t] PROVE s = t
      <4>1. ItemAt(s) = ItemAt(t)
        BY <3>2
      <4>2. s[1] = t[1] /\ s[2] = t[2]
        BY <2>1, <2>3, <4>1 DEF EntryOnce
      <4> QED BY <2>3, <4>2
    <3>3. \A e \in entries : \E s \in S : f[s] = e
      BY <2>4
    <3> HIDE DEF S, f
    <3>4. f \in Bijection(S, entries)
      BY <3>1, <3>2, <3>3 DEF Bijection, Injection, Surjection, IsInjective
    <3> QED BY <3>4 DEF ExistsBijection, S
  <2>8. Cardinality(entries) = Cardinality(SlotsOf(Leaves))
    BY <2>6, <2>7, FS_Bijection
  <2> QED BY <2>5, <2>8 DEF EntriesKept
<1> QED BY <1>1, Invariant, PTL

(* Whatever separators a split has left, and whatever children the iterator  *)
(* drops: what a search has returned is entries of the key, none more often than it *)
(* has been added and not removed.                                          *)
THEOREM SearchesAreSound == Spec => []SearchSound
<1>1. IInv => SearchSound
  BY DEF IInv, SearchOK, SearchSound
<1> QED BY <1>1, Invariant, PTL

-----------------------------------------------------------------------------
(* What a step does to the pages: nothing, start over, refill a leaf, split  *)
(* a vertex, or put a full root below a new one and split it.               *)

PageStep(pages, new) ==
  \/ new = pages
  \/ new = [pages EXCEPT ![0] = EmptyRoot]
  \/ \E u \in Alloc(pages), items \in Seq(Slot) :
       pages[u].isleaf /\ IsRefill(pages, new, u, items)
  \/ \E u, index :
       Splittable(pages, u, index) /\ new = BTree_split_child(pages, u, index)
  \/ \E s :
       /\ s = pages[0].total /\ s + 1 < MaxVertices
       /\ Len(pages[pages[0].root].data) = Capacity
       /\ new = BTree_split_child(GrownRoot(pages), s, 1)

LEMMA AddKeyPages ==
  ASSUME IInv, NEW r \in Rows, addKey(r)
  PROVE  PageStep(page, page')
<1> DEFINE root  == page[0].root
           grown == GrownRoot(page)
           s     == page[0].total
<1>0. PICK item : Adds(r, item)
  BY AddKeyItem
<1>1. Shape(page)
  BY DEF IInv, Tree
<1>2. CASE ~Full(page[root])
  BY <1>0, <1>2 DEF Adds, PageStep
<1>3. CASE Full(page[root])
  <2>1. s + 1 < MaxVertices
    <3>1. s \in 0 .. MaxVertices
      BY <1>1 DEF Shape, Vertex
    <3> QED BY <1>0, <3>1 DEF Adds, Room
  <2>2. grown[0].root = s
    <3>1. IsGrown(page, grown, s)
      BY <1>1, <2>1, GrownPages
    <3> QED BY <3>1 DEF IsGrown
  <2>3. page' = BTree_split_child(grown, s, 1)
    BY <1>0, <1>3, <2>2 DEF Adds
  <2>4. Len(page[root].data) = Capacity
    BY <1>3 DEF Full, Size
  <2> QED BY <2>1, <2>3, <2>4 DEF PageStep
<1> QED BY <1>2, <1>3

LEMMA InsertLeafPages == ASSUME IInv, InsertLeaf PROVE PageStep(page, page')
<1>1. Shape(page) /\ InsertOK
  BY DEF IInv, Tree
<1>2. call \in Inserts /\ call.op = "insert"
  BY Calls DEF InsertLeaf, IInv
<1>3. PICK u, e : u = call.u /\ e = call.item
  OBVIOUS
<1>4. u \in VertexIds /\ u \in Alloc(page) /\ e \in Entry /\ page[u].isleaf
  BY <1>1, <1>2, <1>3 DEF InsertOK, Inserts, InsertLeaf
<1>5. PICK data, p : data = page[u].data /\ p = Place(data, Len(data), e.key)
  OBVIOUS
<1>6. data \in Seq(Slot) /\ p \in 1 .. Len(data) + 1
  <2>1. data \in Seq(Slot) /\ Len(data) \in Nat
    BY <1>1, <1>4, <1>5, VertexFacts
  <2> QED BY <1>5, <2>1, PlaceFound
<1>7. PICK items : items = Inserted(data, p, e)
  OBVIOUS
<1>8. page' = [page EXCEPT ![u].data = items]
  BY <1>3, <1>5, <1>7 DEF InsertLeaf, Inserted
<1>9. items \in Seq(Slot)
  <2>1. e \in Slot
    BY <1>4 DEF Entry, Slot
  <2> QED BY <1>6, <1>7, <2>1, InsertedAt
<1>10. IsRefill(page, page', u, items)
  <2>1. page \in [VertexIds -> Vertex]
    BY <1>1 DEF Shape
  <2> QED BY <1>4, <1>8, <1>9, <2>1, RefillPages
<1> QED BY <1>4, <1>9, <1>10 DEF PageStep

LEMMA InsertBelowPages == ASSUME IInv, InsertBelow PROVE PageStep(page, page')
<1>1. Shape(page) /\ InsertOK
  BY DEF IInv, Tree
<1>2. call \in Inserts /\ call.op = "insert"
  BY Calls DEF InsertBelow, IInv
<1>3. PICK u, data : u = call.u /\ data = page[u].data
  OBVIOUS
<1>4. /\ u \in VertexIds /\ u \in Alloc(page) /\ Len(data) < Capacity /\ ~page[u].isleaf
  BY <1>1, <1>2, <1>3 DEF InsertOK, Inserts, InsertBelow
<1>5. PICK p : p = Place(data, Len(data) - 1, call.item.key)
  OBVIOUS
<1>6. p \in 1 .. Len(data)
  <2>1. Len(data) \in 1 .. Capacity
    BY <1>1, <1>3, <1>4, VertexFacts
  <2>2. Len(data) - 1 \in Nat /\ (Len(data) - 1) + 1 = Len(data)
    BY <2>1
  <2>3. p \in 1 .. (Len(data) - 1) + 1
    BY <1>5, <2>2, PlaceFound
  <2> QED BY <2>2, <2>3
<1>7. CASE ~Full(page[data[p].value])
  BY <1>3, <1>5, <1>7 DEF InsertBelow, Size, PageStep
<1>8. CASE Full(page[data[p].value])
  <2>1. RoomToSplit /\ page' = BTree_split_child(page, u, p)
    BY <1>3, <1>5, <1>8 DEF InsertBelow, Size
  <2>2. Splittable(page, u, p)
    BY <1>3, <1>4, <1>6, <1>8, <2>1 DEF Splittable, RoomToSplit, Full, Size, At
  <2> QED BY <2>1, <2>2 DEF PageStep
<1> QED BY <1>7, <1>8

LEMMA RemovePages ==
  ASSUME IInv, NEW i \in 1 .. Capacity, FoundEntry(i), Cur.data[i].value = call.row
  PROVE  PageStep(page, page')
<1>1. Shape(page) /\ Searching
  BY DEF IInv, Tree, FoundEntry
<1>2. PICK path, u : path = call.path /\ u = path[Len(path)][1]
  OBVIOUS
<1>3. PICK V \in SUBSET Alloc(page) : u \in V
  BY <1>1, <1>2, SearchFacts
<1>4. PICK items : items = Without(page[u].data, i)
  OBVIOUS
<1>5. page[u].isleaf /\ i \in DOMAIN page[u].data /\ page' = [page EXCEPT ![u].data = items]
  BY <1>2, <1>4 DEF FoundEntry, Cur, Top, Without
<1>6. /\ u \in VertexIds /\ u \in Alloc(page) /\ page[u].data \in Seq(Slot)
      /\ i \in 1 .. Len(page[u].data)
  <2>1. u \in VertexIds /\ u \in Alloc(page) /\ page[u].data \in Seq(Slot)
    BY <1>1, <1>3, VertexFacts
  <2> QED BY <1>5, <2>1, LenProperties
<1>7. items \in Seq(Slot)
  BY <1>4, <1>6, WithoutAt
<1>8. IsRefill(page, page', u, items)
  <2>1. page \in [VertexIds -> Vertex]
    BY <1>1 DEF Shape
  <2> QED BY <1>5, <1>6, <1>7, <2>1, RefillPages
<1> QED BY <1>5, <1>6, <1>7, <1>8 DEF PageStep

LEMMA PageSteps == ASSUME IInv, [Next]_vars PROVE PageStep(page, page')
<1>1. ASSUME NEW n \in Recreations, createIndex(n) PROVE PageStep(page, page')
  BY <1>1 DEF createIndex, PageStep
<1>2. ASSUME NEW r \in Rows, AddRow(r) PROVE PageStep(page, page')
  BY <1>2, AddKeyPages DEF AddRow
<1>3. ASSUME NEW key \in Sought, findKey(key) PROVE PageStep(page, page')
  BY <1>3 DEF findKey, PageStep
<1>4. ASSUME NEW r \in Removed, deleteKey(r) PROVE PageStep(page, page')
  BY <1>4 DEF deleteKey, PageStep
<1>5. CASE LoadRow
  <2>1. load.next \in Rows
    <3>1. load \in [next : Nat, size : TableSizes \cup Recreations] /\ load.next < load.size
      BY <1>5 DEF LoadRow, Loading, IInv, LoadOK
    <3>2. load.size \in Nat /\ 0 .. load.size - 1 \subseteq Rows /\ load.next \in Nat
      BY <3>1
    <3> QED BY <3>1, <3>2
  <2> QED BY <1>5, <2>1, AddKeyPages DEF LoadRow
<1>6. CASE InsertLeaf
  BY <1>6, InsertLeafPages
<1>7. CASE InsertBelow
  BY <1>7, InsertBelowPages
<1>8. ASSUME NEW i \in 1 .. Capacity, FoundEntry(i) PROVE PageStep(page, page')
  <2>1. CASE Cur.data[i].value = call.row
    BY <1>8, <2>1, RemovePages
  <2>2. CASE Cur.data[i].value # call.row
    BY <1>8, <2>2 DEF FoundEntry, PageStep
  <2> QED BY <2>1, <2>2
<1>9. ASSUME NEW i \in 1 .. Capacity, Descend(i) PROVE PageStep(page, page')
  BY <1>9 DEF Descend, PageStep
<1>10. CASE Ascend \/ EndSearch \/ Return
  BY <1>10 DEF Ascend, EndSearch, Return, PageStep
<1>11. CASE UNCHANGED vars
  BY <1>11 DEF vars, PageStep
<1> QED
  BY <1>1, <1>2, <1>3, <1>4, <1>5, <1>6, <1>7, <1>8, <1>9, <1>10, <1>11
  DEF Next, Step

-----------------------------------------------------------------------------
(* One balanced tree: d is the depth of the vertices and h that of the       *)
(* leaves; every vertex but the root hangs from a slot.                     *)

Hangs(pages, u) ==
  \E w \in VertexIds, i \in 1 .. Capacity : InnerSlot(pages, w, i) /\ At(pages, w, i).value = u

Hung(pages) == \A u \in Alloc(pages) \ {pages[0].root} : Hangs(pages, u)

Depths(pages, d, h) ==
  /\ d \in [VertexIds -> Nat] /\ h \in Nat /\ h < pages[0].total
  /\ d[pages[0].root] = 0
  /\ \A u \in Alloc(pages) : /\ pages[u].isleaf => d[u] = h
                             /\ ~pages[u].isleaf => d[u] < h
  /\ \A u \in VertexIds, i \in 1 .. Capacity :
       InnerSlot(pages, u, i) => d[At(pages, u, i).value] = d[u] + 1

Balanced(pages) == Hung(pages) /\ \E d, h : Depths(pages, d, h)

LEMMA EmptyBalanced ==
  ASSUME NEW pages, pages[0] = EmptyRoot
  PROVE  Balanced(pages)
<1> DEFINE d == [u \in VertexIds |-> 0]
<1>1. pages[0].root = 0 /\ pages[0].total = 1 /\ pages[0].isleaf
  BY DEF EmptyRoot
<1>2. Alloc(pages) = {0} /\ 0 \in VertexIds
  BY <1>1 DEF Alloc
<1>3. \A u, i : ~InnerSlot(pages, u, i)
  BY <1>1, <1>2 DEF InnerSlot
<1>4. d \in [VertexIds -> Nat] /\ d[0] = 0
  BY <1>2
<1> HIDE DEF d
<1>5. Depths(pages, d, 0)
  BY <1>1, <1>2, <1>3, <1>4 DEF Depths
<1>6. Hung(pages)
  BY <1>1, <1>2 DEF Hung, Hangs
<1> QED BY <1>5, <1>6 DEF Balanced

(* The items of a leaf are of no account. *)
LEMMA RefillBalanced ==
  ASSUME NEW pages, Balanced(pages), NEW u, pages[u].isleaf, NEW items, Shape(pages),
         NEW new, IsRefill(pages, new, u, items)
  PROVE  Balanced(new)
<1>1. new[0].root = pages[0].root /\ new[0].total = pages[0].total
  <2>1. 0 \in VertexIds
    OBVIOUS
  <2> QED BY <2>1 DEF IsRefill
<1>2. Alloc(new) = Alloc(pages)
  BY <1>1 DEF Alloc
<1>3. ASSUME NEW w \in VertexIds, NEW i
      PROVE  /\ InnerSlot(new, w, i) <=> InnerSlot(pages, w, i)
             /\ InnerSlot(pages, w, i) => At(new, w, i) = At(pages, w, i)
  <2>1. new[w].isleaf = pages[w].isleaf
    BY DEF IsRefill
  <2>2. ~pages[w].isleaf => new[w].data = pages[w].data
    BY DEF IsRefill
  <2> QED BY <1>2, <2>1, <2>2 DEF InnerSlot, At
<1>4. PICK d, h : Depths(pages, d, h)
  BY DEF Balanced
<1>5. \A w \in Alloc(new) : new[w].isleaf = pages[w].isleaf
  <2>1. \A w \in Alloc(pages) : w \in VertexIds
    BY VertexFacts
  <2> QED BY <1>2, <2>1 DEF IsRefill
<1>6. Depths(new, d, h)
  BY <1>1, <1>2, <1>3, <1>4, <1>5 DEF Depths
<1>7. Hung(new)
  <2> SUFFICES ASSUME NEW v \in Alloc(pages) \ {pages[0].root}
               PROVE  \E w \in VertexIds, i \in 1 .. Capacity :
                        InnerSlot(new, w, i) /\ At(new, w, i).value = v
    BY <1>1, <1>2 DEF Hung, Hangs
  <2>1. PICK w \in VertexIds, i \in 1 .. Capacity : InnerSlot(pages, w, i) /\ At(pages, w, i).value = v
    BY DEF Balanced, Hung, Hangs
  <2>2. InnerSlot(new, w, i) /\ At(new, w, i).value = v
    BY <1>3, <2>1
  <2> QED BY <2>2
<1> QED BY <1>6, <1>7 DEF Balanced

(* A new root: everything is one deeper. *)
LEMMA GrownBalanced ==
  ASSUME NEW pages, Tree(pages), Balanced(pages), NEW s, s = pages[0].total, s + 1 < MaxVertices,
         NEW new, IsGrown(pages, new, s)
  PROVE  Balanced(new)
<1>1. PICK root : root = pages[0].root
  OBVIOUS
<1>2. Shape(pages) /\ InnerOK(pages)
  BY DEF Tree
<1>3. /\ root \in Alloc(pages) /\ root \in VertexIds /\ s \in Nat /\ s \in VertexIds
      /\ s \notin Alloc(pages)
  <2>1. root \in Alloc(pages) /\ s \in 0 .. MaxVertices
    BY <1>1, <1>2 DEF Shape, Vertex
  <2>2. root \in VertexIds
    BY <1>2, <2>1, VertexFacts
  <2> QED BY <2>1, <2>2 DEF Alloc
<1>4. new[0].root = s /\ Alloc(new) = Alloc(pages) \cup {s}
  BY <1>3 DEF IsGrown, Alloc
<1>5. InnerSlot(new, s, 1) /\ At(new, s, 1).value = root /\ \A i : InnerSlot(new, s, i) => i = 1
  <2>1. ~new[s].isleaf /\ Len(new[s].data) = 1 /\ new[s].data[1].value = root
    BY <1>1 DEF IsGrown, Item
  <2> QED BY <1>4, <2>1 DEF InnerSlot, At
<1>6. ASSUME NEW w \in VertexIds, w # s, NEW i
      PROVE  /\ InnerSlot(new, w, i) <=> InnerSlot(pages, w, i)
             /\ At(new, w, i) = At(pages, w, i)
  BY <1>4, <1>6 DEF InnerSlot, At, IsGrown
<1>7. PICK d, h : Depths(pages, d, h)
  BY DEF Balanced
<1>8. /\ \A u \in VertexIds : d[u] \in Nat
      /\ h \in Nat /\ h < s /\ d[root] = 0
  BY <1>1, <1>7 DEF Depths
<1>9. PICK e : e = [u \in VertexIds |-> IF u = s THEN 0 ELSE d[u] + 1]
  OBVIOUS
<1>10. e \in [VertexIds -> Nat] /\ e[s] = 0 /\ \A u \in VertexIds \ {s} : e[u] = d[u] + 1
  BY <1>3, <1>8, <1>9
<1>11. ASSUME NEW u \in Alloc(new)
       PROVE  /\ new[u].isleaf => e[u] = h + 1
              /\ ~new[u].isleaf => e[u] < h + 1
  <2>1. CASE u = s
    BY <1>8, <1>10, <2>1 DEF IsGrown
  <2>2. CASE u # s
    <3>1. u \in Alloc(pages) /\ u \in VertexIds
      BY <1>2, <1>4, <2>2, VertexFacts
    <3>2. new[u].isleaf = pages[u].isleaf
      BY <2>2, <3>1 DEF IsGrown
    <3>3. (pages[u].isleaf => d[u] = h) /\ (~pages[u].isleaf => d[u] < h)
      BY <1>7, <3>1 DEF Depths
    <3>4. e[u] = d[u] + 1 /\ d[u] \in Nat
      BY <1>8, <1>10, <2>2, <3>1
    <3>5. CASE new[u].isleaf
      BY <3>2, <3>3, <3>4, <3>5
    <3>6. CASE ~new[u].isleaf
      <4>1. d[u] < h
        BY <3>2, <3>3, <3>6
      <4> QED BY <1>8, <3>4, <3>6, <4>1
    <3> QED BY <3>5, <3>6
  <2> QED BY <2>1, <2>2
<1>12. ASSUME NEW w \in VertexIds, NEW i \in 1 .. Capacity, InnerSlot(new, w, i)
       PROVE  e[At(new, w, i).value] = e[w] + 1
  <2>1. CASE w = s
    <3>1. At(new, w, i).value = root /\ root # s
      BY <1>3, <1>5, <1>12, <2>1
    <3> QED BY <1>3, <1>8, <1>10, <2>1, <3>1
  <2>2. CASE w # s
    <3>1. InnerSlot(pages, w, i) /\ At(new, w, i) = At(pages, w, i)
      BY <1>6, <1>12, <2>2
    <3>2. PICK v : v = At(pages, w, i).value
      OBVIOUS
    <3>3. v \in Alloc(pages) /\ d[v] = d[w] + 1
      BY <1>2, <1>7, <3>1, <3>2 DEF InnerOK, Depths
    <3>4. v \in VertexIds /\ v # s
      BY <1>2, <1>3, <3>3, VertexFacts
    <3> QED BY <1>8, <1>10, <2>2, <3>1, <3>2, <3>3, <3>4
  <2> QED BY <2>1, <2>2
<1>13. Depths(new, e, h + 1)
  <2>1. h + 1 \in Nat /\ h + 1 < new[0].total
    BY <1>3, <1>8 DEF IsGrown
  <2> QED BY <1>4, <1>10, <1>11, <1>12, <2>1 DEF Depths
<1>14. Hung(new)
  <2> SUFFICES ASSUME NEW v \in Alloc(pages)
               PROVE  \E w \in VertexIds, i \in 1 .. Capacity :
                        InnerSlot(new, w, i) /\ At(new, w, i).value = v
    BY <1>4 DEF Hung, Hangs
  <2>1. CASE v = root
    <3>1. 1 \in 1 .. Capacity
      OBVIOUS
    <3> QED BY <1>3, <1>5, <2>1, <3>1
  <2>2. CASE v # root
    <3>1. PICK w \in VertexIds, i \in 1 .. Capacity :
            InnerSlot(pages, w, i) /\ At(pages, w, i).value = v
      BY <1>1, <2>2 DEF Balanced, Hung, Hangs
    <3>2. w # s
      BY <1>3, <3>1 DEF InnerSlot
    <3>3. InnerSlot(new, w, i) /\ At(new, w, i).value = v
      BY <1>6, <3>1, <3>2
    <3> QED BY <3>3
  <2> QED BY <2>1, <2>2
<1> QED BY <1>13, <1>14 DEF Balanced

(* Every child still hangs from a slot after a split. *)
LEMMA SplitKeepsInnerSlot ==
  ASSUME NEW pages, Shape(pages), InnerOK(pages), NEW u, NEW index, Splittable(pages, u, index),
         NEW y, y = At(pages, u, index).value, NEW z, z = pages[0].total,
         NEW new, IsSplit(pages, new, u, index, y, z),
         NEW w \in VertexIds, NEW i \in 1 .. Capacity, InnerSlot(pages, w, i)
  PROVE  Hangs(new, At(pages, w, i).value)
<1>1. /\ u \in Alloc(pages) /\ y \in Alloc(pages) /\ z \notin Alloc(pages)
      /\ u \in VertexIds /\ y \in VertexIds /\ z \in VertexIds
      /\ y # u /\ u # 0 /\ z # u /\ z # y /\ z # 0
      /\ index \in 1 .. Len(pages[u].data) /\ Len(pages[u].data) \in 1 .. Capacity - 1
      /\ Len(pages[y].data) = Capacity
  BY SplitPlaces
<1>2. w \in Alloc(pages) /\ ~pages[w].isleaf /\ i \in 1 .. Len(pages[w].data)
  BY DEF InnerSlot
<1>3. w # z /\ ~new[w].isleaf
  BY <1>1, <1>2 DEF IsSplit
<1>4. w \in Alloc(new) /\ z \in Alloc(new)
  <2>1. new[0].total = z + 1
    BY DEF IsSplit
  <2>2. z \in Nat /\ w \in 0 .. z - 1
    BY <1>1, <1>2 DEF Alloc
  <2>3. Alloc(new) = 0 .. z
    BY <2>1, <2>2 DEF Alloc
  <2> QED BY <2>2, <2>3
<1> SUFFICES \E x \in VertexIds, j \in 1 .. Capacity :
               InnerSlot(new, x, j) /\ At(new, x, j).value = At(pages, w, i).value
  BY DEF Hangs
<1>5. CASE w = y /\ i <= T1
  <2>1. i \in 1 .. T1
    BY <1>2, <1>5, Halves
  <2>2. Len(new[w].data) = T1 /\ new[w].data[i] = pages[w].data[i]
    BY <1>5, <2>1 DEF IsSplit
  <2>3. InnerSlot(new, w, i) /\ At(new, w, i) = At(pages, w, i)
    BY <1>3, <1>4, <2>1, <2>2 DEF InnerSlot, At
  <2> QED BY <2>3
<1>6. CASE w = y /\ ~(i <= T1)
  <2>1. i - T1 \in 1 .. Capacity - T1 /\ T1 + (i - T1) = i /\ i - T1 \in 1 .. Capacity
    BY <1>6, Halves
  <2>2. At(new, z, i - T1) = At(pages, w, i)
    <3>1. new[z].data[i - T1] = pages[y].data[T1 + (i - T1)]
      BY <2>1 DEF IsSplit
    <3> QED BY <1>6, <2>1, <3>1 DEF At
  <2>3. ~new[z].isleaf
    BY <1>1, <1>2, <1>6 DEF IsSplit
  <2>4. InnerSlot(new, z, i - T1)
    BY <1>4, <2>1, <2>3 DEF InnerSlot, IsSplit
  <2> QED BY <1>1, <2>1, <2>2, <2>4
<1>7. CASE w = u
  <2>1. Len(new[u].data) = Len(pages[u].data) + 1
    BY DEF IsSplit, OneMore
  <2>2. \A j \in 1 .. Len(pages[u].data) + 1 :
          new[u].data[j].value = IF j <= index THEN pages[u].data[j].value
                                 ELSE IF j = index + 1 THEN z ELSE pages[u].data[j - 1].value
    BY DEF IsSplit, OneMore
  <2>3. PICK n : n = Len(pages[u].data)
    OBVIOUS
  <2>4. PICK j : j = IF i <= index THEN i ELSE i + 1
    OBVIOUS
  <2>5. /\ j \in 1 .. n + 1 /\ j \in 1 .. Capacity
        /\ j <= index => j = i
        /\ ~(j <= index) => j # index + 1 /\ j - 1 = i
    <3>1. n \in 1 .. Capacity - 1 /\ index \in 1 .. n /\ i \in 1 .. n
      BY <1>1, <1>2, <1>7, <2>3
    <3> QED BY <2>4, <3>1
  <2>6. new[u].data[j].value = pages[u].data[i].value
    BY <2>2, <2>3, <2>5
  <2>7. InnerSlot(new, u, j)
    BY <1>3, <1>4, <1>7, <2>1, <2>3, <2>5 DEF InnerSlot
  <2> QED BY <1>7, <2>5, <2>6, <2>7 DEF At
<1>8. CASE w \notin {u, y}
  <2>1. new[w].data = pages[w].data
    BY <1>3, <1>8 DEF IsSplit
  <2>2. InnerSlot(new, w, i) /\ At(new, w, i) = At(pages, w, i)
    BY <1>2, <1>3, <1>4, <2>1 DEF InnerSlot, At
  <2> QED BY <2>2
<1> QED BY <1>5, <1>6, <1>7, <1>8

(* The new vertex is as deep as the one it was split from. *)
LEMMA SplitBalanced ==
  ASSUME NEW pages, Tree(pages), Balanced(pages), NEW u, NEW index, Splittable(pages, u, index),
         NEW y, y = At(pages, u, index).value, NEW z, z = pages[0].total,
         NEW new, IsSplit(pages, new, u, index, y, z)
  PROVE  Balanced(new)
<1>1. Shape(pages) /\ InnerOK(pages)
  BY DEF Tree
<1>2. /\ u \in Alloc(pages) /\ y \in Alloc(pages) /\ z \notin Alloc(pages)
      /\ u \in VertexIds /\ y \in VertexIds /\ z \in VertexIds
      /\ y # u /\ u # 0 /\ z # u /\ z # y /\ z # 0
      /\ index \in 1 .. Len(pages[u].data) /\ Len(pages[u].data) \in 1 .. Capacity - 1
  BY <1>1, SplitPlaces
<1>3. PICK root : root = pages[0].root
  OBVIOUS
<1>4. /\ new[0].root = root /\ new[0].total = z + 1 /\ Alloc(new) = Alloc(pages) \cup {z}
      /\ root \in Alloc(pages) /\ root \in VertexIds
  <2>1. new[0].root = root /\ new[0].total = z + 1
    BY <1>3 DEF IsSplit
  <2>2. root \in Alloc(pages)
    BY <1>1, <1>3 DEF Shape
  <2> QED BY <1>1, <1>2, <2>1, <2>2, VertexFacts DEF Alloc
<1>5. PICK d, h : Depths(pages, d, h)
  BY DEF Balanced
<1>6. /\ \A w \in VertexIds : d[w] \in Nat
      /\ h \in Nat /\ h < z /\ d[root] = 0
      /\ d[y] = d[u] + 1
  <2>1. InnerSlot(pages, u, index) /\ index \in 1 .. Capacity
    BY <1>2 DEF InnerSlot, Splittable
  <2> QED BY <1>2, <1>3, <1>5, <2>1 DEF Depths
<1>7. PICK e : e = [w \in VertexIds |-> IF w = z THEN d[y] ELSE d[w]]
  OBVIOUS
<1>8. /\ e \in [VertexIds -> Nat] /\ e[z] = d[y]
      /\ \A w \in VertexIds \ {z} : e[w] = d[w]
  BY <1>2, <1>6, <1>7
<1>9. \A w \in VertexIds : e[w] = d[WasIn(w, y, z)]
  BY <1>8 DEF WasIn
<1>10. ASSUME NEW w \in Alloc(new)
       PROVE  /\ new[w].isleaf => e[w] = h
              /\ ~new[w].isleaf => e[w] < h
  <2>1. PICK v : v = WasIn(w, y, z)
    OBVIOUS
  <2>2. v \in Alloc(pages) /\ w \in VertexIds
    BY <1>1, <1>2, <1>4, <2>1, VertexFacts DEF WasIn
  <2>3. new[w].isleaf = pages[v].isleaf
    BY <2>1, <2>2 DEF IsSplit, WasIn
  <2>4. e[w] = d[v]
    BY <1>9, <2>1, <2>2
  <2> QED BY <1>5, <2>2, <2>3, <2>4 DEF Depths
<1>11. ASSUME NEW w \in VertexIds, NEW i \in 1 .. Capacity, InnerSlot(new, w, i)
       PROVE  e[At(new, w, i).value] = e[w] + 1
  <2>1. CASE w = u /\ i = index + 1
    <3>1. At(new, w, i).value = z
      <4>1. i \in 1 .. Len(pages[u].data) + 1 /\ ~(i <= index)
        BY <1>2, <2>1
      <4> QED BY <2>1, <4>1 DEF IsSplit, OneMore, At
    <3> QED BY <1>2, <1>6, <1>8, <2>1, <3>1
  <2>2. CASE ~(w = u /\ i = index + 1)
    <3>1. PICK x, k : x = WasIn(w, y, z) /\ k = WasAt(w, i, u, index, z)
      OBVIOUS
    <3>2. /\ InnerSlot(pages, x, k) /\ At(new, w, i).value = At(pages, x, k).value
          /\ x \in VertexIds /\ k \in 1 .. Capacity
      BY <1>1, <1>11, <2>2, <3>1, SplitInnerSlot
    <3>3. PICK v : v = At(pages, x, k).value
      OBVIOUS
    <3>4. v \in Alloc(pages) /\ d[v] = d[x] + 1
      BY <1>1, <1>5, <3>2, <3>3 DEF InnerOK, Depths
    <3>5. v \in VertexIds /\ v # z
      BY <1>1, <1>2, <3>4, VertexFacts
    <3>6. e[v] = d[v] /\ e[w] = d[x]
      BY <1>8, <1>9, <3>1, <3>5
    <3> QED BY <3>2, <3>3, <3>4, <3>6
  <2> QED BY <2>1, <2>2
<1>12. Depths(new, e, h)
  <2>1. h < new[0].total
    <3>1. z \in Nat
      BY <1>2
    <3> QED BY <1>4, <1>6, <3>1
  <2>2. e[root] = 0
    BY <1>2, <1>4, <1>6, <1>8
  <2> QED BY <1>4, <1>6, <1>8, <1>10, <1>11, <2>1, <2>2 DEF Depths
<1>13. Hung(new)
  <2> SUFFICES ASSUME NEW v \in Alloc(new), v # root
               PROVE  \E w \in VertexIds, i \in 1 .. Capacity :
                        InnerSlot(new, w, i) /\ At(new, w, i).value = v
    BY <1>4 DEF Hung, Hangs
  <2>1. CASE v = z
    <3>1. PICK j, n : j = index + 1 /\ n = Len(pages[u].data)
      OBVIOUS
    <3>2. j \in 1 .. n + 1 /\ j \in 1 .. Capacity /\ ~(j <= index)
      BY <1>2, <3>1
    <3>3. Len(new[u].data) = n + 1 /\ new[u].data[j].value = z
      BY <3>1, <3>2 DEF IsSplit, OneMore
    <3>4. u \in Alloc(new) /\ ~new[u].isleaf
      BY <1>2, <1>4 DEF IsSplit, Splittable
    <3>5. InnerSlot(new, u, j)
      BY <3>2, <3>3, <3>4 DEF InnerSlot
    <3> QED BY <1>2, <2>1, <3>2, <3>3, <3>5 DEF At
  <2>2. CASE v # z
    <3>1. PICK w \in VertexIds, i \in 1 .. Capacity :
            InnerSlot(pages, w, i) /\ At(pages, w, i).value = v
      BY <1>3, <1>4, <2>2 DEF Balanced, Hung, Hangs
    <3>2. Hangs(new, At(pages, w, i).value)
      BY <1>1, <3>1, SplitKeepsInnerSlot
    <3> QED BY <3>1, <3>2 DEF Hangs
  <2> QED BY <2>1, <2>2
<1> QED BY <1>12, <1>13 DEF Balanced

LEMMA StepBalanced ==
  ASSUME NEW pages, Tree(pages), Balanced(pages), NEW new, PageStep(pages, new)
  PROVE  Balanced(new)
<1>1. Shape(pages) /\ InnerOK(pages) /\ LeavesOK(pages)
  BY DEF Tree
<1>2. CASE new = pages
  BY <1>2
<1>3. CASE new = [pages EXCEPT ![0] = EmptyRoot]
  <2>1. new[0] = EmptyRoot
    BY <1>1, <1>3 DEF Shape
  <2> QED BY <2>1, EmptyBalanced
<1>4. ASSUME NEW u \in Alloc(pages), NEW items \in Seq(Slot), pages[u].isleaf,
             IsRefill(pages, new, u, items)
      PROVE  Balanced(new)
  BY <1>1, <1>4, RefillBalanced
<1>5. ASSUME NEW u, NEW index, Splittable(pages, u, index),
             new = BTree_split_child(pages, u, index)
      PROVE  Balanced(new)
  <2>1. PICK y, z : y = At(pages, u, index).value /\ z = pages[0].total
    OBVIOUS
  <2>2. IsSplit(pages, new, u, index, y, z)
    BY <1>1, <1>5, <2>1, SplitPages
  <2> QED BY <1>5, <2>1, <2>2, SplitBalanced
<1>6. ASSUME NEW s, s = pages[0].total, s + 1 < MaxVertices,
             Len(pages[pages[0].root].data) = Capacity,
             new = BTree_split_child(GrownRoot(pages), s, 1)
      PROVE  Balanced(new)
  <2>1. PICK grown : grown = GrownRoot(pages)
    OBVIOUS
  <2>2. IsGrown(pages, grown, s)
    BY <1>1, <1>6, <2>1, GrownPages
  <2>3. Kept(pages, {e \in Entry : \E u \in VertexIds, i \in 1 .. Capacity :
                                     LeafSlot(pages, u, i) /\ At(pages, u, i) = e})
    BY DEF Kept
  <2>4. Tree(grown) /\ Splittable(grown, s, 1)
    BY <1>6, <2>2, <2>3, GrownTree
  <2>5. Balanced(grown)
    BY <1>6, <2>2, GrownBalanced
  <2>6. PICK y, z : y = At(grown, s, 1).value /\ z = grown[0].total
    OBVIOUS
  <2>7. IsSplit(grown, new, s, 1, y, z)
    <3>1. Shape(grown) /\ InnerOK(grown) /\ LeavesOK(grown)
      BY <2>4 DEF Tree
    <3>2. new = BTree_split_child(grown, s, 1)
      BY <1>6, <2>1
    <3> QED BY <2>4, <2>6, <3>1, <3>2, SplitPages
  <2> QED BY <2>4, <2>5, <2>6, <2>7, SplitBalanced
<1> QED BY <1>2, <1>3, <1>4, <1>5, <1>6 DEF PageStep

-----------------------------------------------------------------------------
(* The balanced tree is kept, and its levels are those of the depths. *)

BInv == IInv /\ Balanced(page)

LEMMA BalancedInvariant == Spec => []BInv
<1>1. Init => BInv
  <2> SUFFICES ASSUME Init PROVE BInv
    OBVIOUS
  <2>1. page[0] = EmptyRoot
    BY DEF Init
  <2> QED BY <2>1, InitInv, EmptyBalanced DEF BInv
<1>2. BInv /\ [Next]_vars => BInv'
  <2> SUFFICES ASSUME BInv, [Next]_vars PROVE BInv'
    OBVIOUS
  <2>1. IInv' /\ PageStep(page, page') /\ Tree(page) /\ Balanced(page)
    BY NextInv, PageSteps DEF BInv, IInv
  <2>2. Balanced(page')
    BY <2>1, StepBalanced
  <2> QED BY <2>1, <2>2 DEF BInv
<1> QED BY <1>1, <1>2, PTL DEF Spec

LevelsFrom(f) ==
  [n \in 0 .. MaxVertices |->
     IF n = 0 THEN {Header.root} ELSE UNION {Children(u) : u \in f[n - 1]}]

LEMMA LevelExists == ASSUME NEW g, g = LevelsFrom(g) PROVE Level = LevelsFrom(Level)
<1>1. Level = CHOOSE f : f = LevelsFrom(f)
  BY DEF Level, LevelsFrom
<1> QED BY <1>1, Zenon

(* The vertices of depth n. *)
AtDepth(d, n) == {u \in Alloc(page) : d[u] = n}

LEMMA LevelIs ==
  ASSUME BInv, NEW d, NEW h, Depths(page, d, h), NEW n \in 0 .. MaxVertices
  PROVE  Level[n] = AtDepth(d, n)
<1>1. Shape(page) /\ InnerOK(page) /\ Hung(page)
  BY DEF BInv, Balanced, IInv, Tree
<1>2. PICK root : root = page[0].root
  OBVIOUS
<1>3. /\ root \in Alloc(page) /\ d[root] = 0 /\ \A u \in VertexIds : d[u] \in Nat
      /\ Alloc(page) \subseteq VertexIds
  <2>1. Alloc(page) \subseteq VertexIds
    BY <1>1, VertexFacts
  <2> QED BY <1>1, <1>2, <2>1 DEF Shape, Depths
<1>4. \A v \in Alloc(page) : d[v] = 0 => v = root
  <2> SUFFICES ASSUME NEW v \in Alloc(page), v # root PROVE d[v] # 0
    OBVIOUS
  <2>1. PICK w \in VertexIds, i \in 1 .. Capacity : InnerSlot(page, w, i) /\ At(page, w, i).value = v
    BY <1>1, <1>2 DEF Hung, Hangs
  <2>2. d[v] = d[w] + 1
    BY <2>1 DEF Depths
  <2> QED BY <1>3, <2>2
<1>5. ASSUME NEW m \in 1 .. MaxVertices
      PROVE  AtDepth(d, m) = UNION {Children(u) : u \in AtDepth(d, m - 1)}
  <2>1. ASSUME NEW v \in AtDepth(d, m)
        PROVE  \E u \in AtDepth(d, m - 1) : v \in Children(u)
    <3>1. v \in Alloc(page) /\ d[v] = m /\ v # root
      BY <1>3 DEF AtDepth
    <3>2. PICK w \in VertexIds, i \in 1 .. Capacity :
            InnerSlot(page, w, i) /\ At(page, w, i).value = v
      BY <1>1, <1>2, <3>1 DEF Hung, Hangs
    <3>3. d[v] = d[w] + 1
      BY <3>2 DEF Depths
    <3>4. w \in Alloc(page) /\ ~page[w].isleaf /\ i \in 1 .. Len(page[w].data)
      BY <3>2 DEF InnerSlot
    <3>5. w \in AtDepth(d, m - 1)
      BY <1>3, <3>1, <3>3, <3>4 DEF AtDepth
    <3>6. i \in DOMAIN page[w].data
      BY <1>1, <3>4, VertexFacts, LenProperties
    <3>7. v \in Children(w)
      BY <3>2, <3>4, <3>6 DEF Children, ItemsOf, At
    <3> QED BY <3>5, <3>7
  <2>2. ASSUME NEW u \in AtDepth(d, m - 1), NEW v \in Children(u)
        PROVE  v \in AtDepth(d, m)
    <3>1. u \in Alloc(page) /\ d[u] = m - 1 /\ u \in VertexIds
      BY <1>3 DEF AtDepth
    <3>2. ~page[u].isleaf /\ \E i \in DOMAIN page[u].data : v = page[u].data[i].value
      BY DEF Children, ItemsOf
    <3>3. PICK i \in DOMAIN page[u].data : v = page[u].data[i].value
      BY <3>2
    <3>4. i \in 1 .. Len(page[u].data) /\ Len(page[u].data) \in 0 .. Capacity
      BY <1>1, <3>1, VertexFacts, LenProperties
    <3>5. i \in 1 .. Capacity /\ InnerSlot(page, u, i) /\ At(page, u, i).value = v
      BY <3>1, <3>2, <3>3, <3>4 DEF InnerSlot, At
    <3>6. v \in Alloc(page) /\ d[v] = d[u] + 1
      BY <1>1, <3>1, <3>5 DEF InnerOK, Depths
    <3> QED BY <3>1, <3>6 DEF AtDepth
  <2> QED BY <2>1, <2>2
<1>6. AtDepth(d, 0) = {Header.root}
  BY <1>2, <1>3, <1>4 DEF AtDepth, Header
<1>7. Level = LevelsFrom(Level)
  <2> DEFINE g == [m \in 0 .. MaxVertices |-> AtDepth(d, m)]
  <2>1. ASSUME NEW m \in 0 .. MaxVertices
        PROVE  g[m] = IF m = 0 THEN {Header.root} ELSE UNION {Children(u) : u \in g[m - 1]}
    <3>1. CASE m = 0
      BY <1>6, <3>1
    <3>2. CASE m # 0
      <4>1. m \in 1 .. MaxVertices /\ m - 1 \in 0 .. MaxVertices
        BY <3>2
      <4>2. g[m] = AtDepth(d, m) /\ g[m - 1] = AtDepth(d, m - 1)
        BY <4>1
      <4> HIDE DEF g
      <4> QED BY <1>5, <3>2, <4>1, <4>2
    <3> QED BY <3>1, <3>2
  <2>2. g = [m \in 0 .. MaxVertices |-> g[m]]
    OBVIOUS
  <2> HIDE DEF g
  <2>3. g = LevelsFrom(g)
    BY <2>1, <2>2 DEF LevelsFrom
  <2> QED BY <2>3, LevelExists
<1>8. Level[0] = AtDepth(d, 0)
  <2>1. 0 \in 0 .. MaxVertices
    OBVIOUS
  <2>2. LevelsFrom(Level)[0] = {Header.root}
    BY <2>1 DEF LevelsFrom
  <2> QED BY <1>6, <1>7, <2>2
<1>9. ASSUME NEW m \in 1 .. MaxVertices, Level[m - 1] = AtDepth(d, m - 1)
      PROVE  Level[m] = AtDepth(d, m)
  <2>1. LevelsFrom(Level)[m] = UNION {Children(u) : u \in Level[m - 1]}
    BY DEF LevelsFrom
  <2>2. Level[m] = UNION {Children(u) : u \in AtDepth(d, m - 1)}
    BY <1>7, <1>9, <2>1
  <2> QED BY <1>5, <2>2
<1> DEFINE wrong == {m \in 0 .. MaxVertices : Level[m] # AtDepth(d, m)}
<1>10. wrong = {}
  <2> SUFFICES ASSUME wrong # {} PROVE FALSE
    OBVIOUS
  <2>1. wrong \in SUBSET Nat
    OBVIOUS
  <2>2. PICK m \in wrong : \A k \in wrong : m <= k
    BY <2>1, LeastNumber
  <2>3. m \in 0 .. MaxVertices /\ Level[m] # AtDepth(d, m)
    OBVIOUS
  <2>4. m \in 1 .. MaxVertices /\ m - 1 \in 0 .. MaxVertices /\ ~(m <= m - 1)
    BY <1>8, <2>3
  <2>5. Level[m - 1] = AtDepth(d, m - 1)
    BY <2>2, <2>4
  <2> QED BY <1>9, <2>3, <2>4, <2>5
<1> QED BY <1>10

(* Splitting vertices and growing the root, in whatever order insertions ask *)
(* for it, leave all allocated vertices in one tree with its leaves on one   *)
(* level.                                                                   *)
THEOREM TreeIsOne == Spec => []OneTree
<1>1. BInv => OneTree
  <2> SUFFICES ASSUME BInv PROVE OneTree
    OBVIOUS
  <2>1. IInv /\ Shape(page) /\ InnerOK(page) /\ ChildOnce(page)
    BY DEF BInv, IInv, Tree
  <2>2. PICK d, h : Depths(page, d, h)
    BY DEF BInv, Balanced
  <2>3. \A n \in 0 .. MaxVertices : Level[n] = AtDepth(d, n)
    BY <2>2, LevelIs
  <2>4. Allocated = Alloc(page)
    BY DEF Allocated, Alloc, Header
  <2>5. ASSUME NEW u \in Alloc(page)
        PROVE  /\ d[u] \in 0 .. MaxVertices
               /\ d[u] = h <=> u \in Leaves
    <3>1. u \in VertexIds /\ d[u] \in Nat /\ h \in Nat /\ h < page[0].total
      BY <2>1, <2>2, VertexFacts DEF Depths
    <3>2. page[0].total \in 0 .. MaxVertices
      <4>1. page \in [VertexIds -> Vertex] /\ 0 \in VertexIds
        BY <2>1 DEF Shape
      <4> QED BY <4>1 DEF Vertex
    <3>3. (page[u].isleaf => d[u] = h) /\ (~page[u].isleaf => d[u] < h)
      BY <2>2 DEF Depths
    <3>4. u \in Leaves <=> page[u].isleaf
      BY <2>4 DEF Leaves
    <3>5. CASE page[u].isleaf
      BY <3>1, <3>2, <3>3, <3>4, <3>5
    <3>6. CASE ~page[u].isleaf
      <4>1. d[u] < h
        BY <3>3, <3>6
      <4> QED BY <3>1, <3>2, <3>4, <3>6, <4>1
    <3> QED BY <3>5, <3>6
  <2>6. UNION {Level[n] : n \in 0 .. MaxVertices} = Allocated
    <3>1. ASSUME NEW n \in 0 .. MaxVertices PROVE Level[n] \subseteq Allocated
      BY <2>3, <2>4 DEF AtDepth
    <3>2. ASSUME NEW u \in Allocated PROVE \E n \in 0 .. MaxVertices : u \in Level[n]
      <4>1. u \in Alloc(page) /\ d[u] \in 0 .. MaxVertices
        BY <2>4, <2>5
      <4>2. u \in AtDepth(d, d[u])
        BY <4>1 DEF AtDepth
      <4> QED BY <2>3, <4>1, <4>2
    <3> QED BY <3>1, <3>2
  <2>7. ASSUME NEW s \in InnerSlots
        PROVE  /\ s[1] \in VertexIds /\ s[2] \in 1 .. Capacity /\ s = <<s[1], s[2]>>
               /\ ItemAt(s) = At(page, s[1], s[2]) /\ InnerSlot(page, s[1], s[2])
    <3>1. s \in SlotsOf(Allocated) /\ s[1] \notin Leaves
      BY DEF InnerSlots, SlotsOf
    <3> QED BY <2>1, <3>1, SlotFacts
  <2>8. \A s \in InnerSlots : ItemAt(s).value # Header.root
    BY <2>1, <2>7 DEF InnerOK, Header
  <2>9. \A s, t \in InnerSlots : ItemAt(s).value = ItemAt(t).value => s = t
    <3> SUFFICES ASSUME NEW s \in InnerSlots, NEW t \in InnerSlots,
                        ItemAt(s).value = ItemAt(t).value
                 PROVE  s = t
      OBVIOUS
    <3>1. s[1] = t[1] /\ s[2] = t[2]
      BY <2>1, <2>7 DEF ChildOnce
    <3> QED BY <2>7, <3>1
  <2>10. ASSUME NEW n \in 0 .. MaxVertices PROVE Level[n] \subseteq Leaves \/ Level[n] \cap Leaves = {}
    BY <2>3, <2>5 DEF AtDepth
  <2> QED BY <2>6, <2>8, <2>9, <2>10 DEF OneTree
<1> QED BY <1>1, BalancedInvariant, PTL

-----------------------------------------------------------------------------
(* What a search finds and a deletion removes rests on the invariant so far *)
(* and on the shape a tree has while no split has skewed its separators.    *)

(* Trees that no split has skewed.  They have at most two levels: a root     *)
(* that is a leaf, or one whose children are all the other vertices, and    *)
(* leaves; the split of an inner vertex would skew them.                    *)

(* A key is on the right side of the separators next to slot i. *)
Within(data, i, key) ==
  /\ i > 1 => data[i - 1].key <= key
  /\ i < Len(data) => key <= data[i].key

Sorted(data) == \A i, j \in 1 .. Len(data) : i < j => data[i].key <= data[j].key

ChildAt(pages, i, u) ==
  InnerSlot(pages, pages[0].root, i) /\ At(pages, pages[0].root, i).value = u

(* Separators divide the entries below the root. *)
Divided(pages) ==
  \A u \in VertexIds, i, j \in 1 .. Capacity :
    ChildAt(pages, i, u) /\ LeafSlot(pages, u, j)
      => Within(pages[pages[0].root].data, i, At(pages, u, j).key)

Flat(pages) ==
  /\ \A u \in Alloc(pages) \ {pages[0].root} :
       pages[u].isleaf /\ \E i \in 1 .. Capacity : ChildAt(pages, i, u)
  /\ \A u \in Alloc(pages) : pages[u].isleaf => Sorted(pages[u].data)
  /\ Divided(pages)

-----------------------------------------------------------------------------
(* The separators after a split that does not skew. *)

Rekeyed(data, after, index, key) ==
  \A j \in 1 .. Len(data) :
    after[j].key = IF j < index THEN data[j].key
                   ELSE IF j = index THEN key ELSE data[j - 1].key

(* The second loop of BTree_split_child reads what the first has shifted:    *)
(* up to two places to the right of the split the two make one shift.       *)
LEMMA ParentKeys ==
  ASSUME NEW data \in Seq(Slot), NEW index \in 1 .. Len(data), Len(data) - index <= 2,
         NEW z \in VertexIds, NEW key
  PROVE  Rekeyed(data, ParentAfterSplit(data, index, z, key), index, key)
<1> DEFINE n       == Len(data)
           shifted == [i \in 1 .. n + 1 |->
                         IF i > index + 1 THEN data[i - 1]
                         ELSE IF i = index + 1
                         THEN Item(IF i <= n THEN data[i].key ELSE Junk, z)
                         ELSE data[i]]
           rekeyed == [i \in 1 .. n + 1 |->
                         IF index < i /\ i <= n
                         THEN Item(shifted[i - 1].key, shifted[i].value)
                         ELSE shifted[i]]
           after   == ParentAfterSplit(data, index, z, key)
<1>1. n \in Nat /\ \A i \in 1 .. n : data[i] \in Slot
  BY LenProperties, ElementOfSeq
<1>2. after = [rekeyed EXCEPT ![index].key = key]
  BY DEF ParentAfterSplit
<1>3. \A i \in 1 .. index : shifted[i] = data[i]
  BY <1>1
<1>4. index + 1 <= n => shifted[index + 1].key = data[index + 1].key
  BY <1>1 DEF Item
<1> HIDE DEF shifted
<1>5. \A i \in 1 .. index : rekeyed[i] = data[i]
  BY <1>1, <1>3
<1>6. ASSUME NEW i \in 1 .. n, index < i PROVE rekeyed[i].key = data[i - 1].key
  <2>1. rekeyed[i].key = shifted[i - 1].key
    BY <1>1, <1>6 DEF Item
  <2>2. i = index + 1 \/ i = index + 2
    BY <1>1, <1>6
  <2>3. i = index + 1 => shifted[i - 1].key = data[i - 1].key
    <3>1. i = index + 1 => i - 1 = index /\ i - 1 \in 1 .. index
      BY <1>1
    <3> HIDE DEF rekeyed
    <3> QED BY <1>3, <3>1
  <2>4. i = index + 2 => shifted[i - 1].key = data[i - 1].key
    BY <1>1, <1>4
  <2> HIDE DEF rekeyed
  <2> QED BY <2>1, <2>2, <2>3, <2>4
<1>7. DOMAIN rekeyed = 1 .. n + 1
  OBVIOUS
<1> HIDE DEF rekeyed
<1>8. ASSUME NEW j \in 1 .. n
      PROVE  after[j].key = IF j < index THEN data[j].key
                            ELSE IF j = index THEN key ELSE data[j - 1].key
  <2>1. CASE j = index
    <3>1. rekeyed[j] = data[j] /\ data[j] \in Slot
      BY <1>1, <1>5, <2>1
    <3>2. after[j] = [rekeyed[j] EXCEPT !.key = key]
      BY <1>1, <1>2, <1>7, <2>1
    <3> HIDE DEF after
    <3> QED BY <2>1, <3>1, <3>2 DEF Slot
  <2>2. CASE j # index
    <3>1. after[j] = rekeyed[j]
      BY <1>1, <1>2, <1>7, <2>2
    <3> HIDE DEF after
    <3>2. j < index => rekeyed[j] = data[j]
      BY <1>5
    <3>3. ~(j < index) => rekeyed[j].key = data[j - 1].key
      BY <1>1, <1>6, <2>2
    <3> QED BY <1>1, <2>2, <3>1, <3>2, <3>3
  <2> QED BY <2>1, <2>2
<1> QED BY <1>8 DEF Rekeyed, after

(* What the parent holds after a split. *)
LEMMA SplitParent ==
  ASSUME NEW pages, Shape(pages), InnerOK(pages), NEW u, NEW index, Splittable(pages, u, index),
         NEW y, y = At(pages, u, index).value, NEW z, z = pages[0].total
  PROVE  BTree_split_child(pages, u, index)[u].data
           = ParentAfterSplit(pages[u].data, index, z, pages[y].data[T1 + 1].key)
<1> DEFINE begun == [pages EXCEPT ![0].total = z + 1]
           vz    == [begun[z] EXCEPT !.isleaf = begun[y].isleaf,
                                     !.data = SubSeq(begun[y].data, T1 + 1, Capacity)]
           vy    == [begun[y] EXCEPT !.data = SubSeq(begun[y].data, 1, T1)]
           after == ParentAfterSplit(pages[u].data, index, z, begun[y].data[T1 + 1].key)
           vu    == [pages[u] EXCEPT !.data = after]
           new   == BTree_split_child(pages, u, index)
<1>1. new = [begun EXCEPT ![z] = vz, ![y] = vy, ![u] = vu]
  BY DEF BTree_split_child, At
<1>2. /\ u \in VertexIds /\ y \in VertexIds /\ z \in VertexIds
      /\ pages \in [VertexIds -> Vertex]
  BY SplitPlaces
<1>3. begun[y].data = pages[y].data /\ DOMAIN begun = VertexIds
  <2>1. begun[y] = IF y = 0 THEN [pages[y] EXCEPT !.total = z + 1] ELSE pages[y]
    BY <1>2
  <2>2. pages[y] \in Vertex /\ DOMAIN begun = VertexIds
    BY <1>2
  <2> HIDE DEF begun
  <2> QED BY <2>1, <2>2 DEF Vertex
<1>4. new[u] = vu
  <2> HIDE DEF begun, vz, vy, vu
  <2> QED BY <1>1, <1>2, <1>3
<1>5. vu.data = after
  <2>1. pages[u] \in Vertex
    BY <1>2
  <2> HIDE DEF after
  <2> QED BY <2>1 DEF Vertex
<1>6. after = ParentAfterSplit(pages[u].data, index, z, pages[y].data[T1 + 1].key)
  <2> HIDE DEF begun
  <2> QED BY <1>3
<1> HIDE DEF vu, after
<1> QED BY <1>4, <1>5, <1>6

(* The children of the root after it has split one. *)
ChildrenShifted(pages, new, index, z, n) ==
  /\ \A i \in 1 .. Capacity : \A w :
       ChildAt(new, i, w) =>
         /\ i \in 1 .. n + 1
         /\ \/ i = index + 1 /\ w = z
            \/ i <= index /\ ChildAt(pages, i, w)
            \/ i > index + 1 /\ ChildAt(pages, i - 1, w)
  /\ ChildAt(new, index + 1, z) /\ index + 1 \in 1 .. Capacity
  /\ \A i \in 1 .. Capacity : \A w :
       ChildAt(pages, i, w) => \E j \in 1 .. Capacity : ChildAt(new, j, w)

LEMMA SplitChildren ==
  ASSUME NEW pages, Tree(pages), NEW u, u = pages[0].root,
         NEW index, Splittable(pages, u, index),
         NEW y, y = At(pages, u, index).value, NEW z, z = pages[0].total,
         NEW new, IsSplit(pages, new, u, index, y, z)
  PROVE  ChildrenShifted(pages, new, index, z, Len(pages[u].data))
<1> DEFINE n == Len(pages[u].data)
<1>1. Shape(pages) /\ InnerOK(pages)
  BY DEF Tree
<1>2. /\ u \in Alloc(pages) /\ u \in VertexIds /\ z \in VertexIds /\ z # u
      /\ index \in 1 .. n /\ n \in 1 .. Capacity - 1
      /\ ~pages[u].isleaf
  BY <1>1, SplitPlaces DEF Splittable
<1>3. /\ new[0].root = u /\ u \in Alloc(new) /\ ~new[u].isleaf /\ Len(new[u].data) = n + 1
  <2>1. new[0].root = u /\ new[0].total = z + 1 /\ Len(new[u].data) = n + 1
    BY DEF IsSplit, OneMore
  <2>2. ~new[u].isleaf
    BY <1>2 DEF IsSplit
  <2> QED BY <1>2, <2>1, <2>2 DEF Alloc
<1>4. \A i \in 1 .. n + 1 :
        new[u].data[i].value = IF i <= index THEN pages[u].data[i].value
                               ELSE IF i = index + 1 THEN z ELSE pages[u].data[i - 1].value
  BY DEF IsSplit, OneMore
<1>5. \A i, w : ChildAt(new, i, w) <=> i \in 1 .. n + 1 /\ new[u].data[i].value = w
  BY <1>3 DEF ChildAt, InnerSlot, At
<1>6. \A i, w : ChildAt(pages, i, w) <=> i \in 1 .. n /\ pages[u].data[i].value = w
  BY <1>2 DEF ChildAt, InnerSlot, At
<1> HIDE DEF n
<1>7. ASSUME NEW i \in 1 .. Capacity, NEW w, ChildAt(new, i, w)
      PROVE  /\ i \in 1 .. n + 1
             /\ \/ i = index + 1 /\ w = z
                \/ i <= index /\ ChildAt(pages, i, w)
                \/ i > index + 1 /\ ChildAt(pages, i - 1, w)
  <2>1. i \in 1 .. n + 1 /\ new[u].data[i].value = w
    BY <1>5, <1>7
  <2>2. CASE i <= index
    BY <1>2, <1>4, <1>6, <2>1, <2>2
  <2>3. CASE i = index + 1
    BY <1>2, <1>4, <2>1, <2>3
  <2>4. CASE i > index + 1
    <3>1. i - 1 \in 1 .. n /\ pages[u].data[i - 1].value = w
      BY <1>2, <1>4, <2>1, <2>4
    <3> QED BY <1>6, <2>1, <2>4, <3>1
  <2> QED BY <1>2, <2>1, <2>2, <2>3, <2>4
<1>8. ChildAt(new, index + 1, z) /\ index + 1 \in 1 .. Capacity
  <2>1. index + 1 \in 1 .. n + 1 /\ index + 1 \in 1 .. Capacity /\ ~(index + 1 <= index)
    BY <1>2
  <2> QED BY <1>4, <1>5, <2>1
<1>9. ASSUME NEW i \in 1 .. Capacity, NEW w, ChildAt(pages, i, w)
      PROVE  \E j \in 1 .. Capacity : ChildAt(new, j, w)
  <2>1. i \in 1 .. n /\ pages[u].data[i].value = w
    BY <1>6, <1>9
  <2>2. CASE i <= index
    <3>1. i \in 1 .. n + 1 /\ new[u].data[i].value = w
      BY <1>2, <1>4, <2>1, <2>2
    <3> QED BY <1>5, <3>1
  <2>3. CASE ~(i <= index)
    <3>1. /\ i + 1 \in 1 .. n + 1 /\ i + 1 \in 1 .. Capacity
          /\ ~(i + 1 <= index) /\ i + 1 # index + 1 /\ (i + 1) - 1 = i
      BY <1>2, <2>1, <2>3
    <3>2. new[u].data[i + 1].value = w
      BY <1>4, <2>1, <3>1
    <3> QED BY <1>5, <3>1, <3>2
  <2> QED BY <2>2, <2>3
<1> QED BY <1>7, <1>8, <1>9 DEF n, ChildrenShifted

(* A split below the root that does not skew leaves the tree flat. *)
LEMMA SplitFlat ==
  ASSUME NEW pages, Tree(pages), Flat(pages), NEW u, u = pages[0].root,
         NEW index, Splittable(pages, u, index), Len(pages[u].data) - index <= 2,
         NEW y, y = At(pages, u, index).value, NEW z, z = pages[0].total,
         NEW new, IsSplit(pages, new, u, index, y, z), Tree(new),
         Rekeyed(pages[u].data, new[u].data, index, pages[y].data[T1 + 1].key)
  PROVE  Flat(new)
<1> DEFINE n    == Len(pages[u].data)
           data == pages[u].data
           key  == pages[y].data[T1 + 1].key
<1>1. /\ Shape(pages) /\ InnerOK(pages) /\ ChildOnce(pages) /\ LeavesOK(pages)
      /\ Divided(pages)
  BY DEF Tree, Flat
<1>2. /\ u \in Alloc(pages) /\ y \in Alloc(pages) /\ z \notin Alloc(pages)
      /\ u \in VertexIds /\ y \in VertexIds /\ z \in VertexIds
      /\ y # u /\ z # u /\ z # y
      /\ index \in 1 .. n /\ n \in 1 .. Capacity - 1 /\ ~pages[u].isleaf
      /\ Len(pages[y].data) = Capacity
  <2>1. ~pages[u].isleaf
    BY DEF Splittable
  <2> HIDE DEF data, key
  <2>2. /\ u \in Alloc(pages) /\ y \in Alloc(pages) /\ z \notin Alloc(pages)
        /\ u \in VertexIds /\ y \in VertexIds /\ z \in VertexIds
        /\ y # u /\ z # u /\ z # y
        /\ index \in 1 .. Len(pages[u].data) /\ Len(pages[u].data) \in 1 .. Capacity - 1
        /\ Len(pages[y].data) = Capacity
    BY <1>1, SplitPlaces
  <2> QED BY <2>1, <2>2
<1>3. /\ Alloc(new) = Alloc(pages) \cup {z} /\ new[0].root = u
  <2>1. new[0].total = z + 1 /\ new[0].root = u
    BY DEF IsSplit
  <2>2. z \in Nat
    BY <1>2
  <2> QED BY <2>1, <2>2 DEF Alloc
<1>3a. /\ \A i \in 1 .. Capacity : \A w :
            ChildAt(new, i, w) =>
              /\ i \in 1 .. n + 1
              /\ \/ i = index + 1 /\ w = z
                 \/ i <= index /\ ChildAt(pages, i, w)
                 \/ i > index + 1 /\ ChildAt(pages, i - 1, w)
       /\ ChildAt(new, index + 1, z) /\ index + 1 \in 1 .. Capacity
       /\ \A i \in 1 .. Capacity : \A w :
            ChildAt(pages, i, w) => \E j \in 1 .. Capacity : ChildAt(new, j, w)
  <2>1. ChildrenShifted(pages, new, index, z, Len(pages[u].data))
    BY SplitChildren
  <2> HIDE DEF data, key
  <2> QED BY <2>1 DEF ChildrenShifted
<1>4. pages[y].isleaf /\ Sorted(pages[y].data)
  BY <1>2 DEF Flat
<1>5. \A w \in Alloc(new) \ {u} : new[w].isleaf /\ \E i \in 1 .. Capacity : ChildAt(new, i, w)
  <2> SUFFICES ASSUME NEW w \in Alloc(new), w # u
               PROVE  new[w].isleaf /\ \E i \in 1 .. Capacity : ChildAt(new, i, w)
    OBVIOUS
  <2>1. CASE w = z
    <3>1. ChildAt(new, index + 1, z) /\ index + 1 \in 1 .. Capacity
      BY <1>3a
    <3>2. new[z].isleaf
      BY <1>2, <1>4 DEF IsSplit
    <3> QED BY <2>1, <3>1, <3>2
  <2>2. CASE w # z
    <3>1. w \in Alloc(pages) \ {u} /\ w \in VertexIds
      BY <1>1, <1>3, <2>2, VertexFacts
    <3>2. pages[w].isleaf /\ \E i \in 1 .. Capacity : ChildAt(pages, i, w)
      BY <3>1 DEF Flat
    <3>3. \E i \in 1 .. Capacity : ChildAt(new, i, w)
      BY <1>3a, <3>2
    <3>4. new[w].isleaf
      BY <2>2, <3>1, <3>2 DEF IsSplit
    <3> QED BY <3>3, <3>4
  <2> QED BY <2>1, <2>2
<1>6. ASSUME NEW w \in Alloc(new), new[w].isleaf PROVE Sorted(new[w].data)
  <2>1. w \in VertexIds
    <3>1. Shape(new)
      BY DEF Tree
    <3> QED BY <3>1, VertexFacts
  <2>2. CASE w = y
    <3>1. Len(new[y].data) = T1 /\ \A i \in 1 .. T1 : new[y].data[i] = pages[y].data[i]
      BY DEF IsSplit
    <3>2. \A i \in 1 .. T1 : i \in 1 .. Capacity
      BY Halves
    <3>3. \A i, j \in 1 .. Capacity : i < j => pages[y].data[i].key <= pages[y].data[j].key
      BY <1>2, <1>4 DEF Sorted
    <3>4. ASSUME NEW i \in 1 .. T1, NEW j \in 1 .. T1, i < j
          PROVE  new[y].data[i].key <= new[y].data[j].key
      <4>1. i \in 1 .. Capacity /\ j \in 1 .. Capacity
        BY <3>2
      <4>2. new[y].data[i] = pages[y].data[i] /\ new[y].data[j] = pages[y].data[j]
        BY <3>1
      <4> QED BY <3>3, <3>4, <4>1, <4>2
    <3>5. Sorted(new[y].data)
      BY <3>1, <3>4 DEF Sorted
    <3> QED BY <2>2, <3>5
  <2>3. CASE w = z
    <3>1. /\ Len(new[z].data) = Capacity - T1
          /\ \A i \in 1 .. Capacity - T1 : new[z].data[i] = pages[y].data[T1 + i]
      BY DEF IsSplit
    <3>2. \A i \in 1 .. Capacity - T1 : T1 + i \in 1 .. Capacity
      BY Halves
    <3>3. \A i, j \in 1 .. Capacity - T1 : i < j => T1 + i < T1 + j
      BY Halves
    <3>4. \A i, j \in 1 .. Capacity : i < j => pages[y].data[i].key <= pages[y].data[j].key
      BY <1>2, <1>4 DEF Sorted
    <3>5. ASSUME NEW i \in 1 .. Capacity - T1, NEW j \in 1 .. Capacity - T1, i < j
          PROVE  new[z].data[i].key <= new[z].data[j].key
      <4>1. T1 + i \in 1 .. Capacity /\ T1 + j \in 1 .. Capacity /\ T1 + i < T1 + j
        BY <3>2, <3>3, <3>5
      <4>2. pages[y].data[T1 + i].key <= pages[y].data[T1 + j].key
        BY <3>4, <4>1
      <4>3. new[z].data[i] = pages[y].data[T1 + i] /\ new[z].data[j] = pages[y].data[T1 + j]
        BY <3>1
      <4> QED BY <4>2, <4>3
    <3> QED BY <2>3, <3>1, <3>5 DEF Sorted
  <2>4. CASE w \notin {y, z}
    <3>1. w \in Alloc(pages) /\ w # u
      <4>1. ~new[u].isleaf
        BY <1>2 DEF IsSplit
      <4> QED BY <1>3, <1>6, <2>4, <4>1
    <3>2. new[w].data = pages[w].data /\ pages[w].isleaf
      <4>1. new[w].isleaf = pages[w].isleaf
        BY <2>1, <2>4 DEF IsSplit
      <4> QED BY <1>6, <2>1, <2>4, <3>1, <4>1 DEF IsSplit
    <3> QED BY <3>1, <3>2 DEF Flat
  <2> QED BY <2>2, <2>3, <2>4
<1>7. /\ \A i \in 1 .. Capacity : \A w :
           ChildAt(new, i, w) =>
             /\ i \in 1 .. n + 1
             /\ \/ i = index + 1 /\ w = z
                \/ i <= index /\ ChildAt(pages, i, w)
                \/ i > index + 1 /\ ChildAt(pages, i - 1, w)
      /\ Len(new[u].data) = n + 1
  <2>1. Len(new[u].data) = n + 1
    BY DEF IsSplit, OneMore
  <2> QED BY <1>3a, <2>1
<1>8. \A j \in 1 .. n : new[u].data[j].key = IF j < index THEN data[j].key
                                             ELSE IF j = index THEN key ELSE data[j - 1].key
  BY DEF Rekeyed
<1>8a. new[u].data[index].key = key
  <2>1. index \in 1 .. n /\ ~(index < index)
    BY <1>2
  <2> HIDE DEF n, data, key
  <2> QED BY <1>8, <2>1
<1>9. \A i \in 1 .. Capacity : \A w : ChildAt(pages, i, w) => i \in 1 .. n /\ (w = y <=> i = index)
  <2> SUFFICES ASSUME NEW i \in 1 .. Capacity, NEW w, ChildAt(pages, i, w)
               PROVE  i \in 1 .. n /\ (w = y <=> i = index)
    OBVIOUS
  <2>1. InnerSlot(pages, u, i) /\ At(pages, u, i).value = w
    BY DEF ChildAt
  <2>2. InnerSlot(pages, u, index) /\ index \in 1 .. Capacity
    BY <1>2 DEF InnerSlot
  <2>3. i = index => w = y
    BY <2>1
  <2>4. w = y => i = index
    BY <1>1, <1>2, <2>1, <2>2 DEF ChildOnce
  <2> QED BY <2>1, <2>3, <2>4 DEF InnerSlot
<1>10. ASSUME NEW w \in VertexIds, NEW i \in 1 .. Capacity, NEW j \in 1 .. Capacity,
              ChildAt(pages, i, w), LeafSlot(pages, w, j)
       PROVE  /\ i > 1 => data[i - 1].key <= At(pages, w, j).key
              /\ i < n => At(pages, w, j).key <= data[i].key
  BY <1>1, <1>10 DEF Divided, Within
<1>11. ChildAt(pages, index, y) /\ \A j \in 1 .. Capacity : LeafSlot(pages, y, j)
  <2>1. InnerSlot(pages, u, index)
    BY <1>2 DEF InnerSlot
  <2> QED BY <1>2, <1>4, <2>1 DEF ChildAt, LeafSlot
<1>12. \A j \in 1 .. Capacity : /\ j < T1 + 1 => At(pages, y, j).key <= key
                                /\ j > T1 => key <= At(pages, y, j).key
  <2>1. \A i, j \in 1 .. Capacity : i < j => pages[y].data[i].key <= pages[y].data[j].key
    BY <1>2, <1>4 DEF Sorted
  <2>2. T1 + 1 \in 1 .. Capacity /\ T1 \in Nat
    BY Halves
  <2>3. ASSUME NEW j \in 1 .. Capacity, j > T1 PROVE key <= At(pages, y, j).key
    <3>1. CASE j = T1 + 1
      <4>1. At(pages, y, j) \in Entry
        BY <1>1, <1>2, <1>11 DEF LeavesOK
      <4>2. key \in Int /\ At(pages, y, j).key = key
        BY <3>1, <4>1 DEF Entry, At
      <4> HIDE DEF key
      <4> QED BY <4>2
    <3>2. CASE j > T1 + 1
      <4>1. PICK t : t = T1 + 1
        OBVIOUS
      <4>2. pages[y].data[t].key <= pages[y].data[j].key
        BY <2>1, <2>2, <3>2, <4>1
      <4> QED BY <4>1, <4>2 DEF At
    <3>3. j = T1 + 1 \/ j > T1 + 1
      BY <2>2, <2>3
    <3> QED BY <3>1, <3>2, <3>3
  <2>4. ASSUME NEW j \in 1 .. Capacity, j < T1 + 1 PROVE At(pages, y, j).key <= key
    BY <2>1, <2>2, <2>4 DEF At
  <2> QED BY <2>3, <2>4
<1>13. Divided(new)
  <2> SUFFICES ASSUME NEW w \in VertexIds, NEW i \in 1 .. Capacity, NEW j \in 1 .. Capacity,
                      ChildAt(new, i, w), LeafSlot(new, w, j)
               PROVE  /\ i > 1 => new[u].data[i - 1].key <= At(new, w, j).key
                      /\ i < n + 1 => At(new, w, j).key <= new[u].data[i].key
    BY <1>3, <1>7 DEF Divided, Within
  <2>1. PICK x, k : x = WasIn(w, y, z) /\ k = WasAt(w, j, u, index, z)
    OBVIOUS
  <2>2. /\ LeafSlot(pages, x, k) /\ At(new, w, j) = At(pages, x, k)
        /\ x \in VertexIds /\ k \in 1 .. Capacity /\ w # u
    BY <1>1, <2>1, SplitLeafSlot
  <2>3. i \in 1 .. n + 1
    BY <1>7
  <2> DEFINE value == At(pages, x, k).key
  <2> SUFFICES /\ i > 1 => new[u].data[i - 1].key <= value
               /\ i < n + 1 => value <= new[u].data[i].key
    BY <2>2
  <2> HIDE DEF n, data, key, value
  <2>4. CASE w = z
    <3>1. x = y /\ k = T1 + j /\ k > T1
      BY <2>1, <2>4, Halves DEF WasIn, WasAt
    <3>2. i = index + 1
      <4>1. \A l \in 1 .. Capacity : ~ChildAt(pages, l, z)
        <5> SUFFICES ASSUME NEW l \in 1 .. Capacity, ChildAt(pages, l, z) PROVE FALSE
          OBVIOUS
        <5>1. At(pages, u, l).value = z /\ InnerSlot(pages, u, l)
          BY DEF ChildAt
        <5>2. InnerOK(pages) /\ u \in VertexIds /\ z \notin Alloc(pages)
          BY <1>1, <1>2
        <5>3. At(pages, u, l).value \in Alloc(pages)
          BY <5>1, <5>2 DEF InnerOK
        <5> QED BY <5>1, <5>2, <5>3
      <4>2. i > index + 1 => i - 1 \in 1 .. Capacity
        BY <1>2
      <4> QED BY <1>7, <2>4, <4>1, <4>2
    <3>3. new[u].data[index].key = key
      BY <1>8a
    <3>4. key <= value
      BY <1>12, <2>2, <3>1 DEF value
    <3>5. index < n => value <= data[index].key
      <4>1. LeafSlot(pages, y, k) /\ value = At(pages, y, k).key
        BY <2>2, <3>1 DEF value
      <4>2. index \in 1 .. Capacity
        BY <1>2
      <4> QED BY <1>2, <1>10, <1>11, <2>2, <4>1, <4>2
    <3>6. index < n => new[u].data[index + 1].key = data[index].key
      <4>1. index < n => /\ index + 1 \in 1 .. n /\ ~(index + 1 < index)
                         /\ index + 1 # index /\ (index + 1) - 1 = index
        BY <1>2
      <4> QED BY <1>8, <4>1
    <3>7. i - 1 = index /\ (i < n + 1 => index < n)
      BY <1>2, <3>2
    <3> QED BY <3>2, <3>3, <3>4, <3>5, <3>6, <3>7
  <2>5. CASE w = y
    <3>1. x = y /\ k = j /\ k < T1 + 1
      <4>1. j \in 1 .. Len(new[y].data) /\ Len(new[y].data) = T1
        BY <2>5 DEF LeafSlot, IsSplit
      <4> QED BY <1>2, <2>1, <2>5, <4>1, Halves DEF WasIn, WasAt
    <3>2. i = index
      <4>1. i > index + 1 => i - 1 \in 1 .. Capacity /\ i - 1 # index
        BY <1>2
      <4> QED BY <1>2, <1>7, <1>9, <2>5, <4>1
    <3>3. new[u].data[index].key = key
      BY <1>8a
    <3>4. value <= key
      BY <1>12, <2>2, <3>1 DEF value
    <3>5. index > 1 => data[index - 1].key <= value
      <4>1. LeafSlot(pages, y, k) /\ value = At(pages, y, k).key
        BY <2>2, <3>1 DEF value
      <4>2. index \in 1 .. Capacity
        BY <1>2
      <4> QED BY <1>2, <1>10, <1>11, <2>2, <4>1, <4>2
    <3>6. index > 1 => new[u].data[index - 1].key = data[index - 1].key
      <4>1. index > 1 => index - 1 \in 1 .. n /\ index - 1 < index
        BY <1>2
      <4> QED BY <1>8, <4>1
    <3> QED BY <3>2, <3>3, <3>4, <3>5, <3>6
  <2>6. CASE w \notin {y, z}
    <3>1. x = w
      BY <2>1, <2>6 DEF WasIn
    <3>2. CASE i <= index /\ ChildAt(pages, i, w)
      <4>1. i < index
        BY <1>2, <1>9, <2>6, <3>2
      <4>2. /\ i > 1 => data[i - 1].key <= value
            /\ i < n => value <= data[i].key
        BY <1>10, <2>2, <3>1, <3>2 DEF value
      <4>3. i \in 1 .. n /\ i < n /\ (i > 1 => i - 1 \in 1 .. n /\ i - 1 < index)
        BY <1>2, <4>1
      <4>4. new[u].data[i].key = data[i].key
        BY <1>8, <4>1, <4>3
      <4>5. i > 1 => new[u].data[i - 1].key = data[i - 1].key
        BY <1>8, <4>3
      <4> QED BY <4>2, <4>3, <4>4, <4>5
    <3>3. CASE i > index + 1 /\ ChildAt(pages, i - 1, w)
      <4>1. i - 1 \in 1 .. Capacity /\ i - 1 > 1 /\ (i - 1) - 1 = i - 2
        <5>1. index \in Nat /\ 1 <= index /\ i \in 1 .. Capacity /\ Capacity \in Nat
          BY <1>2
        <5>2. i > index + 1
          BY <3>3
        <5> QED BY <5>1, <5>2
      <4>2. /\ data[i - 2].key <= value
            /\ i - 1 < n => value <= data[i - 1].key
        BY <1>10, <2>2, <3>1, <3>3, <4>1 DEF value
      <4>3. /\ i - 1 \in 1 .. n /\ ~(i - 1 < index) /\ i - 1 # index
            /\ i < n + 1 => i \in 1 .. n /\ i - 1 < n /\ ~(i < index) /\ i # index
        <5>1. index \in Nat /\ n \in Nat /\ i \in Nat
          BY <1>2
        <5>2. i > index + 1 /\ i <= n + 1 /\ 1 <= index
          BY <1>2, <2>3, <3>3
        <5> QED BY <5>1, <5>2
      <4>4. new[u].data[i - 1].key = data[i - 2].key
        BY <1>8, <4>1, <4>3
      <4>5. i < n + 1 => new[u].data[i].key = data[i - 1].key
        BY <1>8, <4>3
      <4> QED BY <4>2, <4>3, <4>4, <4>5
    <3> QED BY <1>7, <2>6, <3>2, <3>3
  <2> QED BY <2>4, <2>5, <2>6
<1> QED BY <1>3, <1>5, <1>6, <1>13 DEF Flat

(* A root that is a leaf is the only vertex; a new root above it has one     *)
(* child and no separator.                                                  *)
LEMMA GrownFlat ==
  ASSUME NEW pages, Tree(pages), Flat(pages), pages[pages[0].root].isleaf,
         NEW s, s = pages[0].total, s + 1 < MaxVertices, NEW new, IsGrown(pages, new, s)
  PROVE  Flat(new)
<1> DEFINE root == pages[0].root
<1>1. Shape(pages) /\ root \in Alloc(pages)
  BY DEF Tree, Shape
<1>2. root \in VertexIds /\ s \in Nat /\ s \notin Alloc(pages)
  <2>1. pages \in [VertexIds -> Vertex] /\ 0 \in VertexIds
    BY <1>1 DEF Shape
  <2>2. s \in 0 .. MaxVertices
    BY <2>1 DEF Vertex
  <2> QED BY <1>1, <2>2, VertexFacts DEF Alloc
<1>3. Alloc(pages) = {root}
  <2> SUFFICES ASSUME NEW u \in Alloc(pages), u # root PROVE FALSE
    BY <1>1
  <2>1. PICK i \in 1 .. Capacity : ChildAt(pages, i, u)
    BY DEF Flat
  <2> QED BY <2>1 DEF ChildAt, InnerSlot
<1>4. /\ new[0].root = s /\ ~new[s].isleaf /\ Len(new[s].data) = 1
      /\ new[s].data[1] = Item(Junk, root)
      /\ new[root].isleaf /\ new[root].data = pages[root].data
      /\ Alloc(new) = {root, s}
  <2>1. new[0].total = s + 1
    BY DEF IsGrown
  <2>2. Alloc(new) = Alloc(pages) \cup {s}
    BY <1>2, <2>1 DEF Alloc
  <2>3. root \in VertexIds \ {s}
    BY <1>1, <1>2
  <2> QED BY <1>3, <2>2, <2>3 DEF IsGrown
<1>5. ChildAt(new, 1, root)
  BY <1>4 DEF ChildAt, InnerSlot, At, Item
<1>6. \A u \in Alloc(new) \ {new[0].root} :
        new[u].isleaf /\ \E i \in 1 .. Capacity : ChildAt(new, i, u)
  <2>1. 1 \in 1 .. Capacity
    OBVIOUS
  <2> QED BY <1>4, <1>5, <2>1
<1>7. \A u \in Alloc(new) : new[u].isleaf => Sorted(new[u].data)
  BY <1>1, <1>4 DEF Flat
<1>8. Divided(new)
  <2> SUFFICES ASSUME NEW u \in VertexIds, NEW i \in 1 .. Capacity, NEW j \in 1 .. Capacity,
                      ChildAt(new, i, u)
               PROVE  Within(new[s].data, i, At(new, u, j).key)
    BY <1>4 DEF Divided
  <2>1. i \in 1 .. 1 /\ Len(new[s].data) = 1
    BY <1>4 DEF ChildAt, InnerSlot
  <2>2. ~(i > 1) /\ ~(i < Len(new[s].data))
    BY <2>1
  <2> QED BY <2>2 DEF Within
<1> QED BY <1>6, <1>7, <1>8 DEF Flat

(* A leaf gets other items in order, on the right side of the separators.  *)
LEMMA RefillFlat ==
  ASSUME NEW pages, Tree(pages), Flat(pages), NEW u \in VertexIds, u \in Alloc(pages),
         pages[u].isleaf, NEW items, Len(items) \in 0 .. Capacity, Sorted(items),
         NEW new, IsRefill(pages, new, u, items),
         \A i \in 1 .. Capacity, j \in 1 .. Len(items) :
           ChildAt(pages, i, u) => Within(pages[pages[0].root].data, i, items[j].key)
  PROVE  Flat(new)
<1> DEFINE root == pages[0].root
<1>1. Shape(pages) /\ root \in Alloc(pages)
  BY DEF Tree, Shape
<1>2. 0 \in VertexIds
  OBVIOUS
<1>3. /\ Alloc(new) = Alloc(pages) /\ new[0].root = root
      /\ \A w \in VertexIds : new[w].isleaf = pages[w].isleaf
      /\ \A w \in VertexIds \ {u} : new[w].data = pages[w].data
      /\ new[u].data = items
  BY <1>2 DEF IsRefill, Alloc
<1>4. \A w \in Alloc(pages) : w \in VertexIds
  BY <1>1, VertexFacts
<1>5. \A i, w : /\ ChildAt(new, i, w) <=> ChildAt(pages, i, w)
                /\ ChildAt(pages, i, w) => new[root].data = pages[root].data
  <2>1. CASE u = root
    <3>1. pages[root].isleaf /\ new[root].isleaf
      BY <1>3, <2>1
    <3> QED BY <1>3, <3>1 DEF ChildAt, InnerSlot
  <2>2. CASE u # root
    <3>1. new[root].data = pages[root].data /\ new[root].isleaf = pages[root].isleaf
      BY <1>1, <1>3, <1>4, <2>2
    <3> QED BY <1>3, <3>1 DEF ChildAt, InnerSlot, At
  <2> QED BY <2>1, <2>2
<1>6. \A w \in Alloc(new) \ {new[0].root} :
        new[w].isleaf /\ \E i \in 1 .. Capacity : ChildAt(new, i, w)
  BY <1>3, <1>4, <1>5 DEF Flat
<1>7. \A w \in Alloc(new) : new[w].isleaf => Sorted(new[w].data)
  <2> SUFFICES ASSUME NEW w \in Alloc(new), new[w].isleaf PROVE Sorted(new[w].data)
    OBVIOUS
  <2>1. w \in Alloc(pages) /\ w \in VertexIds /\ pages[w].isleaf
    BY <1>3, <1>4
  <2>2. CASE w = u
    BY <1>3, <2>2
  <2>3. CASE w # u
    <3>1. new[w].data = pages[w].data
      BY <1>3, <2>1, <2>3
    <3> QED BY <2>1, <3>1 DEF Flat
  <2> QED BY <2>2, <2>3
<1>8. Divided(new)
  <2> SUFFICES ASSUME NEW w \in VertexIds, NEW i \in 1 .. Capacity, NEW j \in 1 .. Capacity,
                      ChildAt(new, i, w), LeafSlot(new, w, j)
               PROVE  Within(new[root].data, i, At(new, w, j).key)
    BY <1>3 DEF Divided
  <2>1. ChildAt(pages, i, w) /\ new[root].data = pages[root].data
    BY <1>5
  <2>2. CASE w = u
    <3>1. j \in 1 .. Len(items) /\ At(new, w, j) = items[j]
      BY <1>3, <2>2 DEF LeafSlot, At
    <3>2. Within(pages[root].data, i, items[j].key)
      BY <2>1, <2>2, <3>1
    <3> QED BY <2>1, <3>1, <3>2
  <2>3. CASE w # u
    <3>1. LeafSlot(pages, w, j) /\ At(new, w, j) = At(pages, w, j)
      BY <1>3, <2>3 DEF LeafSlot, At
    <3>2. Within(pages[root].data, i, At(pages, w, j).key)
      BY <2>1, <3>1 DEF Flat, Divided
    <3> QED BY <2>1, <3>1, <3>2
  <2> QED BY <2>2, <2>3
<1> QED BY <1>6, <1>7, <1>8 DEF Flat

(* An item put in where Place says leaves the items in order. *)
LEMMA InsertSorted ==
  ASSUME NEW data \in Seq(Slot), Sorted(data), NEW e \in Entry,
         \A k \in 1 .. Len(data) : data[k].key \in Keys,
         NEW p \in 1 .. Len(data) + 1, RightPlace(data, Len(data), e.key, p)
  PROVE  Sorted(Inserted(data, p, e))
<1> DEFINE n   == Len(data)
           new == Inserted(data, p, e)
<1>1. n \in Nat
  BY LenProperties
<1>2. /\ Len(new) = n + 1
      /\ \A k \in 1 .. n + 1 : new[k] = IF k < p THEN data[k] ELSE IF k = p THEN e ELSE data[k - 1]
  <2>1. e \in Slot
    BY DEF Entry, Slot
  <2>2. IsInserted(data, p, e, new)
    BY <2>1, InsertedAt
  <2> QED BY <2>2 DEF IsInserted
<1>3. /\ e.key \in Int /\ \A k \in 1 .. n : data[k].key \in Int
      /\ \A i, j \in 1 .. n : i < j => data[i].key <= data[j].key
      /\ \A j \in p .. n : e.key < data[j].key
      /\ p = 1 \/ ~(e.key < data[p - 1].key)
  <2>1. e.key \in Keys
    BY DEF Entry
  <2> QED BY <2>1 DEF Sorted, RightPlace
<1> HIDE DEF n, new
<1>4. ASSUME NEW k \in 1 .. n, k < p PROVE data[k].key <= e.key
  <2>1. p - 1 \in 1 .. n /\ p # 1 /\ (k = p - 1 \/ k < p - 1)
    BY <1>1, <1>4 DEF n
  <2>2. data[p - 1].key <= e.key /\ data[p - 1].key \in Int /\ data[k].key \in Int
    BY <1>3, <2>1
  <2>3. k < p - 1 => data[k].key <= data[p - 1].key
    BY <1>3, <2>1
  <2> QED BY <1>3, <2>1, <2>2, <2>3
<1>5. ASSUME NEW k \in 1 .. n, k >= p PROVE e.key <= data[k].key
  <2>1. k \in p .. n
    BY <1>1, <1>5 DEF n
  <2> QED BY <1>3, <2>1
<1>6. ASSUME NEW i \in 1 .. n + 1, NEW j \in 1 .. n + 1, i < j PROVE new[i].key <= new[j].key
  <2>0. p \in 1 .. n + 1
    BY DEF n
  <2>1. CASE j < p
    <3>1. i \in 1 .. n /\ j \in 1 .. n /\ i < p
      BY <1>1, <1>6, <2>0, <2>1
    <3> QED BY <1>2, <1>3, <1>6, <2>1, <3>1
  <2>2. CASE j = p
    <3>1. i \in 1 .. n /\ i < p
      BY <1>1, <1>6, <2>2
    <3>2. new[i] = data[i] /\ new[j] = e
      BY <1>1, <1>2, <2>0, <2>2, <3>1
    <3> QED BY <1>4, <3>1, <3>2
  <2>3. CASE j > p /\ i < p
    <3>1. i \in 1 .. n /\ j - 1 \in 1 .. n /\ j - 1 >= p
      BY <1>1, <2>0, <2>3
    <3>2. new[i] = data[i] /\ new[j] = data[j - 1]
      BY <1>1, <1>2, <2>0, <2>3, <3>1
    <3>3. i < j - 1
      BY <2>0, <2>3
    <3> QED BY <1>3, <3>1, <3>2, <3>3
  <2>4. CASE j > p /\ i = p
    <3>1. j - 1 \in 1 .. n /\ j - 1 >= p
      BY <1>1, <2>0, <2>4
    <3>2. new[i] = e /\ new[j] = data[j - 1]
      BY <1>1, <1>2, <2>0, <2>4
    <3> QED BY <1>5, <3>1, <3>2
  <2>5. CASE j > p /\ i > p
    <3>1. i - 1 \in 1 .. n /\ j - 1 \in 1 .. n /\ i - 1 < j - 1
      BY <1>1, <1>6, <2>0, <2>5
    <3>2. new[i] = data[i - 1] /\ new[j] = data[j - 1]
      BY <1>1, <1>2, <2>0, <2>5
    <3> QED BY <1>3, <3>1, <3>2
  <2> QED BY <1>1, <2>0, <2>1, <2>2, <2>3, <2>4, <2>5
<1> QED BY <1>2, <1>6 DEF Sorted, new

(* So do those that are left when one is taken out. *)
LEMMA WithoutSorted ==
  ASSUME NEW data \in Seq(Slot), Sorted(data), NEW p \in 1 .. Len(data)
  PROVE  Sorted(Without(data, p))
<1> DEFINE n   == Len(data)
           new == Without(data, p)
<1>1. n \in Nat
  BY LenProperties
<1>2. /\ Len(new) = n - 1
      /\ \A k \in 1 .. n - 1 : new[k] = IF k < p THEN data[k] ELSE data[k + 1]
  BY WithoutAt DEF IsWithout
<1>3. \A i, j \in 1 .. n : i < j => data[i].key <= data[j].key
  BY DEF Sorted
<1> HIDE DEF new
<1>4. ASSUME NEW i \in 1 .. n - 1, NEW j \in 1 .. n - 1, i < j PROVE new[i].key <= new[j].key
  <2> DEFINE a == IF i < p THEN i ELSE i + 1
             b == IF j < p THEN j ELSE j + 1
  <2>1. a \in 1 .. n /\ b \in 1 .. n /\ a < b
    BY <1>1, <1>4
  <2>2. new[i] = data[a] /\ new[j] = data[b]
    BY <1>2
  <2> HIDE DEF a, b, n
  <2> QED BY <1>3, <2>1, <2>2
<1> QED BY <1>2, <1>4 DEF Sorted, new

-----------------------------------------------------------------------------
(* The inductive invariant of searches that miss nothing. *)

FlatOK == ~skewed => Flat(page)

(* An insertion goes down on the right side of the separators. *)
InsertFlat ==
  ~skewed /\ call.op = "insert" =>
    /\ call.u = page[0].root \/ page[call.u].isleaf
    /\ \A i \in 1 .. Capacity :
         ChildAt(page, i, call.u) => Within(page[page[0].root].data, i, call.item.key)

(* Item j of leaf u is ahead of a search with this path. *)
ToCome(pages, path, u, j) ==
  \/ Len(path) >= 1 /\ u = pages[0].root /\ path[1][2] < j
  \/ Len(path) >= 1 /\ \E i \in 1 .. Capacity : path[1][2] < i /\ ChildAt(pages, i, u)
  \/ Len(path) = 2 /\ u = path[2][1] /\ path[2][2] < j

Has(found, e) == \E n \in DOMAIN found : found[n] = e

(* The path goes from the root to a child of it, and every entry of the key  *)
(* has been found or is ahead.                                              *)
Complete(pages, path, key, found) ==
  /\ Len(path) <= 2
  /\ Len(path) >= 1 => path[1][1] = pages[0].root
  /\ Len(path) = 2 => ChildAt(pages, path[1][2], path[2][1])
  /\ \A u \in VertexIds, j \in 1 .. Capacity :
       LeafSlot(pages, u, j) /\ At(pages, u, j).key = key
         => Has(found, At(pages, u, j)) \/ ToCome(pages, path, u, j)

SearchFlat ==
  ~skewed /\ call.op = "search" /\ ~call.skipped
    => Complete(page, call.path, call.key, call.found)

(* What a finished search has done. *)
Finished ==
  ~skewed /\ call.op = "done" /\ ~call.skipped =>
    /\ call.row = NoRow => \A e \in entries : e.key = call.key => Has(call.found, e)
    /\ call.row # NoRow => OneTaken(call.before, entries, call.key, call.row)

FInv == IInv /\ FlatOK /\ InsertFlat /\ SearchFlat /\ Finished

(* Between the calls only the tree counts. *)
LEMMA IdleFlat ==
  ASSUME IInv', FlatOK', call'.op = "idle"
  PROVE  FInv'
BY DEF FInv, InsertFlat, SearchFlat, Finished

LEMMA InitFlat == Init => FInv
<1> SUFFICES ASSUME Init PROVE FInv
  OBVIOUS
<1>1. IInv
  BY InitInv
<1>2. page[0] = EmptyRoot /\ call.op = "idle"
  <2>1. 0 \in VertexIds
    OBVIOUS
  <2> QED BY <2>1 DEF Init, Idle
<1>3. page[0].root = 0 /\ page[0].total = 1 /\ page[0].isleaf /\ Len(page[0].data) = 0
  BY <1>2 DEF EmptyRoot
<1>4. Alloc(page) = {0} /\ \A i, u : ~ChildAt(page, i, u)
  BY <1>3 DEF Alloc, ChildAt, InnerSlot
<1>5. Sorted(page[0].data)
  BY <1>3 DEF Sorted
<1>6. FlatOK
  BY <1>3, <1>4, <1>5 DEF FlatOK, Flat, Divided
<1> QED BY <1>1, <1>2, <1>6 DEF FInv, InsertFlat, SearchFlat, Finished

LEMMA CreateFlat ==
  ASSUME FInv, NEW n \in Recreations, createIndex(n)
  PROVE  FInv'
<1>1. IInv'
  BY CreateStep DEF FInv
<1>2. page'[0] = EmptyRoot /\ call'.op = "idle"
  <2>1. page \in [VertexIds -> Vertex] /\ 0 \in VertexIds
    BY DEF FInv, IInv, Tree, Shape
  <2> QED BY <2>1 DEF createIndex, Ready, Idle
<1>3. page'[0].root = 0 /\ page'[0].total = 1 /\ page'[0].isleaf /\ Len(page'[0].data) = 0
  BY <1>2 DEF EmptyRoot
<1>4. Alloc(page') = {0} /\ \A i, u : ~ChildAt(page', i, u)
  BY <1>3 DEF Alloc, ChildAt, InnerSlot
<1>5. Sorted(page'[0].data)
  BY <1>3 DEF Sorted
<1>6. FlatOK'
  BY <1>3, <1>4, <1>5 DEF FlatOK, Flat, Divided
<1> QED BY <1>1, <1>2, <1>6, IdleFlat

(* addKey *)
LEMMA AddKeyFlat ==
  ASSUME FInv, NEW r \in Rows, addKey(r), IInv'
  PROVE  FInv'
<1> DEFINE root  == page[0].root
           grown == GrownRoot(page)
           s     == page[0].total
           new   == BTree_split_child(grown, s, 1)
<1>0. PICK item : Adds(r, item)
  BY AddKeyItem
<1>1. Tree(page) /\ Kept(page, entries) /\ Shape(page)
  BY DEF FInv, IInv, Tree
<1>2. root \in Alloc(page) /\ root \in VertexIds
  <2>1. root \in Alloc(page)
    BY <1>1 DEF Shape
  <2> QED BY <1>1, <2>1, VertexFacts
<1>3. Tree(page') /\ InnerOK(page')
  BY DEF IInv, Tree
<1>4. ASSUME call'.op = "insert", call'.u = page'[0].root, FlatOK' PROVE FInv'
  <2>1. \A i \in 1 .. Capacity : ~ChildAt(page', i, page'[0].root)
    <3> SUFFICES ASSUME NEW i \in 1 .. Capacity, ChildAt(page', i, page'[0].root) PROVE FALSE
      OBVIOUS
    <3>1. page'[0].root \in VertexIds
      <4>1. Shape(page')
        BY <1>3 DEF Tree
      <4>2. page'[0].root \in Alloc(page')
        BY <4>1 DEF Shape
      <4> QED BY <4>1, <4>2, VertexFacts
    <3> QED BY <1>3, <3>1 DEF ChildAt, InnerOK
  <2> QED BY <1>4, <2>1 DEF FInv, InsertFlat, SearchFlat, Finished
<1>5. CASE ~Full(page[root])
  <2>1. page' = page /\ skewed' = skewed /\ call' = [op |-> "insert", u |-> root, item |-> item]
    BY <1>0, <1>5 DEF Adds
  <2>2. FlatOK'
    BY <2>1 DEF FInv, FlatOK
  <2> QED BY <1>4, <2>1, <2>2
<1>6. CASE Full(page[root])
  <2>1. s + 1 < MaxVertices
    <3>1. s \in 0 .. MaxVertices
      BY <1>1 DEF Shape, Vertex
    <3> QED BY <1>0, <3>1 DEF Adds, Room
  <2>2. IsGrown(page, grown, s)
    BY <1>1, <2>1, GrownPages
  <2>3. grown[0].root = s
    BY <2>2 DEF IsGrown
  <2>4. Tree(grown) /\ Splittable(grown, s, 1)
    <3>1. Len(page[root].data) = Capacity
      BY <1>6 DEF Full, Size
    <3> HIDE DEF grown
    <3> QED BY <1>1, <2>1, <2>2, <3>1, GrownTree
  <2>5. /\ page' = new /\ skewed' = (skewed \/ Skews(grown, s, 1))
        /\ call' = [op |-> "insert", u |-> s, item |-> item]
    BY <1>0, <1>6, <2>3 DEF Adds
  <2> HIDE DEF grown
  <2>6. PICK y, z : y = At(grown, s, 1).value /\ z = grown[0].total
    OBVIOUS
  <2>7. Shape(grown) /\ InnerOK(grown) /\ LeavesOK(grown)
    BY <2>4 DEF Tree
  <2>8. IsSplit(grown, new, s, 1, y, z)
    BY <2>4, <2>6, <2>7, SplitPages
  <2>9. page'[0].root = s
    BY <2>3, <2>5, <2>8 DEF IsSplit
  <2>10. FlatOK'
    <3> SUFFICES ASSUME ~skewed' PROVE Flat(new)
      BY <2>5 DEF FlatOK
    <3>1. ~skewed /\ Flat(page) /\ grown[grown[s].data[1].value].isleaf
      BY <2>5 DEF FInv, FlatOK, Skews
    <3>2. page[root].isleaf
      <4>1. grown[s].data[1].value = root
        BY <2>2 DEF IsGrown, Item
      <4>2. root # s
        BY <1>1, <1>2 DEF Shape, Alloc
      <4> QED BY <1>2, <2>2, <3>1, <4>1, <4>2 DEF IsGrown
    <3>3. Flat(grown)
      BY <1>1, <2>1, <2>2, <3>1, <3>2, GrownFlat
    <3>4. Len(grown[s].data) = 1
      BY <2>2 DEF IsGrown
    <3>5. Rekeyed(grown[s].data, new[s].data, 1, grown[y].data[T1 + 1].key)
      <4>1. new[s].data = ParentAfterSplit(grown[s].data, 1, z, grown[y].data[T1 + 1].key)
        BY <2>4, <2>6, <2>7, SplitParent
      <4>2. /\ grown[s].data \in Seq(Slot) /\ z \in VertexIds
        <5>1. s \in VertexIds /\ z \in VertexIds /\ grown \in [VertexIds -> Vertex]
          BY <2>4, <2>6, <2>7, SplitPlaces
        <5> QED BY <5>1 DEF Vertex
      <4>3. 1 \in 1 .. Len(grown[s].data) /\ Len(grown[s].data) - 1 <= 2
        BY <3>4
      <4> QED BY <4>1, <4>2, <4>3, ParentKeys
    <3>6. Tree(new)
      BY <1>3, <2>5
    <3>7. Len(grown[s].data) - 1 <= 2
      BY <3>4
    <3> HIDE DEF new
    <3> QED BY <2>3, <2>4, <2>6, <2>8, <3>3, <3>5, <3>6, <3>7, SplitFlat
  <2>11. call'.op = "insert" /\ call'.u = s
    BY <2>5
  <2> QED BY <1>4, <2>9, <2>10, <2>11
<1> QED BY <1>5, <1>6

LEMMA LoadRowFlat == ASSUME FInv, LoadRow PROVE FInv'
<1>1. IInv'
  BY LoadRowStep DEF FInv
<1>2. load.next \in Rows
  <2>1. /\ load \in [next : Nat, size : TableSizes \cup Recreations] /\ load.next < load.size
    BY DEF LoadRow, Loading, FInv, IInv, LoadOK
  <2>2. load.size \in Nat /\ 0 .. load.size - 1 \subseteq Rows /\ load.next \in Nat
    BY <2>1
  <2> QED BY <2>1, <2>2
<1> QED BY <1>1, <1>2, AddKeyFlat DEF LoadRow

LEMMA AddRowFlat == ASSUME FInv, NEW r \in Rows, AddRow(r) PROVE FInv'
<1>1. IInv'
  BY AddRowStep DEF FInv
<1> QED BY <1>1, AddKeyFlat DEF AddRow

(* BTree_insert_nonfull in a leaf *)
LEMMA InsertLeafFlat == ASSUME FInv, InsertLeaf PROVE FInv'
<1>1. /\ IInv' /\ Tree(page) /\ Shape(page) /\ LeavesOK(page) /\ InsertOK
      /\ page \in [VertexIds -> Vertex]
  BY InsertLeafStep DEF FInv, IInv, Tree, Shape
<1>2. call \in Inserts /\ call.op = "insert"
  BY Calls DEF InsertLeaf, FInv, IInv
<1>3. PICK u, e : u = call.u /\ e = call.item
  OBVIOUS
<1>4. /\ u \in VertexIds /\ u \in Alloc(page) /\ e \in Entry
      /\ Len(page[u].data) < Capacity /\ page[u].isleaf
  BY <1>1, <1>2, <1>3 DEF InsertOK, Inserts, InsertLeaf
<1>5. PICK p, data : data = page[u].data /\ p = Place(data, Len(data), e.key)
  OBVIOUS
<1>6. /\ data \in Seq(Slot) /\ Len(data) \in Nat /\ Len(data) < Capacity
      /\ p \in 1 .. Len(data) + 1 /\ RightPlace(data, Len(data), e.key, p)
  <2>1. data \in Seq(Slot) /\ Len(data) \in Nat
    BY <1>1, <1>4, <1>5, VertexFacts
  <2> QED BY <1>4, <1>5, <2>1, PlaceFound
<1>7. page' = [page EXCEPT ![u].data = Inserted(data, p, e)] /\ call'.op = "idle" /\ skewed' = skewed
  BY <1>3, <1>5 DEF InsertLeaf, Inserted, Idle
<1>8. FlatOK'
  <2> SUFFICES ASSUME ~skewed PROVE Flat(page')
    BY <1>7 DEF FlatOK
  <2>1. Flat(page)
    BY DEF FInv, FlatOK
  <2>2. PICK items : items = Inserted(data, p, e)
    OBVIOUS
  <2>3. /\ items \in Seq(Slot) /\ Len(items) = Len(data) + 1
        /\ \A k \in 1 .. Len(data) + 1 :
             items[k] = IF k < p THEN data[k] ELSE IF k = p THEN e ELSE data[k - 1]
    <3>1. e \in Slot
      BY <1>4 DEF Entry, Slot
    <3>2. items \in Seq(Slot) /\ IsInserted(data, p, e, items)
      BY <1>6, <2>2, <3>1, InsertedAt
    <3> QED BY <3>2 DEF IsInserted
  <2>4. IsRefill(page, page', u, items)
    BY <1>1, <1>4, <1>7, <2>2, <2>3, RefillPages
  <2>5. Sorted(items)
    <3>1. Sorted(data)
      BY <1>4, <1>5, <2>1 DEF Flat
    <3>2. ASSUME NEW k \in 1 .. Len(data) PROVE data[k].key \in Keys
      <4>1. LeafSlot(page, u, k) /\ k \in 1 .. Capacity
        BY <1>4, <1>5, <1>6 DEF LeafSlot
      <4>2. At(page, u, k) \in Entry
        BY <1>1, <1>4, <4>1 DEF LeavesOK
      <4> QED BY <1>5, <4>2 DEF Entry, At
    <3> QED BY <1>4, <1>6, <2>2, <3>1, <3>2, InsertSorted
  <2>6. PICK above : above = page[page[0].root].data
    OBVIOUS
  <2>7. ASSUME NEW i \in 1 .. Capacity, NEW j \in 1 .. Len(items), ChildAt(page, i, u)
        PROVE  Within(above, i, items[j].key)
    <3>1. Within(above, i, e.key)
      BY <1>2, <1>3, <2>6, <2>7 DEF FInv, InsertFlat
    <3>2. ASSUME NEW k \in 1 .. Len(data) PROVE Within(above, i, data[k].key)
      <4>1. LeafSlot(page, u, k) /\ k \in 1 .. Capacity
        BY <1>4, <1>5, <1>6 DEF LeafSlot
      <4>2. Within(above, i, At(page, u, k).key)
        BY <1>4, <2>1, <2>6, <2>7, <4>1 DEF Flat, Divided
      <4> QED BY <1>5, <4>2 DEF At
    <3>3. j \in 1 .. Len(data) + 1
      BY <2>3
    <3>4. CASE j < p
      <4>1. j \in 1 .. Len(data) /\ items[j] = data[j]
        BY <1>6, <2>3, <3>3, <3>4
      <4> QED BY <3>2, <4>1
    <3>5. CASE j = p
      <4>1. items[j] = e
        BY <1>6, <2>3, <3>3, <3>5
      <4> QED BY <3>1, <4>1
    <3>6. CASE j > p
      <4>1. j - 1 \in 1 .. Len(data) /\ items[j] = data[j - 1]
        BY <1>6, <2>3, <3>3, <3>6
      <4> QED BY <3>2, <4>1
    <3> QED BY <1>6, <3>3, <3>4, <3>5, <3>6
  <2>8. Len(items) \in 0 .. Capacity
    BY <1>6, <2>3
  <2> QED BY <1>1, <1>4, <2>1, <2>4, <2>5, <2>6, <2>7, <2>8, RefillFlat
<1> QED BY <1>1, <1>7, <1>8, IdleFlat

(* Place has found the child that may hold the key. *)
LEMMA PlaceWithin ==
  ASSUME NEW data, NEW n \in Nat \ {0}, n = Len(data), NEW key \in Keys,
         Keyed(data, n - 1), NEW p \in 1 .. n, RightPlace(data, n - 1, key, p)
  PROVE  Within(data, p, key)
<1>1. ASSUME p > 1 PROVE data[p - 1].key <= key
  <2>1. p - 1 \in 1 .. n - 1 /\ p # 1
    BY <1>1
  <2>2. data[p - 1].key \in Int /\ ~(key < data[p - 1].key) /\ key \in Int
    BY <2>1 DEF Keyed, RightPlace
  <2> QED BY <2>2
<1>2. ASSUME p < n PROVE key <= data[p].key
  <2>1. p \in p .. n - 1 /\ p \in 1 .. n - 1
    BY <1>2
  <2>2. data[p].key \in Int /\ key < data[p].key /\ key \in Int
    BY <2>1 DEF Keyed, RightPlace
  <2> QED BY <2>2
<1> QED BY <1>1, <1>2 DEF Within

(* When that child is split, it is one of the two halves. *)
LEMMA SplitWithin ==
  ASSUME NEW data, NEW n \in Nat, n = Len(data), NEW p \in 1 .. n, NEW key \in Keys,
         Within(data, p, key), NEW after, Len(after) = n + 1, NEW middle \in Keys,
         Rekeyed(data, after, p, middle),
         NEW j, j = IF key > after[p].key THEN p + 1 ELSE p
  PROVE  Within(after, j, key)
<1>1. /\ after[p].key = middle /\ middle \in Int /\ key \in Int
      /\ p > 1 => after[p - 1].key = data[p - 1].key
      /\ p < n => after[p + 1].key = data[p].key
  <2>1. p > 1 => p - 1 \in 1 .. n /\ p - 1 < p
    OBVIOUS
  <2>2. p < n => p + 1 \in 1 .. n /\ ~(p + 1 < p) /\ p + 1 # p /\ (p + 1) - 1 = p
    OBVIOUS
  <2>3. \A i \in 1 .. n : after[i].key = IF i < p THEN data[i].key
                                        ELSE IF i = p THEN middle ELSE data[i - 1].key
    BY DEF Rekeyed
  <2>4. after[p].key = middle
    <3>1. p \in 1 .. n /\ ~(p < p)
      OBVIOUS
    <3> QED BY <2>3, <3>1
  <2>5. middle \in Int /\ key \in Int
    OBVIOUS
  <2>6. p > 1 => after[p - 1].key = data[p - 1].key
    BY <2>1, <2>3
  <2>7. p < n => after[p + 1].key = data[p].key
    BY <2>2, <2>3
  <2> QED BY <2>4, <2>5, <2>6, <2>7
<1>2. CASE key > middle
  <2>1. j = p + 1 /\ j > 1 /\ j - 1 = p /\ (j < n + 1 => p < n)
    BY <1>1, <1>2
  <2> QED BY <1>1, <1>2, <2>1 DEF Within
<1>3. CASE ~(key > middle)
  <2>1. j = p /\ key <= middle
    BY <1>1, <1>3
  <2> QED BY <1>1, <2>1 DEF Within
<1> QED BY <1>2, <1>3

(* A leaf at the right side of the separators next to it. *)
RightLeaf(pages, v, key) ==
  /\ pages[v].isleaf
  /\ \A i \in 1 .. Capacity :
       ChildAt(pages, i, v) => Within(pages[pages[0].root].data, i, key)

(* An insertion that has gone down to child j of the root is at a leaf. *)
LEMMA GoneDown ==
  ASSUME NEW pages, Tree(pages), Flat(pages), NEW root, root = pages[0].root,
         NEW j, InnerSlot(pages, root, j), NEW v, v = At(pages, root, j).value,
         NEW key, Within(pages[root].data, j, key)
  PROVE  RightLeaf(pages, v, key)
<1>1. Shape(pages) /\ InnerOK(pages) /\ ChildOnce(pages) /\ root \in Alloc(pages)
  BY DEF Tree, Shape
<1>2. root \in VertexIds /\ j \in 1 .. Capacity
  <2>1. root \in VertexIds /\ Len(pages[root].data) \in 0 .. Capacity
    BY <1>1, VertexFacts
  <2> QED BY <2>1 DEF InnerSlot
<1>3. v \in Alloc(pages) \ {root}
  BY <1>1, <1>2 DEF InnerOK
<1>4. pages[v].isleaf
  BY <1>3 DEF Flat
<1>5. ASSUME NEW i \in 1 .. Capacity, ChildAt(pages, i, v) PROVE i = j
  BY <1>1, <1>2, <1>5 DEF ChildAt, ChildOnce
<1> QED BY <1>4, <1>5 DEF RightLeaf

(* BTree_insert_nonfull in an inner vertex *)
LEMMA InsertBelowFlat == ASSUME FInv, InsertBelow PROVE FInv'
<1>1. /\ IInv' /\ Tree(page) /\ Tree(page') /\ Shape(page) /\ InnerOK(page) /\ LeavesOK(page)
      /\ InsertOK
  <2>1. IInv'
    BY InsertBelowStep DEF FInv
  <2> QED BY <2>1 DEF FInv, IInv, Tree
<1>2. call \in Inserts /\ call.op = "insert"
  BY Calls DEF InsertBelow, FInv, IInv
<1>3. PICK u, key : u = call.u /\ key = call.item.key
  OBVIOUS
<1>4. /\ u \in VertexIds /\ u \in Alloc(page) /\ key \in Keys /\ ~page[u].isleaf
      /\ Len(page[u].data) < Capacity
  BY <1>1, <1>2, <1>3 DEF InsertOK, Inserts, InsertBelow, Entry
<1>5. /\ Len(page[u].data) \in 1 .. Capacity /\ page \in [VertexIds -> Vertex]
      /\ page[u].data \in Seq(Slot)
  BY <1>1, <1>4, VertexFacts
<1>6. PICK data, n : data = page[u].data /\ n = Len(data)
  OBVIOUS
<1>7. PICK p : p = Place(data, n - 1, key)
  OBVIOUS
<1>8. /\ n \in Nat \ {0} /\ n \in 1 .. Capacity /\ p \in 1 .. n
      /\ RightPlace(data, n - 1, key, p)
  <2>1. n \in Nat \ {0} /\ n \in 1 .. Capacity /\ n - 1 \in Nat /\ (n - 1) + 1 = n
    BY <1>5, <1>6
  <2>2. p \in 1 .. (n - 1) + 1 /\ RightPlace(data, n - 1, key, p)
    BY <1>7, <2>1, PlaceFound
  <2> QED BY <2>1, <2>2
<1>9. Within(data, p, key)
  <2>1. ASSUME NEW i \in 1 .. n - 1 PROVE data[i].key \in Keys
    <3>1. InnerSlot(page, u, i) /\ i \in 1 .. Capacity /\ i < Len(page[u].data)
      BY <1>4, <1>6, <1>8 DEF InnerSlot
    <3> QED BY <1>1, <1>4, <1>6, <3>1 DEF InnerOK, At
  <2>2. Keyed(data, n - 1)
    BY <2>1 DEF Keyed
  <2> QED BY <1>4, <1>6, <1>8, <2>2, PlaceWithin
<1>10. PICK y : y = data[p].value
  OBVIOUS
<1>11. ASSUME ~skewed PROVE u = page[0].root /\ Flat(page)
  BY <1>2, <1>3, <1>4, <1>11 DEF FInv, FlatOK, InsertFlat
<1>12. ASSUME NEW v, call'.op = "insert", call'.u = v, call'.item.key = key,
              ~skewed' => Flat(page') /\ RightLeaf(page', v, key)
       PROVE  FInv'
  BY <1>1, <1>12 DEF RightLeaf, FInv, FlatOK, InsertFlat, SearchFlat, Finished
<1>13. ASSUME NEW v, call' = [call EXCEPT !.u = v]
       PROVE  call'.op = "insert" /\ call'.u = v /\ call'.item.key = key
  BY <1>2, <1>3, <1>13 DEF Inserts
<1>14. CASE ~Full(page[y])
  <2>1. page' = page /\ skewed' = skewed /\ call' = [call EXCEPT !.u = y]
    BY <1>3, <1>6, <1>7, <1>10, <1>14 DEF InsertBelow, Size
  <2>2. ASSUME ~skewed'
        PROVE  Flat(page') /\ RightLeaf(page', y, key)
    <3>1. u = page[0].root /\ Flat(page)
      BY <1>11, <2>1, <2>2
    <3>2. InnerSlot(page, u, p) /\ y = At(page, u, p).value
      BY <1>4, <1>6, <1>8, <1>10 DEF InnerSlot, At
    <3>3. RightLeaf(page, y, key)
      <4>1. Within(page[u].data, p, key)
        BY <1>6, <1>9
      <4>2. Tree(page) /\ Flat(page)
        BY <1>1, <3>1
      <4> QED BY <3>1, <3>2, <4>1, <4>2, GoneDown
    <3> QED BY <2>1, <3>1, <3>3
  <2> QED BY <1>12, <1>13, <2>1, <2>2
<1>15. CASE Full(page[y])
  <2> DEFINE new == BTree_split_child(page, u, p)
             j   == IF key > new[u].data[p].key THEN p + 1 ELSE p
  <2>1. /\ RoomToSplit /\ page' = new /\ skewed' = (skewed \/ Skews(page, u, p))
        /\ call' = [call EXCEPT !.u = new[u].data[j].value]
    BY <1>3, <1>6, <1>7, <1>10, <1>15 DEF InsertBelow, Size
  <2>2. Splittable(page, u, p)
    BY <1>4, <1>6, <1>8, <1>10, <1>15, <2>1 DEF Splittable, RoomToSplit, Full, Size, At
  <2>3. PICK z : z = page[0].total
    OBVIOUS
  <2>4. y = At(page, u, p).value
    BY <1>6, <1>10 DEF At
  <2>5. IsSplit(page, new, u, p, y, z)
    BY <1>1, <2>2, <2>3, <2>4, SplitPages
  <2>6. PICK v : v = new[u].data[j].value
    OBVIOUS
  <2>7. ASSUME ~skewed'
        PROVE  Flat(page') /\ RightLeaf(page', v, key)
    <3>1. u = page[0].root /\ Flat(page) /\ page[y].isleaf /\ n - p <= 2
      <4>1. ~skewed /\ ~Skews(page, u, p)
        BY <2>1, <2>7
      <4>2. ~(n - p >= 3)
        BY <1>6, <4>1 DEF Skews, Size
      <4>3. page[y].isleaf
        BY <1>6, <1>10, <4>1 DEF Skews
      <4>4. n - p <= 2
        BY <1>8, <4>2
      <4> QED BY <1>11, <4>1, <4>3, <4>4
    <3>2. PICK middle : middle = page[y].data[T1 + 1].key
      OBVIOUS
    <3>3. /\ z \in VertexIds /\ y \in VertexIds /\ y \in Alloc(page)
          /\ Len(page[y].data) = Capacity
      BY <1>1, <2>2, <2>3, <2>4, SplitPlaces
    <3>4. middle \in Keys
      <4>1. T1 + 1 \in 1 .. Capacity
        BY Halves
      <4>2. LeafSlot(page, y, T1 + 1)
        BY <3>1, <3>3, <4>1 DEF LeafSlot
      <4>3. At(page, y, T1 + 1) \in Entry
        BY <1>1, <3>3, <4>1, <4>2 DEF LeavesOK
      <4> QED BY <3>2, <4>3 DEF Entry, At
    <3>5. Rekeyed(data, new[u].data, p, middle)
      <4>1. new[u].data = ParentAfterSplit(data, p, z, middle)
        BY <1>1, <1>6, <2>2, <2>3, <2>4, <3>2, SplitParent
      <4>2. data \in Seq(Slot) /\ p \in 1 .. Len(data) /\ Len(data) - p <= 2
        BY <1>5, <1>6, <1>8, <3>1
      <4> QED BY <3>3, <4>1, <4>2, ParentKeys
    <3>6. Tree(new)
      BY <1>1, <2>1
    <3> HIDE DEF new
    <3>7. Flat(new)
      BY <1>1, <1>6, <2>2, <2>3, <2>4, <2>5, <3>1, <3>2, <3>5, <3>6, SplitFlat
    <3>8. new[0].root = u /\ Len(new[u].data) = n + 1 /\ ~new[u].isleaf
      <4>1. z # u
        BY <1>1, <2>2, <2>3, <2>4, SplitPlaces
      <4> QED BY <1>4, <1>6, <2>5, <3>1, <4>1 DEF IsSplit, OneMore
    <3>9. Within(new[u].data, j, key)
      BY <1>4, <1>6, <1>8, <1>9, <3>4, <3>5, <3>8, SplitWithin
    <3>10. InnerSlot(new, u, j)
      <4>1. j \in 1 .. n + 1
        BY <1>8
      <4>2. u \in Alloc(new)
        <5>1. Shape(new)
          BY <3>6 DEF Tree
        <5> QED BY <3>8, <5>1 DEF Shape
      <4> HIDE DEF j
      <4> QED BY <3>8, <4>1, <4>2 DEF InnerSlot
    <3>11. v = At(new, u, j).value
      BY <2>6 DEF At
    <3> HIDE DEF j
    <3>12. RightLeaf(new, v, key)
      BY <3>6, <3>7, <3>8, <3>9, <3>10, <3>11, GoneDown
    <3> QED BY <2>1, <3>7, <3>8, <3>12
  <2>8. call' = [call EXCEPT !.u = v]
    BY <2>1, <2>6
  <2> HIDE DEF new, j
  <2> QED BY <1>12, <1>13, <2>7, <2>8
<1> QED BY <1>14, <1>15

-----------------------------------------------------------------------------
(* The steps of a search. *)

(* A vertex other than the root of a flat tree is not an inner vertex. *)
LEMMA FlatChild ==
  ASSUME NEW pages, Tree(pages), Flat(pages), NEW i \in Nat, NEW u, ChildAt(pages, i, u)
  PROVE  /\ pages[u].isleaf /\ u # pages[0].root /\ ~pages[pages[0].root].isleaf
         /\ i \in 1 .. Capacity
<1> DEFINE root == pages[0].root
<1>1. Shape(pages) /\ InnerOK(pages) /\ root \in Alloc(pages)
  BY DEF Tree, Shape
<1>2. root \in VertexIds /\ Len(pages[root].data) \in 0 .. Capacity
  BY <1>1, VertexFacts
<1>3. InnerSlot(pages, root, i) /\ At(pages, root, i).value = u
  BY DEF ChildAt
<1>4. i \in 1 .. Capacity /\ ~pages[root].isleaf
  BY <1>2, <1>3 DEF InnerSlot
<1>5. u \in Alloc(pages) \ {root}
  BY <1>1, <1>2, <1>3, <1>4 DEF InnerOK
<1> QED BY <1>4, <1>5 DEF Flat

(* A path of at most two vertices. *)
LEMMA PathLength ==
  ASSUME NEW S, NEW path \in Seq(S), path # <<>>, Len(path) <= 2
  PROVE  Len(path) = 1 \/ Len(path) = 2
<1>1. PICK n : n = Len(path)
  OBVIOUS
<1>2. n \in Nat \ {0} /\ n <= 2
  BY <1>1, LenProperties, EmptySeq
<1>3. n = 1 \/ n = 2
  BY <1>2
<1> QED BY <1>1, <1>3

(* findKey and deleteKey *)
LEMMA BeginFlat ==
  ASSUME FInv, IInv', NEW key, NEW row, call' = Search(key, row),
         UNCHANGED <<page, load, entries, skewed>>
  PROVE  FInv'
<1> DEFINE root == page[0].root
<1>1. Shape(page)
  BY DEF FInv, IInv, Tree
<1>2. PICK path, found : path = <<<<root, 0>>>> /\ found = <<>>
  OBVIOUS
<1>3. /\ call'.op = "search" /\ call'.path = path /\ call'.key = key /\ call'.found = found
  BY <1>2 DEF Search
<1>4. Len(path) = 1 /\ path[1][1] = root /\ path[1][2] = 0
  BY <1>2
<1>5. ASSUME ~skewed PROVE Complete(page, path, key, found)
  <2>1. Flat(page)
    BY <1>5 DEF FInv, FlatOK
  <2>2. ASSUME NEW u \in VertexIds, NEW j \in 1 .. Capacity, LeafSlot(page, u, j)
        PROVE  ToCome(page, path, u, j)
    <3>1. CASE u = root
      <4>1. 0 < j
        OBVIOUS
      <4> QED BY <1>4, <3>1, <4>1 DEF ToCome
    <3>2. CASE u # root
      <4>1. u \in Alloc(page)
        BY <2>2 DEF LeafSlot
      <4>2. PICK i \in 1 .. Capacity : ChildAt(page, i, u)
        BY <2>1, <3>2, <4>1 DEF Flat
      <4>3. 0 < i
        OBVIOUS
      <4> QED BY <1>4, <4>2, <4>3 DEF ToCome
    <3> QED BY <3>1, <3>2
  <2> QED BY <1>4, <2>2 DEF Complete
<1> QED BY <1>3, <1>5 DEF FInv, FlatOK, InsertFlat, SearchFlat, Finished

LEMMA findKeyFlat == ASSUME FInv, NEW key \in Sought, findKey(key) PROVE FInv'
<1>1. IInv'
  BY findKeyStep DEF FInv
<1> QED BY <1>1, BeginFlat DEF findKey

LEMMA deleteKeyFlat == ASSUME FInv, NEW r \in Removed, deleteKey(r) PROVE FInv'
<1>1. IInv'
  BY deleteKeyStep DEF FInv
<1> QED BY <1>1, BeginFlat DEF deleteKey

(* Only the place of a search has changed, or what it has found. *)
LEMMA SearchGoesOn ==
  ASSUME FInv, IInv', UNCHANGED <<page, skewed>>, call'.op = "search",
         ~skewed /\ ~call'.skipped => Complete(page, call'.path, call'.key, call'.found)
  PROVE  FInv'
BY DEF FInv, FlatOK, InsertFlat, SearchFlat, Finished

(* A search that takes an entry it has come to. *)
LEMMA TakeFlat ==
  ASSUME FInv, NEW i \in 1 .. Capacity, FoundEntry(i), Cur.data[i].value # call.row
  PROVE  FInv'
<1>1. IInv /\ IInv' /\ Tree(page) /\ Searching
  <2>1. IInv
    BY DEF FInv
  <2>2. IInv'
    BY <2>1, TakeStep
  <2> QED BY <2>1, <2>2 DEF FoundEntry, IInv
<1>2. PICK path, u, found, pos :
        /\ path = call.path /\ u = path[Len(path)][1] /\ found = call.found
        /\ pos = path[Len(path)][2]
  OBVIOUS
<1>3. /\ path \in Seq(VertexIds \X Nat) /\ path # <<>> /\ call \in Searches /\ call.op = "search"
  BY <1>1, <1>2, SearchFacts
<1>4. PICK moved, e : moved = MoveLast(path, i) /\ e = page[u].data[i]
  OBVIOUS
<1>5. /\ page[u].isleaf
      /\ \A j \in 1 .. i - 1 : ~(pos < j /\ page[u].data[j].key = call.key)
      /\ page' = page /\ skewed' = skewed
      /\ call' = [call EXCEPT !.path = moved, !.found = Append(@, e)]
  BY <1>2, <1>4 DEF FoundEntry, FirstMatch, Matches, Cur, Top, MovedTo, MoveLast
<1>6. PICK after : after = Append(found, e)
  OBVIOUS
<1>7. /\ call'.op = "search" /\ call'.path = moved /\ call'.key = call.key
      /\ call'.found = after /\ call'.skipped = call.skipped
  BY <1>2, <1>3, <1>5, <1>6 DEF Searches
<1>8. Has(after, e) /\ \A v : Has(found, v) => Has(after, v)
  <2>1. found \in Seq(Entry)
    BY <1>2, <1>3 DEF Searches
  <2>2. /\ DOMAIN after = 1 .. Len(found) + 1 /\ DOMAIN found = 1 .. Len(found)
        /\ Len(found) \in Nat /\ after[Len(found) + 1] = e
        /\ \A n \in 1 .. Len(found) : after[n] = found[n]
    <3>1. e \in Entry
      <4>1. Shape(page) /\ LeavesOK(page)
        BY <1>1 DEF Tree
      <4>2. PICK V \in SUBSET Alloc(page) : u \in V
        BY <1>1, <1>2, SearchFacts
      <4>3. u \in VertexIds /\ u \in Alloc(page) /\ page[u].data \in Seq(Slot)
        BY <4>1, <4>2, VertexFacts
      <4>4. i \in DOMAIN page[u].data
        BY <1>2 DEF FoundEntry, Cur, Top
      <4>5. LeafSlot(page, u, i)
        BY <1>5, <4>3, <4>4, LenProperties DEF LeafSlot
      <4>6. At(page, u, i) \in Entry
        BY <4>1, <4>3, <4>5 DEF LeavesOK
      <4> QED BY <1>4, <4>6 DEF At
    <3> QED BY <1>6, <2>1, <3>1, AppendProperties, LenProperties
  <2>3. Len(found) + 1 \in DOMAIN after
    BY <2>2
  <2>4. \A n \in DOMAIN found : n \in DOMAIN after /\ after[n] = found[n]
    BY <2>2
  <2> QED BY <2>2, <2>3, <2>4 DEF Has
<1>9. ASSUME ~skewed, ~call.skipped PROVE Complete(page, moved, call.key, after)
  <2>1. Flat(page) /\ Complete(page, path, call.key, found)
    BY <1>2, <1>3, <1>9 DEF FInv, FlatOK, SearchFlat
  <2>2. /\ Len(path) \in Nat \ {0} /\ DOMAIN path = 1 .. Len(path)
        /\ Len(moved) = Len(path)
        /\ \A k \in 1 .. Len(path) : moved[k] = IF k = Len(path) THEN <<u, i>> ELSE path[k]
    <3>1. IsMoved(path, moved, i)
      <4>1. i \in Nat
        OBVIOUS
      <4> QED BY <1>3, <1>4, <4>1, MovedPath
    <3>2. Len(path) \in Nat \ {0} /\ DOMAIN path = 1 .. Len(path)
      BY <1>3, LenProperties, EmptySeq
    <3>3. DOMAIN moved = 1 .. Len(moved) /\ Len(moved) \in Nat /\ DOMAIN moved = DOMAIN path
      BY <3>1, LenProperties DEF IsMoved
    <3>4. Len(moved) = Len(path)
      <4>1. PICK a, b : a = Len(moved) /\ b = Len(path)
        OBVIOUS
      <4>2. a \in Nat /\ b \in Nat \ {0} /\ 1 .. a = 1 .. b
        BY <3>2, <3>3, <4>1
      <4>3. b \in 1 .. a /\ b + 1 \notin 1 .. a
        BY <4>2
      <4> QED BY <4>1, <4>2, <4>3
    <3> QED BY <1>2, <3>1, <3>2, <3>4 DEF IsMoved
  <2>3. Len(path) = 1 \/ Len(path) = 2
    <3>1. Len(path) <= 2
      BY <2>1 DEF Complete
    <3> QED BY <1>3, <3>1, PathLength
  <2>4. ASSUME NEW j \in 1 .. Capacity, page[u].data[j].key = call.key, pos < j, ~(i < j)
        PROVE  Has(after, page[u].data[j])
    <3>1. j = i
      BY <1>5, <2>4
    <3> QED BY <1>4, <1>8, <3>1
  <2>5. CASE Len(path) = 1
    <3>1. Len(moved) = 1 /\ moved[1] = <<u, i>> /\ u = page[0].root /\ path[1][1] = u /\ path[1][2] = pos
      BY <1>2, <2>1, <2>2, <2>5 DEF Complete
    <3>2. \A k, w : ~ChildAt(page, k, w)
      BY <1>5, <3>1 DEF ChildAt, InnerSlot
    <3>3. ASSUME NEW w \in VertexIds, NEW j \in 1 .. Capacity,
                 LeafSlot(page, w, j), At(page, w, j).key = call.key
          PROVE  Has(after, At(page, w, j)) \/ ToCome(page, moved, w, j)
      <4>1. Has(found, At(page, w, j)) \/ ToCome(page, path, w, j)
        BY <2>1, <3>3 DEF Complete
      <4>2. CASE Has(found, At(page, w, j))
        BY <1>8, <4>2
      <4>3. CASE ToCome(page, path, w, j)
        <5>1. w = u /\ pos < j
          BY <2>5, <3>1, <3>2, <4>3 DEF ToCome
        <5>2. CASE i < j
          BY <3>1, <5>1, <5>2 DEF ToCome
        <5>3. CASE ~(i < j)
          BY <2>4, <3>3, <5>1, <5>3 DEF At
        <5> QED BY <5>2, <5>3
      <4> QED BY <4>1, <4>2, <4>3
    <3> QED BY <3>1, <3>3 DEF Complete
  <2>6. CASE Len(path) = 2
    <3>1. /\ Len(moved) = 2 /\ moved[1] = path[1] /\ moved[2] = <<u, i>>
          /\ path[2][1] = u /\ path[2][2] = pos
      BY <1>2, <2>2, <2>6
    <3>2. path[1][1] = page[0].root /\ ChildAt(page, path[1][2], u)
      BY <2>1, <2>6, <3>1 DEF Complete
    <3>3. ASSUME NEW w \in VertexIds, NEW j \in 1 .. Capacity,
                 LeafSlot(page, w, j), At(page, w, j).key = call.key
          PROVE  Has(after, At(page, w, j)) \/ ToCome(page, moved, w, j)
      <4>1. Has(found, At(page, w, j)) \/ ToCome(page, path, w, j)
        BY <2>1, <3>3 DEF Complete
      <4>2. CASE Has(found, At(page, w, j))
        BY <1>8, <4>2
      <4>3. CASE ToCome(page, path, w, j) /\ ~(w = u /\ pos < j)
        BY <2>6, <3>1, <4>3 DEF ToCome
      <4>4. CASE w = u /\ pos < j
        <5>1. CASE i < j
          BY <3>1, <4>4, <5>1 DEF ToCome
        <5>2. CASE ~(i < j)
          BY <2>4, <3>3, <4>4, <5>2 DEF At
        <5> QED BY <5>1, <5>2
      <4> QED BY <4>1, <4>2, <4>3, <4>4
    <3> QED BY <3>1, <3>2, <3>3 DEF Complete
  <2> QED BY <2>3, <2>5, <2>6
<1> QED BY <1>1, <1>5, <1>7, <1>9, SearchGoesOn

(* A search that removes the entry of the row to delete. *)
LEMMA RemoveFlat ==
  ASSUME FInv, NEW i \in 1 .. Capacity, FoundEntry(i), Cur.data[i].value = call.row
  PROVE  FInv'
<1>1. IInv /\ IInv' /\ Tree(page) /\ Shape(page) /\ LeavesOK(page) /\ Searching
  <2>1. IInv
    BY DEF FInv
  <2>2. IInv'
    BY <2>1, RemoveStep
  <2> QED BY <2>1, <2>2 DEF FoundEntry, IInv, Tree
<1>2. PICK path, u, e : path = call.path /\ u = path[Len(path)][1] /\ e = page[u].data[i]
  OBVIOUS
<1>3. call \in Searches /\ call.op = "search"
  BY <1>1, <1>2, SearchFacts
<1>4. PICK V \in SUBSET Alloc(page) : u \in V
  BY <1>1, <1>2, SearchFacts
<1>5. /\ page[u].isleaf /\ i \in DOMAIN page[u].data
      /\ e.key = call.key /\ e.value = call.row
      /\ page' = [page EXCEPT ![u].data = Without(page[u].data, i)]
      /\ entries' = entries \ {e} /\ skewed' = skewed
      /\ call' = [call EXCEPT !.op = "done"]
  BY <1>2 DEF FoundEntry, FirstMatch, Matches, Cur, Top, Without
<1>6. /\ u \in VertexIds /\ u \in Alloc(page) /\ e = At(page, u, i) /\ e \in Entry
      /\ page[u].data \in Seq(Slot) /\ i \in 1 .. Len(page[u].data)
      /\ Len(page[u].data) \in 0 .. Capacity
  <2>1. /\ u \in VertexIds /\ u \in Alloc(page) /\ page[u].data \in Seq(Slot)
        /\ Len(page[u].data) \in 0 .. Capacity
    BY <1>1, <1>4, VertexFacts
  <2>2. i \in 1 .. Len(page[u].data)
    BY <1>5, <2>1, LenProperties
  <2>3. LeafSlot(page, u, i) /\ e = At(page, u, i)
    BY <1>2, <1>5, <2>1, <2>2 DEF LeafSlot, At
  <2>4. e \in Entry
    BY <1>1, <2>1, <2>3 DEF LeavesOK
  <2> QED BY <2>1, <2>2, <2>3, <2>4
<1>7. FlatOK'
  <2> SUFFICES ASSUME ~skewed PROVE Flat(page')
    BY <1>5 DEF FlatOK
  <2>1. Flat(page)
    BY DEF FInv, FlatOK
  <2>2. PICK data, items : data = page[u].data /\ items = Without(data, i)
    OBVIOUS
  <2>3. /\ items \in Seq(Slot) /\ Len(items) = Len(data) - 1
        /\ \A k \in 1 .. Len(data) - 1 : items[k] = IF k < i THEN data[k] ELSE data[k + 1]
    <3>1. items \in Seq(Slot) /\ IsWithout(data, i, items)
      BY <1>6, <2>2, WithoutAt
    <3> QED BY <3>1 DEF IsWithout
  <2>4. IsRefill(page, page', u, items)
    <3>1. page \in [VertexIds -> Vertex]
      BY <1>1 DEF Shape
    <3> QED BY <1>5, <1>6, <2>2, <2>3, <3>1, RefillPages
  <2>5. Sorted(items)
    <3>1. Sorted(data)
      BY <1>5, <1>6, <2>1, <2>2 DEF Flat
    <3> QED BY <1>6, <2>2, <3>1, WithoutSorted
  <2>6. ASSUME NEW k \in 1 .. Capacity, NEW j \in 1 .. Len(items), ChildAt(page, k, u)
        PROVE  Within(page[page[0].root].data, k, items[j].key)
    <3>1. PICK l \in 1 .. Len(data) : items[j] = data[l]
      <4>1. j \in 1 .. Len(data) - 1 /\ j \in 1 .. Len(data) /\ j + 1 \in 1 .. Len(data)
        BY <1>6, <2>2, <2>3
      <4> QED BY <2>3, <4>1
    <3>2. LeafSlot(page, u, l) /\ l \in 1 .. Capacity /\ At(page, u, l) = items[j]
      BY <1>5, <1>6, <2>2, <3>1 DEF LeafSlot, At
    <3>3. Within(page[page[0].root].data, k, At(page, u, l).key)
      BY <1>6, <2>1, <2>6, <3>2 DEF Flat, Divided
    <3> QED BY <3>2, <3>3
  <2>7. Len(items) \in 0 .. Capacity
    BY <1>6, <2>2, <2>3
  <2> QED BY <1>1, <1>5, <1>6, <2>1, <2>4, <2>5, <2>6, <2>7, RefillFlat
<1>8. /\ call'.op = "done" /\ call'.key = call.key /\ call'.row = call.row
      /\ call'.before = call.before
  BY <1>3, <1>5 DEF Searches
<1>9. call'.row # NoRow /\ OneTaken(call'.before, entries', call'.key, call'.row)
  <2>1. e.value \in Rows
    BY <1>6 DEF Entry
  <2>2. e \in call.before /\ entries = call.before
    <3>1. SearchOK /\ Kept(page, entries)
      BY <1>1 DEF IInv
    <3>2. LeafSlot(page, u, i)
      BY <1>5, <1>6 DEF LeafSlot
    <3>3. i \in 1 .. Capacity /\ u \in VertexIds
      BY <1>6
    <3> QED BY <1>3, <1>6, <3>1, <3>2, <3>3 DEF SearchOK, Kept
  <2>3. OneTaken(call.before, call.before \ {e}, call.key, call.row)
    BY <1>5, <2>2 DEF OneTaken
  <2> QED BY <1>5, <1>8, <2>1, <2>2, <2>3
<1> QED BY <1>1, <1>7, <1>8, <1>9 DEF FInv, InsertFlat, SearchFlat, Finished

(* A child the search does not stop at has no entry of the key. *)
LEMMA NoMatchBelow ==
  ASSUME NEW pages, Flat(pages), NEW k \in 1 .. Capacity, NEW w \in VertexIds,
         NEW j \in 1 .. Capacity, ChildAt(pages, k, w), LeafSlot(pages, w, j),
         NEW data, data = pages[pages[0].root].data, NEW n, n = Len(data)
  PROVE  /\ k > 1 => data[k - 1].key <= At(pages, w, j).key
         /\ k < n => At(pages, w, j).key <= data[k].key
BY DEF Flat, Divided, Within

(* A child that may hold the key is gone into, or dropped. *)
LEMMA DescendFlat == ASSUME FInv, NEW i \in 1 .. Capacity, Descend(i) PROVE FInv'
<1>1. IInv /\ IInv' /\ Tree(page) /\ Searching /\ UNCHANGED <<page, skewed>>
  <2>1. IInv
    BY DEF FInv
  <2>2. IInv'
    BY <2>1, DescendStep
  <2> QED BY <2>1, <2>2 DEF Descend, IInv
<1>2. PICK path, u, pos : /\ path = call.path /\ u = path[Len(path)][1]
                          /\ pos = path[Len(path)][2]
  OBVIOUS
<1>3. PICK moved, c : moved = MoveLast(path, i) /\ c = page[u].data[i].value
  OBVIOUS
<1>4. /\ path \in Seq(VertexIds \X Nat) /\ path # <<>> /\ call \in Searches /\ call.op = "search"
      /\ path[Len(path)] \in VertexIds \X Nat
  BY <1>1, <1>2, SearchFacts
<1>5. PICK n, data : n = Len(data) /\ data = page[u].data
  OBVIOUS
<1>6. /\ ~page[u].isleaf /\ i \in DOMAIN data
      /\ \A k \in 1 .. i - 1 :
           ~(/\ pos < k
             /\ k > 1 => data[k - 1].key <= call.key
             /\ k < n => call.key <= data[k].key)
  <2>1. Cur = page[u] /\ Top[2] = pos /\ Size(Cur) = n
    BY <1>2, <1>5 DEF Cur, Top, Size
  <2> QED BY <1>5, <2>1 DEF Descend, FirstMatch, Matches
<1>7. PICK dropped \in BOOLEAN :
        \E room : call' = [call EXCEPT !.path = IF dropped THEN moved ELSE Append(moved, <<c, 0>>),
                                       !.room = room, !.skipped = @ \/ dropped]
  BY <1>2, <1>3 DEF Descend, Cur, Top, MovedTo, MoveLast
<1>8. /\ call'.op = "search" /\ call'.key = call.key /\ call'.found = call.found
      /\ call'.skipped = (call.skipped \/ dropped)
      /\ call'.path = IF dropped THEN moved ELSE Append(moved, <<c, 0>>)
  BY <1>4, <1>7 DEF Searches
<1>9. c \in VertexIds
  <2>1. PICK V \in SUBSET Alloc(page) : u \in V
    BY <1>1, <1>2, SearchFacts
  <2>2. Shape(page) /\ InnerOK(page)
    BY <1>1 DEF Tree
  <2>3. u \in VertexIds /\ u \in Alloc(page) /\ data \in Seq(Slot)
    BY <1>5, <2>1, <2>2, VertexFacts
  <2>4. InnerSlot(page, u, i) /\ At(page, u, i).value = c
    BY <1>3, <1>5, <1>6, <2>3, LenProperties DEF InnerSlot, At
  <2>5. c \in Alloc(page)
    BY <2>2, <2>3, <2>4 DEF InnerOK
  <2> QED BY <2>2, <2>5, VertexFacts
<1>10. ASSUME ~skewed, ~call'.skipped PROVE Complete(page, call'.path, call.key, call.found)
  <2>1. /\ ~dropped /\ Flat(page) /\ Complete(page, path, call.key, call.found)
    BY <1>2, <1>4, <1>8, <1>10 DEF FInv, FlatOK, SearchFlat
  <2>2. Len(path) = 1 \/ Len(path) = 2
    <3>1. Len(path) <= 2
      BY <2>1 DEF Complete
    <3> QED BY <1>4, <3>1, PathLength
  <2>3. Len(path) # 2
    <3> SUFFICES ASSUME Len(path) = 2 PROVE FALSE
      OBVIOUS
    <3>1. ChildAt(page, path[1][2], u)
      BY <1>2, <2>1 DEF Complete
    <3>2. path[1][2] \in Nat
      <4>1. path[1] \in VertexIds \X Nat
        BY <1>4, ElementOfSeq
      <4> QED BY <4>1
    <3>3. page[u].isleaf
      BY <1>1, <2>1, <3>1, <3>2, FlatChild
    <3> QED BY <1>6, <3>3
  <2>4. Len(path) = 1 /\ u = page[0].root /\ path[1][2] = pos
    BY <1>2, <2>1, <2>2, <2>3 DEF Complete
  <2>5. PICK next : next = call'.path
    OBVIOUS
  <2>6. Len(next) = 2 /\ next[1] = <<u, i>> /\ next[2] = <<c, 0>>
    <3>1. IsMoved(path, moved, i)
      <4>1. i \in Nat
        OBVIOUS
      <4> QED BY <1>3, <1>4, <4>1, MovedPath
    <3>2. moved \in Seq(VertexIds \X Nat) /\ DOMAIN moved = 1 .. 1
      <4>1. DOMAIN path = 1 .. 1
        BY <1>4, <2>4, LenProperties
      <4> QED BY <3>1, <4>1 DEF IsMoved
    <3>3. moved[1] = <<u, i>>
      <4>1. 1 \in DOMAIN path /\ 1 = Len(path)
        BY <1>4, <2>4, LenProperties
      <4>2. moved[1] = IF 1 = Len(path) THEN <<path[1][1], i>> ELSE path[1]
        BY <3>1, <4>1 DEF IsMoved
      <4>3. path[1][1] = u
        BY <1>2, <2>4
      <4> QED BY <4>1, <4>2, <4>3
    <3>4. Len(moved) = 1
      <4>1. PICK m : m = Len(moved)
        OBVIOUS
      <4>2. m \in Nat /\ 1 .. m = 1 .. 1
        BY <3>2, <4>1, LenProperties
      <4>3. 1 \in 1 .. m /\ 2 \notin 1 .. m
        BY <4>2
      <4> QED BY <4>1, <4>2, <4>3
    <3>5. next = Append(moved, <<c, 0>>)
      BY <1>8, <2>1, <2>5
    <3>6. Len(next) = 2 /\ next[1] = moved[1] /\ next[2] = <<c, 0>>
      <4>1. <<c, 0>> \in VertexIds \X Nat
        BY <1>9
      <4>2. PICK S, e : S = VertexIds \X Nat /\ e = <<c, 0>>
        OBVIOUS
      <4>3. moved \in Seq(S) /\ e \in S /\ next = Append(moved, e)
        BY <3>2, <3>5, <4>1, <4>2
      <4>4. /\ Len(next) = Len(moved) + 1 /\ next[Len(moved) + 1] = e
            /\ \A k \in 1 .. Len(moved) : next[k] = moved[k]
        BY <4>3, AppendProperties
      <4> QED BY <3>4, <4>2, <4>4
    <3> QED BY <3>3, <3>6
  <2>7. ChildAt(page, i, c)
    <3>1. u \in Alloc(page) /\ data \in Seq(Slot)
      <4>1. Shape(page)
        BY <1>1 DEF Tree
      <4>2. u \in Alloc(page)
        BY <2>4, <4>1 DEF Shape
      <4> QED BY <1>5, <4>1, <4>2, VertexFacts
    <3>2. i \in 1 .. Len(page[u].data)
      BY <1>5, <1>6, <3>1, LenProperties
    <3> QED BY <1>3, <1>6, <2>4, <3>1, <3>2 DEF ChildAt, InnerSlot, At
  <2>8. ASSUME NEW w \in VertexIds, NEW j \in 1 .. Capacity,
               LeafSlot(page, w, j), At(page, w, j).key = call.key
        PROVE  Has(call.found, At(page, w, j)) \/ ToCome(page, next, w, j)
    <3>1. Has(call.found, At(page, w, j)) \/ ToCome(page, path, w, j)
      BY <2>1, <2>8 DEF Complete
    <3>2. ASSUME ToCome(page, path, w, j) PROVE ToCome(page, next, w, j)
      <4>1. w # u
        BY <1>6, <2>8 DEF LeafSlot
      <4>2. PICK k \in 1 .. Capacity : pos < k /\ ChildAt(page, k, w)
        BY <2>4, <3>2, <4>1 DEF ToCome
      <4>3. CASE k > i
        BY <2>6, <4>2, <4>3 DEF ToCome
      <4>4. CASE k = i
        <5>1. w = c /\ 0 < j
          BY <2>7, <4>2, <4>4 DEF ChildAt
        <5> QED BY <2>6, <5>1 DEF ToCome
      <4>5. CASE k < i
        <5>1. k \in 1 .. i - 1
          BY <4>5
        <5>2. /\ k > 1 => data[k - 1].key <= call.key
              /\ k < n => call.key <= data[k].key
          BY <1>5, <2>1, <2>4, <2>8, <4>2, NoMatchBelow
        <5> QED BY <1>6, <4>2, <5>1, <5>2
      <4> QED BY <4>3, <4>4, <4>5
    <3> QED BY <3>1, <3>2
  <2>9. Complete(page, next, call.key, call.found)
    BY <2>4, <2>6, <2>7, <2>8 DEF Complete
  <2> QED BY <2>5, <2>9
<1> QED BY <1>1, <1>8, <1>10, SearchGoesOn

(* Nothing is left in the current vertex: it held nothing of the key ahead   *)
(* of the search, or none of its remaining children does.                   *)
LEMMA AscendFlat == ASSUME FInv, Ascend PROVE FInv'
<1>1. /\ IInv /\ IInv' /\ Tree(page) /\ Shape(page) /\ Searching
      /\ UNCHANGED <<page, skewed>>
  <2>1. IInv
    BY DEF FInv
  <2>2. IInv'
    BY <2>1, AscendStep
  <2> QED BY <2>1, <2>2 DEF Ascend, IInv, Tree
<1>2. PICK path, u, pos : /\ path = call.path /\ u = path[Len(path)][1]
                          /\ pos = path[Len(path)][2]
  OBVIOUS
<1>3. PICK next : next = SubSeq(path, 1, Len(path) - 1)
  OBVIOUS
<1>4. /\ path \in Seq(VertexIds \X Nat) /\ path # <<>> /\ call \in Searches /\ call.op = "search"
      /\ \E V \in SUBSET Alloc(page) : u \in V
  BY <1>1, <1>2, SearchFacts
<1>5. PICK n, data : n = Len(data) /\ data = page[u].data
  OBVIOUS
<1>6. /\ u \in VertexIds /\ u \in Alloc(page) /\ DOMAIN data = 1 .. n
  <2>1. u \in VertexIds /\ u \in Alloc(page) /\ data \in Seq(Slot)
    BY <1>1, <1>4, <1>5, VertexFacts
  <2> QED BY <1>5, <2>1, LenProperties
<1>7. \A i \in 1 .. n :
        ~(/\ pos < i
          /\ IF page[u].isleaf THEN data[i].key = call.key
             ELSE /\ i > 1 => data[i - 1].key <= call.key
                  /\ i < n => call.key <= data[i].key)
  <2>1. Cur = page[u] /\ Top[2] = pos /\ Size(Cur) = n
    BY <1>2, <1>5 DEF Cur, Top, Size
  <2> QED BY <1>5, <1>6, <2>1 DEF Ascend, Matches
<1>8. /\ call'.op = "search" /\ call'.key = call.key /\ call'.found = call.found
      /\ call'.skipped = call.skipped /\ call'.path = next
  <2>1. call' = [call EXCEPT !.path = next]
    BY <1>2, <1>3 DEF Ascend, Popped
  <2> QED BY <1>4, <2>1 DEF Searches
<1>9. ASSUME ~skewed, ~call.skipped PROVE Complete(page, next, call.key, call.found)
  <2>1. /\ Flat(page) /\ Complete(page, path, call.key, call.found)
    BY <1>2, <1>4, <1>9 DEF FInv, FlatOK, SearchFlat
  <2>2. /\ Len(path) = 1 \/ Len(path) = 2
        /\ Len(next) = Len(path) - 1
        /\ Len(path) = 2 => next[1] = path[1]
    <3>1. Len(path) = 1 \/ Len(path) = 2
      <4>1. Len(path) <= 2
        BY <2>1 DEF Complete
      <4> QED BY <1>4, <4>1, PathLength
    <3>2. PICK S, m : S = VertexIds \X Nat /\ m = Len(path) - 1
      OBVIOUS
    <3>3. path \in Seq(S) /\ 1 \in 1 .. Len(path) + 1 /\ m \in 1 - 1 .. Len(path)
      BY <1>4, <3>1, <3>2
    <3>4. Len(next) = m - 1 + 1 /\ \A k \in 1 .. m - 1 + 1 : next[k] = path[1 + k - 1]
      <4>1. next = SubSeq(path, 1, m)
        BY <1>3, <3>2
      <4> QED BY <3>3, <4>1, PartOf
    <3> QED BY <3>1, <3>2, <3>4
  <2>3. ASSUME NEW j \in 1 .. Capacity, LeafSlot(page, u, j), At(page, u, j).key = call.key
        PROVE  ~(pos < j)
    <3>1. j \in 1 .. n /\ page[u].isleaf /\ data[j].key = call.key
      BY <1>5, <2>3 DEF LeafSlot, At
    <3> QED BY <1>7, <3>1
  <2>4. CASE Len(path) = 1
    <3>1. u = page[0].root /\ path[1][2] = pos /\ path[1][1] = u
      BY <1>2, <2>1, <2>4 DEF Complete
    <3>2. ASSUME NEW w \in VertexIds, NEW j \in 1 .. Capacity,
                 LeafSlot(page, w, j), At(page, w, j).key = call.key
          PROVE  ~ToCome(page, path, w, j)
      <4>1. ~(w = page[0].root /\ path[1][2] < j)
        BY <2>3, <3>1, <3>2
      <4>2. ASSUME NEW k \in 1 .. Capacity, path[1][2] < k, ChildAt(page, k, w) PROVE FALSE
        <5>1. /\ k > 1 => data[k - 1].key <= call.key
              /\ k < n => call.key <= data[k].key
          BY <1>5, <2>1, <3>1, <3>2, <4>2, NoMatchBelow
        <5>2. ~page[u].isleaf /\ k \in 1 .. n
          BY <1>5, <3>1, <4>2 DEF ChildAt, InnerSlot
        <5> QED BY <1>7, <3>1, <4>2, <5>1, <5>2
      <4> QED BY <2>4, <4>1, <4>2 DEF ToCome
    <3>3. \A w \in VertexIds, j \in 1 .. Capacity :
            LeafSlot(page, w, j) /\ At(page, w, j).key = call.key
              => Has(call.found, At(page, w, j))
      BY <2>1, <3>2 DEF Complete
    <3>4. Len(next) = 0
      BY <2>2, <2>4
    <3> QED BY <3>3, <3>4 DEF Complete
  <2>5. CASE Len(path) = 2
    <3>1. Len(next) = 1 /\ next[1] = path[1] /\ u = path[2][1] /\ pos = path[2][2]
      BY <1>2, <2>2, <2>5
    <3>2. path[1][1] = page[0].root
      BY <2>1, <2>5 DEF Complete
    <3>3. ASSUME NEW w \in VertexIds, NEW j \in 1 .. Capacity,
                 LeafSlot(page, w, j), At(page, w, j).key = call.key,
                 ToCome(page, path, w, j)
          PROVE  ToCome(page, next, w, j)
      <4>1. ~(w = path[2][1] /\ path[2][2] < j)
        BY <2>3, <3>1, <3>3
      <4> QED BY <2>5, <3>1, <3>3, <4>1 DEF ToCome
    <3>4. \A w \in VertexIds, j \in 1 .. Capacity :
            LeafSlot(page, w, j) /\ At(page, w, j).key = call.key
              => Has(call.found, At(page, w, j)) \/ ToCome(page, next, w, j)
      BY <2>1, <3>3 DEF Complete
    <3> QED BY <3>1, <3>2, <3>4 DEF Complete
  <2> QED BY <2>2, <2>4, <2>5
<1> QED BY <1>1, <1>8, <1>9, SearchGoesOn

(* The path is empty: nothing is ahead. *)
LEMMA EndSearchFlat == ASSUME FInv, EndSearch PROVE FInv'
<1>1. /\ IInv /\ IInv' /\ Kept(page, entries) /\ entries \subseteq Entry /\ SearchOK
      /\ UNCHANGED <<page, entries, skewed>> /\ call.op = "search" /\ call.path = <<>>
  <2>1. IInv
    BY DEF FInv
  <2>2. IInv'
    BY <2>1, EndSearchStep
  <2> QED BY <2>1, <2>2 DEF EndSearch, IInv
<1>2. /\ call'.op = "done" /\ call'.key = call.key /\ call'.found = call.found
      /\ call'.skipped = call.skipped /\ call'.row = call.row /\ call'.before = call.before
  <2>1. call \in Searches
    BY <1>1, Calls DEF IInv
  <2> QED BY <2>1 DEF EndSearch, Searches
<1>3. ASSUME ~skewed, ~call.skipped, NEW e \in entries, e.key = call.key
      PROVE  Has(call.found, e)
  <2>1. Complete(page, call.path, call.key, call.found)
    BY <1>1, <1>3 DEF FInv, SearchFlat
  <2>2. PICK u \in VertexIds, i \in 1 .. Capacity : LeafSlot(page, u, i) /\ At(page, u, i) = e
    BY <1>1 DEF Kept
  <2>3. ~ToCome(page, call.path, u, i)
    <3>1. Len(call.path) = 0
      BY <1>1
    <3> QED BY <3>1 DEF ToCome
  <2> QED BY <1>3, <2>1, <2>2, <2>3 DEF Complete
<1>4. ASSUME ~skewed, ~call.skipped
      PROVE  OneTaken(call.before, entries, call.key, call.row)
  <2>1. entries = call.before
    BY <1>1 DEF SearchOK
  <2>2. ASSUME NEW e \in entries, e.key = call.key, e.value = call.row PROVE FALSE
    <3>1. Has(call.found, e)
      BY <1>3, <1>4, <2>2
    <3> QED BY <1>1, <2>2, <3>1 DEF SearchOK, Has
  <2> QED BY <2>1, <2>2 DEF OneTaken
<1>5. FlatOK'
  BY <1>1 DEF FInv, FlatOK
<1>6. Finished'
  BY <1>1, <1>2, <1>3, <1>4 DEF Finished
<1> QED BY <1>1, <1>2, <1>5, <1>6 DEF FInv, InsertFlat, SearchFlat

LEMMA ReturnFlat == ASSUME FInv, Return PROVE FInv'
<1>1. IInv'
  BY ReturnStep DEF FInv
<1>2. call'.op = "idle" /\ UNCHANGED <<page, skewed>>
  BY DEF Return, Idle
<1>3. FlatOK'
  BY <1>2 DEF FInv, FlatOK
<1> QED BY <1>1, <1>2, <1>3, IdleFlat

LEMMA NextFlat == FInv /\ [Next]_vars => FInv'
<1> SUFFICES ASSUME FInv, [Next]_vars PROVE FInv'
  OBVIOUS
<1>1. ASSUME NEW n \in Recreations, createIndex(n) PROVE FInv'
  BY <1>1, CreateFlat
<1>2. ASSUME NEW r \in Rows, AddRow(r) PROVE FInv'
  BY <1>2, AddRowFlat
<1>3. ASSUME NEW key \in Sought, findKey(key) PROVE FInv'
  BY <1>3, findKeyFlat
<1>4. ASSUME NEW r \in Removed, deleteKey(r) PROVE FInv'
  BY <1>4, deleteKeyFlat
<1>5. CASE LoadRow
  BY <1>5, LoadRowFlat
<1>6. CASE InsertLeaf
  BY <1>6, InsertLeafFlat
<1>7. CASE InsertBelow
  BY <1>7, InsertBelowFlat
<1>8. ASSUME NEW i \in 1 .. Capacity, FoundEntry(i) PROVE FInv'
  <2>1. CASE Cur.data[i].value = call.row
    BY <1>8, <2>1, RemoveFlat
  <2>2. CASE Cur.data[i].value # call.row
    BY <1>8, <2>2, TakeFlat
  <2> QED BY <2>1, <2>2
<1>9. ASSUME NEW i \in 1 .. Capacity, Descend(i) PROVE FInv'
  BY <1>9, DescendFlat
<1>10. CASE Ascend
  BY <1>10, AscendFlat
<1>11. CASE EndSearch
  BY <1>11, EndSearchFlat
<1>12. CASE Return
  BY <1>12, ReturnFlat
<1>13. CASE UNCHANGED vars
  <2>1. IInv'
    BY <1>13, NextInv DEF FInv
  <2>2. FlatOK'
    BY <1>13 DEF vars, FInv, FlatOK
  <2>3. InsertFlat'
    BY <1>13 DEF vars, FInv, InsertFlat
  <2>4. SearchFlat'
    BY <1>13 DEF vars, FInv, SearchFlat
  <2>5. Finished'
    BY <1>13 DEF vars, FInv, Finished
  <2> QED BY <2>1, <2>2, <2>3, <2>4, <2>5 DEF FInv
<1> QED
  BY <1>1, <1>2, <1>3, <1>4, <1>5, <1>6, <1>7, <1>8, <1>9, <1>10, <1>11, <1>12, <1>13
  DEF Next, Step

LEMMA FlatInvariant == Spec => []FInv
BY InitFlat, NextFlat, PTL DEF Spec

(* While no split has skewed the separators and no child was dropped, a      *)
(* finished search for a key has returned every entry of it, one that was    *)
(* added twice as often.                                                    *)
THEOREM SearchesAreComplete == Spec => []SearchComplete
<1>1. FInv => SearchComplete
  BY DEF FInv, Finished, SearchComplete, Has
<1> QED BY <1>1, FlatInvariant, PTL

(* Under the same provisos a finished deletion of a row has taken one entry  *)
(* of it out of the index, wherever in the run of equal keys it was, if     *)
(* there was one, and nothing else.                                         *)
THEOREM DeletesTakeEffect == Spec => []DeleteEffective
<1>1. FInv => DeleteEffective
  BY DEF FInv, Finished, DeleteEffective
<1> QED BY <1>1, FlatInvariant, PTL

-----------------------------------------------------------------------------
(* The entries below a vertex.  Below is an equation over all pages, those   *)
(* that an earlier index has left included: it has a solution because an    *)
(* inner page, in use or not, points to pages.                              *)

Pointers(pages) ==
  \A u \in VertexIds, i \in 1 .. Capacity :
    ~pages[u].isleaf /\ i \in 1 .. Len(pages[u].data) => At(pages, u, i).value \in VertexIds

SamePage(v, w) == v.isleaf = w.isleaf /\ v.data = w.data

(* No step writes to a page that is not in use after it. *)
LEMMA UnusedKept ==
  ASSUME NEW pages, Tree(pages), NEW new, PageStep(pages, new),
         NEW w \in VertexIds, w \notin Alloc(new)
  PROVE  SamePage(new[w], pages[w])
<1>1. /\ Shape(pages) /\ InnerOK(pages) /\ LeavesOK(pages) /\ 0 \in VertexIds
      /\ pages \in [VertexIds -> Vertex]
  BY DEF Tree, Shape
<1>2. CASE new = pages
  BY <1>2 DEF SamePage
<1>3. CASE new = [pages EXCEPT ![0] = EmptyRoot]
  <2>1. new[0].total = 1
    BY <1>1, <1>3 DEF EmptyRoot
  <2>2. w # 0
    BY <2>1 DEF Alloc
  <2> QED BY <1>1, <1>3, <2>2 DEF SamePage
<1>4. ASSUME NEW u \in Alloc(pages), NEW items \in Seq(Slot), pages[u].isleaf,
             IsRefill(pages, new, u, items)
      PROVE  SamePage(new[w], pages[w])
  <2>1. Alloc(new) = Alloc(pages)
    BY <1>1, <1>4 DEF IsRefill, Alloc
  <2>2. w # u
    BY <2>1
  <2> QED BY <1>4, <2>2 DEF IsRefill, SamePage
<1>5. ASSUME NEW before, Shape(before), InnerOK(before), LeavesOK(before),
             NEW u, NEW index, Splittable(before, u, index), new = BTree_split_child(before, u, index)
      PROVE  SamePage(new[w], before[w]) /\ w \notin Alloc(before)
  <2>1. PICK y, z : y = At(before, u, index).value /\ z = before[0].total
    OBVIOUS
  <2>2. IsSplit(before, new, u, index, y, z)
    BY <1>5, <2>1, SplitPages
  <2>3. u \in Alloc(before) /\ y \in Alloc(before) /\ z \in VertexIds
    BY <1>5, <2>1, SplitPlaces
  <2>4. new[0].total = z + 1 /\ before[0].total = z
    BY <2>1, <2>2 DEF IsSplit
  <2>5. w \notin Alloc(before) /\ w # z
    BY <2>3, <2>4 DEF Alloc
  <2> QED BY <2>2, <2>3, <2>5 DEF IsSplit, SamePage
<1>6. ASSUME NEW s, s = pages[0].total, s + 1 < MaxVertices,
             Len(pages[pages[0].root].data) = Capacity,
             new = BTree_split_child(GrownRoot(pages), s, 1)
      PROVE  SamePage(new[w], pages[w])
  <2>1. PICK grown : grown = GrownRoot(pages)
    OBVIOUS
  <2>2. IsGrown(pages, grown, s)
    BY <1>1, <1>6, <2>1, GrownPages
  <2>3. Kept(pages, {e \in Entry : \E u \in VertexIds, i \in 1 .. Capacity :
                                     LeafSlot(pages, u, i) /\ At(pages, u, i) = e})
    BY DEF Kept
  <2>4. Tree(grown) /\ Splittable(grown, s, 1)
    BY <1>6, <2>2, <2>3, GrownTree
  <2>5. SamePage(new[w], grown[w]) /\ w \notin Alloc(grown)
    BY <1>5, <1>6, <2>1, <2>4 DEF Tree
  <2>6. w # s
    BY <2>4, <2>5 DEF Splittable
  <2> QED BY <2>2, <2>5, <2>6 DEF IsGrown, SamePage
<1>7. ASSUME NEW u, NEW index, Splittable(pages, u, index),
             new = BTree_split_child(pages, u, index)
      PROVE  SamePage(new[w], pages[w])
  BY <1>1, <1>5, <1>7
<1> QED BY <1>2, <1>3, <1>4, <1>6, <1>7 DEF PageStep

PInv == IInv /\ Pointers(page)

LEMMA PointersInvariant == Spec => []PInv
<1>1. Init => PInv
  <2> SUFFICES ASSUME Init PROVE PInv
    OBVIOUS
  <2>1. \A u \in VertexIds : page[u].isleaf \/ page[u].data = <<>>
    BY DEF Init, EmptyRoot, Unwritten
  <2>2. Pointers(page)
    BY <2>1 DEF Pointers
  <2> QED BY <2>2, InitInv DEF PInv
<1>2. PInv /\ [Next]_vars => PInv'
  <2> SUFFICES ASSUME PInv, [Next]_vars PROVE PInv'
    OBVIOUS
  <2>1. IInv' /\ PageStep(page, page') /\ Tree(page) /\ Pointers(page)
    BY NextInv, PageSteps DEF PInv, IInv
  <2>2. Tree(page')
    BY <2>1 DEF IInv
  <2>3. ASSUME NEW u \in VertexIds, NEW i \in 1 .. Capacity,
               ~page'[u].isleaf, i \in 1 .. Len(page'[u].data)
        PROVE  At(page', u, i).value \in VertexIds
    <3>1. CASE u \in Alloc(page')
      <4>1. At(page', u, i).value \in Alloc(page')
        BY <2>2, <2>3, <3>1 DEF Tree, InnerOK, InnerSlot
      <4> QED BY <2>2, <4>1, VertexFacts DEF Tree
    <3>2. CASE u \notin Alloc(page')
      <4>1. SamePage(page'[u], page[u])
        BY <2>1, <3>2, UnusedKept
      <4> QED BY <2>1, <2>3, <4>1 DEF SamePage, Pointers, At
    <3> QED BY <3>1, <3>2
  <2>4. Pointers(page')
    BY <2>3 DEF Pointers
  <2> QED BY <2>1, <2>4 DEF PInv
<1> QED BY <1>1, <1>2, PTL DEF Spec

BelowFrom(f) ==
  [u \in VertexIds |-> IF page[u].isleaf THEN ItemsOf(u) ELSE UNION {f[w] : w \in Children(u)}]

LEMMA BelowExists == ASSUME NEW f, f = BelowFrom(f) PROVE Below = BelowFrom(Below)
<1>1. Below = CHOOSE g : g = BelowFrom(g)
  BY DEF Below, BelowFrom
<1> QED BY <1>1, Zenon

Stored == UNION {ItemsOf(u) : u \in VertexIds}

(* What is below a child is below its parent. *)
Closed(P) ==
  \A u \in VertexIds : IF page[u].isleaf THEN ItemsOf(u) \subseteq P[u]
                       ELSE \A w \in Children(u) : P[w] \subseteq P[u]

(* The least such assignment solves the equation. *)
LEMMA BelowLeaf ==
  ASSUME PInv, NEW u \in VertexIds, page[u].isleaf
  PROVE  Below[u] = ItemsOf(u)
<1> DEFINE least == [v \in VertexIds |->
                       {e \in Stored : \A P \in [VertexIds -> SUBSET Stored] :
                                         Closed(P) => e \in P[v]}]
           next  == BelowFrom(least)
<1>1. \A v \in VertexIds : Children(v) \subseteq VertexIds
  <2> SUFFICES ASSUME NEW v \in VertexIds, NEW w \in Children(v) PROVE w \in VertexIds
    OBVIOUS
  <2>1. ~page[v].isleaf /\ \E i \in DOMAIN page[v].data : w = page[v].data[i].value
    BY DEF Children, ItemsOf
  <2>2. PICK i \in DOMAIN page[v].data : w = page[v].data[i].value
    BY <2>1
  <2>3. Shape(page)
    BY DEF PInv, IInv, Tree
  <2>4. page[v].data \in Seq(Slot) /\ Len(page[v].data) <= Capacity
    BY <2>3 DEF Shape, Vertex
  <2>5. i \in 1 .. Len(page[v].data) /\ i \in 1 .. Capacity
    BY <2>4, LenProperties
  <2> QED BY <2>1, <2>2, <2>5 DEF PInv, Pointers, At
<1>2. /\ \A v \in VertexIds, e \in Stored :
           e \in least[v] <=> \A P \in [VertexIds -> SUBSET Stored] : Closed(P) => e \in P[v]
      /\ \A v \in VertexIds : least[v] \subseteq Stored
  OBVIOUS
<1>3. least = [v \in VertexIds |-> least[v]]
  OBVIOUS
<1>4. \A v \in VertexIds : ItemsOf(v) \subseteq Stored
  BY DEF Stored
<1> HIDE DEF least
<1>5. ASSUME NEW v \in VertexIds
      PROVE  /\ page[v].isleaf => next[v] = ItemsOf(v)
             /\ ~page[v].isleaf => \A e : e \in next[v] <=> \E w \in Children(v) : e \in least[w]
  <2>1. next[v] = IF page[v].isleaf THEN ItemsOf(v) ELSE UNION {least[w] : w \in Children(v)}
    BY DEF BelowFrom
  <2> HIDE DEF next
  <2>2. ASSUME ~page[v].isleaf, NEW e
        PROVE  e \in next[v] <=> \E w \in Children(v) : e \in least[w]
    <3>1. next[v] = UNION {least[w] : w \in Children(v)}
      BY <2>1, <2>2
    <3> QED BY <3>1
  <2> QED BY <2>1, <2>2
<1>6. next = [v \in VertexIds |-> next[v]]
  BY DEF BelowFrom
<1> HIDE DEF next
<1>7. \A v \in VertexIds : next[v] \subseteq Stored
  <2> SUFFICES ASSUME NEW v \in VertexIds, NEW e \in next[v] PROVE e \in Stored
    OBVIOUS
  <2>1. CASE page[v].isleaf
    BY <1>4, <1>5, <2>1
  <2>2. CASE ~page[v].isleaf
    <3>1. PICK w \in Children(v) : e \in least[w]
      BY <1>5, <2>2
    <3> QED BY <1>1, <1>2, <3>1
  <2> QED BY <2>1, <2>2
<1>8. ASSUME NEW v \in VertexIds PROVE next[v] \subseteq least[v]
  <2> SUFFICES ASSUME NEW e \in next[v], NEW P \in [VertexIds -> SUBSET Stored], Closed(P)
               PROVE  e \in P[v]
    BY <1>2, <1>7
  <2>1. CASE page[v].isleaf
    BY <1>5, <2>1 DEF Closed
  <2>2. CASE ~page[v].isleaf
    <3>1. PICK w \in Children(v) : e \in least[w]
      BY <1>5, <2>2
    <3>2. w \in VertexIds /\ e \in Stored
      BY <1>1, <1>7
    <3>3. e \in P[w]
      BY <1>2, <3>1, <3>2
    <3> QED BY <2>2, <3>3 DEF Closed
  <2> QED BY <2>1, <2>2
<1>9. next \in [VertexIds -> SUBSET Stored]
  BY <1>6, <1>7
<1>10. Closed(next)
  <2>1. ASSUME NEW v \in VertexIds, ~page[v].isleaf, NEW w \in Children(v)
        PROVE  next[w] \subseteq next[v]
    <3>1. next[w] \subseteq least[w]
      BY <1>1, <1>8
    <3> QED BY <1>5, <2>1, <3>1
  <2> QED BY <1>5, <2>1 DEF Closed
<1>11. \A v \in VertexIds : least[v] \subseteq next[v]
  BY <1>2, <1>9, <1>10
<1>12. least = next
  <2>1. \A v \in VertexIds : least[v] = next[v]
    BY <1>8, <1>11
  <2>2. [v \in VertexIds |-> least[v]] = [v \in VertexIds |-> next[v]]
    BY <2>1
  <2> QED BY <1>3, <1>6, <2>2
<1>13. Below = BelowFrom(Below)
  BY <1>12, BelowExists DEF next
<1>14. BelowFrom(Below)[u] = ItemsOf(u)
  BY DEF BelowFrom
<1> QED BY <1>13, <1>14

(* While no split has shifted separators too far or promoted the wrong one,  *)
(* the separators of every inner vertex divide the entries below it.        *)
THEOREM SeparatorsAreRight == Spec => []SeparatorsDivide
<1>1. FInv /\ PInv => SeparatorsDivide
  <2> SUFFICES ASSUME FInv, PInv, ~skewed,
                      NEW s \in InnerSlots, NEW t \in InnerSlots, t = <<s[1], s[2] + 1>>
               PROVE  /\ ItemAt(s).key # Junk
                      /\ \A e \in Below[ItemAt(s).value] : e.key <= ItemAt(s).key
                      /\ \A e \in Below[ItemAt(t).value] : ItemAt(s).key <= e.key
    BY DEF SeparatorsDivide
  <2>1. IInv /\ Shape(page) /\ InnerOK(page) /\ Flat(page)
    BY DEF FInv, IInv, Tree, FlatOK
  <2>2. PICK root, data : root = page[0].root /\ data = page[root].data
    OBVIOUS
  <2>3. PICK i, j : i = s[2] /\ j = t[2]
    OBVIOUS
  <2>4. ASSUME NEW r \in InnerSlots
        PROVE  /\ r[1] = root /\ r[2] \in 1 .. Capacity /\ InnerSlot(page, root, r[2])
               /\ ItemAt(r) = data[r[2]]
               /\ \A e \in Below[ItemAt(r).value] : Within(data, r[2], e.key)
    <3>1. r \in SlotsOf(Allocated) /\ r[1] \notin Leaves
      BY DEF InnerSlots, SlotsOf
    <3>2. /\ r[1] \in VertexIds /\ r[2] \in 1 .. Capacity
          /\ InnerSlot(page, r[1], r[2]) /\ ItemAt(r) = At(page, r[1], r[2])
      BY <2>1, <3>1, SlotFacts
    <3>3. r[1] = root
      BY <2>1, <2>2, <3>2 DEF Flat, InnerSlot
    <3>4. PICK v : v = ItemAt(r).value
      OBVIOUS
    <3>5. v \in Alloc(page) /\ v # root /\ ChildAt(page, r[2], v)
      BY <2>1, <2>2, <3>2, <3>3, <3>4 DEF InnerOK, ChildAt
    <3>6. v \in VertexIds /\ page[v].isleaf
      BY <2>1, <2>2, <3>5, VertexFacts DEF Flat
    <3>7. ASSUME NEW e \in Below[v] PROVE Within(data, r[2], e.key)
      <4>1. PICK k \in DOMAIN page[v].data : e = page[v].data[k]
        BY <3>6, BelowLeaf DEF ItemsOf
      <4>2. k \in 1 .. Len(page[v].data) /\ Len(page[v].data) \in 0 .. Capacity
        BY <2>1, <3>5, VertexFacts, LenProperties
      <4>3. k \in 1 .. Capacity /\ LeafSlot(page, v, k) /\ At(page, v, k) = e
        BY <3>5, <3>6, <4>1, <4>2 DEF LeafSlot, At
      <4> QED BY <2>1, <2>2, <3>2, <3>5, <3>6, <4>3 DEF Flat, Divided
    <3> QED BY <2>2, <3>2, <3>3, <3>4, <3>7 DEF At
  <2>5. /\ j = i + 1 /\ i \in 1 .. Capacity
        /\ i \in 1 .. Len(data) /\ j \in 1 .. Len(data)
    BY <2>2, <2>3, <2>4 DEF InnerSlot
  <2>6. Len(data) \in Nat /\ root \in VertexIds
    <3>1. root \in Alloc(page)
      BY <2>1, <2>2 DEF Shape
    <3> QED BY <2>1, <2>2, <3>1, VertexFacts
  <2>7. i < Len(data) /\ j > 1 /\ j - 1 = i
    BY <2>5, <2>6
  <2>8. data[i].key \in Keys
    BY <2>1, <2>2, <2>3, <2>4, <2>5, <2>6, <2>7 DEF InnerOK, At
  <2> QED BY <2>3, <2>4, <2>7, <2>8 DEF Within
<1> QED BY <1>1, FlatInvariant, PointersInvariant, PTL
=============================================================================
