----------------------------- MODULE DatabaseProofs -----------------------------
(***************************************************************************)
(* The catalogue, the rows and the index entries survive statements,       *)
(* exits, deaths and restarts, for every number of tables and rows; and    *)
(* the pages the statements see are those of the page store.               *)
(*                                                                         *)
(* The proof first leaves pages behind: what a set of pages shows is, for  *)
(* each table, the slots of its file, and its index entries.  A write      *)
(* changes one slot or the entries of one table; loads change nothing;     *)
(* a save moves some of the slots to the disk.                             *)
(***************************************************************************)
EXTENDS Database, CommonLemmas

Slots  == 0 .. MaxRows
Counts == {Count(n) : n \in 0 .. MaxRows}

-----------------------------------------------------------------------------
(* What pages show. *)

LoadedIn(P, p) ==
  [c \in Cells |->
     IF P[p][c] # Absent THEN P[p][c]
     ELSE IF p[1] = "table" /\ p[3] = 0 /\ c = 0 THEN Count(0) ELSE Junk]

Shown(P) == [i \in Places |-> [s \in Slots |-> LoadedIn(P, TablePage(i, s))[s % 2]]]
Keys(P)  == [i \in Places |-> LoadedIn(P, IndexPage(i))[0]]

PagesTyped(P) == P \in [PageIds -> [Cells -> Contents \cup {Absent}]]

ShownTyped(F) ==
  /\ F \in [Places -> [Slots -> Counts \cup Stored]]
  /\ \A i \in Places : F[i][0] \in Counts
  /\ \A i \in Places, s \in 1 .. MaxRows : F[i][s] \in Stored

KeysTyped(K) == K \in [Places -> {Junk} \cup Trees]

SizeIn(F, i) == F[i][0][2]
RowsIn(F, i) == [n \in 1 .. SizeIn(F, i) |-> F[i][n]]

(* The entries of rows, but for those at some positions. *)
AllBut(rows, out) ==
  [e \in Stored \X Pos |->
     IF e[2] < Len(rows) /\ e[2] \notin out /\ rows[e[2] + 1] = e[1] THEN 1 ELSE 0]

AllOf(rows) == AllBut(rows, {})

-----------------------------------------------------------------------------
(* The inductive invariant. *)

Entry     == [name : Names, kind : Kinds]
TableRec  == [name : Names, kind : Kinds, file : Kinds \cup {None}]
FoundRec  == [name : Names, kind : Kinds, rows : Seq(Stored)]
Phases    == {"off", "run", "opened", "flush"}

Typed ==
  /\ phase \in Phases /\ died \in Phases
  /\ meta = Missing \/ (meta \in Seq(Entry) /\ Len(meta) <= MaxTables)
  /\ tables \in Seq(TableRec) /\ Len(tables) <= MaxTables
  /\ \A i \in DOMAIN tables : tables[i].file \in {None, tables[i].kind}
  /\ log \in Seq(Seq(Stored)) /\ base \in Seq(FoundRec) /\ Len(base) <= MaxTables
  /\ changed \subseteq Places /\ stale \subseteq Places
  /\ written \subseteq Places \X (1 .. MaxRows) \X Stored

StoreTyped ==
  /\ PagesTyped(cur) /\ ShownTyped(Shown(cur)) /\ KeysTyped(Keys(cur))
  /\ PagesTyped(durable) /\ ShownTyped(Shown(durable)) /\ KeysTyped(Keys(durable))

(* What a statement that is running knows of its table. *)
Indexing ==
  /\ call \in [op : {"index"}, i : Places, next : 0 .. MaxRows]
  /\ call.next <= SizeIn(Shown(cur), call.i)

Inserting ==
  /\ call \in [op : {"insert", "inserted"}, i : Places, at : Pos, row : Stored]
  /\ call.at = SizeIn(Shown(cur), call.i)
  /\ Shown(cur)[call.i][call.at + 1] = call.row

Deleting ==
  /\ call \in [op : {"delete", "moved", "unfiled", "rekeyed"}, i : Places, at : Pos,
               tail : {-1} \cup Pos]
  /\ call.tail = SizeIn(Shown(cur), call.i) - 1
  /\ call.at <= call.tail \/ call.i \in stale
  /\ call.i \in DOMAIN base => base[call.i].rows = <<>>

Updating ==
  /\ call \in [op : {"update", "unkeyed"}, i : Places, at : Pos, row : Stored]
  /\ call.at < SizeIn(Shown(cur), call.i) \/ call.i \in stale

CallOK ==
  call # Idle =>
    /\ phase = "run"
    /\ Indexing \/ Inserting \/ Deleting \/ Updating
    /\ call.i \in DOMAIN tables
    /\ call.op # "update" => call.i \in changed

(* No process, or one that only closes. *)
Quiet ==
  IF phase = "off" THEN cur = durable /\ tables = <<>> ELSE died = "off"

(* The rows a table shows, and the entries of its index, at each step of a  *)
(* statement.                                                               *)
Busy(ops, i) == call.op \in ops /\ call.i = i

RowsNow(i) ==
  IF Busy({"moved", "unfiled", "rekeyed"}, i) THEN Put(log[i], call.at + 1, Last(log[i]))
  ELSE log[i]

EntriesNow(i) ==
  IF Busy({"index"}, i) THEN AllBut(log[i], call.next .. MaxRows)
  ELSE IF Busy({"inserted"}, i) THEN AllOf(Append(log[i], call.row))
  ELSE IF Busy({"delete", "moved"}, i) THEN AllBut(log[i], {call.at})
  ELSE IF Busy({"unfiled"}, i) THEN AllBut(log[i], {call.at, call.tail})
  ELSE IF Busy({"rekeyed"}, i) THEN AllOf(FilledByLast(log[i], call.at + 1))
  ELSE IF Busy({"update"}, i) THEN AllOf(Put(log[i], call.at + 1, call.row))
  ELSE IF Busy({"unkeyed"}, i) THEN AllBut(log[i], {call.at})
  ELSE AllOf(log[i])

RowsShow(i) == RowsIn(Shown(cur), i) = RowsNow(i)

(* CREATE INDEX brings an index in step again. *)
Agrees(i) ==
  tables[i].kind = "TREEINDEX" /\ (i \notin stale \/ Busy({"index"}, i)) =>
    Keys(cur)[i] = Tree(EntriesNow(i))

LogOK ==
  phase # "off" => Len(log) = Len(tables) /\ \A i \in DOMAIN tables : RowsShow(i)

IndexOK == \A i \in DOMAIN tables : Agrees(i)

(* What no statement of this process has changed is on the disk. *)
OnDisk ==
  phase # "off" =>
    \A i \in Places \ changed :
      Shown(durable)[i] = Shown(cur)[i] /\ Keys(durable)[i] = Keys(cur)[i]

MetaOK ==
  /\ phase = "run" => meta = Catalogue(base)
  /\ phase = "opened" => meta = <<>>
  /\ phase = "flush" => meta = Catalogue(tables)

(* The indexes that the next process will find. *)
MetaIndexOK ==
  meta # Missing =>
    \A i \in DOMAIN meta \ stale :
      (phase = "off" \/ i \notin changed) /\ meta[i].kind = "TREEINDEX" =>
        Keys(durable)[i] = Tree(AllOf(RowsIn(Shown(durable), i)))

(* File i begins with these rows, or with what has been written over them. *)
Begins(F, over, i, rows) ==
  /\ Len(rows) <= SizeIn(F, i)
  /\ \A n \in 1 .. Len(rows) : F[i][n] = rows[n] \/ <<i, n, F[i][n]>> \in over

BaseOK ==
  phase # "off" =>
    /\ Len(base) <= Len(tables)
    /\ \A i \in DOMAIN base :
         /\ base[i].name = tables[i].name
         /\ Begins(Shown(cur), written, i, base[i].rows)
         /\ Begins(Shown(durable), written, i, base[i].rows)

IInv ==
  /\ Typed /\ StoreTyped /\ CallOK /\ Quiet /\ LogOK /\ IndexOK
  /\ OnDisk /\ MetaOK /\ MetaIndexOK /\ BaseOK /\ NextProcessFinds
-----------------------------------------------------------------------------
(* Pages and the slots they hold. *)

(* Each slot of each table has a place of its own. *)
LEMMA SlotPlaces ==
  ASSUME NEW i \in Places, NEW s \in Slots
  PROVE  /\ TablePage(i, s) \in PageIds /\ s % 2 \in Cells
         /\ \A j \in Places, t \in Slots :
              TablePage(i, s) = TablePage(j, t) /\ s % 2 = t % 2 => i = j /\ s = t
<1>1. MaxRows \in Nat
  BY DatabaseAssumption
<1>2. \A t \in Slots : t = (2 * (t \div 2)) + (t % 2) /\ t \div 2 \in 0 .. MaxRows \div 2 /\ t % 2 \in {0, 1}
  BY <1>1 DEF Slots
<1>3. TablePage(i, s) \in PageIds /\ s % 2 \in Cells
  BY <1>2 DEF TablePage, PageIds, Cells
<1>4. ASSUME NEW j \in Places, NEW t \in Slots,
             TablePage(i, s) = TablePage(j, t), s % 2 = t % 2
      PROVE  i = j /\ s = t
  <2>1. i = j /\ s \div 2 = t \div 2
    BY <1>4 DEF TablePage
  <2> QED BY <1>2, <1>4, <2>1
<1> QED BY <1>3, <1>4

LEMMA IndexPlaces ==
  ASSUME NEW i \in Places
  PROVE  /\ IndexPage(i) \in PageIds /\ 0 \in Cells
         /\ \A j \in Places : IndexPage(i) = IndexPage(j) => i = j
         /\ \A j \in Places, s \in Slots : IndexPage(i) # TablePage(j, s)
BY DEF IndexPage, PageIds, TablePage, Cells

LEMMA CountsAreContents == Count(0) \in Contents /\ Junk \in Contents /\ Absent \notin Contents
<1>1. MaxRows \in Nat
  BY DatabaseAssumption
<1>2. Count(0) \in Contents /\ Junk \in Contents
  BY <1>1 DEF Contents, Stored
<1>3. Absent \notin Contents
  BY DEF Contents, Stored, Trees, Absent, Junk, Count, Row, Tree
<1> QED BY <1>2, <1>3

LEMMA LoadedTyped ==
  ASSUME NEW P, PagesTyped(P), NEW p \in PageIds
  PROVE  LoadedIn(P, p) \in [Cells -> Contents]
<1>1. \A c \in Cells : P[p][c] \in Contents \cup {Absent}
  BY DEF PagesTyped
<1> QED BY <1>1, CountsAreContents DEF LoadedIn

(* A page that holds something everywhere shows what it holds. *)
LEMMA LoadedAgain ==
  ASSUME NEW P, NEW p, P[p] \in [Cells -> Contents]
  PROVE  LoadedIn(P, p) = P[p]
<1>1. \A c \in Cells : P[p][c] # Absent
  BY CountsAreContents
<1>2. \A c \in Cells : LoadedIn(P, p)[c] = P[p][c]
  BY <1>1 DEF LoadedIn
<1>3. LoadedIn(P, p) = [c \in Cells |-> LoadedIn(P, p)[c]]
  BY DEF LoadedIn
<1> QED BY <1>2, <1>3

(* The pages after a write. *)
Written(P, p, c, x) == [P EXCEPT ![p] = [LoadedIn(P, p) EXCEPT ![c] = x]]

LEMMA WrittenShows ==
  ASSUME NEW P, PagesTyped(P), NEW p \in PageIds, NEW c \in Cells, NEW x \in Contents
  PROVE  /\ PagesTyped(Written(P, p, c, x))
         /\ \A q \in PageIds, d \in Cells :
              LoadedIn(Written(P, p, c, x), q)[d] = IF q = p /\ d = c THEN x ELSE LoadedIn(P, q)[d]
<1> DEFINE Q == Written(P, p, c, x)
<1>1. LoadedIn(P, p) \in [Cells -> Contents]
  BY LoadedTyped
<1>2. /\ Q[p] \in [Cells -> Contents]
      /\ Q[p] = [LoadedIn(P, p) EXCEPT ![c] = x]
      /\ \A q \in PageIds \ {p} : Q[q] = P[q]
      /\ PagesTyped(Q)
  BY <1>1 DEF Written, PagesTyped
<1> HIDE DEF Q
<1>3. ASSUME NEW d \in Cells
      PROVE  LoadedIn(Q, p)[d] = IF d = c THEN x ELSE LoadedIn(P, p)[d]
  <2>1. LoadedIn(Q, p) = Q[p]
    BY <1>2, LoadedAgain
  <2> QED BY <1>1, <1>2, <2>1
<1>4. ASSUME NEW q \in PageIds, q # p PROVE LoadedIn(Q, q) = LoadedIn(P, q)
  <2>1. Q[q] = P[q]
    BY <1>2, <1>4
  <2> QED BY <2>1 DEF LoadedIn
<1>5. \A q \in PageIds, d \in Cells :
        LoadedIn(Q, q)[d] = IF q = p /\ d = c THEN x ELSE LoadedIn(P, q)[d]
  BY <1>3, <1>4
<1> QED BY <1>2, <1>5 DEF Q

(* A slot is written, *)
LEMMA SlotWritten ==
  ASSUME NEW P, PagesTyped(P), NEW i \in Places, NEW s \in Slots, NEW x \in Contents
  PROVE  LET Q == Written(P, TablePage(i, s), s % 2, x)
         IN  /\ PagesTyped(Q)
             /\ Shown(Q) = [Shown(P) EXCEPT ![i] = [@ EXCEPT ![s] = x]]
             /\ Keys(Q) = Keys(P)
<1> DEFINE Q == Written(P, TablePage(i, s), s % 2, x)
<1>1. /\ PagesTyped(Q)
      /\ \A q \in PageIds, d \in Cells :
           LoadedIn(Q, q)[d] = IF q = TablePage(i, s) /\ d = s % 2 THEN x ELSE LoadedIn(P, q)[d]
  BY SlotPlaces, WrittenShows
<1> HIDE DEF Q
<1>2. ASSUME NEW j \in Places, NEW t \in Slots
      PROVE  LoadedIn(Q, TablePage(j, t))[t % 2]
               = IF j = i /\ t = s THEN x ELSE LoadedIn(P, TablePage(j, t))[t % 2]
  <2>1. TablePage(j, t) \in PageIds /\ t % 2 \in Cells
    BY SlotPlaces
  <2>2. TablePage(j, t) = TablePage(i, s) /\ t % 2 = s % 2 <=> j = i /\ t = s
    BY SlotPlaces
  <2> QED BY <1>1, <2>1, <2>2
<1>3. ASSUME NEW j \in Places PROVE LoadedIn(Q, IndexPage(j))[0] = LoadedIn(P, IndexPage(j))[0]
  BY <1>1, IndexPlaces
<1>4. Shown(Q) = [Shown(P) EXCEPT ![i] = [@ EXCEPT ![s] = x]]
  <2>1. \A j \in Places, t \in Slots : Shown(Q)[j][t] = IF j = i /\ t = s THEN x ELSE Shown(P)[j][t]
    BY <1>2 DEF Shown
  <2>2. \A R : /\ DOMAIN Shown(R) = Places /\ \A j \in Places : DOMAIN Shown(R)[j] = Slots
               /\ Shown(R) = [j \in Places |-> Shown(R)[j]]
               /\ \A j \in Places : Shown(R)[j] = [t \in Slots |-> Shown(R)[j][t]]
    BY DEF Shown
  <2>3. PICK f, g : f = Shown(P) /\ g = Shown(Q)
    OBVIOUS
  <2>4. \A j \in Places : g[j] = IF j = i THEN [f[i] EXCEPT ![s] = x] ELSE f[j]
    <3>1. ASSUME NEW j \in Places, j # i PROVE g[j] = f[j]
      <4>1. g[j] = [t \in Slots |-> g[j][t]] /\ f[j] = [t \in Slots |-> f[j][t]]
        BY <2>2, <2>3
      <4>2. \A t \in Slots : g[j][t] = f[j][t]
        BY <2>1, <2>3, <3>1
      <4> QED BY <4>1, <4>2
    <3>2. g[i] = [f[i] EXCEPT ![s] = x]
      BY <2>1, <2>2, <2>3
    <3> QED BY <3>1, <3>2
  <2>5. g = [f EXCEPT ![i] = [@ EXCEPT ![s] = x]]
    BY <2>2, <2>3, <2>4
  <2> QED BY <2>3, <2>5
<1>5. Keys(Q) = Keys(P)
  BY <1>3 DEF Keys
<1> QED BY <1>1, <1>4, <1>5 DEF Q

(* or what an index holds, *)
LEMMA KeysWritten ==
  ASSUME NEW P, PagesTyped(P), NEW i \in Places, NEW x \in Contents
  PROVE  LET Q == Written(P, IndexPage(i), 0, x)
         IN  /\ PagesTyped(Q)
             /\ Shown(Q) = Shown(P)
             /\ Keys(Q) = [Keys(P) EXCEPT ![i] = x]
<1> DEFINE Q == Written(P, IndexPage(i), 0, x)
<1>1. /\ PagesTyped(Q)
      /\ \A q \in PageIds, d \in Cells :
           LoadedIn(Q, q)[d] = IF q = IndexPage(i) /\ d = 0 THEN x ELSE LoadedIn(P, q)[d]
  BY IndexPlaces, WrittenShows
<1> HIDE DEF Q
<1>2. ASSUME NEW j \in Places, NEW t \in Slots
      PROVE  LoadedIn(Q, TablePage(j, t))[t % 2] = LoadedIn(P, TablePage(j, t))[t % 2]
  <2>1. TablePage(j, t) \in PageIds /\ t % 2 \in Cells
    BY SlotPlaces
  <2> QED BY <1>1, <2>1, IndexPlaces
<1>3. ASSUME NEW j \in Places
      PROVE  LoadedIn(Q, IndexPage(j))[0] = IF j = i THEN x ELSE LoadedIn(P, IndexPage(j))[0]
  BY <1>1, IndexPlaces
<1>4. Shown(Q) = Shown(P)
  BY <1>2 DEF Shown
<1>5. Keys(Q) = [Keys(P) EXCEPT ![i] = x]
  BY <1>3 DEF Keys
<1> QED BY <1>1, <1>4, <1>5 DEF Q

(* pages are loaded, *)
LEMMA LoadingShows ==
  ASSUME NEW P, PagesTyped(P), NEW Q, NEW ps,
         Q = [p \in PageIds |-> IF p \in ps THEN LoadedIn(P, p) ELSE P[p]]
  PROVE  PagesTyped(Q) /\ Shown(Q) = Shown(P) /\ Keys(Q) = Keys(P)
<1>1. PagesTyped(Q)
  BY LoadedTyped DEF PagesTyped
<1>2. ASSUME NEW p \in PageIds PROVE LoadedIn(Q, p) = LoadedIn(P, p)
  <2>1. CASE p \in ps
    <3>1. Q[p] = LoadedIn(P, p) /\ Q[p] \in [Cells -> Contents]
      BY <2>1, LoadedTyped
    <3> QED BY <3>1, LoadedAgain
  <2>2. CASE p \notin ps
    <3>1. Q[p] = P[p]
      BY <2>2
    <3> QED BY <3>1 DEF LoadedIn
  <2> QED BY <2>1, <2>2
<1>3. Shown(Q) = Shown(P)
  BY <1>2, SlotPlaces DEF Shown
<1>4. Keys(Q) = Keys(P)
  BY <1>2, IndexPlaces DEF Keys
<1> QED BY <1>1, <1>3, <1>4

(* or a page is saved. *)
LEMMA SavingShows ==
  ASSUME NEW P, PagesTyped(P), NEW D, PagesTyped(D), NEW p \in PageIds, NEW Q,
         Q = [D EXCEPT ![p] = P[p]]
  PROVE  /\ PagesTyped(Q)
         /\ \A i \in Places, s \in Slots : Shown(Q)[i][s] \in {Shown(D)[i][s], Shown(P)[i][s]}
         /\ \A i \in Places : Keys(Q)[i] \in {Keys(D)[i], Keys(P)[i]}
<1>1. PagesTyped(Q)
  BY DEF PagesTyped
<1>2. ASSUME NEW q \in PageIds PROVE LoadedIn(Q, q) \in {LoadedIn(D, q), LoadedIn(P, q)}
  <2>1. Q[q] = D[q] \/ Q[q] = P[q]
    BY DEF PagesTyped
  <2> QED BY <2>1 DEF LoadedIn
<1>3. ASSUME NEW i \in Places, NEW s \in Slots
      PROVE  Shown(Q)[i][s] \in {Shown(D)[i][s], Shown(P)[i][s]}
  <2>1. TablePage(i, s) \in PageIds
    BY SlotPlaces
  <2>2. \/ LoadedIn(Q, TablePage(i, s)) = LoadedIn(D, TablePage(i, s))
        \/ LoadedIn(Q, TablePage(i, s)) = LoadedIn(P, TablePage(i, s))
    BY <1>2, <2>1
  <2> QED BY <2>2 DEF Shown
<1>4. ASSUME NEW i \in Places PROVE Keys(Q)[i] \in {Keys(D)[i], Keys(P)[i]}
  <2>1. \/ LoadedIn(Q, IndexPage(i)) = LoadedIn(D, IndexPage(i))
        \/ LoadedIn(Q, IndexPage(i)) = LoadedIn(P, IndexPage(i))
    BY <1>2, IndexPlaces
  <2> QED BY <2>1 DEF Keys
<1> QED BY <1>1, <1>3, <1>4

-----------------------------------------------------------------------------
(* The reads and the writes of statements, in terms of what is shown. *)

LEMMA ReadsShow ==
  ASSUME StoreTyped, NEW i \in Places
  PROVE  /\ \A s \in Slots : Slot(i, s) = Shown(cur)[i][s]
         /\ get_size(i) = SizeIn(Shown(cur), i)
         /\ Loaded(IndexPage(i))[0] = Keys(cur)[i]
<1>1. \A p : Loaded(p) = LoadedIn(cur, p)
  BY DEF Loaded, LoadedIn
<1>2. ASSUME NEW s \in Slots PROVE Slot(i, s) = Shown(cur)[i][s]
  BY <1>1 DEF Slot, Shown
<1>3. 0 \in Slots
  BY DatabaseAssumption DEF Slots
<1>4. Loaded(IndexPage(i))[0] = Keys(cur)[i]
  BY <1>1 DEF Keys
<1> QED BY <1>2, <1>3, <1>4 DEF get_size, SizeIn

(* What a file shows has as many rows as its first slot says. *)
LEMMA RowsShown ==
  ASSUME NEW F, ShownTyped(F), NEW i \in Places
  PROVE  /\ SizeIn(F, i) \in 0 .. MaxRows /\ F[i][0] = Count(SizeIn(F, i))
         /\ RowsIn(F, i) \in Seq(Stored) /\ Len(RowsIn(F, i)) = SizeIn(F, i)
         /\ \A n \in 1 .. SizeIn(F, i) : RowsIn(F, i)[n] = F[i][n]
         /\ \A n \in 1 .. SizeIn(F, i) : n \in Slots /\ n \in 1 .. MaxRows
<1>1. MaxRows \in Nat
  BY DatabaseAssumption
<1>2. PICK n \in 0 .. MaxRows : F[i][0] = Count(n)
  BY DEF ShownTyped, Counts
<1>3. SizeIn(F, i) = n
  BY <1>2 DEF SizeIn, Count
<1>4. \A m \in 1 .. n : m \in Slots /\ m \in 1 .. MaxRows
  BY <1>1 DEF Slots
<1>5. \A m \in 1 .. n : F[i][m] \in Stored
  BY <1>4 DEF ShownTyped
<1>6. RowsIn(F, i) = [m \in 1 .. n |-> F[i][m]]
  BY <1>3 DEF RowsIn
<1> HIDE DEF RowsIn
<1>7. RowsIn(F, i) \in [1 .. n -> Stored]
  BY <1>5, <1>6
<1>8. RowsIn(F, i) \in Seq(Stored) /\ Len(RowsIn(F, i)) = n
  <2>1. n \in Nat
    BY <1>1
  <2> QED BY <1>7, <2>1
<1> QED BY <1>2, <1>3, <1>4, <1>6, <1>8

LEMMA RowsRead ==
  ASSUME StoreTyped, NEW i \in Places
  PROVE  /\ Rows(i) = RowsIn(Shown(cur), i) /\ Entries(i) = AllOf(RowsIn(Shown(cur), i))
         /\ \A n \in 1 .. SizeIn(Shown(cur), i) : get(i, n - 1) = RowsIn(Shown(cur), i)[n]
<1> DEFINE F == Shown(cur)
<1>1. ShownTyped(F) /\ MaxRows \in Nat
  BY DatabaseAssumption DEF StoreTyped
<1>2. /\ get_size(i) = SizeIn(F, i)
      /\ \A s \in Slots : Slot(i, s) = F[i][s]
  BY ReadsShow
<1> HIDE DEF F
<1>3. /\ SizeIn(F, i) \in 0 .. MaxRows /\ Len(RowsIn(F, i)) = SizeIn(F, i)
      /\ \A n \in 1 .. SizeIn(F, i) : RowsIn(F, i)[n] = F[i][n]
  BY <1>1, RowsShown
<1>4. ASSUME NEW n \in 1 .. SizeIn(F, i)
      PROVE  get(i, n - 1) = F[i][n] /\ get(i, n - 1) = RowsIn(F, i)[n]
  <2>1. n \in Slots /\ (n - 1) + 1 = n
    BY <1>1, <1>3 DEF Slots
  <2> QED BY <1>2, <1>3, <2>1 DEF get
<1>5. Rows(i) = RowsIn(F, i)
  BY <1>2, <1>4 DEF Rows, RowsIn
<1>6. Entries(i) = AllOf(RowsIn(F, i))
  BY <1>2, <1>3, <1>5 DEF Entries, EntriesOf, AllOf, AllBut
<1> QED BY <1>4, <1>5, <1>6 DEF F

Changed(F, i, s, x) == [F EXCEPT ![i] = [@ EXCEPT ![s] = x]]

LEMMA SlotsWrite ==
  ASSUME StoreTyped, NEW i \in Places, NEW s \in Slots, NEW x \in Contents, WriteSlot(i, s, x)
  PROVE  /\ PagesTyped(cur') /\ durable' = durable
         /\ Shown(cur') = Changed(Shown(cur), i, s, x)
         /\ Keys(cur') = Keys(cur)
<1>1. Loaded(TablePage(i, s)) = LoadedIn(cur, TablePage(i, s))
  BY DEF Loaded, LoadedIn
<1>2. cur' = Written(cur, TablePage(i, s), s % 2, x) /\ durable' = durable
  BY <1>1 DEF WriteSlot, WriteCell, Written
<1>3. PagesTyped(cur)
  BY DEF StoreTyped
<1>4. /\ PagesTyped(cur') /\ Keys(cur') = Keys(cur)
      /\ Shown(cur') = [Shown(cur) EXCEPT ![i] = [@ EXCEPT ![s] = x]]
  BY <1>2, <1>3, SlotWritten
<1> QED BY <1>2, <1>4 DEF Changed

LEMMA IndexWrites ==
  ASSUME StoreTyped, NEW i \in Places, NEW x \in Contents, WriteCell(IndexPage(i), 0, x)
  PROVE  /\ PagesTyped(cur') /\ durable' = durable
         /\ Shown(cur') = Shown(cur)
         /\ Keys(cur') = [Keys(cur) EXCEPT ![i] = x]
<1>1. Loaded(IndexPage(i)) = LoadedIn(cur, IndexPage(i))
  BY DEF Loaded, LoadedIn
<1>2. cur' = Written(cur, IndexPage(i), 0, x) /\ durable' = durable
  BY <1>1 DEF WriteCell, Written
<1>3. PagesTyped(cur)
  BY DEF StoreTyped
<1> QED BY <1>2, <1>3, KeysWritten

(* A slot is changed for another of its kind. *)
Fits(s, x) == IF s = 0 THEN x \in Counts ELSE x \in Stored

LEMMA SlotChanged ==
  ASSUME NEW F, ShownTyped(F), NEW i \in Places, NEW s \in Slots, NEW x, Fits(s, x),
         NEW G, G = Changed(F, i, s, x)
  PROVE  /\ ShownTyped(G)
         /\ G[i][s] = x
         /\ \A t \in Slots \ {s} : G[i][t] = F[i][t]
         /\ \A j \in Places \ {i} : G[j] = F[j]
<1>1. MaxRows \in Nat /\ 0 \in Slots /\ \A t \in 1 .. MaxRows : t \in Slots /\ t # 0
  BY DatabaseAssumption DEF Slots
<1>2. F \in [Places -> [Slots -> Counts \cup Stored]]
  BY DEF ShownTyped
<1>3. /\ G[i][s] = x
      /\ \A t \in Slots \ {s} : G[i][t] = F[i][t]
      /\ \A j \in Places \ {i} : G[j] = F[j]
      /\ G \in [Places -> [Slots -> Counts \cup Stored]]
  BY <1>2 DEF Changed, Fits
<1>4. ASSUME NEW j \in Places PROVE G[j][0] \in Counts
  BY <1>1, <1>3 DEF ShownTyped, Fits
<1>5. ASSUME NEW j \in Places, NEW t \in 1 .. MaxRows PROVE G[j][t] \in Stored
  BY <1>1, <1>3 DEF ShownTyped, Fits
<1> QED BY <1>3, <1>4, <1>5 DEF ShownTyped

(* The rows of a table whose slots are the same are the same. *)
LEMMA RowsSame ==
  ASSUME NEW F, NEW G, NEW i, G[i] = F[i]
  PROVE  SizeIn(G, i) = SizeIn(F, i) /\ RowsIn(G, i) = RowsIn(F, i)
BY DEF SizeIn, RowsIn

(* The rows of a table when it has one more, *)
LEMMA RowsGrow ==
  ASSUME NEW F, ShownTyped(F), NEW i \in Places, SizeIn(F, i) < MaxRows,
         NEW G, G = Changed(F, i, 0, Count(SizeIn(F, i) + 1))
  PROVE  /\ ShownTyped(G) /\ \A j \in Places \ {i} : G[j] = F[j]
         /\ SizeIn(G, i) = SizeIn(F, i) + 1
         /\ RowsIn(G, i) = Append(RowsIn(F, i), F[i][SizeIn(F, i) + 1])
<1> DEFINE n == SizeIn(F, i)
<1>1. MaxRows \in Nat /\ n \in 0 .. MaxRows /\ n < MaxRows
  BY DatabaseAssumption, RowsShown
<1>2. /\ RowsIn(F, i) \in Seq(Stored) /\ Len(RowsIn(F, i)) = n
      /\ \A m \in 1 .. n : RowsIn(F, i)[m] = F[i][m]
  BY RowsShown
<1>3. G = Changed(F, i, 0, Count(n + 1))
  OBVIOUS
<1> HIDE DEF n
<1>4. 0 \in Slots /\ Fits(0, Count(n + 1)) /\ n + 1 \in 1 .. MaxRows
  BY <1>1 DEF Slots, Counts, Fits
<1>5. /\ ShownTyped(G) /\ G[i][0] = Count(n + 1)
      /\ \A t \in Slots \ {0} : G[i][t] = F[i][t]
      /\ \A j \in Places \ {i} : G[j] = F[j]
  BY <1>3, <1>4, SlotChanged
<1>6. SizeIn(G, i) = n + 1
  BY <1>5 DEF SizeIn, Count
<1>7. \A m \in 1 .. n + 1 : m \in Slots \ {0} /\ (m <= n => m \in 1 .. n)
  BY <1>1 DEF Slots
<1>8. /\ RowsIn(G, i) \in Seq(Stored) /\ Len(RowsIn(G, i)) = n + 1
      /\ \A m \in 1 .. n + 1 : RowsIn(G, i)[m] = G[i][m]
  BY <1>5, <1>6, RowsShown
<1>9. F[i][n + 1] \in Stored
  BY <1>4 DEF ShownTyped
<1> DEFINE t == Append(RowsIn(F, i), F[i][n + 1])
<1>10. /\ t \in Seq(Stored) /\ Len(t) = n + 1
       /\ \A m \in 1 .. n + 1 : t[m] = IF m = n + 1 THEN F[i][n + 1] ELSE RowsIn(F, i)[m]
  BY <1>1, <1>2, <1>9, AppendProperties
<1> HIDE DEF t
<1>11. ASSUME NEW m \in 1 .. n + 1 PROVE RowsIn(G, i)[m] = t[m]
  BY <1>1, <1>2, <1>5, <1>7, <1>8, <1>10
<1>12. RowsIn(G, i) = t
  BY <1>8, <1>10, <1>11, SeqEqual
<1> QED BY <1>5, <1>6, <1>12 DEF n, t

(* one less, *)
LEMMA RowsShrink ==
  ASSUME NEW F, ShownTyped(F), NEW i \in Places, SizeIn(F, i) > 0,
         NEW G, G = Changed(F, i, 0, Count(SizeIn(F, i) - 1))
  PROVE  /\ ShownTyped(G) /\ \A j \in Places \ {i} : G[j] = F[j]
         /\ SizeIn(G, i) = SizeIn(F, i) - 1
         /\ RowsIn(G, i) = Front(RowsIn(F, i))
<1> DEFINE n == SizeIn(F, i)
<1>1. MaxRows \in Nat /\ n \in 0 .. MaxRows /\ n > 0
  BY DatabaseAssumption, RowsShown
<1>2. /\ RowsIn(F, i) \in Seq(Stored) /\ Len(RowsIn(F, i)) = n
      /\ \A m \in 1 .. n : RowsIn(F, i)[m] = F[i][m]
  BY RowsShown
<1>3. G = Changed(F, i, 0, Count(n - 1))
  OBVIOUS
<1> HIDE DEF n
<1>4. 0 \in Slots /\ Fits(0, Count(n - 1))
  BY <1>1 DEF Slots, Counts, Fits
<1>5. /\ ShownTyped(G) /\ G[i][0] = Count(n - 1)
      /\ \A t \in Slots \ {0} : G[i][t] = F[i][t]
      /\ \A j \in Places \ {i} : G[j] = F[j]
  BY <1>3, <1>4, SlotChanged
<1>6. SizeIn(G, i) = n - 1
  BY <1>5 DEF SizeIn, Count
<1>7. \A m \in 1 .. n - 1 : m \in Slots \ {0} /\ m \in 1 .. n
  BY <1>1 DEF Slots
<1>8. /\ RowsIn(G, i) \in Seq(Stored) /\ Len(RowsIn(G, i)) = n - 1
      /\ \A m \in 1 .. n - 1 : RowsIn(G, i)[m] = G[i][m]
  BY <1>5, <1>6, RowsShown
<1> DEFINE t == Front(RowsIn(F, i))
<1>9. /\ t \in Seq(Stored) /\ Len(t) = n - 1
      /\ \A m \in 1 .. n - 1 : t[m] = RowsIn(F, i)[m]
  <2>1. 1 \in 1 .. Len(RowsIn(F, i)) + 1 /\ n - 1 \in 1 - 1 .. Len(RowsIn(F, i))
    BY <1>1, <1>2
  <2>2. t = SubSeq(RowsIn(F, i), 1, n - 1)
    BY <1>2 DEF Front
  <2> HIDE DEF t
  <2>3. /\ t \in Seq(Stored) /\ Len(t) = (n - 1) - 1 + 1
        /\ \A m \in 1 .. (n - 1) - 1 + 1 : t[m] = RowsIn(F, i)[1 + m - 1]
    BY <1>2, <2>1, <2>2, PartOf
  <2> QED BY <1>1, <2>3
<1> HIDE DEF t
<1>10. ASSUME NEW m \in 1 .. n - 1 PROVE RowsIn(G, i)[m] = t[m]
  BY <1>2, <1>5, <1>7, <1>8, <1>9
<1>11. RowsIn(G, i) = t
  BY <1>8, <1>9, <1>10, SeqEqual
<1> QED BY <1>5, <1>6, <1>11 DEF n, t

(* none, *)
LEMMA RowsGone ==
  ASSUME NEW F, ShownTyped(F), NEW i \in Places,
         NEW G, G = Changed(F, i, 0, Count(0))
  PROVE  /\ ShownTyped(G) /\ \A j \in Places \ {i} : G[j] = F[j]
         /\ RowsIn(G, i) = <<>>
<1>1. 0 \in Slots /\ Fits(0, Count(0))
  BY DatabaseAssumption DEF Slots, Counts, Fits
<1>2. ShownTyped(G) /\ G[i][0] = Count(0) /\ \A j \in Places \ {i} : G[j] = F[j]
  BY <1>1, SlotChanged
<1>3. SizeIn(G, i) = 0
  BY <1>2 DEF SizeIn, Count
<1>4. RowsIn(G, i) \in Seq(Stored) /\ Len(RowsIn(G, i)) = 0
  BY <1>2, <1>3, RowsShown
<1> QED BY <1>2, <1>4, EmptySeq

(* another in the place of one, *)
LEMMA RowReplaced ==
  ASSUME NEW F, ShownTyped(F), NEW i \in Places, NEW n \in 1 .. SizeIn(F, i), NEW x \in Stored,
         NEW G, G = Changed(F, i, n, x)
  PROVE  /\ ShownTyped(G) /\ \A j \in Places \ {i} : G[j] = F[j]
         /\ SizeIn(G, i) = SizeIn(F, i)
         /\ RowsIn(G, i) = [RowsIn(F, i) EXCEPT ![n] = x]
<1>1. MaxRows \in Nat /\ SizeIn(F, i) \in 0 .. MaxRows
  BY DatabaseAssumption, RowsShown
<1>2. n # 0 /\ n \in Slots /\ 0 \in Slots /\ Fits(n, x)
  BY <1>1 DEF Slots, Fits
<1>3. /\ ShownTyped(G) /\ G[i][n] = x
      /\ \A t \in Slots \ {n} : G[i][t] = F[i][t]
      /\ \A j \in Places \ {i} : G[j] = F[j]
  BY <1>2, SlotChanged
<1>4. SizeIn(G, i) = SizeIn(F, i)
  BY <1>2, <1>3 DEF SizeIn
<1>5. \A m \in 1 .. SizeIn(F, i) : G[i][m] = IF m = n THEN x ELSE F[i][m]
  BY <1>3, RowsShown
<1>6. RowsIn(G, i) = [RowsIn(F, i) EXCEPT ![n] = x]
  BY <1>4, <1>5 DEF RowsIn
<1> QED BY <1>3, <1>4, <1>6

(* and something after the last. *)
LEMMA RowsUntouched ==
  ASSUME NEW F, ShownTyped(F), NEW i \in Places, NEW n \in Slots, n > SizeIn(F, i), NEW x \in Stored,
         NEW G, G = Changed(F, i, n, x)
  PROVE  /\ ShownTyped(G) /\ \A j \in Places \ {i} : G[j] = F[j]
         /\ SizeIn(G, i) = SizeIn(F, i) /\ G[i][n] = x
         /\ RowsIn(G, i) = RowsIn(F, i)
<1>1. MaxRows \in Nat /\ SizeIn(F, i) \in 0 .. MaxRows
  BY DatabaseAssumption, RowsShown
<1>2. n # 0 /\ 0 \in Slots /\ n \in Nat /\ Fits(n, x)
  BY <1>1 DEF Slots, Fits
<1>3. /\ ShownTyped(G) /\ G[i][n] = x
      /\ \A t \in Slots \ {n} : G[i][t] = F[i][t]
      /\ \A j \in Places \ {i} : G[j] = F[j]
  BY <1>2, SlotChanged
<1>4. SizeIn(G, i) = SizeIn(F, i)
  BY <1>2, <1>3 DEF SizeIn
<1>5. ASSUME NEW m \in 1 .. SizeIn(F, i) PROVE G[i][m] = F[i][m]
  <2>1. m \in Slots /\ m # n
    BY <1>1, <1>2, RowsShown
  <2> QED BY <1>3, <2>1
<1>6. RowsIn(G, i) = RowsIn(F, i)
  BY <1>4, <1>5 DEF RowsIn
<1> QED BY <1>3, <1>4, <1>6

(* A row is put in a place that may be one of theirs. *)
LEMMA PutRows ==
  ASSUME NEW rows \in Seq(Stored), NEW n, NEW r \in Stored
  PROVE  /\ Put(rows, n, r) \in Seq(Stored) /\ Len(Put(rows, n, r)) = Len(rows)
         /\ \A m \in 1 .. Len(rows) : Put(rows, n, r)[m] = IF m = n THEN r ELSE rows[m]
<1>1. Len(rows) \in Nat /\ DOMAIN rows = 1 .. Len(rows)
  BY LenProperties
<1>2. CASE n \in 1 .. Len(rows)
  <2>1. Put(rows, n, r) = [rows EXCEPT ![n] = r]
    BY <1>1, <1>2 DEF Put
  <2> HIDE DEF Stored
  <2>2. /\ [rows EXCEPT ![n] = r] \in Seq(Stored) /\ Len([rows EXCEPT ![n] = r]) = Len(rows)
        /\ \A m \in 1 .. Len(rows) : [rows EXCEPT ![n] = r][m] = IF m = n THEN r ELSE rows[m]
    BY <1>2, ExceptSeq
  <2> QED BY <2>1, <2>2
<1>3. CASE n \notin 1 .. Len(rows)
  <2>1. Put(rows, n, r) = rows
    BY <1>1, <1>3 DEF Put
  <2> QED BY <1>3, <2>1
<1> QED BY <1>2, <1>3

LEMMA RowPut ==
  ASSUME NEW F, ShownTyped(F), NEW i \in Places, NEW at \in Pos, NEW x \in Stored,
         NEW G, G = Changed(F, i, at + 1, x)
  PROVE  /\ ShownTyped(G) /\ \A j \in Places \ {i} : G[j] = F[j]
         /\ SizeIn(G, i) = SizeIn(F, i) /\ G[i][at + 1] = x
         /\ \A s \in Slots \ {at + 1} : G[i][s] = F[i][s]
         /\ RowsIn(G, i) = Put(RowsIn(F, i), at + 1, x)
<1>1. MaxRows \in Nat /\ SizeIn(F, i) \in 0 .. MaxRows
  BY DatabaseAssumption, RowsShown
<1>2. PICK n \in 1 .. MaxRows : n = at + 1
  BY <1>1 DEF Pos
<1>3. n \in Slots /\ Fits(n, x) /\ G = Changed(F, i, n, x)
  BY <1>1, <1>2 DEF Slots, Fits
<1>4. G[i][n] = x /\ \A s \in Slots \ {n} : G[i][s] = F[i][s]
  BY <1>3, SlotChanged
<1>5. RowsIn(F, i) \in Seq(Stored) /\ Len(RowsIn(F, i)) = SizeIn(F, i)
  BY RowsShown
<1>6. DOMAIN RowsIn(F, i) = 1 .. SizeIn(F, i)
  BY <1>5, LenProperties
<1>7. CASE n \in 1 .. SizeIn(F, i)
  <2>1. /\ ShownTyped(G) /\ \A j \in Places \ {i} : G[j] = F[j]
        /\ SizeIn(G, i) = SizeIn(F, i) /\ RowsIn(G, i) = [RowsIn(F, i) EXCEPT ![n] = x]
    BY <1>3, <1>7, RowReplaced
  <2>2. Put(RowsIn(F, i), n, x) = [RowsIn(F, i) EXCEPT ![n] = x]
    BY <1>6, <1>7 DEF Put
  <2> QED BY <1>2, <1>4, <2>1, <2>2
<1>8. CASE n \notin 1 .. SizeIn(F, i)
  <2>1. n > SizeIn(F, i)
    BY <1>1, <1>8
  <2>2. /\ ShownTyped(G) /\ \A j \in Places \ {i} : G[j] = F[j]
        /\ SizeIn(G, i) = SizeIn(F, i) /\ RowsIn(G, i) = RowsIn(F, i)
    BY <1>3, <2>1, RowsUntouched
  <2>3. Put(RowsIn(F, i), n, x) = RowsIn(F, i)
    BY <1>6, <1>8 DEF Put
  <2> QED BY <1>2, <1>4, <2>2, <2>3
<1> QED BY <1>7, <1>8

(* The rows when the last takes the place of one. *)
LEMMA FilledRows ==
  ASSUME NEW rows \in Seq(Stored), Len(rows) > 0, NEW n
  PROVE  /\ FilledByLast(rows, n) \in Seq(Stored)
         /\ Len(FilledByLast(rows, n)) = Len(rows) - 1
         /\ \A m \in 1 .. Len(rows) - 1 :
              FilledByLast(rows, n)[m] = IF m = n THEN Last(rows) ELSE rows[m]
         /\ Last(rows) \in Stored /\ Last(rows) = rows[Len(rows)]
<1> DEFINE all == Put(rows, n, Last(rows))
           t   == FilledByLast(rows, n)
<1>1. Len(rows) \in Nat /\ Len(rows) \in 1 .. Len(rows)
  BY LenProperties
<1>2. Last(rows) \in Stored /\ Last(rows) = rows[Len(rows)]
  BY <1>1, ElementOfSeq DEF Last
<1>3. /\ all \in Seq(Stored) /\ Len(all) = Len(rows)
      /\ \A m \in 1 .. Len(rows) : all[m] = IF m = n THEN Last(rows) ELSE rows[m]
  BY <1>2, PutRows
<1>4. t = SubSeq(all, 1, Len(rows) - 1)
  BY <1>3 DEF FilledByLast, Front
<1> HIDE DEF all, t
<1>5. /\ t \in Seq(Stored) /\ Len(t) = (Len(rows) - 1) - 1 + 1
      /\ \A m \in 1 .. (Len(rows) - 1) - 1 + 1 : t[m] = all[1 + m - 1]
  <2>1. 1 \in 1 .. Len(all) + 1 /\ Len(rows) - 1 \in 1 - 1 .. Len(all)
    BY <1>1, <1>3
  <2> QED BY <1>3, <1>4, <2>1, PartOf
<1>6. Len(t) = Len(rows) - 1
  BY <1>1, <1>5
<1>7. ASSUME NEW m \in 1 .. Len(rows) - 1 PROVE t[m] = IF m = n THEN Last(rows) ELSE rows[m]
  <2>1. 1 + m - 1 = m /\ m \in 1 .. (Len(rows) - 1) - 1 + 1 /\ m \in 1 .. Len(rows)
    BY <1>1
  <2> QED BY <1>3, <1>5, <2>1
<1> QED BY <1>2, <1>5, <1>6, <1>7 DEF t

-----------------------------------------------------------------------------
(* The entries of rows. *)

Plus(e, r, at)  == [e EXCEPT ![<<r, at>>] = @ + 1]
Minus(e, r, at) == IF at \in Pos /\ e[<<r, at>>] > 0 THEN [e EXCEPT ![<<r, at>>] = @ - 1] ELSE e

LEMMA EntriesTyped ==
  ASSUME NEW rows, NEW out
  PROVE  /\ AllBut(rows, out) \in [Stored \X Pos -> {0, 1}]
         /\ Tree(AllBut(rows, out)) \in Trees
<1>1. AllBut(rows, out) \in [Stored \X Pos -> {0, 1}]
  BY DEF AllBut
<1>2. {0, 1} \subseteq 0 .. MaxCopies
  BY DatabaseAssumption
<1>3. AllBut(rows, out) \in [Stored \X Pos -> 0 .. MaxCopies]
  BY <1>1, <1>2
<1> QED BY <1>1, <1>3 DEF Trees

LEMMA SameEntries ==
  ASSUME NEW rows, NEW out, NEW t, NEW gone,
         \A n \in Pos : (n < Len(rows) /\ n \notin out) <=> (n < Len(t) /\ n \notin gone),
         \A n \in Pos : n < Len(rows) /\ n \notin out => rows[n + 1] = t[n + 1]
  PROVE  AllBut(rows, out) = AllBut(t, gone)
<1>1. ASSUME NEW e \in Stored \X Pos PROVE AllBut(rows, out)[e] = AllBut(t, gone)[e]
  <2>1. e[2] \in Pos
    OBVIOUS
  <2> QED BY <2>1 DEF AllBut
<1> QED BY <1>1 DEF AllBut

LEMMA EntryAdded ==
  ASSUME NEW rows \in Seq(Stored), NEW n \in Pos, n < Len(rows), NEW out, n \in out,
         NEW r, r = rows[n + 1]
  PROVE  Plus(AllBut(rows, out), r, n) = AllBut(rows, out \ {n})
<1>1. r \in Stored /\ <<r, n>> \in Stored \X Pos
  <2>1. n + 1 \in 1 .. Len(rows)
    BY LenProperties, DatabaseAssumption DEF Pos
  <2> QED BY <2>1, ElementOfSeq
<1> DEFINE f == AllBut(rows, out)
           g == AllBut(rows, out \ {n})
<1>2. /\ f = [e \in Stored \X Pos |-> f[e]] /\ g = [e \in Stored \X Pos |-> g[e]]
      /\ DOMAIN f = Stored \X Pos
  BY DEF AllBut
<1>3. f[<<r, n>>] = 0 /\ g[<<r, n>>] = 1
  BY <1>1 DEF AllBut
<1>4. ASSUME NEW e \in Stored \X Pos, e # <<r, n>> PROVE f[e] = g[e]
  <2>1. e[2] # n \/ e[1] # r
    BY <1>4
  <2> QED BY <2>1 DEF AllBut
<1> HIDE DEF f, g
<1>5. PICK p \in Stored \X Pos : p = <<r, n>>
  BY <1>1
<1>6. Plus(f, r, n) = [f EXCEPT ![p] = 1]
  BY <1>3, <1>5 DEF Plus
<1>7. [f EXCEPT ![p] = 1] = g
  BY <1>2, <1>3, <1>4, <1>5
<1> QED BY <1>6, <1>7 DEF f, g

LEMMA EntryRemoved ==
  ASSUME NEW rows \in Seq(Stored), NEW n \in Pos, n < Len(rows), NEW out,
         NEW r, r = rows[n + 1]
  PROVE  Minus(AllBut(rows, out), r, n) = AllBut(rows, out \cup {n})
<1>1. r \in Stored /\ <<r, n>> \in Stored \X Pos
  <2>1. n + 1 \in 1 .. Len(rows)
    BY LenProperties, DatabaseAssumption DEF Pos
  <2> QED BY <2>1, ElementOfSeq
<1> DEFINE f == AllBut(rows, out)
           g == AllBut(rows, out \cup {n})
<1>2. /\ f = [e \in Stored \X Pos |-> f[e]] /\ g = [e \in Stored \X Pos |-> g[e]]
      /\ DOMAIN f = Stored \X Pos
  BY DEF AllBut
<1>3. f[<<r, n>>] \in {0, 1} /\ g[<<r, n>>] = 0
  BY <1>1 DEF AllBut
<1>4. ASSUME NEW e \in Stored \X Pos, e # <<r, n>> PROVE f[e] = g[e]
  <2>1. e[2] # n \/ e[1] # r
    BY <1>4
  <2> QED BY <2>1 DEF AllBut
<1> HIDE DEF f, g
<1>5. CASE f[<<r, n>>] > 0
  <2>1. PICK p \in Stored \X Pos : p = <<r, n>>
    BY <1>1
  <2>2. Minus(f, r, n) = [f EXCEPT ![p] = 0]
    <3>1. f[p] = 1
      BY <1>3, <1>5, <2>1
    <3> QED BY <1>5, <2>1, <3>1 DEF Minus
  <2>3. [f EXCEPT ![p] = 0] = g
    BY <1>2, <1>3, <1>4, <2>1
  <2> QED BY <2>2, <2>3 DEF f, g
<1>6. CASE ~(f[<<r, n>>] > 0)
  <2>1. Minus(f, r, n) = f /\ f[<<r, n>>] = 0
    BY <1>3, <1>6 DEF Minus
  <2>2. \A e \in Stored \X Pos : f[e] = g[e]
    BY <1>3, <1>4, <2>1
  <2>3. f = g
    BY <1>2, <2>2
  <2> QED BY <2>1, <2>3 DEF f, g
<1> QED BY <1>5, <1>6

(* A file that begins with rows shows a table that does. *)
LEMMA BeginsWith ==
  ASSUME NEW F, ShownTyped(F), NEW over, NEW i \in Places, NEW rows \in Seq(Stored),
         Begins(F, over, i, rows)
  PROVE  /\ Len(RowsIn(F, i)) >= Len(rows)
         /\ \A n \in 1 .. Len(rows) :
              RowsIn(F, i)[n] = rows[n] \/ <<i, n, RowsIn(F, i)[n]>> \in over
<1>1. Len(rows) \in Nat /\ SizeIn(F, i) \in Nat
  BY DatabaseAssumption, RowsShown, LenProperties
<1>2. /\ Len(RowsIn(F, i)) = SizeIn(F, i)
      /\ \A n \in 1 .. SizeIn(F, i) : RowsIn(F, i)[n] = F[i][n]
  BY RowsShown
<1>3. \A n \in 1 .. Len(rows) : n \in 1 .. SizeIn(F, i)
  BY <1>1 DEF Begins
<1> QED BY <1>1, <1>2, <1>3 DEF Begins

-----------------------------------------------------------------------------
(* The steps of statements. *)

LEMMA TablesInPlaces ==
  ASSUME Typed
  PROVE  /\ DOMAIN tables = 1 .. Len(tables) /\ DOMAIN tables \subseteq Places
         /\ DOMAIN base = 1 .. Len(base) /\ DOMAIN base \subseteq Places
         /\ DOMAIN log = 1 .. Len(log)
         /\ \A i \in DOMAIN tables : tables[i] \in TableRec
         /\ \A i \in DOMAIN base : base[i] \in FoundRec
         /\ \A i \in DOMAIN log : log[i] \in Seq(Stored)
<1>1. /\ tables \in Seq(TableRec) /\ Len(tables) <= MaxTables
      /\ base \in Seq(FoundRec) /\ Len(base) <= MaxTables
      /\ log \in Seq(Seq(Stored)) /\ MaxTables \in Nat
  BY DatabaseAssumption DEF Typed
<1>2. /\ DOMAIN tables = 1 .. Len(tables) /\ Len(tables) \in Nat
      /\ \A i \in 1 .. Len(tables) : tables[i] \in TableRec
  BY <1>1, LenProperties, ElementOfSeq
<1>3. /\ DOMAIN base = 1 .. Len(base) /\ Len(base) \in Nat
      /\ \A i \in 1 .. Len(base) : base[i] \in FoundRec
  BY <1>1, LenProperties, ElementOfSeq
<1>4. /\ DOMAIN log = 1 .. Len(log)
      /\ \A i \in 1 .. Len(log) : log[i] \in Seq(Stored)
  <2> HIDE DEF Stored
  <2> QED BY <1>1, LenProperties, ElementOfSeq
<1>5. 1 .. Len(tables) \subseteq Places
  BY <1>1, <1>2 DEF Places
<1>6. 1 .. Len(base) \subseteq Places
  BY <1>1, <1>3 DEF Places
<1> QED BY <1>2, <1>3, <1>4, <1>5, <1>6

(* What a step of a statement on table i leaves of the tables, *)
TablesAfter(i) ==
  /\ tables' \in Seq(TableRec) /\ Len(tables') <= MaxTables /\ Len(tables) <= Len(tables')
  /\ \A j \in DOMAIN tables' : tables'[j].file \in {None, tables'[j].kind}
  /\ \A j \in DOMAIN tables : tables'[j].name = tables[j].name
  /\ \A j \in DOMAIN tables' \ {i} : j \in DOMAIN tables /\ tables'[j].kind = tables[j].kind

(* the histories, *)
PastAfter(i) ==
  /\ died' = died
  /\ log' \in Seq(Seq(Stored)) /\ Len(log') = Len(tables')
  /\ \A j \in DOMAIN tables \ {i} : log'[j] = log[j]
  /\ changed \subseteq changed' /\ changed' \subseteq changed \cup {i}
  /\ stale \subseteq stale' \cup {i} /\ stale' \subseteq stale \cup {i}
  /\ i \in stale' \/ i \in changed' \/ i \notin stale
  /\ written' \subseteq Places \X (1 .. MaxRows) \X Stored
  /\ \A j, n, x : j # i /\ <<j, n, x>> \in written => <<j, n, x>> \in written'
  /\ base' = base \/ (i \in DOMAIN base /\ base' = [base EXCEPT ![i].rows = <<>>])

(* the pages, *)
PagesAfter(i) ==
  /\ durable' = durable
  /\ PagesTyped(cur') /\ ShownTyped(Shown(cur')) /\ KeysTyped(Keys(cur'))
  /\ \A j \in Places \ {i} : Shown(cur')[j] = Shown(cur)[j] /\ Keys(cur')[j] = Keys(cur)[j]
  /\ i \notin changed' => Shown(cur')[i] = Shown(cur)[i] /\ Keys(cur')[i] = Keys(cur)[i]

(* and the rows that the process found in the table. *)
Kept(i) ==
  i \in DOMAIN base =>
    \/ base'[i].rows = <<>>
    \/ /\ written \subseteq written'
       /\ SizeIn(Shown(cur), i) <= SizeIn(Shown(cur'), i)
       /\ \A n \in 1 .. Len(base[i].rows) :
            n <= SizeIn(Shown(cur), i) =>
              \/ Shown(cur')[i][n] = Shown(cur)[i][n]
              \/ <<i, n, Shown(cur')[i][n]>> \in written'

Works(i) ==
  /\ phase = "run" /\ phase' = "run" /\ meta' = meta
  /\ i \in Places /\ (call = Idle \/ call.i = i) /\ (call' = Idle \/ call'.i = i)
  /\ TablesAfter(i) /\ PastAfter(i) /\ PagesAfter(i) /\ Kept(i)

LEMMA NotBusy ==
  ASSUME NEW i, call = Idle \/ call.i # i
  PROVE  RowsNow(i) = log[i] /\ EntriesNow(i) = AllOf(log[i]) /\ ~Busy({"index"}, i)
<1>1. call = Idle => call.op = "idle"
  BY DEF Idle
<1> QED BY <1>1 DEF RowsNow, EntriesNow, Busy

LEMMA NotBusyNext ==
  ASSUME NEW i, call' = Idle \/ call'.i # i
  PROVE  RowsNow(i)' = log'[i] /\ EntriesNow(i)' = AllOf(log'[i]) /\ ~Busy({"index"}, i)'
<1>1. call' = Idle => call'.op = "idle"
  BY DEF Idle
<1> QED BY <1>1 DEF RowsNow, EntriesNow, Busy

(* The catalogue of the process found stays what it was. *)
LEMMA BaseAfter ==
  ASSUME Typed, NEW i, PastAfter(i)
  PROVE  /\ base' \in Seq(FoundRec) /\ Len(base') = Len(base) /\ DOMAIN base' = DOMAIN base
         /\ \A j \in DOMAIN base :
              /\ base'[j].name = base[j].name /\ base'[j].kind = base[j].kind
              /\ base'[j].rows = base[j].rows \/ (j = i /\ base'[j].rows = <<>>)
<1>1. CASE base' = base
  BY <1>1 DEF Typed
<1>2. CASE i \in DOMAIN base /\ base' = [base EXCEPT ![i].rows = <<>>]
  <2> DEFINE b == [base[i] EXCEPT !.rows = <<>>]
  <2>1. /\ DOMAIN base = 1 .. Len(base) /\ base \in Seq(FoundRec) /\ base[i] \in FoundRec
    BY <1>2, TablesInPlaces DEF Typed
  <2>2. b \in FoundRec /\ b.name = base[i].name /\ b.kind = base[i].kind /\ b.rows = <<>>
    <3>1. <<>> \in Seq(Stored)
      BY EmptySeq
    <3> HIDE DEF Stored
    <3> QED BY <2>1, <3>1 DEF FoundRec
  <2>3. base' = [base EXCEPT ![i] = b]
    BY <1>2
  <2> HIDE DEF b
  <2>4. /\ base' \in Seq(FoundRec) /\ Len(base') = Len(base)
        /\ \A j \in 1 .. Len(base) : base'[j] = IF j = i THEN b ELSE base[j]
    BY <1>2, <2>1, <2>2, <2>3, ExceptSeq
  <2>5. DOMAIN base' = 1 .. Len(base)
    BY <2>4, LenProperties
  <2> QED BY <2>1, <2>2, <2>4, <2>5
<1> QED BY <1>1, <1>2 DEF PastAfter

(* Rows that a file begins with stay, or are written over. *)
LEMMA BeginsStill ==
  ASSUME NEW F, ShownTyped(F), NEW G, ShownTyped(G), NEW over, NEW over2, NEW i \in Places,
         NEW rows \in Seq(Stored), Begins(F, over, i, rows),
         \A n, x : <<i, n, x>> \in over => <<i, n, x>> \in over2,
         SizeIn(F, i) <= SizeIn(G, i),
         \A n \in 1 .. Len(rows) :
           n <= SizeIn(F, i) => G[i][n] = F[i][n] \/ <<i, n, G[i][n]>> \in over2
  PROVE  Begins(G, over2, i, rows)
<1>1. /\ SizeIn(F, i) \in Nat /\ SizeIn(G, i) \in Nat
      /\ Len(rows) \in Nat
  BY DatabaseAssumption, RowsShown, LenProperties
<1>2. Len(rows) <= SizeIn(F, i)
  BY DEF Begins
<1>3. ASSUME NEW n \in 1 .. Len(rows) PROVE G[i][n] = rows[n] \/ <<i, n, G[i][n]>> \in over2
  <2>1. n <= SizeIn(F, i)
    BY <1>1, <1>2
  <2>2. F[i][n] = rows[n] \/ <<i, n, F[i][n]>> \in over
    BY DEF Begins
  <2> QED BY <2>1, <2>2
<1> QED BY <1>1, <1>2, <1>3 DEF Begins

LEMMA BeginsEmpty ==
  ASSUME NEW F, ShownTyped(F), NEW over, NEW i \in Places
  PROVE  Begins(F, over, i, <<>>)
<1>1. SizeIn(F, i) \in Nat
  BY DatabaseAssumption, RowsShown
<1>2. Len(<<>>) = 0
  BY EmptySeq
<1> QED BY <1>1, <1>2 DEF Begins

LEMMA WorksOnBase ==
  ASSUME IInv, NEW i, Works(i)
  PROVE  BaseOK'
<1>1. /\ DOMAIN base = 1 .. Len(base) /\ DOMAIN tables = 1 .. Len(tables)
      /\ DOMAIN base \subseteq Places /\ Typed
      /\ \A j \in DOMAIN base : base[j] \in FoundRec
  BY TablesInPlaces DEF IInv
<1>2. /\ Len(base) <= Len(tables)
      /\ \A j \in DOMAIN base :
           /\ base[j].name = tables[j].name
           /\ Begins(Shown(cur), written, j, base[j].rows)
           /\ Begins(Shown(durable), written, j, base[j].rows)
  BY DEF IInv, BaseOK, Works
<1>3. Len(base) \in Nat /\ Len(tables) \in Nat /\ Len(tables') \in Nat
  BY LenProperties DEF IInv, Typed, Works, TablesAfter
<1>4. /\ Len(base') = Len(base) /\ DOMAIN base' = DOMAIN base
      /\ \A j \in DOMAIN base :
           /\ base'[j].name = base[j].name
           /\ base'[j].rows = base[j].rows \/ (j = i /\ base'[j].rows = <<>>)
  BY <1>1, BaseAfter DEF Works
<1>5. /\ ShownTyped(Shown(cur)) /\ ShownTyped(Shown(cur')) /\ ShownTyped(Shown(durable))
      /\ durable' = durable
  BY DEF IInv, StoreTyped, Works, PagesAfter
<1>6. \A j \in Places \ {i} : Shown(cur')[j] = Shown(cur)[j]
  BY DEF Works, PagesAfter
<1>7. \A j, n, x : j # i /\ <<j, n, x>> \in written => <<j, n, x>> \in written'
  BY DEF Works, PastAfter
<1>8. i \in DOMAIN base => Kept(i)
  BY DEF Works
<1>9. ASSUME NEW j \in DOMAIN base
      PROVE  /\ base'[j].name = tables'[j].name
             /\ Begins(Shown(cur'), written', j, base'[j].rows)
             /\ Begins(Shown(durable), written', j, base'[j].rows)
  <2>1. j \in DOMAIN tables /\ j \in Places
    BY <1>1, <1>2, <1>3
  <2>2. base'[j].name = tables'[j].name
    BY <1>2, <1>4, <2>1 DEF Works, TablesAfter
  <2>3. PICK rows \in Seq(Stored) : rows = base[j].rows
    BY <1>1 DEF FoundRec
  <2>4. Begins(Shown(cur), written, j, rows) /\ Begins(Shown(durable), written, j, rows)
    BY <1>2, <2>3
  <2>5. CASE base'[j].rows = <<>>
    BY <1>5, <2>1, <2>2, <2>5, BeginsEmpty
  <2>6. CASE base'[j].rows = rows /\ (j = i => base'[i].rows # <<>>)
    <3>1. \A n, x : <<j, n, x>> \in written => <<j, n, x>> \in written'
      BY <1>7, <1>8, <2>6 DEF Kept
    <3>2. /\ SizeIn(Shown(cur), j) <= SizeIn(Shown(cur'), j)
          /\ \A n \in 1 .. Len(rows) : n <= SizeIn(Shown(cur), j) =>
               \/ Shown(cur')[j][n] = Shown(cur)[j][n]
               \/ <<j, n, Shown(cur')[j][n]>> \in written'
      <4>1. CASE j = i
        BY <1>8, <2>3, <2>6, <4>1 DEF Kept
      <4>2. CASE j # i
        <5>1. Shown(cur')[j] = Shown(cur)[j]
          BY <1>6, <2>1, <4>2
        <5>2. SizeIn(Shown(cur), j) \in Nat
          BY <1>5, <2>1, RowsShown, DatabaseAssumption
        <5> QED BY <5>1, <5>2 DEF SizeIn
      <4> QED BY <4>1, <4>2
    <3>3. Begins(Shown(cur'), written', j, rows)
      BY <1>5, <2>1, <2>4, <3>1, <3>2, BeginsStill
    <3>4. Begins(Shown(durable), written', j, rows)
      BY <2>4, <3>1 DEF Begins
    <3> QED BY <2>2, <2>6, <3>3, <3>4
  <2> QED BY <1>4, <2>3, <2>5, <2>6
<1>10. Len(base') <= Len(tables')
  BY <1>2, <1>3, <1>4 DEF Works, TablesAfter
<1> QED BY <1>4, <1>5, <1>9, <1>10 DEF BaseOK

(* A step of a statement keeps everything but what the statement knows and  *)
(* what is shown of its table.                                              *)
LEMMA WorksKeep ==
  ASSUME IInv, NEW i, Works(i), CallOK', RowsShow(i)', Agrees(i)'
  PROVE  IInv'
<1>1. Typed /\ StoreTyped /\ DOMAIN tables \subseteq Places
  BY TablesInPlaces DEF IInv
<1>2. /\ phase = "run" /\ phase' = "run" /\ meta' = meta /\ durable' = durable /\ died' = died
      /\ i \in Places
  BY DEF Works, PastAfter, PagesAfter
<1>3. Quiet' /\ NextProcessFinds'
  BY <1>2 DEF IInv, Quiet, NextProcessFinds
<1>4. Typed'
  <2>1. base' \in Seq(FoundRec) /\ Len(base') <= MaxTables
    BY <1>1, BaseAfter DEF Works, Typed
  <2>2. changed' \subseteq Places /\ stale' \subseteq Places
    BY <1>1, <1>2 DEF Works, PastAfter, Typed
  <2>3. phase' \in Phases /\ died' \in Phases /\ (meta' = Missing \/ (meta' \in Seq(Entry) /\ Len(meta') <= MaxTables))
    BY <1>1, <1>2 DEF Typed
  <2>4. /\ tables' \in Seq(TableRec) /\ Len(tables') <= MaxTables
        /\ \A j \in DOMAIN tables' : tables'[j].file \in {None, tables'[j].kind}
        /\ log' \in Seq(Seq(Stored)) /\ written' \subseteq Places \X (1 .. MaxRows) \X Stored
    BY DEF Works, TablesAfter, PastAfter
  <2> QED BY <2>1, <2>2, <2>3, <2>4 DEF Typed
<1>5. StoreTyped'
  BY <1>1, <1>2 DEF StoreTyped, Works, PagesAfter
<1>6. \A j \in Places \ {i} : Shown(cur')[j] = Shown(cur)[j] /\ Keys(cur')[j] = Keys(cur)[j]
  BY DEF Works, PagesAfter
<1>7. i \notin changed' => Shown(cur')[i] = Shown(cur)[i] /\ Keys(cur')[i] = Keys(cur)[i]
  BY DEF Works, PagesAfter
<1>8. changed \subseteq changed' /\ \A j : j \notin changed' /\ j \notin stale' => j \notin stale
  BY DEF Works, PastAfter
<1>9. OnDisk'
  <2>1. \A j \in Places \ changed : Shown(durable)[j] = Shown(cur)[j] /\ Keys(durable)[j] = Keys(cur)[j]
    BY <1>2 DEF IInv, OnDisk
  <2>2. ASSUME NEW j \in Places \ changed'
        PROVE  Shown(durable)[j] = Shown(cur')[j] /\ Keys(durable)[j] = Keys(cur')[j]
    BY <1>6, <1>7, <1>8, <2>1
  <2> QED BY <1>2, <2>2 DEF OnDisk
<1>10. MetaOK'
  <2>1. DOMAIN base' = DOMAIN base /\ \A j \in DOMAIN base :
          base'[j].name = base[j].name /\ base'[j].kind = base[j].kind
    BY <1>1, BaseAfter DEF Works
  <2>2. Catalogue(base') = Catalogue(base)
    BY <2>1 DEF Catalogue
  <2> QED BY <1>2, <2>2 DEF IInv, MetaOK
<1>11. MetaIndexOK'
  <2> SUFFICES ASSUME meta # Missing,
                      NEW j \in DOMAIN meta, j \notin stale', j \notin changed', meta[j].kind = "TREEINDEX"
               PROVE  Keys(durable)[j] = Tree(AllOf(RowsIn(Shown(durable), j)))
    BY <1>2 DEF MetaIndexOK
  <2>1. j \notin stale /\ j \notin changed
    BY <1>8
  <2> QED BY <2>1 DEF IInv, MetaIndexOK
<1>12. BaseOK'
  BY WorksOnBase
<1>13. ASSUME NEW j \in DOMAIN tables', j # i PROVE RowsShow(j)' /\ Agrees(j)'
  <2>1. /\ j \in DOMAIN tables /\ j \in Places /\ tables'[j].kind = tables[j].kind
        /\ log'[j] = log[j] /\ (j \notin stale' => j \notin stale)
    BY <1>1, <1>13 DEF Works, TablesAfter, PastAfter
  <2>2. /\ RowsNow(j) = log[j] /\ EntriesNow(j) = AllOf(log[j])
        /\ RowsNow(j)' = log'[j] /\ EntriesNow(j)' = AllOf(log'[j]) /\ ~Busy({"index"}, j)'
    BY <1>13, NotBusy, NotBusyNext DEF Works
  <2>3. RowsShow(j) /\ Agrees(j)
    BY <1>2, <2>1 DEF IInv, LogOK, IndexOK
  <2>4. RowsIn(Shown(cur'), j) = RowsIn(Shown(cur), j) /\ Keys(cur')[j] = Keys(cur)[j]
    BY <1>6, <1>13, <2>1, RowsSame
  <2>5. RowsShow(j)'
    BY <2>1, <2>2, <2>3, <2>4 DEF RowsShow
  <2>6. Agrees(j)'
    BY <2>1, <2>2, <2>3, <2>4 DEF Agrees
  <2> QED BY <2>5, <2>6
<1>14. LogOK'
  <2>1. Len(log') = Len(tables')
    BY DEF Works, PastAfter
  <2>2. \A j \in DOMAIN tables' : RowsShow(j)'
    BY <1>13
  <2> QED BY <2>1, <2>2 DEF LogOK
<1>15. IndexOK'
  <2>1. \A j \in DOMAIN tables' : Agrees(j)'
    BY <1>13
  <2> QED BY <2>1 DEF IndexOK
<1> QED BY <1>3, <1>4, <1>5, <1>9, <1>10, <1>11, <1>12, <1>14, <1>15 DEF IInv


-----------------------------------------------------------------------------
(* What the parts of a step leave. *)

(* The last row put in the place of one. *)
LEMMA PutLast ==
  ASSUME NEW rows \in Seq(Stored), NEW n
  PROVE  /\ Put(rows, n, Last(rows)) \in Seq(Stored)
         /\ Len(Put(rows, n, Last(rows))) = Len(rows)
         /\ \A m \in 1 .. Len(rows) :
              Put(rows, n, Last(rows))[m] = IF m = n THEN rows[Len(rows)] ELSE rows[m]
<1>1. Len(rows) \in Nat /\ DOMAIN rows = 1 .. Len(rows)
  BY LenProperties
<1>2. CASE Len(rows) = 0
  <2>1. 1 .. Len(rows) = {}
    BY <1>2
  <2>2. Put(rows, n, Last(rows)) = rows
    BY <1>1, <2>1 DEF Put
  <2> QED BY <2>1, <2>2
<1>3. CASE Len(rows) > 0
  <2>1. Last(rows) \in Stored /\ Last(rows) = rows[Len(rows)]
    BY <1>3, FilledRows
  <2> QED BY <2>1, PutRows
<1> QED BY <1>1, <1>2, <1>3

(* What is known of a table while the process runs. *)
LEMMA TableKnown ==
  ASSUME IInv, phase = "run", NEW i \in DOMAIN tables
  PROVE  /\ Typed /\ StoreTyped /\ ShownTyped(Shown(cur)) /\ KeysTyped(Keys(cur))
         /\ i \in Places /\ FileOf(i) = tables[i].kind
         /\ i \in DOMAIN log /\ log[i] \in Seq(Stored) /\ RowsShow(i) /\ Agrees(i)
         /\ get_size(i) = SizeIn(Shown(cur), i) /\ SizeIn(Shown(cur), i) \in 0 .. MaxRows
         /\ Len(log[i]) = SizeIn(Shown(cur), i)
         /\ \A at \in Pos : at < get_size(i) => get(i, at) = RowsNow(i)[at + 1]
         /\ \A at \in Pos : get(i, at) \in Stored
<1>1. /\ Typed /\ StoreTyped /\ ShownTyped(Shown(cur)) /\ KeysTyped(Keys(cur)) /\ MaxRows \in Nat
  BY DatabaseAssumption DEF IInv, StoreTyped
<1>2. /\ i \in Places /\ DOMAIN tables = 1 .. Len(tables) /\ DOMAIN log = 1 .. Len(log)
      /\ tables[i] \in TableRec /\ tables[i].file \in {None, tables[i].kind}
  BY <1>1, TablesInPlaces DEF Typed
<1>3. i \in DOMAIN log /\ RowsShow(i) /\ Agrees(i)
  BY <1>2 DEF IInv, LogOK, IndexOK
<1>4. log[i] \in Seq(Stored)
  BY <1>1, <1>3, TablesInPlaces
<1>5. FileOf(i) = tables[i].kind
  BY <1>2 DEF FileOf
<1>6. /\ get_size(i) = SizeIn(Shown(cur), i) /\ SizeIn(Shown(cur), i) \in 0 .. MaxRows
      /\ Len(RowsIn(Shown(cur), i)) = SizeIn(Shown(cur), i)
  BY <1>1, <1>2, ReadsShow, RowsShown
<1>7. Len(RowsNow(i)) = Len(log[i])
  <2>1. Len(Put(log[i], call.at + 1, Last(log[i]))) = Len(log[i])
    BY <1>4, PutLast
  <2> QED BY <2>1 DEF RowsNow
<1>8. Len(log[i]) = SizeIn(Shown(cur), i)
  BY <1>3, <1>6, <1>7 DEF RowsShow
<1>9. ASSUME NEW at \in Pos, at < get_size(i) PROVE get(i, at) = RowsNow(i)[at + 1]
  <2>1. PICK n \in 1 .. SizeIn(Shown(cur), i) : n = at + 1 /\ n - 1 = at
    BY <1>1, <1>6, <1>9 DEF Pos
  <2>2. get(i, n - 1) = RowsIn(Shown(cur), i)[n]
    BY <1>1, <1>2, RowsRead
  <2> QED BY <1>3, <2>1, <2>2 DEF RowsShow
<1>10. ASSUME NEW at \in Pos PROVE get(i, at) \in Stored
  <2>1. PICK s \in 1 .. MaxRows : s = at + 1 /\ s \in Slots
    BY <1>1 DEF Pos, Slots
  <2>2. Slot(i, s) = Shown(cur)[i][s]
    BY <1>1, <1>2, <2>1, ReadsShow
  <2> QED BY <1>1, <1>2, <2>1, <2>2 DEF get, ShownTyped
<1> QED BY <1>1, <1>2, <1>3, <1>4, <1>5, <1>6, <1>8, <1>9, <1>10

(* Making the IndexFile changes nothing in the catalogue. *)
LEMMA FilesMade ==
  ASSUME Typed, NEW i \in DOMAIN tables, tables' = tables \/ tables' = WithFile(i)
  PROVE  /\ TablesAfter(i) /\ DOMAIN tables' = DOMAIN tables /\ Len(tables') = Len(tables)
         /\ tables'[i].kind = tables[i].kind
<1> DEFINE made == [tables[i] EXCEPT !.file = FileOf(i)]
<1>1. /\ tables \in Seq(TableRec) /\ Len(tables) <= MaxTables /\ i \in 1 .. Len(tables)
      /\ DOMAIN tables = 1 .. Len(tables) /\ Len(tables) \in Nat
      /\ \A j \in DOMAIN tables : tables[j] \in TableRec /\ tables[j].file \in {None, tables[j].kind}
  BY TablesInPlaces, LenProperties DEF Typed
<1>2. FileOf(i) = tables[i].kind
  BY <1>1 DEF FileOf
<1>3. made \in TableRec /\ made.name = tables[i].name /\ made.kind = tables[i].kind /\ made.file = tables[i].kind
  BY <1>1, <1>2 DEF TableRec
<1>4. WithFile(i) = [tables EXCEPT ![i] = made]
  BY DEF WithFile
<1> HIDE DEF made
<1>5. CASE tables' = WithFile(i)
  <2>1. /\ tables' \in Seq(TableRec) /\ Len(tables') = Len(tables)
        /\ \A j \in 1 .. Len(tables) : tables'[j] = IF j = i THEN made ELSE tables[j]
    BY <1>1, <1>3, <1>4, <1>5, ExceptSeq
  <2>2. DOMAIN tables' = 1 .. Len(tables)
    BY <2>1, LenProperties
  <2>3. \A j \in DOMAIN tables : /\ tables'[j].name = tables[j].name /\ tables'[j].kind = tables[j].kind
                                 /\ tables'[j].file \in {None, tables'[j].kind}
    BY <1>1, <1>3, <2>1
  <2> QED BY <1>1, <2>1, <2>2, <2>3 DEF TablesAfter
<1>6. CASE tables' = tables
  BY <1>1, <1>6 DEF TablesAfter
<1> QED BY <1>5, <1>6

(* A write to an index, *)
KeysOnly(i) ==
  /\ PagesTyped(cur') /\ durable' = durable
  /\ Shown(cur') = Shown(cur) /\ KeysTyped(Keys(cur'))
  /\ \A j \in Places \ {i} : Keys(cur')[j] = Keys(cur)[j]

LEMMA IndexWritten ==
  ASSUME StoreTyped, NEW i \in Places, NEW x \in {Junk} \cup Trees, WriteCell(IndexPage(i), 0, x)
  PROVE  KeysOnly(i) /\ Keys(cur')[i] = x
<1>1. x \in Contents
  BY DEF Stored, Contents
<1>2. /\ PagesTyped(cur') /\ durable' = durable /\ Shown(cur') = Shown(cur)
      /\ Keys(cur') = [Keys(cur) EXCEPT ![i] = x]
  BY <1>1, IndexWrites
<1>3. Keys(cur) \in [Places -> {Junk} \cup Trees]
  BY DEF StoreTyped, KeysTyped
<1>4. /\ Keys(cur') \in [Places -> {Junk} \cup Trees] /\ Keys(cur')[i] = x
      /\ \A j \in Places \ {i} : Keys(cur')[j] = Keys(cur)[j]
  BY <1>2, <1>3
<1> QED BY <1>2, <1>4 DEF KeysOnly, KeysTyped

LEMMA NothingWritten ==
  ASSUME StoreTyped, NEW i \in Places, UNCHANGED pages
  PROVE  KeysOnly(i) /\ Keys(cur')[i] = Keys(cur)[i]
BY DEF StoreTyped, pages, KeysOnly

LEMMA TreeHeld ==
  ASSUME NEW K, KeysTyped(K), NEW i \in Places
  PROVE  /\ K[i] # Junk => K[i] = Tree(K[i][2]) /\ K[i][2] \in [Stored \X Pos -> 0 .. MaxCopies]
         /\ K[i] \in {Junk} \cup Trees
         /\ \A e : K[i] = Tree(e) => K[i] # Junk /\ K[i][2] = e
<1>1. K[i] \in {Junk} \cup Trees
  BY DEF KeysTyped
<1>2. ASSUME K[i] # Junk PROVE K[i] = Tree(K[i][2]) /\ K[i][2] \in [Stored \X Pos -> 0 .. MaxCopies]
  <2>1. PICK e \in [Stored \X Pos -> 0 .. MaxCopies] : K[i] = Tree(e)
    BY <1>1, <1>2 DEF Trees
  <2>2. K[i][2] = e
    BY <2>1 DEF Tree
  <2> QED BY <2>1, <2>2
<1>3. ASSUME NEW e, K[i] = Tree(e) PROVE K[i] # Junk /\ K[i][2] = e
  BY <1>3 DEF Tree, Junk
<1> QED BY <1>1, <1>2, <1>3

(* which adds a key *)
LEMMA KeyAdded ==
  ASSUME IInv, phase = "run", NEW i \in DOMAIN tables, NEW r \in Stored, NEW at \in Pos,
         addKey(i, r, at)
  PROVE  /\ KeysOnly(i)
         /\ \A e : tables[i].kind = "TREEINDEX" /\ Keys(cur)[i] = Tree(e) =>
                     Keys(cur')[i] = Tree(Plus(e, r, at))
<1> DEFINE k == Keys(cur)[i]
<1>1. /\ StoreTyped /\ KeysTyped(Keys(cur)) /\ i \in Places /\ FileOf(i) = tables[i].kind
  BY TableKnown
<1>2. KeysOf(i) = k
  BY <1>1, ReadsShow DEF KeysOf
<1>3. k # Junk => k[2] \in [Stored \X Pos -> 0 .. MaxCopies]
  BY <1>1, TreeHeld
<1>4. MaxCopies \in Nat
  BY DatabaseAssumption
<1>5. CASE tables[i].kind = "TREEINDEX"
  <2>1. PICK x : x = IF k = Junk THEN Junk ELSE Tree(Plus(k[2], r, at))
    OBVIOUS
  <2>2. WriteCell(IndexPage(i), 0, x)
    BY <1>1, <1>2, <1>5, <2>1 DEF addKey, Rekey, Plus
  <2>3. k # Junk => k[2][<<r, at>>] < MaxCopies
    BY <1>1, <1>2, <1>5 DEF addKey
  <2>4. x \in {Junk} \cup Trees
    <3>1. CASE k = Junk
      BY <2>1, <3>1
    <3>2. CASE k # Junk
      <4>1. PICK p \in Stored \X Pos : p = <<r, at>>
        OBVIOUS
      <4>2. PICK e \in [Stored \X Pos -> 0 .. MaxCopies] : e = k[2]
        BY <1>3, <3>2
      <4>3. e[p] + 1 \in 0 .. MaxCopies
        BY <1>4, <2>3, <3>2, <4>1, <4>2
      <4>4. Plus(e, r, at) \in [Stored \X Pos -> 0 .. MaxCopies]
        BY <4>1, <4>3 DEF Plus
      <4> QED BY <2>1, <3>2, <4>2, <4>4 DEF Trees
    <3> QED BY <3>1, <3>2
  <2>5. KeysOnly(i) /\ Keys(cur')[i] = x
    BY <1>1, <2>2, <2>4, IndexWritten
  <2>6. ASSUME NEW e, k = Tree(e) PROVE x = Tree(Plus(e, r, at))
    <3>1. k # Junk /\ k[2] = e
      BY <1>1, <2>6, TreeHeld
    <3> QED BY <2>1, <3>1
  <2> QED BY <2>5, <2>6
<1>6. CASE tables[i].kind # "TREEINDEX"
  <2>1. UNCHANGED pages
    BY <1>1, <1>6 DEF addKey, Rekey
  <2> QED BY <1>1, <1>6, <2>1, NothingWritten
<1> QED BY <1>5, <1>6

(* or removes one, *)
LEMMA KeyDeleted ==
  ASSUME IInv, phase = "run", NEW i \in DOMAIN tables, NEW r \in Stored, NEW at,
         deleteKey(i, r, at)
  PROVE  /\ KeysOnly(i)
         /\ \A e : tables[i].kind = "TREEINDEX" /\ Keys(cur)[i] = Tree(e) =>
                     Keys(cur')[i] = Tree(Minus(e, r, at))
<1> DEFINE k == Keys(cur)[i]
<1>1. /\ StoreTyped /\ KeysTyped(Keys(cur)) /\ i \in Places /\ FileOf(i) = tables[i].kind
  BY TableKnown
<1>2. KeysOf(i) = k
  BY <1>1, ReadsShow DEF KeysOf
<1>3. k # Junk => k[2] \in [Stored \X Pos -> 0 .. MaxCopies]
  BY <1>1, TreeHeld
<1>4. MaxCopies \in Nat
  BY DatabaseAssumption
<1>5. CASE tables[i].kind = "TREEINDEX"
  <2>1. PICK x : x = IF k = Junk THEN Junk ELSE Tree(Minus(k[2], r, at))
    OBVIOUS
  <2>2. WriteCell(IndexPage(i), 0, x)
    BY <1>1, <1>2, <1>5, <2>1 DEF deleteKey, Rekey, Minus
  <2>4. x \in {Junk} \cup Trees
    <3>1. CASE k = Junk
      BY <2>1, <3>1
    <3>2. CASE k # Junk
      <4>1. PICK e \in [Stored \X Pos -> 0 .. MaxCopies] : e = k[2]
        BY <1>3, <3>2
      <4>2. Minus(e, r, at) \in [Stored \X Pos -> 0 .. MaxCopies]
        <5>1. CASE at \in Pos /\ e[<<r, at>>] > 0
          <6>1. PICK p \in Stored \X Pos : p = <<r, at>>
            BY <5>1
          <6>2. e[p] - 1 \in 0 .. MaxCopies
            BY <1>4, <5>1, <6>1
          <6> QED BY <5>1, <6>1, <6>2 DEF Minus
        <5>2. CASE ~(at \in Pos /\ e[<<r, at>>] > 0)
          BY <5>2 DEF Minus
        <5> QED BY <5>1, <5>2
      <4> QED BY <2>1, <3>2, <4>1, <4>2 DEF Trees
    <3> QED BY <3>1, <3>2
  <2>5. KeysOnly(i) /\ Keys(cur')[i] = x
    BY <1>1, <2>2, <2>4, IndexWritten
  <2>6. ASSUME NEW e, k = Tree(e) PROVE x = Tree(Minus(e, r, at))
    <3>1. k # Junk /\ k[2] = e
      BY <1>1, <2>6, TreeHeld
    <3> QED BY <2>1, <3>1
  <2> QED BY <2>5, <2>6
<1>6. CASE tables[i].kind # "TREEINDEX"
  <2>1. UNCHANGED pages
    BY <1>1, <1>6 DEF deleteKey, Rekey
  <2> QED BY <1>1, <1>6, <2>1, NothingWritten
<1> QED BY <1>5, <1>6

(* and one to a slot. *)
SlotOnly(i, s, x) ==
  /\ PagesTyped(cur') /\ durable' = durable
  /\ Shown(cur') = Changed(Shown(cur), i, s, x) /\ Keys(cur') = Keys(cur)

LEMMA SlotOnlyWritten ==
  ASSUME StoreTyped, NEW i \in Places, NEW s \in Slots, NEW x \in Counts \cup Stored,
         WriteSlot(i, s, x)
  PROVE  SlotOnly(i, s, x)
<1>1. x \in Contents
  BY DEF Counts, Stored, Contents
<1> QED BY <1>1, SlotsWrite DEF SlotOnly

(* What they mean for the pages, and for the rows that the process found.   *)
LEMMA KeysOnlyPages ==
  ASSUME StoreTyped, NEW i \in Places, KeysOnly(i),
         i \in changed' \/ Keys(cur')[i] = Keys(cur)[i]
  PROVE  PagesAfter(i)
BY DEF KeysOnly, StoreTyped, PagesAfter

LEMMA SlotOnlyPages ==
  ASSUME StoreTyped, NEW i \in Places, NEW s, NEW x, SlotOnly(i, s, x), i \in changed',
         ShownTyped(Shown(cur')), \A j \in Places \ {i} : Shown(cur')[j] = Shown(cur)[j]
  PROVE  PagesAfter(i)
BY DEF SlotOnly, StoreTyped, PagesAfter

LEMMA KeptSame ==
  ASSUME StoreTyped, NEW i \in Places, Shown(cur') = Shown(cur), written' = written
  PROVE  Kept(i)
<1>1. SizeIn(Shown(cur), i) \in Nat
  BY RowsShown, DatabaseAssumption DEF StoreTyped
<1> QED BY <1>1 DEF Kept

(* What a statement leaves of the histories but for the log. *)
MarksSame(i) ==
  /\ UNCHANGED <<base, written, died>>
  /\ changed' \in {changed, changed \cup {i}} /\ stale' \in {stale, stale \cup {i}}

LogAfter(i) == log' = log \/ \E rows \in Seq(Stored) : log' = [log EXCEPT ![i] = rows]

LEMMA LogKept ==
  ASSUME IInv, phase = "run", NEW i \in DOMAIN tables, LogAfter(i), Len(tables') = Len(tables)
  PROVE  /\ log' \in Seq(Seq(Stored)) /\ Len(log') = Len(tables')
         /\ \A j \in DOMAIN tables \ {i} : log'[j] = log[j]
         /\ \A rows : log' = [log EXCEPT ![i] = rows] => log'[i] = rows
<1>1. /\ log \in Seq(Seq(Stored)) /\ Len(log) = Len(tables) /\ i \in 1 .. Len(log)
      /\ DOMAIN log = 1 .. Len(log) /\ DOMAIN tables = 1 .. Len(tables)
  BY TablesInPlaces DEF IInv, Typed, LogOK
<1>2. CASE log' = log
  BY <1>1, <1>2
<1>3. ASSUME NEW rows \in Seq(Stored), log' = [log EXCEPT ![i] = rows]
      PROVE  /\ log' \in Seq(Seq(Stored)) /\ Len(log') = Len(tables')
             /\ \A j \in DOMAIN tables \ {i} : log'[j] = log[j]
  <2>1. PICK S : S = Seq(Stored)
    OBVIOUS
  <2>2. rows \in S /\ log \in Seq(S)
    BY <1>1, <2>1
  <2>3. /\ log' \in Seq(S) /\ Len(log') = Len(log)
        /\ \A j \in 1 .. Len(log) : log'[j] = IF j = i THEN rows ELSE log[j]
    BY <1>1, <1>3, <2>2, ExceptSeq
  <2> QED BY <1>1, <2>1, <2>3
<1>4. \A rows : log' = [log EXCEPT ![i] = rows] => log'[i] = rows
  BY <1>1
<1> QED BY <1>2, <1>3, <1>4 DEF LogAfter

LEMMA StatementWorks ==
  ASSUME IInv, NEW i \in DOMAIN tables, phase = "run", UNCHANGED <<phase, meta>>,
         call = Idle \/ call.i = i, call' = Idle \/ call'.i = i,
         tables' = tables \/ tables' = WithFile(i),
         LogAfter(i), MarksSame(i), PagesAfter(i), Kept(i)
  PROVE  /\ Works(i) /\ DOMAIN tables' = DOMAIN tables /\ tables'[i].kind = tables[i].kind
         /\ \A rows : log' = [log EXCEPT ![i] = rows] => log'[i] = rows
<1>1. Typed /\ i \in Places
  BY TableKnown
<1>2. /\ TablesAfter(i) /\ DOMAIN tables' = DOMAIN tables /\ Len(tables') = Len(tables)
      /\ tables'[i].kind = tables[i].kind
  BY <1>1, FilesMade
<1>3. /\ log' \in Seq(Seq(Stored)) /\ Len(log') = Len(tables')
      /\ \A j \in DOMAIN tables \ {i} : log'[j] = log[j]
      /\ \A rows : log' = [log EXCEPT ![i] = rows] => log'[i] = rows
  BY <1>2, LogKept
<1>4. PastAfter(i)
  <2>1. written \subseteq Places \X (1 .. MaxRows) \X Stored
    BY <1>1 DEF Typed
  <2>2. /\ died' = died /\ base' = base /\ written' = written
        /\ changed \subseteq changed' /\ changed' \subseteq changed \cup {i}
        /\ stale \subseteq stale' /\ stale' \subseteq stale \cup {i}
    BY DEF MarksSame
  <2> QED BY <1>3, <2>1, <2>2 DEF PastAfter
<1> QED BY <1>1, <1>2, <1>3, <1>4 DEF Works

-----------------------------------------------------------------------------
(* What a statement that is running knows. *)

LEMMA CallKnown ==
  ASSUME IInv, call # Idle
  PROVE  /\ phase = "run" /\ call.i \in DOMAIN tables
         /\ Indexing \/ Inserting \/ Deleting \/ Updating
         /\ call.op # "update" => call.i \in changed
BY DEF IInv, CallOK

LEMMA CallOps ==
  ASSUME IInv
  PROVE  /\ call.op = "index" => call # Idle /\ Indexing
         /\ call.op \in {"insert", "inserted"} => call # Idle /\ Inserting
         /\ call.op \in {"delete", "moved", "unfiled", "rekeyed"} => call # Idle /\ Deleting
         /\ call.op \in {"update", "unkeyed"} => call # Idle /\ Updating
<1>1. Idle.op = "idle"
  BY DEF Idle
<1>2. /\ Indexing => call.op = "index"
      /\ Inserting => call.op \in {"insert", "inserted"}
      /\ Deleting => call.op \in {"delete", "moved", "unfiled", "rekeyed"}
      /\ Updating => call.op \in {"update", "unkeyed"}
  BY DEF Indexing, Inserting, Deleting, Updating
<1>3. CASE call = Idle
  BY <1>1, <1>3
<1>4. CASE call # Idle
  BY <1>2, <1>4, CallKnown
<1> QED BY <1>3, <1>4

LEMMA IdleNow ==
  ASSUME call = Idle, NEW i
  PROVE  RowsNow(i) = log[i] /\ EntriesNow(i) = AllOf(log[i]) /\ ~Busy({"index"}, i)
BY NotBusy

(* What a search returns is a row, unless the index is out of step. *)
LEMMA SelectedThere ==
  ASSUME IInv, Running, NEW i \in DOMAIN tables, NEW at \in Pos, Selected(i, at)
  PROVE  at < SizeIn(Shown(cur), i) \/ i \in stale
<1> SUFFICES ASSUME ~(at < SizeIn(Shown(cur), i)), i \notin stale PROVE FALSE
  OBVIOUS
<1>1. /\ StoreTyped /\ KeysTyped(Keys(cur)) /\ i \in Places /\ FileOf(i) = tables[i].kind
      /\ Agrees(i) /\ get_size(i) = SizeIn(Shown(cur), i) /\ Len(log[i]) = SizeIn(Shown(cur), i)
  BY TableKnown DEF Running
<1>2. /\ tables[i].kind = "TREEINDEX"
      /\ KeysOf(i) # Junk => \E r \in Stored : KeysOf(i)[2][<<r, at>>] > 0
  BY <1>1 DEF Selected
<1>3. KeysOf(i) = Tree(AllOf(log[i]))
  <2>1. EntriesNow(i) = AllOf(log[i])
    BY IdleNow DEF Running
  <2> QED BY <1>1, <1>2, <2>1, ReadsShow DEF Agrees, KeysOf
<1>4. KeysOf(i) # Junk /\ KeysOf(i)[2] = AllOf(log[i])
  BY <1>3 DEF Tree, Junk
<1>5. PICK r \in Stored : AllOf(log[i])[<<r, at>>] > 0
  BY <1>2, <1>4
<1>6. AllOf(log[i])[<<r, at>>] = 0
  BY <1>1 DEF AllOf, AllBut
<1> QED BY <1>5, <1>6

-----------------------------------------------------------------------------
(* CREATE TABLE and CREATE INDEX. *)

LEMMA CreateTableKeeps ==
  ASSUME IInv, NEW n \in Names, CreateTable(n)
  PROVE  IInv'
<1>0. PICK i : i = Len(tables) + 1
  OBVIOUS
<1> DEFINE t == Table(n, "NOINDEX")
<1>1. /\ Typed /\ StoreTyped /\ phase = "run" /\ call = Idle /\ i \in Places
      /\ tables' = Append(tables, t) /\ log' = Append(log, <<>>)
      /\ WriteSlot(i, 0, Count(0))
      /\ changed' = changed \cup {i} /\ stale' = stale \ {i}
      /\ UNCHANGED <<phase, meta, call, base, written, died>>
  BY <1>0 DEF IInv, CreateTable, Running
<1>2. /\ tables \in Seq(TableRec) /\ Len(tables) <= MaxTables /\ Len(tables) \in Nat
      /\ DOMAIN tables = 1 .. Len(tables) /\ DOMAIN log = 1 .. Len(log) /\ Len(log) = Len(tables)
      /\ log \in Seq(Seq(Stored)) /\ DOMAIN base = 1 .. Len(base) /\ Len(base) <= Len(tables)
      /\ Len(base) \in Nat /\ MaxTables \in Nat
      /\ \A j \in DOMAIN tables : tables[j].file \in {None, tables[j].kind}
  BY <1>1, TablesInPlaces, DatabaseAssumption, LenProperties DEF Typed, IInv, LogOK, BaseOK
<1>3. i \notin DOMAIN tables /\ i \notin DOMAIN base /\ Len(tables) + 1 <= MaxTables
  BY <1>0, <1>1, <1>2 DEF Places
<1>4. t \in TableRec /\ t.kind = "NOINDEX" /\ t.file = "NOINDEX"
  BY DEF Table, TableRec, Kinds
<1> HIDE DEF t
<1>5. /\ tables' \in Seq(TableRec) /\ Len(tables') = Len(tables) + 1
      /\ \A j \in 1 .. Len(tables) + 1 : tables'[j] = IF j = Len(tables) + 1 THEN t ELSE tables[j]
  BY <1>1, <1>2, <1>4, AppendProperties
<1>6. DOMAIN tables' = 1 .. Len(tables) + 1
  BY <1>5, LenProperties
<1>7. TablesAfter(i)
  <2>1. \A j \in DOMAIN tables' : tables'[j].file \in {None, tables'[j].kind}
    BY <1>2, <1>4, <1>5, <1>6
  <2>2. \A j \in DOMAIN tables : tables'[j] = tables[j]
    BY <1>2, <1>5
  <2>3. \A j \in DOMAIN tables' \ {i} : j \in DOMAIN tables
    BY <1>0, <1>2, <1>6
  <2> QED BY <1>2, <1>3, <1>5, <2>1, <2>2, <2>3 DEF TablesAfter
<1>8. /\ log' \in Seq(Seq(Stored)) /\ Len(log') = Len(tables') /\ log'[i] = <<>>
      /\ \A j \in DOMAIN tables \ {i} : log'[j] = log[j]
  <2>1. PICK S : S = Seq(Stored)
    OBVIOUS
  <2>2. <<>> \in S /\ log \in Seq(S)
    BY <1>2, <2>1
  <2>3. /\ log' \in Seq(S) /\ Len(log') = Len(log) + 1
        /\ \A j \in 1 .. Len(log) + 1 : log'[j] = IF j = Len(log) + 1 THEN <<>> ELSE log[j]
    BY <1>1, <2>2, AppendProperties
  <2>4. /\ i = Len(log) + 1 /\ i \in 1 .. Len(log) + 1
        /\ \A j \in DOMAIN tables : j \in 1 .. Len(log) + 1 /\ j # Len(log) + 1
    BY <1>0, <1>2
  <2> QED BY <1>2, <1>5, <2>1, <2>3, <2>4
<1>9. PastAfter(i)
  <2>1. written \subseteq Places \X (1 .. MaxRows) \X Stored
    BY <1>1 DEF Typed
  <2> QED BY <1>1, <1>8, <2>1 DEF PastAfter
<1>10. SlotOnly(i, 0, Count(0))
  BY <1>1, DatabaseAssumption, SlotOnlyWritten DEF Slots, Counts
<1>11. /\ ShownTyped(Shown(cur')) /\ \A j \in Places \ {i} : Shown(cur')[j] = Shown(cur)[j]
       /\ RowsIn(Shown(cur'), i) = <<>>
  BY <1>1, <1>10, RowsGone DEF SlotOnly, StoreTyped
<1>12. PagesAfter(i)
  BY <1>1, <1>10, <1>11, SlotOnlyPages
<1>13. Works(i)
  BY <1>1, <1>3, <1>7, <1>9, <1>12 DEF Works, Kept
<1>14. CallOK'
  BY <1>1 DEF CallOK
<1>15. RowsShow(i)'
  BY <1>1, <1>8, <1>11, NotBusyNext DEF RowsShow
<1>16. Agrees(i)'
  <2>0. i \in 1 .. Len(tables) + 1
    BY <1>0, <1>2
  <2>1. tables'[i].kind = "NOINDEX"
    BY <1>0, <1>4, <1>5, <2>0
  <2> QED BY <2>1 DEF Agrees
<1> QED BY <1>13, <1>14, <1>15, <1>16, WorksKeep

(* A tree without entries is that of no row. *)
LEMMA EmptyTree ==
  ASSUME NEW rows
  PROVE  EntriesOf(<<>>, 0) = AllBut(rows, 0 .. MaxRows)
<1>1. \A n \in Pos : ~(n < 0) /\ n \in 0 .. MaxRows
  BY DatabaseAssumption DEF Pos
<1>2. \A e \in Stored \X Pos : e[2] \in Pos
  OBVIOUS
<1> QED BY <1>1, <1>2 DEF EntriesOf, AllBut

LEMMA CreateIndexKeeps ==
  ASSUME IInv, NEW i \in DOMAIN tables, NEW type \in IndexTypes, CreateIndex(i, type)
  PROVE  IInv'
<1> DEFINE made == [tables[i] EXCEPT !.kind = type, !.file = type]
<1>1. /\ phase = "run" /\ call = Idle
      /\ tables' = [tables EXCEPT ![i].kind = type, ![i].file = type]
      /\ UNCHANGED <<phase, meta, log, base, written, died, stale>>
  BY DEF CreateIndex, Running
<1>2. /\ Typed /\ StoreTyped /\ ShownTyped(Shown(cur)) /\ i \in Places
      /\ i \in DOMAIN log /\ log[i] \in Seq(Stored) /\ RowsShow(i)
      /\ SizeIn(Shown(cur), i) \in 0 .. MaxRows
  BY <1>1, TableKnown
<1>3. /\ tables \in Seq(TableRec) /\ Len(tables) <= MaxTables /\ i \in 1 .. Len(tables)
      /\ Len(tables) \in Nat /\ DOMAIN tables = 1 .. Len(tables)
      /\ \A j \in DOMAIN tables : tables[j] \in TableRec /\ tables[j].file \in {None, tables[j].kind}
  BY <1>2, TablesInPlaces, LenProperties DEF Typed
<1>4. made \in TableRec /\ made.name = tables[i].name /\ made.kind = type /\ made.file = type
  BY <1>3, DatabaseAssumption DEF TableRec
<1>5. tables' = [tables EXCEPT ![i] = made]
  BY <1>1
<1> HIDE DEF made
<1>6. /\ tables' \in Seq(TableRec) /\ Len(tables') = Len(tables)
      /\ \A j \in 1 .. Len(tables) : tables'[j] = IF j = i THEN made ELSE tables[j]
  BY <1>3, <1>4, <1>5, ExceptSeq
<1>7. DOMAIN tables' = DOMAIN tables
  BY <1>3, <1>6, LenProperties
<1>8. TablesAfter(i)
  <2>1. \A j \in DOMAIN tables' : tables'[j].file \in {None, tables'[j].kind}
    BY <1>3, <1>4, <1>6, <1>7
  <2>2. \A j \in DOMAIN tables : tables'[j].name = tables[j].name
    BY <1>3, <1>4, <1>6
  <2>3. \A j \in DOMAIN tables' \ {i} : j \in DOMAIN tables /\ tables'[j].kind = tables[j].kind
    BY <1>3, <1>6, <1>7
  <2> QED BY <1>3, <1>6, <2>1, <2>2, <2>3 DEF TablesAfter
<1>9. ASSUME changed' \in {changed, changed \cup {i}} PROVE PastAfter(i)
  <2>1. /\ written \subseteq Places \X (1 .. MaxRows) \X Stored
        /\ log \in Seq(Seq(Stored)) /\ Len(log) = Len(tables)
    BY <1>1, <1>2 DEF Typed, IInv, LogOK
  <2> QED BY <1>1, <1>6, <1>9, <2>1 DEF PastAfter
<1>10. tables'[i].kind = type
  BY <1>3, <1>4, <1>6
<1>11. CASE type = "TREEINDEX"
  <2>1. /\ call' = [op |-> "index", i |-> i, next |-> 0] /\ changed' = changed \cup {i}
        /\ WriteCell(IndexPage(i), 0, Tree(EntriesOf(<<>>, 0)))
    BY <1>11 DEF CreateIndex
  <2>2. Tree(EntriesOf(<<>>, 0)) = Tree(AllBut(log[i], 0 .. MaxRows)) /\ Tree(EntriesOf(<<>>, 0)) \in Trees
    BY EmptyTree, EntriesTyped
  <2>3. KeysOnly(i) /\ Keys(cur')[i] = Tree(AllBut(log[i], 0 .. MaxRows))
    BY <1>2, <2>1, <2>2, IndexWritten
  <2>4. PagesAfter(i) /\ Kept(i) /\ Shown(cur') = Shown(cur)
    BY <1>1, <1>2, <2>1, <2>3, KeysOnlyPages, KeptSame DEF KeysOnly
  <2>5. call'.op = "index" /\ call'.i = i /\ call'.next = 0 /\ Busy({"index"}, i)'
    BY <2>1 DEF Busy
  <2>6. Works(i)
    BY <1>1, <1>2, <1>8, <1>9, <2>1, <2>4, <2>5 DEF Works
  <2>7. CallOK'
    <3>1. call' \in [op : {"index"}, i : Places, next : 0 .. MaxRows]
      BY <1>2, <2>1, DatabaseAssumption
    <3>2. Indexing'
      BY <1>2, <2>4, <2>5, <3>1, DatabaseAssumption DEF Indexing
    <3> QED BY <1>1, <1>7, <2>1, <2>5, <3>2 DEF CallOK
  <2>8. RowsShow(i)'
    <3>1. RowsNow(i) = log[i] /\ RowsNow(i)' = log[i]
      BY <1>1, <2>5, IdleNow DEF RowsNow, Busy
    <3> QED BY <1>2, <2>4, <3>1 DEF RowsShow
  <2>9. Agrees(i)'
    <3>1. EntriesNow(i)' = AllBut(log[i], 0 .. MaxRows)
      BY <1>1, <2>5 DEF EntriesNow
    <3> QED BY <2>3, <3>1 DEF Agrees
  <2> QED BY <2>6, <2>7, <2>8, <2>9, WorksKeep
<1>12. CASE type # "TREEINDEX"
  <2>1. UNCHANGED <<pages, call, changed>>
    BY <1>12 DEF CreateIndex
  <2>2. KeysOnly(i) /\ Keys(cur')[i] = Keys(cur)[i]
    BY <1>2, <2>1, NothingWritten
  <2>3. PagesAfter(i) /\ Kept(i) /\ Shown(cur') = Shown(cur)
    BY <1>1, <1>2, <2>2, KeysOnlyPages, KeptSame DEF KeysOnly
  <2>4. Works(i)
    BY <1>1, <1>2, <1>8, <1>9, <2>1, <2>3 DEF Works
  <2>5. CallOK'
    BY <1>1, <2>1 DEF CallOK
  <2>6. RowsShow(i)'
    <3>1. RowsNow(i) = log[i] /\ RowsNow(i)' = log[i]
      BY <1>1, <2>1, IdleNow, NotBusyNext
    <3> QED BY <1>2, <2>3, <3>1 DEF RowsShow
  <2>7. Agrees(i)'
    BY <1>10, <1>12 DEF Agrees
  <2> QED BY <2>4, <2>5, <2>6, <2>7, WorksKeep
<1> QED BY <1>11, <1>12

LEMMA IndexRowKeeps ==
  ASSUME IInv, IndexRow
  PROVE  IInv'
<1>1. PICK i \in Places : i = call.i
  BY CallOps DEF IndexRow, Indexing
<1>2. PICK n \in 0 .. MaxRows : n = call.next
  BY CallOps DEF IndexRow, Indexing
<1>3. /\ call.op = "index" /\ Indexing /\ phase = "run" /\ i \in DOMAIN tables /\ i \in changed
  BY <1>1, CallOps, CallKnown DEF IndexRow
<1>4. /\ n < get_size(i) /\ addKey(i, get(i, n), n) /\ call' = [call EXCEPT !.next = n + 1]
      /\ UNCHANGED <<phase, meta, tables, past>>
  BY <1>1, <1>2 DEF IndexRow
<1>5. /\ Typed /\ StoreTyped /\ log[i] \in Seq(Stored) /\ RowsShow(i) /\ Agrees(i)
      /\ get_size(i) = SizeIn(Shown(cur), i) /\ SizeIn(Shown(cur), i) \in 0 .. MaxRows
      /\ Len(log[i]) = SizeIn(Shown(cur), i)
      /\ \A at \in Pos : at < get_size(i) => get(i, at) = RowsNow(i)[at + 1]
      /\ \A at \in Pos : get(i, at) \in Stored
  BY <1>3, TableKnown
<1>6. n \in Pos /\ n + 1 \in 0 .. MaxRows /\ n < Len(log[i]) /\ MaxRows \in Nat
  BY <1>4, <1>5, DatabaseAssumption DEF Pos
<1>7. RowsNow(i) = log[i] /\ Busy({"index"}, i) /\ EntriesNow(i) = AllBut(log[i], n .. MaxRows)
  BY <1>1, <1>2, <1>3 DEF RowsNow, EntriesNow, Busy
<1>8. call' = [op |-> "index", i |-> i, next |-> n + 1]
  BY <1>1, <1>3, <1>4 DEF Indexing
<1>9. /\ call'.op = "index" /\ call'.i = i /\ call'.next = n + 1
      /\ log' = log /\ RowsNow(i)' = log[i] /\ EntriesNow(i)' = AllBut(log[i], n + 1 .. MaxRows)
  BY <1>4, <1>8 DEF RowsNow, EntriesNow, Busy, past
<1>10. /\ KeysOnly(i)
       /\ \A e : tables[i].kind = "TREEINDEX" /\ Keys(cur)[i] = Tree(e) =>
                   Keys(cur')[i] = Tree(Plus(e, get(i, n), n))
  BY <1>3, <1>4, <1>5, <1>6, KeyAdded
<1>11. Plus(AllBut(log[i], n .. MaxRows), get(i, n), n) = AllBut(log[i], n + 1 .. MaxRows)
  <2>1. get(i, n) = log[i][n + 1]
    BY <1>4, <1>5, <1>6, <1>7
  <2>2. n \in n .. MaxRows /\ (n .. MaxRows) \ {n} = n + 1 .. MaxRows
    BY <1>6
  <2> QED BY <1>5, <1>6, <2>1, <2>2, EntryAdded
<1>12. i \in changed' /\ MarksSame(i) /\ LogAfter(i) /\ written' = written
  BY <1>3, <1>4 DEF past, MarksSame, LogAfter
<1>13. PagesAfter(i) /\ Kept(i) /\ Shown(cur') = Shown(cur)
  BY <1>5, <1>10, <1>12, KeysOnlyPages, KeptSame DEF KeysOnly
<1>14. Works(i) /\ tables' = tables
  BY <1>1, <1>3, <1>4, <1>9, <1>12, <1>13, StatementWorks
<1>15. CallOK'
  <2>1. Indexing'
    <3>1. n + 1 <= SizeIn(Shown(cur), i)
      BY <1>4, <1>5, <1>6
    <3>2. call' \in [op : {"index"}, i : Places, next : 0 .. MaxRows]
      BY <1>6, <1>8
    <3> QED BY <1>9, <1>13, <3>1, <3>2 DEF Indexing
  <2> QED BY <1>3, <1>4, <1>9, <1>12, <1>14, <2>1 DEF CallOK
<1>16. RowsShow(i)'
  BY <1>5, <1>7, <1>9, <1>13 DEF RowsShow
<1>17. Agrees(i)'
  BY <1>5, <1>7, <1>9, <1>10, <1>11, <1>14 DEF Agrees
<1> QED BY <1>14, <1>15, <1>16, <1>17, WorksKeep

LEMMA IndexEndKeeps ==
  ASSUME IInv, IndexEnd
  PROVE  IInv'
<1>1. PICK i \in Places : i = call.i
  BY CallOps DEF IndexEnd, Indexing
<1>2. PICK n \in 0 .. MaxRows : n = call.next
  BY CallOps DEF IndexEnd, Indexing
<1>3. /\ call.op = "index" /\ phase = "run" /\ i \in DOMAIN tables /\ i \in changed
  BY <1>1, CallOps, CallKnown DEF IndexEnd
<1>4. /\ n = get_size(i) /\ call' = Idle /\ stale' = stale \ {i}
      /\ UNCHANGED <<phase, meta, tables, pages, log, base, changed, written, died>>
  BY <1>1, <1>2 DEF IndexEnd
<1>5. /\ Typed /\ StoreTyped /\ log[i] \in Seq(Stored) /\ RowsShow(i) /\ Agrees(i)
      /\ get_size(i) = SizeIn(Shown(cur), i) /\ SizeIn(Shown(cur), i) \in 0 .. MaxRows
      /\ Len(log[i]) = SizeIn(Shown(cur), i)
  BY <1>3, TableKnown
<1>6. RowsNow(i) = log[i] /\ Busy({"index"}, i) /\ EntriesNow(i) = AllBut(log[i], n .. MaxRows)
  BY <1>1, <1>2, <1>3 DEF RowsNow, EntriesNow, Busy
<1>7. AllBut(log[i], n .. MaxRows) = AllOf(log[i])
  <2>1. \A m \in Pos : (m < n /\ m \notin n .. MaxRows) <=> m < n
    BY DatabaseAssumption DEF Pos
  <2>2. n = Len(log[i])
    BY <1>4, <1>5
  <2>3. PICK rows, out, none : rows = log[i] /\ out = n .. MaxRows /\ none = {}
    OBVIOUS
  <2>4. /\ \A m \in Pos : (m < Len(rows) /\ m \notin out) <=> (m < Len(rows) /\ m \notin none)
        /\ \A m \in Pos : m < Len(rows) /\ m \notin out => rows[m + 1] = rows[m + 1]
    BY <2>1, <2>2, <2>3
  <2>5. AllBut(rows, out) = AllBut(rows, none)
    BY <2>4, SameEntries
  <2> QED BY <2>3, <2>5 DEF AllOf
<1>8. RowsNow(i)' = log[i] /\ EntriesNow(i)' = AllOf(log[i])
  BY <1>4, NotBusyNext
<1>9. KeysOnly(i) /\ Keys(cur')[i] = Keys(cur)[i]
  BY <1>4, <1>5, NothingWritten
<1>10. PagesAfter(i) /\ Kept(i) /\ Shown(cur') = Shown(cur)
  BY <1>4, <1>5, <1>9, KeysOnlyPages, KeptSame DEF KeysOnly
<1>11. TablesAfter(i)
  BY <1>3, <1>4, <1>5, FilesMade
<1>12. PastAfter(i)
  <2>1. /\ written \subseteq Places \X (1 .. MaxRows) \X Stored
        /\ log \in Seq(Seq(Stored)) /\ Len(log) = Len(tables)
    BY <1>3, <1>5 DEF Typed, IInv, LogOK
  <2> QED BY <1>3, <1>4, <2>1 DEF PastAfter
<1>13. Works(i)
  BY <1>1, <1>3, <1>4, <1>10, <1>11, <1>12 DEF Works
<1>14. CallOK'
  BY <1>4 DEF CallOK
<1>15. RowsShow(i)'
  BY <1>5, <1>6, <1>8, <1>10 DEF RowsShow
<1>16. Agrees(i)'
  BY <1>4, <1>5, <1>6, <1>7, <1>8, <1>9 DEF Agrees
<1> QED BY <1>13, <1>14, <1>15, <1>16, WorksKeep

LEMMA SelectKeeps ==
  ASSUME IInv, NEW i \in DOMAIN tables, Select(i)
  PROVE  IInv'
<1>1. /\ phase = "run" /\ call = Idle /\ tables' = WithFile(i) /\ durable' = durable
      /\ UNCHANGED <<phase, meta, call, durable, past>>
  BY DEF Select, Running
<1>2. /\ Typed /\ StoreTyped /\ KeysTyped(Keys(cur)) /\ i \in Places /\ RowsShow(i) /\ Agrees(i)
  BY <1>1, TableKnown
<1>3. PagesTyped(cur') /\ Shown(cur') = Shown(cur) /\ Keys(cur') = Keys(cur)
  <2>1. \A p : Loaded(p) = LoadedIn(cur, p)
    BY DEF Loaded, LoadedIn
  <2>2. PICK ps : cur' = Load(ps)
    BY DEF Select
  <2>3. cur' = [p \in PageIds |-> IF p \in ps THEN LoadedIn(cur, p) ELSE cur[p]]
    BY <2>1, <2>2 DEF Load
  <2> QED BY <1>2, <2>3, LoadingShows DEF StoreTyped
<1>4. KeysOnly(i) /\ Keys(cur')[i] = Keys(cur)[i]
  BY <1>1, <1>2, <1>3 DEF KeysOnly
<1>5. MarksSame(i) /\ LogAfter(i) /\ written' = written /\ log' = log /\ stale' = stale
  BY <1>1 DEF past, MarksSame, LogAfter
<1>6. PagesAfter(i) /\ Kept(i)
  BY <1>2, <1>3, <1>4, <1>5, KeysOnlyPages, KeptSame
<1>7. Works(i) /\ tables'[i].kind = tables[i].kind
  BY <1>1, <1>5, <1>6, StatementWorks
<1>8. CallOK'
  BY <1>1 DEF CallOK
<1>9. /\ RowsNow(i) = log[i] /\ EntriesNow(i) = AllOf(log[i]) /\ ~Busy({"index"}, i)
      /\ RowsNow(i)' = log[i] /\ EntriesNow(i)' = AllOf(log[i]) /\ ~Busy({"index"}, i)'
  BY <1>1, <1>5, IdleNow, NotBusyNext
<1>10. RowsShow(i)'
  BY <1>2, <1>3, <1>9 DEF RowsShow
<1>11. Agrees(i)'
  BY <1>2, <1>3, <1>5, <1>7, <1>9 DEF Agrees
<1> QED BY <1>7, <1>8, <1>10, <1>11, WorksKeep

-----------------------------------------------------------------------------
(* INSERT. *)

LEMMA InsertRowKeeps ==
  ASSUME IInv, NEW i \in DOMAIN tables, NEW v \in Insertable, InsertRow(i, v)
  PROVE  IInv'
<1> DEFINE F == Shown(cur)
           G == Shown(cur')
<1>1. /\ phase = "run" /\ call = Idle /\ tables' = WithFile(i) /\ get_size(i) < MaxRows
      /\ WriteSlot(i, get_size(i) + 1, Row(v))
      /\ call' = [op |-> "insert", i |-> i, at |-> get_size(i), row |-> Row(v)]
      /\ changed' = changed \cup {i}
      /\ UNCHANGED <<phase, meta, log, base, written, died, stale>>
  BY DEF InsertRow, Running
<1>2. /\ Typed /\ StoreTyped /\ ShownTyped(F) /\ i \in Places /\ RowsShow(i) /\ Agrees(i)
      /\ get_size(i) = SizeIn(F, i) /\ SizeIn(F, i) \in 0 .. MaxRows
  BY <1>1, TableKnown
<1>3. PICK n \in Pos : n = get_size(i) /\ n = SizeIn(F, i)
  BY <1>1, <1>2, DatabaseAssumption DEF Pos
<1>4. PICK s \in Slots : s = n + 1 /\ s > SizeIn(F, i) /\ s # 0
  BY <1>3, DatabaseAssumption DEF Pos, Slots
<1>5. PICK r \in Stored : r = Row(v)
  BY DatabaseAssumption DEF Stored
<1> HIDE DEF F, G
<1>6. SlotOnly(i, s, r)
  BY <1>1, <1>2, <1>3, <1>4, <1>5, SlotOnlyWritten
<1>7. G = Changed(F, i, s, r) /\ Keys(cur') = Keys(cur)
  BY <1>6 DEF SlotOnly, F, G
<1>8. /\ ShownTyped(G) /\ \A j \in Places \ {i} : G[j] = F[j]
      /\ SizeIn(G, i) = SizeIn(F, i) /\ G[i][s] = r /\ RowsIn(G, i) = RowsIn(F, i)
  BY <1>2, <1>4, <1>7, RowsUntouched
<1>9. MarksSame(i) /\ LogAfter(i) /\ written' = written /\ log' = log /\ i \in changed'
  BY <1>1 DEF MarksSame, LogAfter
<1>10. PagesAfter(i)
  BY <1>2, <1>6, <1>8, <1>9, SlotOnlyPages DEF F, G
<1>11. Kept(i)
  <2>1. ASSUME NEW m \in 1 .. Len(base[i].rows), m <= SizeIn(F, i) PROVE G[i][m] = F[i][m]
    <3>1. m \in Slots \ {s}
      <4>1. m \in Nat /\ m # 0 /\ SizeIn(F, i) <= MaxRows /\ SizeIn(F, i) \in Nat /\ MaxRows \in Nat
        BY <1>2, DatabaseAssumption
      <4>2. m \in 0 .. MaxRows /\ m # s
        BY <1>3, <1>4, <2>1, <4>1 DEF Pos
      <4> QED BY <4>2 DEF Slots
    <3>2. Fits(s, r)
      BY <1>4 DEF Fits
    <3> QED BY <1>2, <1>7, <3>1, <3>2, SlotChanged
  <2>2. SizeIn(F, i) <= SizeIn(G, i)
    BY <1>2, <1>8, DatabaseAssumption
  <2> QED BY <1>9, <2>1, <2>2 DEF Kept, F, G
<1>12. call' = [op |-> "insert", i |-> i, at |-> n, row |-> r]
  BY <1>1, <1>3, <1>5
<1>13. /\ call'.op = "insert" /\ call'.i = i /\ call'.at = n /\ call'.row = r
       /\ RowsNow(i)' = log[i] /\ EntriesNow(i)' = AllOf(log[i])
  BY <1>9, <1>12 DEF RowsNow, EntriesNow, Busy
<1>14. /\ RowsNow(i) = log[i] /\ EntriesNow(i) = AllOf(log[i]) /\ ~Busy({"index"}, i) /\ ~Busy({"index"}, i)'
  BY <1>1, <1>13, IdleNow DEF Busy
<1>15. Works(i) /\ DOMAIN tables' = DOMAIN tables /\ tables'[i].kind = tables[i].kind
  BY <1>1, <1>9, <1>10, <1>11, <1>13, StatementWorks
<1>16. CallOK'
  <2>1. call' \in [op : {"insert", "inserted"}, i : Places, at : Pos, row : Stored]
    BY <1>2, <1>12
  <2>2. Inserting'
    BY <1>3, <1>4, <1>8, <1>13, <2>1 DEF Inserting, G
  <2> QED BY <1>1, <1>9, <1>13, <1>15, <2>2 DEF CallOK
<1>17. RowsShow(i)'
  BY <1>2, <1>8, <1>13, <1>14 DEF RowsShow, F, G
<1>18. Agrees(i)'
  BY <1>1, <1>2, <1>7, <1>13, <1>14, <1>15 DEF Agrees
<1> QED BY <1>15, <1>16, <1>17, <1>18, WorksKeep

LEMMA InsertKeyKeeps ==
  ASSUME IInv, InsertKey
  PROVE  IInv'
<1>1. PICK i \in Places, at \in Pos, r \in Stored : i = call.i /\ at = call.at /\ r = call.row
  BY CallOps DEF InsertKey, Inserting
<1>2. /\ call.op = "insert" /\ Inserting /\ phase = "run" /\ i \in DOMAIN tables /\ i \in changed
      /\ call # Idle
  BY <1>1, CallOps, CallKnown DEF InsertKey
<1>3. /\ addKey(i, r, at) /\ call' = [call EXCEPT !.op = "inserted"]
      /\ UNCHANGED <<phase, meta, tables, past>>
  BY <1>1 DEF InsertKey
<1>4. /\ Typed /\ StoreTyped /\ log[i] \in Seq(Stored) /\ RowsShow(i) /\ Agrees(i)
      /\ at = Len(log[i])
  BY <1>1, <1>2, TableKnown DEF Inserting
<1>5. call' = [op |-> "inserted", i |-> i, at |-> at, row |-> r]
  BY <1>1, <1>2, <1>3 DEF Inserting
<1>6. /\ call'.op = "inserted" /\ call'.i = i /\ call'.at = at /\ call'.row = r /\ log' = log
      /\ stale' = stale /\ written' = written
  BY <1>3, <1>5 DEF past
<1>7. /\ RowsNow(i) = log[i] /\ EntriesNow(i) = AllOf(log[i]) /\ ~Busy({"index"}, i)
      /\ RowsNow(i)' = log[i] /\ EntriesNow(i)' = AllOf(Append(log[i], r)) /\ ~Busy({"index"}, i)'
  BY <1>1, <1>2, <1>6 DEF RowsNow, EntriesNow, Busy
<1>8. /\ KeysOnly(i)
      /\ \A e : tables[i].kind = "TREEINDEX" /\ Keys(cur)[i] = Tree(e) =>
                  Keys(cur')[i] = Tree(Plus(e, r, at))
  BY <1>2, <1>3, KeyAdded
<1>9. Plus(AllOf(log[i]), r, at) = AllOf(Append(log[i], r))
  <2>1. PICK rows, t : rows = log[i] /\ t = Append(rows, r)
    OBVIOUS
  <2>2. /\ rows \in Seq(Stored) /\ Len(rows) = at /\ at \in Nat
        /\ t \in Seq(Stored) /\ Len(t) = Len(rows) + 1
        /\ \A m \in 1 .. Len(rows) + 1 : t[m] = IF m = Len(rows) + 1 THEN r ELSE rows[m]
    BY <1>4, <2>1, AppendProperties, DatabaseAssumption DEF Pos
  <2>3. at + 1 \in 1 .. Len(rows) + 1 /\ t[at + 1] = r /\ at < Len(t)
    BY <2>2
  <2>4. AllBut(rows, {}) = AllBut(t, {at})
    <3>1. ASSUME NEW n \in Pos PROVE (n < Len(rows) /\ n \notin {}) <=> (n < Len(t) /\ n \notin {at})
      BY <2>2, DatabaseAssumption DEF Pos
    <3>2. ASSUME NEW n \in Pos, n < Len(rows) PROVE rows[n + 1] = t[n + 1]
      <4>1. n + 1 \in 1 .. Len(rows) + 1 /\ n + 1 # Len(rows) + 1
        BY <2>2, <3>2, DatabaseAssumption DEF Pos
      <4> QED BY <2>2, <4>1
    <3> QED BY <3>1, <3>2, SameEntries
  <2>5. Plus(AllBut(t, {at}), r, at) = AllBut(t, {at} \ {at})
    BY <2>2, <2>3, EntryAdded
  <2>6. {at} \ {at} = {}
    OBVIOUS
  <2> QED BY <2>1, <2>4, <2>5, <2>6 DEF AllOf
<1>10. i \in changed' /\ MarksSame(i) /\ LogAfter(i)
  BY <1>2, <1>3 DEF past, MarksSame, LogAfter
<1>11. PagesAfter(i) /\ Kept(i) /\ Shown(cur') = Shown(cur)
  BY <1>4, <1>6, <1>8, <1>10, KeysOnlyPages, KeptSame DEF KeysOnly
<1>12. Works(i) /\ tables' = tables
  BY <1>1, <1>2, <1>3, <1>6, <1>10, <1>11, StatementWorks
<1>13. CallOK'
  <2>1. call' \in [op : {"insert", "inserted"}, i : Places, at : Pos, row : Stored]
    BY <1>5
  <2>2. Inserting'
    BY <1>1, <1>2, <1>6, <1>11, <2>1 DEF Inserting
  <2> QED BY <1>2, <1>3, <1>6, <1>10, <1>12, <2>2 DEF CallOK
<1>14. RowsShow(i)'
  BY <1>4, <1>7, <1>11 DEF RowsShow
<1>15. Agrees(i)'
  BY <1>4, <1>6, <1>7, <1>8, <1>9, <1>12 DEF Agrees
<1> QED BY <1>12, <1>13, <1>14, <1>15, WorksKeep

LEMMA InsertSizeKeeps ==
  ASSUME IInv, InsertSize
  PROVE  IInv'
<1> DEFINE F == Shown(cur)
           G == Shown(cur')
<1>1. PICK i \in Places, at \in Pos, r \in Stored : i = call.i /\ at = call.at /\ r = call.row
  BY CallOps DEF InsertSize, Inserting
<1>2. /\ call.op = "inserted" /\ Inserting /\ phase = "run" /\ i \in DOMAIN tables /\ i \in changed
      /\ call # Idle
  BY <1>1, CallOps, CallKnown DEF InsertSize
<1>3. /\ WriteSlot(i, 0, Count(at + 1)) /\ call' = Idle
      /\ log' = [log EXCEPT ![i] = Append(log[i], r)]
      /\ UNCHANGED <<phase, meta, tables, base, changed, written, died, stale>>
  BY <1>1 DEF InsertSize
<1>4. /\ Typed /\ StoreTyped /\ ShownTyped(F) /\ log[i] \in Seq(Stored) /\ RowsShow(i) /\ Agrees(i)
      /\ at = SizeIn(F, i) /\ F[i][at + 1] = r /\ SizeIn(F, i) \in Nat
  BY <1>1, <1>2, TableKnown, DatabaseAssumption DEF Inserting
<1>5. 0 \in Slots /\ Count(at + 1) \in Counts /\ SizeIn(F, i) < MaxRows
  BY <1>4, DatabaseAssumption DEF Slots, Counts, Pos
<1>6. SlotOnly(i, 0, Count(at + 1))
  BY <1>3, <1>4, <1>5, SlotOnlyWritten
<1> HIDE DEF F, G
<1>7. G = Changed(F, i, 0, Count(SizeIn(F, i) + 1)) /\ Keys(cur') = Keys(cur)
  BY <1>4, <1>6 DEF SlotOnly, F, G
<1>8. /\ ShownTyped(G) /\ \A j \in Places \ {i} : G[j] = F[j]
      /\ SizeIn(G, i) = SizeIn(F, i) + 1 /\ RowsIn(G, i) = Append(RowsIn(F, i), r)
  BY <1>4, <1>5, <1>7, RowsGrow
<1>9. Append(log[i], r) \in Seq(Stored)
  BY <1>4, AppendProperties
<1>10. MarksSame(i) /\ LogAfter(i) /\ written' = written /\ i \in changed' /\ stale' = stale
  BY <1>2, <1>3, <1>9 DEF MarksSame, LogAfter
<1>11. PagesAfter(i)
  BY <1>4, <1>6, <1>8, <1>10, SlotOnlyPages DEF F, G
<1>12. Kept(i)
  <2>1. ASSUME NEW m \in 1 .. Len(base[i].rows), m <= SizeIn(F, i) PROVE G[i][m] = F[i][m]
    <3>1. m \in Slots \ {0}
      BY <1>4, <1>5, <2>1, DatabaseAssumption DEF Slots
    <3>2. Fits(0, Count(at + 1))
      BY <1>5 DEF Fits
    <3> QED BY <1>4, <1>5, <1>7, <3>1, <3>2, SlotChanged
  <2>2. SizeIn(F, i) <= SizeIn(G, i)
    BY <1>4, <1>8
  <2> QED BY <1>10, <2>1, <2>2 DEF Kept, F, G
<1>13. Works(i) /\ tables' = tables /\ log'[i] = Append(log[i], r)
  BY <1>1, <1>2, <1>3, <1>10, <1>11, <1>12, StatementWorks
<1>14. /\ RowsNow(i) = log[i] /\ EntriesNow(i) = AllOf(Append(log[i], r))
       /\ ~Busy({"index"}, i) /\ ~Busy({"index"}, i)'
       /\ RowsNow(i)' = log'[i] /\ EntriesNow(i)' = AllOf(log'[i])
  BY <1>1, <1>2, <1>3, NotBusyNext DEF RowsNow, EntriesNow, Busy
<1>15. CallOK'
  BY <1>3 DEF CallOK
<1>16. RowsShow(i)'
  BY <1>4, <1>8, <1>13, <1>14 DEF RowsShow, F, G
<1>17. Agrees(i)'
  BY <1>4, <1>7, <1>10, <1>13, <1>14 DEF Agrees
<1> QED BY <1>13, <1>15, <1>16, <1>17, WorksKeep

-----------------------------------------------------------------------------
(* DELETE. *)

LEMMA DeleteKeyKeeps ==
  ASSUME IInv, NEW i \in DOMAIN tables, NEW at \in Removable, DeleteKey(i, at)
  PROVE  IInv'
<1>1. /\ phase = "run" /\ call = Idle /\ tables' = WithFile(i)
      /\ Running /\ Selected(i, at) /\ deleteKey(i, get(i, at), at)
      /\ call' = [op |-> "delete", i |-> i, at |-> at, tail |-> get_size(i) - 1]
      /\ changed' = changed \cup {i}
      /\ base' = IF i \in DOMAIN base THEN [base EXCEPT ![i].rows = <<>>] ELSE base
      /\ written' = {w \in written : w[1] # i}
      /\ UNCHANGED <<phase, meta, log, died, stale>>
  BY DEF DeleteKey, Running
<1>2. at \in Pos /\ MaxRows \in Nat
  BY DatabaseAssumption DEF Pos
<1>3. /\ Typed /\ StoreTyped /\ i \in Places /\ log[i] \in Seq(Stored) /\ RowsShow(i) /\ Agrees(i)
      /\ get_size(i) = SizeIn(Shown(cur), i) /\ SizeIn(Shown(cur), i) \in 0 .. MaxRows
      /\ Len(log[i]) = SizeIn(Shown(cur), i)
      /\ (at < get_size(i) => get(i, at) = RowsNow(i)[at + 1])
      /\ get(i, at) \in Stored
  BY <1>1, <1>2, TableKnown
<1>4. at < SizeIn(Shown(cur), i) \/ i \in stale
  BY <1>1, <1>2, SelectedThere
<1>5. /\ KeysOnly(i)
      /\ \A e : tables[i].kind = "TREEINDEX" /\ Keys(cur)[i] = Tree(e) =>
                  Keys(cur')[i] = Tree(Minus(e, get(i, at), at))
  BY <1>1, <1>3, KeyDeleted
<1>6. PICK tail \in {-1} \cup Pos : tail = get_size(i) - 1
  BY <1>2, <1>3 DEF Pos
<1>7. /\ call' = [op |-> "delete", i |-> i, at |-> at, tail |-> tail]
      /\ call'.op = "delete" /\ call'.i = i /\ call'.at = at /\ call'.tail = tail
  BY <1>1, <1>6
<1>8. /\ RowsNow(i) = log[i] /\ EntriesNow(i) = AllOf(log[i]) /\ ~Busy({"index"}, i)
      /\ RowsNow(i)' = log[i] /\ EntriesNow(i)' = AllBut(log[i], {at}) /\ ~Busy({"index"}, i)'
  BY <1>1, <1>7, IdleNow DEF RowsNow, EntriesNow, Busy
<1>9. at < SizeIn(Shown(cur), i) => Minus(AllOf(log[i]), get(i, at), at) = AllBut(log[i], {at})
  <2> HAVE at < SizeIn(Shown(cur), i)
  <2>1. get(i, at) = log[i][at + 1]
    BY <1>3, <1>8
  <2>2. Minus(AllBut(log[i], {}), get(i, at), at) = AllBut(log[i], {} \cup {at})
    BY <1>2, <1>3, <2>1, EntryRemoved
  <2> QED BY <2>2 DEF AllOf
<1>10. /\ TablesAfter(i) /\ DOMAIN tables' = DOMAIN tables /\ Len(tables') = Len(tables)
       /\ tables'[i].kind = tables[i].kind
  BY <1>1, <1>3, FilesMade
<1>11. PastAfter(i)
  <2>1. /\ written \subseteq Places \X (1 .. MaxRows) \X Stored
        /\ log \in Seq(Seq(Stored)) /\ Len(log) = Len(tables)
    BY <1>1, <1>3 DEF Typed, IInv, LogOK
  <2>2. /\ written' \subseteq written
        /\ \A j, n, x : j # i /\ <<j, n, x>> \in written => <<j, n, x>> \in written'
    BY <1>1
  <2> QED BY <1>1, <1>10, <2>1, <2>2 DEF PastAfter
<1>12. Kept(i) /\ \A b \in DOMAIN base : b = i => base'[i].rows = <<>>
  <2>1. i \in DOMAIN base => base'[i].rows = <<>>
    <3> HAVE i \in DOMAIN base
    <3>1. base[i] \in FoundRec
      BY <1>3, TablesInPlaces
    <3> QED BY <1>1, <3>1 DEF FoundRec
  <2> QED BY <2>1 DEF Kept
<1>13. PagesAfter(i) /\ Shown(cur') = Shown(cur)
  BY <1>1, <1>3, <1>5, KeysOnlyPages DEF KeysOnly
<1>14. Works(i)
  BY <1>1, <1>3, <1>7, <1>10, <1>11, <1>12, <1>13 DEF Works
<1>15. CallOK'
  <2>1. call' \in [op : {"delete", "moved", "unfiled", "rekeyed"}, i : Places, at : Pos,
                   tail : {-1} \cup Pos]
    BY <1>2, <1>3, <1>7
  <2>2. call'.tail = SizeIn(Shown(cur'), i) - 1 /\ (at <= tail \/ i \in stale')
    BY <1>1, <1>2, <1>3, <1>4, <1>6, <1>7, <1>13 DEF Pos
  <2>3. i \in DOMAIN base' => base'[i].rows = <<>>
    BY <1>1, <1>3, <1>11, <1>12, BaseAfter
  <2>4. Deleting'
    BY <1>7, <2>1, <2>2, <2>3 DEF Deleting
  <2> QED BY <1>1, <1>7, <1>10, <2>4 DEF CallOK
<1>16. RowsShow(i)'
  BY <1>3, <1>8, <1>13 DEF RowsShow
<1>17. Agrees(i)'
  BY <1>1, <1>3, <1>4, <1>5, <1>8, <1>9, <1>10 DEF Agrees
<1> QED BY <1>14, <1>15, <1>16, <1>17, WorksKeep

(* What DELETE knows after its first step. *)
LEMMA DeletesKnow ==
  ASSUME IInv, call.op \in {"delete", "moved", "unfiled", "rekeyed"}
  PROVE  \E i \in Places, at \in Pos, tail \in {-1} \cup Pos :
           /\ i = call.i /\ at = call.at /\ tail = call.tail
           /\ phase = "run" /\ call # Idle /\ i \in DOMAIN tables /\ i \in changed
           /\ call = [op |-> call.op, i |-> i, at |-> at, tail |-> tail]
           /\ tail = Len(log[i]) - 1 /\ (at <= tail \/ i \in stale)
           /\ (i \in DOMAIN base => base[i].rows = <<>>)
           /\ TailRow \in Stored
           /\ tail \in Pos => tail < get_size(i) /\ TailRow = log[i][tail + 1] /\ TailRow = Last(log[i])
           /\ (tail \notin Pos => Len(log[i]) = 0)
           /\ RowsNow(i) = (IF call.op = "delete" THEN log[i] ELSE Put(log[i], at + 1, Last(log[i])))
<1>1. PICK i \in Places, at \in Pos, tail \in {-1} \cup Pos : i = call.i /\ at = call.at /\ tail = call.tail
  BY CallOps DEF Deleting
<1>2. Deleting /\ phase = "run" /\ i \in DOMAIN tables /\ i \in changed /\ call # Idle
  BY <1>1, CallOps, CallKnown
<1>3. call = [op |-> call.op, i |-> i, at |-> at, tail |-> tail]
  BY <1>1, <1>2 DEF Deleting
<1>4. /\ log[i] \in Seq(Stored) /\ get_size(i) = SizeIn(Shown(cur), i)
      /\ SizeIn(Shown(cur), i) \in 0 .. MaxRows /\ Len(log[i]) = SizeIn(Shown(cur), i)
      /\ \A p \in Pos : p < get_size(i) => get(i, p) = RowsNow(i)[p + 1]
      /\ \A p \in Pos : get(i, p) \in Stored
  BY <1>2, TableKnown
<1>5. /\ tail = Len(log[i]) - 1 /\ (at <= tail \/ i \in stale)
      /\ (i \in DOMAIN base => base[i].rows = <<>>) /\ Len(log[i]) \in Nat /\ MaxRows \in Nat
  BY <1>1, <1>2, <1>4, DatabaseAssumption DEF Deleting
<1>6. TailRow \in Stored
  <2>1. Junk \in Stored
    BY DEF Stored
  <2> QED BY <1>1, <1>4, <2>1 DEF TailRow
<1>7. RowsNow(i) = (IF call.op = "delete" THEN log[i] ELSE Put(log[i], at + 1, Last(log[i])))
  BY <1>1 DEF RowsNow, Busy
<1>8. ASSUME tail \in Pos
      PROVE  tail < get_size(i) /\ TailRow = log[i][tail + 1] /\ TailRow = Last(log[i])
  <2>1. tail < get_size(i) /\ tail + 1 = Len(log[i]) /\ tail + 1 \in 1 .. Len(log[i])
    BY <1>4, <1>5, <1>8 DEF Pos
  <2>2. TailRow = RowsNow(i)[Len(log[i])]
    BY <1>1, <1>4, <1>8, <2>1 DEF TailRow
  <2>3. RowsNow(i)[Len(log[i])] = log[i][Len(log[i])]
    BY <1>4, <1>7, <2>1, PutLast
  <2>4. Last(log[i]) = log[i][Len(log[i])]
    BY DEF Last
  <2> QED BY <2>1, <2>2, <2>3, <2>4
<1>9. tail \notin Pos => Len(log[i]) = 0
  BY <1>5
<1> QED BY <1>1, <1>2, <1>3, <1>5, <1>6, <1>7, <1>8, <1>9

(* Rows of which the first n are there. *)
LEMMA NothingPut ==
  ASSUME NEW rows \in Seq(Stored), Len(rows) = 0, NEW n, NEW r
  PROVE  Put(rows, n, r) = rows
<1>1. DOMAIN rows = 1 .. Len(rows) /\ 1 .. 0 = {}
  BY LenProperties
<1> QED BY <1>1 DEF Put

LEMMA DeleteMoveKeeps ==
  ASSUME IInv, DeleteMove
  PROVE  IInv'
<1> DEFINE F == Shown(cur)
           G == Shown(cur')
<1>1. call.op = "delete"
  BY DEF DeleteMove
<1>2. PICK i \in Places, at \in Pos, tail \in {-1} \cup Pos :
        /\ i = call.i /\ at = call.at /\ tail = call.tail
        /\ phase = "run" /\ call # Idle /\ i \in DOMAIN tables /\ i \in changed
        /\ call = [op |-> call.op, i |-> i, at |-> at, tail |-> tail]
        /\ tail = Len(log[i]) - 1 /\ (at <= tail \/ i \in stale)
        /\ (i \in DOMAIN base => base[i].rows = <<>>)
        /\ TailRow \in Stored
        /\ tail \in Pos => TailRow = Last(log[i])
        /\ (tail \notin Pos => Len(log[i]) = 0)
        /\ RowsNow(i) = log[i]
  BY <1>1, DeletesKnow
<1>3. /\ WriteSlot(i, at + 1, TailRow) /\ call' = [op |-> "moved", i |-> i, at |-> at, tail |-> tail]
      /\ UNCHANGED <<phase, meta, tables, past>>
  BY <1>2 DEF DeleteMove
<1>4. /\ Typed /\ StoreTyped /\ ShownTyped(F) /\ log[i] \in Seq(Stored) /\ RowsShow(i) /\ Agrees(i)
      /\ Len(log[i]) = SizeIn(F, i)
  BY <1>2, TableKnown
<1>5. PICK r \in Stored : r = TailRow
  BY <1>2
<1>6. PICK s \in Slots : s = at + 1
  BY DatabaseAssumption DEF Pos, Slots
<1>7. SlotOnly(i, s, r)
  BY <1>3, <1>4, <1>5, <1>6, SlotOnlyWritten
<1> HIDE DEF F, G
<1>8. G = Changed(F, i, at + 1, r) /\ Keys(cur') = Keys(cur)
  BY <1>6, <1>7 DEF SlotOnly, F, G
<1>9. /\ ShownTyped(G) /\ \A j \in Places \ {i} : G[j] = F[j]
      /\ SizeIn(G, i) = SizeIn(F, i) /\ RowsIn(G, i) = Put(RowsIn(F, i), at + 1, r)
  BY <1>4, <1>8, RowPut
<1>10. Put(log[i], at + 1, r) = Put(log[i], at + 1, Last(log[i]))
  BY <1>2, <1>4, <1>5, NothingPut
<1>11. /\ call'.op = "moved" /\ call'.i = i /\ call'.at = at /\ call'.tail = tail /\ log' = log
       /\ stale' = stale /\ base' = base /\ changed' = changed
  BY <1>3 DEF past
<1>12. /\ EntriesNow(i) = AllBut(log[i], {at}) /\ ~Busy({"index"}, i) /\ ~Busy({"index"}, i)'
       /\ RowsNow(i)' = Put(log[i], at + 1, Last(log[i])) /\ EntriesNow(i)' = AllBut(log[i], {at})
  BY <1>1, <1>2, <1>11 DEF RowsNow, EntriesNow, Busy
<1>13. MarksSame(i) /\ LogAfter(i) /\ i \in changed'
  BY <1>2, <1>3 DEF past, MarksSame, LogAfter
<1>14. PagesAfter(i)
  BY <1>4, <1>7, <1>9, <1>13, SlotOnlyPages DEF F, G
<1>15. Kept(i)
  BY <1>2, <1>11 DEF Kept
<1>16. Works(i) /\ tables' = tables
  BY <1>2, <1>3, <1>11, <1>13, <1>14, <1>15, StatementWorks
<1>17. CallOK'
  <2>1. call' \in [op : {"delete", "moved", "unfiled", "rekeyed"}, i : Places, at : Pos,
                   tail : {-1} \cup Pos]
    BY <1>3
  <2>2. call'.tail = SizeIn(G, i) - 1
    BY <1>2, <1>4, <1>9, <1>11
  <2>3. Deleting'
    BY <1>2, <1>11, <2>1, <2>2 DEF Deleting, G
  <2> QED BY <1>2, <1>3, <1>11, <1>13, <1>16, <2>3 DEF CallOK
<1>18. RowsShow(i)'
  BY <1>2, <1>4, <1>9, <1>10, <1>12 DEF RowsShow, F, G
<1>19. Agrees(i)'
  BY <1>4, <1>8, <1>11, <1>12, <1>16 DEF Agrees
<1> QED BY <1>16, <1>17, <1>18, <1>19, WorksKeep

LEMMA DeleteUnkeyKeeps ==
  ASSUME IInv, DeleteUnkey
  PROVE  IInv'
<1>1. call.op = "moved"
  BY DEF DeleteUnkey
<1>2. PICK i \in Places, at \in Pos, tail \in {-1} \cup Pos :
        /\ i = call.i /\ at = call.at /\ tail = call.tail
        /\ phase = "run" /\ call # Idle /\ i \in DOMAIN tables /\ i \in changed
        /\ call = [op |-> call.op, i |-> i, at |-> at, tail |-> tail]
        /\ tail = Len(log[i]) - 1 /\ (at <= tail \/ i \in stale)
        /\ (i \in DOMAIN base => base[i].rows = <<>>)
        /\ TailRow \in Stored
        /\ tail \in Pos => TailRow = log[i][tail + 1]
        /\ (tail \notin Pos => Len(log[i]) = 0)
        /\ RowsNow(i) = Put(log[i], at + 1, Last(log[i]))
  BY <1>1, DeletesKnow
<1>3. /\ deleteKey(i, TailRow, tail) /\ call' = [op |-> "unfiled", i |-> i, at |-> at, tail |-> tail]
      /\ UNCHANGED <<phase, meta, tables, past>>
  BY <1>2 DEF DeleteUnkey
<1>4. /\ Typed /\ StoreTyped /\ log[i] \in Seq(Stored) /\ RowsShow(i) /\ Agrees(i)
      /\ Len(log[i]) = SizeIn(Shown(cur), i) /\ SizeIn(Shown(cur), i) \in 0 .. MaxRows
  BY <1>2, TableKnown
<1>5. PICK r \in Stored : r = TailRow
  BY <1>2
<1>6. /\ KeysOnly(i)
      /\ \A e : tables[i].kind = "TREEINDEX" /\ Keys(cur)[i] = Tree(e) =>
                  Keys(cur')[i] = Tree(Minus(e, r, tail))
  BY <1>2, <1>3, <1>5, KeyDeleted
<1>7. /\ call'.op = "unfiled" /\ call'.i = i /\ call'.at = at /\ call'.tail = tail /\ log' = log
      /\ stale' = stale /\ base' = base /\ changed' = changed /\ written' = written
  BY <1>3 DEF past
<1>8. /\ EntriesNow(i) = AllBut(log[i], {at}) /\ ~Busy({"index"}, i) /\ ~Busy({"index"}, i)'
      /\ RowsNow(i)' = Put(log[i], at + 1, Last(log[i])) /\ EntriesNow(i)' = AllBut(log[i], {at, tail})
  BY <1>1, <1>2, <1>7 DEF RowsNow, EntriesNow, Busy
<1>9. i \notin stale => Minus(AllBut(log[i], {at}), r, tail) = AllBut(log[i], {at, tail})
  <2> HAVE i \notin stale
  <2>1. tail \in Pos /\ tail < Len(log[i])
    BY <1>2, <1>4, DatabaseAssumption DEF Pos
  <2>2. Minus(AllBut(log[i], {at}), r, tail) = AllBut(log[i], {at} \cup {tail})
    BY <1>2, <1>4, <1>5, <2>1, EntryRemoved
  <2>3. {at} \cup {tail} = {at, tail}
    OBVIOUS
  <2> QED BY <2>2, <2>3
<1>10. MarksSame(i) /\ LogAfter(i) /\ i \in changed'
  BY <1>2, <1>3 DEF past, MarksSame, LogAfter
<1>11. PagesAfter(i) /\ Kept(i) /\ Shown(cur') = Shown(cur)
  BY <1>4, <1>6, <1>7, <1>10, KeysOnlyPages, KeptSame DEF KeysOnly
<1>12. Works(i) /\ tables' = tables
  BY <1>2, <1>3, <1>7, <1>10, <1>11, StatementWorks
<1>13. CallOK'
  <2>1. call' \in [op : {"delete", "moved", "unfiled", "rekeyed"}, i : Places, at : Pos,
                   tail : {-1} \cup Pos]
    BY <1>3
  <2>2. call'.tail = SizeIn(Shown(cur'), i) - 1
    BY <1>2, <1>4, <1>7, <1>11
  <2>3. Deleting'
    BY <1>2, <1>7, <2>1, <2>2 DEF Deleting
  <2> QED BY <1>2, <1>3, <1>7, <1>10, <1>12, <2>3 DEF CallOK
<1>14. RowsShow(i)'
  BY <1>2, <1>4, <1>8, <1>11 DEF RowsShow
<1>15. Agrees(i)'
  BY <1>4, <1>6, <1>7, <1>8, <1>9, <1>12 DEF Agrees
<1> QED BY <1>12, <1>13, <1>14, <1>15, WorksKeep

LEMMA DeleteRekeyKeeps ==
  ASSUME IInv, DeleteRekey
  PROVE  IInv'
<1>1. call.op = "unfiled"
  BY DEF DeleteRekey
<1>2. PICK i \in Places, at \in Pos, tail \in {-1} \cup Pos :
        /\ i = call.i /\ at = call.at /\ tail = call.tail
        /\ phase = "run" /\ call # Idle /\ i \in DOMAIN tables /\ i \in changed
        /\ call = [op |-> call.op, i |-> i, at |-> at, tail |-> tail]
        /\ tail = Len(log[i]) - 1 /\ (at <= tail \/ i \in stale)
        /\ (i \in DOMAIN base => base[i].rows = <<>>)
        /\ TailRow \in Stored
        /\ tail \in Pos => TailRow = Last(log[i])
        /\ (tail \notin Pos => Len(log[i]) = 0)
        /\ RowsNow(i) = Put(log[i], at + 1, Last(log[i]))
  BY <1>1, DeletesKnow
<1>3. /\ addKey(i, TailRow, at) /\ call' = [op |-> "rekeyed", i |-> i, at |-> at, tail |-> tail]
      /\ stale' = (IF FileOf(i) = "TREEINDEX" /\ at >= tail THEN stale \cup {i} ELSE stale)
      /\ UNCHANGED <<phase, meta, tables, log, base, changed, written, died>>
  BY <1>2 DEF DeleteRekey
<1>4. /\ Typed /\ StoreTyped /\ log[i] \in Seq(Stored) /\ RowsShow(i) /\ Agrees(i)
      /\ Len(log[i]) = SizeIn(Shown(cur), i) /\ SizeIn(Shown(cur), i) \in 0 .. MaxRows
      /\ FileOf(i) = tables[i].kind
  BY <1>2, TableKnown
<1>5. PICK r \in Stored : r = TailRow
  BY <1>2
<1>6. /\ KeysOnly(i)
      /\ \A e : tables[i].kind = "TREEINDEX" /\ Keys(cur)[i] = Tree(e) =>
                  Keys(cur')[i] = Tree(Plus(e, r, at))
  BY <1>2, <1>3, <1>5, KeyAdded
<1>7. /\ call'.op = "rekeyed" /\ call'.i = i /\ call'.at = at /\ call'.tail = tail /\ log' = log
      /\ stale' \in {stale, stale \cup {i}} /\ base' = base /\ changed' = changed /\ written' = written
  BY <1>3
<1>8. /\ EntriesNow(i) = AllBut(log[i], {at, tail}) /\ ~Busy({"index"}, i) /\ ~Busy({"index"}, i)'
      /\ RowsNow(i)' = Put(log[i], at + 1, Last(log[i]))
      /\ EntriesNow(i)' = AllOf(FilledByLast(log[i], at + 1))
  BY <1>1, <1>2, <1>7 DEF RowsNow, EntriesNow, Busy
<1>9. at < tail => Plus(AllBut(log[i], {at, tail}), r, at) = AllOf(FilledByLast(log[i], at + 1))
  <2> HAVE at < tail
  <2>1. PICK rows, t : rows = log[i] /\ t = FilledByLast(rows, at + 1)
    OBVIOUS
  <2>2. tail \in Pos /\ at \in Nat /\ Len(rows) = tail + 1 /\ tail \in Nat /\ rows \in Seq(Stored)
    BY <1>2, <1>4, <2>1, DatabaseAssumption DEF Pos
  <2>3. /\ t \in Seq(Stored) /\ Len(t) = Len(rows) - 1
        /\ \A m \in 1 .. Len(rows) - 1 : t[m] = IF m = at + 1 THEN Last(rows) ELSE rows[m]
    <3>1. Len(rows) > 0
      BY <2>2
    <3>2. PICK n : n = at + 1
      OBVIOUS
    <3>3. /\ t \in Seq(Stored) /\ Len(t) = Len(rows) - 1
          /\ \A m \in 1 .. Len(rows) - 1 : t[m] = IF m = n THEN Last(rows) ELSE rows[m]
      <4>1. t = FilledByLast(rows, n) /\ rows \in Seq(Stored)
        BY <2>1, <2>2, <3>2
      <4> HIDE DEF Stored
      <4> QED BY <3>1, <4>1, FilledRows
    <3> QED BY <3>2, <3>3
  <2>4. at < Len(t) /\ r = t[at + 1]
    <3>1. at + 1 \in 1 .. Len(rows) - 1
      BY <2>2
    <3> QED BY <1>2, <1>5, <2>1, <2>2, <2>3, <3>1
  <2>5. AllBut(rows, {at, tail}) = AllBut(t, {at})
    <3>1. ASSUME NEW n \in Pos
          PROVE  (n < Len(rows) /\ n \notin {at, tail}) <=> (n < Len(t) /\ n \notin {at})
      BY <2>2, <2>3, DatabaseAssumption DEF Pos
    <3>2. ASSUME NEW n \in Pos, n < Len(rows), n \notin {at, tail} PROVE rows[n + 1] = t[n + 1]
      <4>1. n + 1 \in 1 .. Len(rows) - 1 /\ n + 1 # at + 1
        BY <2>2, <3>2, DatabaseAssumption DEF Pos
      <4> QED BY <2>3, <4>1
    <3> QED BY <3>1, <3>2, SameEntries
  <2>6. Plus(AllBut(t, {at}), r, at) = AllBut(t, {at} \ {at})
    BY <2>3, <2>4, EntryAdded
  <2>7. {at} \ {at} = {}
    OBVIOUS
  <2> QED BY <2>1, <2>5, <2>6, <2>7 DEF AllOf
<1>10. MarksSame(i) /\ LogAfter(i) /\ i \in changed'
  BY <1>2, <1>3, <1>7 DEF MarksSame, LogAfter
<1>11. PagesAfter(i) /\ Kept(i) /\ Shown(cur') = Shown(cur)
  BY <1>4, <1>6, <1>7, <1>10, KeysOnlyPages, KeptSame DEF KeysOnly
<1>12. Works(i) /\ tables' = tables
  BY <1>2, <1>3, <1>7, <1>10, <1>11, StatementWorks
<1>13. CallOK'
  <2>1. call' \in [op : {"delete", "moved", "unfiled", "rekeyed"}, i : Places, at : Pos,
                   tail : {-1} \cup Pos]
    BY <1>3
  <2>2. call'.tail = SizeIn(Shown(cur'), i) - 1
    BY <1>2, <1>4, <1>7, <1>11
  <2>3. Deleting'
    BY <1>2, <1>7, <2>1, <2>2 DEF Deleting
  <2> QED BY <1>2, <1>3, <1>7, <1>10, <1>12, <2>3 DEF CallOK
<1>14. RowsShow(i)'
  BY <1>2, <1>4, <1>8, <1>11 DEF RowsShow
<1>15. Agrees(i)'
  <2>1. tables[i].kind = "TREEINDEX" /\ i \notin stale' => at < tail /\ i \notin stale
    <3>1. at \in Int /\ tail \in Int
      BY <1>4, DatabaseAssumption DEF Pos
    <3> QED BY <1>3, <1>4, <3>1
  <2> QED BY <1>4, <1>6, <1>8, <1>9, <1>12, <2>1 DEF Agrees
<1> QED BY <1>12, <1>13, <1>14, <1>15, WorksKeep

LEMMA DeletePopKeeps ==
  ASSUME IInv, DeletePop
  PROVE  IInv'
<1> DEFINE F == Shown(cur)
           G == Shown(cur')
<1>1. call.op = "rekeyed"
  BY DEF DeletePop
<1>2. PICK i \in Places, at \in Pos, tail \in {-1} \cup Pos :
        /\ i = call.i /\ at = call.at /\ tail = call.tail
        /\ phase = "run" /\ call # Idle /\ i \in DOMAIN tables /\ i \in changed
        /\ tail = Len(log[i]) - 1 /\ (at <= tail \/ i \in stale)
        /\ (i \in DOMAIN base => base[i].rows = <<>>)
        /\ RowsNow(i) = Put(log[i], at + 1, Last(log[i]))
  BY <1>1, DeletesKnow
<1>3. /\ call' = Idle
      /\ UNCHANGED <<phase, meta, tables, base, changed, written, died, stale>>
      /\ IF get_size(i) > 0
         THEN /\ WriteSlot(i, 0, Count(get_size(i) - 1))
              /\ log' = [log EXCEPT ![i] = FilledByLast(log[i], at + 1)]
         ELSE UNCHANGED <<pages, log>>
  BY <1>2 DEF DeletePop
<1>4. /\ Typed /\ StoreTyped /\ ShownTyped(F) /\ log[i] \in Seq(Stored) /\ RowsShow(i) /\ Agrees(i)
      /\ get_size(i) = SizeIn(F, i) /\ SizeIn(F, i) \in 0 .. MaxRows /\ Len(log[i]) = SizeIn(F, i)
  BY <1>2, TableKnown
<1>5. EntriesNow(i) = AllOf(FilledByLast(log[i], at + 1)) /\ ~Busy({"index"}, i)
  BY <1>1, <1>2 DEF EntriesNow, Busy
<1>6. RowsNow(i)' = log'[i] /\ EntriesNow(i)' = AllOf(log'[i]) /\ ~Busy({"index"}, i)'
  BY <1>3, NotBusyNext
<1>7. CallOK' /\ MarksSame(i) /\ Kept(i)
  BY <1>2, <1>3 DEF CallOK, MarksSame, Kept
<1>8. CASE get_size(i) > 0
  <2>1. 0 \in Slots /\ Count(SizeIn(F, i) - 1) \in Counts
    BY <1>4, <1>8, DatabaseAssumption DEF Slots, Counts
  <2>2. SlotOnly(i, 0, Count(SizeIn(F, i) - 1))
    BY <1>3, <1>4, <1>8, <2>1, SlotOnlyWritten
  <2> HIDE DEF F, G
  <2>3. G = Changed(F, i, 0, Count(SizeIn(F, i) - 1)) /\ Keys(cur') = Keys(cur)
    BY <2>2 DEF SlotOnly, F, G
  <2>4. /\ ShownTyped(G) /\ \A j \in Places \ {i} : G[j] = F[j]
        /\ RowsIn(G, i) = Front(RowsIn(F, i))
    BY <1>4, <1>8, <2>3, RowsShrink
  <2>5. FilledByLast(log[i], at + 1) \in Seq(Stored)
    BY <1>4, <1>8, FilledRows
  <2>6. LogAfter(i) /\ log' = [log EXCEPT ![i] = FilledByLast(log[i], at + 1)]
    BY <1>3, <1>8, <2>5 DEF LogAfter
  <2>7. PagesAfter(i)
    BY <1>2, <1>3, <1>4, <2>2, <2>4, SlotOnlyPages DEF F, G
  <2>8. /\ Works(i) /\ tables' = tables /\ log'[i] = FilledByLast(log[i], at + 1)
    BY <1>2, <1>3, <1>7, <2>6, <2>7, StatementWorks
  <2>9. RowsIn(F, i) = Put(log[i], at + 1, Last(log[i]))
    BY <1>2, <1>4 DEF RowsShow, F
  <2>10. RowsShow(i)'
    BY <1>6, <2>4, <2>8, <2>9 DEF RowsShow, FilledByLast, G
  <2>11. Agrees(i)'
    BY <1>3, <1>4, <1>5, <1>6, <2>3, <2>8 DEF Agrees
  <2> QED BY <1>7, <2>8, <2>10, <2>11, WorksKeep
<1>9. CASE ~(get_size(i) > 0)
  <2>1. UNCHANGED <<pages, log>> /\ Len(log[i]) = 0 /\ i \in stale
    BY <1>2, <1>3, <1>4, <1>9, DatabaseAssumption DEF Pos
  <2>2. RowsNow(i) = log[i]
    BY <1>2, <1>4, <2>1, NothingPut
  <2>3. KeysOnly(i) /\ LogAfter(i) /\ Shown(cur') = Shown(cur)
    BY <1>4, <2>1, NothingWritten DEF LogAfter, KeysOnly
  <2>4. PagesAfter(i)
    BY <1>2, <1>3, <1>4, <2>3, KeysOnlyPages
  <2>5. Works(i)
    BY <1>2, <1>3, <1>7, <2>3, <2>4, StatementWorks
  <2>6. RowsShow(i)'
    BY <1>4, <1>6, <2>1, <2>2, <2>3 DEF RowsShow
  <2>7. Agrees(i)'
    BY <1>3, <1>6, <2>1 DEF Agrees
  <2> QED BY <1>7, <2>5, <2>6, <2>7, WorksKeep
<1> QED BY <1>8, <1>9

-----------------------------------------------------------------------------
(* UPDATE. *)

(* A row put in the place it is in. *)
LEMMA PutBack ==
  ASSUME NEW rows \in Seq(Stored), NEW at \in Pos, NEW r,
         at < Len(rows) => r = rows[at + 1]
  PROVE  Put(rows, at + 1, r) = rows
<1>1. Len(rows) \in Nat /\ DOMAIN rows = 1 .. Len(rows)
  BY LenProperties
<1>2. CASE at < Len(rows)
  <2>1. rows = [m \in 1 .. Len(rows) |-> rows[m]]
    <3>1. rows \in [1 .. Len(rows) -> Stored]
      BY <1>1, LenProperties
    <3> QED BY <3>1
  <2>2. PICK n \in 1 .. Len(rows) : n = at + 1
    BY <1>1, <1>2, DatabaseAssumption DEF Pos
  <2>3. [rows EXCEPT ![n] = r] = rows
    BY <1>2, <2>1, <2>2
  <2> QED BY <2>2, <2>3 DEF Put
<1>3. CASE ~(at < Len(rows))
  <2>1. at + 1 \notin 1 .. Len(rows)
    BY <1>1, <1>3, DatabaseAssumption DEF Pos
  <2> QED BY <1>1, <2>1 DEF Put
<1> QED BY <1>2, <1>3

(* The entries but for that of a place do not tell what is put there. *)
LEMMA PutUnseen ==
  ASSUME NEW rows \in Seq(Stored), NEW at \in Pos, NEW r \in Stored
  PROVE  AllBut(Put(rows, at + 1, r), {at}) = AllBut(rows, {at})
<1>1. PICK t : t = Put(rows, at + 1, r)
  OBVIOUS
<1>2. /\ Len(t) = Len(rows) /\ Len(rows) \in Nat
      /\ \A m \in 1 .. Len(rows) : t[m] = IF m = at + 1 THEN r ELSE rows[m]
  BY <1>1, PutRows, LenProperties
<1>3. ASSUME NEW n \in Pos, n < Len(rows), n # at PROVE t[n + 1] = rows[n + 1]
  <2>1. n + 1 \in 1 .. Len(rows) /\ n + 1 # at + 1
    BY <1>2, <1>3, DatabaseAssumption DEF Pos
  <2> QED BY <1>2, <2>1
<1>4. AllBut(t, {at}) = AllBut(rows, {at})
  BY <1>2, <1>3, SameEntries
<1> QED BY <1>1, <1>4

(* What UPDATE knows of its row. *)
LEMMA UpdatesKnow ==
  ASSUME IInv, call.op \in {"update", "unkeyed"}
  PROVE  \E i \in Places, at \in Pos, r \in Stored :
           /\ i = call.i /\ at = call.at /\ r = call.row
           /\ phase = "run" /\ call # Idle /\ i \in DOMAIN tables
           /\ (call.op = "unkeyed" => i \in changed)
           /\ call = [op |-> call.op, i |-> i, at |-> at, row |-> r]
           /\ (at < Len(log[i]) \/ i \in stale) /\ (at < SizeIn(Shown(cur), i) \/ i \in stale)
           /\ RowsNow(i) = log[i] /\ ~Busy({"index"}, i)
<1>1. PICK i \in Places, at \in Pos, r \in Stored : i = call.i /\ at = call.at /\ r = call.row
  BY CallOps DEF Updating
<1>2. /\ Updating /\ phase = "run" /\ i \in DOMAIN tables /\ call # Idle
      /\ (call.op = "unkeyed" => i \in changed)
  BY <1>1, CallOps, CallKnown
<1>3. call = [op |-> call.op, i |-> i, at |-> at, row |-> r]
  BY <1>1, <1>2 DEF Updating
<1>4. Len(log[i]) = SizeIn(Shown(cur), i)
  BY <1>2, TableKnown
<1>5. (at < Len(log[i]) \/ i \in stale) /\ (at < SizeIn(Shown(cur), i) \/ i \in stale)
  BY <1>1, <1>2, <1>4 DEF Updating
<1>6. RowsNow(i) = log[i] /\ ~Busy({"index"}, i)
  BY DEF RowsNow, Busy
<1> QED BY <1>1, <1>2, <1>3, <1>5, <1>6

LEMMA UpdateFetchKeeps ==
  ASSUME IInv, NEW i \in DOMAIN tables, NEW at \in Updatable, UpdateFetch(i, at)
  PROVE  IInv'
<1>1. /\ phase = "run" /\ call = Idle /\ tables' = WithFile(i) /\ Running /\ Selected(i, at)
      /\ call' = [op |-> "update", i |-> i, at |-> at, row |-> get(i, at)]
      /\ UNCHANGED <<phase, meta, pages, past>>
  BY DEF UpdateFetch, Running
<1>2. at \in Pos
  BY DatabaseAssumption DEF Pos
<1>3. /\ Typed /\ StoreTyped /\ i \in Places /\ log[i] \in Seq(Stored) /\ RowsShow(i) /\ Agrees(i)
      /\ get_size(i) = SizeIn(Shown(cur), i) /\ Len(log[i]) = SizeIn(Shown(cur), i)
      /\ (at < get_size(i) => get(i, at) = RowsNow(i)[at + 1])
      /\ get(i, at) \in Stored
  BY <1>1, <1>2, TableKnown
<1>4. at < SizeIn(Shown(cur), i) \/ i \in stale
  BY <1>1, <1>2, SelectedThere
<1>5. PICK r \in Stored : r = get(i, at)
  BY <1>3
<1>6. /\ call' = [op |-> "update", i |-> i, at |-> at, row |-> r]
      /\ call'.op = "update" /\ call'.i = i /\ call'.at = at /\ call'.row = r
      /\ log' = log /\ stale' = stale /\ written' = written
  BY <1>1, <1>5 DEF past
<1>7. /\ RowsNow(i) = log[i] /\ EntriesNow(i) = AllOf(log[i]) /\ ~Busy({"index"}, i)
      /\ RowsNow(i)' = log[i] /\ EntriesNow(i)' = AllOf(Put(log[i], at + 1, r)) /\ ~Busy({"index"}, i)'
  BY <1>1, <1>6, IdleNow DEF RowsNow, EntriesNow, Busy
<1>8. Put(log[i], at + 1, r) = log[i]
  BY <1>2, <1>3, <1>5, <1>7, PutBack
<1>9. KeysOnly(i) /\ Keys(cur')[i] = Keys(cur)[i]
  BY <1>1, <1>3, NothingWritten
<1>10. MarksSame(i) /\ LogAfter(i)
  BY <1>1 DEF past, MarksSame, LogAfter
<1>11. PagesAfter(i) /\ Kept(i) /\ Shown(cur') = Shown(cur)
  BY <1>3, <1>6, <1>9, KeysOnlyPages, KeptSame DEF KeysOnly
<1>12. Works(i) /\ DOMAIN tables' = DOMAIN tables /\ tables'[i].kind = tables[i].kind
  BY <1>1, <1>6, <1>10, <1>11, StatementWorks
<1>13. CallOK'
  <2>1. call' \in [op : {"update", "unkeyed"}, i : Places, at : Pos, row : Stored]
    BY <1>2, <1>3, <1>6
  <2>2. Updating'
    BY <1>4, <1>6, <1>11, <2>1 DEF Updating
  <2> QED BY <1>1, <1>6, <1>12, <2>2 DEF CallOK
<1>14. RowsShow(i)'
  BY <1>3, <1>7, <1>11 DEF RowsShow
<1>15. Agrees(i)'
  BY <1>3, <1>6, <1>7, <1>8, <1>9, <1>12 DEF Agrees
<1> QED BY <1>12, <1>13, <1>14, <1>15, WorksKeep

LEMMA UpdateUnkeyKeeps ==
  ASSUME IInv, UpdateUnkey
  PROVE  IInv'
<1>1. call.op = "update"
  BY DEF UpdateUnkey
<1>2. PICK i \in Places, at \in Pos, r \in Stored :
        /\ i = call.i /\ at = call.at /\ r = call.row
        /\ phase = "run" /\ call # Idle /\ i \in DOMAIN tables
        /\ call = [op |-> call.op, i |-> i, at |-> at, row |-> r]
        /\ (at < Len(log[i]) \/ i \in stale) /\ (at < SizeIn(Shown(cur), i) \/ i \in stale)
        /\ RowsNow(i) = log[i] /\ ~Busy({"index"}, i)
  BY <1>1, UpdatesKnow
<1>3. /\ deleteKey(i, r, at) /\ call' = [op |-> "unkeyed", i |-> i, at |-> at, row |-> r]
      /\ changed' = changed \cup {i}
      /\ UNCHANGED <<phase, meta, tables, log, base, written, died, stale>>
  BY <1>2 DEF UpdateUnkey
<1>4. /\ Typed /\ StoreTyped /\ log[i] \in Seq(Stored) /\ RowsShow(i) /\ Agrees(i)
  BY <1>2, TableKnown
<1>5. /\ call'.op = "unkeyed" /\ call'.i = i /\ call'.at = at /\ call'.row = r
  BY <1>3
<1>6. /\ KeysOnly(i)
      /\ \A e : tables[i].kind = "TREEINDEX" /\ Keys(cur)[i] = Tree(e) =>
                  Keys(cur')[i] = Tree(Minus(e, r, at))
  BY <1>2, <1>3, KeyDeleted
<1>7. /\ EntriesNow(i) = AllOf(Put(log[i], at + 1, r)) /\ ~Busy({"index"}, i)'
      /\ RowsNow(i)' = log[i] /\ EntriesNow(i)' = AllBut(log[i], {at})
  BY <1>1, <1>2, <1>3, <1>5 DEF RowsNow, EntriesNow, Busy
<1>8. i \notin stale => Minus(AllOf(Put(log[i], at + 1, r)), r, at) = AllBut(log[i], {at})
  <2> HAVE i \notin stale
  <2>1. PICK t : t = Put(log[i], at + 1, r)
    OBVIOUS
  <2>2. /\ t \in Seq(Stored) /\ Len(t) = Len(log[i]) /\ Len(log[i]) \in Nat
        /\ \A m \in 1 .. Len(log[i]) : t[m] = IF m = at + 1 THEN r ELSE log[i][m]
    BY <1>4, <2>1, PutRows, LenProperties
  <2>3. at < Len(t) /\ at + 1 \in 1 .. Len(log[i])
    BY <1>2, <2>2, DatabaseAssumption DEF Pos
  <2>4. r = t[at + 1]
    BY <2>2, <2>3
  <2>5. Minus(AllBut(t, {}), r, at) = AllBut(t, {} \cup {at})
    BY <2>2, <2>3, <2>4, EntryRemoved
  <2>6. AllBut(t, {at}) = AllBut(log[i], {at})
    BY <1>4, <2>1, PutUnseen
  <2> QED BY <2>1, <2>5, <2>6 DEF AllOf
<1>9. MarksSame(i) /\ LogAfter(i) /\ i \in changed' /\ written' = written
  BY <1>3 DEF MarksSame, LogAfter
<1>10. PagesAfter(i) /\ Kept(i) /\ Shown(cur') = Shown(cur)
  BY <1>4, <1>6, <1>9, KeysOnlyPages, KeptSame DEF KeysOnly
<1>11. Works(i) /\ tables' = tables
  BY <1>2, <1>3, <1>5, <1>9, <1>10, StatementWorks
<1>12. CallOK'
  <2>1. call' \in [op : {"update", "unkeyed"}, i : Places, at : Pos, row : Stored]
    BY <1>3
  <2>2. Updating'
    BY <1>2, <1>3, <1>5, <1>10, <2>1 DEF Updating
  <2> QED BY <1>2, <1>3, <1>5, <1>9, <1>11, <2>2 DEF CallOK
<1>13. RowsShow(i)'
  BY <1>2, <1>4, <1>7, <1>10 DEF RowsShow
<1>14. Agrees(i)'
  BY <1>2, <1>3, <1>4, <1>6, <1>7, <1>8, <1>11 DEF Agrees
<1> QED BY <1>11, <1>12, <1>13, <1>14, WorksKeep

LEMMA UpdateKeyKeeps ==
  ASSUME IInv, NEW v \in Settable, UpdateKey(v)
  PROVE  IInv'
<1>1. call.op = "unkeyed"
  BY DEF UpdateKey
<1>2. PICK i \in Places, at \in Pos, old \in Stored :
        /\ i = call.i /\ at = call.at /\ old = call.row
        /\ phase = "run" /\ call # Idle /\ i \in DOMAIN tables /\ i \in changed
        /\ call = [op |-> call.op, i |-> i, at |-> at, row |-> old]
        /\ (at < Len(log[i]) \/ i \in stale) /\ (at < SizeIn(Shown(cur), i) \/ i \in stale)
        /\ RowsNow(i) = log[i] /\ ~Busy({"index"}, i)
  BY <1>1, UpdatesKnow
<1>3. PICK r \in Stored : r = Row(v)
  BY DatabaseAssumption DEF Stored
<1>4. /\ addKey(i, r, at) /\ call' = [op |-> "update", i |-> i, at |-> at, row |-> r]
      /\ UNCHANGED <<phase, meta, tables, past>>
  BY <1>2, <1>3 DEF UpdateKey
<1>5. /\ Typed /\ StoreTyped /\ log[i] \in Seq(Stored) /\ RowsShow(i) /\ Agrees(i)
  BY <1>2, TableKnown
<1>6. /\ call'.op = "update" /\ call'.i = i /\ call'.at = at /\ call'.row = r
      /\ log' = log /\ stale' = stale /\ written' = written
  BY <1>4 DEF past
<1>7. /\ KeysOnly(i)
      /\ \A e : tables[i].kind = "TREEINDEX" /\ Keys(cur)[i] = Tree(e) =>
                  Keys(cur')[i] = Tree(Plus(e, r, at))
  BY <1>2, <1>4, KeyAdded
<1>8. /\ EntriesNow(i) = AllBut(log[i], {at}) /\ ~Busy({"index"}, i)'
      /\ RowsNow(i)' = log[i] /\ EntriesNow(i)' = AllOf(Put(log[i], at + 1, r))
  BY <1>1, <1>2, <1>6 DEF RowsNow, EntriesNow, Busy
<1>9. i \notin stale => Plus(AllBut(log[i], {at}), r, at) = AllOf(Put(log[i], at + 1, r))
  <2> HAVE i \notin stale
  <2>1. PICK t : t = Put(log[i], at + 1, r)
    OBVIOUS
  <2>2. /\ t \in Seq(Stored) /\ Len(t) = Len(log[i]) /\ Len(log[i]) \in Nat
        /\ \A m \in 1 .. Len(log[i]) : t[m] = IF m = at + 1 THEN r ELSE log[i][m]
    BY <1>5, <2>1, PutRows, LenProperties
  <2>3. at < Len(t) /\ at + 1 \in 1 .. Len(log[i])
    BY <1>2, <2>2, DatabaseAssumption DEF Pos
  <2>4. r = t[at + 1]
    BY <2>2, <2>3
  <2>5. Plus(AllBut(t, {at}), r, at) = AllBut(t, {at} \ {at})
    BY <2>2, <2>3, <2>4, EntryAdded
  <2>6. AllBut(t, {at}) = AllBut(log[i], {at}) /\ {at} \ {at} = {}
    BY <1>5, <2>1, PutUnseen
  <2> QED BY <2>1, <2>5, <2>6 DEF AllOf
<1>10. MarksSame(i) /\ LogAfter(i) /\ i \in changed'
  BY <1>2, <1>4 DEF past, MarksSame, LogAfter
<1>11. PagesAfter(i) /\ Kept(i) /\ Shown(cur') = Shown(cur)
  BY <1>5, <1>6, <1>7, <1>10, KeysOnlyPages, KeptSame DEF KeysOnly
<1>12. Works(i) /\ tables' = tables
  BY <1>2, <1>4, <1>6, <1>10, <1>11, StatementWorks
<1>13. CallOK'
  <2>1. call' \in [op : {"update", "unkeyed"}, i : Places, at : Pos, row : Stored]
    BY <1>4
  <2>2. Updating'
    BY <1>2, <1>6, <1>11, <2>1 DEF Updating
  <2> QED BY <1>2, <1>4, <1>6, <1>12, <2>2 DEF CallOK
<1>14. RowsShow(i)'
  BY <1>2, <1>5, <1>8, <1>11 DEF RowsShow
<1>15. Agrees(i)'
  BY <1>2, <1>5, <1>6, <1>7, <1>8, <1>9, <1>12 DEF Agrees
<1> QED BY <1>12, <1>13, <1>14, <1>15, WorksKeep

LEMMA UpdateFailKeeps ==
  ASSUME IInv, UpdateFail
  PROVE  IInv'
<1>1. call.op = "update"
  BY DEF UpdateFail
<1>2. PICK i \in Places, at \in Pos, r \in Stored :
        /\ i = call.i /\ at = call.at /\ r = call.row
        /\ phase = "run" /\ call # Idle /\ i \in DOMAIN tables
        /\ (at < SizeIn(Shown(cur), i) \/ i \in stale)
        /\ RowsNow(i) = log[i] /\ ~Busy({"index"}, i)
  BY <1>1, UpdatesKnow
<1>3. /\ call' = Idle
      /\ stale' = (IF FileOf(i) = "TREEINDEX" /\ r # get(i, at) THEN stale \cup {i} ELSE stale)
      /\ UNCHANGED <<phase, meta, tables, pages, log, base, changed, written, died>>
  BY <1>2 DEF UpdateFail
<1>4. /\ Typed /\ StoreTyped /\ log[i] \in Seq(Stored) /\ RowsShow(i) /\ Agrees(i)
      /\ FileOf(i) = tables[i].kind
      /\ get_size(i) = SizeIn(Shown(cur), i) /\ Len(log[i]) = SizeIn(Shown(cur), i)
      /\ (at < get_size(i) => get(i, at) = RowsNow(i)[at + 1])
  BY <1>2, TableKnown
<1>5. /\ EntriesNow(i) = AllOf(Put(log[i], at + 1, r))
      /\ RowsNow(i)' = log[i] /\ EntriesNow(i)' = AllOf(log[i]) /\ ~Busy({"index"}, i)'
  BY <1>1, <1>2, <1>3, NotBusyNext DEF EntriesNow, Busy
<1>6. KeysOnly(i) /\ Keys(cur')[i] = Keys(cur)[i]
  BY <1>3, <1>4, NothingWritten
<1>7. MarksSame(i) /\ LogAfter(i) /\ written' = written
  BY <1>3 DEF MarksSame, LogAfter
<1>8. PagesAfter(i) /\ Kept(i) /\ Shown(cur') = Shown(cur)
  BY <1>4, <1>6, <1>7, KeysOnlyPages, KeptSame DEF KeysOnly
<1>9. Works(i)
  BY <1>2, <1>3, <1>7, <1>8, StatementWorks
<1>10. CallOK'
  BY <1>3 DEF CallOK
<1>11. RowsShow(i)'
  BY <1>2, <1>4, <1>5, <1>8 DEF RowsShow
<1>12. Agrees(i)'
  <2>1. tables[i].kind = "TREEINDEX" /\ i \notin stale' => r = get(i, at) /\ i \notin stale
    BY <1>3, <1>4
  <2>2. tables[i].kind = "TREEINDEX" /\ i \notin stale' => Put(log[i], at + 1, r) = log[i]
    BY <1>2, <1>4, <2>1, PutBack
  <2> QED BY <1>3, <1>4, <1>5, <1>6, <2>1, <2>2 DEF Agrees
<1> QED BY <1>9, <1>10, <1>11, <1>12, WorksKeep

LEMMA UpdateStoreKeeps ==
  ASSUME IInv, UpdateStore
  PROVE  IInv'
<1> DEFINE F == Shown(cur)
           G == Shown(cur')
<1>1. call.op = "update"
  BY DEF UpdateStore
<1>2. PICK i \in Places, at \in Pos, r \in Stored :
        /\ i = call.i /\ at = call.at /\ r = call.row
        /\ phase = "run" /\ call # Idle /\ i \in DOMAIN tables
        /\ (at < SizeIn(F, i) \/ i \in stale)
        /\ RowsNow(i) = log[i] /\ ~Busy({"index"}, i)
  BY <1>1, UpdatesKnow
<1>3. /\ WriteSlot(i, at + 1, r) /\ call' = Idle /\ changed' = changed \cup {i}
      /\ written' = (IF i \in DOMAIN base /\ at < Len(base[i].rows)
                     THEN written \cup {<<i, at + 1, r>>} ELSE written)
      /\ log' = [log EXCEPT ![i] = Put(log[i], at + 1, r)]
      /\ UNCHANGED <<phase, meta, tables, base, died, stale>>
  BY <1>2 DEF UpdateStore
<1>4. /\ Typed /\ StoreTyped /\ ShownTyped(F) /\ log[i] \in Seq(Stored) /\ RowsShow(i) /\ Agrees(i)
      /\ SizeIn(F, i) \in 0 .. MaxRows
  BY <1>2, TableKnown
<1>5. PICK s \in Slots : s = at + 1 /\ s \in 1 .. MaxRows
  BY DatabaseAssumption DEF Pos, Slots
<1>6. SlotOnly(i, s, r)
  BY <1>3, <1>4, <1>5, SlotOnlyWritten
<1> HIDE DEF F, G
<1>7. G = Changed(F, i, at + 1, r) /\ Keys(cur') = Keys(cur)
  BY <1>5, <1>6 DEF SlotOnly, F, G
<1>8. /\ ShownTyped(G) /\ \A j \in Places \ {i} : G[j] = F[j]
      /\ SizeIn(G, i) = SizeIn(F, i) /\ G[i][at + 1] = r
      /\ \A t \in Slots \ {at + 1} : G[i][t] = F[i][t]
      /\ RowsIn(G, i) = Put(RowsIn(F, i), at + 1, r)
  BY <1>4, <1>7, RowPut
<1>9. Put(log[i], at + 1, r) \in Seq(Stored)
  BY <1>4, PutRows
<1>10. LogAfter(i)
  BY <1>3, <1>9 DEF LogAfter
<1>11. PagesAfter(i)
  BY <1>3, <1>4, <1>6, <1>8, SlotOnlyPages DEF F, G
<1>12. /\ TablesAfter(i) /\ DOMAIN tables' = DOMAIN tables /\ Len(tables') = Len(tables)
  BY <1>2, <1>3, <1>4, FilesMade
<1>13. /\ log' \in Seq(Seq(Stored)) /\ Len(log') = Len(tables')
       /\ \A j \in DOMAIN tables \ {i} : log'[j] = log[j]
       /\ log'[i] = Put(log[i], at + 1, r)
  BY <1>2, <1>3, <1>10, <1>12, LogKept
<1>14. PastAfter(i)
  <2>1. written \subseteq Places \X (1 .. MaxRows) \X Stored
    BY <1>4 DEF Typed
  <2>2. <<i, at + 1, r>> \in Places \X (1 .. MaxRows) \X Stored
    BY <1>5
  <2>3. written' \subseteq Places \X (1 .. MaxRows) \X Stored /\ written \subseteq written'
    BY <1>3, <2>1, <2>2
  <2> QED BY <1>3, <1>13, <2>3 DEF PastAfter
<1>15. Kept(i)
  <2>1. SizeIn(F, i) <= SizeIn(G, i) /\ written \subseteq written'
    BY <1>3, <1>4, <1>8, DatabaseAssumption
  <2>2. ASSUME i \in DOMAIN base, NEW n \in 1 .. Len(base[i].rows), n <= SizeIn(F, i)
        PROVE  G[i][n] = F[i][n] \/ <<i, n, G[i][n]>> \in written'
    <3>1. n \in Slots /\ n \in Nat /\ at \in Nat
      BY <1>4, <2>2, DatabaseAssumption DEF Slots, Pos
    <3>2. CASE n = at + 1
      <4>1. base[i] \in FoundRec
        BY <1>4, <2>2, TablesInPlaces
      <4>2. Len(base[i].rows) \in Nat
        BY <4>1, LenProperties DEF FoundRec
      <4>3. at < Len(base[i].rows)
        BY <2>2, <3>1, <3>2, <4>2
      <4> QED BY <1>3, <1>8, <2>2, <3>2, <4>3
    <3>3. CASE n # at + 1
      BY <1>8, <3>1, <3>3
    <3> QED BY <3>2, <3>3
  <2> QED BY <2>1, <2>2 DEF Kept, F, G
<1>16. Works(i)
  BY <1>2, <1>3, <1>11, <1>12, <1>14, <1>15 DEF Works
<1>17. /\ EntriesNow(i) = AllOf(Put(log[i], at + 1, r))
       /\ RowsNow(i)' = log'[i] /\ EntriesNow(i)' = AllOf(log'[i]) /\ ~Busy({"index"}, i)'
  BY <1>1, <1>2, <1>3, NotBusyNext DEF EntriesNow, Busy
<1>18. CallOK'
  BY <1>3 DEF CallOK
<1>19. RowsShow(i)'
  BY <1>2, <1>4, <1>8, <1>13, <1>17 DEF RowsShow, F, G
<1>20. Agrees(i)'
  BY <1>2, <1>3, <1>4, <1>7, <1>13, <1>17 DEF Agrees
<1> QED BY <1>16, <1>18, <1>19, <1>20, WorksKeep

-----------------------------------------------------------------------------
(* Starting, ending, and what is saved in between. *)

LEMMA CatalogueRead ==
  ASSUME meta = Missing \/ (meta \in Seq(Entry) /\ Len(meta) <= MaxTables)
  PROVE  /\ read \in Seq(TableRec) /\ Len(read) \in Nat /\ Len(read) <= MaxTables
         /\ DOMAIN read = 1 .. Len(read) /\ DOMAIN read \subseteq Places
         /\ \A i \in DOMAIN read : read[i].file = None
         /\ meta # Missing =>
              /\ DOMAIN meta = 1 .. Len(read) /\ Catalogue(read) = meta
              /\ \A i \in DOMAIN meta :
                   meta[i] \in Entry /\ read[i].name = meta[i].name /\ read[i].kind = meta[i].kind
         /\ meta = Missing => read = <<>>
<1>1. MaxTables \in Nat
  BY DatabaseAssumption
<1>2. CASE meta = Missing
  <2>1. read = <<>>
    BY <1>2 DEF read
  <2>2. read \in Seq(TableRec) /\ Len(read) = 0
    BY <2>1, EmptySeq
  <2>3. DOMAIN read = 1 .. 0
    BY <2>2, LenProperties
  <2> QED BY <1>1, <1>2, <2>1, <2>2, <2>3 DEF Places
<1>3. CASE meta # Missing
  <2>1. PICK n \in Nat : n = Len(meta) /\ n <= MaxTables
    BY <1>3, LenProperties
  <2>2. DOMAIN meta = 1 .. n /\ \A i \in 1 .. n : meta[i] \in Entry
    BY <1>3, <2>1, LenProperties, ElementOfSeq
  <2>3. read = [i \in 1 .. n |-> [name |-> meta[i].name, kind |-> meta[i].kind, file |-> None]]
    BY <1>3, <2>2 DEF read
  <2>4. read \in [1 .. n -> TableRec]
    BY <2>2, <2>3 DEF Entry, TableRec
  <2>5. read \in Seq(TableRec) /\ Len(read) = n /\ DOMAIN read = 1 .. n
    BY <2>1, <2>4
  <2>6. 1 .. n \subseteq Places
    BY <1>1, <2>1 DEF Places
  <2>7. \A i \in 1 .. n : /\ read[i].file = None
                          /\ read[i].name = meta[i].name /\ read[i].kind = meta[i].kind
    BY <2>3
  <2>8. Catalogue(read) = meta
    <3>1. Catalogue(read) = [i \in 1 .. n |-> [name |-> meta[i].name, kind |-> meta[i].kind]]
      BY <2>5, <2>7 DEF Catalogue
    <3>2. \A i \in 1 .. n : [name |-> meta[i].name, kind |-> meta[i].kind] = meta[i]
      BY <2>2 DEF Entry
    <3>3. meta = [i \in 1 .. n |-> meta[i]]
      <4>1. meta \in [1 .. n -> Entry]
        BY <1>3, <2>1, LenProperties
      <4> QED BY <4>1
    <3> QED BY <3>1, <3>2, <3>3
  <2> QED BY <1>3, <2>1, <2>2, <2>5, <2>6, <2>7, <2>8
<1> QED BY <1>2, <1>3

LEMMA NoMetaYet ==
  ASSUME NEW m \in Seq(Entry), Len(m) <= MaxTables
  PROVE  m # Missing
<1>1. Len(m) \in 0 .. MaxTables /\ m \in [1 .. Len(m) -> Entry]
  BY LenProperties, DatabaseAssumption
<1>2. m \in Catalogues
  BY <1>1 DEF Catalogues, Entry
<1> QED BY <1>2, DatabaseAssumption

(* The names and kinds of tables are a catalogue. *)
LEMMA CatalogueOf ==
  ASSUME NEW R, NEW ts \in Seq(R), \A i \in 1 .. Len(ts) : ts[i].name \in Names /\ ts[i].kind \in Kinds
  PROVE  /\ Catalogue(ts) \in Seq(Entry) /\ Len(Catalogue(ts)) = Len(ts)
         /\ DOMAIN Catalogue(ts) = 1 .. Len(ts)
         /\ \A i \in 1 .. Len(ts) :
              Catalogue(ts)[i].name = ts[i].name /\ Catalogue(ts)[i].kind = ts[i].kind
<1>1. PICK n \in Nat : n = Len(ts) /\ DOMAIN ts = 1 .. n
  BY LenProperties
<1>2. Catalogue(ts) = [i \in 1 .. n |-> [name |-> ts[i].name, kind |-> ts[i].kind]]
  BY <1>1 DEF Catalogue
<1>3. Catalogue(ts) \in [1 .. n -> Entry]
  BY <1>1, <1>2 DEF Entry
<1>4. Catalogue(ts) \in Seq(Entry) /\ Len(Catalogue(ts)) = n
  BY <1>1, <1>3
<1> QED BY <1>1, <1>2, <1>4

LEMMA StartKeeps ==
  ASSUME IInv, Start
  PROVE  IInv'
<1> DEFINE F == Shown(cur)
           K == Keys(cur)
<1>1. /\ phase = "off" /\ phase' = "run" /\ tables' = read
      /\ meta' = (IF meta = Missing THEN <<>> ELSE meta)
      /\ base' = Found(read) /\ log' = [i \in DOMAIN read |-> Rows(i)]
      /\ written' = {} /\ changed' = {} /\ died' = "off"
      /\ call' = call /\ cur' = cur /\ durable' = durable /\ stale' = stale
  BY DEF Start, pages
<1>2. StoreTyped /\ Typed /\ ShownTyped(F) /\ KeysTyped(K) /\ MaxRows \in Nat
  BY DatabaseAssumption DEF IInv, StoreTyped
<1>3. call = Idle /\ cur = durable
  BY <1>1 DEF IInv, CallOK, Quiet
<1>4. PICK n \in Nat : n = Len(read)
  BY <1>2, CatalogueRead DEF Typed
<1>5. /\ read \in Seq(TableRec) /\ n <= MaxTables
      /\ DOMAIN read = 1 .. n /\ 1 .. n \subseteq Places
      /\ \A i \in 1 .. n : read[i].file = None /\ read[i] \in TableRec
      /\ meta # Missing =>
           /\ DOMAIN meta = 1 .. n /\ Catalogue(read) = meta
           /\ \A i \in DOMAIN meta :
                meta[i] \in Entry /\ read[i].name = meta[i].name /\ read[i].kind = meta[i].kind
      /\ meta = Missing => read = <<>>
  <2>1. meta = Missing \/ (meta \in Seq(Entry) /\ Len(meta) <= MaxTables)
    BY <1>2 DEF Typed
  <2>2. read \in Seq(TableRec) /\ \A i \in 1 .. n : read[i] \in TableRec
    BY <1>4, <2>1, CatalogueRead, ElementOfSeq
  <2> QED BY <1>4, <2>1, <2>2, CatalogueRead
<1>6. \A i \in 1 .. n : Rows(i) = RowsIn(F, i) /\ Rows(i) \in Seq(Stored)
  <2>1. \A i \in Places : Rows(i) = RowsIn(F, i)
    BY <1>2, RowsRead
  <2> QED BY <1>2, <1>5, <2>1, RowsShown
<1>7. /\ log' \in Seq(Seq(Stored)) /\ Len(log') = n
      /\ \A i \in 1 .. n : log'[i] = RowsIn(F, i)
  <2>1. log' = [i \in 1 .. n |-> Rows(i)]
    BY <1>1, <1>5
  <2> HIDE DEF Stored
  <2>2. log' \in [1 .. n -> Seq(Stored)]
    BY <1>6, <2>1
  <2>3. log' \in Seq(Seq(Stored)) /\ Len(log') = n
    BY <1>4, <2>2
  <2> QED BY <1>6, <2>1, <2>3
<1>8. /\ base' \in Seq(FoundRec) /\ Len(base') = n /\ DOMAIN base' = 1 .. n
      /\ \A i \in 1 .. n :
           base'[i].name = read[i].name /\ base'[i].kind = read[i].kind /\ base'[i].rows = RowsIn(F, i)
  <2>1. base' = [i \in 1 .. n |-> [name |-> read[i].name, kind |-> read[i].kind, rows |-> Rows(i)]]
    BY <1>1, <1>5 DEF Found
  <2> HIDE DEF Stored
  <2>2. base' \in [1 .. n -> FoundRec]
    <3>1. \A i \in 1 .. n : read[i].name \in Names /\ read[i].kind \in Kinds
      BY <1>5 DEF TableRec
    <3> QED BY <1>6, <2>1, <3>1 DEF FoundRec
  <2>3. base' \in Seq(FoundRec) /\ Len(base') = n /\ DOMAIN base' = 1 .. n
    BY <1>4, <2>2
  <2> QED BY <1>6, <2>1, <2>3
<1>9. Typed'
  <2>1. meta' \in Seq(Entry) /\ Len(meta') <= MaxTables
    <3>1. CASE meta = Missing
      <4>1. meta' = <<>> /\ MaxTables \in Nat
        BY <1>1, <3>1, DatabaseAssumption
      <4> QED BY <4>1, EmptySeq
    <3>2. CASE meta # Missing
      BY <1>1, <1>2, <3>2 DEF Typed
    <3> QED BY <3>1, <3>2
  <2>2. \A i \in DOMAIN tables' : tables'[i].file \in {None, tables'[i].kind}
    BY <1>1, <1>5
  <2>3. Len(tables') <= MaxTables /\ tables' \in Seq(TableRec) /\ Len(base') <= MaxTables
    BY <1>1, <1>4, <1>5, <1>8
  <2>4. phase' \in Phases /\ died' \in Phases
    BY <1>1 DEF Phases
  <2> QED BY <1>1, <1>2, <1>7, <1>8, <2>1, <2>2, <2>3, <2>4 DEF Typed
<1>10. StoreTyped'
  BY <1>1, <1>2 DEF StoreTyped
<1>11. CallOK' /\ Quiet' /\ NextProcessFinds' /\ call' = Idle
  BY <1>1, <1>3 DEF CallOK, Quiet, NextProcessFinds
<1>12. LogOK'
  <2>1. \A i \in 1 .. n : RowsShow(i)'
    BY <1>1, <1>7, <1>11, NotBusyNext DEF RowsShow
  <2> QED BY <1>1, <1>4, <1>5, <1>7, <2>1 DEF LogOK
<1>13. \A i \in DOMAIN meta \ stale :
         meta # Missing /\ meta[i].kind = "TREEINDEX" => K[i] = Tree(AllOf(RowsIn(F, i)))
  BY <1>1, <1>3 DEF IInv, MetaIndexOK
<1>14. IndexOK'
  <2> SUFFICES ASSUME NEW i \in 1 .. n, i \notin stale, read[i].kind = "TREEINDEX"
               PROVE  K[i] = Tree(AllOf(log'[i]))
    BY <1>1, <1>5, <1>11, NotBusyNext DEF IndexOK, Agrees
  <2>1. meta # Missing
    <3>1. ASSUME meta = Missing PROVE FALSE
      <4>1. n = 0
        BY <1>4, <1>5, <3>1
      <4> QED BY <4>1
    <3> QED BY <3>1
  <2>2. i \in DOMAIN meta /\ meta[i].kind = "TREEINDEX"
    BY <1>5, <2>1
  <2> QED BY <1>7, <1>13, <2>1, <2>2
<1>15. OnDisk'
  BY <1>1, <1>3 DEF OnDisk
<1>16. MetaOK'
  <2>1. meta' = Catalogue(base')
    <3>1. Catalogue(base') = [i \in 1 .. n |-> [name |-> read[i].name, kind |-> read[i].kind]]
      BY <1>8 DEF Catalogue
    <3>2. Catalogue(read) = [i \in 1 .. n |-> [name |-> read[i].name, kind |-> read[i].kind]]
      BY <1>5 DEF Catalogue
    <3>3. CASE meta # Missing
      BY <1>1, <1>5, <3>1, <3>2, <3>3
    <3>4. CASE meta = Missing
      <4>1. n = 0 /\ meta' = <<>>
        BY <1>1, <1>4, <1>5, <3>4
      <4> QED BY <3>1, <4>1
    <3> QED BY <3>3, <3>4
  <2> QED BY <1>1, <2>1 DEF MetaOK
<1>17. MetaIndexOK'
  <2> SUFFICES ASSUME NEW i \in DOMAIN meta', i \notin stale, meta'[i].kind = "TREEINDEX"
               PROVE  K[i] = Tree(AllOf(RowsIn(F, i)))
    BY <1>1, <1>3 DEF MetaIndexOK
  <2>1. meta # Missing
    BY <1>1
  <2> QED BY <1>1, <1>13, <2>1
<1>18. BaseOK'
  <2>1. ASSUME NEW i \in 1 .. n PROVE Begins(F, {}, i, base'[i].rows)
    <3>1. /\ Len(RowsIn(F, i)) = SizeIn(F, i) /\ SizeIn(F, i) \in 0 .. MaxRows
          /\ \A m \in 1 .. SizeIn(F, i) : RowsIn(F, i)[m] = F[i][m]
      BY <1>2, <1>5, RowsShown
    <3> QED BY <1>2, <1>8, <3>1 DEF Begins
  <2>2. Len(base') <= Len(tables')
    BY <1>1, <1>4, <1>8
  <2> QED BY <1>1, <1>3, <1>8, <2>1, <2>2 DEF BaseOK
<1> QED BY <1>9, <1>10, <1>11, <1>12, <1>14, <1>15, <1>16, <1>17, <1>18 DEF IInv

LEMMA BeginCloseKeeps ==
  ASSUME IInv, BeginClose
  PROVE  IInv'
<1>1. /\ phase = "run" /\ phase' = "opened" /\ call = Idle /\ call' = Idle /\ meta' = <<>>
      /\ tables' = tables /\ cur' = cur /\ durable' = durable /\ log' = log /\ base' = base
      /\ written' = written /\ changed' = changed /\ died' = died /\ stale' = stale
  BY DEF BeginClose, Running, pages, past
<1>2. Typed'
  <2>1. meta' \in Seq(Entry) /\ Len(meta') <= MaxTables
    BY <1>1, EmptySeq, DatabaseAssumption
  <2> QED BY <1>1, <2>1 DEF IInv, Typed, Phases
<1>3. StoreTyped' /\ CallOK' /\ Quiet' /\ OnDisk' /\ MetaOK' /\ BaseOK' /\ NextProcessFinds'
  BY <1>1 DEF IInv, StoreTyped, CallOK, Quiet, OnDisk, MetaOK, BaseOK, NextProcessFinds
<1>4. LogOK' /\ IndexOK'
  BY <1>1 DEF IInv, LogOK, RowsShow, RowsNow, IndexOK, Agrees, EntriesNow, Busy
<1>5. MetaIndexOK'
  BY <1>1 DEF MetaIndexOK
<1> QED BY <1>2, <1>3, <1>4, <1>5 DEF IInv

LEMMA WriteMetaKeeps ==
  ASSUME IInv, WriteMeta
  PROVE  IInv'
<1>1. /\ phase = "opened" /\ phase' = "flush" /\ call' = call /\ meta' = Catalogue(tables)
      /\ tables' = tables /\ cur' = cur /\ durable' = durable /\ log' = log /\ base' = base
      /\ written' = written /\ changed' = changed /\ died' = died /\ stale' = stale
  BY DEF WriteMeta, pages, past
<1>2. call = Idle
  BY <1>1 DEF IInv, CallOK
<1>3. /\ DOMAIN tables = 1 .. Len(tables) /\ DOMAIN tables \subseteq Places
      /\ tables \in Seq(TableRec) /\ Len(tables) <= MaxTables
      /\ \A i \in 1 .. Len(tables) : tables[i].name \in Names /\ tables[i].kind \in Kinds
  BY TablesInPlaces DEF IInv, Typed, TableRec
<1>4. /\ meta' \in Seq(Entry) /\ Len(meta') = Len(tables) /\ DOMAIN meta' = DOMAIN tables
      /\ \A i \in DOMAIN tables : meta'[i].kind = tables[i].kind
  BY <1>1, <1>3, CatalogueOf
<1>5. Typed'
  <2>1. Len(meta') <= MaxTables
    BY <1>3, <1>4
  <2> QED BY <1>1, <1>4, <2>1 DEF IInv, Typed, Phases
<1>6. StoreTyped' /\ CallOK' /\ Quiet' /\ OnDisk' /\ MetaOK' /\ BaseOK' /\ NextProcessFinds'
  BY <1>1, <1>2 DEF IInv, StoreTyped, CallOK, Quiet, OnDisk, MetaOK, BaseOK, NextProcessFinds
<1>7. LogOK' /\ IndexOK'
  BY <1>1 DEF IInv, LogOK, RowsShow, RowsNow, IndexOK, Agrees, EntriesNow, Busy
<1>8. MetaIndexOK'
  <2> SUFFICES ASSUME NEW i \in DOMAIN tables, i \notin stale, i \notin changed, tables[i].kind = "TREEINDEX"
               PROVE  Keys(durable)[i] = Tree(AllOf(RowsIn(Shown(durable), i)))
    BY <1>1, <1>4 DEF MetaIndexOK
  <2>1. Shown(durable)[i] = Shown(cur)[i] /\ Keys(durable)[i] = Keys(cur)[i]
    BY <1>1, <1>3 DEF IInv, OnDisk
  <2>2. Keys(cur)[i] = Tree(AllOf(log[i])) /\ RowsIn(Shown(cur), i) = log[i]
    BY <1>1, <1>2, IdleNow DEF IInv, IndexOK, LogOK, Agrees, RowsShow
  <2> QED BY <2>1, <2>2, RowsSame
<1> QED BY <1>5, <1>6, <1>7, <1>8 DEF IInv

(* The rows a table shows after a step. *)
LEMMA RowsReadNext ==
  StoreTyped' => \A i \in Places : Rows(i)' = RowsIn(Shown(cur'), i)
<1>1. StoreTyped => \A i \in Places : Rows(i) = RowsIn(Shown(cur), i)
  BY RowsRead
<1>2. (StoreTyped => \A i \in Places : Rows(i) = RowsIn(Shown(cur), i))'
  BY <1>1, PTL
<1> QED BY <1>2

LEMMA EndCloseKeeps ==
  ASSUME IInv, EndClose
  PROVE  IInv'
<1> DEFINE F == Shown(cur)
<1>1. /\ phase = "flush" /\ phase' = "off" /\ durable = cur /\ tables' = <<>> /\ base' = Left
      /\ died = "off" /\ died' = died /\ meta' = meta /\ call' = call /\ cur' = cur
      /\ durable' = durable /\ log' = log /\ written' = written /\ changed' = changed /\ stale' = stale
  BY DEF EndClose, pages, IInv, Quiet
<1>2. call = Idle
  BY <1>1 DEF IInv, CallOK
<1>3. PICK n \in Nat : n = Len(tables)
  BY LenProperties DEF IInv, Typed
<1>4. /\ DOMAIN tables = 1 .. n /\ 1 .. n \subseteq Places /\ n <= MaxTables
      /\ tables \in Seq(TableRec)
      /\ \A i \in 1 .. n : tables[i] \in TableRec
  BY <1>3, TablesInPlaces DEF IInv, Typed
<1>5. /\ Len(log) = n /\ \A i \in 1 .. n : log[i] \in Seq(Stored) /\ RowsIn(F, i) = log[i]
  <2>1. Len(log) = n /\ \A i \in 1 .. n : RowsIn(F, i) = log[i]
    BY <1>1, <1>2, <1>3, <1>4, IdleNow DEF IInv, LogOK, RowsShow
  <2>2. DOMAIN log = 1 .. Len(log) /\ \A i \in DOMAIN log : log[i] \in Seq(Stored)
    BY TablesInPlaces DEF IInv
  <2> QED BY <2>1, <2>2
<1>6. /\ base' = [i \in 1 .. n |-> [name |-> tables[i].name, kind |-> tables[i].kind, rows |-> log[i]]]
      /\ base' \in Seq(FoundRec) /\ Len(base') = n
  <2>1. base' = [i \in 1 .. n |-> [name |-> tables[i].name, kind |-> tables[i].kind, rows |-> log[i]]]
    BY <1>1, <1>4 DEF Left
  <2> HIDE DEF Stored
  <2>2. base' \in [1 .. n -> FoundRec]
    BY <1>4, <1>5, <2>1 DEF FoundRec, TableRec
  <2>3. base' \in Seq(FoundRec) /\ Len(base') = n
    BY <1>3, <2>2
  <2> QED BY <2>1, <2>3
<1>7. Typed'
  <2>1. tables' \in Seq(TableRec) /\ Len(tables') = 0 /\ DOMAIN tables' = {}
    BY <1>1, EmptySeq
  <2>2. Len(tables') <= MaxTables /\ Len(base') <= MaxTables
    BY <1>4, <1>6, <2>1, DatabaseAssumption
  <2> QED BY <1>1, <1>6, <2>1, <2>2 DEF IInv, Typed, Phases
<1>8. StoreTyped'
  BY <1>1 DEF IInv, StoreTyped
<1>9. CallOK' /\ Quiet' /\ LogOK' /\ OnDisk' /\ MetaOK' /\ BaseOK'
  BY <1>1, <1>2 DEF CallOK, Quiet, LogOK, OnDisk, MetaOK, BaseOK
<1>10. IndexOK'
  <2>1. DOMAIN tables' = {}
    BY <1>1
  <2> QED BY <2>1 DEF IndexOK
<1>11. meta = Catalogue(tables)
  BY <1>1 DEF IInv, MetaOK
<1>12. /\ DOMAIN meta = 1 .. n /\ meta \in Seq(Entry) /\ Len(meta) <= MaxTables
       /\ \A i \in 1 .. n : meta[i].name = tables[i].name /\ meta[i].kind = tables[i].kind
  <2>1. \A i \in 1 .. n : tables[i].name \in Names /\ tables[i].kind \in Kinds
    BY <1>4 DEF TableRec
  <2> QED BY <1>3, <1>4, <1>11, <2>1, CatalogueOf
<1>13. MetaIndexOK'
  <2> SUFFICES ASSUME NEW i \in 1 .. n, i \notin stale, meta[i].kind = "TREEINDEX"
               PROVE  Keys(durable)[i] = Tree(AllOf(RowsIn(Shown(durable), i)))
    BY <1>1, <1>12 DEF MetaIndexOK
  <2>1. Keys(cur)[i] = Tree(AllOf(log[i]))
    BY <1>2, <1>4, <1>12, IdleNow DEF IInv, IndexOK, Agrees
  <2> QED BY <1>1, <1>5, <2>1
<1>14. NextProcessFinds'
  <2>1. meta # Missing
    BY <1>12, NoMetaYet
  <2>2. read' = [i \in 1 .. n |-> [name |-> tables[i].name, kind |-> tables[i].kind, file |-> None]]
    BY <1>1, <1>12, <2>1 DEF read
  <2>3. \A i \in 1 .. n : Rows(i)' = log[i]
    BY <1>1, <1>4, <1>5, <1>8, RowsReadNext
  <2>4. Found(read)' = [i \in 1 .. n |-> [name |-> tables[i].name, kind |-> tables[i].kind, rows |-> log[i]]]
    BY <2>2, <2>3 DEF Found
  <2> QED BY <1>1, <1>6, <2>4 DEF NextProcessFinds, Finds
<1> QED BY <1>7, <1>8, <1>9, <1>10, <1>13, <1>14 DEF IInv

LEMMA CrashKeeps ==
  ASSUME IInv, Crash
  PROVE  IInv'
<1>1. /\ phase \in {"run", "opened", "flush"} /\ phase' = "off" /\ died' = phase
      /\ tables' = <<>> /\ call' = Idle /\ cur' = durable /\ durable' = durable
      /\ meta' = meta /\ base' = base /\ log' = log
      /\ written' = written /\ changed' = changed /\ stale' = stale \cup changed
  BY DEF Crash, IInv, Typed, Phases
<1>2. Typed'
  <2>1. tables' \in Seq(TableRec) /\ Len(tables') <= MaxTables /\ DOMAIN tables' = {}
    BY <1>1, EmptySeq, DatabaseAssumption
  <2> QED BY <1>1, <2>1 DEF IInv, Typed, Phases
<1>3. StoreTyped'
  BY <1>1 DEF IInv, StoreTyped
<1>4. CallOK' /\ Quiet' /\ LogOK' /\ OnDisk' /\ MetaOK' /\ BaseOK'
  BY <1>1 DEF CallOK, Quiet, LogOK, OnDisk, MetaOK, BaseOK
<1>5. IndexOK'
  <2>1. DOMAIN tables' = {}
    BY <1>1
  <2> QED BY <2>1 DEF IndexOK
<1>6. MetaIndexOK'
  BY <1>1 DEF IInv, MetaIndexOK
<1>7. /\ DOMAIN base = 1 .. Len(base) /\ DOMAIN base \subseteq Places
      /\ DOMAIN tables = 1 .. Len(tables) /\ base \in Seq(FoundRec) /\ tables \in Seq(TableRec)
      /\ \A i \in DOMAIN base : base[i] \in FoundRec
      /\ \A i \in DOMAIN tables : tables[i] \in TableRec
      /\ Len(base) <= Len(tables) /\ Len(base) \in Nat /\ Len(tables) \in Nat
      /\ Len(base) <= MaxTables /\ Len(tables) <= MaxTables /\ Len(log) = Len(tables)
  BY <1>1, TablesInPlaces, LenProperties DEF IInv, Typed, BaseOK, LogOK
<1>8. ASSUME NEW i \in DOMAIN base PROVE Extends(i)'
  <2>1. Begins(Shown(durable), written, i, base[i].rows)
    BY <1>1 DEF IInv, BaseOK
  <2>2. ShownTyped(Shown(durable)) /\ i \in Places
    BY <1>7 DEF IInv, StoreTyped
  <2>3. PICK rows \in Seq(Stored) : rows = base[i].rows
    BY <1>7 DEF FoundRec
  <2>4. Rows(i)' = RowsIn(Shown(durable), i)
    BY <1>1, <1>3, <2>2, RowsReadNext
  <2>5. /\ Len(Rows(i)') >= Len(rows)
        /\ \A n \in 1 .. Len(rows) : Rows(i)'[n] = rows[n] \/ <<i, n, Rows(i)'[n]>> \in written
    <3>1. PICK F : F = Shown(durable)
      OBVIOUS
    <3>2. PICK found : found = RowsIn(F, i)
      OBVIOUS
    <3>3. /\ Len(found) >= Len(rows)
          /\ \A n \in 1 .. Len(rows) : found[n] = rows[n] \/ <<i, n, found[n]>> \in written
      BY <2>1, <2>2, <2>3, <3>1, <3>2, BeginsWith
    <3> QED BY <2>4, <3>1, <3>2, <3>3
  <2>6. DOMAIN rows = 1 .. Len(rows)
    BY LenProperties
  <2> QED BY <1>1, <2>3, <2>5, <2>6 DEF Extends
<1>9. NextProcessFinds'
  <2> SUFFICES Finds'
    BY DEF NextProcessFinds
  <2>1. CASE phase = "run"
    <3>1. meta = Catalogue(base)
      BY <2>1 DEF IInv, MetaOK
    <3>2. meta \in Seq(Entry) /\ Len(meta) <= MaxTables
      <4>1. \A i \in 1 .. Len(base) : base[i].name \in Names /\ base[i].kind \in Kinds
        BY <1>7 DEF FoundRec
      <4> QED BY <1>7, <3>1, <4>1, CatalogueOf
    <3>3. Catalogue(read) = meta
      BY <3>2, NoMetaYet, CatalogueRead
    <3>4. read' = read
      BY <1>1 DEF read
    <3> QED BY <1>1, <1>8, <2>1, <3>1, <3>3, <3>4 DEF Finds
  <2>2. CASE phase = "opened"
    <3>1. meta = <<>>
      BY <2>2 DEF IInv, MetaOK
    <3>2. read' = <<>>
      BY <1>1, <3>1 DEF read
    <3> QED BY <1>1, <2>2, <3>2 DEF Finds
  <2>3. CASE phase = "flush"
    <3>1. meta = Catalogue(tables)
      BY <2>3 DEF IInv, MetaOK
    <3>2. /\ meta \in Seq(Entry) /\ Len(meta) <= MaxTables
          /\ DOMAIN meta = 1 .. Len(tables) /\ Len(meta) = Len(tables)
          /\ \A i \in 1 .. Len(tables) : meta[i].name = tables[i].name
      <4>1. \A i \in 1 .. Len(tables) : tables[i].name \in Names /\ tables[i].kind \in Kinds
        BY <1>7 DEF TableRec
      <4> QED BY <1>7, <3>1, <4>1, CatalogueOf
    <3>3. meta # Missing
      BY <3>2, NoMetaYet
    <3>4. /\ DOMAIN meta = 1 .. Len(read) /\ Len(read) \in Nat
          /\ \A i \in DOMAIN meta : read[i].name = meta[i].name
      BY <3>2, <3>3, CatalogueRead
    <3>5. Len(read) = Len(tables)
      BY <1>7, <3>2, <3>4
    <3>6. read' = read
      BY <1>1 DEF read
    <3>7. ASSUME NEW i \in DOMAIN base PROVE read[i].name = base[i].name
      <4>1. i \in 1 .. Len(tables)
        BY <1>7
      <4>2. base[i].name = tables[i].name
        BY <1>1 DEF IInv, BaseOK
      <4> QED BY <3>2, <3>4, <4>1, <4>2
    <3> QED BY <1>1, <1>7, <1>8, <2>3, <3>5, <3>6, <3>7 DEF Finds
  <2> QED BY <1>1, <2>1, <2>2, <2>3
<1> QED BY <1>2, <1>3, <1>4, <1>5, <1>6, <1>9 DEF IInv

LEMMA SaveKeeps ==
  ASSUME IInv, NEW p \in PageIds, Save(p)
  PROVE  IInv'
<1> DEFINE F == Shown(cur)
           D == Shown(durable)
           E == Shown(durable')
<1>1. /\ phase # "off" /\ phase' = phase /\ durable' = [durable EXCEPT ![p] = cur[p]]
      /\ meta' = meta /\ tables' = tables /\ call' = call /\ cur' = cur
      /\ log' = log /\ base' = base /\ written' = written /\ changed' = changed
      /\ died' = died /\ stale' = stale
  BY DEF Save, past
<1>2. /\ PagesTyped(cur) /\ PagesTyped(durable) /\ ShownTyped(F) /\ ShownTyped(D)
      /\ KeysTyped(Keys(cur)) /\ KeysTyped(Keys(durable)) /\ MaxRows \in Nat
  BY DatabaseAssumption DEF IInv, StoreTyped
<1>3. /\ PagesTyped(durable')
      /\ \A i \in Places, s \in Slots : E[i][s] \in {D[i][s], F[i][s]}
      /\ \A i \in Places : Keys(durable')[i] \in {Keys(durable)[i], Keys(cur)[i]}
  BY <1>1, <1>2, SavingShows
<1>4. E = [i \in Places |-> [s \in Slots |-> E[i][s]]] /\ 0 \in Slots
  BY <1>2 DEF Shown, Slots
<1>5. Keys(durable') = [i \in Places |-> Keys(durable')[i]]
  BY DEF Keys
<1>6. ShownTyped(E)
  <2> HIDE DEF F, D, E
  <2>1. E \in [Places -> [Slots -> Counts \cup Stored]]
    BY <1>2, <1>3, <1>4 DEF ShownTyped
  <2>2. \A i \in Places : E[i][0] \in Counts
    BY <1>2, <1>3, <1>4 DEF ShownTyped
  <2>3. \A i \in Places, s \in 1 .. MaxRows : E[i][s] \in Stored
    <3>1. \A s \in 1 .. MaxRows : s \in Slots
      BY <1>2 DEF Slots
    <3> QED BY <1>2, <1>3, <3>1 DEF ShownTyped
  <2> QED BY <2>1, <2>2, <2>3 DEF ShownTyped
<1>7. KeysTyped(Keys(durable'))
  BY <1>2, <1>3, <1>5 DEF KeysTyped
<1>8. Typed' /\ CallOK' /\ Quiet' /\ MetaOK' /\ NextProcessFinds'
  BY <1>1 DEF IInv, Typed, CallOK, Indexing, Inserting, Deleting, Updating, Quiet, MetaOK,
              NextProcessFinds
<1>9. LogOK' /\ IndexOK'
  BY <1>1 DEF IInv, LogOK, RowsShow, RowsNow, IndexOK, Agrees, EntriesNow, Busy
<1>10. StoreTyped'
  BY <1>1, <1>2, <1>3, <1>6, <1>7 DEF StoreTyped
<1>11. ASSUME NEW i \in Places \ changed
       PROVE  /\ D[i] = F[i] /\ E[i] = F[i]
              /\ Keys(durable)[i] = Keys(cur)[i] /\ Keys(durable')[i] = Keys(cur)[i]
  <2>1. D[i] = F[i] /\ Keys(durable)[i] = Keys(cur)[i]
    BY <1>1 DEF IInv, OnDisk
  <2>2. Keys(durable')[i] = Keys(cur)[i]
    BY <1>3, <2>1
  <2> HIDE DEF F, D, E
  <2>3. \A s \in Slots : E[i][s] = F[i][s]
    BY <1>3, <2>1
  <2>4. E[i] = [s \in Slots |-> E[i][s]]
    BY <1>4
  <2>5. F[i] = [s \in Slots |-> F[i][s]]
    BY <1>2 DEF ShownTyped
  <2>6. E[i] = F[i]
    BY <2>3, <2>4, <2>5
  <2> QED BY <2>1, <2>2, <2>6
<1>12. OnDisk'
  BY <1>1, <1>11 DEF OnDisk
<1>13. MetaIndexOK'
  <2> SUFFICES ASSUME meta # Missing, NEW i \in DOMAIN meta \ stale, i \notin changed,
                      meta[i].kind = "TREEINDEX"
               PROVE  Keys(durable')[i] = Tree(AllOf(RowsIn(E, i)))
    BY <1>1 DEF MetaIndexOK
  <2>1. Keys(durable)[i] = Tree(AllOf(RowsIn(D, i)))
    BY DEF IInv, MetaIndexOK
  <2>2. i \in Places
    BY CatalogueRead DEF IInv, Typed
  <2>3. RowsIn(E, i) = RowsIn(D, i)
    BY <1>11, <2>2, RowsSame
  <2> QED BY <1>11, <2>1, <2>2, <2>3
<1>14. BaseOK'
  <2>1. ASSUME NEW i \in DOMAIN base PROVE Begins(E, written, i, base[i].rows)
    <3>1. i \in Places /\ base[i].rows \in Seq(Stored)
      <4>1. DOMAIN base \subseteq Places /\ base[i] \in FoundRec
        BY TablesInPlaces DEF IInv
      <4> QED BY <4>1 DEF FoundRec
    <3>2. PICK rows \in Seq(Stored) : rows = base[i].rows
      BY <3>1
    <3>3. Begins(F, written, i, rows) /\ Begins(D, written, i, rows)
      BY <1>1, <2>1, <3>2 DEF IInv, BaseOK
    <3> HIDE DEF F, D, E
    <3>4. SizeIn(E, i) \in {SizeIn(D, i), SizeIn(F, i)}
      BY <1>3, <1>4, <3>1 DEF SizeIn
    <3>5. Len(rows) <= SizeIn(E, i)
      BY <3>3, <3>4 DEF Begins
    <3>6. ASSUME NEW n \in 1 .. Len(rows) PROVE E[i][n] = rows[n] \/ <<i, n, E[i][n]>> \in written
      <4>1. SizeIn(F, i) \in 0 .. MaxRows /\ Len(rows) <= SizeIn(F, i) /\ Len(rows) \in Nat
        BY <1>2, <3>1, <3>3, RowsShown, LenProperties DEF Begins
      <4>2. n \in Slots
        BY <1>2, <4>1 DEF Slots
      <4>3. /\ F[i][n] = rows[n] \/ <<i, n, F[i][n]>> \in written
            /\ D[i][n] = rows[n] \/ <<i, n, D[i][n]>> \in written
        BY <3>3 DEF Begins
      <4> QED BY <1>3, <3>1, <4>2, <4>3
    <3> QED BY <3>2, <3>5, <3>6 DEF Begins
  <2>2. Len(base) <= Len(tables) /\ \A i \in DOMAIN base :
          base[i].name = tables[i].name /\ Begins(F, written, i, base[i].rows)
    BY <1>1 DEF IInv, BaseOK
  <2> QED BY <1>1, <2>1, <2>2 DEF BaseOK
<1> QED BY <1>8, <1>9, <1>10, <1>12, <1>13, <1>14 DEF IInv

-----------------------------------------------------------------------------
(* The theorems. *)

(* Before the first start no file exists: nothing is shown but empty tables. *)
LEMMA FirstStart == Init => IInv
<1> SUFFICES ASSUME Init PROVE IInv
  OBVIOUS
<1>1. /\ phase = "off" /\ died = "off" /\ meta = Missing /\ tables = <<>> /\ call = Idle
      /\ log = <<>> /\ base = <<>> /\ written = {} /\ changed = {} /\ stale = {}
      /\ cur = Store!Blank /\ durable = Store!Blank
  BY DEF Init, Store!Init
<1>2. MaxRows \in Nat /\ MaxTables \in Nat /\ 0 \in Slots
  BY DatabaseAssumption DEF Slots
<1>3. PagesTyped(cur) /\ cur = durable
  BY <1>1 DEF Store!Blank, PagesTyped
<1>4. \A p \in PageIds, c \in Cells :
        LoadedIn(cur, p)[c] = IF p[1] = "table" /\ p[3] = 0 /\ c = 0 THEN Count(0) ELSE Junk
  BY <1>1 DEF Store!Blank, LoadedIn
<1>5. ASSUME NEW i \in Places, NEW s \in Slots
      PROVE  Shown(cur)[i][s] = IF s \in {0} THEN Count(0) ELSE Junk
  <2>1. TablePage(i, s) \in PageIds /\ s % 2 \in Cells
    BY SlotPlaces
  <2>2. TablePage(i, s)[1] = "table" /\ TablePage(i, s)[3] = s \div 2
    BY DEF TablePage
  <2>3. s \div 2 = 0 /\ s % 2 = 0 <=> s = 0
    BY <1>2 DEF Slots
  <2>4. Shown(cur)[i][s] = LoadedIn(cur, TablePage(i, s))[s % 2]
    BY DEF Shown
  <2> QED BY <1>4, <2>1, <2>2, <2>3, <2>4
<1>6. ASSUME NEW i \in Places PROVE Keys(cur)[i] = Junk
  <2>1. IndexPage(i) \in PageIds /\ 0 \in Cells /\ IndexPage(i)[1] = "index"
    BY IndexPlaces DEF IndexPage
  <2> QED BY <1>4, <2>1 DEF Keys
<1>7. ShownTyped(Shown(cur))
  <2>1. Count(0) \in Counts /\ Junk \in Stored
    BY <1>2 DEF Counts, Stored
  <2>2. Shown(cur) = [i \in Places |-> [s \in Slots |-> IF s \in {0} THEN Count(0) ELSE Junk]]
    BY <1>5 DEF Shown
  <2>3. \A s \in 1 .. MaxRows : s \in Slots /\ s \notin {0}
    BY <1>2 DEF Slots
  <2> HIDE DEF Counts, Stored
  <2> QED BY <1>2, <2>1, <2>2, <2>3 DEF ShownTyped
<1>8. KeysTyped(Keys(cur))
  BY <1>6 DEF KeysTyped, Keys
<1>9. StoreTyped
  BY <1>3, <1>7, <1>8 DEF StoreTyped
<1>10. Typed
  <2>1. tables \in Seq(TableRec) /\ log \in Seq(Seq(Stored)) /\ base \in Seq(FoundRec)
    BY <1>1, EmptySeq
  <2>2. Len(tables) <= MaxTables /\ Len(base) <= MaxTables /\ DOMAIN tables = {}
    BY <1>1, <1>2
  <2> QED BY <1>1, <2>1, <2>2 DEF Typed, Phases
<1>11. CallOK /\ Quiet /\ LogOK /\ OnDisk /\ MetaOK /\ MetaIndexOK /\ BaseOK
  BY <1>1, <1>3 DEF CallOK, Quiet, LogOK, OnDisk, MetaOK, MetaIndexOK, BaseOK
<1>12. IndexOK
  <2>1. DOMAIN tables = {}
    BY <1>1
  <2> QED BY <2>1 DEF IndexOK
<1>13. NextProcessFinds
  <2>1. read = <<>> /\ DOMAIN read = {} /\ DOMAIN base = {}
    BY <1>1 DEF read
  <2>2. Found(read) = base
    BY <1>1, <2>1 DEF Found
  <2> QED BY <1>1, <2>2 DEF NextProcessFinds, Finds
<1> QED BY <1>9, <1>10, <1>11, <1>12, <1>13 DEF IInv

LEMMA NothingHappens ==
  ASSUME IInv, UNCHANGED vars
  PROVE  IInv'
<1>1. /\ phase' = phase /\ meta' = meta /\ tables' = tables /\ call' = call
      /\ cur' = cur /\ durable' = durable /\ log' = log /\ base' = base
      /\ written' = written /\ changed' = changed /\ died' = died /\ stale' = stale
  BY DEF vars, pages, past
<1>2. Typed' /\ StoreTyped' /\ CallOK' /\ Quiet' /\ LogOK' /\ IndexOK'
  <2>1. Typed' /\ StoreTyped' /\ Quiet'
    BY <1>1 DEF IInv, Typed, StoreTyped, Quiet
  <2>2. CallOK'
    BY <1>1 DEF IInv, CallOK, Indexing, Inserting, Deleting, Updating
  <2>3. \A i : RowsNow(i)' = RowsNow(i)
    BY <1>1 DEF RowsNow, Busy
  <2>4. LogOK'
    BY <1>1, <2>3 DEF IInv, LogOK, RowsShow
  <2>5. \A i : EntriesNow(i)' = EntriesNow(i)
    BY <1>1 DEF EntriesNow, Busy
  <2>6. IndexOK'
    BY <1>1, <2>5 DEF IInv, IndexOK, Agrees, Busy
  <2> QED BY <2>1, <2>2, <2>4, <2>6
<1>3. OnDisk' /\ MetaOK' /\ MetaIndexOK' /\ BaseOK'
  BY <1>1 DEF IInv, OnDisk, MetaOK, MetaIndexOK, BaseOK
<1>4. NextProcessFinds'
  <2>1. ASSUME NEW i \in Places PROVE Rows(i)' = Rows(i)
    BY <1>1 DEF Rows, get_size, get, Slot, Loaded
  <2>2. read' = read
    BY <1>1 DEF read
  <2>3. Found(read)' = Found(read)
    BY <1>1, <2>2 DEF Found, Rows, get_size, get, Slot, Loaded
  <2>4. \A i : Extends(i)' <=> Extends(i)
    BY <1>1 DEF Extends, Rows, get_size, get, Slot, Loaded
  <2> QED BY <1>1, <2>2, <2>3, <2>4 DEF IInv, NextProcessFinds, Finds
<1> QED BY <1>2, <1>3, <1>4 DEF IInv

LEMMA StepsKeep == IInv /\ [Next]_vars => IInv'
<1> SUFFICES ASSUME IInv, [Next]_vars PROVE IInv'
  OBVIOUS
<1>1. CASE UNCHANGED vars
  BY <1>1, NothingHappens
<1>2. CASE Start \/ BeginClose \/ WriteMeta \/ EndClose \/ Crash
  BY <1>2, StartKeeps, BeginCloseKeeps, WriteMetaKeeps, EndCloseKeeps, CrashKeeps
<1>3. CASE \E p \in PageIds : Save(p)
  BY <1>3, SaveKeeps
<1>4. CASE \E n \in Names : CreateTable(n)
  BY <1>4, CreateTableKeeps
<1>5. CASE \E i \in DOMAIN tables :
             \/ \E type \in IndexTypes : CreateIndex(i, type)
             \/ Select(i)
             \/ \E v \in Insertable : InsertRow(i, v)
             \/ \E at \in Removable : DeleteKey(i, at)
             \/ \E at \in Updatable : UpdateFetch(i, at)
  BY <1>5, CreateIndexKeeps, SelectKeeps, InsertRowKeeps, DeleteKeyKeeps, UpdateFetchKeeps
<1>6. CASE IndexRow \/ IndexEnd \/ InsertKey \/ InsertSize
  BY <1>6, IndexRowKeeps, IndexEndKeeps, InsertKeyKeeps, InsertSizeKeeps
<1>7. CASE DeleteMove \/ DeleteUnkey \/ DeleteRekey \/ DeletePop
  BY <1>7, DeleteMoveKeeps, DeleteUnkeyKeeps, DeleteRekeyKeeps, DeletePopKeeps
<1>8. CASE UpdateUnkey \/ (\E v \in Settable : UpdateKey(v)) \/ UpdateFail \/ UpdateStore
  BY <1>8, UpdateUnkeyKeeps, UpdateKeyKeeps, UpdateFailKeeps, UpdateStoreKeeps
<1> QED BY <1>1, <1>2, <1>3, <1>4, <1>5, <1>6, <1>7, <1>8 DEF Next

LEMMA Invariant == Spec => []IInv
BY FirstStart, StepsKeep, PTL DEF Spec

(* Every statement, exit, death and restart leaves a catalogue and files    *)
(* that can be read: the first slot of every table file is a number of     *)
(* rows that fits.                                                         *)
THEOREM TypeCorrect == Spec => []TypeOK
<1>1. IInv => TypeOK
  <2> SUFFICES ASSUME IInv PROVE TypeOK
    OBVIOUS
  <2>1. MaxTables \in Nat
    BY DatabaseAssumption
  <2>2. meta \in {Missing} \cup Catalogues
    <3>1. CASE meta \in Seq(Entry) /\ Len(meta) <= MaxTables
      <4>1. Len(meta) \in 0 .. MaxTables /\ meta \in [1 .. Len(meta) -> Entry]
        BY <2>1, <3>1, LenProperties
      <4> QED BY <4>1 DEF Catalogues, Entry
    <3> QED BY <3>1 DEF IInv, Typed
  <2>3. tables \in UNION {[1 .. n -> [name : Names, kind : Kinds, file : Kinds \cup {None}]] :
                            n \in 0 .. MaxTables}
    <3>1. tables \in Seq(TableRec) /\ Len(tables) <= MaxTables
      BY DEF IInv, Typed
    <3>2. Len(tables) \in 0 .. MaxTables /\ tables \in [1 .. Len(tables) -> TableRec]
      BY <2>1, <3>1, LenProperties
    <3> QED BY <3>2 DEF TableRec
  <2>4. ASSUME NEW i \in Places PROVE Slot(i, 0) \in {Count(n) : n \in 0 .. MaxRows}
    <3>1. Slot(i, 0) = Shown(cur)[i][0]
      BY ReadsShow, DatabaseAssumption DEF IInv, Slots
    <3> QED BY <3>1 DEF IInv, StoreTyped, ShownTyped, Counts
  <2> QED BY <2>2, <2>3, <2>4 DEF TypeOK, IInv, Typed, Phases
<1> QED BY <1>1, Invariant, PTL

(* Between statements a table shows the rows that statements have put in    *)
(* it, also those of earlier processes, and a new table shows none.         *)
THEOREM RowsAreThere == Spec => []AllThere
<1>1. IInv => AllThere
  <2> SUFFICES ASSUME IInv, call = Idle, phase # "off", NEW i \in DOMAIN tables
               PROVE  Rows(i) = log[i]
    BY DEF AllThere
  <2>1. i \in Places
    BY TablesInPlaces DEF IInv
  <2>2. Rows(i) = RowsIn(Shown(cur), i)
    BY <2>1, RowsRead DEF IInv
  <2> QED BY <2>2, IdleNow DEF IInv, LogOK, RowsShow
<1> QED BY <1>1, Invariant, PTL

(* Between statements the index of a table holds the entries of its rows,   *)
(* each once, unless a crash, a DELETE of its last row or an UPDATE that     *)
(* failed half way has put it out of step.                                  *)
THEOREM IndexesAgree == Spec => []IndexAgrees
<1>1. IInv => IndexAgrees
  <2> SUFFICES ASSUME IInv, call = Idle, NEW i \in DOMAIN tables \ stale,
                      tables[i].kind = "TREEINDEX"
               PROVE  KeysOf(i) = Tree(Entries(i))
    BY DEF IndexAgrees
  <2>1. i \in Places /\ StoreTyped
    BY TablesInPlaces DEF IInv
  <2>2. /\ KeysOf(i) = Keys(cur)[i]
        /\ Entries(i) = AllOf(RowsIn(Shown(cur), i))
    BY <2>1, ReadsShow, RowsRead DEF KeysOf
  <2>3. Keys(cur)[i] = Tree(AllOf(log[i]))
    BY IdleNow DEF IInv, IndexOK, Agrees
  <2>4. phase # "off"
    <3>1. ASSUME phase = "off" PROVE FALSE
      <4>1. DOMAIN tables = {}
        BY <3>1 DEF IInv, Quiet
      <4> QED BY <4>1
    <3> QED BY <3>1
  <2>5. RowsIn(Shown(cur), i) = log[i]
    BY <2>4, IdleNow DEF IInv, LogOK, RowsShow
  <2> QED BY <2>2, <2>3, <2>5
<1> QED BY <1>1, Invariant, PTL

(* What the next process finds, after an exit and after a death between any  *)
(* two writes of a statement, CREATE INDEX and UPDATE included, or of the    *)
(* exit.                                                                    *)
THEOREM RestartsFind == Spec => []NextProcessFinds
<1>1. IInv => NextProcessFinds
  BY DEF IInv
<1> QED BY <1>1, Invariant, PTL

-----------------------------------------------------------------------------
(* The pages are those of the page store. *)

(* A write of a cell, with the load it makes, is a write of the store. *)
LEMMA WritesAreWrites ==
  ASSUME StoreTyped, StoreTyped', NEW p \in PageIds, NEW c \in Cells, NEW x, x # Absent,
         WriteCell(p, c, x)
  PROVE  Store!Next
<1>1. PagesTyped(cur) /\ PagesTyped(cur')
  BY DEF StoreTyped
<1>2. Loaded(p) \in [Cells -> Contents] /\ \A d \in Cells : cur[p][d] # Absent => Loaded(p)[d] = cur[p][d]
  <2>1. Loaded(p) = LoadedIn(cur, p)
    BY DEF Loaded, LoadedIn
  <2> QED BY <1>1, <2>1, LoadedTyped DEF LoadedIn
<1>3. /\ durable' = durable
      /\ \A q \in PageIds \ {p} : cur'[q] = cur[q]
      /\ \A d \in Cells : cur'[p][d] = IF d = c THEN x ELSE Loaded(p)[d]
  BY <1>1, <1>2 DEF WriteCell, PagesTyped
<1>4. x \in Contents
  <2>1. cur'[p][c] \in Contents \cup {Absent}
    BY <1>1 DEF PagesTyped
  <2> QED BY <1>3, <2>1
<1>5. \A q \in PageIds \ {p} : Store!Settles(cur[q], cur'[q])
  BY <1>3 DEF Store!Settles
<1>6. \A d \in Cells :
        IF d \in {c} THEN cur'[p][d] = x
        ELSE cur'[p][d] # Absent /\ (cur[p][d] # Absent => cur'[p][d] = cur[p][d])
  BY <1>2, <1>3, CountsAreContents
<1>7. Store!SomeSaved
  BY <1>3 DEF Store!SomeSaved, Store!Settles
<1>8. Store!Write(p, {c}, x) /\ {c} \in SUBSET Cells
  BY <1>5, <1>6, <1>7 DEF Store!Write
<1> QED BY <1>4, <1>8 DEF Store!Next

LEMMA SlotWritesAreWrites ==
  ASSUME StoreTyped, StoreTyped', NEW i \in Places, NEW s \in Slots, NEW x \in Contents,
         WriteSlot(i, s, x)
  PROVE  Store!Next
<1>1. TablePage(i, s) \in PageIds /\ s % 2 \in Cells /\ x # Absent
  BY SlotPlaces, CountsAreContents
<1>2. WriteCell(TablePage(i, s), s % 2, x)
  BY DEF WriteSlot
<1> QED BY <1>1, <1>2, WritesAreWrites

LEMMA TreeWritesAreWrites ==
  ASSUME StoreTyped, StoreTyped', NEW i \in Places, NEW e, NEW x \in {Junk, Tree(e)},
         WriteCell(IndexPage(i), 0, x)
  PROVE  Store!Next
<1>1. IndexPage(i) \in PageIds /\ 0 \in Cells
  BY IndexPlaces
<1>2. x # Absent
  BY DEF Junk, Tree, Absent
<1> QED BY <1>1, <1>2, WritesAreWrites

LEMMA KeysAreWrites ==
  ASSUME StoreTyped, StoreTyped', NEW i \in Places, NEW r, NEW at,
         addKey(i, r, at) \/ deleteKey(i, r, at)
  PROVE  Store!Next \/ UNCHANGED pages
<1>1. CASE addKey(i, r, at)
  <2>1. \/ UNCHANGED pages
        \/ WriteCell(IndexPage(i), 0, IF KeysOf(i) = Junk THEN Junk ELSE Tree(Plus(KeysOf(i)[2], r, at)))
    BY <1>1 DEF addKey, Rekey, Plus
  <2> QED BY <2>1, TreeWritesAreWrites
<1>2. CASE deleteKey(i, r, at)
  <2>1. \/ UNCHANGED pages
        \/ WriteCell(IndexPage(i), 0, IF KeysOf(i) = Junk THEN Junk ELSE Tree(Minus(KeysOf(i)[2], r, at)))
    BY <1>2 DEF deleteKey, Rekey, Minus
  <2> QED BY <2>1, TreeWritesAreWrites
<1> QED BY <1>1, <1>2

LEMMA SavesAreSaves ==
  ASSUME StoreTyped, NEW p \in PageIds, Save(p)
  PROVE  Store!Next
<1>1. cur' = cur /\ \A q \in PageIds : durable'[q] = cur[q] \/ durable'[q] = durable[q]
  BY DEF Save, StoreTyped, PagesTyped
<1>2. Store!Save
  BY <1>1 DEF Store!Save, Store!SomeSaved, Store!Settles
<1> QED BY <1>2 DEF Store!Next

LEMMA SelectsOnlyLoad ==
  ASSUME StoreTyped, NEW i, Select(i)
  PROVE  Store!Next
<1>1. PICK ps : cur' = Load(ps)
  BY DEF Select
<1>2. durable' = durable
  BY DEF Select
<1>3. ASSUME NEW p \in PageIds PROVE Store!Settles(cur[p], cur'[p])
  <2>1. cur'[p] = Loaded(p) \/ cur'[p] = cur[p]
    BY <1>1 DEF Load
  <2> QED BY <2>1 DEF Loaded, Store!Settles
<1>4. Store!Save
  BY <1>2, <1>3 DEF Store!Save, Store!SomeSaved, Store!Settles
<1> QED BY <1>4 DEF Store!Next

LEMMA StatementsWrite ==
  ASSUME IInv, IInv', NEW i \in DOMAIN tables,
         \/ \E type \in IndexTypes : CreateIndex(i, type)
         \/ \E v \in Insertable : InsertRow(i, v)
         \/ \E at \in Removable : DeleteKey(i, at)
  PROVE  Store!Next \/ UNCHANGED pages
<1>1. /\ StoreTyped /\ StoreTyped' /\ ShownTyped(Shown(cur)) /\ MaxRows \in Nat /\ i \in Places
  BY TablesInPlaces, DatabaseAssumption DEF IInv, StoreTyped
<1>2. ASSUME NEW type \in IndexTypes, CreateIndex(i, type) PROVE Store!Next \/ UNCHANGED pages
  <2>1. WriteCell(IndexPage(i), 0, Tree(EntriesOf(<<>>, 0))) \/ UNCHANGED pages
    BY <1>2 DEF CreateIndex
  <2> QED BY <1>1, <2>1, TreeWritesAreWrites
<1>3. ASSUME NEW v \in Insertable, InsertRow(i, v) PROVE Store!Next
  <2>1. get_size(i) < MaxRows /\ WriteSlot(i, get_size(i) + 1, Row(v)) /\ get_size(i) \in 0 .. MaxRows
    BY <1>1, <1>3, ReadsShow, RowsShown DEF InsertRow
  <2>2. PICK s \in Slots : s = get_size(i) + 1
    BY <1>1, <2>1 DEF Slots
  <2>3. PICK x \in Contents : x = Row(v)
    BY DatabaseAssumption DEF Contents, Stored
  <2> QED BY <1>1, <2>1, <2>2, <2>3, SlotWritesAreWrites
<1>4. ASSUME NEW at \in Removable, DeleteKey(i, at) PROVE Store!Next \/ UNCHANGED pages
  BY <1>1, <1>4, KeysAreWrites DEF DeleteKey
<1> QED BY <1>2, <1>3, <1>4

LEMMA CallsWrite ==
  ASSUME IInv, IInv',
         \/ IndexRow \/ InsertKey \/ InsertSize
         \/ DeleteMove \/ DeleteUnkey \/ DeleteRekey \/ DeletePop
         \/ UpdateUnkey \/ (\E v \in Settable : UpdateKey(v)) \/ UpdateStore
  PROVE  Store!Next \/ UNCHANGED pages
<1>1. /\ StoreTyped /\ StoreTyped' /\ ShownTyped(Shown(cur)) /\ MaxRows \in Nat
  BY DatabaseAssumption DEF IInv, StoreTyped
<1>2. 0 \in Slots /\ \A n \in 0 .. MaxRows : Count(n) \in Contents
  BY <1>1 DEF Slots, Contents
<1>3. ASSUME call # Idle PROVE call.i \in Places
  BY <1>3, CallKnown, TablesInPlaces DEF IInv
<1>4. CASE IndexRow
  BY <1>1, <1>3, <1>4, CallOps, KeysAreWrites DEF IndexRow
<1>5. CASE InsertKey
  BY <1>1, <1>3, <1>5, CallOps, KeysAreWrites DEF InsertKey
<1>6. CASE DeleteUnkey
  BY <1>1, <1>3, <1>6, CallOps, KeysAreWrites DEF DeleteUnkey
<1>7. CASE DeleteRekey
  BY <1>1, <1>3, <1>7, CallOps, KeysAreWrites DEF DeleteRekey
<1>8. CASE UpdateUnkey
  BY <1>1, <1>3, <1>8, CallOps, KeysAreWrites DEF UpdateUnkey
<1>9. CASE \E v \in Settable : UpdateKey(v)
  BY <1>1, <1>3, <1>9, CallOps, KeysAreWrites DEF UpdateKey
<1>10. CASE InsertSize
  <2>1. call.i \in Places /\ call.at \in Pos /\ WriteSlot(call.i, 0, Count(call.at + 1))
    BY <1>3, <1>10, CallOps DEF InsertSize, Inserting
  <2>2. call.at + 1 \in 0 .. MaxRows
    BY <1>1, <2>1 DEF Pos
  <2> QED BY <1>1, <1>2, <2>1, <2>2, SlotWritesAreWrites
<1>11. CASE DeleteMove
  <2>1. call.i \in Places /\ call.at \in Pos /\ TailRow \in Stored
    BY <1>11, DeletesKnow DEF DeleteMove
  <2>2. PICK s \in Slots : s = call.at + 1
    BY <1>1, <2>1 DEF Pos, Slots
  <2>3. PICK x \in Contents : x = TailRow
    BY <2>1 DEF Contents
  <2> QED BY <1>1, <1>11, <2>1, <2>2, <2>3, SlotWritesAreWrites DEF DeleteMove
<1>12. CASE DeletePop
  <2>1. call.i \in Places
    BY <1>3, <1>12, CallOps DEF DeletePop
  <2>2. get_size(call.i) \in 0 .. MaxRows
    BY <1>1, <2>1, ReadsShow, RowsShown
  <2>3. get_size(call.i) > 0 => get_size(call.i) - 1 \in 0 .. MaxRows
    BY <1>1, <2>2
  <2>4. UNCHANGED pages \/ (get_size(call.i) > 0 /\ WriteSlot(call.i, 0, Count(get_size(call.i) - 1)))
    BY <1>12 DEF DeletePop
  <2> QED BY <1>1, <1>2, <2>1, <2>3, <2>4, SlotWritesAreWrites
<1>13. CASE UpdateStore
  <2>1. call.i \in Places /\ call.at \in Pos /\ call.row \in Stored
    BY <1>13, UpdatesKnow DEF UpdateStore
  <2>2. PICK s \in Slots : s = call.at + 1
    BY <1>1, <2>1 DEF Pos, Slots
  <2>3. PICK x \in Contents : x = call.row
    BY <2>1 DEF Contents
  <2> QED BY <1>1, <1>13, <2>1, <2>2, <2>3, SlotWritesAreWrites DEF UpdateStore
<1> QED BY <1>4, <1>5, <1>6, <1>7, <1>8, <1>9, <1>10, <1>11, <1>12, <1>13

LEMMA StepsAreStoreSteps == IInv /\ IInv' /\ [Next]_vars => [Store!Next]_(Store!storeVars)
<1> SUFFICES ASSUME IInv, IInv', [Next]_vars
             PROVE  Store!Next \/ UNCHANGED pages
  BY DEF pages, Store!storeVars
<1>1. StoreTyped
  BY DEF IInv
<1>2. CASE \/ UNCHANGED vars \/ Start \/ BeginClose \/ WriteMeta \/ EndClose
           \/ IndexEnd \/ UpdateFail
  BY <1>2 DEF vars, Start, BeginClose, WriteMeta, EndClose, IndexEnd, UpdateFail
<1>3. CASE Crash
  <2>1. Store!Crash
    BY <1>3 DEF Crash, Store!Crash
  <2> QED BY <2>1 DEF Store!Next
<1>4. CASE \E p \in PageIds : Save(p)
  BY <1>1, <1>4, SavesAreSaves
<1>5. CASE \E n \in Names : CreateTable(n)
  <2>1. PICK i \in Places : i = Len(tables) + 1 /\ WriteSlot(i, 0, Count(0))
    BY <1>5 DEF CreateTable
  <2>2. 0 \in Slots /\ Count(0) \in Contents /\ StoreTyped'
    BY DatabaseAssumption DEF Slots, Contents, IInv
  <2> QED BY <1>1, <2>1, <2>2, SlotWritesAreWrites
<1>6. CASE \E i \in DOMAIN tables :
             \/ Select(i)
             \/ \E at \in Updatable : UpdateFetch(i, at)
  BY <1>1, <1>6, SelectsOnlyLoad DEF UpdateFetch
<1>7. CASE \E i \in DOMAIN tables :
             \/ \E type \in IndexTypes : CreateIndex(i, type)
             \/ \E v \in Insertable : InsertRow(i, v)
             \/ \E at \in Removable : DeleteKey(i, at)
  BY <1>7, StatementsWrite
<1>8. CASE \/ IndexRow \/ InsertKey \/ InsertSize
           \/ DeleteMove \/ DeleteUnkey \/ DeleteRekey \/ DeletePop
           \/ UpdateUnkey \/ (\E v \in Settable : UpdateKey(v)) \/ UpdateStore
  BY <1>8, CallsWrite
<1> QED BY <1>2, <1>3, <1>4, <1>5, <1>6, <1>7, <1>8 DEF Next

(* The statements, exits, deaths and restarts do to pages what a caller of  *)
(* the page store may do, the store that the buffer pool is shown to keep   *)
(* (PoolImplementsStore).                                                   *)
THEOREM StatementsUseStore == Spec => PagesAreStore
<1>1. Init => Store!Init
  BY DEF Init
<1> QED BY <1>1, StepsAreStoreSteps, Invariant, PTL DEF Spec, PagesAreStore, Store!Spec
=============================================================================
