------------------------------- MODULE Database -------------------------------
(***************************************************************************)
(* The database from start to exit, or to its death, and the next start:   *)
(* the catalogue and db.meta (db.cpp, metadata.h), the statements of        *)
(* queryprocessor.cpp that make tables, indexes and rows and change them,   *)
(* and the pages they live in, as PageStore keeps them.                    *)
(*                                                                         *)
(* The file of a table goes by the table's place in the catalogue.  It is  *)
(* a row of slots: the number of rows, then the rows; two slots are a page. *)
(* Tables have one column.  Its index file is one page, a bag of entries    *)
(* that finds all it holds; BTreeIndex says how far larger ones do.         *)
(*                                                                         *)
(* Each call that changes a page is a step: a statement can die between any *)
(* two of them.  DELETE and UPDATE are followed row by row: one that works  *)
(* on several rows is as many statements here.                              *)
(***************************************************************************)
EXTENDS Integers, Sequences, SequencesExt

CONSTANTS
  Names,       \* the names of tables
  Vals,        \* what a row can hold
  MaxTables,   \* bound: tables of a catalogue
  MaxRows,     \* bound: rows of a table
  MaxCopies,   \* bound: how often an index holds an entry
  Removable,   \* bound: the places DELETE takes rows from
  Insertable,  \* bound: the rows INSERT adds
  Updatable,   \* bound: the places UPDATE rewrites rows in
  Settable,    \* bound: the values it sets
  IndexTypes,  \* bound: the types CREATE INDEX is run with
  Missing      \* there is no db.meta

Kinds      == {"NOINDEX", "TREEINDEX"}
Catalogues == UNION {[1 .. n -> [name : Names, kind : Kinds]] : n \in 0 .. MaxTables}

ASSUME DatabaseAssumption ==
  /\ MaxTables \in Nat \ {0}
  /\ MaxRows \in Nat \ {0}
  /\ MaxCopies \in Nat \ {0}
  /\ Removable \subseteq 0 .. MaxRows - 1
  /\ Insertable \subseteq Vals
  /\ Updatable \subseteq 0 .. MaxRows - 1
  /\ Settable \subseteq Vals
  /\ IndexTypes \subseteq Kinds
  /\ Missing \notin Catalogues

Places == 1 .. MaxTables
Pos    == 0 .. MaxRows - 1

Cells   == {0, 1}
PageIds == {<<"table", i, n>> : i \in Places, n \in 0 .. MaxRows \div 2}
             \cup {<<"index", i, 0>> : i \in Places}

Absent  == <<"absent">>
Junk    == <<"junk">>            \* bytes nobody wrote in this place
Count(n)      == <<"count", n>>
Row(v)        == <<"row", v>>
Tree(entries) == <<"tree", entries>>

(* What a slot for a row can hold, and how often a tree holds each entry.   *)
Stored == {Row(v) : v \in Vals} \cup {Junk}
Trees  == {Tree(e) : e \in [Stored \X Pos -> 0 .. MaxCopies]}

Contents == Stored \cup {Count(n) : n \in 0 .. MaxRows} \cup Trees

VARIABLES
  phase,       \* "off", "run", and in ~DB "opened" and "flush"
  meta,        \* db.meta: for each table its name and the kind of its index
  tables,      \* the tables in memory: meta, and the IndexFile if there is one
  call,        \* the statement that is running
  cur,         \* PageStore
  durable,
  log,         \* history: the rows that statements have put in each table
  base,        \* history: the tables this process found, and then leaves, with their
               \* rows, none for those that a DELETE has worked on
  changed,     \* history: the places any statement has worked on in this process
  written,     \* history: what UPDATEs have stored in the places of those rows
  died,        \* history: the phase the last process ended in, "off" after an exit
  stale        \* history: the places whose index may be out of step

pages == <<cur, durable>>
past  == <<log, base, changed, written, died, stale>>
vars  == <<phase, meta, tables, call, pages, past>>

Store == INSTANCE PageStore WITH Vals <- Contents

Idle == [op |-> "idle"]
None == "none"    \* get_file() == 0

-----------------------------------------------------------------------------
(* The slots of a file. *)
TablePage(i, slot) == <<"table", i, slot \div 2>>
IndexPage(i)       == <<"index", i, 0>>
PagesOf(i)         == {p \in PageIds : p[2] = i}

(* The pages as reads find them.  A file that is missing is created with a  *)
(* zero in front; past the end of a file a page keeps what the frame held.   *)
Loaded(p) ==
  [c \in Cells |->
     IF cur[p][c] # Absent THEN cur[p][c]
     ELSE IF p[1] = "table" /\ p[3] = 0 /\ c = 0 THEN Count(0) ELSE Junk]

Slot(i, slot) == Loaded(TablePage(i, slot))[slot % 2]

get_size(i) == Slot(i, 0)[2]
get(i, pos) == Slot(i, pos + 1)
Rows(i)     == [n \in 1 .. get_size(i) |-> get(i, n - 1)]

(* The entries of the first n rows: each once. *)
EntriesOf(rows, n) ==
  [e \in Stored \X Pos |-> IF e[2] < n /\ rows[e[2] + 1] = e[1] THEN 1 ELSE 0]

Entries(i) == EntriesOf(Rows(i), get_size(i))

Load(ps) == [p \in PageIds |-> IF p \in ps THEN Loaded(p) ELSE cur[p]]

(* A mutant of WriteCell: the page is not loaded before. *)
WriteCellAlone(p, c, x) ==
  /\ cur' = [cur EXCEPT ![p] = [d \in Cells |-> IF d = c THEN x ELSE Junk]]
  /\ UNCHANGED durable

(* A write loads its page too. *)
WriteCell(p, c, x) ==
  /\ cur' = [cur EXCEPT ![p] = [Loaded(p) EXCEPT ![c] = x]]
  /\ UNCHANGED durable

WriteSlot(i, slot, x) == WriteCell(TablePage(i, slot), slot % 2, x)

(* get_file(), which makes the IndexFile when there is none, by the kind of *)
(* index in the catalogue.                                                  *)
FileOf(i) == IF tables[i].file = None THEN tables[i].kind ELSE tables[i].file

KeysOf(i) == Loaded(IndexPage(i))[0]

(* The positions that DELETE and UPDATE get from a search: the rows of the  *)
(* table, when they scan it, and what the index holds.                      *)
Selected(i, at) ==
  \/ at < get_size(i)
  \/ /\ FileOf(i) = "TREEINDEX"
     /\ KeysOf(i) # Junk => \E r \in Stored : KeysOf(i)[2][<<r, at>>] > 0

(* Index::addKey and deleteKey.  What becomes of an index file whose page   *)
(* nobody wrote stays open.                                                 *)
Rekey(i, change(_)) ==
  IF FileOf(i) = "TREEINDEX"
  THEN WriteCell(IndexPage(i), 0, IF KeysOf(i) = Junk THEN Junk ELSE Tree(change(KeysOf(i)[2])))
  ELSE UNCHANGED pages

addKey(i, r, at) ==
  /\ FileOf(i) = "TREEINDEX" /\ KeysOf(i) # Junk => KeysOf(i)[2][<<r, at>>] < MaxCopies
  /\ Rekey(i, LAMBDA e : [e EXCEPT ![<<r, at>>] = @ + 1])

deleteKey(i, r, at) ==
  Rekey(i, LAMBDA e : IF at \in Pos /\ e[<<r, at>>] > 0 THEN [e EXCEPT ![<<r, at>>] = @ - 1] ELSE e)

-----------------------------------------------------------------------------
(* Start and exit. *)

Init ==
  /\ phase = "off" /\ meta = Missing
  /\ tables = <<>> /\ call = Idle
  /\ Store!Init
  /\ log = <<>> /\ base = <<>>
  /\ changed = {} /\ written = {} /\ stale = {}
  /\ died = "off"

Catalogue(ts) == [i \in DOMAIN ts |-> [name |-> ts[i].name, kind |-> ts[i].kind]]

Found(ts) == [i \in DOMAIN ts |-> [name |-> ts[i].name, kind |-> ts[i].kind, rows |-> Rows(i)]]

read == IF meta = Missing THEN <<>>
        ELSE [i \in DOMAIN meta |-> [name |-> meta[i].name, kind |-> meta[i].kind, file |-> None]]

(* DB::DB.  What the process finds is what statements go on from. *)
Start ==
  /\ phase = "off"
  /\ phase' = "run"
  /\ tables' = read
  /\ meta' = IF meta = Missing THEN <<>> ELSE meta
  /\ base' = Found(read)
  /\ log' = [i \in DOMAIN read |-> Rows(i)]
  /\ changed' = {} /\ written' = {} /\ died' = "off"
  /\ UNCHANGED <<call, pages, stale>>

Running == phase = "run" /\ call = Idle

(* "exit", and DB::~DB: db.meta is emptied when it is opened, *)
BeginClose ==
  /\ Running
  /\ phase' = "opened"
  /\ meta' = <<>>
  /\ UNCHANGED <<tables, call, pages, past>>

(* A mutant of WriteMeta: the kinds of the indexes are not printed. *)
WriteMetaNoKinds ==
  /\ phase = "opened"
  /\ phase' = "flush"
  /\ meta' = [i \in DOMAIN tables |-> [name |-> tables[i].name, kind |-> "NOINDEX"]]
  /\ UNCHANGED <<tables, call, pages, past>>

(* written, *)
WriteMeta ==
  /\ phase = "opened"
  /\ phase' = "flush"
  /\ meta' = Catalogue(tables)
  /\ UNCHANGED <<tables, call, pages, past>>

(* History: what statements have left. *)
Left == [i \in DOMAIN tables |-> [name |-> tables[i].name, kind |-> tables[i].kind, rows |-> log[i]]]

(* A mutant of EndClose: the buffer is not deleted. *)
EndCloseUnflushed ==
  /\ phase = "flush"
  /\ phase' = "off"
  /\ tables' = <<>>
  /\ cur' = durable
  /\ base' = Left
  /\ UNCHANGED <<meta, call, durable, log, changed, written, died, stale>>

(* and then the pages that are still to be saved are. *)
EndClose ==
  /\ phase = "flush"
  /\ durable = cur
  /\ phase' = "off"
  /\ tables' = <<>>
  /\ base' = Left
  /\ UNCHANGED <<meta, call, pages, log, changed, written, died, stale>>

(* Evicted or flushed. *)
Save(p) ==
  /\ phase # "off"
  /\ durable[p] # cur[p]
  /\ durable' = [durable EXCEPT ![p] = cur[p]]
  /\ UNCHANGED <<phase, meta, tables, call, cur, past>>

(* Indexes are pages of their own: those of a changed table may be older or *)
(* newer than the rows that are left.                                       *)
Crash ==
  /\ phase # "off"
  /\ phase' = "off"
  /\ tables' = <<>> /\ call' = Idle
  /\ cur' = durable
  /\ died' = phase
  /\ stale' = stale \cup changed
  /\ UNCHANGED <<meta, durable, log, base, changed, written>>

-----------------------------------------------------------------------------
(* Statements. *)

exist_table(n) == \E i \in DOMAIN tables : tables[i].name = n

WithFile(i) == [tables EXCEPT ![i].file = FileOf(i)]

Table(n, file) == [name |-> n, kind |-> "NOINDEX", file |-> file]

(* A mutant of CreateTable: the number of rows is not written. *)
CreateTableNoHeader(n) ==
  LET i == Len(tables) + 1
  IN  /\ Running
      /\ ~exist_table(n) /\ i \in Places
      /\ tables' = Append(tables, Table(n, "NOINDEX"))
      /\ log' = Append(log, <<>>)
      /\ changed' = changed \cup {i} /\ stale' = stale \ {i}
      /\ UNCHANGED <<phase, meta, call, pages, base, written, died>>

(* CREATE TABLE, over the file a lost table may have left. *)
CreateTable(n) ==
  LET i == Len(tables) + 1
  IN  /\ Running
      /\ ~exist_table(n) /\ i \in Places
      /\ tables' = Append(tables, Table(n, "NOINDEX"))
      /\ WriteSlot(i, 0, Count(0))
      /\ log' = Append(log, <<>>)
      /\ changed' = changed \cup {i} /\ stale' = stale \ {i}
      /\ UNCHANGED <<phase, meta, call, base, written, died>>

(* A mutant of CreateIndex: the catalogue learns of it, the file does not. *)
CreateIndexInCatalogue(i, type) ==
  /\ Running
  /\ tables' = [WithFile(i) EXCEPT ![i].kind = type]
  /\ IF type = "TREEINDEX"
     THEN /\ WriteCell(IndexPage(i), 0, Tree(EntriesOf(<<>>, 0)))
          /\ call' = [op |-> "index", i |-> i, next |-> 0]
          /\ changed' = changed \cup {i}
     ELSE UNCHANGED <<pages, call, changed>>
  /\ UNCHANGED <<phase, meta, log, base, written, died, stale>>

(* CREATE INDEX: the tree is emptied and then gets the rows, one by one.     *)
(* Without BTREE or HASH the type is -1, which is no index.                  *)
CreateIndex(i, type) ==
  /\ Running
  /\ tables' = [tables EXCEPT ![i].kind = type, ![i].file = type]
  /\ IF type = "TREEINDEX"
     THEN /\ WriteCell(IndexPage(i), 0, Tree(EntriesOf(<<>>, 0)))
          /\ call' = [op |-> "index", i |-> i, next |-> 0]
          /\ changed' = changed \cup {i}
     ELSE UNCHANGED <<pages, call, changed>>
  /\ UNCHANGED <<phase, meta, log, base, written, died, stale>>

IndexRow ==
  /\ call.op = "index" /\ call.next < get_size(call.i)
  /\ addKey(call.i, get(call.i, call.next), call.next)
  /\ call' = [call EXCEPT !.next = @ + 1]
  /\ UNCHANGED <<phase, meta, tables, past>>

IndexEnd ==
  /\ call.op = "index" /\ call.next = get_size(call.i)
  /\ call' = Idle
  /\ stale' = stale \ {call.i}
  /\ UNCHANGED <<phase, meta, tables, pages, log, base, changed, written, died>>

Select(i) ==
  /\ Running
  /\ tables' = WithFile(i)
  /\ cur' = Load({p \in PagesOf(i) : p[1] = "index" => FileOf(i) = "TREEINDEX"})
  /\ UNCHANGED <<phase, meta, call, durable, past>>

(* A mutant of InsertRow: TABLE_HEADER_SIZE is not added. *)
InsertRowOverHeader(i, v) ==
  /\ Running
  /\ get_size(i) < MaxRows
  /\ WriteSlot(i, get_size(i), Row(v))
  /\ tables' = WithFile(i)
  /\ call' = [op |-> "insert", i |-> i, at |-> get_size(i), row |-> Row(v)]
  /\ changed' = changed \cup {i}
  /\ UNCHANGED <<phase, meta, log, base, written, died, stale>>

(* INSERT: the row, then its key, then the number of rows. *)
InsertRow(i, v) ==
  /\ Running
  /\ get_size(i) < MaxRows
  /\ WriteSlot(i, get_size(i) + 1, Row(v))
  /\ tables' = WithFile(i)
  /\ call' = [op |-> "insert", i |-> i, at |-> get_size(i), row |-> Row(v)]
  /\ changed' = changed \cup {i}
  /\ UNCHANGED <<phase, meta, log, base, written, died, stale>>

InsertKey ==
  /\ call.op = "insert"
  /\ addKey(call.i, call.row, call.at)
  /\ call' = [call EXCEPT !.op = "inserted"]
  /\ UNCHANGED <<phase, meta, tables, past>>

InsertSize ==
  /\ call.op = "inserted"
  /\ WriteSlot(call.i, 0, Count(call.at + 1))
  /\ call' = Idle
  /\ log' = [log EXCEPT ![call.i] = Append(@, call.row)]
  /\ UNCHANGED <<phase, meta, tables, base, changed, written, died, stale>>

(* DELETE, for one row that its search returns, an entry of an index that is *)
(* out of step included: the key is removed,                                 *)
DeleteKey(i, at) ==
  /\ Running
  /\ Selected(i, at)
  /\ deleteKey(i, get(i, at), at)
  /\ tables' = WithFile(i)
  /\ call' = [op |-> "delete", i |-> i, at |-> at, tail |-> get_size(i) - 1]
  /\ changed' = changed \cup {i}
  /\ base' = IF i \in DOMAIN base THEN [base EXCEPT ![i].rows = <<>>] ELSE base
  /\ written' = {w \in written : w[1] # i}
  /\ UNCHANGED <<phase, meta, log, died, stale>>

Put(rows, n, r) == IF n \in DOMAIN rows THEN [rows EXCEPT ![n] = r] ELSE rows

(* get(filesize - 1): with no row left, bytes from far behind the file.      *)
TailRow == IF call.tail \in Pos THEN get(call.i, call.tail) ELSE Junk

(* the last row takes its place, *)
DeleteMove ==
  /\ call.op = "delete"
  /\ WriteSlot(call.i, call.at + 1, TailRow)
  /\ call' = [call EXCEPT !.op = "moved"]
  /\ UNCHANGED <<phase, meta, tables, past>>

(* its key follows, *)
DeleteUnkey ==
  /\ call.op = "moved"
  /\ deleteKey(call.i, TailRow, call.tail)
  /\ call' = [call EXCEPT !.op = "unfiled"]
  /\ UNCHANGED <<phase, meta, tables, past>>

(* History: a last row that is deleted has got its key back. *)
DeleteRekey ==
  /\ call.op = "unfiled"
  /\ addKey(call.i, TailRow, call.at)
  /\ stale' = IF FileOf(call.i) = "TREEINDEX" /\ call.at >= call.tail
              THEN stale \cup {call.i} ELSE stale
  /\ call' = [call EXCEPT !.op = "rekeyed"]
  /\ UNCHANGED <<phase, meta, tables, log, base, changed, written, died>>

FilledByLast(rows, n) == Front(Put(rows, n, Last(rows)))

(* and the number of rows goes down. *)
DeletePop ==
  /\ call.op = "rekeyed"
  /\ IF get_size(call.i) > 0
     THEN /\ WriteSlot(call.i, 0, Count(get_size(call.i) - 1))
          /\ log' = [log EXCEPT ![call.i] = FilledByLast(@, call.at + 1)]
     ELSE UNCHANGED <<pages, log>>
  /\ call' = Idle
  /\ UNCHANGED <<phase, meta, tables, base, changed, written, died, stale>>

(* UPDATE, for one row that its search returns:                              *)
UpdateFetch(i, at) ==
  /\ Running
  /\ Selected(i, at)
  /\ tables' = WithFile(i)
  /\ call' = [op |-> "update", i |-> i, at |-> at, row |-> get(i, at)]
  /\ UNCHANGED <<phase, meta, pages, past>>

(* for each item of the SET list, the key of the old value is removed,       *)
UpdateUnkey ==
  /\ call.op = "update"
  /\ deleteKey(call.i, call.row, call.at)
  /\ call' = [call EXCEPT !.op = "unkeyed"]
  /\ changed' = changed \cup {call.i}
  /\ UNCHANGED <<phase, meta, tables, log, base, written, died, stale>>

(* that of the new one added;                                                *)
UpdateKey(v) ==
  /\ call.op = "unkeyed"
  /\ addKey(call.i, Row(v), call.at)
  /\ call' = [call EXCEPT !.op = "update", !.row = Row(v)]
  /\ UNCHANGED <<phase, meta, tables, past>>

(* a column that does not exist ends it here, with the row as it was;        *)
UpdateFail ==
  /\ call.op = "update"
  /\ call' = Idle
  /\ stale' = IF FileOf(call.i) = "TREEINDEX" /\ call.row # get(call.i, call.at)
              THEN stale \cup {call.i} ELSE stale
  /\ UNCHANGED <<phase, meta, tables, pages, log, base, changed, written, died>>

(* then the row is rewritten in its place.                                   *)
UpdateStore ==
  /\ call.op = "update"
  /\ WriteSlot(call.i, call.at + 1, call.row)
  /\ call' = Idle
  /\ changed' = changed \cup {call.i}
  /\ written' = IF call.i \in DOMAIN base /\ call.at < Len(base[call.i].rows)
                THEN written \cup {<<call.i, call.at + 1, call.row>>} ELSE written
  /\ log' = [log EXCEPT ![call.i] = Put(@, call.at + 1, call.row)]
  /\ UNCHANGED <<phase, meta, tables, base, died, stale>>

Next ==
  \/ Start \/ BeginClose \/ WriteMeta \/ EndClose \/ Crash
  \/ \E p \in PageIds : Save(p)
  \/ \E n \in Names : CreateTable(n)
  \/ \E i \in DOMAIN tables :
       \/ \E type \in IndexTypes : CreateIndex(i, type)
       \/ Select(i)
       \/ \E v \in Insertable : InsertRow(i, v)
       \/ \E at \in Removable : DeleteKey(i, at)
       \/ \E at \in Updatable : UpdateFetch(i, at)
  \/ IndexRow \/ IndexEnd
  \/ InsertKey \/ InsertSize
  \/ DeleteMove \/ DeleteUnkey \/ DeleteRekey \/ DeletePop
  \/ UpdateUnkey \/ (\E v \in Settable : UpdateKey(v)) \/ UpdateFail \/ UpdateStore

Spec == Init /\ [][Next]_vars

-----------------------------------------------------------------------------
(* Properties. *)

TypeOK ==
  /\ phase \in {"off", "run", "opened", "flush"}
  /\ meta \in {Missing} \cup Catalogues
  /\ tables \in UNION {[1 .. n -> [name : Names, kind : Kinds, file : Kinds \cup {None}]] :
                         n \in 0 .. MaxTables}
  /\ \A i \in Places : Slot(i, 0) \in {Count(n) : n \in 0 .. MaxRows}
  /\ died \in {"off", "run", "opened", "flush"}
  /\ changed \cup stale \subseteq Places
  /\ written \subseteq Places \X (1 .. MaxRows) \X Stored

(* Between statements a table shows the rows that statements have put in    *)
(* it, in this process, and in those before it up to the last crash;        *)
(* a new table shows none, whatever a lost table has left in its file.      *)
AllThere ==
  call = Idle /\ phase # "off" => \A i \in DOMAIN tables : Rows(i) = log[i]

(* The index that a table has, after restarts as well, holds its rows, each *)
(* once, unless the table was changed before a crash, a DELETE has taken    *)
(* its last row or an UPDATE has failed half way, and CREATE INDEX has not   *)
(* been run on it since.                                                    *)
IndexAgrees ==
  call = Idle =>
    \A i \in DOMAIN tables \ stale :
      tables[i].kind = "TREEINDEX" => KeysOf(i) = Tree(Entries(i))

(* Table i begins with the rows the process before found in it, each as it  *)
(* was or as an UPDATE has stored it.                                       *)
Extends(i) ==
  /\ Len(Rows(i)) >= Len(base[i].rows)
  /\ \A n \in DOMAIN base[i].rows :
       Rows(i)[n] = base[i].rows[n] \/ <<i, n, Rows(i)[n]>> \in written

(* What a process finds: after an exit, the tables with the rows and the    *)
(* indexes that statements have left; after a death while statements ran,   *)
(* the tables that the process before had found, each with the rows it had  *)
(* then or that UPDATE has put in their places (but for the tables that a   *)
(* DELETE was busy with); after a death while pages were flushed, those     *)
(* among the tables of that process; after one with db.meta open, no table. *)
Finds ==
  CASE died = "off"    -> Found(read) = base
    [] died = "run"    -> /\ Catalogue(read) = Catalogue(base)
                          /\ \A i \in DOMAIN base : Extends(i)
    [] died = "flush"  -> /\ Len(read) = Len(log)
                          /\ \A i \in DOMAIN base : read[i].name = base[i].name /\ Extends(i)
    [] died = "opened" -> read = <<>>

NextProcessFinds == phase = "off" => Finds

(* The pages the statements see are those of the page store.                *)
PagesAreStore == Store!Spec
=============================================================================
