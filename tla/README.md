# A verification project for chss-db

chss-db is a small single-user relational database in C++: a shell reads
statements, a parser turns them into query objects, a query processor runs them
on table files and B-tree index files, and a buffer manager keeps the pages of
all files in a fixed number of frames. This directory holds TLA+ models of its
core, TLC configurations that check them, and TLAPS proofs.

## 1. Inventory

| component | code | state | operations |
|---|---|---|---|
| Buffer pool | `buffer/buffermanager.cpp` | frames, two page tables, priorities and the queue over them, open files | `read`, `write`, destructor |
| Disk manager | `buffer/diskmanager.cpp` | one `FILE*` per file | open or create, `read`, `write` |
| B-tree index | `buffer/btreeindex.cpp` | pages of one file; header in page 0; iterator path | `createIndex`, `addKey`, `findKey`, `deleteKey`, `hasNextRecord` |
| Table file | `buffer/indexfile.cpp`, `noindex.cpp` | row count and records, one index object per column | `create`, `add`, `get`, `set`, `pop_back`, `createIndex`, `select`, `update`, `update_position`, `remove` |
| Query processor | `query/queryprocessor.cpp` | the running statement | CREATE TABLE, CREATE INDEX, INSERT, SELECT, DELETE, UPDATE |
| Catalogue, lifecycle | `db.cpp`, `metadata.h` | tables, columns, index kinds; `db.meta` | load at start, save at exit |
| Parser | `query/parser.cpp`, `query.hpp` | text, position, lexeme, error flag | `parse` |
| Records | `buffer/record.cpp`, `signature.cpp` | the bytes of a record, offsets of its fields | `set`, `get` |
| Hash index | `buffer/hashindex.cpp` | bucket lists in a file | not reachable: `parser.cpp:416` maps `hash` to the tree |
| Shell | `dbshell.cpp`, `main.cpp` | none | read, run, print |
| Unused | `heapfile.cpp`, `index.cpp`, `selectalldatareader.*`, empty `query.cpp`, `Btree.cpp` | | |

**How they interact.** Everything is synchronous calls on one thread: shell →
parser → query processor → `IndexFile` → `Index` → `BufferManager` →
`DiskManager`. The state shared between components is the set of pages in the
pool. An iterator returned by `select` stays alive while UPDATE changes rows and
the indexes of other columns. `BTreeVertex` objects are copies of a page that
write themselves back when they are destroyed, several of them at a time.

**What is hard here.** Not threads, but: the order in which copies of a page are
read and written; hand-kept inverse maps and a priority queue with a wrapping
counter; reads and writes that return short and whose result nobody looks at;
loops with off-by-one bounds in the B-tree; an iterator that keeps a reference
into a vector it grows; statements that re-run their own search after every row;
index and table changed in turn, with an early return between; data that reaches
the disk by eviction or at a clean exit only.

**What makes each part correct.**

* *Buffer pool*: a page is in at most one frame; a read returns the last write;
  loading, evicting, growing and closing lose nothing; what is on disk is, page
  by page, a whole content the page once had; the replaced frame is the least
  recently used; a frame to replace always exists.
* *B-tree*: one balanced tree that uses every allocated page; every entry added is
  in exactly one leaf; separators divide; searches are sound, complete, finite;
  a removal removes its entry; no array overrun, no uninitialised key compared.
* *Table and statements*: SELECT through an index returns what a scan returns;
  DELETE and UPDATE touch exactly the rows that match, reply with their number,
  and come to a reply.
* *Catalogue*: after a clean exit the next process finds every table with its
  rows and indexes; after a crash, what remains is known.
* *Records*: a field reads back what was put in it, whatever happens to its
  neighbours.
* *Parser*: a statement that is accepted means what its text says; one that is
  refused says why; every parse ends.

`PROJECT.json` lists the hazards of the code line by line, with the properties
that watch each of them.

## 2. Modules

| module | models |
|---|---|
| `PageStore` | abstract: pages with a current and a durable content |
| `BufferPool` | `BufferManager` over `DiskManager`; refines `PageStore` |
| `BufferPoolHistory` | `BufferPool` with the order of use, kept until `max_priority` wraps |
| `BTreeIndex` | `BTreeindex`, `BTreeVertex`, `BTreeIterator` over whole trees |
| `BTreePage` | the bytes of one page of a VARCHAR index, read with types of several lengths |
| `TableFile` | the bytes of records, and records over page borders |
| `QueryProcessor` | INSERT, CREATE INDEX, DELETE, UPDATE, SELECT on one table |
| `Database` | catalogue, start, exit and death, statements as sequences of page writes; on `PageStore` |
| `Parser` | `nextsym`, `accept` and the `p_` functions, from a text to a query object |
| `BufferPoolProofs` | theorems about the pool and about its order of replacement |
| `BTreeIndexProofs` | theorems about the tree: entries, levels, separators, what searches find |
| `BTreePageProofs` | what an index page keeps of its items |
| `TableFileProofs` | what a table file keeps of its rows |
| `QueryProcessorProofs` | theorems about indexes, and about what DELETE and UPDATE have done |
| `DatabaseProofs` | theorems about the catalogue and the lifecycle |
| `ParserProofs` | theorems about the parser |
| `CommonLemmas` | facts about numbers and sequences that several proofs use |
| `MCBufferPool`, `MCBTreeIndex`, `MCBTreePage`, `MCTableFile`, `MCQueryProcessor` | constants for TLC |

The parts meet in two places. `Database` works on pages that behave as
`PageStore`: the run `database_tables` checks that, and `PoolImplementsStore`
proves that the pool gives such pages. `QueryProcessor` takes rows as functions
and trees as bags: `TableFile` says when a row is what was put in it, `BTreeIndex`
and `BTreePage` when a tree finds what it holds.

An operator whose name or comment says *mutant* is a plausible wrong version of
the definition after it. No specification uses it; each property is shown to
fail when it takes the place of the original.

### BufferPool

Control variables keep the C++ names; a `std::map` is a total function whose
missing keys go to `NoFrame` or `NoPage`. Data is counted in cells of four bytes.
`Read` and `Write` are the two public calls, each with the whole of
`get_address`: `Hit` or `Miss`, the latter with write-back of the evicted page,
opening of the file and the (possibly short) read. Bytes past the end of a file
are `Absent`; a short read leaves the old cells of the frame, and a write past
the end leaves a hole of zeros. `max_priority` is taken modulo `PriorityMod`.
The destructor is `BeginClose`, one `FlushFrame` per frame, `EndClose`; `Crash`
may come between any two steps, and the next process starts on the files left.

`PageStore` is what callers may rely on. A cell nobody wrote may take any value
once; after that only writes and crashes change it. Any step may save any pages,
each as a whole; a crash takes every page back to what was saved.

### BTreeIndex

`page[u]` is what a `BTreeVertex` reads: `root` and `total` (used in page 0 only),
`isleaf`, and `data`, whose length is `size`. `BTree_split_child` keeps the order in which
the copies of parent, page 0, child and new vertex are read and
written. `BTree_insert_nonfull` is one step per level (`InsertBelow`,
`InsertLeaf`); `hasNextRecord` is one step per iteration of its outer loop
(`FoundEntry`, `Descend`, `Ascend`). `call` is the running call with the
iterator's path and the capacity of the vector that holds it: when `push_back`
moves that vector, the comparison that follows reads freed memory and both
outcomes are possible. Keys are of a fixed-size type; a page read is coherent,
which is what `PoolImplementsStore` proves of the pool.

`addKey` does not ask whether the index has the entry, and its callers do add one
twice: the DELETE of a last row leaves its entry behind (`queryprocessor.cpp:166`), and the
INSERT that fills the position again adds it once more. The items of a leaf
therefore carry a number, `copy`, that tells equal entries apart. It is a history:
no step of the program reads it, and `AddRow` has no guard but the bound `CopiesOf` on how
many copies a row may have at a time, which is any set of numbers in the proofs.

Two more histories: `entries`, the entries added and not removed, and `skewed`, set
when a split promotes the separator of an inner vertex (`btreeindex.cpp:282` takes
`t1`, not `t1 - 1`) or has three right siblings whose separators line 279
moves a second time.

### BTreePage

An item is a row number and a key of as many bytes as the type says the vertex
was made with. `Vertex(len)` is the constructor of `BTreeVertex`, `WriteBack` its
destructor, which writes the page anew whether it was changed or not. SELECT
gives its literal the length of the column (`queryprocessor.cpp:75`); DELETE and
UPDATE do not, and `deleteKey` takes a key from a record, which has lost the zeros
at its end. A search with a shorter type cuts the keys of the page. A key that is longer than its type is copied whole
(`btreeindex.cpp:57`); what is past its slot lies under the next item or behind the last
one, where nobody reads it (and, on a page that is full, behind the buffer, which is
left out). `spoiled`
is that moment, told beforehand by `Harmful` from the two lengths alone; the model
stops there.

### TableFile

`set` and `get` are those of `Record`, `Reach` is how far `BufferManager::read` and
`write` come before the end of the page, and `Insert`, `Update`, `Delete` are what
`IndexFile::add`, `set` and `update_position` with `pop_back` do to the bytes.
UPDATE checks no type: `Under` is the set of fields that a value of another type
is written over, kept in `spoiled`.

### QueryProcessor

One table. `row` is the file, records past the end included; `index[c]` is a bag
of `<<key, position>>`, because the code can add an entry twice. DELETE is one
step per iteration of its loop (`DeleteRow`); UPDATE is `Fetch`, one `Assign` per
SET item, `Store`, with the reader and the variable `column` as in the code,
including the return in the middle when a column does not exist. `damage` is the
set of columns whose index has gone out of step, by a DELETE of the last row or
an UPDATE that failed half way; CREATE INDEX takes a column out of it. Statements
that return before changing anything are no step.

The index here finds everything it holds. The B-tree does so only while
`skewed` and `skipped` (below) are false; the composition of both is not checked.

### Database

`phase` goes from `off` to `run` with `DB::DB`; `DB::~DB` is `BeginClose` (db.meta is
opened and so emptied), `WriteMeta`, and the destructor of the pool: `Save` of pages one
by one, and `EndClose` once none is left. `Save` happens at any other time too, as
evictions do. `Crash` may come between any two steps; the next process
starts from `meta` and the durable pages.

A statement is a sequence of steps, each one call that changes a page, and may die between
any two. INSERT: row, key, number of rows. CREATE INDEX: the root is emptied
(`CreateIndex`), then the rows are added one by one (`IndexRow`, `IndexEnd`). A round of DELETE:
key, move of the last row, its old key, its new key, number of rows. A round of
UPDATE: `UpdateFetch`, for each item of the SET list `UpdateUnkey` and `UpdateKey`, then
`UpdateStore`, or `UpdateFail` when a column does not exist (`queryprocessor.cpp:213`). DELETE and
UPDATE over several rows are several statements here; which rows they come to is
the business of `QueryProcessor`. `Selected` says which positions a search may return:
the rows of the table, and whatever the index holds, so that the rounds of DELETE and UPDATE on
a stale entry, also one behind the end of the table, are there. An index is a bag of
entries, since one may be added twice; `MaxCopies` bounds how often.

`tables[i].kind` is the index kind in the catalogue and `tables[i].file` the one in
the objects of the `IndexFile`, which is made on demand. File `i` belongs to the place of a table in the
catalogue, so a table may be created over the file of one that was lost.
These histories carry the properties: `log`, the rows that statements have left in
each table; `base`, the tables as a process found them or left them; `changed`, the places
this process has worked on; `written`, what UPDATE has stored in the places of the rows of `base`;
`died`, where the last process ended; `stale`, the places whose index may be out of
step: after a death in a process that had worked on the table, a DELETE of the last row, or an
UPDATE that failed after it had changed a key.

### Parser

A text is a sequence of pieces, chosen as `nextsym` comes to them. The members of
`Parser` keep their names; `todo` holds the calls of the recursive descent that are
still to come, so a step is one call of `accept`, one turn of a loop or one
`if`. `hasErrors` stops `accept` and nothing else, as in the code. `outcome` is
`query`, `null`, `abort` (the assertion of `DBDataType`) or `out of range` (INSERT
with more columns than values, `parser.cpp:233`). `ident` is set by every word,
keywords included; `negative` is set by a minus sign and cleared by a number; the
integer part of a number wraps at `IntMod`, and so does the negation of an `int`, while a
double is made from that integer part and negated as a double.

## 3. Runs

| run | configuration | question |
|---|---|---|
| `pool` | 1 file, 3 pages, 2 frames, priorities mod 8 | is the pool the page store, and least recently used until the wrap, under evictions, close, crash? |
| `pool_cells` | 2 files of 2 pages of 2 cells, 1 frame, mod 3 | the same store with partial and cut writes, holes, short reads |
| `btree` | pages of 4, 6 rows, keys shared by rows, the entry of row 0 up to twice, CREATE INDEX again after 5 rows, fair | search and removal with equal keys on both sides of separators, and of doubled entries; every call returns |
| `btree_split` | pages of 5, 7 or 10 of 18 rows loaded, the others added in any order | leaf and inner splits to three levels, no overrun, separators |
| `btree_page` | a page of 13 bytes, a column of 2, texts of 0 to 5 | which searches leave the items of a page alone |
| `table_file` | 3 records of 5 bytes on pages of 10 | what each field reads back when the second record straddles |
| `indexed` | 2 columns, 2 values, 3 rows, both columns can be indexed, fair | SELECT by index = by scan; DELETE and UPDATE exact and finite; repair by CREATE INDEX |
| `delete_reply` | one indexable column | violation: the reply of DELETE counts a row that did not match |
| `database` | 1 table, 2 rows of 2 values, an index; INSERT, DELETE at 0, UPDATE at 1 | what the next process finds, rows and index, after an exit and after a death inside any statement |
| `database_tables` | 2 tables of 1 row of 2 values; INSERT, DELETE, UPDATE | the same with two names; pages behave as `PageStore` |
| `parser` | texts of up to 12 symbols, fair | does an accepted statement carry what was read, and is a refusal told? |
| `parser_lengths` | texts of up to 9 symbols | violation: the parser makes a type longer than `DBDataType` asserts |

Deadlock checking is off where the modelled program stops: `btree_page` (at
`spoiled`) and the two parser runs (after `parse` has returned).

**Why the bounds are enough.** A pool needs more pages than frames and a modulus
just above the number of frames for every wrap to collide; one frame is the
extreme of sharing. A page of the tree holds at least 15 items in the program;
what matters is full or not, `t1 = capacity / 2`, and the number of right siblings
of a split child. Capacity 5 is the least at which line 279 moves a
separator that is compared. Loading part of the rows through `createIndex`, in
ascending order, is how the program itself builds an index, and makes
those trees reachable. Three rows are a row that matches, one that does not, and
the tail. Records of `TableFile` are one that ends before the border, one with a
field before it, one across it and one behind it, and one on the next page. The page of
`BTreePage` holds three items of the column's length, six with the length of an
empty key and one with the longest literal. In `Database` two
slots are a page, so that the number of rows and the first row share one, and the
second row has its own. INSERT adds the one value and UPDATE sets the other: a row
tells by its value who wrote it last. DELETE takes the first row, which is the last one
when there is no other, and UPDATE rewrites the second, which no page shares with the number of
rows; with `MaxCopies` 1 an insertion that would double an entry is not
followed, and doubled entries are left to `btree` and to the proofs, which hold for every
`MaxCopies`. Twelve symbols hold every statement with
one or two items in each list; with `IntMod = 16` and `MaxLength = 3` the numbers 0, 2
and 8 are a length that makes no VARCHAR, one that fits, and a number that overflows,
whose negation is the least `int`; `parser_lengths` has 5, which is only too long.

Named bounds: `MaxVertices` with `Room` and `RoomToSplit`, `TableSizes`, `Recreations`, `Sought`,
`Removed`, `CopiesOf`, the rows and keys of `MCBTreeIndex`; `MaxRows`, `Indexable`, `SetLists`,
and `Ready`, which starts no statement on rows while an index is out of step, in
`QueryProcessor`; `MaxTables`, `MaxRows`, `MaxCopies`, `Removable`, `Insertable`, `Updatable`, `Settable`, `IndexTypes` in
`Database`;
`MaxRows`, `Literals`, `ValueLists` in `TableFile`, where a value also ends within its
record; `MaxPieces` in `Parser`; one leaf that is never split in `BTreePage`.

**What the runs show about the code.**

* The pool does what its callers need, after the wrap too, where only the order of
  replacement is lost.
* The tree keeps every entry, but a search misses entries in two ways, which
  `SearchComplete` and `DeleteEffective` name as their provisos: `skewed` separators,
  and `skipped`, a child pushed and popped unseen because `current_position` equals
  `size` (the last child, `btreeindex.cpp:106`). A tree of two leaves is enough
  for the second.
* An entry that was added twice is returned twice, and `deleteKey` removes one of the
  two (`btreeindex.cpp:201`); no entry is returned more often than it was added
  (`SearchSound`), and a removal never takes more than the one (`DeleteEffective`).
* On tables without an index DELETE and UPDATE are exact. With one, DELETE of the
  last row re-adds a stale entry (`queryprocessor.cpp:166`); `delete_reply` ends
  in a reply that counts one row too many.
* A DELETE or UPDATE whose literal, or whose row, has another length than the
  VARCHAR column spoils the page of the index it looks at; `ItemsKept` holds
  until then and says which lengths are safe.
* A record across a page border keeps the part before the border; what
  starts behind it reads as zero or empty, whatever was inserted (`CutAway`). UPDATE
  with a value of another type writes over the fields behind.
* After a clean exit the next process finds everything. After a death while
  statements run it finds the tables of the start of that process, with at least
  the rows they had then; rows added since may be there or not, and only as far as
  the number of rows was saved (`NextProcessFinds`). After a death while db.meta is
  open it finds no table at all. A table created over a lost one starts empty. A row of
  the start may also show what an UPDATE of the dead process has stored in its place. The
  index of a table agrees with its rows, also after restarts (`IndexAgrees`), but in three
  cases, each until CREATE INDEX is run again: a death of a process that had worked on the
  table, also in the middle of CREATE INDEX; a DELETE of the last row; an UPDATE that failed
  half way, which leaves the index out of step after a clean exit too.
* The parser drops the WHERE of an UPDATE when no name follows it, and runs on all
  rows (`ConditionKept` names this one case); INSERT with more columns than
  values reads past the end; with more values than columns it is refused
  without a message (`RefusedWithMessage`); `varchar(300)`, or a text of 256
  characters, fails an assertion (`parser_lengths`).

**Fairness.** Weak fairness of `Step`, the continuation of a call that has started:
the program has one thread and no waiting, so a started call, a statement or a
parse runs on. New calls are never forced. `StatementsReply` excepts
`KeepsMatching`, the UPDATE that leaves every row matching its condition and, in
the code, never ends.

**Environment assumptions.** `fwrite` of a whole page reaches the file when it
returns, so `Crash` is the death of the process between two library calls and
pages are not torn (glibc writes whole blocks through). db.meta is shorter than
the buffer of its `ofstream`, so one write makes it whole. Files are changed
by this process only. Page numbers stay below 2^20.

## 4. Proofs

Every theorem below is about all values of the constants that satisfy the named
assumption of its module; TLC has checked each inductive invariant on a
small instance before it was proved (of `Depths`, which says that there is a function,
the distances from the root). Only the least fixpoint `Below` is
beyond what TLC can enumerate. The theorems state every safety invariant, every action
property and every refinement that the passing runs check; what is left to the
runs is liveness.

### The pool

`BufferPoolProofs`, for every number of frames, pages and cells and every modulus
above the number of frames (`SizesAssumption`, `SentinelsAssumption`):

* `TypeCorrect`: `Spec => []TypeOK`;
* `TablesStayInverse`: `Spec => []PageTablesInverse`, inductive together with `TypeOK`;
* `AlwaysAVictim`: `Spec => []VictimAvailable`: the last lines of `get_address` leave
  the frame in the queue under `max_priority`, whatever they overwrite;
* `CloseFlushes`: `Spec => []FlushedAtClose`. It is not inductive; the strengthening
  `FlushedSoFar` says that frames behind the flush loop agree with the disk.
  A later write-back may grow the same file, which does no harm because a frame
  never holds `Absent` (`TypeOK`) and no two frames hold one page;
* `PoolImplementsStore`: `Spec => Store!Spec`. `MissOnDisk` and `LookupViews` say,
  page by page, what a lookup does to disk and views; `StepsImplementStore` maps
  every action to one of the store or to a stutter.

`get_address` picks the front of the queue by `IsFront`, a guard, so none of these
depends on the queue being in order of use.

The end of the same module, under the same assumptions, is about `HSpec` of
`BufferPoolHistory`:

* `FramesStayQueued`: `HSpec => []FramesQueuedOnce`;
* `RecentPagesStay`: `HSpec => []RecentPagesCached`: until the wrap the pool is least
  recently used.

The invariant is in terms of `QueuedAt(a)`, the priority under which frame `a` is
queued (that of the constructor until it is first used). `QueueOK`: before the
wrap `m_queue` and `QueuedAt` are inverse. `RecentOK`: the pages of `recent` are in
memory, in the order of the queue (`InOrder`), and in front of every other frame
(`Ahead`). `Ahead` is what makes it inductive: the frame at the front of the queue
then belongs to none of the first `m_pages - 1` pages of `recent`, because a later
one would be further in front, and with fewer pages than frames there is a frame
to spare (`SpareFrame`, which counts frames) that is. `HistoryIsPool` shows that the
history adds nothing to what the pool does, so the theorems above apply.

### The tree

`BTreeIndexProofs`, for every capacity of at least 4, every number of pages, all
keys and rows (`BTreeAssumption`):

* `TypeCorrect`: `Spec => []TypeOK`;
* `EntriesAreKept`: `Spec => []EntriesKept`: splits, growth and removal lose and
  double nothing;
* `InsertsFindRoom`: `Spec => []InsertHasRoom`: no overrun of a page;
* `JunkIsLast`: `Spec => []JunkUnread`: no comparison reads what a split left unset;
* `SearchesAreSound`: `Spec => []SearchSound`: what a search returns is among the entries of
  its key, and no more often than it is there;
* `TreeIsOne`: `Spec => []OneTree`: every allocated page but the root is the child of
  one slot and is reached from the root, and all leaves are on one level.

None of these needs a separator to be right, which is why they hold although splits
misplace some. `Tree` says of the pages what a split must keep: every vertex but the
root hangs from at most one slot (`ChildOnce`), every entry is in one slot of a leaf
(`EntryOnce`), only the last slot of an inner vertex may lack its key (`InnerOK`);
`Kept` ties the leaves to the history `entries`. A search that returns nothing twice
needs more: `Visited` says that there is a set of vertices it has been to, each
entered from its one slot, and that neither those slots nor the entries found lie
ahead of the positions on the path (`Passed`). That an entry is in one slot, although callers
add equal ones, is what `copy` is for: `addKey` takes a number no entry of the row
has (`AddKeyItem`), and two items of the tree with the same key and row are
different entries. The copies that
`BTree_split_child` reads and writes back are followed one by one, to
the page they leave.

`TreeIsOne` adds `Balanced`: every vertex but the root hangs from a slot (`Hung`), and
there is a function that gives each vertex a depth, one more than that of the vertex
above it, and the same to every leaf (`Depths`). The actions change pages in few ways
(`PageStep`): items of a leaf, a new root, one split, or none; each keeps a tree
balanced. That a vertex's level, as `OneTree` computes it, is its depth is shown by
a least counterexample (`LevelIs`).

The second part of the module builds on that invariant:

* `SearchesAreComplete`: `Spec => []SearchComplete`;
* `DeletesTakeEffect`: `Spec => []DeleteEffective`: a removal takes exactly one entry of its row,
  if there is one, and nothing else (`OneTaken`);
* `SeparatorsAreRight`: `Spec => []SeparatorsDivide`.

Here separators matter, as long as no split has skewed them. Such a tree is `Flat`:
its root is a leaf, or all other vertices are leaves below the root, because the split
of an inner vertex, the only way to a third level, skews. The split of a leaf writes
the separators right when its parent has at most two children to the right of it, which is
what `skewed` says (`ParentKeys`). `Complete` is the invariant of a search: every entry
of its key has been found or is still ahead of the path (`ToCome`). An insertion in
progress is at the right leaf or at the root (`InsertFlat`). `SeparatorsDivide` speaks of
`Below`, the items under a vertex, which is the solution of an equation: the least one
exists because the slots of inner pages, in use or not, lead to pages (`Pointers`),
and every solution gives a leaf its own items (`BelowLeaf`).

### The page of an index

`BTreePageProofs`, for every page size, length of the column and length of the constants
(`PageAssumption`):

* `ItemsAreKept`: `Spec => []ItemsKept`.

The invariant says where the bytes are (`Filed`): the first `size` items lie one after
the other, each as long as a row number and a key of the column, zeros behind a
shorter text. `WriteBackLays` and `VertexIs` say what is written and read with a length,
`StrippedExactly` that a text without zeros comes back from its padding. `SameBytes`
is the step that was worth proving: a vertex made with *any* length and written back with
the same one leaves every byte of its items as it was, whatever the borders it
sees between them, since zeros that are stripped are padded again. Hence a search with
a longer constant does no harm until fewer items fit the page, and one with a
shorter constant does harm only by the bytes it does not reach, which is `Harmful`.

### Rows in the table file

`TableFileProofs`, for every signature, page size, header, number of rows and
constants (`LayoutAssumption`: sizes are not zero, and a constant of type INT or DOUBLE
has the size of its type):

* `RowsReadBack`: `Spec => []ReadBack`;
* `TailsAreLost`: `Spec => []CutAway`.

`Offset` is the recursion of the constructor of `Signature`; that there is such a
function is `Iteration` of `CommonLemmas`, shown by a least counterexample, as is `Ascending`,
which is all the rest needs of it: fields do not overlap (`Apart`) and end within the record
(`Within`). `GetStored` is the round trip of one field, padding and all; `SetStores` and
`SetLeaves` say what `set` does to a field and to its neighbours, also when the value has
another type than the column; `RecordIs` follows the loop of INSERT; `RowsApart` and
`RecordWritten` are about the file: a record that is cut at the end of a page
leaves every other record alone.

### Statements

`QueryProcessorProofs`, for every set of columns and values, every table size
and every list of assignments (`TableAssumption`, `NoCondAssumption`):

* `TypeCorrect`: `Spec => []TypeOK`;
* `IndexedSelectIsExact`: `Spec => []SelectExact`.

Neither is inductive: during an UPDATE the trees already hold the keys of a row
that is not stored yet. The invariant `IInv` therefore compares the trees with
`Current`, the table as it will be once that row is stored: `InStep` says that every
tree outside `damage` holds exactly the keys of `Current`, once each. `QueryOK`
adds what a step must know of the running statement: `damage` is nothing or every
tree in a DELETE, and nothing in an UPDATE that goes on; the row an UPDATE works on,
and what is left in its reader, lie within the table. The last fact is what
`CREATE INDEX` cannot disturb, because it does not run inside a statement.
`DeletedKey` and `AddedKey` say what a removal and an addition do to a tree, entry by
entry; `MovedEntries` (DELETE) and `RekeyedRow` (SET) put them together; there is one
step lemma per action.

Two theorems build on that invariant (`SInv == IInv /\ DeleteOK /\ UpdateOK`):

* `DeleteDoesWhatItSays`: `Spec => []DeleteExact`. The loop moves the last row into each
  gap, so rows cannot be followed by position: `DeleteOK` counts, for every row value
  that does not match, its copies, and ties `cnt` to the rows that have gone;
* `UpdateDoesWhatItSays`: `Spec => []UpdateExact`. UPDATE starts its search over when an
  index it has changed is the one it reads; a row may match again after it was
  changed. `RowsOK`: every row is as at the start or has all its assignments;
  `RecordOK`: the copy in hand has those made so far; `ReaderOK`: a row the reader has
  behind it is done. Where an index is out of step the statement does not start
  (`Ready`, a named bound).

### Catalogue and lifecycle

`DatabaseProofs`, for every number of tables and rows (`DatabaseAssumption`; that `Missing`
is no catalogue is what tells an absent db.meta from an empty one):

* `TypeCorrect`: `Spec => []TypeOK`;
* `RowsAreThere`: `Spec => []AllThere`;
* `IndexesAgree`: `Spec => []IndexAgrees`;
* `RestartsFind`: `Spec => []NextProcessFinds`;
* `StatementsUseStore`: `Spec => PagesAreStore`, the refinement of `PageStore`. With
  `PoolImplementsStore` the two meet: what is assumed of pages here is what the pool
  is proved to give.

The proof sees pages through `Shown` (the slots of a table file) and `Keys` (the
bag in an index file), of the current pages and of the durable ones. `IInv` has these
parts. `Typed`, `StoreTyped`: types of the catalogue and of the slots. `CallOK`: what the running
statement knows of its table. `LogOK` and `IndexOK`: the rows a table shows are `RowsNow`, and the
index of a table that is not `stale` holds `EntriesNow`: what `log` has, put right for the step the
running statement is at, since a row and its key are written by different calls.
`Quiet`: with no process memory is what the disk holds. `OnDisk`:
what no statement of this process changed is on disk already, so a death cannot take
it back. `MetaOK` and `MetaIndexOK`: what db.meta says and which of its indexes the next
process can trust. `BaseOK`: a table that had rows at the start of the process still
begins with them, on disk too, each as it was or as `written` says, unless rows were
deleted. A `Save` is any set of slots moved to the disk, so one lemma covers
every order of evictions; `WorksKeep` says that a step of a statement
keeps all of this if it does what its own table asks for: there is one lemma for each.
A round of DELETE on a stale entry, at or behind the
end of the table, and with no row left at all, has its own cases (`TailRow`,
`DeletePop`).

### Parser

`ParserProofs`, for all names, constants and number widths and texts of any length
(`ParserAssumption`; `JunkAssumption`: a type or constant that was never set is none
that can be read):

* `TypeCorrect`: `Spec => []TypeOK`;
* `SignsAreTaken`: `Spec => []SignNotPending`;
* `ConditionsAreKept`: `Spec => []ConditionKept`;
* `RefusalsAreTold`: `Spec => []RefusedWithMessage`;
* `AtomsAreKept`: `Spec => []AtomsKept`.

The first four are facts about the end of a parse; the invariant is about its middle. `Plan`:
the calls to come end with exactly one call that ends the parse, and
after some of them the next one is known (`FollowedBy`). `Serves`: which kind of query each call
finds, so that a call of UPDATE never meets the object of an INSERT. `WhereOK`: when a WHERE
has been read, the condition is in the query or is about to be taken, with the one
exception of UPDATE. `RefusedOK`: the one error without a message is found right
before the end. `LexOK`: what the lexer leaves behind after each piece; a
minus sign is only ever pending while no symbol has been made.

`AtomsAreKept` says that a query is what its text says, and needs the middle of a parse
in all its detail: `GInv`, inductive together with the invariant above. `Carried` is its
centre: the names and constants taken into the query so far (`Taken`) are
those of the pieces consumed so far, in the same order, unless one of these was a number that
overflowed or a length of 0 (`Lost`, the proviso of `AtomsKept`). It has one exception, a name that
was accepted and is about to be put into the query (`Held`: in `p_valueslist` and in the condition of
UPDATE). What is in a query is not the order in which it was filled, so appending an atom
to `Taken` is only right if what stands behind its field is still empty. `Rank` gives
every call its place in a statement, `Sorted` says that the calls to come are in that
order, and `Blank` that fields of a higher rank have not been set. `Expects` ties each call
to the query it finds (`Suits`, `Untyped`), `ValueDue` an assignment to its
value, `Named` every query to its table and its name, and `Ahead` the members of the lexer to the
last piece read. There is one lemma per action, and one per field that takes an
atom (`Brings`); the steps that take nothing share one. The
comparison of sequences rests on `FlattenSeq`, a recursive function of the library:
`FlatIs` shows that it is the sequence of its beginnings, by `Iteration`, and `FlatLonger`
and `BecomeNext` what one more element adds.

### What is only model-checked

* All liveness (`CallsReturn`, `StatementsReply`, `ParseReturns`): fairness is out of the
  prover's reach.
* The two violations (`delete_reply`, `parser_lengths`), which are behaviours that TLC finds.

## 5. Not modelled

* The hash index: no statement reaches it (`parser.cpp:416` gives `TREEINDEX` for
  HASH), and its `addKey` never stores the length of the list it lengthens.
* The shell beyond "one statement at a time until exit": reading lines (at the end of
  the input it reads empty lines for ever), printing, the signature of a reader
  (`FileIterator::getSignature` returns nothing, `queryprocessor.cpp:14`).
* `p_type` of the parser, `heapfile.cpp`, `index.cpp`, `selectalldatareader.*`: never called.
* DELETE with a column that does not exist: it selects through `indexes[-1]`, undefined
  from there on. CREATE INDEX with an empty list of columns: an uncaught exception,
  which is `Crash` of `Database`.
* A db.meta longer than the buffer of an `ofstream`, of which a death may leave a
  part; pages torn by the operating system.
* The composition of statements with the gaps in B-tree searches: the index in
  `QueryProcessor` finds everything it holds, which the tree does only while `skewed`
  and `skipped` are false.
* The bytes an over-long constant writes behind the buffer of a full page of a VARCHAR
  index (`btreeindex.cpp:57`).
* UPDATE and DELETE over several columns in `Database`, whose tables have one: the order of the
  columns' indexes is in `QueryProcessor`, where a death is not.
* Splits of pages of a VARCHAR index, since `BTreePage` is one leaf; sizes at which
  byte offsets overflow 32 bits; memory leaks; output.

## 6. Plan

1. *Done*: all modules of section 2; a theorem for every safety invariant, action property
   and refinement the runs check.
2. Still worth having: the statements over an index that misses what a tree misses while it is
   `skewed` or `skipped`, which would join `QueryProcessor` and `BTreeIndex`; the
   splits of pages of a VARCHAR index.
