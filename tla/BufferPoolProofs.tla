--------------------------- MODULE BufferPoolProofs ---------------------------
(***************************************************************************)
(* Theorems about BufferPool for every pool size, page size, number of     *)
(* pages and priority modulus.  They hold after max_priority has wrapped   *)
(* too: none of them needs the queue to be in order of use.  At the end,   *)
(* about BufferPoolHistory, what that order is until the wrap.             *)
(***************************************************************************)
EXTENDS BufferPoolHistory, CommonLemmas

USE SizesAssumption, SentinelsAssumption DEF Frames, Cells, Priorities

-----------------------------------------------------------------------------
(* Lemmas on the helpers. *)

(* uint32 arithmetic stays within a uint32. *)
LEMMA NextPriority ==
  ASSUME NEW n \in Priorities
  PROVE  (n + 1) % PriorityMod \in Priorities
OBVIOUS

(* A write-back leaves a disk of cells, some of them past the end of a file. *)
LEMMA WrittenBackType ==
  ASSUME TypeOK, NEW addr \in Frames
  PROVE  WrittenBack(addr) \in [PageIds -> [Cells -> Vals \cup {Absent}]]
BY DEF TypeOK, WrittenBack, Stored

(* Opening a file leaves a disk of cells. *)
LEMMA OpenedType ==
  ASSUME NEW image \in [PageIds -> [Cells -> Vals \cup {Absent}]],
         NEW f \in Files
  PROVE  Opened(image, f) \in [PageIds -> [Cells -> Vals \cup {Absent}]]
<1>1. <<f, 0>> \in PageIds /\ 0 \in Cells
  BY DEF PageIds
<1> QED BY <1>1 DEF Opened

(* A frame never holds a cell from past the end of a file. *)
LEMMA LoadedType ==
  ASSUME TypeOK, NEW p \in PageIds, NEW addr \in Frames
  PROVE  Loaded(p, addr) \in [Cells -> Vals]
<1>1. p[1] \in Files
  BY DEF PageIds
<1>2. m_buffer[addr] \in [Cells -> Vals]
  BY DEF TypeOK
<1>3. Opened(WrittenBack(addr), p[1]) \in [PageIds -> [Cells -> Vals \cup {Absent}]]
  BY <1>1, WrittenBackType, OpenedType
<1>4. ReadInto(m_buffer[addr], Opened(WrittenBack(addr), p[1]), p) \in [Cells -> Vals]
  BY <1>2, <1>3 DEF ReadInto
<1> QED BY <1>2, <1>4 DEF Loaded

(* Touching a frame keeps the types of the queue and leaves the frame in it. *)
LEMMA TouchQueues ==
  ASSUME TypeOK, NEW addr \in Frames,
         NEW queue \in [Priorities -> Frames \cup {NoFrame}],
         Touch(queue, addr)
  PROVE  /\ max_priority' \in Priorities
         /\ m_priority' \in [Frames -> Priorities]
         /\ m_queue' \in [Priorities -> Frames \cup {NoFrame}]
         /\ m_queue'[max_priority'] = addr
<1> DEFINE next == (max_priority + 1) % PriorityMod
<1>1. next \in Priorities
  BY NextPriority DEF TypeOK
<1>2. m_priority \in [Frames -> Priorities]
  BY DEF TypeOK
<1>3. /\ max_priority' = next
      /\ m_priority' = [m_priority EXCEPT ![addr] = next]
      /\ m_queue' = [[queue EXCEPT ![m_priority[addr]] = NoFrame] EXCEPT ![next] = addr]
  BY DEF Touch
<1> HIDE DEF next
<1> QED BY <1>1, <1>2, <1>3

(* What every lookup does to the tables, whichever case it takes. *)
LEMMA GetAddressTypes ==
  ASSUME TypeOK, NEW p \in PageIds, NEW addr \in Frames, GetAddress(p, addr)
  PROVE  /\ m_addr_to_page' \in [Frames -> PageIds \cup {NoPage}]
         /\ m_page_to_addr' \in [PageIds -> Frames \cup {NoFrame}]
         /\ m_priority' \in [Frames -> Priorities]
         /\ m_queue' \in [Priorities -> Frames \cup {NoFrame}]
         /\ max_priority' \in Priorities
         /\ m_disk_managers' \in SUBSET Files
         /\ disk' \in [PageIds -> [Cells -> Vals \cup {Absent}]]
         /\ m_queue'[max_priority'] = addr
<1>0. m_queue \in [Priorities -> Frames \cup {NoFrame}]
  BY DEF TypeOK
<1>1. CASE Hit(p, addr)
  <2>1. Touch(m_queue, addr)
    BY <1>1 DEF Hit
  <2>2. /\ max_priority' \in Priorities
        /\ m_priority' \in [Frames -> Priorities]
        /\ m_queue' \in [Priorities -> Frames \cup {NoFrame}]
        /\ m_queue'[max_priority'] = addr
    BY <1>0, <2>1, TouchQueues
  <2> QED BY <1>1, <2>2 DEF Hit, TypeOK, mapVars
<1>2. CASE Miss(p, addr)
  <2>1. PICK k \in Priorities : Touch([m_queue EXCEPT ![k] = NoFrame], addr)
    BY <1>2 DEF Miss
  <2>2. [m_queue EXCEPT ![k] = NoFrame] \in [Priorities -> Frames \cup {NoFrame}]
    BY <1>0
  <2>3. /\ max_priority' \in Priorities
        /\ m_priority' \in [Frames -> Priorities]
        /\ m_queue' \in [Priorities -> Frames \cup {NoFrame}]
        /\ m_queue'[max_priority'] = addr
    BY <2>1, <2>2, TouchQueues
  <2>4. p[1] \in Files
    BY DEF PageIds
  <2>5. disk' \in [PageIds -> [Cells -> Vals \cup {Absent}]]
    BY <1>2, <2>4, WrittenBackType, OpenedType DEF Miss
  <2>6. /\ m_addr_to_page' \in [Frames -> PageIds \cup {NoPage}]
        /\ m_page_to_addr' \in [PageIds -> Frames \cup {NoFrame}]
        /\ m_disk_managers' \in SUBSET Files
    BY <1>2, <2>4 DEF Miss, TypeOK
  <2> QED BY <2>3, <2>5, <2>6
<1> QED BY <1>1, <1>2 DEF GetAddress

(* A new pool has the types of a pool and a queue that holds frame 0. *)
LEMMA FreshPool ==
  /\ NewBuffer \in [Frames -> [Cells -> Vals]]
  /\ NoPages \in [Frames -> PageIds \cup {NoPage}]
  /\ NoAddrs \in [PageIds -> Frames \cup {NoFrame}]
  /\ NoUse \in [Frames -> Priorities]
  /\ NewQueue \in [Priorities -> Frames \cup {NoFrame}]
  /\ m_pages \in Priorities
  /\ 1 \in Priorities /\ NewQueue[1] # NoFrame
BY DEF NewBuffer, NoPages, NoAddrs, NoUse, NewQueue

-----------------------------------------------------------------------------
(* The state of BufferManager is always well formed: frames hold whole      *)
(* values and never bytes from past the end of a file, frame numbers and    *)
(* priorities stay in range even when the uint32 counter wraps.             *)
THEOREM TypeCorrect == Spec => []TypeOK
<1>1. Init => TypeOK
  BY FreshPool DEF Init, TypeOK
<1>2. TypeOK /\ [Next]_vars => TypeOK'
  <2> SUFFICES ASSUME TypeOK, [Next]_vars PROVE TypeOK'
    OBVIOUS
  <2>1. CASE \E p \in PageIds : Read(p)
    <3>1. PICK p \in PageIds : Read(p)
      BY <2>1
    <3>2. PICK addr \in Frames :
            /\ GetAddress(p, addr)
            /\ m_buffer' = [m_buffer EXCEPT ![addr] = Loaded(p, addr)]
      BY <3>1 DEF Read
    <3>3. m_buffer' \in [Frames -> [Cells -> Vals]]
      BY <3>2, LoadedType DEF TypeOK
    <3>4. dtor' = dtor
      BY <3>1 DEF Read
    <3> QED BY <3>2, <3>3, <3>4, GetAddressTypes DEF TypeOK
  <2>2. CASE \E p \in PageIds, offset \in Cells, size \in 1 .. PageCells, v \in Vals :
               Write(p, offset, size, v)
    <3>1. PICK p \in PageIds, offset \in Cells, size \in 1 .. PageCells, v \in Vals :
               Write(p, offset, size, v)
      BY <2>2
    <3>2. PICK addr \in Frames :
            /\ GetAddress(p, addr)
            /\ m_buffer' = [m_buffer EXCEPT ![addr] =
                 [c \in Cells |-> IF c \in Written(offset, size) THEN v
                                  ELSE Loaded(p, addr)[c]]]
      BY <3>1 DEF Write
    <3>3. m_buffer' \in [Frames -> [Cells -> Vals]]
      <4>1. Loaded(p, addr) \in [Cells -> Vals]
        BY <3>2, LoadedType
      <4>2. PICK new : new = [c \in Cells |-> IF c \in Written(offset, size) THEN v
                                              ELSE Loaded(p, addr)[c]]
        OBVIOUS
      <4>3. new \in [Cells -> Vals]
        BY <4>1, <4>2
      <4>4. m_buffer' = [m_buffer EXCEPT ![addr] = new]
        BY <3>2, <4>2
      <4> QED BY <4>3, <4>4 DEF TypeOK
    <3>4. dtor' = dtor
      BY <3>1 DEF Write
    <3> QED BY <3>2, <3>3, <3>4, GetAddressTypes DEF TypeOK
  <2>3. CASE BeginClose
    BY <2>3 DEF BeginClose, TypeOK, mapVars
  <2>4. CASE FlushFrame
    <3>1. disk' \in [PageIds -> [Cells -> Vals \cup {Absent}]]
      BY <2>4, WrittenBackType DEF FlushFrame
    <3>2. dtor' \in 0 .. m_pages
      BY <2>4 DEF FlushFrame, TypeOK
    <3> QED BY <2>4, <3>1, <3>2 DEF FlushFrame, TypeOK, mapVars
  <2>5. CASE Restart
    BY <2>5, FreshPool DEF Restart, TypeOK
  <2>6. CASE UNCHANGED vars
    BY <2>6 DEF TypeOK, vars
  <2> QED BY <2>1, <2>2, <2>3, <2>4, <2>5, <2>6 DEF Next, EndClose, Crash
<1> QED BY <1>1, <1>2, PTL DEF Spec

-----------------------------------------------------------------------------
(* A lookup keeps the two page tables inverse to each other: a hit does not *)
(* touch them, a miss takes the evicted page out and puts the new page in.  *)
LEMMA LookupKeepsTables ==
  ASSUME TypeOK, PageTablesInverse,
         NEW p \in PageIds, NEW addr \in Frames, GetAddress(p, addr)
  PROVE  PageTablesInverse'
<1>1. CASE Hit(p, addr)
  BY <1>1 DEF Hit, PageTablesInverse, mapVars
<1>2. CASE Miss(p, addr)
  <2>1. m_page_to_addr[p] = NoFrame /\ NoFrame \notin Frames
    BY <1>2 DEF Miss, Cached
  <2>2. /\ m_page_to_addr' = [q \in PageIds |->
                                IF q = p THEN addr
                                ELSE IF q = m_addr_to_page[addr] THEN NoFrame
                                ELSE m_page_to_addr[q]]
        /\ m_addr_to_page' = [m_addr_to_page EXCEPT ![addr] = p]
    BY <1>2 DEF Miss
  <2>3. ASSUME NEW q \in PageIds, NEW a \in Frames
        PROVE  m_page_to_addr'[q] = a <=> m_addr_to_page'[a] = q
    <3>1. m_page_to_addr[q] = a <=> m_addr_to_page[a] = q
      BY DEF PageTablesInverse
    <3>2. m_page_to_addr[q] = addr <=> m_addr_to_page[addr] = q
      BY DEF PageTablesInverse
    <3>3. m_addr_to_page[a] # p
      BY <2>1 DEF PageTablesInverse
    <3>4. m_addr_to_page \in [Frames -> PageIds \cup {NoPage}]
      BY DEF TypeOK
    <3> QED BY <2>1, <2>2, <3>1, <3>2, <3>3, <3>4
  <2> QED BY <2>3 DEF PageTablesInverse
<1> QED BY <1>1, <1>2 DEF GetAddress

(* No page is ever in two frames and no frame serves two pages.             *)
THEOREM TablesStayInverse == Spec => []PageTablesInverse
<1>1. Init => PageTablesInverse
  BY DEF Init, PageTablesInverse, NoPages, NoAddrs
<1>2. TypeOK /\ PageTablesInverse /\ [Next]_vars => PageTablesInverse'
  <2> SUFFICES ASSUME TypeOK, PageTablesInverse, [Next]_vars
               PROVE  PageTablesInverse'
    OBVIOUS
  <2>1. CASE \E p \in PageIds : Read(p)
    BY <2>1, LookupKeepsTables DEF Read
  <2>2. CASE \E p \in PageIds, offset \in Cells, size \in 1 .. PageCells, v \in Vals :
               Write(p, offset, size, v)
    BY <2>2, LookupKeepsTables DEF Write
  <2>3. CASE BeginClose \/ FlushFrame
    BY <2>3 DEF BeginClose, FlushFrame, PageTablesInverse, mapVars
  <2>4. CASE Restart
    BY <2>4 DEF Restart, PageTablesInverse, NoPages, NoAddrs
  <2>5. CASE UNCHANGED vars
    BY <2>5 DEF PageTablesInverse, vars
  <2> QED BY <2>1, <2>2, <2>3, <2>4, <2>5 DEF Next, EndClose, Crash
<1> QED BY <1>1, <1>2, TypeCorrect, PTL DEF Spec

-----------------------------------------------------------------------------
(* get_address never takes begin() of an empty m_queue, wrapped or not.     *)
THEOREM AlwaysAVictim == Spec => []VictimAvailable
<1>1. Init => VictimAvailable
  BY FreshPool DEF Init, VictimAvailable
<1>2. TypeOK /\ VictimAvailable /\ [Next]_vars => VictimAvailable'
  <2> SUFFICES ASSUME TypeOK, VictimAvailable, [Next]_vars
               PROVE  VictimAvailable'
    OBVIOUS
  <2>1. ASSUME NEW p \in PageIds, NEW addr \in Frames, GetAddress(p, addr)
        PROVE  VictimAvailable'
    BY <2>1, GetAddressTypes DEF VictimAvailable
  <2>2. CASE \E p \in PageIds : Read(p)
    BY <2>1, <2>2 DEF Read
  <2>3. CASE \E p \in PageIds, offset \in Cells, size \in 1 .. PageCells, v \in Vals :
               Write(p, offset, size, v)
    BY <2>1, <2>3 DEF Write
  <2>4. CASE BeginClose \/ FlushFrame
    BY <2>4 DEF BeginClose, FlushFrame, VictimAvailable
  <2>5. CASE Restart
    BY <2>5, FreshPool DEF Restart, VictimAvailable
  <2>6. CASE UNCHANGED vars
    BY <2>6 DEF VictimAvailable, vars
  <2> QED BY <2>2, <2>3, <2>4, <2>5, <2>6 DEF Next, EndClose, Crash
<1> QED BY <1>1, <1>2, TypeCorrect, PTL DEF Spec

-----------------------------------------------------------------------------
(* What makes FlushedAtClose inductive: the frames behind the flush loop    *)
(* agree with the disk, and stay so although the write-back of a later      *)
(* frame may grow the same file.                                            *)
FlushedSoFar ==
  \A a \in Frames :
    dtor # NoFrame /\ a < dtor /\ m_addr_to_page[a] # NoPage
      => disk[m_addr_to_page[a]] = m_buffer[a]

(* After ~BufferManager every page on disk is what its last reader or       *)
(* writer saw.                                                              *)
THEOREM CloseFlushes == Spec => []FlushedAtClose
<1>1. Init => FlushedSoFar
  BY DEF Init, FlushedSoFar
<1>2. TypeOK /\ PageTablesInverse /\ FlushedSoFar /\ [Next]_vars => FlushedSoFar'
  <2> SUFFICES ASSUME TypeOK, PageTablesInverse, FlushedSoFar, [Next]_vars
               PROVE  FlushedSoFar'
    OBVIOUS
  <2>1. CASE \E p \in PageIds : Read(p)
    BY <2>1 DEF Read, FlushedSoFar
  <2>2. CASE \E p \in PageIds, offset \in Cells, size \in 1 .. PageCells, v \in Vals :
               Write(p, offset, size, v)
    BY <2>2 DEF Write, FlushedSoFar
  <2>3. CASE BeginClose
    BY <2>3 DEF BeginClose, FlushedSoFar
  <2>4. CASE FlushFrame
    <3> SUFFICES ASSUME NEW a \in Frames, a < dtor + 1, m_addr_to_page[a] # NoPage
                 PROVE  disk'[m_addr_to_page[a]] = m_buffer[a]
      BY <2>4 DEF FlushFrame, FlushedSoFar, mapVars
    <3>1. /\ m_addr_to_page \in [Frames -> PageIds \cup {NoPage}]
          /\ m_buffer[a] \in [Cells -> Vals]
          /\ dtor \in Frames /\ dtor # NoFrame
          /\ disk' = WrittenBack(dtor)
      BY <2>4 DEF FlushFrame, TypeOK
    <3>2. m_addr_to_page[a] \in PageIds
      BY <3>1
    <3>3. CASE a = dtor
      BY <3>1, <3>2, <3>3 DEF WrittenBack, Stored
    <3>4. CASE a < dtor
      <4>1. disk[m_addr_to_page[a]] = m_buffer[a]
        BY <3>1, <3>4 DEF FlushedSoFar
      <4>2. m_addr_to_page[a] # m_addr_to_page[dtor]
        BY <3>1, <3>2, <3>4 DEF PageTablesInverse
      <4>3. [c \in Cells |-> IF disk[m_addr_to_page[a]][c] = Absent THEN Zero
                             ELSE disk[m_addr_to_page[a]][c]] = m_buffer[a]
        BY <3>1, <4>1
      <4> QED BY <3>1, <3>2, <4>1, <4>2, <4>3 DEF WrittenBack, Stored
    <3> QED BY <3>1, <3>3, <3>4
  <2>5. CASE Restart
    BY <2>5 DEF Restart, FlushedSoFar
  <2>6. CASE UNCHANGED vars
    BY <2>6 DEF FlushedSoFar, vars
  <2> QED BY <2>1, <2>2, <2>3, <2>4, <2>5, <2>6 DEF Next, EndClose, Crash
<1>3. TypeOK /\ PageTablesInverse /\ FlushedSoFar => FlushedAtClose
  <2> SUFFICES ASSUME TypeOK, PageTablesInverse, FlushedSoFar, dtor = m_pages,
                      NEW p \in PageIds, Cached(p)
               PROVE  disk[p] = m_buffer[m_page_to_addr[p]]
    BY DEF FlushedAtClose, View
  <2>1. m_page_to_addr[p] \in Frames
    BY DEF Cached, TypeOK
  <2>2. m_addr_to_page[m_page_to_addr[p]] = p
    BY <2>1 DEF PageTablesInverse
  <2> QED BY <2>1, <2>2 DEF FlushedSoFar
<1> QED BY <1>1, <1>2, <1>3, TypeCorrect, TablesStayInverse, PTL DEF Spec

-----------------------------------------------------------------------------
(* The refinement.  Settles compares two contents of a page: nothing that   *)
(* was there is lost.                                                       *)

(* The store starts with nothing in it, and so does a disk without files.   *)
LEMMA StartsBlank == Init => Store!Init
<1> SUFFICES ASSUME Init PROVE Store!Init
  OBVIOUS
<1>1. \A p \in PageIds : View(p) = disk[p]
  BY DEF Init, View, Cached, NoAddrs
<1> QED BY <1>1 DEF Init, Store!Init, Store!Blank

(* Writing a frame back changes its own page to what a reader sees, and     *)
(* every other page only where it had no bytes.                             *)
LEMMA WriteBackSettles ==
  ASSUME TypeOK, PageTablesInverse, NEW addr \in Frames, NEW q \in PageIds
  PROVE  IF m_addr_to_page[addr] = q
         THEN WrittenBack(addr)[q] = View(q) /\ View(q) = m_buffer[addr]
         ELSE Store!Settles(disk[q], WrittenBack(addr)[q])
<1>1. m_addr_to_page[addr] \in PageIds \cup {NoPage} /\ NoPage \notin PageIds
  BY DEF TypeOK
<1>2. CASE m_addr_to_page[addr] = q
  <2>1. m_page_to_addr[q] = addr /\ addr # NoFrame
    BY <1>2 DEF PageTablesInverse
  <2> QED BY <1>1, <1>2, <2>1 DEF WrittenBack, Stored, View, Cached
<1>3. CASE m_addr_to_page[addr] # q
  BY <1>1, <1>3 DEF WrittenBack, Stored, Store!Settles
<1> QED BY <1>2, <1>3

(* A miss, page by page: what happens to the disk and to the frame.         *)
LEMMA MissOnDisk ==
  ASSUME TypeOK, PageTablesInverse,
         NEW p \in PageIds, NEW addr \in Frames, Miss(p, addr), NEW q \in PageIds
  PROVE  IF m_addr_to_page[addr] = q
         THEN disk'[q] = View(q) /\ View(q) = m_buffer[addr]
         ELSE Store!Settles(disk[q], disk'[q])
<1> DEFINE image == WrittenBack(addr)
<1>1. /\ disk' = Opened(image, p[1])
      /\ image \in [PageIds -> [Cells -> Vals \cup {Absent}]]
      /\ <<p[1], 0>> \in PageIds /\ 0 \in Cells
  BY WrittenBackType DEF Miss, PageIds
<1>2. m_buffer[addr] \in [Cells -> Vals]
  BY DEF TypeOK
<1>3. Store!Settles(image[q], disk'[q])
  <2> HIDE DEF image
  <2> QED BY <1>1 DEF Opened, Store!Settles
<1>4. disk'[q] \in [Cells -> Vals \cup {Absent}]
  <2>1. p[1] \in Files
    BY DEF PageIds
  <2> HIDE DEF image
  <2> QED BY <1>1, <2>1, OpenedType
<1>5. CASE m_addr_to_page[addr] = q
  <2>1. image[q] = View(q) /\ View(q) = m_buffer[addr]
    BY <1>5, WriteBackSettles
  <2>2. \A c \in Cells : disk'[q][c] = m_buffer[addr][c]
    <3> HIDE DEF image
    <3> QED BY <1>2, <1>3, <2>1 DEF Store!Settles
  <2>3. disk'[q] = m_buffer[addr]
    <3> HIDE DEF image
    <3> QED BY <1>2, <1>4, <2>2
  <2> QED BY <1>5, <2>1, <2>3
<1>6. CASE m_addr_to_page[addr] # q
  <2>1. Store!Settles(disk[q], image[q])
    BY <1>6, WriteBackSettles
  <2> HIDE DEF image
  <2> QED BY <1>3, <1>6, <2>1 DEF Store!Settles
<1> QED BY <1>5, <1>6

(* What a lookup does to the views, when the caller then changes the frame  *)
(* to some content.                                                         *)
LEMMA LookupViews ==
  ASSUME TypeOK, PageTablesInverse,
         NEW p \in PageIds, NEW addr \in Frames, GetAddress(p, addr),
         NEW content \in [Cells -> Vals],
         m_buffer' = [m_buffer EXCEPT ![addr] = content]
  PROVE  /\ View(p)' = content
         /\ Store!Settles(View(p), Loaded(p, addr))
         /\ \A q \in PageIds \ {p} : Store!Settles(View(q), View(q)')
         /\ \A q \in PageIds : disk'[q] = View(q) \/ Store!Settles(disk[q], disk'[q])
<1>0. /\ m_buffer \in [Frames -> [Cells -> Vals]]
      /\ m_page_to_addr \in [PageIds -> Frames \cup {NoFrame}]
      /\ NoFrame \notin Frames
  BY DEF TypeOK
<1>1. CASE Hit(p, addr)
  <2>1. /\ m_page_to_addr' = m_page_to_addr /\ disk' = disk
        /\ m_page_to_addr[p] = addr
    BY <1>1 DEF Hit, mapVars
  <2>2. View(p)' = content /\ View(p) = m_buffer[addr] /\ Loaded(p, addr) = m_buffer[addr]
    BY <1>0, <2>1 DEF View, Cached, Loaded
  <2>3. ASSUME NEW q \in PageIds \ {p} PROVE View(q)' = View(q)
    <3>1. m_page_to_addr[q] # addr
      BY <2>1 DEF PageTablesInverse
    <3> QED BY <1>0, <2>1, <3>1 DEF View, Cached
  <2> QED BY <2>1, <2>2, <2>3 DEF Store!Settles
<1>2. CASE Miss(p, addr)
  <2>1. /\ m_page_to_addr[p] = NoFrame
        /\ m_page_to_addr' = [q \in PageIds |->
                                IF q = p THEN addr
                                ELSE IF q = m_addr_to_page[addr] THEN NoFrame
                                ELSE m_page_to_addr[q]]
        /\ disk' = Opened(WrittenBack(addr), p[1])
    BY <1>2 DEF Miss, Cached
  <2>2. View(p)' = content
    BY <1>0, <2>1 DEF View, Cached
  <2>3. m_addr_to_page[addr] # p
    BY <1>0, <2>1 DEF PageTablesInverse
  <2>4. Store!Settles(View(p), Loaded(p, addr))
    <3>1. Store!Settles(disk[p], disk'[p])
      BY <1>2, <2>3, MissOnDisk
    <3>2. View(p) = disk[p]
      BY <2>1 DEF View, Cached
    <3>3. Loaded(p, addr) = ReadInto(m_buffer[addr], disk', p)
      BY <2>1 DEF Loaded, Cached
    <3> QED BY <3>1, <3>2, <3>3 DEF ReadInto, Store!Settles
  <2>5. ASSUME NEW q \in PageIds \ {p} PROVE Store!Settles(View(q), View(q)')
    <3>1. CASE q = m_addr_to_page[addr]
      <4>1. View(q)' = disk'[q]
        BY <2>1, <3>1 DEF View, Cached
      <4>2. disk'[q] = View(q)
        BY <1>2, <3>1, MissOnDisk
      <4> QED BY <4>1, <4>2 DEF Store!Settles
    <3>2. CASE q # m_addr_to_page[addr] /\ Cached(q)
      <4>1. m_page_to_addr[q] # addr
        BY <3>2 DEF PageTablesInverse
      <4>2. View(q)' = View(q)
        BY <1>0, <2>1, <3>2, <4>1 DEF View, Cached
      <4> QED BY <4>2 DEF Store!Settles
    <3>3. CASE q # m_addr_to_page[addr] /\ ~Cached(q)
      <4>1. View(q)' = disk'[q] /\ View(q) = disk[q]
        BY <2>1, <3>3 DEF View, Cached
      <4> QED BY <1>2, <3>3, <4>1, MissOnDisk
    <3> QED BY <3>1, <3>2, <3>3
  <2>6. ASSUME NEW q \in PageIds
        PROVE  disk'[q] = View(q) \/ Store!Settles(disk[q], disk'[q])
    BY <1>2, MissOnDisk
  <2> QED BY <2>2, <2>4, <2>5, <2>6
<1> QED BY <1>1, <1>2 DEF GetAddress

(* Every step of the pool is a step of the store or leaves it unchanged.    *)
LEMMA StepsImplementStore ==
  TypeOK /\ PageTablesInverse /\ [Next]_vars => [Store!Next]_(Store!storeVars)
<1> SUFFICES ASSUME TypeOK, PageTablesInverse, [Next]_vars
             PROVE  [Store!Next]_(Store!storeVars)
  OBVIOUS
<1>1. ASSUME NEW p \in PageIds, Read(p) PROVE Store!Read(p)
  <2>1. PICK addr \in Frames :
          /\ GetAddress(p, addr)
          /\ m_buffer' = [m_buffer EXCEPT ![addr] = Loaded(p, addr)]
    BY <1>1 DEF Read
  <2>2. Loaded(p, addr) \in [Cells -> Vals]
    BY LoadedType
  <2>3. /\ View(p)' = Loaded(p, addr)
        /\ Store!Settles(View(p), Loaded(p, addr))
        /\ \A q \in PageIds \ {p} : Store!Settles(View(q), View(q)')
        /\ \A q \in PageIds : disk'[q] = View(q) \/ Store!Settles(disk[q], disk'[q])
    BY <2>1, <2>2, LookupViews
  <2>4. \A c \in Cells : Loaded(p, addr)[c] # Absent
    BY <2>2
  <2>5. \A q \in PageIds : Store!Settles(View(q), View(q)')
    BY <2>3
  <2> QED BY <2>3, <2>4, <2>5 DEF Store!Read, Store!SomeSaved
<1>2. ASSUME NEW p \in PageIds, NEW offset \in Cells, NEW size \in 1 .. PageCells,
             NEW v \in Vals, Write(p, offset, size, v)
      PROVE  Store!Write(p, Written(offset, size), v)
  <2>1. PICK addr \in Frames :
          /\ GetAddress(p, addr)
          /\ m_buffer' = [m_buffer EXCEPT ![addr] =
               [c \in Cells |-> IF c \in Written(offset, size) THEN v
                                ELSE Loaded(p, addr)[c]]]
    BY <1>2 DEF Write
  <2> DEFINE content == [c \in Cells |-> IF c \in Written(offset, size) THEN v
                                         ELSE Loaded(p, addr)[c]]
  <2>2. Loaded(p, addr) \in [Cells -> Vals]
    BY LoadedType
  <2>3. content \in [Cells -> Vals]
    BY <2>2
  <2>4. /\ View(p)' = content
        /\ Store!Settles(View(p), Loaded(p, addr))
        /\ \A q \in PageIds \ {p} : Store!Settles(View(q), View(q)')
        /\ \A q \in PageIds : disk'[q] = View(q) \/ Store!Settles(disk[q], disk'[q])
    BY <2>1, <2>3, LookupViews
  <2>5. \A c \in Cells :
          IF c \in Written(offset, size) THEN View(p)'[c] = v
          ELSE View(p)'[c] # Absent /\ (View(p)[c] # Absent => View(p)'[c] = View(p)[c])
    BY <2>2, <2>4 DEF Store!Settles
  <2> HIDE DEF content
  <2> QED BY <2>4, <2>5 DEF Store!Write, Store!SomeSaved
<1>3. CASE BeginClose
  BY <1>3 DEF BeginClose, Store!storeVars, View, Cached, mapVars
<1>4. CASE FlushFrame
  <2>1. /\ dtor \in Frames /\ disk' = WrittenBack(dtor)
        /\ m_page_to_addr' = m_page_to_addr /\ m_buffer' = m_buffer
    BY <1>4 DEF FlushFrame, mapVars
  <2>2. \A q \in PageIds : disk'[q] = View(q) \/ Store!Settles(disk[q], disk'[q])
    BY <2>1, WriteBackSettles
  <2>3. ASSUME NEW q \in PageIds PROVE Store!Settles(View(q), View(q)')
    <3>1. CASE Cached(q)
      BY <2>1, <3>1 DEF View, Cached, Store!Settles
    <3>2. CASE ~Cached(q)
      <4>1. View(q) = disk[q] /\ View(q)' = disk'[q]
        BY <2>1, <3>2 DEF View, Cached
      <4> QED BY <2>2, <4>1 DEF Store!Settles
    <3> QED BY <3>1, <3>2
  <2>4. Store!Save
    BY <2>2, <2>3 DEF Store!Save, Store!SomeSaved
  <2> QED BY <2>4 DEF Store!Next
<1>5. CASE Restart
  <2>1. \A q \in PageIds : View(q)' = disk[q]
    BY <1>5 DEF Restart, View, Cached, NoAddrs
  <2>2. disk' = disk /\ disk = [q \in PageIds |-> disk[q]]
    BY <1>5 DEF Restart, TypeOK
  <2>3. Store!Crash
    BY <2>1, <2>2 DEF Store!Crash
  <2> QED BY <2>3 DEF Store!Next
<1>6. CASE UNCHANGED vars
  BY <1>6 DEF vars, Store!storeVars, View, Cached
<1>7. CASE \E p \in PageIds : Read(p)
  BY <1>1, <1>7 DEF Store!Next
<1>8. CASE \E p \in PageIds, offset \in Cells, size \in 1 .. PageCells, v \in Vals :
             Write(p, offset, size, v)
  <2>1. PICK p \in PageIds, offset \in Cells, size \in 1 .. PageCells, v \in Vals :
             Write(p, offset, size, v)
    BY <1>8
  <2>2. Written(offset, size) \in SUBSET Cells
    BY DEF Written
  <2>3. Store!Write(p, Written(offset, size), v)
    BY <1>2, <2>1
  <2> QED BY <2>2, <2>3 DEF Store!Next
<1> QED BY <1>3, <1>4, <1>5, <1>6, <1>7, <1>8 DEF Next, EndClose, Crash

(* BufferManager over DiskManager is the page store its callers rely on,    *)
(* for every pool and every order of loads, evictions, closes and crashes.  *)
THEOREM PoolImplementsStore == Spec => ImplementsStore
<1> QED BY StartsBlank, StepsImplementStore, TypeCorrect, TablesStayInverse, PTL
        DEF Spec, ImplementsStore, Store!Spec

-----------------------------------------------------------------------------
(* The order of replacement: until max_priority wraps, every frame is       *)
(* queued once, and the pages used last are in memory.                      *)

HIDE DEF Frames, Cells, Priorities

(* The priority under which a frame is queued: the one of the constructor    *)
(* until the frame is used.                                                 *)
QueuedAt(a) == IF m_priority[a] = 0 THEN a + 1 ELSE m_priority[a]

QueueOK ==
  ~wrapped =>
    /\ m_pages <= max_priority
    /\ \A a \in Frames : QueuedAt(a) \in 1 .. max_priority
    /\ \A a \in Frames, k \in Priorities : m_queue[k] = a <=> k = QueuedAt(a)
    /\ \A p \in PageIds : Cached(p) => m_priority[m_page_to_addr[p]] # 0

(* The frame of the i-th page of a sequence. *)
FrameOf(s, i) == m_page_to_addr[s[i]]

(* The pages of a sequence are in memory, in the order of the queue, and in  *)
(* front of every other frame but that of spare.                            *)
InMemory(s)      == \A i \in 1 .. Len(s) : FrameOf(s, i) \in Frames
InOrder(s)       == \A i, j \in 1 .. Len(s) : i < j => QueuedAt(FrameOf(s, j)) < QueuedAt(FrameOf(s, i))
NotOf(s, a)      == \A i \in 1 .. Len(s) : FrameOf(s, i) # a
Ahead(s, others) == \A a \in others : NotOf(s, a) => \A i \in 1 .. Len(s) : QueuedAt(a) < QueuedAt(FrameOf(s, i))

RecentOK ==
  /\ recent \in Seq(PageIds) /\ Len(recent) <= m_pages
  /\ InMemory(recent) /\ InOrder(recent) /\ Ahead(recent, Frames)

HInv ==
  /\ TypeOK /\ PageTablesInverse /\ wrapped \in BOOLEAN
  /\ QueueOK /\ RecentOK

-----------------------------------------------------------------------------
(* Numbers of frames and priorities. *)

LEMMA Sizes ==
  /\ m_pages \in Nat /\ m_pages >= 1 /\ PriorityMod \in Nat /\ m_pages < PriorityMod
  /\ NoFrame \notin Frames /\ NoFrame \notin Int
BY SizesAssumption, SentinelsAssumption DEF Frames

LEMMA QueuedInt ==
  ASSUME TypeOK, NEW a \in Frames
  PROVE  QueuedAt(a) \in Int /\ a \in Int
BY Sizes DEF TypeOK, QueuedAt, Frames, Priorities

(* Fewer pages than frames leave a frame over. *)
LEMMA SpareFrame ==
  ASSUME NEW s \in Seq(PageIds), Len(s) < m_pages, InMemory(s)
  PROVE  \E b \in Frames : NotOf(s, b)
<1> SUFFICES ASSUME \A b \in Frames : \E i \in 1 .. Len(s) : FrameOf(s, i) = b
             PROVE  FALSE
  BY DEF NotOf
<1>1. Len(s) \in Nat
  BY LenProperties
<1> DEFINE f == [i \in 1 .. Len(s) |-> FrameOf(s, i)]
<1>2. f \in [1 .. Len(s) -> Frames]
  BY DEF InMemory
<1>3. \A b \in Frames : \E i \in 1 .. Len(s) : f[i] = b
  OBVIOUS
<1> HIDE DEF f
<1>4. f \in Surjection(1 .. Len(s), Frames)
  BY <1>2, <1>3 DEF Surjection
<1>5. Cardinality(Frames) <= Len(s)
  BY <1>1, <1>4, FS_SurjCardinalityBound DEF ExistsSurjection
<1>6. Cardinality(Frames) = m_pages
  <2>1. 0 \in Int /\ m_pages - 1 \in Int /\ ~(0 > m_pages - 1) /\ (m_pages - 1) - 0 + 1 = m_pages
    BY Sizes
  <2> QED BY <2>1, FS_Interval DEF Frames
<1> QED BY <1>1, <1>5, <1>6, Sizes

-----------------------------------------------------------------------------
(* The pages used before, without the one that is used now. *)

LEMMA BeforeOK ==
  ASSUME TypeOK, RecentOK, NEW p \in PageIds
  PROVE  /\ Before(p) \in Seq(PageIds) /\ Len(Before(p)) <= m_pages
         /\ InMemory(Before(p)) /\ InOrder(Before(p))
         /\ \A i \in 1 .. Len(Before(p)) : Before(p)[i] # p
         /\ Ahead(Before(p), {a \in Frames : a # m_page_to_addr[p]})
         /\ ~Cached(p) => Before(p) = recent
<1> DEFINE t == Before(p)
           n == Len(recent)
<1>0. recent \in Seq(PageIds) /\ n \in Nat /\ DOMAIN recent = 1 .. n /\ m_pages \in Nat
  BY LenProperties, Sizes DEF RecentOK
<1>1. CASE \A i \in DOMAIN recent : recent[i] # p
  <2>1. t = recent
    BY <1>1 DEF Before
  <2>2. Ahead(recent, {a \in Frames : a # m_page_to_addr[p]})
    BY DEF RecentOK, Ahead
  <2> QED BY <1>0, <1>1, <2>1, <2>2 DEF RecentOK
<1>2. CASE ~(\A i \in DOMAIN recent : recent[i] # p)
  <2> DEFINE i == CHOOSE i \in DOMAIN recent : recent[i] = p
  <2>1. i \in 1 .. n /\ recent[i] = p
    BY <1>0, <1>2
  <2>2. t = Without(recent, i)
    BY <1>2 DEF Before, Without
  <2> HIDE DEF i, t
  <2>3. t \in Seq(PageIds) /\ IsWithout(recent, i, t)
    BY <1>0, <2>1, <2>2, WithoutAt
  <2>4. /\ Len(t) = n - 1
        /\ \A k \in 1 .. n - 1 : t[k] = IF k < i THEN recent[k] ELSE recent[k + 1]
    BY <2>3 DEF IsWithout
  <2> DEFINE at(k) == IF k < i THEN k ELSE k + 1
  <2>5. /\ \A k \in 1 .. n - 1 : at(k) \in 1 .. n /\ at(k) # i /\ t[k] = recent[at(k)]
        /\ \A j, k \in 1 .. n - 1 : j < k => at(j) < at(k)
    BY <1>0, <2>1, <2>4
  <2> HIDE DEF at
  <2>6. InMemory(t)
    BY <2>4, <2>5 DEF InMemory, FrameOf, RecentOK
  <2>7. InOrder(t)
    <3> SUFFICES ASSUME NEW j \in 1 .. n - 1, NEW k \in 1 .. n - 1, j < k
                 PROVE  QueuedAt(FrameOf(t, k)) < QueuedAt(FrameOf(t, j))
      BY <2>4 DEF InOrder
    <3>1. PICK x \in 1 .. n, y \in 1 .. n : x = at(j) /\ y = at(k) /\ x < y
      BY <2>5
    <3>2. QueuedAt(FrameOf(recent, y)) < QueuedAt(FrameOf(recent, x))
      BY <3>1 DEF RecentOK, InOrder
    <3> QED BY <2>5, <3>1, <3>2 DEF FrameOf
  <2>8. ASSUME NEW k \in 1 .. n, recent[k] = p PROVE k = i
    <3> SUFFICES ASSUME k # i PROVE FALSE
      OBVIOUS
    <3>1. FrameOf(recent, k) = FrameOf(recent, i) /\ FrameOf(recent, i) \in Frames
      BY <2>1, <2>8 DEF FrameOf, RecentOK, InMemory
    <3>2. PICK q \in Int : q = QueuedAt(FrameOf(recent, i))
      BY <3>1, QueuedInt
    <3>3. k < i \/ i < k
      BY <1>0, <2>1
    <3>4. q < q
      BY <2>1, <3>1, <3>2, <3>3 DEF RecentOK, InOrder
    <3> QED BY <3>4
  <2>9. \A k \in 1 .. n - 1 : t[k] # p
    BY <2>5, <2>8
  <2>10. Ahead(t, {a \in Frames : a # m_page_to_addr[p]})
    <3> SUFFICES ASSUME NEW a \in Frames, a # m_page_to_addr[p], NotOf(t, a), NEW k \in 1 .. n - 1
                 PROVE  QueuedAt(a) < QueuedAt(FrameOf(t, k))
      BY <2>4 DEF Ahead
    <3>1. NotOf(recent, a)
      <4> SUFFICES ASSUME NEW j \in 1 .. n PROVE FrameOf(recent, j) # a
        BY DEF NotOf
      <4>1. CASE j = i
        BY <2>1, <4>1 DEF FrameOf
      <4>2. CASE j # i
        <5>1. PICK l \in 1 .. n - 1 : at(l) = j
          <6>1. CASE j < i
            <7>1. j \in 1 .. n - 1 /\ at(j) = j
              BY <1>0, <2>1, <6>1 DEF at
            <7> QED BY <7>1
          <6>2. CASE j > i
            <7>1. j - 1 \in 1 .. n - 1 /\ at(j - 1) = j
              BY <1>0, <2>1, <6>2 DEF at
            <7> QED BY <7>1
          <6> QED BY <1>0, <2>1, <4>2, <6>1, <6>2
        <5>2. FrameOf(t, l) # a
          BY <2>4 DEF NotOf
        <5> QED BY <2>5, <5>1, <5>2 DEF FrameOf
      <4> QED BY <4>1, <4>2
    <3>2. QueuedAt(a) < QueuedAt(FrameOf(recent, at(k)))
      BY <2>5, <3>1 DEF RecentOK, Ahead
    <3> QED BY <2>5, <3>2 DEF FrameOf
  <2>11. Cached(p)
    <3>1. FrameOf(recent, i) \in Frames
      BY <2>1 DEF RecentOK, InMemory
    <3> QED BY <2>1, <3>1, Sizes DEF Cached, FrameOf
  <2>12. Len(t) <= m_pages
    BY <1>0, <2>4 DEF RecentOK
  <2> QED BY <2>3, <2>4, <2>6, <2>7, <2>9, <2>10, <2>11, <2>12 DEF t
<1> QED BY <1>1, <1>2

-----------------------------------------------------------------------------
(* The queue, as the last lines of get_address leave it. *)

(* Every frame but addr is queued as it was; addr is queued nowhere but      *)
(* under the priority that is taken from it.                                *)
QueuedBut(queue, addr) ==
  /\ \A a \in Frames \ {addr}, k \in Priorities : queue[k] = a <=> k = QueuedAt(a)
  /\ \A k \in Priorities : queue[k] = addr => k = m_priority[addr]

(* addr has been given the next priority. *)
Requeued(addr) ==
  /\ max_priority' = max_priority + 1
  /\ \A a \in Frames : QueuedAt(a)' = IF a = addr THEN max_priority + 1 ELSE QueuedAt(a)
  /\ m_priority'[addr] # 0
  /\ \A a \in Frames \ {addr} : m_priority'[a] = m_priority[a]

LEMMA TouchOK ==
  ASSUME TypeOK, QueueOK, ~wrapped, NEW addr \in Frames,
         NEW queue \in [Priorities -> Frames \cup {NoFrame}], QueuedBut(queue, addr),
         Touch(queue, addr), ~(max_priority' < max_priority)
  PROVE  /\ Requeued(addr)
         /\ \A a \in Frames : QueuedAt(a)' \in 1 .. max_priority'
         /\ \A a \in Frames, k \in Priorities : m_queue'[k] = a <=> k = QueuedAt(a)'
<1> DEFINE next == (max_priority + 1) % PriorityMod
<1>1. max_priority \in 0 .. PriorityMod - 1 /\ m_pages <= max_priority
  BY DEF TypeOK, Priorities, QueueOK
<1>2. next = max_priority + 1 /\ max_priority + 1 \in Priorities
  <2>1. max_priority' = next
    BY DEF Touch
  <2>2. CASE max_priority + 1 = PriorityMod
    <3>1. next = 0
      BY <1>1, <2>2, Sizes
    <3> QED BY <1>1, <2>1, <3>1, Sizes
  <2>3. CASE max_priority + 1 # PriorityMod
    <3>1. max_priority + 1 \in 0 .. PriorityMod - 1
      BY <1>1, <2>3, Sizes
    <3> QED BY <3>1, Sizes DEF Priorities
  <2> QED BY <2>2, <2>3
<1> DEFINE top == max_priority + 1
           old == m_priority[addr]
<1>3. /\ max_priority' = top
      /\ m_priority' = [m_priority EXCEPT ![addr] = top]
      /\ m_queue' = [[queue EXCEPT ![old] = NoFrame] EXCEPT ![top] = addr]
  BY <1>2 DEF Touch
<1>4. top \in Priorities /\ top # 0 /\ top \in Int
  BY <1>1, <1>2, Sizes
<1>5. m_priority \in [Frames -> Priorities] /\ old \in Priorities
  BY DEF TypeOK
<1>6. \A a \in Frames : QueuedAt(a) \in 1 .. max_priority
  BY DEF QueueOK
<1> HIDE DEF top, next, old
<1>7. Requeued(addr)
  <2>1. m_priority'[addr] = top
    BY <1>3, <1>5
  <2>2. \A a \in Frames \ {addr} : m_priority'[a] = m_priority[a]
    BY <1>3, <1>5
  <2> QED BY <1>3, <1>4, <2>1, <2>2 DEF Requeued, QueuedAt, top
<1>8. \A a \in Frames : QueuedAt(a)' \in 1 .. max_priority'
  BY <1>1, <1>6, <1>7, Sizes DEF Requeued
<1>9. ASSUME NEW a \in Frames, NEW k \in Priorities
      PROVE  m_queue'[k] = a <=> k = QueuedAt(a)'
  <2>1. m_queue'[k] = IF k = top THEN addr ELSE IF k = old THEN NoFrame ELSE queue[k]
    BY <1>3, <1>4, <1>5
  <2>2. CASE a = addr
    <3>1. QueuedAt(a)' = top
      BY <1>7, <2>2 DEF Requeued, top
    <3>2. k # old => queue[k] # addr
      BY DEF QueuedBut, old
    <3> QED BY <2>1, <2>2, <3>1, <3>2, Sizes
  <2>3. CASE a # addr
    <3>1. QueuedAt(a)' = QueuedAt(a) /\ QueuedAt(a) \in 1 .. max_priority
      BY <1>6, <1>7, <2>3 DEF Requeued
    <3>2. QueuedAt(a) # top
      BY <1>1, <3>1 DEF top
    <3>3. queue[k] = a <=> k = QueuedAt(a)
      BY <2>3 DEF QueuedBut
    <3>4. QueuedAt(a) # old
      <4>1. CASE old = 0
        BY <3>1, <4>1
      <4>2. CASE old # 0
        <5>1. QueuedAt(addr) = old
          BY <4>2 DEF QueuedAt, old
        <5>2. m_queue[old] = addr
          BY <1>5, <5>1 DEF QueueOK
        <5>3. QueuedAt(a) = old => m_queue[old] = a
          BY <1>5 DEF QueueOK
        <5> QED BY <2>3, <5>2, <5>3
      <4> QED BY <4>1, <4>2
    <3> QED BY <2>1, <2>3, <3>1, <3>2, <3>3, <3>4, Sizes
  <2> QED BY <2>2, <2>3
<1> QED BY <1>7, <1>8, <1>9

-----------------------------------------------------------------------------
(* A page that is used. *)

(* What a lookup does to the tables, told of the pages in t, which were used *)
(* before p.                                                                *)
Leaves(p, addr, t) ==
  /\ m_page_to_addr'[p] = addr
  /\ \A i \in 1 .. Len(t) :
       i < m_pages => FrameOf(t, i) # addr /\ m_page_to_addr'[t[i]] = FrameOf(t, i)

LEMMA UsedOK ==
  ASSUME TypeOK, QueueOK, ~wrapped, NEW p \in PageIds, NEW addr \in Frames,
         NEW t \in Seq(PageIds), Len(t) <= m_pages, InMemory(t), InOrder(t),
         Ahead(t, Frames \ {addr}), Leaves(p, addr, t), Requeued(addr),
         recent' = SubSeq(<<p>> \o t, 1, IF Len(<<p>> \o t) < m_pages THEN Len(<<p>> \o t) ELSE m_pages)
  PROVE  RecentOK'
<1>0. PICK r : r = recent'
  OBVIOUS
<1> DEFINE one == <<p>>
           all == one \o t
           n == IF Len(t) + 1 < m_pages THEN Len(t) + 1 ELSE m_pages
<1>1. Len(t) \in Nat /\ one \in Seq(PageIds) /\ Len(one) = 1 /\ one[1] = p /\ m_pages \in Nat
      /\ m_pages >= 1
  BY LenProperties, Sizes
<1> HIDE DEF one, all
<1>2. /\ all \in Seq(PageIds) /\ Len(all) = 1 + Len(t)
      /\ \A k \in 1 .. 1 + Len(t) : all[k] = IF k <= 1 THEN one[k] ELSE t[k - 1]
  <2>1. /\ all \in Seq(PageIds) /\ Len(all) = Len(one) + Len(t)
        /\ \A k \in 1 .. Len(one) + Len(t) : all[k] = IF k <= Len(one) THEN one[k] ELSE t[k - Len(one)]
    BY <1>1, ConcatProperties DEF all
  <2> QED BY <1>1, <2>1
<1>3. r = SubSeq(all, 1, n)
  <2>1. r = SubSeq(all, 1, IF Len(all) < m_pages THEN Len(all) ELSE m_pages)
    BY <1>0 DEF one, all
  <2>2. 1 + Len(t) = Len(t) + 1
    BY <1>1
  <2> QED BY <1>2, <2>1, <2>2
<1>4. n \in Nat /\ n >= 1 /\ n <= Len(t) + 1 /\ n <= m_pages /\ (n < m_pages => n = Len(t) + 1)
  BY <1>1
<1> HIDE DEF n
<1>5. r \in Seq(PageIds) /\ Len(r) = n /\ \A k \in 1 .. n : r[k] = all[k]
  <2>1. PICK m \in 1 .. Len(all) + 1 : m = 1
    BY <1>1, <1>2
  <2> n \in m - 1 .. Len(all)
    BY <1>1, <1>2, <1>4, <2>1
  <2>2. /\ SubSeq(all, m, n) \in Seq(PageIds) /\ Len(SubSeq(all, m, n)) = n - m + 1
        /\ \A k \in 1 .. n - m + 1 : SubSeq(all, m, n)[k] = all[m + k - 1]
    BY <1>2, PartOf
  <2>3. n - m + 1 = n /\ \A k \in 1 .. n : m + k - 1 = k
    BY <1>4, <2>1
  <2> QED BY <1>3, <2>1, <2>2, <2>3
<1>6. /\ r[1] = p
      /\ \A k \in 1 .. n : k # 1 => k - 1 \in 1 .. Len(t) /\ k - 1 < m_pages /\ k - 1 < n /\ r[k] = t[k - 1]
  BY <1>1, <1>2, <1>4, <1>5
(* The frames of these pages, and the priorities of all frames, afterwards. *)
<1>7. PICK f : f = [k \in 1 .. n |-> m_page_to_addr'[r[k]]]
  OBVIOUS
<1>8. PICK q : q = [a \in Frames |-> QueuedAt(a)']
  OBVIOUS
<1>9. /\ q[addr] = max_priority + 1 /\ max_priority \in Int
      /\ \A a \in Frames \ {addr} : q[a] = QueuedAt(a) /\ q[a] \in 1 .. max_priority
  BY <1>8 DEF Requeued, TypeOK, Priorities, QueueOK
<1>10. /\ 1 \in 1 .. n /\ f[1] = addr
       /\ \A k \in 1 .. n : k # 1 => f[k] = FrameOf(t, k - 1) /\ f[k] \in Frames \ {addr}
  <2>1. 1 \in 1 .. n
    BY <1>4
  <2>2. f[1] = addr
    <3>1. f[1] = m_page_to_addr'[r[1]]
      BY <1>7, <2>1
    <3> QED BY <1>6, <3>1 DEF Leaves
  <2>3. ASSUME NEW k \in 1 .. n, k # 1 PROVE f[k] = FrameOf(t, k - 1) /\ f[k] \in Frames \ {addr}
    <3>1. PICK i \in 1 .. Len(t) : i = k - 1 /\ i < m_pages /\ r[k] = t[i]
      BY <1>6, <2>3
    <3>2. f[k] = m_page_to_addr'[t[i]]
      BY <1>7, <3>1
    <3>3. FrameOf(t, i) # addr /\ m_page_to_addr'[t[i]] = FrameOf(t, i) /\ FrameOf(t, i) \in Frames
      BY <3>1 DEF Leaves, InMemory
    <3> QED BY <3>1, <3>2, <3>3
  <2> QED BY <2>1, <2>2, <2>3
<1>11. InMemory(recent)'
  BY <1>0, <1>5, <1>7, <1>10 DEF InMemory, FrameOf
<1>12. InOrder(recent)'
  <2>1. ASSUME NEW i \in 1 .. n, NEW j \in 1 .. n, i < j PROVE q[f[j]] < q[f[i]]
    <3>1. j # 1
      BY <1>4, <2>1
    <3>2. CASE i = 1
      BY <1>9, <1>10, <3>1, <3>2
    <3>3. CASE i # 1
      <4>1. i - 1 \in 1 .. Len(t) /\ j - 1 \in 1 .. Len(t) /\ i - 1 < j - 1
        BY <1>6, <2>1, <3>1, <3>3
      <4>2. QueuedAt(FrameOf(t, j - 1)) < QueuedAt(FrameOf(t, i - 1))
        BY <4>1 DEF InOrder
      <4> QED BY <1>9, <1>10, <3>1, <3>3, <4>2
    <3> QED BY <3>2, <3>3
  <2>2. \A k \in 1 .. n : f[k] \in Frames
    BY <1>10
  <2>3. \A k \in 1 .. n : f[k] = FrameOf(recent, k)'
    BY <1>0, <1>7 DEF FrameOf
  <2>4. \A k \in 1 .. n : q[f[k]] = QueuedAt(FrameOf(recent, k))'
    BY <2>2, <2>3, <1>8 DEF QueuedAt
  <2>5. Len(recent)' = n
    BY <1>0, <1>5
  <2> SUFFICES ASSUME NEW i \in 1 .. n, NEW j \in 1 .. n, i < j
               PROVE  QueuedAt(FrameOf(recent, j))' < QueuedAt(FrameOf(recent, i))'
    BY <2>5 DEF InOrder
  <2>6. q[f[j]] < q[f[i]]
    BY <2>1
  <2> QED BY <2>4, <2>6
<1>13. Ahead(recent, Frames)'
  <2>1. ASSUME NEW a \in Frames, \A k \in 1 .. n : f[k] # a, NEW i \in 1 .. n
        PROVE  q[a] < q[f[i]]
    <3>1. a # addr
      BY <1>10, <2>1
    <3>2. CASE i = 1
      BY <1>9, <1>10, <3>1, <3>2
    <3>3. CASE i # 1
      <4>1. i - 1 \in 1 .. Len(t)
        BY <1>6, <3>3
      <4>2. PICK h \in 1 .. Len(t) : h = i - 1 /\ h < n
        BY <1>6, <3>3, <4>1
      <4>3. QueuedAt(a) < QueuedAt(FrameOf(t, h))
        <5>1. CASE NotOf(t, a)
          BY <3>1, <5>1 DEF Ahead
        <5>2. CASE ~NotOf(t, a)
          <6>1. PICK l \in 1 .. Len(t) : FrameOf(t, l) = a
            BY <5>2 DEF NotOf
          <6>2. ~(l + 1 <= n)
            <7> SUFFICES ASSUME l + 1 <= n PROVE FALSE
              OBVIOUS
            <7>1. l + 1 \in 1 .. n /\ l + 1 # 1 /\ (l + 1) - 1 = l
              BY <1>1, <1>4
            <7>2. f[l + 1] = FrameOf(t, l)
              BY <1>10, <7>1
            <7> QED BY <2>1, <6>1, <7>1, <7>2
          <6>3. h < l
            BY <1>1, <1>4, <4>2, <6>2
          <6> QED BY <6>1, <6>3 DEF InOrder
        <5> QED BY <5>1, <5>2
      <4> QED BY <1>9, <1>10, <3>1, <3>3, <4>2, <4>3
    <3> QED BY <3>2, <3>3
  <2>2. \A k \in 1 .. n : f[k] \in Frames
    BY <1>10
  <2>3. \A k \in 1 .. n : f[k] = FrameOf(recent, k)'
    BY <1>0, <1>7 DEF FrameOf
  <2>4. \A a \in Frames : q[a] = QueuedAt(a)'
    BY <1>8
  <2>5. Len(recent)' = n
    BY <1>0, <1>5
  <2> SUFFICES ASSUME NEW a \in Frames, NotOf(recent, a)', NEW i \in 1 .. n
               PROVE  QueuedAt(a)' < QueuedAt(FrameOf(recent, i))'
    BY <2>5 DEF Ahead
  <2>6. \A k \in 1 .. n : f[k] # a
    BY <2>3, <2>5 DEF NotOf
  <2>7. q[a] < q[f[i]]
    BY <2>1, <2>6
  <2>8. q[f[i]] = QueuedAt(FrameOf(recent, i))'
    BY <2>2, <2>3, <1>8 DEF QueuedAt
  <2> QED BY <2>4, <2>7, <2>8
<1> QED BY <1>0, <1>4, <1>5, <1>11, <1>12, <1>13 DEF RecentOK

-----------------------------------------------------------------------------
(* The two cases of get_address. *)

(* Of the other pages a lookup takes away at most the frame. *)
TablesKept(p, addr) ==
  /\ m_page_to_addr'[p] = addr
  /\ \A q \in PageIds : q # p => m_page_to_addr'[q] \in {m_page_to_addr[q], NoFrame}

LEMMA HitStep ==
  ASSUME TypeOK, PageTablesInverse, QueueOK, RecentOK, ~wrapped,
         NEW p \in PageIds, NEW addr \in Frames, Hit(p, addr)
  PROVE  /\ QueuedBut(m_queue, addr)
         /\ Leaves(p, addr, Before(p)) /\ Ahead(Before(p), Frames \ {addr})
         /\ TablesKept(p, addr)
<1>1. m_page_to_addr[p] = addr /\ m_page_to_addr' = m_page_to_addr
  BY DEF Hit, mapVars
<1>2. QueuedBut(m_queue, addr)
  <2>1. Cached(p) /\ m_priority[addr] # 0
    BY <1>1, Sizes DEF Cached, QueueOK
  <2>2. QueuedAt(addr) = m_priority[addr]
    BY <2>1 DEF QueuedAt
  <2> QED BY <2>2 DEF QueuedBut, QueueOK
<1> DEFINE t == Before(p)
<1>3. /\ t \in Seq(PageIds) /\ \A i \in 1 .. Len(t) : t[i] # p
      /\ Ahead(t, {a \in Frames : a # m_page_to_addr[p]})
  BY BeforeOK
<1> HIDE DEF t
<1>4. \A i \in 1 .. Len(t) : FrameOf(t, i) # addr
  <2> SUFFICES ASSUME NEW i \in 1 .. Len(t), FrameOf(t, i) = addr PROVE FALSE
    OBVIOUS
  <2>1. t[i] \in PageIds
    BY <1>3, ElementOfSeq
  <2>2. m_addr_to_page[addr] = t[i] /\ m_addr_to_page[addr] = p
    BY <1>1, <2>1 DEF FrameOf, PageTablesInverse
  <2> QED BY <1>3, <2>2
<1>5. Leaves(p, addr, t)
  BY <1>1, <1>4 DEF Leaves, FrameOf
<1>6. Ahead(t, Frames \ {addr})
  BY <1>1, <1>3 DEF Ahead
<1> QED BY <1>1, <1>2, <1>5, <1>6 DEF TablesKept, t

(* The frame at the front of the queue is none of those of the pages used     *)
(* last, of which there is one fewer than frames.                            *)
LEMMA FrontIsOld ==
  ASSUME TypeOK, QueueOK, RecentOK, ~wrapped, NEW addr \in Frames,
         \A a \in Frames : QueuedAt(addr) <= QueuedAt(a),
         NEW i \in 1 .. Len(recent), i < m_pages
  PROVE  FrameOf(recent, i) # addr
<1> SUFFICES ASSUME FrameOf(recent, i) = addr PROVE FALSE
  OBVIOUS
<1>1. Len(recent) \in Nat /\ m_pages \in Nat
  BY LenProperties, Sizes DEF RecentOK
<1>2. PICK q \in Int : q = QueuedAt(addr)
  BY QueuedInt
<1>3. CASE i < Len(recent)
  <2>1. i + 1 \in 1 .. Len(recent) /\ i < i + 1
    BY <1>1, <1>3
  <2>2. PICK b \in Frames : b = FrameOf(recent, i + 1)
    BY <2>1 DEF RecentOK, InMemory
  <2>3. QueuedAt(b) < QueuedAt(addr)
    BY <2>1, <2>2 DEF RecentOK, InOrder
  <2> QED BY <1>2, <2>3, QueuedInt
<1>4. CASE ~(i < Len(recent))
  <2>1. Len(recent) < m_pages
    BY <1>1, <1>4
  <2>2. PICK b \in Frames : NotOf(recent, b)
    BY <2>1, SpareFrame DEF RecentOK
  <2>3. QueuedAt(b) < QueuedAt(addr)
    BY <2>2 DEF RecentOK, Ahead
  <2> QED BY <1>2, <2>3, QueuedInt
<1> QED BY <1>3, <1>4

LEMMA MissStep ==
  ASSUME TypeOK, PageTablesInverse, QueueOK, RecentOK, ~wrapped,
         NEW p \in PageIds, NEW addr \in Frames, Miss(p, addr)
  PROVE  /\ \E queue \in [Priorities -> Frames \cup {NoFrame}] :
              QueuedBut(queue, addr) /\ Touch(queue, addr)
         /\ Leaves(p, addr, Before(p)) /\ Ahead(Before(p), Frames \ {addr})
         /\ TablesKept(p, addr)
<1>1. PICK k \in Priorities : /\ IsFront(k) /\ m_queue[k] = addr
                              /\ Touch([m_queue EXCEPT ![k] = NoFrame], addr)
  BY DEF Miss
<1>2. ~Cached(p) /\ m_page_to_addr' = [q \in PageIds |->
                          IF q = p THEN addr
                          ELSE IF q = m_addr_to_page[addr] THEN NoFrame
                          ELSE m_page_to_addr[q]]
  BY DEF Miss
<1>3. \A a \in Frames : QueuedAt(a) \in Priorities
  BY Sizes DEF QueueOK, TypeOK, Priorities
<1>4. k = QueuedAt(addr)
  BY <1>1 DEF QueueOK
<1>5. \A a \in Frames : QueuedAt(addr) <= QueuedAt(a)
  <2> SUFFICES ASSUME NEW a \in Frames PROVE QueuedAt(addr) <= QueuedAt(a)
    OBVIOUS
  <2>1. PICK j \in Priorities : j = QueuedAt(a)
    BY <1>3
  <2>2. m_queue[j] = a /\ a # NoFrame
    BY <2>1, Sizes DEF QueueOK
  <2> QED BY <1>1, <1>4, <2>1, <2>2 DEF IsFront
<1>6. PICK queue \in [Priorities -> Frames \cup {NoFrame}] : queue = [m_queue EXCEPT ![k] = NoFrame]
  BY DEF TypeOK
<1>7. \A j \in Priorities : queue[j] = IF j = k THEN NoFrame ELSE m_queue[j]
  BY <1>6 DEF TypeOK
<1>8. QueuedBut(queue, addr)
  <2>1. ASSUME NEW a \in Frames \ {addr}, NEW j \in Priorities PROVE queue[j] = a <=> j = QueuedAt(a)
    <3>1. m_queue[j] = a <=> j = QueuedAt(a)
      BY DEF QueueOK
    <3>2. j = k => m_queue[j] # a
      BY <1>1
    <3> QED BY <1>7, <3>1, <3>2, Sizes
  <2>2. ASSUME NEW j \in Priorities PROVE queue[j] # addr
    <3>1. m_queue[j] = addr => j = k
      BY <1>4 DEF QueueOK
    <3> QED BY <1>7, <3>1, Sizes
  <2> QED BY <2>1, <2>2 DEF QueuedBut
<1>9. Before(p) = recent /\ \A i \in 1 .. Len(Before(p)) : Before(p)[i] # p
  BY <1>2, BeforeOK
<1>10. \A i \in 1 .. Len(recent) : i < m_pages => FrameOf(recent, i) # addr
  BY <1>5, FrontIsOld
<1>11. Leaves(p, addr, recent)
  <2>1. m_page_to_addr'[p] = addr
    BY <1>2
  <2>2. ASSUME NEW i \in 1 .. Len(recent), i < m_pages
        PROVE  m_page_to_addr'[recent[i]] = FrameOf(recent, i)
    <3>1. recent[i] \in PageIds /\ recent[i] # p
      BY <1>9, ElementOfSeq DEF RecentOK
    <3>2. recent[i] # m_addr_to_page[addr]
      BY <1>10, <2>2, <3>1 DEF PageTablesInverse, FrameOf
    <3> QED BY <1>2, <3>1, <3>2 DEF FrameOf
  <2> QED BY <1>10, <2>1, <2>2 DEF Leaves
<1>12. Ahead(recent, Frames \ {addr})
  BY DEF RecentOK, Ahead
<1>13. TablesKept(p, addr)
  BY <1>2 DEF TablesKept
<1> QED BY <1>1, <1>6, <1>8, <1>9, <1>11, <1>12, <1>13

-----------------------------------------------------------------------------
(* Every step keeps the invariant. *)

LEMMA NoneUsed ==
  ASSUME recent = <<>>
  PROVE  RecentOK
<1>1. recent \in Seq(PageIds) /\ Len(recent) = 0 /\ 1 .. 0 = {}
  OBVIOUS
<1> QED BY <1>1, Sizes DEF RecentOK, InMemory, InOrder, Ahead

LEMMA LookupStep ==
  ASSUME TypeOK, TypeOK', PageTablesInverse, QueueOK, RecentOK, wrapped \in BOOLEAN,
         NEW p \in PageIds, NEW addr \in Frames, GetAddress(p, addr), Used(p)
  PROVE  QueueOK' /\ RecentOK' /\ wrapped' \in BOOLEAN
<1>1. wrapped' = (wrapped \/ max_priority' < max_priority)
  BY DEF Used
<1>2. CASE wrapped'
  <2>1. recent' = <<>>
    BY <1>2 DEF Used
  <2>2. RecentOK'
    <3>1. (recent = <<>> => RecentOK)'
      BY NoneUsed, PTL
    <3> QED BY <2>1, <3>1
  <2> QED BY <1>1, <1>2, <2>2 DEF QueueOK
<1>3. CASE ~wrapped'
  <2>1. ~wrapped /\ ~(max_priority' < max_priority)
    BY <1>1, <1>3
  <2>2. /\ \E queue \in [Priorities -> Frames \cup {NoFrame}] :
             QueuedBut(queue, addr) /\ Touch(queue, addr)
        /\ Leaves(p, addr, Before(p)) /\ Ahead(Before(p), Frames \ {addr})
        /\ TablesKept(p, addr)
    <3>1. CASE Hit(p, addr)
      <4>1. QueuedBut(m_queue, addr) /\ Touch(m_queue, addr)
            /\ m_queue \in [Priorities -> Frames \cup {NoFrame}]
        BY <2>1, <3>1, HitStep DEF Hit, TypeOK
      <4>2. Leaves(p, addr, Before(p)) /\ Ahead(Before(p), Frames \ {addr}) /\ TablesKept(p, addr)
        BY <2>1, <3>1, HitStep
      <4> QED BY <4>1, <4>2
    <3>2. CASE Miss(p, addr)
      BY <2>1, <3>2, MissStep
    <3> QED BY <3>1, <3>2 DEF GetAddress
  <2>3. PICK queue \in [Priorities -> Frames \cup {NoFrame}] :
          QueuedBut(queue, addr) /\ Touch(queue, addr)
    BY <2>2
  <2>4. /\ Requeued(addr)
        /\ \A a \in Frames : QueuedAt(a)' \in 1 .. max_priority'
        /\ \A a \in Frames, k \in Priorities : m_queue'[k] = a <=> k = QueuedAt(a)'
    BY <2>1, <2>3, TouchOK
  <2>5. QueueOK'
    <3>1. m_pages <= max_priority'
      BY <2>1, <2>4, Sizes DEF QueueOK, Requeued, TypeOK, Priorities
    <3>2. ASSUME NEW q \in PageIds, Cached(q)' PROVE m_priority'[m_page_to_addr'[q]] # 0
      <4>1. m_page_to_addr'[q] \in Frames /\ m_page_to_addr'[q] # NoFrame
        BY <3>2 DEF TypeOK, Cached
      <4>2. CASE m_page_to_addr'[q] = addr
        BY <2>4, <4>2 DEF Requeued
      <4>3. CASE m_page_to_addr'[q] # addr
        <5>1. m_page_to_addr'[q] = m_page_to_addr[q]
          BY <2>2, <4>1, <4>3 DEF TablesKept
        <5>2. m_priority[m_page_to_addr[q]] # 0
          BY <2>1, <4>1, <5>1 DEF QueueOK, Cached
        <5> QED BY <2>4, <4>1, <4>3, <5>1, <5>2 DEF Requeued
      <4> QED BY <4>2, <4>3
    <3> QED BY <2>4, <3>1, <3>2 DEF QueueOK
  <2>6. RecentOK'
    <3>1. PICK t : t = Before(p)
      OBVIOUS
    <3>2. t \in Seq(PageIds) /\ Len(t) <= m_pages /\ InMemory(t) /\ InOrder(t)
      BY <3>1, BeforeOK
    <3>3. Ahead(t, Frames \ {addr}) /\ Leaves(p, addr, t)
      BY <2>2, <3>1
    <3>4. recent' = SubSeq(<<p>> \o t, 1, IF Len(<<p>> \o t) < m_pages THEN Len(<<p>> \o t) ELSE m_pages)
      BY <1>3, <3>1 DEF Used
    <3> QED BY <2>1, <2>4, <3>2, <3>3, <3>4, UsedOK
  <2> QED BY <1>1, <1>3, <2>5, <2>6
<1> QED BY <1>1, <1>2, <1>3

(* A pool that has just been constructed. *)
LEMMA NewPool ==
  ASSUME m_priority = NoUse, m_queue = NewQueue, max_priority = m_pages,
         m_page_to_addr = NoAddrs, recent = <<>>, wrapped = FALSE
  PROVE  QueueOK /\ RecentOK /\ wrapped \in BOOLEAN
<1>1. \A a \in Frames : QueuedAt(a) = a + 1 /\ QueuedAt(a) \in 1 .. m_pages
  BY Sizes DEF QueuedAt, NoUse, Frames
<1>2. ASSUME NEW a \in Frames, NEW k \in Priorities PROVE m_queue[k] = a <=> k = QueuedAt(a)
  <2>1. m_queue[k] = IF k \in 1 .. m_pages THEN k - 1 ELSE NoFrame
    BY DEF NewQueue
  <2>2. k \in Int /\ a \in Int /\ a # NoFrame
    BY Sizes DEF Priorities, Frames
  <2>3. CASE k \in 1 .. m_pages
    BY <1>1, <2>1, <2>2, <2>3
  <2>4. CASE k \notin 1 .. m_pages
    BY <1>1, <2>1, <2>2, <2>4
  <2> QED BY <2>3, <2>4
<1>3. \A p \in PageIds : ~Cached(p)
  BY DEF Cached, NoAddrs
<1>4. QueueOK
  BY <1>1, <1>2, <1>3, Sizes DEF QueueOK
<1> QED BY <1>4, NoneUsed

LEMMA StepKeepsOrder ==
  ASSUME TypeOK, TypeOK', PageTablesInverse, QueueOK, RecentOK, wrapped \in BOOLEAN, [HNext]_hvars
  PROVE  QueueOK' /\ RecentOK' /\ wrapped' \in BOOLEAN
<1>1. ASSUME NEW p \in PageIds, Read(p), Used(p)
      PROVE  QueueOK' /\ RecentOK' /\ wrapped' \in BOOLEAN
  <2>1. PICK addr \in Frames : GetAddress(p, addr)
    BY <1>1 DEF Read
  <2> QED BY <1>1, <2>1, LookupStep
<1>2. ASSUME NEW p \in PageIds, NEW offset \in Cells, NEW size \in 1 .. PageCells, NEW v \in Vals,
             Write(p, offset, size, v), Used(p)
      PROVE  QueueOK' /\ RecentOK' /\ wrapped' \in BOOLEAN
  <2>1. PICK addr \in Frames : GetAddress(p, addr)
    BY <1>2 DEF Write
  <2> QED BY <1>2, <2>1, LookupStep
<1>3. ASSUME UNCHANGED <<mapVars, m_priority, m_queue, max_priority, recent, wrapped>>
      PROVE  QueueOK' /\ RecentOK' /\ wrapped' \in BOOLEAN
  <2>1. QueueOK'
    BY <1>3 DEF QueueOK, QueuedAt, Cached, mapVars
  <2>2. RecentOK'
    BY <1>3 DEF RecentOK, InMemory, InOrder, Ahead, NotOf, FrameOf, QueuedAt, mapVars
  <2> QED BY <1>3, <2>1, <2>2
<1>4. ASSUME EndClose \/ Crash, recent' = <<>>, wrapped' = FALSE
      PROVE  QueueOK' /\ RecentOK' /\ wrapped' \in BOOLEAN
  <2>1. /\ m_priority' = NoUse /\ m_queue' = NewQueue /\ max_priority' = m_pages
        /\ m_page_to_addr' = NoAddrs
    BY <1>4 DEF EndClose, Crash, Restart
  <2>2. (/\ m_priority = NoUse /\ m_queue = NewQueue /\ max_priority = m_pages
         /\ m_page_to_addr = NoAddrs /\ recent = <<>> /\ wrapped = FALSE
         => QueueOK /\ RecentOK /\ wrapped \in BOOLEAN)'
    BY NewPool, PTL
  <2> QED BY <1>4, <2>1, <2>2 DEF NoUse, NewQueue, NoAddrs
<1>5. CASE (BeginClose \/ FlushFrame) /\ UNCHANGED <<recent, wrapped>>
  BY <1>3, <1>5 DEF BeginClose, FlushFrame
<1>6. CASE UNCHANGED hvars
  BY <1>3, <1>6 DEF hvars, vars, mapVars
<1> QED BY <1>1, <1>2, <1>4, <1>5, <1>6 DEF HNext

(* With its history the pool still takes the steps of the pool. *)
LEMMA HistoryIsPool == HSpec => Spec
<1>1. HInit => Init
  BY DEF HInit
<1>2. [HNext]_hvars => [Next]_vars
  BY DEF HNext, Next, hvars
<1> QED BY <1>1, <1>2, PTL DEF HSpec, Spec

LEMMA OrderKept == HSpec => [](QueueOK /\ RecentOK /\ wrapped \in BOOLEAN)
<1>1. HInit => QueueOK /\ RecentOK /\ wrapped \in BOOLEAN
  BY NewPool DEF HInit, Init
<1>2. TypeOK /\ TypeOK' /\ PageTablesInverse /\ (QueueOK /\ RecentOK /\ wrapped \in BOOLEAN) /\ [HNext]_hvars
      => (QueueOK /\ RecentOK /\ wrapped \in BOOLEAN)'
  BY StepKeepsOrder
<1>3. HSpec => []TypeOK /\ []PageTablesInverse
  BY HistoryIsPool, TypeCorrect, TablesStayInverse, PTL
<1> QED BY <1>1, <1>2, <1>3, PTL DEF HSpec

-----------------------------------------------------------------------------
(* The theorems. *)

(* Every frame is in m_queue under exactly one priority as long as           *)
(* max_priority has not wrapped, so get_address comes to every frame.        *)
THEOREM FramesStayQueued == HSpec => []FramesQueuedOnce
<1>1. TypeOK /\ QueueOK => FramesQueuedOnce
  <2> SUFFICES ASSUME TypeOK, QueueOK, ~wrapped, NEW a \in Frames
               PROVE  \E k \in Priorities : \A j \in Priorities : m_queue[j] = a <=> j = k
    BY DEF FramesQueuedOnce
  <2>1. QueuedAt(a) \in Priorities
    BY Sizes DEF QueueOK, TypeOK, Priorities
  <2> QED BY <2>1 DEF QueueOK
<1>2. HSpec => []TypeOK
  BY HistoryIsPool, TypeCorrect, PTL
<1> QED BY <1>1, <1>2, OrderKept, PTL

(* The pages used last, as many as there are frames, are in memory as long   *)
(* as max_priority has not wrapped: get_address evicts no other page than    *)
(* the one used longest ago.                                                *)
THEOREM RecentPagesStay == HSpec => []RecentPagesCached
<1>1. RecentOK => RecentPagesCached
  <2> SUFFICES ASSUME RecentOK, NEW i \in DOMAIN recent PROVE Cached(recent[i])
    BY DEF RecentPagesCached
  <2>1. i \in 1 .. Len(recent)
    BY LenProperties DEF RecentOK
  <2> QED BY <2>1, Sizes DEF RecentOK, InMemory, FrameOf, Cached
<1> QED BY <1>1, OrderKept, PTL
=============================================================================
