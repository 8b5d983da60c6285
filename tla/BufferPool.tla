------------------------------ MODULE BufferPool ------------------------------
(***************************************************************************)
(* BufferManager (buffer/buffermanager.cpp) over DiskManager               *)
(* (buffer/diskmanager.cpp): a pool of m_pages frames in front of a set of *)
(* files, with a queue that orders the frames by their last use.           *)
(*                                                                         *)
(* Sizes are counted in cells, a cell being the four bytes of a uint32     *)
(* (the smallest thing the callers write).  The control variables keep the *)
(* names of the C++ members; a std::map is a total function whose missing  *)
(* keys map to NoFrame or NoPage.                                          *)
(***************************************************************************)
EXTENDS Integers, Sequences

CONSTANTS
  Files,         \* the file names the callers use
  LastPage,      \* pages 0..LastPage of a file are addressed
  PageCells,     \* PAGESIZE, in cells
  Vals,          \* what a cell can hold
  Zero,          \* the cell whose bytes are all 0
  Absent,        \* on disk: past the end of the file
  NoPage,        \* a frame that holds no page
  NoFrame,       \* a page, or a priority, that has no frame
  m_pages,       \* number of frames
  PriorityMod    \* 2^32: max_priority is a uint32

Frames     == 0 .. m_pages - 1
Cells      == 0 .. PageCells - 1
PageIds    == Files \X (0 .. LastPage)
Priorities == 0 .. PriorityMod - 1

ASSUME SizesAssumption ==
  /\ LastPage \in Nat
  /\ PageCells \in Nat \ {0}
  /\ m_pages \in Nat \ {0}
  /\ PriorityMod \in Nat
  /\ m_pages < PriorityMod

ASSUME SentinelsAssumption ==
  /\ Zero \in Vals
  /\ Absent \notin Vals
  /\ NoPage \notin PageIds
  /\ NoFrame \notin Int

VARIABLES
  m_buffer,          \* the content of each frame
  m_addr_to_page,    \* the page a frame holds
  m_page_to_addr,    \* the frame that holds a page
  m_priority,        \* the last priority given to a frame; 0: none yet
  m_queue,           \* which frame holds which priority
  max_priority,      \* the last priority handed out
  m_disk_managers,   \* the files opened so far
  disk,              \* the files themselves
  dtor               \* the frame ~BufferManager flushes next, NoFrame when not in it

vars == <<m_buffer, m_addr_to_page, m_page_to_addr, m_priority, m_queue,
          max_priority, m_disk_managers, disk, dtor>>

mapVars == <<m_addr_to_page, m_page_to_addr>>

-----------------------------------------------------------------------------
(* What the constructor builds: zeroed frames that hold no page, frame i queued *)
(* with priority i + 1.                                                      *)
NewBuffer == [a \in Frames |-> [c \in Cells |-> Zero]]
NewQueue  == [k \in Priorities |-> IF k \in 1 .. m_pages THEN k - 1 ELSE NoFrame]
NoPages   == [a \in Frames |-> NoPage]
NoAddrs   == [p \in PageIds |-> NoFrame]
NoUse     == [a \in Frames |-> 0]

Init ==
  /\ m_buffer = NewBuffer
  /\ m_addr_to_page = NoPages
  /\ m_page_to_addr = NoAddrs
  /\ m_priority = NoUse
  /\ m_queue = NewQueue
  /\ max_priority = m_pages
  /\ m_disk_managers = {}
  /\ dtor = NoFrame
  /\ disk = [p \in PageIds |-> [c \in Cells |-> Absent]]

(* The next process constructs its pool over the files it finds. *)
Restart ==
  /\ m_buffer' = NewBuffer
  /\ m_addr_to_page' = NoPages
  /\ m_page_to_addr' = NoAddrs
  /\ m_priority' = NoUse
  /\ m_queue' = NewQueue
  /\ max_priority' = m_pages
  /\ m_disk_managers' = {}
  /\ dtor' = NoFrame
  /\ UNCHANGED disk

-----------------------------------------------------------------------------
(* DiskManager.  A file that does not exist is created with one zero uint32; *)
(* a write past the end leaves a hole that reads as zeros.                   *)

Opened(image, f) ==
  IF f \notin m_disk_managers /\ image[<<f, 0>>][0] = Absent
  THEN [image EXCEPT ![<<f, 0>>] = [@ EXCEPT ![0] = Zero]]
  ELSE image

Stored(image, p, content) ==
  [q \in PageIds |->
     IF q = p THEN content
     ELSE IF q[1] = p[1] /\ q[2] < p[2]
     THEN [c \in Cells |-> IF image[q][c] = Absent THEN Zero ELSE image[q][c]]
     ELSE image[q]]

(* fread stops at the end of the file: the rest of the frame keeps the bytes *)
(* of the page that was there before.                                        *)
ReadInto(old, image, p) ==
  [c \in Cells |-> IF image[p][c] = Absent THEN old[c] ELSE image[p][c]]

-----------------------------------------------------------------------------
(* get_address, in its two cases. *)

Cached(p) == m_page_to_addr[p] # NoFrame

(* m_queue.begin(): the smallest priority in the queue. *)
IsFront(k) ==
  /\ m_queue[k] # NoFrame
  /\ \A j \in Priorities : m_queue[j] # NoFrame => k <= j

(* Mutants of Touch: the priority is a wider integer; the old priority of the *)
(* frame stays queued; the frame is not queued again.                         *)
TouchNoWrap(queue, addr) ==
  /\ max_priority' = max_priority + 1
  /\ m_priority' = [m_priority EXCEPT ![addr] = max_priority + 1]
  /\ m_queue' = [[queue EXCEPT ![m_priority[addr]] = NoFrame]
                   EXCEPT ![max_priority + 1] = addr]

TouchKeepsOld(queue, addr) ==
  LET next == (max_priority + 1) % PriorityMod
  IN  /\ max_priority' = next
      /\ m_priority' = [m_priority EXCEPT ![addr] = next]
      /\ m_queue' = [queue EXCEPT ![next] = addr]

TouchDropsFrame(queue, addr) ==
  LET next == (max_priority + 1) % PriorityMod
  IN  /\ max_priority' = next
      /\ m_priority' = [m_priority EXCEPT ![addr] = next]
      /\ m_queue' = [queue EXCEPT ![m_priority[addr]] = NoFrame]

(* The last lines of get_address, after the queue has lost its front or not. *)
Touch(queue, addr) ==
  LET next == (max_priority + 1) % PriorityMod
  IN  /\ max_priority' = next
      /\ m_priority' = [m_priority EXCEPT ![addr] = next]
      /\ m_queue' = [[queue EXCEPT ![m_priority[addr]] = NoFrame] EXCEPT ![next] = addr]

Hit(p, addr) ==
  /\ m_page_to_addr[p] = addr
  /\ Touch(m_queue, addr)
  /\ UNCHANGED <<mapVars, m_disk_managers, disk>>

(* A mutant: an evicted page is forgotten, not written back. *)
NotWrittenBack(addr) == disk

(* The disk once the page the frame held has been written back. *)
WrittenBack(addr) ==
  IF m_addr_to_page[addr] = NoPage THEN disk
  ELSE Stored(disk, m_addr_to_page[addr], m_buffer[addr])

(* A mutant of Miss: the evicted page keeps its entry in m_page_to_addr. *)
MissKeepsVictim(p, addr) ==
  /\ ~Cached(p)
  /\ \E k \in Priorities :
       /\ IsFront(k)
       /\ m_queue[k] = addr
       /\ Touch([m_queue EXCEPT ![k] = NoFrame], addr)
  /\ m_page_to_addr' = [m_page_to_addr EXCEPT ![p] = addr]
  /\ m_addr_to_page' = [m_addr_to_page EXCEPT ![addr] = p]
  /\ disk' = Opened(WrittenBack(addr), p[1])
  /\ m_disk_managers' = m_disk_managers \cup {p[1]}

Miss(p, addr) ==
  /\ ~Cached(p)
  /\ \E k \in Priorities :
       /\ IsFront(k)
       /\ m_queue[k] = addr
       /\ Touch([m_queue EXCEPT ![k] = NoFrame], addr)
  /\ m_page_to_addr' = [q \in PageIds |->
                          IF q = p THEN addr
                          ELSE IF q = m_addr_to_page[addr] THEN NoFrame
                          ELSE m_page_to_addr[q]]
  /\ m_addr_to_page' = [m_addr_to_page EXCEPT ![addr] = p]
  /\ disk' = Opened(WrittenBack(addr), p[1])
  /\ m_disk_managers' = m_disk_managers \cup {p[1]}

GetAddress(p, addr) == Hit(p, addr) \/ Miss(p, addr)

(* What the frame holds when get_address returns. *)
Loaded(p, addr) ==
  IF Cached(p) THEN m_buffer[addr]
  ELSE ReadInto(m_buffer[addr], Opened(WrittenBack(addr), p[1]), p)

-----------------------------------------------------------------------------
(* The public operations. *)

Read(p) ==
  /\ dtor = NoFrame
  /\ \E addr \in Frames :
       /\ GetAddress(p, addr)
       /\ m_buffer' = [m_buffer EXCEPT ![addr] = Loaded(p, addr)]
  /\ UNCHANGED dtor

(* write() of size cells from offset on: what does not fit the page is dropped. *)
Written(offset, size) == {c \in Cells : offset <= c /\ c < offset + size}

Write(p, offset, size, v) ==
  /\ dtor = NoFrame
  /\ \E addr \in Frames :
       /\ GetAddress(p, addr)
       /\ m_buffer' = [m_buffer EXCEPT ![addr] =
            [c \in Cells |-> IF c \in Written(offset, size) THEN v
                             ELSE Loaded(p, addr)[c]]]
  /\ UNCHANGED dtor

(* ~BufferManager writes every mapped frame back, in the order of addresses. *)
(* A mutant of BeginClose: the loop skips the first frame. *)
BeginCloseAtOne ==
  /\ dtor = NoFrame
  /\ dtor' = 1
  /\ UNCHANGED <<m_buffer, mapVars, m_priority, m_queue, max_priority,
                 m_disk_managers, disk>>

BeginClose ==
  /\ dtor = NoFrame
  /\ dtor' = 0
  /\ UNCHANGED <<m_buffer, mapVars, m_priority, m_queue, max_priority,
                 m_disk_managers, disk>>

FlushFrame ==
  /\ dtor \in Frames
  /\ disk' = WrittenBack(dtor)
  /\ dtor' = dtor + 1
  /\ UNCHANGED <<m_buffer, mapVars, m_priority, m_queue, max_priority,
                 m_disk_managers>>

(* The files are closed; the next process constructs a new pool. *)
EndClose ==
  /\ dtor = m_pages
  /\ Restart

(* The process is killed, at any point; the next one finds the files as they *)
(* are.  fwrite of a whole page is taken to reach the file when it returns   *)
(* (a FILE that never holds back a full block); README.md names this bound.  *)
Crash == Restart

Next ==
  \/ \E p \in PageIds : Read(p)
  \/ \E p \in PageIds, offset \in Cells, size \in 1 .. PageCells, v \in Vals :
       Write(p, offset, size, v)
  \/ BeginClose
  \/ FlushFrame
  \/ EndClose
  \/ Crash

Spec == Init /\ [][Next]_vars

-----------------------------------------------------------------------------
(* Properties. *)

TypeOK ==
  /\ m_buffer \in [Frames -> [Cells -> Vals]]
  /\ m_addr_to_page \in [Frames -> PageIds \cup {NoPage}]
  /\ m_page_to_addr \in [PageIds -> Frames \cup {NoFrame}]
  /\ m_priority \in [Frames -> Priorities]
  /\ m_queue \in [Priorities -> Frames \cup {NoFrame}]
  /\ max_priority \in Priorities
  /\ m_disk_managers \in SUBSET Files
  /\ disk \in [PageIds -> [Cells -> Vals \cup {Absent}]]
  /\ dtor \in (0 .. m_pages) \cup {NoFrame}

(* No page is ever in two frames and no frame serves two pages: the two maps *)
(* get_address keeps by hand are inverse to each other.                      *)
PageTablesInverse ==
  \A p \in PageIds, a \in Frames :
    m_page_to_addr[p] = a <=> m_addr_to_page[a] = p

(* get_address can always take m_queue.begin(): the queue is never empty,   *)
(* even after max_priority has wrapped and entries have been overwritten.   *)
VictimAvailable == \E k \in Priorities : m_queue[k] # NoFrame

(* What the next read of a page would find. *)
View(p) == IF Cached(p) THEN m_buffer[m_page_to_addr[p]] ELSE disk[p]

(* When ~BufferManager has gone through the frames, every page on disk is   *)
(* what its last reader or writer saw.                                      *)
FlushedAtClose == dtor = m_pages => \A p \in PageIds : disk[p] = View(p)

(* The pool implements the store its callers rely on: loading, evicting,    *)
(* growing files and closing never change a value a caller has written, and *)
(* a crash takes every page back to one content it had, as a whole.         *)
Store == INSTANCE PageStore WITH
           cur <- [p \in PageIds |-> View(p)], durable <- disk

ImplementsStore == Store!Spec
=============================================================================
