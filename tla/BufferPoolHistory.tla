-------------------------- MODULE BufferPoolHistory --------------------------
(***************************************************************************)
(* BufferPool with the order in which pages were used, as a history.  The   *)
(* queue promises an order of replacement only until max_priority wraps:   *)
(* after that two frames may share a priority, and one of them drops out   *)
(* of m_queue.  Everything else holds after the wrap as before.             *)
(***************************************************************************)
EXTENDS BufferPool

VARIABLES
  recent,    \* the last m_pages distinct pages used, the last one first
  wrapped    \* max_priority has wrapped in this process

hvars == <<vars, recent, wrapped>>

(* The pages in recent but p; no page is twice in recent. *)
Before(p) ==
  IF \A i \in DOMAIN recent : recent[i] # p THEN recent
  ELSE LET i == CHOOSE i \in DOMAIN recent : recent[i] = p
       IN  SubSeq(recent, 1, i - 1) \o SubSeq(recent, i + 1, Len(recent))

Used(p) ==
  LET all == <<p>> \o Before(p)
  IN  /\ wrapped' = (wrapped \/ max_priority' < max_priority)
      /\ recent' = IF wrapped' THEN <<>>
                   ELSE SubSeq(all, 1, IF Len(all) < m_pages THEN Len(all) ELSE m_pages)

HInit == Init /\ recent = <<>> /\ wrapped = FALSE

HNext ==
  \/ \E p \in PageIds : Read(p) /\ Used(p)
  \/ \E p \in PageIds, offset \in Cells, size \in 1 .. PageCells, v \in Vals :
       Write(p, offset, size, v) /\ Used(p)
  \/ (BeginClose \/ FlushFrame) /\ UNCHANGED <<recent, wrapped>>
  \/ (EndClose \/ Crash) /\ recent' = <<>> /\ wrapped' = FALSE

HSpec == HInit /\ [][HNext]_hvars

(* Least recently used: the last m_pages distinct pages that were read or   *)
(* written are all in memory, whatever the order of hits and misses.        *)
RecentPagesCached == \A i \in DOMAIN recent : Cached(recent[i])

(* No frame is lost: every frame is in the queue under exactly one priority, *)
(* so the whole pool stays in use.                                           *)
FramesQueuedOnce ==
  ~wrapped =>
    \A a \in Frames :
      \E k \in Priorities : \A j \in Priorities : m_queue[j] = a <=> j = k
=============================================================================
