---------------------------- MODULE MCBufferPool ----------------------------
(* Small pools for BufferPool.  MCBufferPool.cfg: one file, more pages than  *)
(* frames, priorities that wrap after a few uses.  MCBufferPoolCells.cfg: two *)
(* files that share one frame, pages of two cells, so that writes can be     *)
(* partial, cut at the end of the page, or past the end of the file.         *)
EXTENDS BufferPoolHistory
=============================================================================
