CONSTANTS
  Files = {f1}
  LastPage = 2
  PageCells = 1
  Vals = {0, 1}
  Zero = 0
  Absent = Absent
  NoPage = NoPage
  NoFrame = NoFrame
  m_pages = 2
  PriorityMod = 8
SPECIFICATION HSpec
INVARIANTS TypeOK PageTablesInverse VictimAvailable FlushedAtClose
           RecentPagesCached FramesQueuedOnce
PROPERTY ImplementsStore
