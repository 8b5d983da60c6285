CONSTANTS
  Files = {f1, f2}
  LastPage = 1
  PageCells = 2
  Vals = {0, 1}
  Zero = 0
  Absent = Absent
  NoPage = NoPage
  NoFrame = NoFrame
  m_pages = 1
  PriorityMod = 3
SPECIFICATION HSpec
PROPERTY ImplementsStore
