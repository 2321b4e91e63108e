\* flush_all_pages in the middle of the work.
SPECIFICATION SyncSpec
CONSTANTS
  NumFrames = 3
  MaxPageCount = 3
  FileName = {f1}
  FD = {3}
  MaxOpenFile = 2
  Handle = {h1,h2}
  Value = {v1}
  Zero = Zero
  Hole = Hole
  NoFile = NoFile
  ReadErrors = FALSE
  WriteErrors = FALSE
CHECK_DEADLOCK FALSE
INVARIANTS PinnedPageStays
