\* One file; frames are lost to failed writes until pages must be evicted.
SPECIFICATION Spec
CONSTANTS
  NumFrames = 3
  MaxPageCount = 3
  FileName = {f1}
  FD = {3}
  MaxOpenFile = 1
  Handle = {h1, h2}
  Value = {v1}
  Zero = Zero
  Hole = Hole
  NoFile = NoFile
  ReadErrors = TRUE
  WriteErrors = TRUE
SYMMETRY Symmetry
INVARIANTS TypeOK ReusableFrames PinnedPageStays HeaderCounts
CHECK_DEADLOCK FALSE
