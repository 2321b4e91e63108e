\* One file with more pages than frames, then sync and close.
SPECIFICATION ShutdownSpec
CONSTANTS
  NumFrames = 3
  MaxPageCount = 4
  FileName = {f1}
  FD = {3}
  MaxOpenFile = 2
  Handle = {h1}
  Value = {v1,v2}
  Zero = Zero
  Hole = Hole
  NoFile = NoFile
  ReadErrors = FALSE
  WriteErrors = FALSE
CHECK_DEADLOCK FALSE
INVARIANTS FramesAccounted
PROPERTIES ImplementsStore
