SPECIFICATION Spec
CONSTANTS
  Entries <- const_Entries
  Order = 3
  MaxPage = 12
  Eps = 1
  ScanOps = {"EQUAL_TO", "NOT_EQUAL", "GREAT_THAN"}
  MaxLeaks = 2
  Damages = {}
  AllocFails = TRUE
INVARIANTS
  TypeOK
  WellFormed
  Findable
  UniqueValues
PROPERTIES
  ImplementsIndex
CHECK_DEADLOCK FALSE
