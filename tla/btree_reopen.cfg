SPECIFICATION FullSpec
CONSTANTS
  Entries <- const_Entries
  Order = 3
  MaxPage = 12
  Eps = 1
  ScanOps = {"EQUAL_TO", "NOT_EQUAL", "GREAT_THAN"}
  MaxLeaks = 1
  Damages = {"reopen"}
  AllocFails = FALSE
PROPERTIES
  InvalidKeyMeansAbsent
CHECK_DEADLOCK FALSE
