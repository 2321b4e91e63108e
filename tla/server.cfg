SPECIFICATION Spec
CONSTANTS
  Clients <- MCClients
  Workers = {w1, w2}
  Asks <- MCAsks
  MaxRequests = 2
  MaxFaults = 1
INVARIANTS TypeOK AnswersInTurn GoesOnUnless
PROPERTY EveryRequestAnswered
CHECK_DEADLOCK FALSE
