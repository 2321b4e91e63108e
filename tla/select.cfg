SPECIFICATION Spec
CONSTANTS
  Null = Null
  Nobody = Nobody
  AInts = {0, 3}
  BInts <- MCBInts
  Width = 3
  MaxT1 = 2
  MaxT2 = 1
  Workers = {"w1", "w2"}
  QueriesOf <- MCQueriesOf
  Data <- MCData
INVARIANTS AnswersMeanQuery SortedUndisturbed AbortsOnlyOn
CHECK_DEADLOCK FALSE
