CONSTANTS
  j1 = j1  j2 = j2  j3 = j3  w1 = w1  w2 = w2
  Jobs = {j1, j2, j3}
  Workers = {w1, w2}
  MaxAttempts <- OneAndTwo
  Kind <- AllKinds
  BatchSize = 2
  MaxPromote = 1
  MaxAborts = 1
SPECIFICATION FairSpec
INVARIANTS TypeOK OneCopy NothingLost BudgetKept
PROPERTIES LateChangesNothing ImplementsLedger EventuallySettled
