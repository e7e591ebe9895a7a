CONSTANTS
  j1 = j1  j2 = j2  j3 = j3  w1 = w1  w2 = w2  mail = mail  media = media
  Jobs = {j1, j2, j3}
  Workers = {w1, w2}
  MaxAttempts <- OneAndTwo
  QueueOf <- TwoQueues
  Serves <- Split
  Known = {j1, j3}
  BatchSize = 2
  MaxPromote = 1
  DeadCap = 1
  MaxCancels = 1
SPECIFICATION FairSpec
INVARIANTS TypeOK QueuesSound
PROPERTIES QueueOrder ImplementsLedger EventuallySettled
