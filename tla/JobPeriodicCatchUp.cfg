CONSTANTS
  w1 = w1  w2 = w2
  Schedulers = {w1, w2}
  Schedules <- Both
  PollWindow = 1
  MaxCatchUp = 3
  Horizon = 4
  PassBound = 2
  MaxAborts = 1
SPECIFICATION PeriodicFairSpec
INVARIANTS PeriodicTypeOK SlotsExact
PROPERTY KeepsFiring
