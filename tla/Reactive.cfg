CONSTANTS
  s = s  t = t  c = c  e1 = e1  e2 = e2
  Event = Event  Cleanup = Cleanup
  Signals = {s, t}
  Computeds = {c}
  Effects = {c, e1, e2}
  Slots = {1, 2}
  Reads <- MCReads
  Writes <- MCWrites
  Makes <- MCMakes
  Frees <- MCFrees
  Calls <- MCCalls
  MaxReruns = 2
  MaxEarly = 1
SPECIFICATION FairSpec
INVARIANTS TypeOK GraphSound FlushSound NoMissedUpdate
PROPERTY CascadesEnd
