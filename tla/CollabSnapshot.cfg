CONSTANTS
  p1 = p1  p2 = p2  c1 = c1  c2 = c2  e1 = e1  e2 = e2
  Nowhere = Nowhere
  Procs = {p1}
  Clients = {c1}
  Writers = {c1}
  Edits = {e1}
  Author <- AllFirst
  CheckpointEvery = 1
  Failures = {}
  MaxBreaks = 1
SPECIFICATION Spec
INVARIANT SnapshotComplete
CHECK_DEADLOCK FALSE
