CONSTANTS
  p1 = p1  p2 = p2  c1 = c1  c2 = c2  e1 = e1  e2 = e2
  Nowhere = Nowhere
  Procs = {p1, p2}
  Clients = {c1, c2}
  Writers = {c1}
  Edits = {e1}
  Author <- AllFirst
  CheckpointEvery = 2
  Failures = {"load", "save", "subscribe", "publish", "doorbell"}
  MaxBreaks = 1
SPECIFICATION Spec
INVARIANTS TypeOK TrimmedIsSaved CursorsCover
CHECK_DEADLOCK FALSE
SYMMETRY Alike
