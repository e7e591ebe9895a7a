CONSTANTS
  v1 = v1  v2 = v2  m1 = m1  c1 = c1  c2 = c2  t1 = t1  t2 = t2
  Bare = Bare
  NoView = NoView
  Views = {v1, v2}
  Muts = {m1}
  Tasks = {t1, t2}
  Home <- OwnHomes
  Match <- FirstOnly
  Interrupts <- Interrupted
  MaxBreaks = 1
SPECIFICATION FairSpec
INVARIANTS TypeOK OverlaysBacked
PROPERTIES WritesSettle
CHECK_DEADLOCK FALSE
