CONSTANTS
  ta = ta  tb = tb  u1 = u1  u2 = u2  a1 = a1  a2 = a2  b1 = b1
  Nobody = Nobody
  Tabs = {ta, tb}
  Users = {u1, u2}
  Calls = {a1, a2}
  TabOf <- TwoTabs
  ReplaySafe = {a1, a2}
  Refreshers = {"provider", "server"}
  MaxChanges = 3
SPECIFICATION FairSpec
INVARIANTS TypeOK StaleNeverDelivered TabsAgree
PROPERTIES NoResurrection CallsEnd
CHECK_DEADLOCK FALSE
