SPECIFICATION FairSpec
CONSTANTS
  c1 = c1
  c2 = c2
  c3 = c3
  Clients = {c1, c2, c3}
  Root = c1
  Capacity = 1
  MaxReqs = 2
INVARIANTS NoLostRequest RunOnceInOrder 
PROPERTIES ExecuteReturns StopHonoured
