SPECIFICATION FairSpec
CONSTANTS
  r1 = r1  r2 = r2  r3 = r3  d1 = d1  d2 = d2
  Requests = {r1, r2}
  Releases = {d1}
  Shutdown = Shutdown
  None = None
  MaxWards = 2
INVARIANTS ChromeAccounted InstanceReachable DestroyLeavesNothing
PROPERTY OnlyOwnReaped
CHECK_DEADLOCK FALSE
