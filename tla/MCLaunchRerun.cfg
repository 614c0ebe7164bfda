\* One tester runs a test case a second time.
SPECIFICATION Spec
CONSTANTS
  u = u
  v = v
  c1 = c1
  c2 = c2
  s1 = s1
  Clients = {u}
  Cases = {c1, c2}
  Depth <- MCDepth
  Reports = {"RUNNING", "PASSED"}
  Servers = {s1}
  ServerOf <- MCServerOf
  Nobody = Nobody
  NoLaunch = NoLaunch
  MaxTime = 3
  MaxCalls = 3
  MayCrash = FALSE
INVARIANT DurationsElapse
