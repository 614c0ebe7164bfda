\* One tester, test cases under two groups.
SPECIFICATION Spec
CONSTANTS
  u = u
  v = v
  c1 = c1
  c2 = c2
  s1 = s1
  Clients = {u}
  Cases = {c1, c2}
  Depth <- MCDepth
  Reports = {"RUNNING", "PASSED"}
  Servers = {s1}
  ServerOf <- MCServerOf
  Nobody = Nobody
  NoLaunch = NoLaunch
  MaxTime = 4
  MaxCalls = 4
  MayCrash = FALSE
INVARIANT DurationIsTotal
