\* Two testers whose server may die, under weak fairness.
SPECIFICATION FairSpec
CONSTANTS
  u = u
  v = v
  c1 = c1
  c2 = c2
  s1 = s1
  Clients = {u, v}
  Cases = {c1, c2}
  Depth <- MCDepth
  Reports = {"FAILED", "RUNNING"}
  Servers = {s1}
  ServerOf <- MCServerOf
  Nobody = Nobody
  NoLaunch = NoLaunch
  MaxTime = 1
  MaxCalls = 2
  MayCrash = TRUE
INVARIANT AuditComplete
PROPERTY EveryCallAnswered
