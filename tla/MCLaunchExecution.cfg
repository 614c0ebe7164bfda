\* Two testers, two test cases, one server.
SPECIFICATION Spec
CONSTANTS
  u = u
  v = v
  c1 = c1
  c2 = c2
  s1 = s1
  Clients = {u, v}
  Cases = {c1, c2}
  Depth <- MCDepth
  Reports = {"PASSED"}
  Servers = {s1}
  ServerOf <- MCServerOf
  Nobody = Nobody
  NoLaunch = NoLaunch
  MaxTime = 3
  MaxCalls = 3
  MayCrash = FALSE
SYMMETRY Symmetry
INVARIANTS
  TypeOK
  ResultsStay
  ReportsDoNotCollide
PROPERTY TimesStay
