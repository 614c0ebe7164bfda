\* update's promise that a change made since the client read the entity is
\* found out, next to a bulk save.
SPECIFICATION Spec
CONSTANTS
  adm = adm
  w1 = w1
  w2 = w2
  s1 = s1
  s2 = s2
  Ids = {i1}
  Requests = {adm, w2}
  Servers = {s1, s2}
  Role <- MCRole
  ServerOf <- MCServerOf
  Absent = Absent
  Nobody = Nobody
  MaxTime = 1
  MaxCalls = 2
INVARIANT CheckFindsEveryChange
