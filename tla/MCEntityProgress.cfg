SPECIFICATION FairSpec
CONSTANTS
  adm = adm
  w1 = w1
  w2 = w2
  s1 = s1
  s2 = s2
  Ids = {i1}
  Requests = {adm, w2}
  Servers = {s1, s2}
  Role <- MCRole
  ServerOf <- MCServerOf
  Absent = Absent
  Nobody = Nobody
  MaxTime = 1
  MaxCalls = 3
PROPERTIES
  EveryCallAnswered
  LockComesFree
