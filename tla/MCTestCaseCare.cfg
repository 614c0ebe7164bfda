\* An administrator and a test developer, two attachments, one issue.
SPECIFICATION Spec
CONSTANTS
  adm = adm
  dev = dev
  Clients = {adm, dev}
  Role <- MCRole
  Files = {f1, f2}
  Issues = {i1}
  Nothing = Nothing
  NoCase = NoCase
  Nobody = Nobody
  MaxCalls = 3
  MayCrash = TRUE
SYMMETRY Symmetry
INVARIANTS
  TypeOK
  FilesAsListed
  CallsTakeEffect
  ChangesAudited
PROPERTY LockedStays
