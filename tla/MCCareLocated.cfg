\* One administrator, one attachment.
SPECIFICATION Spec
CONSTANTS
  adm = adm
  dev = dev
  Clients = {adm}
  Role <- MCRole
  Files = {f1}
  Issues = {i1}
  Nothing = Nothing
  NoCase = NoCase
  Nobody = Nobody
  MaxCalls = 2
  MayCrash = FALSE
INVARIANT AttachmentsLocated
