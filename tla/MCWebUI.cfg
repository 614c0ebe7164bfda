SPECIFICATION UISpec
CONSTANTS
    t1 = t1
    t2 = t2
    none = none
    w1 = w1
    w2 = w2
    k1 = k1
    k2 = k2
    c1 = c1
    a1 = a1
    s1 = s1
    Cases = {t1, t2}
    Texts = {"name"}
    Wordings = {w1, w2}
    Blank = Blank
    Keys = {k1}
    NoKey = NoKey
    Values = {c1}
    Files = {a1}
    Begin <- MCBegin
    NoCase = NoCase
    Unknown = Unknown
    MaxFaults = 1
    MaxEvents = 2
    MaxInFlight = 2
    Views <- AllViews
    Model <- MCModel
INVARIANTS
    UITypeOK
    ShownAsStored
    ListingComplete
    BulkDoneOrTold
    CommentsAsStored
    LaunchedOnce
    AttributesAsStored
PROPERTIES
    NoForeignChangeOverwritten
    BulkKeepsTheRest
    SettingsKeepOthers
CHECK_DEADLOCK FALSE
