SPECIFICATION PolledFairSpec
CONSTANTS
    Tests = {t1, t2}
    Filterable = {t1}
    Mapped = {t2}
    Outcomes = {"PASSED", "FAILED"}
    None = None
    MaxEvents = 3
    MaxFaults = 1
    MaxInFlight = 2
    Views = {"launch", "launches", "audit", "users"}
    ListIds <- MCIds
    ListBegin <- MCBegin
    ListFilters <- MCFilters
    ListAll = "all"
    ListPageSize = 1
    ListVisiblePages = 1
    ListEvents = 1
    ListInFlight = 2
INVARIANTS
    PolledTypeOK
    FilterShown
PROPERTIES
    ControlsEventuallyAgree
    StatusEventuallyShown
    ListEventuallyShown
CHECK_DEADLOCK FALSE
