CONSTANTS
    Chats = {c1}
    MaxID = 2
    Files = {"f1", "f2"}
    FileOf <- MCFileOf
    Procs = {p1}
    RunIDs = {r1, r2}
    NoRun = NoRun
    Holds = 1
    p1 = p1
    p2 = p2
    CommandsOf <- MCAlone
    Limit = 0
    Rewalk = FALSE
    Big = {"f2"}
    HasPremium = TRUE
    Hardlink = FALSE
    Filters <- MCFilters
SPECIFICATION Spec
INVARIANT DeferredIsFetched
SYMMETRY MCSymmetry
CHECK_DEADLOCK FALSE
