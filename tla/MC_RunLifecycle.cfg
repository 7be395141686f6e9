CONSTANTS
    Chats = {c1}
    MaxID = 2
    Files = {"f1", "f2"}
    FileOf <- MCFileOf
    Procs = {p1, p2}
    RunIDs = {r1, r2}
    NoRun = NoRun
    Holds = 1
    p1 = p1
    p2 = p2
    CommandsOf <- MCCommandsOf
    Limit = 0
    Rewalk = TRUE
    Big = {"f2"}
    HasPremium = TRUE
    Hardlink = TRUE
    Filters <- MCFilters
SPECIFICATION Spec
INVARIANTS WatermarkCovers StrandedIsResumable
 
SYMMETRY MCSymmetry
CHECK_DEADLOCK FALSE
