CONSTANTS
    Rows = {"r1", "r2"}
    Sightings = {}
    Own = {}
    RowOf <- MCNoSightings
    Names = {"a", "a1", "b"}
    NameOf <- MCNameOf
    IndexOf <- MCIndexOf
    Inodes = {1, 2, 3, 4, 5}
    Workers = {"w1"}
    Configs <- MCDefault
    LinkAnswers = {TRUE}
    CopyAnswers = {TRUE}
    UserMeddles = TRUE
    Gc = FALSE
SPECIFICATION Spec
INVARIANT RequeuedIsRepaired
CHECK_DEADLOCK FALSE
