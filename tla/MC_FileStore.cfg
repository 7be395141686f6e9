CONSTANTS
    Rows = {"r1"}
    Sightings = {"s1", "own"}
    Own = {"own"}
    RowOf <- MCRowOf
    Names = {"a", "a1", "c"}
    NameOf <- MCNameOf
    IndexOf <- MCIndexOf
    Inodes = {1, 2, 3, 4}
    Workers = {"w1"}
    Configs <- MCConfigs
    LinkAnswers = {TRUE, FALSE}
    CopyAnswers = {TRUE}
    UserMeddles = TRUE
    Gc = TRUE
SPECIFICATION Spec
INVARIANTS BlobsAreWhole DoneHoldsItsData
CHECK_DEADLOCK FALSE
VIEW MCView
