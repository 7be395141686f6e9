CONSTANTS
    Items = {1, 2, 3}
    ChatOf <- MCChatOf
    Sightings = {4}
    Workers = {w1, w2}
    Runner = runner
    RetryMax = 2
    ClaimBatch = 2
    Oversized = {3}
    MediaGone = {}
    FloodWaits = {1, 3}
    ParkThreshold = 1
    LeftoverRows <- MCLeftover
SYMMETRY MCSymmetry
SPECIFICATION Spec
INVARIANTS TypeOK SingleOwner CountedOnce SummaryMatchesManifest Drained ParkedIsRecorded
PROPERTIES OnlyDrainReopens NothingDropped KeepsLedger
