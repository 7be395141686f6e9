CONSTANTS
    Items = {1, 2}
    ChatOf <- MCChatOf
    Sightings = {3}
    Workers = {w1, w2}
    Runner = runner
    RetryMax = 2
    ClaimBatch = 2
    Oversized = {}
    MediaGone = {2}
    FloodWaits = {1, 3}
    ParkThreshold = 1
    LeftoverRows <- MCLeftover
SPECIFICATION FairSpec
PROPERTIES RunTerminates
