CONSTANTS
    Workers = {w1, w2, w3}
    Slots = 2
    Waits = {0, 1, 2}
    Threshold = 1
    MaxTime = 3
SPECIFICATION FairSpec
INVARIANTS TypeOK SlotsBalance PauseOutlasts NoLostWakeup
PROPERTIES PauseHolds WaitersReleased
