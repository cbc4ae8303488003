SPECIFICATION FairEarSpec
CONSTANTS
    EARS_HOLES = 5
    EARS_TICK_MS = 40
    EARS_STALL_MS = 1500
    EARS_CAL_MIN_GAPS = 3
    GAP = 190
    Targets = {0, 6}
    Moments = {20}
    Rests = {50, 100}
    Delays = {1600}
    MaxEvents = 3
CHECK_DEADLOCK FALSE
INVARIANTS KnowsItsPlace OnlyJammedBreaks
PROPERTY EveryMoveEnds
