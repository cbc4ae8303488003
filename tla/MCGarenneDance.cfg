SPECIFICATION FairSpec
CONSTANTS
    Led = led
    Motor = motor
    Palette = palette
    Other = other
    Rejected = rejected
    CHOR_MAX_STEPS = 3
    Lateness = {0, 130}
    Encores <- MCEncores
    Texts <- MCTexts
    Files <- MCFiles
CHECK_DEADLOCK FALSE
INVARIANTS TypeOK PlayedAsAsked IdleLooksIdle
PROPERTY EveryDanceEnds
