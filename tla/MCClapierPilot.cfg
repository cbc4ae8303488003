SPECIFICATION FairSpec
CONSTANTS
    Posts = {p1, p2}
    None = none
    Rabbits = {r1, r2}
    SayRabbit = r1
    Presses <- MCPresses
CHECK_DEADLOCK FALSE
INVARIANTS TypeOK PlaysWhatWasSent ToldTruly GateHolds
PROPERTY EveryFormAnswered
