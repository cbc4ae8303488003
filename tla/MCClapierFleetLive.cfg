SPECIFICATION FairSpec
CONSTANTS
    Macs = {1, 2}
    Ips = {a, b}
    NoIp = off
    Speaking = {1}
    Polling = FALSE
    MaxMoves = 2
PROPERTIES SettledIsListed
CHECK_DEADLOCK FALSE
