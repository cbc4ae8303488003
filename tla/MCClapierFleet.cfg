SPECIFICATION Spec
CONSTANTS
    Macs = {1, 2}
    Ips = {a, b}
    NoIp = off
    Speaking = {1}
    Polling = TRUE
    MaxMoves = 1
SYMMETRY Addresses
INVARIANTS OneNamelessPerAddress SpokenPulseIsItsOwn WhileLeasesLast
