SPECIFICATION Spec
CONSTANTS
    LINK_CHECK_MS = 1
    LINK_RX_PROBE_MS = 2
    LINK_RX_DEAD_MS = 3
    LINK_PROBE_EVERY_MS = 1
    LINK_REASSOC_GRACE_MS = 2
    LINK_REBOOT_AFTER = 2
    ScanMax = 1
    HalfClock = 21
    LastMs = 19
    MaxFails = 2
    NetStates = {"broken", "connecting", "connected"}
INVARIANTS SilenceBounded
PROPERTIES NoRashReboot LadderInOrder
