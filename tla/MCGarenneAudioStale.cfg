SPECIFICATION Spec
CONSTANTS
    AUDIO_PREBUFFER = 2
    AUDIO_MAX_BUF = 4
    AUDIO_WND = 1
    AUDIO_BUF_HIGH = 2
    AUDIO_BUF_LOW = 1
    TCP_WINDOW = 8
    MaxRetries = 1
    BodyLen <- MCBodyLenShort
    PageLen = 1
INVARIANTS OnlyItsSong
