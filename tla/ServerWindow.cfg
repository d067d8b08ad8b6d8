\* The received window with late requests (expected to fail).
SPECIFICATION Spec
CONSTANTS
    Token = {t1}
    NoToken = NoToken
    Addr = {a1, a2}
    OpenParams <- MCRoundParams
    RequestSeqno = {0, 1, 2, 3}
    RequestLength = {0, 1, 3}
    SeqMod = 8
    WindowBits = 3
    MinInterval = 0
    PacketBurst = 2
    MaxDuration = 4
    MaxDurationGrace = 1
    Timeout = 2
    TimeoutGrace = 1
    IntervalFactor = 2
    MaxLength = 2
    CheckExpiredCount = 1
    MaxTime = 0
    MaxUses = 4
INVARIANTS
    WindowComplete
