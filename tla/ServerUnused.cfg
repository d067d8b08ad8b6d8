\* Connections that are never used (expected to fail).
SPECIFICATION Spec
CONSTANTS
    Token = {t1, t2, t3}
    NoToken = NoToken
    Addr = {a1}
    OpenParams <- MCParams
    RequestSeqno = {0}
    RequestLength = {1}
    SeqMod = 1
    WindowBits = 1
    MinInterval = 0
    PacketBurst = 1
    MaxDuration = 0
    MaxDurationGrace = 0
    Timeout = 1
    TimeoutGrace = 1
    IntervalFactor = 1
    MaxLength = 0
    CheckExpiredCount = 2
    MaxTime = 4
    MaxUses = 1
SYMMETRY MCSymmetry
PROPERTIES
    UnusedSwept
