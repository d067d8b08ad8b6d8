SPECIFICATION Spec
CONSTANTS
    Scenario <- MCScenario
    Ifaces <- MCIfaces
    IPv4s = {10, 11, 12, 13, 14}
    IPv6s = {0, 1, 20}
    ZeroIP4 = 10
    ZeroIP6 = 0
    LinkLocal = {20}
    AnyHost = 99
    NoPort = 0
    DefaultPort = 2
CHECK_DEADLOCK FALSE
INVARIANTS
    TypeOK
    ParamsAgreed
    RestrictionAccepted
    Answered
    MeasuresRight
    FillAgreed
    ListenersRight
