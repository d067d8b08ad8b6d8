SPECIFICATION Spec
CONSTANTS
    Configs <- MCConfigs
    Scale = 8
    Window = 2
    AlphaPart = 2
    MinWaitingTime = 1
    SleepPart = 4
    SendTimes = {1, 4}
    Delays = {0, 3, 8}
    Lates = {0, 1, 4, 7}
    MaxFrame = 6
CHECK_DEADLOCK FALSE
INVARIANTS
    TypeOK
    SlotOnce
    SentBound
PROPERTY Ends
