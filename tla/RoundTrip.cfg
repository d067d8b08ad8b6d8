\* A test of at most four requests in batches of two, five receipts each way.
SPECIFICATION Spec
CONSTANTS
    SeqMod = 8
    WindowBits = 3
    Multiply = 2
    MaxSend = 4
    MaxServed = 5
    MaxReceived = 4
INVARIANTS
    TypeOK
    LostDownSound
    LostUpExact
    LoopAgrees
    NoUnknownSeqno
    NoLossUnderflow
    NoDirectionUnderflow
    OneWayLoss
\* The test ends.
CHECK_DEADLOCK FALSE
