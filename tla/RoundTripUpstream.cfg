\* A network that repeats requests (expected to fail).
SPECIFICATION Spec
CONSTANTS
    SeqMod = 8
    WindowBits = 3
    Multiply = 2
    MaxSend = 4
    MaxServed = 5
    MaxReceived = 4
INVARIANTS UpstreamLoss
\* The test ends.
CHECK_DEADLOCK FALSE
