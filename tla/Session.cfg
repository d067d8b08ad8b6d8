\* One client, three open timeouts.
SPECIFICATION Spec
CONSTANT Tries = 3
INVARIANTS TypeOK OneReader CloseSent ReceiveErrReal NoSilentStop
PROPERTIES RunReturns Converses
\* The client returns.
CHECK_DEADLOCK FALSE
