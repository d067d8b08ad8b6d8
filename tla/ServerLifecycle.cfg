\* Three listeners, of which any may fail, and a caller of Shutdown.
SPECIFICATION Spec
CONSTANT N = 3
INVARIANTS TypeOK ClosedOnce ReturnsLast NoSpuriousError
PROPERTY StopsAll
\* The server stops for good.
CHECK_DEADLOCK FALSE
