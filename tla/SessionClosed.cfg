\* An open request that is accepted and closed (expected to fail).
SPECIFICATION Spec
CONSTANT Tries = 2
INVARIANT AcceptedClosed
CHECK_DEADLOCK FALSE
