\* A late reply to a repeated open request (expected to fail).
SPECIFICATION Spec
CONSTANT Tries = 2
INVARIANT OpenFlagDropped
CHECK_DEADLOCK FALSE
