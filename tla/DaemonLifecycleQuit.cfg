SPECIFICATION Spec
INVARIANT NoDoubleClose
CHECK_DEADLOCK FALSE
