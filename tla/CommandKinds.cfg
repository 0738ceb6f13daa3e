SPECIFICATION Spec
INVARIANT DocumentedObjectAsks
CHECK_DEADLOCK FALSE
