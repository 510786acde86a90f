SPECIFICATION Spec
INVARIANT ReloadIsValue
CHECK_DEADLOCK FALSE
