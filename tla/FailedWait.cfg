SPECIFICATION Spec
CONSTANT WaitErrors = {"lost", "memory"}
INVARIANT PendingWorkKeepsObjects
CHECK_DEADLOCK FALSE
