SPECIFICATION Spec
CONSTANTS
 Half = 16384
 Stack = 8000
 Shared <- MCShared
 Memory <- MCMemory
 None = None
 Functions <- MCJoined
INVARIANT SameOutcome
CHECK_DEADLOCK FALSE
