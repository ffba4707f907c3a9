SPECIFICATION Spec
CONSTANTS
 Half = 16384
 Stack = 8000
 Shared <- MCShared
 Memory <- MCMemory
 None = None
 Functions <- MCFunctions
INVARIANTS TypeOK SameOutcome ConstantsExact FrameKept
PROPERTY RunsEnd
CHECK_DEADLOCK FALSE
