SPECIFICATION Spec
CONSTANTS
 Half = 16
 UnrollLimit = 6
 Defined <- MCDefined
 ZeroLimit = 2
 None = None
 Programs <- ReadingCalls
 Passes <- MCPasses
PROPERTY Refines
CHECK_DEADLOCK FALSE
