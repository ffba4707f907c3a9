SPECIFICATION Spec
CONSTANTS
 Half = 16
 UnrollLimit = 6
 Defined <- MCDefined
 ZeroLimit = 2
 None = None
 Programs <- MCPrograms
 Passes <- MCPasses
INVARIANTS TypeOK SsaForm AnalysesExact UsersListed
PROPERTIES PassesEnd Refines
CHECK_DEADLOCK FALSE
