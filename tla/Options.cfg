SPECIFICATION Spec
CONSTANTS
  Declared <- MCDeclared
  ToLower <- MCToLower
  Number <- MCNumber
  Printed <- MCPrinted
  Characters = {"a", "b", "B", "NUL"}
  Arguments <- MCArguments
  Values <- MCValues
  MaxArgs = 2
  MaxCalls = 2
CHECK_DEADLOCK FALSE
INVARIANTS RoundTrip LostUnlessCarried InvalidOnlyByFailure
PROPERTIES ParseMeetsReference
