SPECIFICATION Spec
CONSTANTS
  Nodes <- MCNodes
  RuntimeName <- MCRuntime
  Limit = 2
  Depth = 2
  MaxCalls = 2
PROPERTY AnyTimeoutFaults
