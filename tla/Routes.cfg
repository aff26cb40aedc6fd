\* A router and a group: every order of four registrations.
SPECIFICATION Spec
CONSTANTS
  Root = Root
  GroupNames = {v1}
  Methods = {GET}
  Params <- MCParams
  Width <- MCWidth
  Fold <- MCFold
  Segment <- MCSegment
  Paths <- MCPaths
  URLs <- MCURLs
  MaxCalls = 4
INVARIANTS
  TypeOK
  ChainsIntact
  MiddlewareOfRouter
  ErrorChainsCurrent
  Found
  LongestLiteral
