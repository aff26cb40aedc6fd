\* One request, every operation: the chain, the response and their end.
SPECIFICATION Spec
CONSTANTS
  Requests = {r1}
  Contexts = {c1}
  None = None
  Breakable = {r1}
  Hijackers = {TRUE, FALSE}
  Chains <- MCChains
  Codes <- MCCodes
  Ops <- AllOps
  MaxOps = 3
INVARIANTS
  TypeOK
  RunAll
  StatusMatchesWire
  SizeIsBody
  ErrorPageAlone
  LoggedOnce
  RecoveryContains
PROPERTIES
  ImplementsChain
