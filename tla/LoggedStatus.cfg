\* The access log against what the client reads.
SPECIFICATION Spec
CONSTANTS
  Requests = {r1}
  Contexts = {c1}
  None = None
  Breakable = {r1}
  Hijackers = {TRUE, FALSE}
  Chains <- MCChains
  Codes <- MCCodes
  Ops <- ResponseOps
  MaxOps = 1
INVARIANT
  LoggedStatusIsSent
