\* A second status after a header has gone out.
SPECIFICATION Spec
CONSTANTS
  Requests = {r1}
  Contexts = {c1}
  None = None
  Breakable = {r1}
  Hijackers = {TRUE, FALSE}
  Chains <- MCChains
  Codes <- MCCodes
  Ops <- ResponseOps
  MaxOps = 2
PROPERTY
  HeaderOverrideRefused
