\* Two requests, side by side or one after the other, that share the pool.
SPECIFICATION FairSpec
CONSTANTS
  Requests = {r1, r2}
  Contexts = {c1, c2}
  None = None
  Breakable = {}
  Hijackers = {TRUE}
  Chains <- FewChains
  Codes = {201}
  Ops <- PoolOps
  MaxOps = 1
INVARIANTS
  ContextExclusive
  Isolation
PROPERTY
  Termination
