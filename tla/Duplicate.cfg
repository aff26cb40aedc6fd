\* Two Adds of one name.
SPECIFICATION Spec
CONSTANTS
  a = a
  b = b
  None = None
  Threads = {t1, t2}
  Names = {a, b}
  Weight <- MCWeight
  Kinds <- RoundRobin
  Initial <- OneTarget
  MaxCalls = 2
  Modulus = 16
INVARIANT NoDuplicates
