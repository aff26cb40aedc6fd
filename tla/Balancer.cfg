\* Two goroutines, every kind of balancer: the list, the choice, the lock.
SPECIFICATION FairSpec
CONSTANTS
  a = a
  b = b
  None = None
  Threads = {t1, t2}
  Names = {a, b}
  Weight <- MCWeight
  Kinds <- AllKinds
  Initial <- MCInitial
  MaxCalls = 4
  Modulus = 16
INVARIANTS
  TypeOK
  Decides
  CounterBounded
  Rotation
  WeightShare
PROPERTIES
  ImplementsRegistry
  EveryCallEnds
