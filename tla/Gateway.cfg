\* Every chain, any number of requests one after the other.
SPECIFICATION FairSpec
CONSTANTS
  None = None
  Needed = {"read", "write"}
  EnableOptions = FALSE
  Extractors = {"header", "parameter"}
  Chains <- MCChains
  Answers = {200, 204, 404}
INVARIANTS
  TypeOK
  GateKeeps
  FailureAnswered
  HijackContained
  ConnectionsClosed
  TunnelSilent
PROPERTY CopiesEnd
