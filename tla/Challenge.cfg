\* The chain of auth_test.go: what a client sees of a refusal for its scopes.
SPECIFICATION Spec
CONSTANTS
  None = None
  Needed = {"read", "write"}
  EnableOptions = FALSE
  Extractors = {"header"}
  Chains <- OneChain
  Answers = {200}
INVARIANT Challenged
