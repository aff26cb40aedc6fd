\* Two routes that match one URL.
SPECIFICATION Spec
CONSTANTS
  Root = Root
  GroupNames = {v1}
  Methods = {GET}
  Params <- MCParams
  Width <- MCWidth
  Fold <- MCFold
  Segment <- MCSegment
  Paths <- FewPaths
  URLs <- MCURLs
  MaxCalls = 2
INVARIANT LongestMatch
