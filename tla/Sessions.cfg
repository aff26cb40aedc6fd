\* Two requests at once, of two clients or of one, three in all.
SPECIFICATION Spec
CONSTANTS
  s = s
  t = t
  c1 = c1
  c2 = c2
  r1 = r1
  r2 = r2
  None = None
  NoID = NoID
  Requests = {r1, r2}
  Clients = {c1, c2}
  Names = {s, t}
  IDs = {1, 2, 3, 4, 5, 6}
  Keys = {"key", "flash", "odd"}
  Values = {"text", "int", "float64"}
  Handlers <- MCHandlers
  StoreAges <- MCStoreAges
  MaxRequests = 3
  MaxFaults = 1
INVARIANTS
  TypeOK
  ReadsLastSave
  Isolated
  CookieNamesStored
  ClientsClosed
SYMMETRY Alike
