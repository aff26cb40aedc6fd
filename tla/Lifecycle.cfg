\* Two processes, started in any way, with two connections each.
SPECIFICATION FairSpec
CONSTANTS
  None = None
  Sock = Sock
  Fixed = Fixed
  Processes = {p1, p2}
  Ports = {e1}
  Starts = {"port", "zero", "tls", "tlsBad", "tlsEmpty", "unix"}
  Conns = {k1, k2}
INVARIANTS
  TypeOK
  Graceful
  Reachable
PROPERTY RunEnds
