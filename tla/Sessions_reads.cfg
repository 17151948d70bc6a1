SPECIFICATION Spec
CONSTANTS
  Readers = {r1, r2}
  Inserters = {}
  Conns = {k1, k2}
  MaxConns = 1
  Smuggle = TRUE
  Base = base
  Forged = forged
  NoCall = nocall
  NoConn = noconn
SYMMETRY Perms
INVARIANTS
  PoolClean
  Attributed
  TimeLimited
  ReadersNeverWrite
