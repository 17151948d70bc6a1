SPECIFICATION FairSpec
CONSTANTS
  Readers = {r1}
  Inserters = {i1, i2}
  Conns = {k1}
  MaxConns = 1
  Smuggle = FALSE
  Base = base
  Forged = forged
  NoCall = nocall
  NoConn = noconn
INVARIANT
  InsertOutcome
PROPERTIES
  ImplementsContract
  CallsEnd
  NoLingeringTx
