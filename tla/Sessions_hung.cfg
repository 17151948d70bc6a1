SPECIFICATION FairSpec
CONSTANTS
  Readers = {r1}
  Inserters = {}
  Conns = {k1}
  MaxConns = 1
  Smuggle = FALSE
  Base = base
  Forged = forged
  NoCall = nocall
  NoConn = noconn
PROPERTY HandlersReturn
