SPECIFICATION FairSpec
CONSTANTS
  Dbs = {d1, d2}
  Handlers = {h1, h2}
  NoPool = NoPool
INVARIANTS
  DrainInOrder
  OnePool
  PoolsClosed
PROPERTY
  Terminates
