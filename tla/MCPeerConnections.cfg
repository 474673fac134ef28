\* One node and two connections.  The system may stop: the node need not dial
\* again, and the watchdog's panic ends it.
SPECIFICATION Spec
CONSTANTS
  peer = peer  c1 = c1  c2 = c2
  Peers = {peer}
  NoName = noname
  Conns = {c1, c2}
  NoConn = noconn
  Owner <- MCOwner
INVARIANTS TypeOK NilOnlyAfterDrop NameStands OnlyLostDropped SyncedIsListed
PROPERTY BrokenConnectionGoes
CHECK_DEADLOCK FALSE
