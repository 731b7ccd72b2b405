SPECIFICATION FairSpec
CONSTANTS
  rw = rw  ri = ri  rm = rm
  ec = ec  em = em
  l1 = l1  p1 = p1
  Links <- MCLinks
  Peers <- MCPeers
  MaxDowns = 1
  Requests <- MCRequests
  Elements <- MCElements
  ElementOf <- MCElementOf
  Plan <- MCPlan
INVARIANT TypeOK
INVARIANT NoLostUp
PROPERTY RequestsReturn
CHECK_DEADLOCK FALSE
