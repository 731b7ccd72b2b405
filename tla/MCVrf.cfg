SPECIFICATION Spec
CONSTANTS
  s1 = s1  c1 = c1  c2 = c2
  red = red  blue = blue
  i1 = i1  i2 = i2  i3 = i3
  lr = lr  lb = lb
  t1 = t1  t2 = t2
  NoIf = NoIf  NoId = NoId  NoConn = NoConn
  Servers <- MCServers
  Clients <- MCClients
  Services <- MCServices
  ServiceOf <- MCServiceOf
  Mechs <- MCMechs
  LoopOf <- MCLoopOf
  Ids <- MCIds
  Envs <- MCEnvs
SYMMETRY MCSymmetry
INVARIANT TypeOK
INVARIANT NoCircularWait
INVARIANT TablesServe
PROPERTY EntryStable
CHECK_DEADLOCK FALSE
