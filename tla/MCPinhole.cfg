SPECIFICATION FairSpec
CONSTANTS
  r1 = r1  r2 = r2  r3 = r3
  server = server  client = client
  a = a  b = b  lost = lost  eth = eth  host = host
  NoInterface = NoInterface  Nobody = Nobody
  Requests <- MCRequests
  Elements <- MCElements
  ElementOf <- MCElementOf
  MutexOf <- SharedMutex
  IPs <- MCIPs
  Ports <- MCPorts
  Interfaces <- MCInterfaces
  Filtered <- MCFiltered
  KeysOf <- MCKeysOf
  Owner <- MCOwner
  Failures = TRUE
INVARIANT TypeOK
INVARIANT PinholesExact
PROPERTY ListsOnlyGrow
PROPERTY RequestsReturn
CHECK_DEADLOCK FALSE
