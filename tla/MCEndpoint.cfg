SPECIFICATION EndpointSpec
CONSTANTS
  s1 = s1  s2 = s2  c1 = c1  c2 = c2
  red = red  blue = blue
  i1 = i1  i2 = i2
  p1 = p1  p2 = p2  p3 = p3
  NoIf = NoIf
  Servers <- MCServers
  Clients <- MCClients
  Services <- MCServices
  ServiceOf <- MCServiceOf
  Interfaces <- MCInterfaces
  Ports <- MCPorts
  AclIds = {0, 1, 2, 3}
  Envs <- MCEnvs
INVARIANT EndpointTypeOK
INVARIANT SharedSafely
INVARIANT Reachable
PROPERTY ImplementsSharedResource
SYMMETRY MCSymmetry
CHECK_DEADLOCK FALSE
