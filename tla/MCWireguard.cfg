SPECIFICATION Spec
CONSTANTS
    c1 = c1
    c2 = c2
    i1 = i1
    i2 = i2
    i3 = i3
    p1 = p1
    p2 = p2
    p3 = p3
    Conns <- MCConns
    Ifs <- MCIfs
    Peers <- MCPeers
    None = None
    MaxKeys = 6
    Envs <- MCEnvs
SYMMETRY Symmetry
INVARIANT StateMatchesVPP
PROPERTY GrantedIsTunnel
PROPERTY PeersAreOwn
CHECK_DEADLOCK FALSE
