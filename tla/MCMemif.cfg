SPECIFICATION Spec
CONSTANTS
    c1 = c1
    c2 = c2
    n1 = n1
    n2 = n2
    i1 = i1
    i2 = i2
    s1 = s1
    s2 = s2
    s3 = s3
    Conns <- MCConns
    MemifServer <- MCMemifServer
    Names <- MCNames
    Remote = Remote
    Ifs <- MCIfs
    Sockets <- MCSockets
    None = None
    Gone = Gone
    MaxFailed = 2
    Slots = {1, 2}
    MaxPipes = 2
    Envs <- MCEnvs
SYMMETRY Symmetry
INVARIANT Served
INVARIANT Clean
