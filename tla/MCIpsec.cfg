SPECIFICATION Spec
CONSTANTS
    c1 = c1
    c2 = c2
    t1 = t1
    t2 = t2
    t3 = t3
    Conns <- MCConns
    Tunnels <- MCTunnels
    NoTunnel = NoTunnel
    MaxCerts = 5
    Envs <- MCEnvs
SYMMETRY Symmetry
INVARIANT EndsAgree
INVARIANT StateMatchesVPP
CHECK_DEADLOCK FALSE
