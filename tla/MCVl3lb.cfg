SPECIFICATION BalanceFairSpec
CONSTANTS
    n1 = n1
    n2 = n2
    c0 = c0
    c1 = c1
    c2 = c2
    a = a
    b = b
    Down = Down
    NSEs <- MCNSEs
    Conns <- MCConns
    Selected <- MCSelected
    IPs <- MCIPs
    MaxSessions = 2
    MaxMonitors = 2
    MaxChanges = 4
    Envs <- MCEnvs
INVARIANT BalanceTypeOK
INVARIANT BalancedRight
PROPERTY SessionEnds
CHECK_DEADLOCK FALSE
