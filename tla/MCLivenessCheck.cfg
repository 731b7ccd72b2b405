SPECIFICATION CheckFairSpec
CONSTANTS
    k1 = k1
    k2 = k2
    k3 = k3
    p1 = p1
    p2 = p2
    q1 = q1
    Checks <- MCChecks
    Pings <- MCPings
    CheckOf <- MCCheckOf
    Faults = {"call", "deadline"}
INVARIANT CheckTypeOK
INVARIANT NoSendOnClosed
INVARIANT VerdictRight
PROPERTY ChecksReturn
CHECK_DEADLOCK FALSE
