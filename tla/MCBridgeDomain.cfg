SPECIFICATION BridgeSpec
CONSTANTS
    c1 = c1
    c2 = c2
    c3 = c3
    c4 = c4
    d1 = d1
    d2 = d2
    i1 = i1
    i2 = i2
    i3 = i3
    i4 = i4
    i5 = i5
    b1 = b1
    b2 = b2
    Conns <- MCConns
    Devices <- MCDevices
    DeviceOf <- MCDeviceOf
    Matching <- MCMatching
    Vlans <- MCVlans
    VlanOf <- MCVlanOf
    Ifs <- MCIfs
    NoIf = NoIf
    Bds <- MCBds
    NoBd = NoBd
    NoVlan = NoVlan
    Envs <- MCEnvs
SYMMETRY Symmetry
INVARIANT BridgedRight
INVARIANT MapsMatchVPP
