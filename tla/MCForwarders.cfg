SPECIFICATION Spec
CONSTANTS
    c1 = c1
    c2 = c2
    i1 = i1
    i2 = i2
    i3 = i3
    i4 = i4
    None = None
    NoIf = NoIf
    Conns <- MCConns
    Ifs <- MCIfs
    Word = 16
    Overhead = 3
    Jumbo = 14
    Links = {0, 8, 14}
    DumpFails = TRUE
    Offers = {0, 4, 6, 14}
    Behind = {4, 15}
    Envs <- MCEnvs
SYMMETRY Symmetry
INVARIANT TypeOK
INVARIANT ReadIsInitialised
INVARIANT Wired
INVARIANT IndexesMatchVPP
PROPERTY WiringKept
PROPERTY GrantedFits
