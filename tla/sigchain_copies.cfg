\* Two bodies, three keys, chains of up to three entries, copies altered at will.
CONSTANTS
    handle = handle  other = other  platform = platform
    b1 = b1  b2 = b2
    g1 = g1  g2 = g2  g3 = g3
    none = none  graded = graded
    Unset = Unset
    Body = {b1, b2}
    Key = {handle, other, platform}
    HandleKey = handle
    DomainKey = platform
    SigId = {g1, g2, g3}
    Provenance = {none, graded}
    Roles = {"custodian"}
    DomainRoles = {}
    MaxChain = 3
    MaxHops = 2
SYMMETRY IdSymmetry
SPECIFICATION ChainSpec
INVARIANTS
    AcceptedWasReleased
    BoundMeansCosigned
    BoundMeansHandleKey
CHECK_DEADLOCK FALSE
