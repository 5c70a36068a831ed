\* Rosters, envelopes, observed quorums with and without a window, confessions.
CONSTANTS
    k1 = k1  k2 = k2  k3 = k3
    x = x  y = y  z = z
    Null = Null
    Quorums <- AllQuorums
SPECIFICATION Spec
INVARIANTS
    CountIsComponents
    AdmissionPays
    EnumeratedCapsWitnesses
    CapturedReadsAsOne
    CollapseIsMutual
PROPERTIES
    FloorOnlySplits
CHECK_DEADLOCK FALSE
