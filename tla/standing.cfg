\* An issuer channel, and a contest recorder of its own that withholds.
CONSTANTS
    r1 = r1  r2 = r2
    p0 = p0  p1 = p1  p2 = p2
    Payloads = {p0, p1, p2}
    Null = Null
    AttRecorder = r1
    Channels <- IssuerOrWithholding
    MaxLag = 1
SYMMETRY PayloadSymmetry
SPECIFICATION Spec
INVARIANTS
    TypeOK
    StandingIsAnchored
    DisputeIsReal
    NoContestThrough
    
    ClearIsFresh
CHECK_DEADLOCK FALSE
