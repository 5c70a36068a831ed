\* An anchored contest behind a newer, unconfirmed checkpoint.
CONSTANTS
    r1 = r1  r2 = r2
    p0 = p0  p1 = p1  p2 = p2
    Payloads = {p0, p1, p2}
    Null = Null
    AttRecorder = r1
    Channels <- Separate
    MaxLag = 1
SPECIFICATION Spec
INVARIANT KnownContestIsReported
CHECK_DEADLOCK FALSE
