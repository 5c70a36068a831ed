\* Every validity model, standing block, coverage block and evidence pin while
\* time passes and the issuer revokes, republishes and edits between fetches.
CONSTANTS
    Null = Null
    Envelopes <- TimedOrBacked
    MaxClock = 2
    MaxChanges = 2
SPECIFICATION FairSpec
INVARIANTS
    RevocationHolds
    MustWasCovered
    DriftIsCaught
    ForeverIsContestable
PROPERTIES
    EveryReadEnds
CHECK_DEADLOCK FALSE
