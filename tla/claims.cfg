\* Answers and certificates, survival, filings, and comparisons.
CONSTANTS
    h1 = h1  k1 = k1
    p1 = p1  p2 = p2  junk = junk
    yes = yes  no = no
    a1 = a1  a2 = a2
    Null = Null
    Honest = {h1}
    Rogue = {k1}
    Answers = {yes, no}
    Unsettleable = {junk}
    Truth <- MCTruth
    Digest <- MCDigest
    Situations <- AllSituations
SPECIFICATION Spec
INVARIANTS
    SplitCostsAnError
    CoverageIsDrawn
    LeadRestsOnCommonProbe
PROPERTIES
    OnlyArtifactsMoveThePrice
CHECK_DEADLOCK FALSE
