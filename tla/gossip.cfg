\* An honest and a rogue emitter, three receipts of four ids, two holders.
CONSTANTS
    i1 = i1  i2 = i2  i3 = i3  i4 = i4
    Alice = Alice  Mallory = Mallory
    h1 = h1  h2 = h2
    Null = Null
    Id = {i1, i2, i3, i4}
    Subject = {Alice, Mallory}
    Round <- ThreeRounds
    RoundKey <- RankOfThree
    Holder = {h1, h2}
    Honest = {Alice}
    Duplicates = FALSE
    MaxIssued = 3
SYMMETRY Exchangeable
SPECIFICATION Spec
INVARIANTS
    OrderedMeansChain
    ExchangeExposesEquivocation
    HonestVerdict
    SameReceiptsSameVerdict
PROPERTIES
    GuiltNeverClears
    RolledGuiltStays
    ForksAreEvidence
CHECK_DEADLOCK FALSE
