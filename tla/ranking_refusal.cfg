\* Two arms, one of which answers less.
CONSTANTS
    h1 = h1  k1 = k1
    p1 = p1  p2 = p2  junk = junk
    yes = yes  no = no
    a1 = a1  a2 = a2
    Null = Null
    Honest = {h1}
    Rogue = {k1}
    Answers = {yes, no}
    Unsettleable = {junk}
    Truth <- MCTruth
    Digest <- MCDigest
    Situations <- OnlyCompared
SPECIFICATION Spec
INVARIANT RefusingNeverHelps
CHECK_DEADLOCK FALSE
