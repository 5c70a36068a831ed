\* A revocation registry that serves an error page.
CONSTANTS
    Null = Null
    Envelopes <- Timed
    MaxClock = 1
    MaxChanges = 1
SPECIFICATION Spec
INVARIANTS
    RevocationFailsClosed
CHECK_DEADLOCK FALSE
