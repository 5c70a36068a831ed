\* Two spend epochs, two witnesses, every delivery and replay.
CONSTANTS
    w1 = w1  w2 = w2
    Null = Null
    Lanes <- AllLanes
SPECIFICATION Spec
INVARIANTS
    OneDeliveryOneEpoch
PROPERTIES
    OppositionHolds
CHECK_DEADLOCK FALSE
