\* A relay that loses, delays and reorders, and one that also alters and forges.
CONSTANTS
    Null = Null
    Scenes <- LossyOrHostile
SPECIFICATION Spec
INVARIANTS
    SilenceIsExact
    RejectionMeansWithheld
    NoManufacturedSpeech
PROPERTIES
    FilingNeverHurts
    KeptPromiseStaysKept
    RefutationOutlivesTime
CHECK_DEADLOCK FALSE
