\* Three generations, bundled by an honest server, and two by anybody.
CONSTANTS
    Null = Null
    Scenes <- AllScenes
SPECIFICATION Spec
INVARIANTS
    AcceptedIsDescent
CHECK_DEADLOCK FALSE
