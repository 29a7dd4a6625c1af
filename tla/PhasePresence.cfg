SPECIFICATION PresenceSpec
CONSTANTS
    Models = {"3pwateroil"}
INVARIANT
    PhasesFlip
