SPECIFICATION Spec
CONSTANTS
    Reasons = {userEnded, timeout}
    NoReason = NoReason
    MaxClock = 4
PROPERTIES
    EndedIsFinal
SYMMETRY Symmetry
