SPECIFICATION Spec
CONSTANTS
    Requests = {r1, r2}
    AttemptIds = {a1}
    None = None
    Linked = TRUE
    HighRisk = TRUE
    Ops = {"preview", "authorize", "confirm", "execute"}
    Faults = FALSE
    MaxPreviews = 2
    MaxEdits = 1
CHECK_DEADLOCK FALSE
SYMMETRY Slots
PROPERTIES
    ClaimsOnBoundFacts
