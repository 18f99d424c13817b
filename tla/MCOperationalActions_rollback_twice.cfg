SPECIFICATION Spec
CONSTANTS
    Requests = {r1, r2}
    AttemptIds = {a1, a2, a3}
    None = None
    Linked = TRUE
    HighRisk = FALSE
    Ops = {"preview", "confirm", "execute", "rollback", "reconcile"}
    Faults = TRUE
    MaxPreviews = 1
    MaxEdits = 0
CHECK_DEADLOCK FALSE
SYMMETRY Slots
INVARIANTS
    OneRollbackPerAttempt
