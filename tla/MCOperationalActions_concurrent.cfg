SPECIFICATION Spec
CONSTANTS
    Requests = {r1, r2}
    AttemptIds = {a1, a2}
    None = None
    Linked = TRUE
    HighRisk = FALSE
    Ops = {"preview", "authorize", "confirm", "execute", "rollback", "reconcile", "recover"}
    Faults = TRUE
    MaxPreviews = 1
    MaxEdits = 0
CHECK_DEADLOCK FALSE
SYMMETRY Slots
INVARIANTS
    TypeOK
    OneExecution
    CancelledIsQuiescent
    AttemptsOwned
PROPERTIES
    ImplementsLedger
