SPECIFICATION Spec
CONSTANTS
    Requests = {r1, r2}
    AttemptIds = {a1, a2}
    None = None
    Linked = TRUE
    HighRisk = FALSE
    Ops = {"preview", "authorize", "confirm", "execute", "verify", "rollback", "reconcile", "recover"}
    Faults = FALSE
    MaxPreviews = 1
    MaxEdits = 0
CHECK_DEADLOCK FALSE
SYMMETRY Slots
INVARIANTS
    AbandonedCanBeReconciled
