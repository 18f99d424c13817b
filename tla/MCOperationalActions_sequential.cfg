SPECIFICATION Spec
CONSTANTS
    Requests = {r1}
    AttemptIds = {a1, a2, a3}
    None = None
    Linked = TRUE
    HighRisk = FALSE
    Ops = {"preview", "authorize", "confirm", "execute", "verify", "rollback", "reconcile", "recover"}
    Faults = TRUE
    MaxPreviews = 2
    MaxEdits = 1
CHECK_DEADLOCK FALSE
SYMMETRY Slots
INVARIANTS
    OneRollbackPerAttempt
    AbandonedCanBeReconciled
    SerialSound
PROPERTIES
    ImplementsLifecycle
    ExecutesConfirmedFacts
