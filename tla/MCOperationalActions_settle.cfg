SPECIFICATION FairSpec
CONSTANTS
    Requests = {r1}
    AttemptIds = {a1, a2}
    None = None
    Linked = FALSE
    HighRisk = TRUE
    Ops = {"preview", "authorize", "confirm", "execute", "verify", "rollback", "reconcile", "recover"}
    Faults = FALSE
    MaxPreviews = 2
    MaxEdits = 1
CHECK_DEADLOCK FALSE
PROPERTIES
    ClaimsSettle
    ExecutesApproved
