SPECIFICATION Spec
CONSTANTS
    None = None
    k1 = k1
    k2 = k2
    k3 = k3
    a = a
    b = b
    c = c
    Tasks <- MCTasks
    Seeded <- MCSeeded
    Imported <- MCImported
    EdgeChoices <- MCEdges
    Keys <- MCKeys
    Workloads <- MCWorkloads
    MaxRequests = 3
    MaxPreviews = 3
    MaxCached = 1
CHECK_DEADLOCK FALSE
INVARIANTS
    PreviewTypeOK
    OneEffectPerCommand
    EventsNumbered
    GraphAcyclic
    ReviewedIsApplied
    PreviewSingleFlight
    PreviewCacheBounded
    CoordinationFreed
PROPERTIES
    StrandedForGood
    ImplementsAtomicCommands
    PreviewAnswered
