SPECIFICATION Spec
CONSTANTS
    None = None
    k1 = k1
    k2 = k2
    k3 = k3
    a = a
    b = b
    c = c
    Tasks <- MCTasks
    Seeded <- MCSeeded
    Imported <- MCImported
    EdgeChoices <- MCEdges
    Keys <- MCKeys
    Workloads <- MCImportEdit
    MaxRequests = 2
    MaxPreviews = 1
    MaxCached = 1
CHECK_DEADLOCK FALSE
INVARIANT CachedPreviewIsCurrent
