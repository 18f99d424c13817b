SPECIFICATION Spec
CONSTANTS
    t1 = t1
    t2 = t2
    r1 = r1
    r2 = r2
    v1 = v1
    v2 = v2
    tab1 = tab1
    tab2 = tab2
    MaxCalls = 3
    MaxWindows = 2
    Tenants <- MCTenants
    Rows <- MCRows
    Selections <- MCSelections
    MaxPosts = 3
    MaxEdits = 1
    Tabs <- MCTabs
    Names <- MCNames
    MaxHydrations = 2
    MaxSaves = 1
SYMMETRY Symmetry
CHECK_DEADLOCK FALSE
INVARIANTS
    ScreensTypeOK
    OneRowPerKey
    PlanKeepsWindow
    SavedIsRecorded
    NoEditLost
    RefusalIsTrue
    LatestPreviewShown
    WritesStayInTenant
    MovedAtMostOnce
PROPERTIES
    UndoTakesBackItsOwn
    ListingsInOrder
    ImplementsReviewedStore
