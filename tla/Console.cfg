CONSTANTS
    None = None
    Slots = {1, 2}
    Default = "DB"
    Limit = 2
    Window = 2
    MaxLifetime = 1
    MaxTokens = 4
    DefaultLimit = 1
    MaxLimit = 2
    KeyLifetime = 2
    Day = 4
    Ids = {1, 2, 3, 4}
    Bootstrap <- MCBootstrap
    AppRoutes <- MCAppRoutes
    AppOf <- MCAppOf
    Versions <- MCVersions
    Scenarios <- MCScenarios
SPECIFICATION Spec
CHECK_DEADLOCK FALSE
INVARIANTS
    TypeOK
    AccessIsBounded
    WindowBoundsChanges
    KeyActsOnce
    ListsAreSound
PROPERTIES
    CommandChangesWhatWasShown
