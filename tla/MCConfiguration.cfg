\* Two endpoints, one application, one slot of it, one driver beside our own.  One
\* change in a dialog is enough: dialogs follow each other without bound.
CONSTANTS
    ToText <- Serialize
    FromText <- ReadValue
    Drivers <- MCDrivers
    Paths = {"game"}
    Windows <- MCWindows
    ChannelCounts = {0}
    Slots <- MCSlots
    MinimumFrames = {16}
    MaxEndpoints = 2
    MaxApplications = 1
    MaxEdits = 1
SPECIFICATION Spec
INVARIANTS
    TypeOK
    EndpointIdsUnique
    DialogShowsWhatItStores
    SavedConfigKept
    HalfWrittenIsAPrefix
