\* Two endpoints, one application, a process of either of two users.
CONSTANTS
    Users = {u1, u2}
    HostUser = u1
    Applications <- MCApplications
    Matching <- MCMatching
    Slots <- MCSlots
    MaxEndpoints = 2
    MaxApplications = 1
SPECIFICATION Spec
INVARIANTS
    TypeOK
    OnlyItsUserIsRedirected
