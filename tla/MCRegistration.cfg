SPECIFICATION Spec

CONSTANTS
    p = p
    r = r
    Endpoints = {p, r}
    Clients = {c1, c2}
    Nothing = Nothing
    TypeOf <- MCTypeOf

INVARIANTS
    RegisteredAsAWhole
    NothingLeftBehind
    ConnectionsLeadBack

CHECK_DEADLOCK FALSE
