\* Three admin requests of any kind and one client; two tries for a slug.
CONSTANTS
    Null = Null
    Requests = {r1, r2, r3}
    Clients = {c1}
    Names = {n1}
    Suffixes = {x1}
    Prefixes = {p1, p2}
    SlugAttempts = 2
SPECIFICATION Spec
SYMMETRY Symmetry
INVARIANTS
    TypeOK
    ApplicationsHaveKeys
    AuthenticatedByOwnKey
    DeadKeysAreRefused
    RevokedOnce
PROPERTIES
    HandedOutKeyIsAccepted
\* Every admin request may be answered: only clients then go on.
CHECK_DEADLOCK FALSE
