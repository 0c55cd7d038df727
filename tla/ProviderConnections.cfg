\* One store, two processes, rotations between two master keys in both directions.
CONSTANTS
    Null = Null
    Processes = {p1, p2}
    Shops = {s1}
    MasterKeys = {k1, k2}
    Amounts <- MCAmounts
SPECIFICATION FairSpec
INVARIANTS
    TypeOK
    SecretsReadable
    AmountsAgree
PROPERTIES
    StatusFollowsProvider
    ImplementsProviderCall
\* No CHECK_DEADLOCK: the provider's health may always change.
