\* Two handlers that attach two shops to two applications, again and again.
CONSTANTS
    Null = Null
    Attachers = {h1, h2}
    Apps = {a1, a2}
    Shops = {s1, s2}
    Secrets = {x, y}
SPECIFICATION Spec
SYMMETRY Symmetry
INVARIANTS
    TypeOK
    OneDefault
PROPERTIES
    AttachedSecretIsStored
    FirstProviderIsDefault
    DefaultLostOnlyToStaleList
