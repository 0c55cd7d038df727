\* Two create requests of any applications, orders, keys and bodies, and two
\* status readers.
CONSTANTS
    Null = Null
    Requests = {r1, r2}
    Readers = {g1, g2}
    Apps = {a1, a2}
    Orders = {o1, o2}
    Keys = {k1, k2}
    Bodies = {b1, b2}
    ConfirmationUrls = {"url"}
SPECIFICATION Spec
SYMMETRY Symmetry
INVARIANTS
    OneProviderPaymentPerKey
    KeyNamesOnePayment
    RacedKeyIsRecorded
PROPERTIES
    ImplementsLifecycle
\* The system may come to rest, see PaymentOrder.cfg.
CHECK_DEADLOCK FALSE
