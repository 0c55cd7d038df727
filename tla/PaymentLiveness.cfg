\* Two create requests under one key, for one order or two, polled for ever, on a
\* pool of one connection or of two.
CONSTANTS
    Null = Null
    Requests = {r1, r2}
    Readers = {g1}
    Apps = {a1}
    Orders = {o1, o2}
    Keys = {k1}
    Bodies = {b1}
    ConfirmationUrls = {"url"}
    PoolSizes = {1, 2}
SPECIFICATION PooledSpec
PROPERTIES EveryCreateIsAnswered PolledPaymentsSettle
CHECK_DEADLOCK FALSE
