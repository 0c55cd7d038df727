\* One create request; the provider may accept it with an empty confirmation URL.
CONSTANTS
    Null = Null
    Requests = {r1}
    Readers = {g1}
    Apps = {a1}
    Orders = {o1}
    Keys = {k1}
    Bodies = {b1}
    ConfirmationUrls = {"url", ""}
SPECIFICATION Spec
PROPERTIES NoHollowSuccess
CHECK_DEADLOCK FALSE
