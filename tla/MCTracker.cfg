CONSTANTS
    o1 = o1
    o2 = o2
    coal = coal
    Order = {o1, o2}
    Item = {coal}
    KeyOf <- Offers
    Lots = 2
    MaxEvents = 2
    MaxUpsets = 2
    Others = {"web", "timer"}
SPECIFICATION Spec
SYMMETRY Swap
VIEW Matter
CHECK_DEADLOCK FALSE
INVARIANTS InStep
PROPERTIES NoFlicker
