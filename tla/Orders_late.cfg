SPECIFICATION Spec
CONSTANTS
    I64Max = 7
    MaxTracked = 2
    MaxOrders = 3
    MaxQty = 2
    Prices = {1, 2}
    InOrder = FALSE
INVARIANTS
    CountExact
CHECK_DEADLOCK FALSE
