SPECIFICATION Spec
CONSTANTS
    c1 = c1
    c2 = c2
    Clients = {c1, c2}
    k = k
    Keys = {k}
    Nil = Nil
    Requests <- RequestsOf
    Capacity = 2
    MaxEvents = 3
INVARIANTS TypeOK InStep WholeValues
PROPERTIES ListenerFreed Answered
CHECK_DEADLOCK FALSE
