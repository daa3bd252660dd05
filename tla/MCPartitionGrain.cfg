SPECIFICATION Spec
CONSTANTS
    a = a
    b = b
    c = c
    k1 = k1
    k2 = k2
    Nodes = {a, b, c}
    PointsOf <- Points
    Placement <- Order
    Keys = {k1, k2}
    Nil = Nil
    KeyHash <- Hashes
    ReplicaCount = 3
    MaxPuts = 2
    MaxGets = 1
    MaxFailures = 2
INVARIANTS TypeOK ReplicasAgree
PROPERTY GrainsFree
CHECK_DEADLOCK FALSE
