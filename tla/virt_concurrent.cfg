SPECIFICATION Spec
CONSTANTS
    Cpus = 2
    Concurrency = 2
    Numberings <- OneOrTwoGroups
    Clients = {c1, c2}
    Blocks = {b1, b2, b3, b4}
    Power = power
    Unloader = unloader
    Null = null
    c1 = c1
    c2 = c2
    b1 = b1
    b2 = b2
    b3 = b3
    b4 = b4
SYMMETRY Symmetry
INVARIANTS
    FlagIsTrue
CHECK_DEADLOCK FALSE
