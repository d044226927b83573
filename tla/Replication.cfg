SPECIFICATION FairSpec
CONSTANTS
    a = a
    b = b
    c = c
    Nil = Nil
    Node = {a, b, c}
    Pool <- MCPool
    Conf <- MCConf
INVARIANTS StreamCompletes WaitsForAChild FedWhileCurrent
PROPERTIES Converges
CHECK_DEADLOCK FALSE
