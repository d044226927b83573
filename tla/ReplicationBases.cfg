SPECIFICATION Spec
CONSTANTS
    a = a
    b = b
    c = c
    Nil = Nil
    Node = {a, b, c}
    Pool <- MCPool
    Conf <- MCBases
INVARIANTS StreamCompletes
CHECK_DEADLOCK FALSE
