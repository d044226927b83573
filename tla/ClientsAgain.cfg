SPECIFICATION Spec
CONSTANTS
    k1 = k1
    k2 = k2
    n1 = n1
    a = a
    c1 = c1
    c2 = c2
    c3 = c3
    ch1 = ch1
    p1 = p1
    Keys = {k1, k2}
    Nil = Nil
    Elems = {n1, a}
    IntElems = {n1}
    BigElems = {}
    LongMin <- MCLongMin
    LongMax = 1
    MaxString = 3
    ListMaxZiplist = 4
    SetMaxIntset = 1
    HashMaxZiplist = 2
    HashMaxValue = 1
    ZsetMaxZiplist = 2
    Inf = 2
    ElemOrder <- MCElemOrder
    Sub <- MCSub
    Clients = {c1, c2, c3}
    Channels = {ch1}
    Matches <- MCMatches
    Buffer = 1
    HardLimit <- MCHardLimit
    SoftLimit <- MCSoftLimit
    SoftSeconds = 0
    MaxIdle <- MCMaxIdle
    MaxClients = 3
    Slow <- MCSlow
    Asked <- MCAgain
    MaxSize = 3
    MaxQueued = 2
    MaxUnread = 1
    MaxLink = 1
    MaxOut = 3
    Modes <- MCModes
INVARIANT ClosedIsForgotten
CHECK_DEADLOCK FALSE
