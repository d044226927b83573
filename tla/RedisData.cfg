SPECIFICATION MCSpec
CONSTANTS
    k1 = k1
    k2 = k2
    n1 = n1
    n2 = n2
    a = a
    big = big
    Keys = {k1, k2}
    Nil = Nil
    Elems = {n1, n2, a, big}
    IntElems = {n1, n2}
    BigElems = {big}
    LongMin <- MCLongMin
    LongMax = 12
    MaxString = 3
    ListMaxZiplist = 2
    SetMaxIntset = 1
    HashMaxZiplist = 2
    HashMaxValue = 1
    ZsetMaxZiplist = 2
    Inf = 2
    ElemOrder <- MCElemOrder
    Sub <- MCSub
    Calls <- MCFamilies
    MaxSize = 3
    MaxNow = 3
    Kinds = {"idle", "dict", "skiplist", "intset", "ziplist"}
    DictKeys = {"a", "b", "c"}
    Hash <- MCHash
    HtInitialSize = 1
    ForceResizeRatio = 1
    HtMinFill = 40
    RehashBatch = 1
    DictBudgets <- MCBudgets
    ZslMembers = {1, 2, 3, 4}
    ZslScores = {1, 2}
    ZslMaxLevel = 2
    CellBase = 4
    IntValues <- MCValues
    ByteBase = 16
    LenBytes = 4
    IntSize <- MCIntSize
    ImmMin = 13
    ImmMax = 13
    ZipMaxLen = 4
    ZipItems <- MCItems
    ZipBound = 5
    ZipShrink = FALSE
INVARIANTS EncodingFits  EncodingsHold IterationShowsAll
PROPERTIES ChangeIsSignalled RehashEnds
CHECK_DEADLOCK FALSE
