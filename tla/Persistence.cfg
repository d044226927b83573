SPECIFICATION FairSpec
CONSTANTS
    k1 = k1
    k2 = k2
    n1 = n1
    a = a
    big = big
    Keys = {k1, k2}
    Nil = Nil
    Elems = {n1, a, big}
    IntElems = {n1}
    BigElems = {big}
    LongMin <- MCLongMin
    LongMax = 3
    MaxString = 3
    ListMaxZiplist = 2
    SetMaxIntset = 1
    HashMaxZiplist = 2
    HashMaxValue = 1
    ZsetMaxZiplist = 2
    Inf = 3
    ElemOrder <- MCElemOrder
    Sub <- MCSub
    ItemsPerCmd = 2
    Conf <- MCConf
    Calls <- MCCalls
    Asked <- MCAsked
    Faults <- MCFaults
    MaxLog <- MCMaxLog
    MaxDirty <- MCMaxDirty
    MaxNow <- MCMaxNow
    MaxJobs = 1
    MaxSize = 3
    RetryDelay = 1
INVARIANTS LogsHoldDataset AcknowledgedWritten DirtyCounts
PROPERTY AppendOnlyStarts
CHECK_DEADLOCK FALSE
