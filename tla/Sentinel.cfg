SPECIFICATION FairSpec
CONSTANTS
    r1 = r1
    r2 = r2
    r3 = r3
    p1 = p1
    p2 = p2
    Nil = Nil
    MasterId = MasterId
    Me = 2
    Addr = {r1, r2, r3}
    First = r1
    Rank <- MCRank
    T <- MCT
    CapOf <- MCCapOf
    MaxPending = 1
    Conf <- MCConf
    ScriptMaxQueue = 2
    ScriptMaxRunning = 1
    ScriptMaxRetry = 2
    ScriptMaxRuntime = 1
    ScriptRetryDelay = 1
INVARIANTS InstancesAgree AddressWasMaster
PROPERTIES ODownIsFresh TiltHolds FailoverEnds
CHECK_DEADLOCK FALSE
