SPECIFICATION Spec
CONSTANTS
    mine = mine
    theirs = theirs
    Op <- MCOp
    Mine <- MCMine
    Deps <- MCDeps
    MaxAttempts = 2
    MaxPass = 2
    MaxGen = 3
    MaxWait = 2
    MayFail = {"snapshot", "seed"}
INVARIANTS TypeOK OnePassPerLifecycle MissingIsOnItsWay
PROPERTIES ReconnectRefetches RemoteConverges
CHECK_DEADLOCK FALSE
