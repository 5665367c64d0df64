CONSTANTS
    w1 = w1
    w2 = w2
    f1 = f1
    f2 = f2
    f3 = f3
    NoFn = NoFn
    Workers = {w1, w2}
    Funcs = {f1, f2, f3}
    Throwing = {f3}
    MaxSpurious = 1
SPECIFICATION FairSpec
INVARIANTS
    TypeOK
    FifoStart
    DrainedWhenGone
    SleeperMeansServed
    FailedCtorStuck
PROPERTIES
    AddedIsRun
    DtorReturns
    ImplementsExecutor
CHECK_DEADLOCK FALSE
