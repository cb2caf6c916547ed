\* One thread waits for a finite flowgraph, another reconfigures it.
CONSTANTS
    Users = {main, other}
    Starters = {main}
    Stoppers = {}
    Waiters = {main}
    Lockers = {other}
    WaitFirst = TRUE
    MayFail = FALSE
    MaxSchedulers = 4
    MaxLocks = 3
SPECIFICATION FiniteSpec
PROPERTIES WaitReturns
CHECK_DEADLOCK FALSE
