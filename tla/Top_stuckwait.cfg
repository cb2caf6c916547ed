\* stop() and unlock() leave a waiting thread asleep.
CONSTANTS
    Users = {main, other}
    Starters = {main}
    Stoppers = {other}
    Waiters = {main}
    Lockers = {other}
    WaitFirst = TRUE
    MayFail = FALSE
    MaxSchedulers = 3
    MaxLocks = 1
SPECIFICATION FiniteSpec
PROPERTIES WaitReturnsAfterStop
CHECK_DEADLOCK FALSE
