\* One thread starts and waits, another stops, both lock.
CONSTANTS
    Users = {main, other}
    Starters = {main}
    Stoppers = {other}
    Waiters = {main}
    Lockers = {main, other}
    WaitFirst = TRUE
    MayFail = TRUE
    MaxSchedulers = 3
    MaxLocks = 3
SPECIFICATION Spec
INVARIANTS
    LockedIsQuiet
PROPERTIES
    WaitNotEarly
    OneRunAtATime
CHECK_DEADLOCK FALSE
