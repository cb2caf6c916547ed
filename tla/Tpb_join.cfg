\* Two branches of an endless source, joined again by a head block.
CONSTANTS
    Blocks <- JoinBlocks
    Bufs <- JoinBufs
    Ins <- JoinIns
    Outs <- JoinOuts
    Size <- JoinSize
    Cfg <- JoinSync
    Quota <- JoinQuota
    Partial = {}
    Idle = {}
    MaxEmpty = 0
    Throwing = {}
    MayStop = FALSE
SPECIFICATION FairSpec
INVARIANTS
    NoLostWakeup
    DoneFollowsNeighbor
PROPERTIES Terminates
CHECK_DEADLOCK FALSE
