\* A head block ends an endless source; stop() may come, mid may throw.
CONSTANTS
    Blocks <- ChainBlocks
    Bufs <- ChainBufs
    Ins <- ChainIns
    Outs <- ChainOuts
    Size <- SmallChain
    Cfg <- ChainSync
    Quota <- HeadOfTwo
    Partial = {}
    Idle = {}
    MaxEmpty = 0
    Throwing = {"mid"}
    MayStop = TRUE
SPECIFICATION FairSpec
PROPERTIES StopEnds
CHECK_DEADLOCK FALSE
