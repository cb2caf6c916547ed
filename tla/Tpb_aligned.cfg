\* src -> mid -> snk: mid has a history, decimates and wants an alignment of 2.
CONSTANTS
    Blocks <- ChainBlocks
    Bufs <- ChainBufs
    Ins <- ChainIns
    Outs <- ChainOuts
    Size <- HugeChain
    Cfg <- ChainAligned
    Quota <- ManyItems
    Partial = {"src"}
    Idle = {"src", "snk"}
    MaxEmpty = 1
    Throwing = {}
    MayStop = FALSE
SPECIFICATION Spec
INVARIANTS
    CallsFit
    Drained
CHECK_DEADLOCK FALSE
