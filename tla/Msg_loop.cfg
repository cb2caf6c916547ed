\* src <-> mid, src -> snk; the flowgraph may be stopped and started again.
CONSTANTS
    Blocks <- LoopBlocks
    Streaming = {"src"}
    Sources = {"src"}
    Ports = {"in"}
    Handled <- LoopHandled
    Subscribers <- LoopSubs
    Forwarding = {"mid"}
    Aliased = {}
    Quota <- TwoMessages
    MaxMsgs = 0
    MaxStalls <- OneStall
    MaxRuns = 2
SPECIFICATION FairSpec
INVARIANTS
    Delivered
    DoneComesLast
PROPERTIES
    EventuallyHandled
CHECK_DEADLOCK FALSE
