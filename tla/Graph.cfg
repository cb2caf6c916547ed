SPECIFICATION MCSpec
CONSTANTS
    input_signature <- MCInputs
    output_signature <- MCOutputs
    Refused <- MCRefused
    Hiers = {0, 1, 2, 8}
    Leaves = {3, 4, 5, 6, 7}
    Top = 0
    Wired <- MCWired
    MsgWired <- MCMsgWired
    MayWire <- MCMayWire
    MayMsgWire <- MCMayMsgWire
    MayHold <- MCMayHold
    MaxEdits = 4
    MaxRuns = 2
    Blocks = {11, 12, 13, 14}
    Edges <- MCEdges
    history <- MCHistory
    BufSize = 4
    Alignment = 2
    MaxWrites = 1
    MaxRestarts = 2
    MaxStarts = 1
INVARIANTS
    Flattened
    SortedByParts
    RunsAsWired
PROPERTIES
    InFlightKept
CHECK_DEADLOCK FALSE
