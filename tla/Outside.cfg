SPECIFICATION OSpec
CONSTANTS
    Channels = 3
    dataNum = 2
    Setups <- MCSetups
    Elements <- MCElements
    PmtKeys <- MCKeys
    MaxLength = 3
    Values <- MCValues
    MaxWritten = 2
    TmpBuf = 3
    FileSetups <- MCTimed
    MaxChunk = 3
    Interners = {"t1", "t2", "t3"}
    SymbolNames = {"freq", "gain", "len"}
    hash_string <- MCHash
    MaxCalls = 3
    d_nchans = 2
    GivenFrames <- MCFrames
    MaxWav = 3
    MaxFrames = 2
    Pdus <- MCPdus
    LengthTag = "len"
    d_itemsize = 2
    MaxPosted = 3
    MaxRoom = 4
    MaxHandles = 4
    MaxWorks = 4
    BurstSetups <- MCBursts
    MaxBurstCall = 4
    Huge = 1000000
    Clients = {"c1", "c2"}
    MaxChunks = 3
    Places = {"p1", "p2", "p3", "p4"}
    Hiers = {"p2"}
    NameOf <- MCNameOf
    Aliases <- MCAliases
    Text <- MCText
    MaxBorn = 3
    MaxRefs = 2
    Ranges <- MCRanges
    Seeks <- MCSeeks
    OpenInGap = FALSE
    MaxOpened = 3
    MaxRead = 4
    MaxOut = 5
    MaxSought = 1
    d_payload_size = 3
    ItemBytes = 2
    d_eof = TRUE
    MaxBytes = 10
    MaxItems = 3
    MaxConnects = 3
    Workers = {"w1", "w2", "w3"}
    IdOf <- MCIdOf
    ThreadName <- MCThreadName
    MaxIterations = 2
    MaxCells = 5
    MaxSegs = 3
    MaxForeign = 1
    all_factories <- MCFactories
    FactoryTests <- MCFactoryTests
    FoundPrefs <- MCFoundPrefs
    Missing = "Missing"
    NoFactory = "NoFactory"
    Garbage = {"garbage"}
    VmProcesses = {"v1", "v2"}
    MaxLaunched = 4
    Peers = {"a", "b", "c"}
    MTU = 2
    PduSizes <- MCPduSizes
    MaxSaid <- MCMaxSaid
    Spellings = {"s.a", "S.A", "s.b", "t.c"}
    SectionOf <- MCSectionOf
    OptionOf <- MCOptionOf
    SysFiles <- MCSysFiles
    AddedFile <- MCAddedFile
    Texts <- MCTexts
    Stripped <- MCStripped
    Torn <- MCTorn
    Longs = {7}
    LongText <- MCLongText
    Environment <- MCEnvironment
    MaxSets = 2
    MaxLives = 2
    fd_itemsize = 3
    FileSize = 7
    Room = 2
    MaxPassed = 5
INVARIANTS
    BatchesSound
    PmtKept
    FormatsKept
    HandlesKept
    FilesAsAsked
    SentUnbroken
    PdusKept
    RegistrySound
    FaultsCaught
    MemorySound
    PrefsKept
CHECK_DEADLOCK FALSE
