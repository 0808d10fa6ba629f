SPECIFICATION Spec
CONSTANTS
    c1 = c1
    c2 = c2
    Conns = {c1, c2}
    Frame = 2
    NoiseLengths = {1, 5}
    SeqSpace = 4
    TsSpace = 64
    MaxGap = 4
    Starts <- MCStarts
    MaxPackets = 5
    MaxLate = 1
    Links = {c1, c2}
    Mtu = 8
    MaxReassembly = 14
    Units <- MCUnits
    MaxLag = 2
    SymBits = 3
    CodeBits = 12
    WindowSize = 12
    UintBits = 3
    Storage = 6
    Symbols <- MCSymbols
    MaxSymbols = 4
    Positions = 2
    Granularity = 2
    SignBatch = 2
    Grids = 2
    Levels = 2
    GainSteps = 3
    GainShape <- MCGainShape
    Filters = 2
    Bucket = 1
    BlockSize = 2
    NumBlocks = 4
    Blocksegs <- MCBlocksegs
    Frames <- MCFrames
    Relays <- MCRelays
    Ssrcs <- MCSsrcs
    Streams <- MCStreams
    Answers <- MCAnswers
    Headers <- MCHeaders
    RtpPayloads <- MCPayloads
    TxId <- MCTxId
    TieBreaker <- MCTieBreaker
    PeerFrames <- MCPeerFrames
    MaxContained = 3
    MaxSpans = 2
    Caller <- MCCaller
    Callee <- MCCallee
    Answerers <- MCAnswerers
    Servers <- MCServers
SYMMETRY MCSymmetry
INVARIANTS
    IndexesAgree
    PlaysInTime
    CleanUnitsArriveWhole
    DecoderReadsBack
    DecoderInStep
    PacketsReadBack
    FramesPlayInOrder
    KeysCross
    SubscribedToPeer
    RelaysAreComplete
CHECK_DEADLOCK FALSE
