SPECIFICATION Spec
CONSTANTS
    Scenarios <- MCScenarios
    Stored <- MCStored
    Changes <- MCChanges
    Audience <- MCAudience
    BatchSize = 2
    Asks <- MCAsks
    Account0 <- MCAccount0
    Inbox = 2
    EmptyJID = ""
    Streams = {"s", "t"}
    Forwarders = {"first", "second"}
    Feed <- MCFeed
    Excluded <- MCExcluded
    Unmarshalable = {"z"}
    Buffer = 1
INVARIANTS
    AnswerIsTrue
    OldTimerComesBackOnlyByRace
    MarksCoverWhatWasSeen
    VotesLeaveNoWaiter
    NeverSendsToClosed
    StreamHasNoGaps
PROPERTY
    SlowClientHoldsUpNobody
CHECK_DEADLOCK FALSE
