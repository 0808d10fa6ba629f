SPECIFICATION Spec
CONSTANTS
    Scenarios = {{}}
    Stored <- MCStored
    Changes <- MCChanges
    Audience <- MCAudience
    BatchSize = 2
    Asks <- MCAsks
    Account0 <- MCAccount0
    Inbox = 2
    EmptyJID = ""
    Streams = {"s", "t"}
    Forwarders = {"first", "second"}
    Feed <- MCFeed
    Excluded <- MCExcluded
    Unmarshalable = {"z"}
    Buffer = 1
INVARIANT
    RevokedLinkIsDead
CHECK_DEADLOCK FALSE
