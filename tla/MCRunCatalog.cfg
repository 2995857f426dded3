SPECIFICATION FairSpec
CONSTANTS
    None = None
    ChannelSize = 1
    Attempts = 2
    StaleReads = {"checkpoints"}
    MaxOrders = 2
    MaxInsights = 1
    MaxDays = 0
    MaxFaults = 2
    MaxProcesses = 2
INVARIANTS TypeOK EventsRecordedOnce
PROPERTIES AccountIsDurable InsightsAreDurable FillsBecomeDurable
CHECK_DEADLOCK FALSE
