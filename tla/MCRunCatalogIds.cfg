SPECIFICATION Spec
CONSTANTS
    None = None
    ChannelSize = 1
    Attempts = 2
    StaleReads = {}
    MaxOrders = 2
    MaxInsights = 1
    MaxDays = 0
    MaxFaults = 0
    MaxProcesses = 2
PROPERTY IdsAreNew
CHECK_DEADLOCK FALSE
