SPECIFICATION Spec
CONSTANTS
    None = None
    ChannelSize = 1
    Attempts = 2
    StaleReads = {"insight_state"}
    MaxOrders = 1
    MaxInsights = 1
    MaxDays = 0
    MaxFaults = 0
    MaxProcesses = 2
PROPERTY HoldingsComeWithInsights
CHECK_DEADLOCK FALSE
