CONSTANTS
    spy = spy
    tide = tide
    early = early
    late = late
    row = row
    Events = {1}
    Rules <- MCRules
    DayTicks = 2
    MaxTime = 4
    Subs = {spy, tide}
    Items = {early, late, row}
    SubOf <- MCSubOf
    EndOf <- MCEndOf
    Custom = {tide}
    MaxAge = 0
    Period <- MCPeriod
    FillForward = {spy}
    Equities = {spy}
    OpenAt <- MCOpenAt
    Initial = {spy, tide}
    Wishes <- MCWishes
    SecondTicks = 2
    MaxSetBacks = 0
    MaxWire = 1
    Primed = {}
SPECIFICATION FairSpec
PROPERTIES
    LiveTimeNeverBack
CHECK_DEADLOCK FALSE
