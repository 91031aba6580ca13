\* The clock, Stop, a changed hint and a restart; a baseline rating races with all of it.
SPECIFICATION Spec
CONSTANTS
    MaxRequests = 2
    Tools = {search}
    Allow = {search}
    Texts = {long}
    Plain = plain
    Duration = 1
    MaxTime = 1
    MaxChanges = 1
    Used = FALSE
    MaxRatings = 1
    MaxCrashes = 1
    MaxFaults = 0
INVARIANTS PackedInScope BaselineGenuine
CHECK_DEADLOCK FALSE
