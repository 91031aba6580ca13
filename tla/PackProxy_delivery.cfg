\* A text that is shortened and one that is not, in a new directory or one an earlier proxy was stopped in;
\* two more restarts and two failed writes: everything that is read is answered.
SPECIFICATION FairSpec
CONSTANTS
    MaxRequests = 2
    Tools = {search}
    Allow = {search}
    Texts = {long}
    Plain = plain
    Duration = 1
    MaxTime = 0
    MaxChanges = 0
    Used = TRUE
    MaxRatings = 0
    MaxCrashes = 2
    MaxFaults = 2
INVARIANTS TypeOK PackedRecallable ListAdvertises
PROPERTY Answered
CHECK_DEADLOCK FALSE
