\* Overlapping reads, changes and choices of the local page; every choice of the samples.
SPECIFICATION Spec
CONSTANTS
    Claude = {c1, c2}
    All = all
    Days <- MCDays
    Ratings = {1}
    MaxReads = 2
    MaxClicks = 3
    MaxEvents = 1
    MaxTrials = 1
    MaxRows = 20
    SampleDays <- MCDays
    SampleRatings = {1, 3}
    MaxSampleTrials = 1
    TrialHours = 1
    PackRatings = {1}
    RawSizes = {4}
    MaxReceipts = 2
    MaxPackReads = 2
    MaxPackClicks = 2
    MaxPackEvents = 1
INVARIANTS LocalConsistent SampleAddsUp PanelsAgree
PROPERTIES NeverOlder WritesShown DraftKept SampleKept Converges
CHECK_DEADLOCK FALSE
