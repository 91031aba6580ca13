\* One page, one trial, a late read, two clicks and one outside event or failure.
SPECIFICATION Spec
CONSTANTS
    Texts = {plain, edited}
    Ratings = {1, 2}
    Baselines <- MCBaselines
    HourRuns <- MCHourRuns
    MaxTrials = 1
    MaxHours = 3
    MaxPolls = 1
    MaxClicks = 2
    MaxEvents = 1
INVARIANTS PageConsistent
PROPERTIES ApprovedPlan Settles
CHECK_DEADLOCK FALSE
