\* Three experiments may return to a profile they had left.
SPECIFICATION Spec
CONSTANTS
    Procs = {p1}
    MaxRuns = 4
    MaxExperiments = 3
    Profiles = {base, broken, a}
    Baseline = base
    Broken = broken
    NoProfile = none
    EditsInWindow = FALSE
    MaxEdits = 0
    MaxTampers = 0
    MaxCrashes = 0
    MaxFaults = 0
PROPERTY NewestFirst
CHECK_DEADLOCK FALSE
