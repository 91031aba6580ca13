\* The user keeps asking for the rollback of an applied experiment.
SPECIFICATION FairSpec
CONSTANTS
    Procs = {p1}
    MaxRuns = 6
    MaxExperiments = 1
    Profiles = {base, broken, a}
    Baseline = base
    Broken = broken
    NoProfile = none
    EditsInWindow = FALSE
    MaxEdits = 0
    MaxTampers = 0
    MaxCrashes = 1
    MaxFaults = 1
PROPERTY UndoWorks
CHECK_DEADLOCK FALSE
