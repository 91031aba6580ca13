\* Edits outside the windows, a modified snapshot, one crash, one failed write.
SPECIFICATION Spec
CONSTANTS
    Procs = {p1, p2}
    MaxRuns = 4
    MaxExperiments = 2
    Profiles = {base, broken, a}
    Baseline = base
    Broken = broken
    NoProfile = none
    EditsInWindow = FALSE
    MaxEdits = 1
    MaxTampers = 1
    MaxCrashes = 1
    MaxFaults = 1
SYMMETRY Symmetry
INVARIANTS TypeOK EditKept JournalHonest PauseHolds
PROPERTY RollbackExact
CHECK_DEADLOCK FALSE
