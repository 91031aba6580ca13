\* Two servers on one state directory, crashes and edits, which avoid the window between a check and its write.
SPECIFICATION Spec
CONSTANTS
    Servers = {s1, s2}
    Hooks = {}
    Ids = {t1, t2}
    Bases = {empty, broken}
    EmptyObject = empty
    Broken = broken
    NoId = none
    EditsInWindow = FALSE
    MaxEdits = 1
    MaxCrashes = 1
    MaxFaults = 0
SYMMETRY Symmetry
INVARIANTS TypeOK OneLiveTrial UserContentKept JournalHonest
PROPERTIES TrialsKept
CHECK_DEADLOCK FALSE
