\* A process stops between the rename and the chmod of Restore.
SPECIFICATION Spec
CONSTANTS
    Servers = {s1}
    Hooks = {}
    Ids = {t1}
    Bases = {empty, broken, text}
    EmptyObject = empty
    Broken = broken
    NoId = none
    EditsInWindow = FALSE
    MaxEdits = 0
    MaxCrashes = 1
    MaxFaults = 0
INVARIANTS PermissionsKept
CHECK_DEADLOCK FALSE
