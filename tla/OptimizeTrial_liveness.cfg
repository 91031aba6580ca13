\* Every live trial is restored when the user keeps asking; sessions deliver receipts meanwhile.
SPECIFICATION FairSpec
CONSTANTS
    Servers = {s1}
    Hooks = {h1}
    Ids = {t1}
    Bases = {empty, broken, text}
    EmptyObject = empty
    Broken = broken
    NoId = none
    EditsInWindow = TRUE
    MaxEdits = 1
    MaxCrashes = 1
    MaxFaults = 1
PROPERTIES Recoverable ReceiptOnlyWhenActive
CHECK_DEADLOCK FALSE
