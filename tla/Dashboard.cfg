\* The history, the usage and the demo, with files opened at any time.
SPECIFICATION Spec
CONSTANTS
    Modes = {"history", "usage", "demo"}
    Profiles = {1, 2}
    Baseline = 1
    Costs <- MCCosts
    Files <- MCFiles
    Tasks = {"a", "b"}
    Response <- MCResponse
    MaxExperiments = 2
    MaxTrials = 4
    MaxClicks = 2
    MaxDemoClicks = 6
    MaxPolls = 1
    MaxEvents = 1
INVARIANTS TraceReadable DemoMatchesSnapshot FiguresAgree
PROPERTIES UndoOfShown ImportKept Settles
CHECK_DEADLOCK FALSE
