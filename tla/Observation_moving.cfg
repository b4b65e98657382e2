\* Two Tasks and four changes of a Workflow; a pull request with a review
\* thread.
SPECIFICATION Observation
CONSTANTS
    None = None
    Source <- SourceGraph
    Targets <- TargetGraphs
    Tasks = {1, 2}
    Reviews = {{}, {1}, {1, 2}}
    MaxMoves = 2
    Comments = {}
    Threads = {"thread"}
    MaxForge = 1
    MaxTime = 1
    MaxPolls = 4
    Interval = 0
    After = {1}
    MaxErrors = 2
    MaxAttempts = 1
CHECK_DEADLOCK FALSE
INVARIANTS
    OneMoment
    NobodyStranded
    HistoryWhole
PROPERTIES
    Disposed
    PassedOnOneState
    NothingUnheard
    Restrained
