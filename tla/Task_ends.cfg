\* Three Tasks, two runs of the Janitor, two steps of other people, Kent as late
\* as it likes; a ledger of two owners, one report and one seal, three deaths
\* or losses of power, none of these after unsynced bytes were relied on.
SPECIFICATION TaskEnds
CONSTANTS
    Commits <- TwoCommits
    History <- LinearHistory
    None = None
    Missing = Missing
    Tasks <- SomeTasks
    MaxRuns = 2
    MaxMoves = 2
    Owners = {"o1", "o2"}
    Reports = {"r1"}
    Seals = {"q1"}
    MaxFaults = 3
    PowerAnywhere = FALSE
INVARIANTS
    NothingLost
    RemoteLast
    VerdictHonest
    AnsweredKept
    Repairable
CHECK_DEADLOCK FALSE
