\* Up to five packets and two processes killed; one of each is enough.
SPECIFICATION PacketsSpec
CONSTANTS
    Bases = {"main", "next"}
    Cursors = {"c0", "c1"}
    Reports = {"r0"}
    MaxAncestry = 4
    MaxPackets = 5
    MaxCrashes = 2
    MaxAtRisk = 2
INVARIANT DeathRetryable
CHECK_DEADLOCK FALSE
