\* Two drivers, every fault; a call, its retry and another call; two Sessions
\* and two devices.
SPECIFICATION FairServices
CONSTANTS
    None = None
    Nothing = Nothing
    i1 = i1  i2 = i2
    NoDriver = NoDriver
    Client = {c1, c2, c3}
    Invocation = {j1, j2}
    Content = {v1, v2}
    c1 = c1  c2 = c2  c3 = c3  j1 = j1  j2 = j2
    InvOf <- IdOfThree
    s1 = s1  s2 = s2
    Resources = {r1, r2}
    Sessions = {s1, s2}
    Scripts = {}
    TaskOf <- OwnTasks
    Ttls = {0}
    Rounds = 1
    MaxTime = 1
    MaxTokens = 2
    MaxRestarts = 0
    Faults = {}
CHECK_DEADLOCK FALSE
INVARIANTS
    AtMostOnce
    NoOrphans
PROPERTIES
    UnknownStays
    CallsReturn
