\* Sessions of two Tasks and a Script that may be reborn, on one device; every
\* kind of operation; two runs in a store for one and a half.
SPECIFICATION Devices
CONSTANTS
    s1 = s1  s2 = s2  s3 = s3  p1 = p1  a = a  b = b
    None = None
    Nobody = Nobody
    Sessions = {s1, s2, s3}
    Scripts = {p1}
    TaskOf <- TaskOfTwo
    Resources = {r1}
    Ttls = {0}
    Rounds = 0
    MaxTime = 1
    MaxTokens = 2
    MaxRestarts = 1
    Faults = {"crash", "io"}
    Kinds = {"observe", "act", "tap"}
    Runs = {"r1", "r2"}
    Exporters = {"x1"}
    Wants <- WantsOfTwo
    DataBytes = 1
    LogBytes = 1
    MaxBytes = 3
CHECK_DEADLOCK FALSE
INVARIANTS
    Exclusive
    AnswerHonest
    StopHonest
    RetentionKept
    ExportHonest
    NoWaitCycle
PROPERTIES
    RecordsKept
