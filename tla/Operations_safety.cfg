\* Three invocations, so that a crash, a recovery and a retry can overlap; one
\* producer with two candidate files, an admission, an edit or a push (an edit may be
\* committed); five packets and two processes killed while they publish.
SPECIFICATION Operations
CONSTANTS
    Invocation = {i1, i2, i3}
    NoInvocation = NoInvocation
    Faults <- SafetyFaults
    None = None
    Producers = {p1}
    Paths = {a1, a2}
    Extras = {"x"}
    Tree <- Published
    MaxVersion = 1
    MaxMoves = 1
    MaxGraph = 2
    MaxBinding = 2
    Bases = {"main", "next"}
    Cursors = {"c0", "c1"}
    Reports = {"r0"}
    MaxAncestry = 4
    MaxPackets = 5
    MaxCrashes = 2
    MaxAtRisk = 2
SYMMETRY Symmetry
CHECK_DEADLOCK FALSE
INVARIANTS
    EffectExclusive
    VouchedWhole
    PublicationSound
    PackedHonest
PROPERTIES
    ImplementsContract
    CoverageGrows
