\* Two publications, two overlapping script runs, two acceptances; the graphs
\* of 300 profiles.
SPECIFICATION Plans
CONSTANTS
    Operation = {o1, o2}
    Guard = {g1, g2}
    Snapshot = {s1, s2}
    Text = {t1, t2}
    Review = {r1}
    None = None
    Profiles <- SomeProfiles
SYMMETRY Symmetry
CHECK_DEADLOCK FALSE
INVARIANTS
    Grounded
    Judged
    Followed
PROPERTIES
    NoLostUpdate
    AcceptanceSound
    PlanBound
