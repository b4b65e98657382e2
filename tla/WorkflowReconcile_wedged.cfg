\* Nothing but crashes: the plan's own result is refused.
SPECIFICATION ReconcileSpec
CONSTANTS
    N = 2
    Disruptions = {"crash"}
INVARIANTS RefusalJustified
