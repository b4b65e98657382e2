\* One change of the Workflow: its result no longer needs approval.
SPECIFICATION ReviewSpec
CONSTANTS
    None = None
    Tasks = {1, 2}
    Source <- Approved
    Targets <- Unapproved
    Reviews = {{}, {1}, {1, 2}}
    MaxMoves = 2
INVARIANT ReadBack
CHECK_DEADLOCK FALSE
