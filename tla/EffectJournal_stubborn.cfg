\* One child that ignores SIGTERM: its driver times out and moves on.
CONSTANTS
    Invocation = {i1, i2}
    NoInvocation = NoInvocation
    Faults = {"stubborn"}
SPECIFICATION Spec
CHECK_DEADLOCK FALSE
INVARIANT EffectReaped
