SPECIFICATION Spec
CONSTANTS
    c1 = c1
    c2 = c2
    Callers = {c1, c2}
    Reloaders = {"signTx", "app"}
    DefaultModes = {"block", "sync"}
SYMMETRY CallerSymmetry
INVARIANTS TypeOK MergedFlagHolds TriggeredAfterMerge KnownMergeIsFinal FreshAfterMerge
\* every call may have returned
CHECK_DEADLOCK FALSE
