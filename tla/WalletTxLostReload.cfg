SPECIFICATION Spec
CONSTANTS
    Requests = {r1, r2}
    Granted = {}
    Modes = {"sync"}
    TimeoutBlocks = 1
    Heights = {"known"}
    DisableRetry = FALSE
    EvmOnly = FALSE
    QueryMayFail = TRUE
    Reloads = {}
    Accounts = {"own"}
    Shared = {"own"}
    MaxNonce = 2
    MaxHeight = 1
SYMMETRY RequestSymmetry
INVARIANT RetryIsReloaded
\* an idle wallet may stay idle
CHECK_DEADLOCK FALSE
