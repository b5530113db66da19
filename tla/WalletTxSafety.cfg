SPECIFICATION MCSpec
CONSTANTS
    Requests = {r1, r2}
    Granted = {r1}
    Modes = {"block", "async"}
    TimeoutBlocks = 1
    Heights = {"known"}
    DisableRetry = FALSE
    EvmOnly = FALSE
    QueryMayFail = TRUE
    Reloads = {"app"}
    Accounts = {"own", "grantee"}
    Shared = {"own"}
    MaxNonce = 1
    MaxHeight = 1
INVARIANTS TypeOK NonceErrorIsRetried AtMostOnce RetrySignsFresh
PROPERTIES Settles ImplementsRequestService
\* an idle wallet may stay idle
CHECK_DEADLOCK FALSE
