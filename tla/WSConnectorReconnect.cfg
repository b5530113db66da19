SPECIFICATION Spec
CONSTANTS
    MaxConnects = 2
    Requests = {q1}
    Channels = {c1}
    MayThrow = FALSE
INVARIANT ReconnectIsSafe
\* once its calls are used up, the application may leave the connector idle
CHECK_DEADLOCK FALSE
