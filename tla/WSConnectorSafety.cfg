SPECIFICATION FairSpec
CONSTANTS
    MaxConnects = 3
    Requests = {q1}
    Channels = {c1}
    MayThrow = TRUE
INVARIANTS TypeOK ConnectedHasSocket NoOrphanSocket PendingHasHandler HeartbeatNeedsConnection SubscriptionSent
PROPERTY ConnectSettles
\* once its calls are used up, the application may leave the connector idle
CHECK_DEADLOCK FALSE
