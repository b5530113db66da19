\* default options in units of 100 ms would be 3 and 10; 1 and 3 keep the
\* order of events and the number of postponements
SPECIFICATION FairSpec
CONSTANTS
    Tasks = {t1, t2, t3}
    TriggerDelay = 1
    MaxDelayThreshold = 3
    MaxTime = 7
INVARIANTS TypeOK FifoHandOver OneAtATime DebounceBounded StallNeedsMissedTimer
PROPERTIES QueuedWhileDrainingStarts TriggeredWorkStarts ImplementsFifoWorker
\* the clock is bounded: the model stops at MaxTime
CHECK_DEADLOCK FALSE
