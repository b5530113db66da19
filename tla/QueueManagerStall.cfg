\* the default options, at a scale of 1 : 3
SPECIFICATION Spec
CONSTANTS
    Tasks = {t1, t2, t3}
    TriggerDelay = 1
    MaxDelayThreshold = 3
    MaxTime = 9
INVARIANT TriggeredWorkIsScheduled
CHECK_DEADLOCK FALSE
