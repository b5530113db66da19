SPECIFICATION FairSpec
CONSTANTS
    r1 = r1
    r2 = r2
    r3 = r3
    r4 = r4
    Requests = {r1, r2, r3, r4}
    Id <- PairedId
    BatchSizeLimit = 3
INVARIANTS TypeOK WithinLimit SentOnce NoneLeftWaiting OwnAnswer
PROPERTY Settles
\* the client rests when every request has settled
CHECK_DEADLOCK FALSE
