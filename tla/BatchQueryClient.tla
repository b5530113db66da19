-------------------------- MODULE BatchQueryClient --------------------------
(***************************************************************************)
(* BatchQueryClient (src/clients/BatchQueryClient.ts): the SDK's fallback  *)
(* RPC client.  execute() queues a request; an interval timer, or the      *)
(* queue reaching batchSizeLimit, sends the oldest ones as one HTTP POST;  *)
(* its answer settles the promises of the batch by position.               *)
(***************************************************************************)
EXTENDS Integers, Sequences, SequencesExt, FiniteSets

CONSTANTS Requests,        \* calls of execute()
          Id(_),           \* the JSON-RPC id of a request
          BatchSizeLimit   \* options.batchSizeLimit (20)

ASSUME BatchAssumption == BatchSizeLimit \in Nat \ {0}

VARIABLES queue,      \* this.queue
          inFlight,   \* batches whose HTTP call has not returned
          timer,      \* is the interval running?
          promise,    \* what each execute() promise says: the request that
                      \*   the answer belongs to, or one of the States
          garbled     \* history: requests of batches whose answer was not
                      \*   one well-formed element per request, in order

vars == <<queue, inFlight, timer, promise, garbled>>

States == {"new", "pending", "error", "failed"}

TypeOK == /\ queue \in Seq(Requests)
          /\ inFlight \subseteq Seq(Requests)
          /\ timer \in BOOLEAN
          /\ promise \in [Requests -> [state : States \cup {"answered"},
                                       by : SUBSET Requests]]
          /\ garbled \subseteq Requests

Now(state) == [state |-> state, by |-> {}]
\* mutant: resolve() is called without the response
AnsweredByNone(r) == [state |-> "answered"]

AnsweredBy(r) == [state |-> "answered", by |-> {r}]

\* a client whose options are valid: of one that validate() refuses, the
\* interval started before it goes on without an owner and finds no request.
\* The period of the interval, and that line 51 passes the option and not
\* its default, are left out: a tick may come at any time.
Init == /\ queue = <<>>
        /\ inFlight = {}
        /\ timer = TRUE
        /\ promise = [r \in Requests |-> Now("new")]
        /\ garbled = {}

-----------------------------------------------------------------------------
(* tick(): splice the oldest requests off the queue and post them.          *)
Taken(pending) == IF Len(pending) < BatchSizeLimit THEN Len(pending)
                  ELSE BatchSizeLimit

\* mutant: slice() instead of splice()
SendCopy(pending) ==
    /\ inFlight' = inFlight \cup {SubSeq(pending, 1, Taken(pending))}
    /\ queue' = pending

Send(pending) ==
    /\ inFlight' = inFlight \cup {SubSeq(pending, 1, Taken(pending))}
    /\ queue' = SubSeq(pending, Taken(pending) + 1, Len(pending))

\* mutant: off by one
OverFull(pending) == Len(pending) > BatchSizeLimit

Full(pending) == Len(pending) >= BatchSizeLimit

Execute(r) ==
    /\ promise[r].state = "new"
    /\ promise' = [promise EXCEPT ![r] = Now("pending")]
    /\ IF Full(Append(queue, r))
       THEN Send(Append(queue, r))
       ELSE queue' = Append(queue, r) /\ UNCHANGED inFlight
    /\ UNCHANGED <<timer, garbled>>

Tick == /\ timer
        /\ queue # <<>>
        /\ Send(queue)
        /\ UNCHANGED <<timer, promise, garbled>>

Disconnect == /\ timer
              /\ timer' = FALSE
              /\ UNCHANGED <<queue, inFlight, promise, garbled>>

-----------------------------------------------------------------------------
(* The answers: an array of elements, each a result or an error for some    *)
(* request of the batch, or not a JSON-RPC response at all.  JSON-RPC lets  *)
(* the node order them as it likes; it may also leave some out.             *)
Element == {"result", "error", "malformed"}

Sequels(batch) ==
    {q \in UNION {[1 .. n -> ToSet(batch)] : n \in 0 .. Len(batch)} :
        \A i, j \in DOMAIN q : q[i] = q[j] => i = j}

WellFormed(batch, order, kinds) ==
    order = batch /\ \A i \in DOMAIN kinds : kinds[i] # "malformed"

\* forEach() stops at the first element that does not parse
Parsed(kinds) == {i \in DOMAIN kinds :
                     \A j \in 1 .. i : kinds[j] # "malformed"}

\* mutant: every promise gets the last element
SettledByLast(batch, order, kinds) ==
    [r \in Requests |->
        IF \E i \in Parsed(kinds) : batch[i] = r
        THEN AnsweredBy(order[Len(order)])
        ELSE promise[r]]

SettledBy(batch, order, kinds) ==
    [r \in Requests |->
        IF \E i \in Parsed(kinds) : batch[i] = r
        THEN LET i == CHOOSE i \in Parsed(kinds) : batch[i] = r IN
             IF kinds[i] = "error" THEN Now("error") ELSE AnsweredBy(order[i])
        ELSE promise[r]]

Answers(batch) ==
    /\ \E order \in Sequels(batch) : \E kinds \in [DOMAIN order -> Element] :
          /\ promise' = SettledBy(batch, order, kinds)
          /\ garbled' = IF WellFormed(batch, order, kinds) THEN garbled
                        ELSE garbled \cup ToSet(batch)
    /\ inFlight' = inFlight \ {batch}
    /\ UNCHANGED <<queue, timer>>

\* mutant: the loop ends after the first request
RejectedFirst(batch) == {batch[1]}

\* reject() of the first request with each id; a promise settles only once
Rejected(batch) ==
    {batch[i] : i \in {i \in DOMAIN batch :
                          \A j \in 1 .. i - 1 : Id(batch[j]) # Id(batch[i])}}

\* mutant: no error handler
HttpFailsSilently(batch) ==
    /\ inFlight' = inFlight \ {batch}
    /\ UNCHANGED <<queue, timer, promise, garbled>>

HttpFails(batch) ==
    /\ promise' = [r \in Requests |-> IF r \in Rejected(batch)
                                      THEN Now("failed") ELSE promise[r]]
    /\ inFlight' = inFlight \ {batch}
    /\ UNCHANGED <<queue, timer, garbled>>

Next == \/ \E r \in Requests : Execute(r)
        \/ Tick
        \/ Disconnect
        \/ \E batch \in inFlight : Answers(batch) \/ HttpFails(batch)

Spec == Init /\ [][Next]_vars

\* the interval fires and every HTTP call returns
Fairness == /\ WF_vars(Tick)
            /\ WF_vars(\E batch \in inFlight : Answers(batch) \/ HttpFails(batch))

FairSpec == Spec /\ Fairness

-----------------------------------------------------------------------------
Pending == {r \in Requests : promise[r].state = "pending"}

Sent == UNION {ToSet(batch) : batch \in inFlight}

(* "Max number of items sent in one request", also when execute() is called *)
(* faster than batches return; and a full queue never waits for the timer.  *)
WithinLimit == /\ \A batch \in inFlight : Len(batch) \in 1 .. BatchSizeLimit
               /\ Len(queue) < BatchSizeLimit

(* No request is sent twice, and none that waits or travels has settled:    *)
(* splitting the queue into batches duplicates nothing.                     *)
SentOnce == /\ \A a, b \in inFlight : a # b => ToSet(a) \cap ToSet(b) = {}
            /\ ToSet(queue) \cap Sent = {}
            /\ ToSet(queue) \cup Sent \subseteq Pending

(* "HTTP errors need to be handled by the queued promises": once a batch is *)
(* back, none of its requests is left waiting, except for a garbled answer  *)
(* and for requests that share their id with another one.                   *)
SharesId(r) == \E q \in Requests : q # r /\ Id(q) = Id(r)

NoneLeftWaiting == \A r \in Pending :
    r \in ToSet(queue) \cup Sent \cup garbled \/ SharesId(r)

(* A promise resolves with the answer to its own request, whatever batches  *)
(* return in between, when the node keeps to the order of its batch.        *)
OwnAnswer == \A r \in Requests \ garbled : promise[r].by \subseteq {r}

(* Under the same conditions every executed request settles; disconnect()   *)
(* leaves none but those that still wait in the queue.                      *)
Settles == \A r \in Requests :
    (promise[r].state = "pending" /\ ~SharesId(r))
        ~> \/ promise[r].state # "pending"
           \/ r \in garbled
           \/ ~timer /\ r \in ToSet(queue)
=============================================================================
