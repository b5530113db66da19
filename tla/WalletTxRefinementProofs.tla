----------------------- MODULE WalletTxRefinementProofs -----------------------
(***************************************************************************)
(* WalletTx implements RequestService: every step of the wallet and of the *)
(* node is a step of the abstract service, or none.                        *)
(***************************************************************************)
EXTENDS WalletTxSafetyProofs, FiniteSetTheorems

-----------------------------------------------------------------------------
(* A broadcast call in block mode that reports success or a failed          *)
(* transaction has seen it in a block.                                      *)

SawBlock(c) == /\ c.step = "done"
               /\ \/ c.outcome = "blockFail"
                  \/ c.outcome = "ok" /\ mode[c.tx.req] = "block"

CallsHold == \A c \in dispatching : SawBlock(c) => c.tx \in included

\* promises that say a block holds the transaction
Confirmed(r, outcome) == \/ outcome = "blockFail"
                         \/ outcome = "resolved" /\ mode[r] = "block"

Executed(r) == \E t \in included : t.req = r

\* what one step does to the promises and to the blocks
Submits == \E r \in Requests : /\ settled[r] = "new"
                               /\ Settle(r, "pending")
                               /\ UNCHANGED included

Delivers == \E t \in mempool : /\ included' = included \cup {t}
                               /\ UNCHANGED settled

Settling(r, outcome) == /\ settled[r] = "pending"
                        /\ Settle(r, outcome)
                        /\ UNCHANGED included
                        /\ outcome \in Refusals => Fresh(r)
                        /\ Confirmed(r, outcome) => Executed(r)

Answered == \E r \in Requests : \E outcome \in Outcomes : Settling(r, outcome)

Invisible == UNCHANGED <<settled, included>>

LEMMA NodeEffect ==
    ASSUME Chain PROVE Delivers \/ Invisible
<1>1. UNCHANGED settled
  BY DEF Chain, walletVars
<1>2. CASE \E t \in mempool : Deliver(t)
  BY <1>1, <1>2 DEF Deliver, Delivers
<1>3. CASE \E t \in mempool : Evict(t)
  BY <1>1, <1>3 DEF Evict, Invisible
<1>4. CASE \E t \in late : Arrive(t)
  BY <1>1, <1>4 DEF Arrive, Invisible
<1>5. CASE NodeRestarts \/ Fund \/ NewBlock \/ \E a \in Shared : Foreign(a)
  BY <1>1, <1>5 DEF NodeRestarts, Fund, NewBlock, Foreign, Invisible
<1> QED  BY <1>2, <1>3, <1>4, <1>5 DEF Chain, NodeNext

LEMMA SignEffect ==
    ASSUME TypeOK, OnePlace, SignStep PROVE Answered \/ Invisible
<1>1. PICK s \in signing :
          \/ \E n \in s.since .. Committed(s.acct) :
                 ReloadReturns(s, n) \/ GranteeAccountReturns(s, n)
          \/ \E limit \in Limits : HeightReturns(s, limit)
                                   \/ GranteeHeightReturns(s, limit)
          \/ QueryFails(s) \/ SignFails(s) \/ WalletIncompatible(s)
          \/ Signed(s)
  BY DEF SignStep
<1>2. s.req \in Requests /\ InSigning(s.req)
  BY DEF TypeOK, Sign, InSigning
<1>3. settled[s.req] = "pending" /\ Fresh(s.req)
  BY <1>2 DEF OnePlace, PendingIsPlaced, Fresh
<1>4. CASE QueryFails(s) \/ SignFails(s) \/ WalletIncompatible(s)
  <2>1. PICK outcome \in {"query", "refused"} : Settle(s.req, outcome)
    BY <1>4 DEF QueryFails, SignFails, WalletIncompatible
  <2>2. UNCHANGED included
    BY <1>4 DEF QueryFails, SignFails, WalletIncompatible, nodeVars
  <2>3. outcome \in Outcomes /\ ~Confirmed(s.req, outcome)
    BY DEF Outcomes, Refusals, Confirmed
  <2>4. Settling(s.req, outcome)
    BY <1>3, <2>1, <2>2, <2>3 DEF Settling
  <2> QED  BY <1>2, <2>3, <2>4 DEF Answered
<1>5. CASE ~(QueryFails(s) \/ SignFails(s) \/ WalletIncompatible(s))
  BY <1>1, <1>5
     DEF Invisible, nodeVars, ReloadReturns, GranteeAccountReturns,
         HeightReturns, GranteeHeightReturns, Signed
<1> QED  BY <1>4, <1>5

LEMMA DispatchEffect ==
    ASSUME TypeOK, OnePlace, CallsHold, DispatchStep PROVE Answered \/ Invisible
<1>1. PICK c \in dispatching :
          \/ AcceptedAsync(c) \/ CheckTxPasses(c) \/ CheckTxFails(c)
          \/ ConnectionFails(c) \/ PollFinds(c) \/ PollFindsMismatch(c)
          \/ PollTimesOut(c) \/ Retry(c) \/ SettleCall(c)
  BY DEF DispatchStep
<1> DEFINE r == c.tx.req
           outcome == Settlement(c.outcome)
<1>2. r \in Requests /\ settled[r] = "pending"
  BY CallIsAlone
<1>3. CASE SettleCall(c)
  <2>1. c.outcome \in CallOutcomes /\ c.step = "done"
    BY <1>3 DEF TypeOK, Call, SettleCall
  <2>2. outcome \in Outcomes
    BY <2>1 DEF Settlement, CallOutcomes, Outcomes, Refusals
  <2>3. outcome \in Refusals => CallIsFresh(c)
    BY <2>1 DEF Settlement, CallOutcomes, Refusals, CallIsFresh
  <2>4. Confirmed(r, outcome) => SawBlock(c)
    BY <2>1 DEF Confirmed, Settlement, CallOutcomes, SawBlock
  <2>5. Settle(r, outcome) /\ UNCHANGED included
    BY <1>3 DEF SettleCall, nodeVars
  <2>6. Settling(r, outcome)
    BY <1>2, <2>3, <2>4, <2>5 DEF Settling, Fresh, CallsHold, Executed
  <2> QED  BY <1>2, <2>2, <2>6 DEF Answered
<1>4. CASE ~SettleCall(c)
  BY <1>1, <1>4
     DEF Invisible, nodeVars, DuringCall, AcceptedAsync, CheckTxPasses,
         CheckTxFails, ConnectionFails, PollFinds, PollFindsMismatch,
         PollTimesOut, Retry
<1> QED  BY <1>3, <1>4

LEMMA StepEffect ==
    ASSUME TypeOK, OnePlace, CallsHold, [Next]_vars
    PROVE  Submits \/ Delivers \/ Answered \/ Invisible
<1>1. ASSUME NEW r \in Requests, SignAndBroadcast(r) PROVE Submits
  BY <1>1 DEF SignAndBroadcast, Submits, nodeVars
<1>2. CASE SignWithGrantee \/ SignTx \/ DispatchTx \/ MergeStatusChanges
           \/ GranteeChanges \/ ReloadsBeside \/ TimerMissed \/ UNCHANGED vars
  BY <1>2 DEF SignWithGrantee, SignTx, DispatchTx, MergeStatusChanges,
              GranteeChanges, ReloadsBeside, AskReload, ReloadAnswers,
              ReloadFails, TimerMissed, vars, nodeVars, walletVars, Invisible
<1> QED  BY <1>1, <1>2, NodeEffect, SignEffect, DispatchEffect DEF Next

-----------------------------------------------------------------------------
(* The calls stay truthful, and with them the promises.                     *)

LEMMA ModeIsFixed == ASSUME [Next]_vars PROVE UNCHANGED mode
  BY DEF Next, vars, nodeVars, walletVars, SignAndBroadcast, SignWithGrantee,
         SignTx, SignStep, ReloadReturns, GranteeAccountReturns, QueryFails, HeightReturns,
         GranteeHeightReturns, Signed, SignFails, WalletIncompatible,
         DispatchTx, DispatchStep, DuringCall, AcceptedAsync, CheckTxPasses,
         CheckTxFails, ConnectionFails, PollFinds, PollFindsMismatch,
         PollTimesOut, Retry, SettleCall, MergeStatusChanges, GranteeChanges,
         ReloadsBeside, AskReload, ReloadAnswers, ReloadFails, TimerMissed,
         Chain

LEMMA IncludedGrows ==
    ASSUME TypeOK, OnePlace, CallsHold, [Next]_vars
    PROVE  included \subseteq included'
  BY StepEffect DEF Submits, Delivers, Answered, Settling, Invisible

LEMMA AnswersHold ==
    ASSUME TypeOK, NEW c \in dispatching, DispatchStep, ~Retry(c), ~SettleCall(c),
           OneTaskEach
    PROVE  \A d \in dispatching' : SawBlock(d)' => d.tx \in included'
<1>1. c \in Call /\ c.tx \in Txs
  BY DEF TypeOK, Call
<1>2. \/ AcceptedAsync(c) \/ CheckTxPasses(c) \/ CheckTxFails(c)
      \/ ConnectionFails(c) \/ PollFinds(c) \/ PollFindsMismatch(c)
      \/ PollTimesOut(c)
  BY DEF DispatchStep, OneTaskEach
<1>3. ASSUME NEW o \in CallOutcomes, Answer(c, o)
      PROVE  \A d \in dispatching' : d.tx = c.tx /\ d.outcome = o
  <2> DEFINE x == [c EXCEPT !.step = "done", !.outcome = o]
  <2>1. x.tx = c.tx /\ x.outcome = o
    BY <1>1 DEF Call
  <2>2. dispatching' = {x}
    BY <1>3 DEF Answer
  <2> HIDE DEF x
  <2> QED  BY <2>1, <2>2
<1>4. mode' = mode /\ included' = included
  BY <1>2 DEF DuringCall, AcceptedAsync, CheckTxPasses, CheckTxFails,
              ConnectionFails, PollFinds, PollFindsMismatch, PollTimesOut
<1>5. CASE AcceptedAsync(c)
  BY <1>3, <1>4, <1>5 DEF AcceptedAsync, SawBlock, CallOutcomes
<1>6. CASE CheckTxPasses(c)
  <2>1. CASE mode[c.tx.req] = "block"
    <3> DEFINE x == [c EXCEPT !.step = "polling"]
    <3>1. x.step = "polling"
      BY <1>1 DEF Call
    <3>2. dispatching' = {x}
      BY <1>6, <2>1 DEF CheckTxPasses
    <3> HIDE DEF x
    <3> QED  BY <3>1, <3>2 DEF SawBlock
  <2>2. CASE mode[c.tx.req] # "block"
    BY <1>3, <1>4, <1>6, <2>2 DEF CheckTxPasses, SawBlock, CallOutcomes
  <2> QED  BY <2>1, <2>2
<1>7. CASE PollFinds(c)
  BY <1>3, <1>4, <1>7 DEF PollFinds, CallOutcomes
<1>8. CASE \/ CheckTxFails(c) \/ ConnectionFails(c) \/ PollFindsMismatch(c)
           \/ PollTimesOut(c)
  <2>1. \E o \in {"mismatch", "checkTx", "network", "timeout"} : Answer(c, o)
    BY <1>8 DEF CheckTxFails, ConnectionFails, PollFindsMismatch, PollTimesOut
  <2> QED  BY <1>3, <2>1 DEF SawBlock, CallOutcomes
<1> QED  BY <1>2, <1>5, <1>6, <1>7, <1>8

LEMMA NextCallsHold ==
    ASSUME TypeOK, OnePlace, CallsHold, [Next]_vars PROVE CallsHold'
<1>1. mode' = mode /\ included \subseteq included'
  BY ModeIsFixed, IncludedGrows
<1>2. CASE UNCHANGED dispatching
  BY <1>1, <1>2 DEF CallsHold, SawBlock
<1>3. CASE DispatchTx
  BY <1>3 DEF DispatchTx, CallsHold, SawBlock
<1>4. CASE DispatchStep
  <2>1. PICK c \in dispatching : TRUE
    BY <1>4 DEF DispatchStep
  <2>2. CASE Retry(c) \/ SettleCall(c)
    BY <2>2 DEF Retry, SettleCall, CallsHold
  <2>3. CASE ~Retry(c) /\ ~SettleCall(c)
    BY <1>4, <2>3, AnswersHold DEF OnePlace, CallsHold
  <2> QED  BY <2>2, <2>3
<1>5. DispatchTx \/ DispatchStep \/ UNCHANGED dispatching
  BY DEF Next, vars, nodeVars, walletVars, SignAndBroadcast, SignWithGrantee,
         SignTx, SignStep, ReloadReturns, GranteeAccountReturns, QueryFails, HeightReturns,
         GranteeHeightReturns, Signed, SignFails, WalletIncompatible,
         MergeStatusChanges, GranteeChanges, ReloadsBeside, AskReload,
         ReloadAnswers, ReloadFails, TimerMissed, Chain
<1> QED  BY <1>2, <1>3, <1>4, <1>5

\* dispatchTx(): a broadcast that is about to report a block, or a transaction
\* that a block failed, has its own transaction in a block, in every order of
\* deliveries, evictions and polls.
THEOREM CallInvariance == Spec => []CallsHold
<1>1. Init => CallsHold
  BY DEF Init, CallsHold
<1>2. TypeOK /\ OnePlace /\ CallsHold /\ [Next]_vars => CallsHold'
  BY NextCallsHold
<1> QED  BY <1>1, <1>2, Typing, OnePlaceHolds, PTL DEF Spec

-----------------------------------------------------------------------------
(* The mapping: what the promises and the counts of the service say.        *)

StatusMap == [r \in Requests |-> AnswerOf(settled[r])]
CountMap == [r \in Requests |-> Cardinality(Executions(r))]

LEMMA AnswerFacts ==
    ASSUME NEW outcome \in Outcomes \cup {"new", "pending"}
    PROVE  /\ AnswerOf(outcome) = "refused" <=> outcome \in Refusals
           /\ AnswerOf(outcome) = "failed" <=> outcome = "blockFail"
           /\ AnswerOf(outcome) = "new" <=> outcome = "new"
           /\ AnswerOf(outcome) = "pending" <=> outcome = "pending"
           /\ AnswerOf(outcome) = "resolved" <=> outcome = "resolved"
           /\ AnswerOf(outcome) \in Service!Answers \cup {"new", "pending"}
<1>1. CASE outcome \in Refusals
  <2>1. AnswerOf(outcome) = "refused"
    BY <1>1 DEF AnswerOf, Refusals
  <2> QED  BY <1>1, <2>1 DEF Refusals, Service!Answers
<1>2. CASE outcome = "blockFail"
  <2>1. AnswerOf(outcome) = "failed"
    BY <1>2 DEF AnswerOf, Refusals
  <2> QED  BY <1>2, <2>1 DEF Refusals, Service!Answers
<1>3. CASE outcome \in {"network", "timeout"}
  <2>1. AnswerOf(outcome) = "unknown"
    BY <1>3 DEF AnswerOf, Refusals
  <2> QED  BY <1>3, <2>1 DEF Refusals, Service!Answers
<1>4. CASE outcome \in {"new", "pending", "resolved"}
  <2>1. AnswerOf(outcome) = outcome
    BY <1>4 DEF AnswerOf, Refusals
  <2> QED  BY <1>4, <2>1 DEF Refusals, Service!Answers
<1> QED  BY <1>1, <1>2, <1>3, <1>4 DEF Outcomes

LEMMA Counted ==
    ASSUME OneBody, NEW r \in Requests
    PROVE  /\ ~Executed(r) => Cardinality(Executions(r)) = 0
           /\ Executed(r) => Cardinality(Executions(r)) = 1
<1>1. CASE ~Executed(r)
  <2>1. Executions(r) = {}
    BY <1>1 DEF Executed, Executions
  <2> QED  BY <1>1, <2>1, FS_EmptySet
<1>2. CASE Executed(r)
  <2>1. PICK t \in included : t.req = r
    BY <1>2 DEF Executed
  <2>2. Executions(r) = {t}
    BY <2>1 DEF Executions, OneBody, Bodies
  <2> QED  BY <1>2, <2>2, FS_Singleton
<1> QED  BY <1>1, <1>2

LEMMA AnswersMap ==
    ASSUME NEW r \in Requests, NEW outcome \in Outcomes \cup {"pending"}, TypeOK,
           Settle(r, outcome)
    PROVE  StatusMap' = [StatusMap EXCEPT ![r] = AnswerOf(outcome)]
  BY DEF TypeOK, Settle, StatusMap

LEMMA CountsMap == ASSUME UNCHANGED included PROVE UNCHANGED CountMap
  BY DEF CountMap, Executions

LEMMA SubmitsRefines ==
    ASSUME TypeOK, UNCHANGED mode, Submits PROVE Service!Next
<1>1. PICK r \in Requests : /\ settled[r] = "new"
                            /\ Settle(r, "pending")
                            /\ UNCHANGED included
  BY DEF Submits
<1>2. StatusMap' = [StatusMap EXCEPT ![r] = "pending"] /\ StatusMap[r] = "new"
  BY <1>1, AnswersMap, AnswerFacts DEF StatusMap
<1>3. UNCHANGED CountMap
  BY <1>1, CountsMap
<1>4. Service!Submit(r)
  BY <1>2, <1>3 DEF Service!Submit, StatusMap, CountMap
<1> QED  BY <1>4 DEF Service!Next

LEMMA DeliversRefines ==
    ASSUME TypeOK, UNCHANGED mode, Sent, Delivers
    PROVE  Service!Next \/ UNCHANGED <<settled, included>>
<1>1. PICK t \in mempool : included' = included \cup {t} /\ UNCHANGED settled
  BY DEF Delivers
<1> DEFINE r == t.req
<1>2. r \in Requests
  BY DEF TypeOK, Txs
<1>3. UNCHANGED StatusMap
  BY <1>1 DEF StatusMap
<1>4. StatusMap[r] \notin {"new", "refused"}
  <2>1. settled[r] \notin Refusals \cup {"new"}
    BY <1>2 DEF Sent, Unsent, Fresh, Bodies
  <2>2. settled[r] \in Outcomes \cup {"new", "pending"}
    BY <1>2 DEF TypeOK
  <2> QED  BY <1>2, <2>1, <2>2, AnswerFacts DEF StatusMap
<1>5. CASE t \notin included
  <2>1. ~Executed(r) /\ Executions(r)' = {t}
    BY <1>1, <1>5 DEF Executed, Executions, Sent, OneBody, Bodies
  <2>2. CountMap[r] = 0 /\ Cardinality(Executions(r))' = 1
    BY <1>2, <2>1, Counted, FS_Singleton DEF CountMap, Sent
  <2>3. \A x \in Requests \ {r} : Executions(x)' = Executions(x)
    BY <1>1 DEF Executions
  <2>4. CountMap' = [CountMap EXCEPT ![r] = 1]
    BY <2>2, <2>3 DEF CountMap
  <2>5. Service!Execute(r)
    BY <1>3, <1>4, <2>2, <2>4
       DEF Service!Execute, StatusMap, CountMap, Executions
  <2> QED  BY <1>2, <2>5 DEF Service!Next
<1> QED  BY <1>1, <1>5

LEMMA AnsweredRefines ==
    ASSUME TypeOK, UNCHANGED mode, Sent, Answered PROVE Service!Next
<1>1. PICK r \in Requests, outcome \in Outcomes : Settling(r, outcome)
  BY DEF Answered
<1> DEFINE answer == AnswerOf(outcome)
<1>2. answer \in Service!Answers
  BY AnswerFacts DEF Outcomes, Refusals
<1>3. StatusMap' = [StatusMap EXCEPT ![r] = answer] /\ StatusMap[r] = "pending"
  BY <1>1, AnswersMap, AnswerFacts DEF Settling, StatusMap
<1>4. UNCHANGED CountMap
  BY <1>1, CountsMap DEF Settling
<1>5. answer = "refused" => CountMap[r] = 0
  <2>1. answer = "refused" => outcome \in Refusals
    BY AnswerFacts
  <2>2. outcome \in Refusals => ~Executed(r)
    BY <1>1 DEF Settling, Sent, Unsent, Bodies, Executed
  <2> QED  BY <2>1, <2>2, Counted DEF CountMap, Sent
<1>6. answer = "failed" \/ (answer = "resolved" /\ mode[r] = "block")
      => CountMap[r] = 1
  <2>1. answer = "failed" \/ (answer = "resolved" /\ mode[r] = "block")
        => Confirmed(r, outcome)
    BY AnswerFacts DEF Confirmed
  <2>2. Confirmed(r, outcome) => Executed(r)
    BY <1>1 DEF Settling
  <2> QED  BY <2>1, <2>2, Counted DEF CountMap, Sent
<1>7. Service!Settle(r, answer)
  BY <1>3, <1>4, <1>5, <1>6
     DEF Service!Settle, StatusMap, CountMap, Executions
<1> QED  BY <1>2, <1>7 DEF Service!Next

LEMMA NextRefines ==
    ASSUME TypeOK, OnePlace, Sent, CallsHold, [Next]_vars
    PROVE  [Service!Next]_(Service!serviceVars)
<1>1. UNCHANGED mode
  BY ModeIsFixed
<1>2. ASSUME UNCHANGED <<settled, included>>
      PROVE  UNCHANGED Service!serviceVars
  BY <1>1, <1>2 DEF Service!serviceVars, Executions
<1> QED  BY <1>1, <1>2, StepEffect, SubmitsRefines, DeliversRefines,
           AnsweredRefines DEF Invisible

LEMMA InitRefines == Init => Service!Init
<1> SUFFICES ASSUME Init PROVE Service!Init
  OBVIOUS
<1>1. \A r \in Requests : Executions(r) = {}
  BY DEF Init, NodeInit, Executions
<1>2. CountMap = [r \in Requests |-> 0]
  BY <1>1, FS_EmptySet DEF CountMap
<1>3. StatusMap = [r \in Requests |-> "new"]
  BY AnswerFacts DEF Init, StatusMap
<1>4. mode \in [Requests -> Service!BroadcastModes]
  BY WalletAssumption DEF Init, Service!BroadcastModes
<1> QED  BY <1>2, <1>3, <1>4 DEF Service!Init, StatusMap, CountMap

\* signAndBroadcast() keeps the promises of RequestService: at most one
\* execution, one settlement, refusals that are final and, in block mode,
\* resolutions that are executions, through both queues and the retry.
THEOREM Refinement == Spec => ImplementsRequestService
<1>1. Init => Service!Init
  BY InitRefines
<1>2. /\ TypeOK /\ OnePlace /\ Sent /\ CallsHold /\ [Next]_vars
      => [Service!Next]_(Service!serviceVars)
  BY NextRefines
<1> QED  BY <1>1, <1>2, Typing, SafetyInvariance, CallInvariance, PTL
         DEF Spec, Service!Spec, ImplementsRequestService

-----------------------------------------------------------------------------
(* "retry sendTx if nonce error once"                                       *)

LEMMA NextNonce ==
    ASSUME TypeOK, OnePlace, NonceErrorIsRetried, [Next]_vars
    PROVE  NonceErrorIsRetried'
<1>1. CASE \E c \in dispatching : Retry(c)
  BY <1>1 DEF Retry, Retryable, NonceErrorIsRetried, TypeOK
<1>2. CASE \E c \in dispatching : SettleCall(c)
  <2>1. PICK c \in dispatching : SettleCall(c)
    BY <1>2
  <2>2. c.tx.req \in Requests /\ reattempts[c.tx.req] \in 0 .. 1
        /\ c.outcome \in CallOutcomes
    BY DEF TypeOK, Call, Txs
  <2>3. Settlement(c.outcome) = "nonce" =>
            DisableRetry \/ reattempts[c.tx.req] = 1
    BY <2>1, <2>2 DEF SettleCall, Retryable, Settlement, CallOutcomes
  <2> QED  BY <2>1, <2>2, <2>3 DEF SettleCall, Settle, NonceErrorIsRetried, TypeOK
<1>3. CASE \E r \in Requests : SignAndBroadcast(r)
  BY <1>3 DEF SignAndBroadcast, Settle, NonceErrorIsRetried, TypeOK
<1>4. CASE \E s \in signing : QueryFails(s) \/ SignFails(s) \/ WalletIncompatible(s)
  BY <1>4 DEF QueryFails, SignFails, WalletIncompatible, Settle,
              NonceErrorIsRetried, TypeOK, Sign
<1>5. CASE UNCHANGED <<settled, reattempts>>
  BY <1>5 DEF NonceErrorIsRetried
<1> QED
  BY <1>1, <1>2, <1>3, <1>4, <1>5
     DEF Next, vars, nodeVars, walletVars, SignWithGrantee,
         SignTx, SignStep, ReloadReturns, GranteeAccountReturns, HeightReturns,
         GranteeHeightReturns, Signed, DispatchTx, DispatchStep, DuringCall,
         AcceptedAsync, CheckTxPasses, CheckTxFails, ConnectionFails,
         PollFinds, PollFindsMismatch, PollTimesOut, MergeStatusChanges,
         GranteeChanges, ReloadsBeside, AskReload, ReloadAnswers,
         ReloadFails, TimerMissed, Chain

\* dispatchTx() gives a nonce error to the caller only after a second
\* attempt, unless the option disables it.
THEOREM NonceErrorIsRetriedHolds == Spec => []NonceErrorIsRetried
<1>1. Init => NonceErrorIsRetried
  BY DEF Init, NonceErrorIsRetried
<1>2. TypeOK /\ OnePlace /\ NonceErrorIsRetried /\ [Next]_vars
      => NonceErrorIsRetried'
  BY NextNonce
<1> QED  BY <1>1, <1>2, Typing, OnePlaceHolds, PTL DEF Spec

-----------------------------------------------------------------------------
(* What a caller may read from the promise, step by step.                   *)

\* A promise that says a block holds the transaction tells the truth: the
\* transaction is in a block, now and at any later time.
AnswersAreTrue == \A r \in Requests : Confirmed(r, settled[r]) => Executed(r)

\* a promise that settled never says anything else
SettledOnce == \A r \in Requests :
    settled[r] \notin {"new", "pending"} => settled'[r] = settled[r]

LEMMA AnsweredIsTrue ==
    ASSUME TypeOK, AnswersAreTrue, NEW r \in Requests,
           NEW outcome \in Outcomes, Settling(r, outcome), UNCHANGED mode
    PROVE  AnswersAreTrue'
<1>1. \A q \in Requests : settled'[q] = IF q = r THEN outcome ELSE settled[q]
  BY DEF TypeOK, Settling, Settle
<1>2. UNCHANGED included
  BY DEF Settling
<1>3. \A q \in Requests : Executed(q)' <=> Executed(q)
  BY <1>2 DEF Executed
<1>4. Confirmed(r, outcome) => Executed(r)
  BY DEF Settling
<1> QED  BY <1>1, <1>3, <1>4 DEF AnswersAreTrue, Confirmed

LEMMA NextAnswersAreTrue ==
    ASSUME TypeOK, OnePlace, CallsHold, AnswersAreTrue, [Next]_vars
    PROVE  AnswersAreTrue'
<1>1. UNCHANGED mode /\ included \subseteq included'
  BY ModeIsFixed, IncludedGrows
<1>2. CASE Submits
  <2>1. PICK r \in Requests : Settle(r, "pending")
    BY <1>2 DEF Submits
  <2>2. \A q \in Requests :
            settled'[q] = IF q = r THEN "pending" ELSE settled[q]
    BY <2>1 DEF Settle, TypeOK
  <2> QED  BY <1>1, <2>2 DEF AnswersAreTrue, Confirmed, Executed
<1>3. CASE Delivers \/ Invisible
  BY <1>1, <1>3 DEF Delivers, Invisible, AnswersAreTrue, Confirmed, Executed
<1>4. CASE Answered
  BY <1>1, <1>4, AnsweredIsTrue DEF Answered
<1> QED  BY <1>2, <1>3, <1>4, StepEffect

\* signAndBroadcast(): a caller in block mode whose promise resolved, and any
\* caller who is told that a block failed the transaction, was answered by a
\* transaction of that very request, whatever was retried in between.
THEOREM AnswersAreTrueHolds == Spec => []AnswersAreTrue
<1>1. Init => AnswersAreTrue
  BY DEF Init, AnswersAreTrue, Confirmed
<1>2. TypeOK /\ OnePlace /\ CallsHold /\ AnswersAreTrue /\ [Next]_vars
      => AnswersAreTrue'
  BY NextAnswersAreTrue
<1> QED  BY <1>1, <1>2, Typing, OnePlaceHolds, CallInvariance, PTL DEF Spec

\* the resolve and reject that travel through both queues and the retry are
\* called once: signing that fails after the hand-over, a late answer of the
\* first attempt or a second task of the request never settle it again.
THEOREM SettledOnceHolds == Spec => [][SettledOnce]_vars
<1>1. TypeOK /\ OnePlace /\ CallsHold /\ [Next]_vars => SettledOnce
  <2> SUFFICES ASSUME TypeOK, OnePlace, CallsHold, [Next]_vars,
                      NEW r \in Requests, settled[r] \notin {"new", "pending"}
               PROVE  settled'[r] = settled[r]
    BY DEF SettledOnce
  <2>1. CASE Submits
    BY <2>1 DEF Submits, Settle, TypeOK
  <2>2. CASE Answered
    BY <2>2 DEF Answered, Settling, Settle, TypeOK
  <2>3. CASE Delivers \/ Invisible
    BY <2>3 DEF Delivers, Invisible
  <2> QED  BY <2>1, <2>2, <2>3, StepEffect
<1> QED  BY <1>1, Typing, OnePlaceHolds, CallInvariance, PTL DEF Spec
=============================================================================
