------------------------------ MODULE WalletTx ------------------------------
(***************************************************************************)
(* How CarbonWallet (src/wallet/CarbonWallet.ts) turns a request into a    *)
(* transaction on the chain.  signAndBroadcast() enqueues the request for  *)
(* signTx(); signTx() loads the account sequence when needed, takes the    *)
(* next one, has the transaction signed and enqueues it for dispatchTx();  *)
(* dispatchTx() broadcasts it and settles the caller's promise, or, on an  *)
(* "account sequence mismatch", sends the request back to signTx() once.   *)
(* Both queues are QueueManagers: FIFO, one task at a time (QueueManager). *)
(* Each action runs from one await to the next.                            *)
(***************************************************************************)
EXTENDS CarbonNode, Sequences, SequencesExt

CONSTANTS Requests,      \* calls of signAndBroadcast()
          Modes,         \* broadcast modes that callers use
          Granted,       \* requests whose messages are all authorizedMsgs
          TimeoutBlocks, \* defaultTimeoutBlocks
          Heights,       \* what getTimeoutHeight() learns of the latest block
          DisableRetry,  \* disableRetryOnSequenceError
          EvmOnly,       \* the account was found at evmBech32Address
          QueryMayFail,  \* account queries may throw
          Reloads        \* calls of reloadAccountSequence() by the application

ASSUME WalletAssumption == /\ Granted \subseteq Requests
                           /\ Granted # {} => "grantee" \in Accounts
                           /\ Modes \subseteq {"block", "sync", "async"}
                           /\ TimeoutBlocks \in Nat \ {0}
                           /\ Heights \subseteq {"known", "unknown"}
                           /\ DisableRetry \in BOOLEAN
                           /\ EvmOnly \in BOOLEAN
                           /\ QueryMayFail \in BOOLEAN

VARIABLES signQueue,            \* txSignManager.queue, oldest first
          signing,              \* the request inside signTx(), if any
          dispatchQueue,        \* txDispatchManager.queue: signed transactions
          dispatching,          \* the broadcast call of dispatchTx(), if any
          accountSequence,      \* accountInfo?.sequence
          sequenceInvalidated,
          granteeValid,         \* isGranteeValid()
          mode,                 \* broadcastOpts.mode of each request
          reattempts,           \* reattempts of each request
          explicitTtl,          \* signOpts.explicitSignerData.timeoutHeight
          settled,              \* what the caller's promise says
          stale,                \* history: retried requests for which no
                                \*   account query was answered since they
                                \*   failed
          reloads,              \* reloadAccountSequence() outside signTx()
          disturbed,            \* history: retried requests whose reload
                                \*   failed or met another one
          missed                \* history: a timer of a QueueManager fired
                                \*   during a drain

besideVars == <<reloads, disturbed, missed>>
walletVars == <<signQueue, signing, dispatchQueue, dispatching,
                accountSequence, sequenceInvalidated, granteeValid, mode,
                reattempts, explicitTtl, settled, stale, besideVars>>
vars == <<nodeVars, walletVars>>

NoInfo == -1     \* accountInfo is undefined
Absent == -1     \* explicitSignerData has no timeoutHeight property yet

\* promises that say the transaction was never executed and will not be
Refusals == {"nonce", "refused", "query", "checkTx"}
Outcomes == {"resolved", "blockFail", "network", "timeout"} \cup Refusals
CallOutcomes == {"ok", "mismatch", "checkTx", "blockFail", "network", "timeout"}

Txs == [req : Requests, try : 0 .. 1, acct : Accounts, seq : Nat, ttl : Nat]
SignSteps == {"account", "granteeAccount", "height", "signature"}
Sign == [req : Requests, step : SignSteps, acct : Accounts, seq : Nat,
         ttl : Nat, covered : SUBSET Requests,
         since : Nat \cup {NoInfo}]
Reload == [id : Reloads, covered : SUBSET Requests, since : Nat \cup {NoInfo}]
Call == [tx : Txs, step : {"sending", "polling", "done"},
         outcome : CallOutcomes]

TypeOK == /\ funded \in BOOLEAN
          /\ nonce \in [Accounts -> Nat]
          /\ mempool \subseteq Txs
          /\ late \subseteq Txs
          /\ included \subseteq Txs
          /\ height \in Nat
          /\ signQueue \in Seq(Requests)
          /\ signing \subseteq Sign
          /\ dispatchQueue \in Seq(Txs)
          /\ dispatching \subseteq Call
          /\ accountSequence \in Nat \cup {NoInfo}
          /\ sequenceInvalidated \in BOOLEAN
          /\ granteeValid \in BOOLEAN
          /\ mode \in [Requests -> {"block", "sync", "async"}]
          /\ reattempts \in [Requests -> 0 .. 1]
          /\ explicitTtl \in [Requests -> Nat \cup {Absent}]
          /\ settled \in [Requests -> Outcomes \cup {"new", "pending"}]
          /\ stale \subseteq Requests
          /\ reloads \subseteq Reload
          /\ disturbed \subseteq Requests
          /\ missed \in BOOLEAN

\* initialize() has loaded the account, or found none; the merge status it
\* has reloaded beside leaves the sequence invalidated or not
Init == /\ NodeInit
        /\ signQueue = <<>>
        /\ signing = {}
        /\ dispatchQueue = <<>>
        /\ dispatching = {}
        /\ accountSequence = IF funded THEN 0 ELSE NoInfo
        /\ sequenceInvalidated \in BOOLEAN
        /\ granteeValid = (Granted # {})
        /\ mode \in [Requests -> Modes]
        /\ reattempts = [r \in Requests |-> 0]
        /\ explicitTtl = [r \in Requests |-> Absent]
        /\ settled = [r \in Requests |-> "new"]
        /\ stale = {}
        /\ reloads = {}
        /\ disturbed = {}
        /\ missed = FALSE

Settle(r, outcome) == settled' = [settled EXCEPT ![r] = outcome]

SignAndBroadcast(r) ==
    /\ settled[r] = "new"
    /\ Settle(r, "pending")
    /\ signQueue' = Append(signQueue, r)
    /\ UNCHANGED <<nodeVars, signing, dispatchQueue, dispatching,
                   accountSequence, sequenceInvalidated, granteeValid, mode,
                   reattempts, explicitTtl, stale, besideVars>>

-----------------------------------------------------------------------------
(* signTx() *)

NeedsReload == accountSequence = NoInfo \/ EvmOnly \/ sequenceInvalidated

\* what the node would answer an account query now
Committed(a) == IF Exists(a) THEN nonce[a] ELSE NoInfo

Signing(r, step, acct) == [req |-> r, step |-> step, acct |-> acct, seq |-> 0,
                           ttl |-> NoTtl, covered |-> {}, since |-> NoInfo]

TakeFromSignQueue == /\ signing = {}
                     /\ signQueue # <<>>
                     /\ signQueue' = Tail(signQueue)

InSignQueue(r) == \E i \in DOMAIN signQueue : signQueue[i] = r

\* retried requests that have not taken their second sequence yet
Awaiting == {r \in Requests :
                /\ reattempts[r] = 1
                /\ \/ InSignQueue(r)
                   \/ \E s \in signing : /\ s.req = r
                                         /\ s.acct = "own"
                                         /\ s.step \in {"account", "height"}}

\* reloadAccountSequence() clears the flag before it queries the account
BeginReload(r) ==
    /\ signing' = {[Signing(r, "account", "own") EXCEPT
                      !.covered = Awaiting, !.since = Committed("own")]}
    /\ sequenceInvalidated' = FALSE

UsesGrantee(r) == r \in Granted /\ granteeValid

SignWithGrantee ==
    /\ TakeFromSignQueue
    /\ UsesGrantee(Head(signQueue))
    /\ signing' = {[Signing(Head(signQueue), "granteeAccount", "grantee")
                    EXCEPT !.since = Committed("grantee")]}
    /\ UNCHANGED <<nodeVars, dispatchQueue, dispatching, accountSequence,
                   sequenceInvalidated, granteeValid, mode, reattempts,
                   explicitTtl, settled, stale, besideVars>>

SignTx ==
    /\ TakeFromSignQueue
    /\ ~UsesGrantee(Head(signQueue))
    /\ IF NeedsReload
       THEN BeginReload(Head(signQueue))
       ELSE /\ signing' = {Signing(Head(signQueue), "height", "own")}
            /\ UNCHANGED sequenceInvalidated
    /\ disturbed' = IF reloads = {} THEN disturbed
                    ELSE disturbed \cup {r \in Awaiting :
                                           NeedsReload \/ r = Head(signQueue)}
    /\ UNCHANGED <<nodeVars, dispatchQueue, dispatching, accountSequence,
                   granteeValid, mode, reattempts, explicitTtl, settled,
                   stale, reloads, missed>>

\* accountInfo after a query that answers n; without an account it stays
Loaded(n) == IF n = NoInfo THEN accountSequence ELSE n

\* history: the answer serves the requests that were waiting when it was asked
\* for; a request that failed since may have loaded a newer one
Serve(covered, n) ==
    stale' = (stale \ covered) \cup IF n = NoInfo THEN {}
                                   ELSE Awaiting \ covered

\* history: a query that fails leaves behind the requests waiting for it; one
\* that leaves signTx() is not followed any further
Leave(r, covered) ==
    /\ stale' = stale \ {r}
    /\ disturbed' = (disturbed \cup (covered \cap Awaiting)) \ {r}

\* mutant: the flag is cleared when the reload is over
ReloadClearsFlagLate(s, n) ==
    /\ s.step = "account"
    /\ accountSequence' = Loaded(n)
    /\ sequenceInvalidated' = FALSE
    /\ Serve(s.covered, n)
    /\ signing' = {[s EXCEPT !.step = "height", !.covered = {}, !.since = NoInfo]}
    /\ UNCHANGED <<nodeVars, signQueue, dispatchQueue, dispatching,
                   granteeValid, mode, reattempts, explicitTtl, settled,
                   besideVars>>

\* the account query answers with a sequence that was committed on its way
ReloadReturns(s, n) ==
    /\ s.step = "account"
    /\ accountSequence' = Loaded(n)
    /\ Serve(s.covered, n)
    /\ signing' = {[s EXCEPT !.step = "height", !.covered = {}, !.since = NoInfo]}
    /\ UNCHANGED <<nodeVars, signQueue, dispatchQueue, dispatching,
                   sequenceInvalidated, granteeValid, mode, reattempts,
                   explicitTtl, settled, besideVars>>

GranteeAccountReturns(s, n) ==
    /\ s.step = "granteeAccount"
    /\ n # NoInfo
    /\ stale' = stale \ {s.req}
    /\ signing' = {[s EXCEPT !.step = "height", !.seq = n, !.since = NoInfo]}
    /\ UNCHANGED <<nodeVars, signQueue, dispatchQueue, dispatching,
                   accountSequence, sequenceInvalidated, granteeValid, mode,
                   reattempts, explicitTtl, settled, besideVars>>

\* an account query throws (or the grantee has no account): reject
QueryFails(s) ==
    /\ QueryMayFail
    /\ s.step \in {"account", "granteeAccount"}
    /\ signing' = {}
    /\ Settle(s.req, "query")
    /\ Leave(s.req, s.covered)
    /\ UNCHANGED <<nodeVars, signQueue, dispatchQueue, dispatching,
                   accountSequence, sequenceInvalidated, granteeValid, mode,
                   reattempts, explicitTtl, reloads, missed>>

NextSequence == IF accountSequence = NoInfo THEN 0 ELSE accountSequence

\* {timeoutHeight, ...signOpts?.explicitSignerData}
Explicit(r, limit) == IF explicitTtl[r] = Absent THEN limit ELSE explicitTtl[r]

\* what getTimeoutHeight() returns: undefined when its request fails, and
\* for an EIP-712 signer, which does not ask
Limits == {IF h = "known" THEN height + TimeoutBlocks ELSE NoTtl : h \in Heights}

HeightReturns(s, limit) ==
    /\ s.step = "height"
    /\ s.acct = "own"
    /\ accountSequence' = IF accountSequence = NoInfo THEN NoInfo
                          ELSE accountSequence + 1
    /\ explicitTtl' = [explicitTtl EXCEPT ![s.req] = Explicit(s.req, limit)]
    /\ signing' = {[s EXCEPT !.step = "signature",
                             !.seq = NextSequence,
                             !.ttl = Explicit(s.req, limit)]}
    /\ UNCHANGED <<nodeVars, signQueue, dispatchQueue, dispatching,
                   sequenceInvalidated, granteeValid, mode, reattempts,
                   settled, stale, besideVars>>

\* signerData spreads the caller's signOpts, not the one with timeoutHeight
GranteeHeightReturns(s, limit) ==
    /\ s.step = "height"
    /\ s.acct = "grantee"
    /\ explicitTtl' = [explicitTtl EXCEPT ![s.req] = Explicit(s.req, limit)]
    /\ signing' = {[s EXCEPT !.step = "signature",
                             !.ttl = Explicit(s.req, NoTtl)]}
    /\ UNCHANGED <<nodeVars, signQueue, dispatchQueue, dispatching,
                   accountSequence, sequenceInvalidated, granteeValid, mode,
                   reattempts, settled, stale, besideVars>>

SignedTx(s) == [req |-> s.req, try |-> reattempts[s.req], acct |-> s.acct,
                seq |-> s.seq, ttl |-> s.ttl]

Signed(s) ==
    /\ s.step = "signature"
    /\ dispatchQueue' = Append(dispatchQueue, SignedTx(s))
    /\ signing' = {}
    /\ Leave(s.req, {})
    /\ UNCHANGED <<nodeVars, signQueue, dispatching, accountSequence,
                   sequenceInvalidated, granteeValid, mode, reattempts,
                   explicitTtl, settled, reloads, missed>>

\* the user declines, the signer throws, a client cannot connect; the
\* sequence taken for the request is not given back
SignFails(s) ==
    /\ s.step = "signature"
    /\ signing' = {}
    /\ Settle(s.req, "refused")
    /\ Leave(s.req, {})
    /\ UNCHANGED <<nodeVars, signQueue, dispatchQueue, dispatching,
                   accountSequence, sequenceInvalidated, granteeValid, mode,
                   reattempts, explicitTtl, reloads, missed>>

\* checkWalletSignatureCompatibility() throws for a non-EVM wallet whose funds
\* are at the EVM address only; balances change at any time
WalletIncompatible(s) ==
    /\ s.step = "signature"
    /\ s.acct = "own"
    /\ sequenceInvalidated' = TRUE
    /\ signing' = {}
    /\ Settle(s.req, "refused")
    /\ Leave(s.req, {})
    /\ UNCHANGED <<nodeVars, signQueue, dispatchQueue, dispatching,
                   accountSequence, granteeValid, mode, reattempts,
                   explicitTtl, reloads, missed>>

-----------------------------------------------------------------------------
(* dispatchTx() *)

DispatchTx ==
    /\ dispatching = {}
    /\ dispatchQueue # <<>>
    /\ dispatching' = {[tx |-> Head(dispatchQueue), step |-> "sending",
                        outcome |-> "ok"]}
    /\ dispatchQueue' = Tail(dispatchQueue)
    /\ UNCHANGED <<nodeVars, signQueue, signing, accountSequence,
                   sequenceInvalidated, granteeValid, mode, reattempts,
                   explicitTtl, settled, stale, besideVars>>

Answer(c, outcome) ==
    dispatching' = {[c EXCEPT !.step = "done", !.outcome = outcome]}

\* what a broadcast call leaves alone until dispatchTx() continues
DuringCall == UNCHANGED <<funded, nonce, included, height, signQueue, signing,
                          dispatchQueue, accountSequence, sequenceInvalidated,
                          granteeValid, mode, reattempts, explicitTtl,
                          settled, stale, besideVars>>

\* broadcastTxAsync: the node answers before it looks at the transaction
AcceptedAsync(c) == /\ c.step = "sending"
                    /\ mode[c.tx.req] = "async"
                    /\ late' = late \cup {c.tx}
                    /\ Answer(c, "ok")
                    /\ DuringCall /\ UNCHANGED mempool

\* broadcastTx (block) goes on to poll for the transaction
CheckTxPasses(c) == /\ c.step = "sending"
                    /\ mode[c.tx.req] # "async"
                    /\ Admissible(c.tx)
                    /\ mempool' = mempool \cup {c.tx}
                    /\ IF mode[c.tx.req] = "block"
                       THEN dispatching' = {[c EXCEPT !.step = "polling"]}
                       ELSE Answer(c, "ok")
                    /\ DuringCall /\ UNCHANGED late

\* a sequence mismatch, or any other reason to refuse the transaction
CheckTxFails(c) == /\ c.step = "sending"
                   /\ mode[c.tx.req] # "async"
                   /\ Answer(c, IF SequenceMismatch(c.tx) THEN "mismatch"
                                ELSE "checkTx")
                   /\ DuringCall /\ UNCHANGED <<mempool, late>>

\* the request or its answer is lost; the node may still get the request
ConnectionFails(c) == /\ c.step = "sending"
                      /\ late' \in {late, late \cup {c.tx}}
                      /\ Answer(c, "network")
                      /\ DuringCall /\ UNCHANGED mempool

PollFinds(c) == /\ c.step = "polling"
                /\ c.tx \in included
                /\ \E outcome \in {"ok", "blockFail"} : Answer(c, outcome)
                /\ DuringCall /\ UNCHANGED <<mempool, late>>

\* a block holds the transaction and reports an account sequence mismatch
PollFindsMismatch(c) == /\ c.step = "polling"
                        /\ c.tx \in mempool
                        /\ Outdated(c.tx) /\ ~Expired(c.tx)
                        /\ mempool' = mempool \ {c.tx}
                        /\ Answer(c, "mismatch")
                        /\ DuringCall /\ UNCHANGED late

\* neither found within timeoutMs, or the node stops answering
PollTimesOut(c) == /\ c.step = "polling"
                   /\ \E outcome \in {"timeout", "network"} : Answer(c, outcome)
                   /\ DuringCall /\ UNCHANGED <<mempool, late>>

Settlement(outcome) == CASE outcome = "ok" -> "resolved"
                         [] outcome = "mismatch" -> "nonce"
                         [] OTHER -> outcome

\* mutants: any error is retried; one attempt too many; no retry while
\* another request has already invalidated the sequence
RetryableAnyError(c) == /\ ~DisableRetry
                        /\ reattempts[c.tx.req] < 1
                        /\ c.outcome # "ok"

RetryableTwice(c) == /\ ~DisableRetry
                     /\ reattempts[c.tx.req] <= 1
                     /\ c.outcome = "mismatch"

RetryableOnceForAll(c) == /\ ~DisableRetry
                          /\ reattempts[c.tx.req] < 1
                          /\ c.outcome = "mismatch"
                          /\ ~sequenceInvalidated

\* retry if nonce error once
Retryable(c) == /\ ~DisableRetry
                /\ reattempts[c.tx.req] < 1
                /\ c.outcome = "mismatch"

\* mutant: the request is not requeued
RetryForgotten(c) == /\ c.step = "done"
                     /\ Retryable(c)
                     /\ dispatching' = {}
                     /\ sequenceInvalidated' = TRUE
                     /\ UNCHANGED <<nodeVars, signQueue, signing,
                                    dispatchQueue, accountSequence,
                                    granteeValid, mode, reattempts,
                                    explicitTtl, settled, stale, besideVars>>

Retry(c) == /\ c.step = "done"
            /\ Retryable(c)
            /\ dispatching' = {}
            /\ sequenceInvalidated' = TRUE
            /\ reattempts' = [reattempts EXCEPT ![c.tx.req] = @ + 1]
            /\ signQueue' = Append(signQueue, c.tx.req)
            /\ stale' = stale \cup {c.tx.req}
            /\ UNCHANGED <<nodeVars, signing, dispatchQueue, accountSequence,
                           granteeValid, mode, explicitTtl, settled,
                           besideVars>>

SettleCall(c) == /\ c.step = "done"
                 /\ ~Retryable(c)
                 /\ dispatching' = {}
                 /\ Settle(c.tx.req, Settlement(c.outcome))
                 /\ UNCHANGED <<nodeVars, signQueue, signing, dispatchQueue,
                                accountSequence, sequenceInvalidated,
                                granteeValid, mode, reattempts, explicitTtl,
                                stale, besideVars>>

-----------------------------------------------------------------------------
(* Other methods of the wallet that reach the same state: an account merge   *)
(* invalidates the sequence; a grant runs out or is set.                     *)

MergeStatusChanges == /\ ~sequenceInvalidated
                      /\ sequenceInvalidated' = TRUE
                      /\ UNCHANGED <<nodeVars, signQueue, signing,
                                     dispatchQueue, dispatching,
                                     accountSequence, granteeValid, mode,
                                     reattempts, explicitTtl, settled, stale,
                                     besideVars>>

GranteeChanges == /\ Granted # {}
                  /\ granteeValid' = ~granteeValid
                  /\ UNCHANGED <<nodeVars, signQueue, signing, dispatchQueue,
                                 dispatching, accountSequence,
                                 sequenceInvalidated, mode, reattempts,
                                 explicitTtl, settled, stale, besideVars>>

(* initialize() and the SDK call reloadAccountSequence() themselves, beside  *)
(* what signTx() does.                                                      *)

\* a reload that meets another disturbs the requests waiting for either
AskReload(k) ==
    /\ \A e \in reloads : e.id # k
    /\ reloads' = reloads \cup {[id |-> k, covered |-> Awaiting,
                                since |-> Committed("own")]}
    /\ sequenceInvalidated' = FALSE
    /\ disturbed' = IF reloads = {} /\ \A s \in signing : s.step # "account"
                    THEN disturbed ELSE disturbed \cup Awaiting
    /\ UNCHANGED <<nodeVars, signQueue, signing, dispatchQueue, dispatching,
                   accountSequence, granteeValid, mode, reattempts,
                   explicitTtl, settled, stale, missed>>

ReloadAnswers(e, n) ==
    /\ reloads' = reloads \ {e}
    /\ accountSequence' = Loaded(n)
    /\ Serve(e.covered, n)
    /\ UNCHANGED <<nodeVars, signQueue, signing, dispatchQueue, dispatching,
                   sequenceInvalidated, granteeValid, mode, reattempts,
                   explicitTtl, settled, disturbed, missed>>

ReloadFails(e) ==
    /\ QueryMayFail
    /\ reloads' = reloads \ {e}
    /\ disturbed' = disturbed \cup (e.covered \cap Awaiting)
    /\ UNCHANGED <<nodeVars, signQueue, signing, dispatchQueue, dispatching,
                   accountSequence, sequenceInvalidated, granteeValid, mode,
                   reattempts, explicitTtl, settled, stale, missed>>

ReloadsBeside == \/ \E k \in Reloads : AskReload(k)
                 \/ \E e \in reloads :
                        \/ \E n \in e.since .. Committed("own") :
                               ReloadAnswers(e, n)
                        \/ ReloadFails(e)

(* A timer of a QueueManager fires while a drain awaits its processor: from *)
(* then on the queue may stand still (StallNeedsMissedTimer).  That a task  *)
(* was queued meanwhile, and so had armed a timer, is not asked for.        *)
TimerMissed == /\ ~missed
               /\ signing # {} \/ dispatching # {}
               /\ missed' = TRUE
               /\ UNCHANGED <<nodeVars, signQueue, signing, dispatchQueue,
                              dispatching, accountSequence,
                              sequenceInvalidated, granteeValid, mode,
                              reattempts, explicitTtl, settled, stale, reloads,
                              disturbed>>

Chain == NodeNext /\ UNCHANGED walletVars

SignStep == \E s \in signing :
    \/ \E n \in s.since .. Committed(s.acct) : ReloadReturns(s, n)
                                             \/ GranteeAccountReturns(s, n)
    \/ QueryFails(s)
    \/ \E limit \in Limits : HeightReturns(s, limit)
                             \/ GranteeHeightReturns(s, limit)
    \/ Signed(s)
    \/ SignFails(s)
    \/ WalletIncompatible(s)

DispatchStep == \E c \in dispatching :
    \/ AcceptedAsync(c)
    \/ CheckTxPasses(c)
    \/ CheckTxFails(c)
    \/ ConnectionFails(c)
    \/ PollFinds(c)
    \/ PollFindsMismatch(c)
    \/ PollTimesOut(c)
    \/ Retry(c)
    \/ SettleCall(c)

Next == \/ \E r \in Requests : SignAndBroadcast(r)
        \/ SignWithGrantee
        \/ SignTx
        \/ SignStep
        \/ DispatchTx
        \/ DispatchStep
        \/ MergeStatusChanges
        \/ GranteeChanges
        \/ ReloadsBeside
        \/ TimerMissed
        \/ Chain

Spec == Init /\ [][Next]_vars

\* a queue hands its tasks over unless a timer fired during a drain
\* (TriggeredWorkStarts, QueuedWhileDrainingStarts); every call and every
\* signature prompt is answered; nothing is asked of callers or of the chain
Fairness == /\ WF_vars(~missed /\ (SignTx \/ SignWithGrantee))
            /\ WF_vars(SignStep)
            /\ WF_vars(~missed /\ DispatchTx)
            /\ WF_vars(DispatchStep)

FairSpec == Spec /\ Fairness

-----------------------------------------------------------------------------
Bodies == mempool \cup late \cup included

(* A request is executed at most once, although it may be signed twice and  *)
(* its first transaction may be lost, delayed or refused.                   *)
AtMostOnce == \A t, u \in included : t.req = u.req => t = u

(* A promise that rejects because of the nonce, the signature, the account  *)
(* query or CheckTx means that nothing of the request can still execute:    *)
(* the caller may send it again.                                            *)
RefusalIsFinal == \A r \in Requests :
    settled[r] \in Refusals => \A t \in Bodies : t.req # r

(* A pending request is in exactly one place, and a settled one in none: no *)
(* promise is lost or settled twice when requests move between the queues.  *)
InSigning(r) == \E s \in signing : s.req = r
InDispatchQueue(r) == \E i \in DOMAIN dispatchQueue : dispatchQueue[i].req = r
InDispatching(r) == \E c \in dispatching : c.tx.req = r

OneTaskEach == /\ \A s, t \in signing : s = t
               /\ \A c, d \in dispatching : c = d

QueuedOnce == /\ \A i, j \in DOMAIN signQueue :
                    signQueue[i] = signQueue[j] => i = j
              /\ \A i, j \in DOMAIN dispatchQueue :
                    dispatchQueue[i].req = dispatchQueue[j].req => i = j

PlacesDisjoint == \A r \in Requests :
    /\ InSignQueue(r) => ~InSigning(r) /\ ~InDispatchQueue(r) /\ ~InDispatching(r)
    /\ InSigning(r) => ~InDispatchQueue(r) /\ ~InDispatching(r)
    /\ InDispatchQueue(r) => ~InDispatching(r)

PendingIsPlaced == \A r \in Requests :
    settled[r] = "pending" <=> \/ InSignQueue(r)
                               \/ InSigning(r)
                               \/ InDispatchQueue(r)
                               \/ InDispatching(r)

OnePlace == OneTaskEach /\ QueuedOnce /\ PlacesDisjoint /\ PendingIsPlaced

(* "retry sendTx if nonce error once": unless the option disables it, a     *)
(* nonce error reaches the caller only after a second attempt.              *)
NonceErrorIsRetried == \A r \in Requests :
    settled[r] = "nonce" => (reattempts[r] = 1 \/ DisableRetry)

(* A second attempt is signed with a sequence that was loaded after the     *)
(* first failed, if no reload for it failed or met another: neither the     *)
(* requests before it, nor reloads by the application, nor merges lose it.  *)
RetrySignsFresh == \A s \in signing :
    s.step = "signature" /\ s.req \notin disturbed => s.req \notin stale

(* "invalidate account sequence for reload on next signTx call": every      *)
(* second attempt is signed with a sequence loaded after the first failed.  *)
RetryIsReloaded == \A s \in signing : s.step = "signature" => s.req \notin stale

(* Seen through its promises and the blocks, the wallet is a RequestService. *)
AnswerOf(outcome) == CASE outcome \in Refusals -> "refused"
                      [] outcome = "blockFail" -> "failed"
                      [] outcome \in {"network", "timeout"} -> "unknown"
                      [] OTHER -> outcome

Executions(r) == {t \in included : t.req = r}

Service == INSTANCE RequestService WITH
               status <- [r \in Requests |-> AnswerOf(settled[r])],
               executed <- [r \in Requests |-> Cardinality(Executions(r))]

ImplementsRequestService == Service!Spec

(* Every request settles, whatever the chain and the network do, through    *)
(* both queues and the retry, unless a timer fired during a drain.  Each of *)
(* the finitely many requests is made once, so the wallet comes to rest.    *)
Settles == []<>(missed \/ \A r \in Requests : settled[r] # "pending")
=============================================================================
