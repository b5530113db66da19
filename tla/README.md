# A TLA+ model of the Carbon JS SDK

The Carbon JS SDK (`src/`, TypeScript) is the client library of the Carbon
blockchain. Most of its lines are generated codecs, constants and thin wrappers.
What is hard in it is small: a wallet that numbers, signs, broadcasts and retries
transactions through two asynchronous queues and merges accounts on the way; a
WebSocket connector that reconnects; a batching RPC client; a start-up that may
fail at any await; some arithmetic on collaterals and debts. This project models
those, model-checks them with TLC and proves, with TLAPS, every invariant and
action property that the passing runs check.

Paths in this file are relative to the repository's root.

## Inventory

| Part | State it keeps | Operations | Interacts with | What is hard | What makes it correct | Here |
|---|---|---|---|---|---|---|
| `QueueManager` (`src/util/generic.ts`) | queue, timer, threshold, lock | `enqueue`, `trigger`, `process` | its owner's async processor | timers that fire while the drain loop awaits; debounce | FIFO, one at a time, nothing waits for ever | modelled, proved |
| `CarbonWallet` pipeline (`src/wallet/CarbonWallet.ts`) | two queues, cached account sequence and its invalidation flag, grantee, promises of callers | `signAndBroadcast`, `signTx`, `signWithGrantee`, `dispatchTx`, `reloadAccountSequence`, broadcasts | two `QueueManager`s, the signer, the node | stale state across awaits, lost answers, retries, other users of the same key | a request executes at most once, refusals are final, promises settle, retries use fresh data | partly modelled, proved |
| Merge flow (`sendTxs`, `sendTxsWithoutConfirm`, `sendInitialMergeAccountTx`) | `accountMerged`, `accountInfo` | asks for the merge status, sends a merge transaction before the request | the pipeline | two callers at once, answers older than the merge, reloads that overlap | the flag tells the truth, the request follows the merge, the account is loaded again | modelled, proved |
| `WSConnector` (`src/websocket/connector.ts`) | current socket, flags, timers, promise handlers, channel handlers | `connect`, `disconnect`, `request`, `subscribe`, `unsubscribe`, socket events | sockets of the browser or of `ws` | events of old sockets, timers that outlive what they watch | reconnecting is safe, promises settle, subscriptions reach the server | partly modelled, proved |
| `BatchQueryClient` (`src/clients/BatchQueryClient.ts`) | queue, interval, batches in flight | `execute`, `tick`, `disconnect` | HTTP node; `CarbonSDK.instance` uses it as fallback | batches overlap, answers by position, errors by id | every request settles, with its own answer | modelled, proved |
| `CDPModule` (`src/modules/cdp.ts`) | none | queries, account totals, liquidation and interest arithmetic | query client, `TokenClient` | a debt sum that is not awaited (line 500), roundings | totals include every debt, what may be unlocked or liquidated is covered and is all that may be | partly modelled, proved |
| `TokenClient` (`src/clients/TokenClient.ts`) | token, price and name caches | `initialize`, `reloadUSDValues`, lookups | query client, CoinGecko | background loads that overlap and fail | prices of the pricing module win and stay | partly modelled, proved |
| `CarbonSDK` (`src/CarbonSDK.ts`) | clients, wallet, fees | `instance`, `initialize`, `connect`, `disconnect` | all of the above | partial failure during initialisation | an SDK that is handed out is ready | partly modelled, proved |
| `CarbonSigningClient` | none | choice of sign mode, assembly of the sign bytes | signers | – | the mode suits the signer | not modelled |
| WebSocket channels (`src/websocket/channel.ts`) | none | `generateChannelId`, `parseChannelId` | connector | an inverse pair | parse inverts generate | not modelled |
| query and chain clients, `GasFee`, message modules, providers, `util`, `constant` | none or configuration | wrappers, builders, adapters, data | – | – | – | not modelled |
| codec | – | generated | – | – | – | not modelled |

`PROJECT.json` lists the same components with their sources, and the hazards of
this code with the line at which each bites.

## Modules

| Module | Models | Reads as |
|---|---|---|
| `FifoWorker` | what a `QueueManager` promises | abstract: submit, hand over in order, one at a time |
| `QueueManager` | the debounced queue of `src/util/generic.ts` | clock, timer, threshold, lock |
| `CarbonNode` | the node, external to `src/` | CheckTx, mempool, blocks, other clients of the account |
| `RequestService` | what `signAndBroadcast()` promises | abstract: submit, execute at most once, settle truthfully |
| `WalletTx` | the transaction pipeline of `CarbonWallet`, composed with `CarbonNode` | one action from each `await` to the next |
| `MergeAccount` | the merge flow of `CarbonWallet` on top of a `RequestService` | callers, their status queries, their merges; reloads beside them |
| `WSConnector` | the connector, its sockets and timers | calls, timers, socket events |
| `BatchQueryClient` | the batching client and the HTTP calls it makes | execute, tick, answers, failures |
| `CdpMath` | the fractions and the liquidation formula of `cdp.ts` | operators |
| `CDPModule` | three methods of `CDPModule` with the requests they start | one behaviour is one call |
| `TokenClient` | start-up and USD prices of `TokenClient` | background loads, overlapping price reloads |
| `CarbonSDK` | the life cycle of `CarbonSDK`, composed with `TokenClient` | one action from each `await` to the next |
| `...Proofs` | | the theorems, see below |
| `MC...` | | instances for TLC |

The composition follows the code: `WalletTx` uses two queues as what
`QueueManager` was shown to implement (`FifoWorker`); `MergeAccount` uses
`signAndBroadcast()` as what `WalletTx` was shown to implement
(`RequestService`); `CarbonSDK` extends `TokenClient`, and `CDPModule` extends
`CdpMath`. Definitions marked *mutant* are plausible bugs, kept beside the
definition they would replace; no specification uses them. Each property of a
passing run is violated when its mutant takes the place of the definition.

### QueueManager

`queue` is the array, oldest first (the code writes at the left end and reads at
the right). `trigger()` is the operator `Arm`: it keeps the timer when moving it
would pass `currTriggerThreshold`, and otherwise re-arms it. `Process` and
`ProcessLocked` are the two ways through `process()` when the timer fires;
`ProcessorSettles` is the loop after an `await`. A timer fires at its due time or
later, in any order with other events, as on a busy event loop. The history
variables `submitted`, `started`, `owed` and `missed` record what callers asked
for; no guard of the code reads them (`submitted` only keeps the task objects
distinct).

### WalletTx, CarbonNode and RequestService

A request is a call of `signAndBroadcast()`. It goes through `signQueue`,
`signing` (the body of `signTx()` or `signWithGrantee()`), `dispatchQueue`,
`dispatching` (`dispatchTx()` and the broadcast call) and perhaps back. The steps
inside `signTx()` are its awaits: the account query, the request for the timeout
height, the signature. `signTx()` and `dispatchTx()` run beside each other, since
they have a queue each. The two queues appear as FIFO workers without timers; of the
timers only `missed` is kept: one fired during a drain, after which the queue
may stand still (finding 1) and nothing is promised to settle.

`reloadAccountSequence()` is public: `initialize()` calls it, and so may the
application, beside whatever `signTx()` does. `AskReload`, `ReloadAnswers` and
`ReloadFails` are these calls, as many at a time as `Reloads` has members. Each
clears `sequenceInvalidated` before its query and overwrites the sequence with
its answer. A `signTx()` that starts in between sees the cleared flag and signs
with the old sequence, although every query answers. `stale` and `disturbed` are
the history of this: retried requests for which no query has answered since they
failed, and those whose reload failed or met another one.

A transaction is the request it was made for, its attempt, account, sequence and
timeout height. Messages, fees, memos, encodings and chain ids are left out: no
step of the pipeline branches on them. The choice between `carbon` and EVM
address is the constant `EvmOnly`; it decides whether every request reloads the
account and whether `checkWalletSignatureCompatibility()` may throw.

`CarbonNode` is what the code relies on: CheckTx admits a transaction with the
account's next sequence after those that wait in the mempool; a block executes it
if sequence and timeout height still fit; the mempool may be rechecked or lost; a
lost broadcast may still arrive; another client may use the same key. The account
query reads the committed sequence, as the node's auth query does. In block mode
`broadcastTx` polls: it finds the transaction, reports a mismatch of a block that
refused it, or gives up.

`RequestService` is the promise a caller may rely on: a request executes at most
once, its promise settles once, `refused` means that it never executes, `failed`
that a block executed it, and `resolved` in block mode that it is in a block;
`unknown` (a network error, or a poll that gave up) says nothing.
`ImplementsRequestService` is the refinement, with `status` mapped from
`settled` and `executed` from the blocks.

Abstractions to know of: callers of `signAndBroadcast()` pass no `sequence` of
their own; every error is an `Error`; `getTimeoutHeight()` returns the current
height plus `defaultTimeoutBlocks`, or undefined (`Heights` says which of the two
may happen).

### MergeAccount

A caller is a call of `sendTxs()` (`confirm`) or `sendTxsWithoutConfirm()`, with
or without `triggerMerge`, whose messages may themselves merge the account
(`isMerge`). `AskStatus` is `reloadMergeAccountStatus()` up to its await;
`sendTxsWithoutConfirm()` asks once on its own account (`firstStatus`). The
answer to a status query is the state of the chain at any moment since the query
left. `sendInitialMergeAccountTx()` is `Check`, `SendMerge` and `MergeSettles`.
`Reloaders` are the calls of `reloadAccountSequence()`: the one inside `signTx()`
and the application's, at any time. `SignTx` is `signTx()` up to its reload, or
past it when the flag is cleared, and `TakeSequence` is where it takes the
sequence of `accountInfo`; which request it signs, and how that settles, is left
open, which allows more than `WalletTx` does. Of the loaded account only its age
is kept, `before` or `after` the merge. The chain executes one merge of the
account; a second one fails.

`aware`, `knew` and `disturbed` are history: calls that began when the merge was
known and no older status query was out, whether the merge was known when
`signTx()` began, and whether a reload failed, overlapped another one or ran
beside a `signTx()`. After the last of these the code may sign with the account
from before the merge, although every query answers: the application's reload has
cleared the flag, and `signTx()` does not wait for it. `FreshAfterMerge` excepts
such behaviours.

### WSConnector

`connect()` number n makes socket n, connect time-out n and promise n, so that
the model can say which socket an event comes from; the code cannot, as its
handlers do not look. `close()` moves a socket to `closing` (or `aborting` during
the handshake, which reports an error first); the close event is delivered later.
`nodeSockets` is the one difference between the two socket libraries that
matters: `ws` delivers messages while it closes. It is chosen initially, so that
one run covers both. The history variables say what a promise is owed: `asked`
(when a request was made), `abandoned` (calls whose constructor threw, or that
were still pending when the next one came), `wanted` (channels subscribed
on this connection), `subscribed` (channels sent on it), `carried` (channels
whose handler is older than the connection) and `victims` (sockets closed by the
late close event of another). Left out: the sequence-number cache, which only
sets a sets a flag on results, the unsubscribe for a message on an unknown channel,
the ping interval, which changes no state of the connector, and the status
listener: the code calls it synchronously in the middle of
`disconnectWebsocket()` (373) and at the end of the open handler (582), and a
listener that calls `connect()` or `disconnect()` there and then would run them
in between. The properties speak of listeners that make no such call.

### BatchQueryClient

`Send` is the `splice()` and the POST. The answer is any sequence of elements,
each for some request of the batch or malformed, in any order; `forEach` stops
at the first one that does not parse. `garbled` records the requests whose batch
was not answered by one well-formed element per request in order. The client is
one whose options are valid: the constructor starts the interval (51) before
`validate()` may throw (52), and the interval of a client it refused ticks on
with nothing to send. The period of the interval is left out.

### CDPModule and CdpMath

A behaviour is one call of `getAccountData()`, `getMaxCollateralForUnlock()` or
`getMaxCollateralForLiquidator()`. Its queries are answered in any order or fail;
what they answer is fixed at the start (`input`), so that the model shows what
the interleaving does and not what a chain that moves does. A sum is the set of
denoms that went into it. `running`, `failed` and `counted` follow the requests
for the debts, which `getAccountData()` starts and does not await: their
callback adds all of them to the total at once, early enough or too late.
Without loaded tokens the debt requests, `getCdpTokenUsdVal()` and the two
callers throw, and the stablecoin amount is not scaled (`cdp.ts` 511).

`CdpMath` computes with fractions: a `BigNumber` division keeps 20 decimals and
is taken as exact, while `decimalPlaces(0)` rounds as in the code, up or half up.
`Unit` stands for 10000 basis points. Powers of ten are a recursive function, and
totals are folds over the denoms that went into them, so that both can be reasoned
about.

`LiquidationInputs` says what a liquidation may be asked and what its queries
answer: positive prices (the code throws on a price that is zero), a bonus below
`Unit`, a minimum close factor and a fee of at most `Unit`, and, by
`CdpAssumption`, a liquidation threshold that does not exceed the collateral it is
a share of. Decimals are any two natural numbers.

### TokenClient and CarbonSDK

`Initialize` starts the three queries of `initialize()`; `PartAnswers` and
`PartFails` settle them and, by `Finally`, the promise. Whatever its outcome, the
CoinGecko names are loaded and the prices after them, while a query that is
slower than the failure still runs. Of a price only its source is kept: the
pricing module, CoinGecko, or a price the SDK fixes itself: that of the native
stablecoin, and, for the denoms `Pegged` (`iusd` and `cgusd`), the 1 that every
`reloadUSDValues()` writes before its first await, whatever was there
(`PegUsdValues`). Oracles may start to price a denom at any moment.

`CarbonSDK` follows `instance()` from await to await: the status query of the
Tendermint client (whose failure returns the SDK as it is), `connect()` with its
fee query and `wallet.initialize()`, then `initialize()` with fees, chain id,
tokens and wallet. Once the SDK is handed out, the application connects,
initializes, disconnects and reloads prices, awaiting each call but the reload.
What a wallet is constructed from, and the chain id itself, are left out.

## Runs

| Run | Checks | Question | Result |
|---|---|---|---|
| `QueueManagerSafety` | `TypeOK`, `FifoHandOver`, `OneAtATime`, `DebounceBounded`, `StallNeedsMissedTimer`, `QueuedWhileDrainingStarts`, `TriggeredWorkStarts`, `ImplementsFifoWorker` | Are tasks handed over once, in order, one at a time, within the debounce bound; does triggered work start; is the queue a `FifoWorker`? | holds |
| `QueueManagerStall` | `TriggeredWorkIsScheduled` | Does triggered work always have a timer or a drain loop ("max wait for 1s before dispatching queue")? | no |
| `WalletTxSafety` | `TypeOK`, `NonceErrorIsRetried`, `AtMostOnce`, `RetrySignsFresh`, `Settles`, `ImplementsRequestService` | With a grantee whose grant changes, failing queries, lost transactions, a foreign transaction and a reload by the application: is the wallet a `RequestService`, does nothing execute twice, are nonce errors retried, with a sequence loaded since, if no reload for them failed or met another; does every promise settle, if no timer fired during a drain? | holds |
| `WalletTxLostReload` | `RetryIsReloaded` | Is every retry signed with a sequence loaded after the mismatch ("invalidate account sequence for reload on next signTx call")? | no |
| `MergeAccount` | `TypeOK`, `MergedFlagHolds`, `TriggeredAfterMerge`, `KnownMergeIsFinal`, `FreshAfterMerge` | Two callers that trigger or are a merge, stale answers, failing transactions, `signTx()` and the application reloading: is the flag true, does the request follow the merge, does a `signTx()` that begins once the merge is known take its account from after it, if no reload failed, met another or ran beside it? | holds |
| `WSConnectorSafety` | `TypeOK`, `ConnectedHasSocket`, `NoOrphanSocket`, `PendingHasHandler`, `HeartbeatNeedsConnection`, `SubscriptionSent`, `ConnectSettles` | Overlapping connections with both socket libraries and constructors that throw: right socket, no orphans, answers find their handlers, subscriptions are sent, `connect()` settles | holds |
| `WSConnectorReconnect` | `ReconnectIsSafe` | Is it safe to connect right after a disconnect? | no |
| `BatchQuery` | `TypeOK`, `WithinLimit`, `SentOnce`, `NoneLeftWaiting`, `OwnAnswer`, `Settles` | Limits, no duplicates, own answers, everything settles | holds |
| `Sdk` | `TypeOK`, `ReadySdk`, `ReloadPricesTokens`, `PricingWins` | With failures at any await and overlapping reloads: is a returned SDK ready, are loaded tokens priced, do prices of the pricing module stay, but for the pegged denoms? | holds |
| `Cdp` | `TypeOK`, `DebtsAllOrNothing`, `UnlockIsCovered`, `LiquidationIsBounded` | Do totals hold all debts or none; is what may be unlocked covered, and the most that is; does a liquidation stay within its limits and take the least that is worth the repayment? | holds |
| `CdpDebts` | `DebtsAreCounted` | Are the debts in the total that `getAccountData()` returns? | no |
| `CdpSmallBorrow` | `SmallLiquidatedAtOnce` | Can a small borrow be liquidated in a single transaction (`params.ts` 44-46)? | no |

The five "no" are listed under `findings` in `PROJECT.json` with the line that
the code contradicts:

1. a timer that fires during a drain leaves its threshold behind, and every later
   `trigger()` returns without arming a timer;
2. `reloadAccountSequence()` clears the invalidation before its query, and a
   failing query loses it (so does a reload by the application that overlaps
   `signTx()`, see above);
3. a late close event of the old socket closes the new connection;
4. `getAccountData()` does not await the sum of the token debts, and returns a
   total without them;
5. `computeCloseFactor()` answers 0 for a borrow below the small size, which the
   docs exempt from the close factor so that it can be liquidated at once.

Further disagreements seen while modelling, kept in the models or noted where
they lie outside them:

- `CarbonWallet.ts`: a retry is signed with the timeout height of the first
  attempt (556-562); a grantee signs without the computed timeout height (633);
  a merge of the caller's own in sync mode sets the merged flag although no block
  has confirmed it, which is why the merge properties assume
  `OwnMergesAreConfirmed`.
- `connector.ts`: channel handlers outlive the connection, so that `subscribe()`
  sends nothing on the next one (260); `clearTimeout(this.timeoutConnect)` clears
  nothing (367), so the time-out of a connection that succeeded may reject a
  later `connect()`; `connect()` resets the `shouldConnect` it has just set (591);
  a constructor that throws leaves its `connect()` pending (622); with `ws` a late
  pong re-arms the heartbeat timer of a closed connection (385), which is why
  `HeartbeatNeedsConnection` speaks of browser sockets.
- `BatchQueryClient.ts`: requests that share an id in a failing batch stay
  pending (113), although the comment at 81-84 says that HTTP errors are handled
  by the queued promises; `NoneLeftWaiting` and `Settles` except these requests
  (no run is given to this one: a caller that wants it to bite has to repeat an
  id within one batch).
- `cdp.ts`: `getCdpTokenPrice()` multiplies by the ratio
  (937) where `getCdpTokenUsdVal()` divides by it (660); the stablecoin amount is
  unscaled while the tokens are not loaded (511); `getMaxCollateralForUnlock()`
  may return a negative amount, which `UnlockIsCovered` leaves out.
- `CarbonSDK.ts`: nothing in `src/src` throws the "Account does not exist on chain"
  that `connect()` catches (459): `wallet.initialize()` takes a missing account as
  no account. The model has no such outcome.
- `TokenClient.ts`: every reload overwrites the prices of `iusd` and `cgusd` with 1
  (643-644), that of the pricing module included, although the comment at 668
  says that a price of the pricing module is returned first. If the reload fails,
  the 1 stays. `PricingWins` excepts the two denoms.
- `TokenClient.ts`: of two overlapping price reloads, the one whose answer is
  older may overwrite a newer price of the pricing module (the model keeps the
  source of a price, not its value).

### Bounds, and why they are enough

- `QueueManager`: three tasks, delay 1, threshold 3, clock up to 7. Two tasks
  suffice for order, one drain and one missed timer; the third lets an enqueue
  come after the stalled threshold. The stall run goes to 9.
- `WalletTx`: two requests, so that one can overtake, invalidate or exhaust the
  sequence of the other; each is attempted at most twice by the code itself. One
  may be signed by the grantee and is sent in async mode, the other waits for its
  block; sync mode, which is block mode without the poll, occurs in the run
  `WalletTxLostReload` only. `MaxNonce` bounds how often other clients of the
  account use it: 1 lets an attempt of a request be overtaken, and the run that
  loses a reload has 2. One reload by the application, beside any step. The
  height starts at 1 and `MaxHeight` is 1, so that blocks execute transactions but
  the height stays and no transaction expires: what timeout heights do is
  covered by the theorems only, which hold for every height, as they do for
  every value of `EvmOnly` and `DisableRetry`, which the runs keep false.
- `MergeAccount`: two callers, since the merge is lost or doubled between two;
  one reload by `signTx()` and one by the application; `block` and `sync` as
  default modes, of which `async` differs in nothing that the flow reads.
- `WSConnector`: three connections, since the shortest interference takes two and
  the third shows that it repeats; one request and one channel, since they
  interfere with connections and not with each other; both socket libraries.
- `BatchQueryClient`: four requests and batches of three, so that a full and a
  partial batch are in flight together; two requests share their id.
- `Sdk`: three denoms, one of them pegged; one `initialize()` and one reload by the application, so that two price
  reloads overlap; one denom whose CoinGecko name is built in, and the native
  stablecoin, whose name has to be loaded.
- `Cdp`: two denoms, amounts 0 and 2, rates in halves; enough for a debt that
  comes too late, for a collateral that limits the answer, and for every branch
  and rounding of the liquidation formula. The larger the numbers, the closer
  the roundings are to the exact value.

`CHECK_DEADLOCK FALSE` is set throughout: the components are libraries that rest
when their callers do, and the clock of `QueueManager` is bounded.

Symmetry is used only in runs without liveness properties, and only where the
elements are interchangeable.

### Fairness

- `QueueManager`: timers fire, time passes, and every awaited processor settles.
  The code has no other way to stop; a processor that never settles holds the
  lock for ever, which `WalletTx` shows does not come from the pipeline.
- `WalletTx`: each queue hands its tasks over as long as no timer has fired during
  a drain, which is what the run `QueueManagerSafety` shows of it
  (`TriggeredWorkStarts`, `QueuedWhileDrainingStarts`); after such a timer nothing
  is assumed, and `Settles` says nothing. `TimerMissed` may happen whenever a task
  is under way. Every awaited call is answered or fails. HTTP clients time out, and `broadcastTx` polls for 60 s at most. Nothing
  is assumed of the chain. A user who leaves a signature prompt open for ever
  blocks the wallet; liveness does not speak of that user.
- `WSConnector`: time-outs fire, and a socket that is being aborted or closed
  delivers its error and its close event. Nothing is assumed of the server.
- `BatchQueryClient`: the interval fires and every HTTP call returns.
- `MergeAccount`, `CarbonSDK` and `CDPModule` state no fairness: their properties
  are about safety.

## Proofs

All theorems hold for every value of the constants, under the named assumptions
of the modules, which say no more than the types of the options and of what the
chain stores (`MergeAssumption`, `ConnectorAssumption`, `WalletAssumption`,
`CdpAssumption` and so on). TLC evaluates each of them.

Of the first four findings, each has a theorem that says when it does *not* bite:
`StallNeedsMissedTimerHolds` (a stall needs a timer that fired during a drain),
`RetrySignsFreshHolds` (no reload that the retry waits for fails or overlaps
another), `PatientReconnectIsSafe` (the
application waits for the close event) and `WithStablecoinHolds` (the token debts
answer before the stablecoin). `WithoutStablecoinHolds` says that there is no such
escape for an account without stablecoin debt.

`QueueManagerProofs`. The inductive invariant `IInv` conjoins the FIFO equation
`submitted = started \o queue`, the lock (one running task, and the lock is taken
exactly while there is one), the bound of the debounce and the link between a
stall and a missed timer. The lock must be part of it: without knowing that
`running` is empty when the lock is free, `Process` could start a second loop.
From it follow the four safety properties and `Refinement`,
`Spec => ImplementsFifoWorker`.

`WalletTxSafetyProofs` proves `Typing`, `OnePlaceHolds`, `AtMostOnceHolds`,
`RefusalIsFinalHolds` and `RetrySignsFreshHolds`. `AtMostOnce` is not inductive:
that a retry is harmless depends on where the first transaction is. The invariant
is `OnePlace /\ Sent`, inductive together with `TypeOK`:

- `OnePlace`: a pending request is in exactly one queue or task;
- `Unsent`: a *fresh* request (new, refused, in a queue, being signed, being sent,
  or answered by a mismatch or a CheckTx refusal) has no transaction at the node,
  neither travelling nor in the mempool nor executed;
- `OneBody`, `OneCopy`: every other request has one transaction at most, in one
  place.

A step that hands a transaction over takes its request out of the fresh ones
(`SendKeepsSent`); a mismatch found by polling removes the only transaction
(`PollMismatchKeepsSent`); all other steps move no transaction and make no
request fresh (`SentUnchanged`), or are the node's, which never adds one
(`NodeKeepsSent`). Refusals and single execution then follow from `Sent` alone.
`RetrySignsFreshHolds` excepts retries whose reload failed or met another one,
which the run `WalletTxLostReload` shows to be necessary. Its invariant `StaleInv`
says that a retry that is still to be reloaded for is known to the flag, covered
by a query under way, or disturbed, and that whoever is past the account query is
fresh or disturbed.

`WalletTxRefinementProofs` proves `Refinement`,
`Spec => ImplementsRequestService`. `StepEffect` first sorts the many steps of
the wallet and the node into four kinds by what they do to promises and blocks:
a request is submitted, a transaction executed, a promise answered, or nothing
visible happens. Each kind maps to one step of the service or to a stutter. That
an answer is truthful needs `CallsHold`: a block-mode call that is about to
report a block has its transaction in one. That a refusal is final, and that
nothing executes twice, comes from `Sent`. `NonceErrorIsRetriedHolds` is inductive
by itself. From the same four kinds of step follow what a caller may read from
the promise: `AnswersAreTrueHolds` (a promise that speaks of a block speaks of a
transaction of its own request) and the action property `SettledOnceHolds` (a
settled promise never says anything else).

`MergeAccountProofs`. `Truthful` says that the flag, every status query under way
and every succeeded merge agree with the chain, which makes `MergedFlagIsTrue`
inductive; `Ordered` adds the moment before the hand-over, for
`TriggeredIsOrdered`; `Aware` keeps the flag set for a call that knows of the
merge (no status query is out that could unset it, and none can start), for
`KnownMergeStays`. For `FreshIsKept`, `Reloaded` says that once the merge is known
and the flag is cleared, no reload under way has read the account from before the
merge, and the account is loaded or a reload is out; `SigningFresh` says that
`signTx()` waits exactly for its own reload and has the account when it is past
it. That no reload runs beside (`SigningIsBeside`) links the two.

`BatchQueryClientProofs`. The properties are inductive together with `NoRepeats`
(no request is twice in the queue or in a batch). Lemmas on `splice()` say that
the two halves of a queue share no request and lose none (`SplitCovers`,
`SplitSeparates`).

`WSConnectorProofs`. The safety properties of the run are inductive with
`OpenIsConnected`, since handlers do not look at the socket they come from,
`HandlersAreSent` and `AskedBefore`. `ClosesCurrent` is the heart of it: after
`close()` of the current socket no live one is left. `PatientReconnectIsSafe` is
conditional, since `ReconnectIsSafe` fails: its hypothesis `PatientConnects` is an
action formula that lets `attempts` change only when no socket has an event to
deliver, and its invariant says that only the current socket lives.

`CarbonSDKProofs`. `TokenInv` follows a background reload: a resolved
`initialize()` has its list loaded (`Loaded`), a reload that started after it asks
for every built-in name (`Named`), and one that is done has priced them.
`Progress` says what each await of a call has behind it, from which follows
`ReadySdkHolds`. `PricingWinsHolds` is an action property; that the assignments at
the start of a reload touch nothing but the pegged denoms is part of it.

`CDPModuleProofs`. `DebtsFollow` (no debt is requested, failed or counted before
the collaterals are done) and `CountedAtOnce` (all or none are counted, and all
only when every request was answered) give `DebtsAllOrNothingHolds`. With
`NothingLost` (once the last request has answered, the sum is there) they give
`WithStablecoinHolds`; `WithoutStablecoinHolds` follows because the totals are
taken in the very step that starts the requests.

The other three rest on `CallInv`: the call is where its method can be
(`Phases`), and an answer is what the formulas yield for the input
(`UnlockAnswered`, `LiquidationAnswered`). The work is in the formulas:

- `TypeCorrect` needs that a sum over a finite set of assets is an integer, and
  that a power of ten is positive. Both are induction over data. The library's
  induction rules take an operator as parameter, which no prover here can
  instantiate; the lemma `Induction` takes a *set* instead and follows from the
  well-foundedness of the natural numbers (`SmallestExists`, by the library's
  `WFMin`). The recursive definitions of the fold and of `TenTo` are `CHOOSE`s of
  a solution of their equation: `SumExists` and `PowersExist` build a solution
  step by step, `SolutionsAreIntegers` and `PowersArePositive` type every one.
- Products of four and more unknowns are beyond the SMT solver. The order of
  fractions is therefore treated by lemmas that multiply or cancel one factor at a
  time (`Cancelling`, `ScalingUp`, `Transitivity`, `Monotony`, `Division`), and
  the two roundings by what they may lose (`RoundingUp`, `RoundingHalfUp`).
- `UnlockIsCoveredHolds` is then two short arguments: `UnlockCovers` (dividing by
  the larger of the two ratios never unlocks too much) and `UnlockSpendsAll`
  (dividing by the loan-to-value spends the rest exactly, which fails on devnet).
- `LiquidationIsBoundedHolds` has `RequiredCovers` at its heart: the collateral
  asked for is the smallest integer whose discounted worth reaches the repayment,
  so that the repayment is covered unless the debtor's collateral runs out.
  `CloseFactorBounds` compares the code's close factor with the one that
  `params.ts` documents, where all of a small borrow counts as repayable: the code's
  0 is below that, so that the bound holds and the run `CdpSmallBorrow` shows the
  disagreement.

Only model-checked is liveness, which is beyond the prover together with
fairness: `Settles` of the wallet and of the batching client, `ConnectSettles`,
`TriggeredWorkStarts` and `QueuedWhileDrainingStarts`.

## Plan

What is left, in this order:

1. `WalletTx`: `waitForTx()` and the reconnection of the Tendermint client,
   `updateNetwork()`, sequences that callers give, rejections that are not an
   `Error`.
2. `WSConnector`: the sequence-number cache and the unsubscribe for unknown
   channels.
3. `SignMode` and `Channels`: the pure choice of the sign mode, and
   `generateChannelId`/`parseChannelId` as an inverse pair over bounded inputs.
4. The interest formulas of `cdp.ts`, once a scaled-down decimal type is worth its
   states.

## Not modelled

About 280,000 of the repository's 311,000 implementation lines are generated
protobuf code (`src/codec`) and data (`src/constant`). A codec has no state, and a
model of one would be its own transliteration, so that the share of lines
that these modules cover stays small however much of the hand-written logic they
hold. The rest that is left out keeps no state and decides nothing over time: query
clients and message modules forward to generated services or to `CarbonWallet`,
chain clients call other libraries, providers adapt extensions and devices,
signers wrap keys, and `util` converts addresses, numbers and denominations.
Cryptography, encodings and the servers' own behaviour, beyond what
`CarbonNode` says, are external to the SDK.
