---------------------------- MODULE MergeAccount ----------------------------
(***************************************************************************)
(* Account merging in CarbonWallet (src/wallet/CarbonWallet.ts).  A call   *)
(* of sendTxs() or sendTxsWithoutConfirm() that triggers a merge first     *)
(* asks the chain whether the account is merged and, if it is not, sends a *)
(* MsgMergeAccount of its own in block mode; accountMerged remembers the   *)
(* result, and sequenceInvalidated has the account loaded again.  Calls    *)
(* interleave at every await.  signAndBroadcast() is a RequestService,     *)
(* which WalletTx implements.  Of its signTx() only the account that it    *)
(* signs with is followed, not the request: signTx() may run whenever some *)
(* request is pending, and how a request settles is left open.             *)
(***************************************************************************)
EXTENDS Naturals

CONSTANTS Callers,       \* calls of sendTxs() or sendTxsWithoutConfirm()
          Reloaders,     \* callers of reloadAccountSequence()
          DefaultModes   \* broadcast modes that sendTxs() may use

ASSUME MergeAssumption == /\ DefaultModes \subseteq {"block", "sync", "async"}
                          /\ "signTx" \in Reloaders

VARIABLES mode, status, executed,   \* of the RequestService
          succeeded,            \* requests that a block executed without error
          merged,               \* is the account merged, on the chain?
          accountMerged,
          sequenceInvalidated,
          accountInfo,          \* the account as it was "before" or "after"
                                \*   the merge
          call,                 \* what each caller asks for
          pc,                   \* where each call is
          asked,                \* was the account merged when the status
                                \*   query of the call left?
          reload,               \* running calls of reloadAccountSequence()
          signing,              \* what signTx() waits for
          knew,                 \* history: was the merge known when signTx()
                                \*   began?
          aware,                \* history: calls that began when the merge
                                \*   was known and no status query was out
          disturbed             \* history: a reload failed, two overlapped,
                                \*   or one ran beside signTx()

Requests == Callers \X {"merge", "own"}
Service == INSTANCE RequestService

serviceVars == <<mode, status, executed, succeeded, merged>>
flagVars == <<accountMerged, sequenceInvalidated>>
callVars == <<call, pc, asked, aware>>
signVars == <<signing, knew>>
reloadVars == <<accountInfo, reload, disturbed, signVars>>
vars == <<serviceVars, flagVars, callVars, reloadVars>>

Steps == {"idle", "firstStatus", "resumed", "status", "check", "account",
          "merge", "send", "own", "returned", "threw"}

TypeOK == /\ Service!TypeOK
          /\ succeeded \subseteq Requests
          /\ merged \in BOOLEAN
          /\ accountMerged \in BOOLEAN
          /\ sequenceInvalidated \in BOOLEAN
          /\ accountInfo \in {"before", "after"}
          /\ call \in [Callers -> [trigger : BOOLEAN, confirm : BOOLEAN,
                                   isMerge : BOOLEAN]]
          /\ pc \in [Callers -> Steps]
          /\ asked \in [Callers -> BOOLEAN]
          /\ reload \in [Reloaders -> {"none", "asked", "before", "after"}]
          /\ aware \subseteq Callers
          /\ disturbed \in BOOLEAN
          /\ signing \in {"none", "account", "height"}
          /\ knew \in BOOLEAN

View == IF merged THEN "after" ELSE "before"

ModeOf(c, defaultMode) == IF call[c].confirm THEN defaultMode ELSE "sync"

\* initialize() has loaded the account and the merge status
Init == /\ merged \in BOOLEAN
        /\ accountMerged = merged
        /\ sequenceInvalidated = TRUE
        /\ accountInfo = View
        /\ call \in [Callers -> [trigger : BOOLEAN, confirm : BOOLEAN,
                                 isMerge : BOOLEAN]]
        /\ \E defaultMode \in DefaultModes :
              mode = [r \in Requests |-> IF r[2] = "merge" THEN "block"
                                         ELSE ModeOf(r[1], defaultMode)]
        /\ status = [r \in Requests |-> "new"]
        /\ executed = [r \in Requests |-> 0]
        /\ succeeded = {}
        /\ pc = [c \in Callers |-> "idle"]
        /\ asked = [c \in Callers |-> FALSE]
        /\ reload = [k \in Reloaders |-> "none"]
        /\ aware = {}
        /\ disturbed = FALSE
        /\ signing = "none"
        /\ knew = FALSE

-----------------------------------------------------------------------------
(* The chain executes what it was given; a second merge of the account      *)
(* fails.                                                                   *)

IsMerge(r) == r[2] = "merge" \/ call[r[1]].isMerge

Execute(r) ==
    /\ Service!Execute(r)
    /\ \/ /\ IsMerge(r) => ~merged
          /\ succeeded' = succeeded \cup {r}
          /\ merged' = (merged \/ IsMerge(r))
       \/ UNCHANGED <<succeeded, merged>>
    /\ UNCHANGED <<flagVars, callVars, reloadVars>>

\* a promise of signAndBroadcast() settles
Settles(r, answer) ==
    /\ Service!Settle(r, answer)
    /\ answer = "resolved" /\ mode[r] = "block" => r \in succeeded
    /\ answer = "failed" => r \notin succeeded
    /\ UNCHANGED <<succeeded, merged>>

-----------------------------------------------------------------------------
(* The calls *)

Goto(c, step) == pc' = [pc EXCEPT ![c] = step]

StatusOut == \E c \in Callers : pc[c] \in {"firstStatus", "status"}

\* mutant: no early return
AskAlways(c, step, next) == /\ Goto(c, step)
                            /\ asked' = [asked EXCEPT ![c] = merged]

\* reloadMergeAccountStatus() until its await: nothing to do when merged
AskStatus(c, step, next) ==
    /\ Goto(c, IF accountMerged THEN next ELSE step)
    /\ asked' = [asked EXCEPT ![c] = merged]

\* what sendTxs(), and sendTxsWithoutConfirm() after its own status query, do
\* next
Continue(c) == IF call[c].trigger THEN AskStatus(c, "status", "check")
               ELSE Goto(c, "send") /\ UNCHANGED asked

Begin(c) ==
    /\ pc[c] = "idle"
    /\ aware' = IF accountMerged /\ ~StatusOut THEN aware \cup {c} ELSE aware
    /\ IF call[c].confirm THEN Continue(c)
       ELSE AskStatus(c, "firstStatus", "resumed")
    /\ UNCHANGED <<serviceVars, flagVars, call, reloadVars>>

Resume(c) == /\ pc[c] = "resumed"
             /\ Continue(c)
             /\ UNCHANGED <<serviceVars, flagVars, call, aware, reloadVars>>

\* the answer is as old as the node makes it: the query left some time ago
StatusAnswers(c) ==
    /\ pc[c] \in {"firstStatus", "status"}
    /\ accountMerged' \in {asked[c], merged}
    /\ sequenceInvalidated' = TRUE
    /\ Goto(c, IF pc[c] = "status" THEN "check" ELSE "resumed")
    /\ UNCHANGED <<serviceVars, call, asked, aware, reloadVars>>

\* the status or the account query throws, or there is no account
QueryFails(c) == /\ pc[c] \in {"firstStatus", "status", "account"}
                 /\ Goto(c, "threw")
                 /\ UNCHANGED <<serviceVars, flagVars, call, asked, aware,
                                reloadVars>>

Check(c) == /\ pc[c] = "check"
            /\ Goto(c, IF accountMerged \/ call[c].isMerge THEN "send"
                       ELSE "account")
            /\ UNCHANGED <<serviceVars, flagVars, call, asked, aware,
                           reloadVars>>

\* the account is found: send the merge
SendMerge(c) == /\ pc[c] = "account"
                /\ Service!Submit(<<c, "merge">>)
                /\ Goto(c, "merge")
                /\ UNCHANGED <<succeeded, merged, flagVars, call, asked, aware,
                               reloadVars>>

\* mutant: the sequence is not invalidated
UpdateFlagOnly == accountMerged' = TRUE /\ UNCHANGED sequenceInvalidated

UpdateMergeAccountStatus == accountMerged' = TRUE /\ sequenceInvalidated' = TRUE

\* mutant: the error of the merge is swallowed
MergeErrorIgnored(c, answer) ==
    /\ pc[c] = "merge"
    /\ Settles(<<c, "merge">>, answer)
    /\ IF answer = "resolved"
       THEN UpdateMergeAccountStatus /\ Goto(c, "send")
       ELSE UNCHANGED flagVars /\ Goto(c, "send")
    /\ UNCHANGED <<call, asked, aware, reloadVars>>

MergeSettles(c, answer) ==
    /\ pc[c] = "merge"
    /\ Settles(<<c, "merge">>, answer)
    /\ IF answer = "resolved"
       THEN UpdateMergeAccountStatus /\ Goto(c, "send")
       ELSE UNCHANGED flagVars /\ Goto(c, "threw")
    /\ UNCHANGED <<call, asked, aware, reloadVars>>

Send(c) == /\ pc[c] = "send"
           /\ Service!Submit(<<c, "own">>)
           /\ Goto(c, "own")
           /\ UNCHANGED <<succeeded, merged, flagVars, call, asked, aware,
                          reloadVars>>

\* mutant: the flag is set whether the transaction succeeded or not
OwnAlwaysUpdates(c, answer) == call[c].isMerge /\ call[c].confirm

OwnUpdates(c, answer) ==
    call[c].isMerge /\ call[c].confirm /\ answer = "resolved"

OwnSettles(c, answer) ==
    /\ pc[c] = "own"
    /\ Settles(<<c, "own">>, answer)
    /\ Goto(c, IF answer = "resolved" THEN "returned" ELSE "threw")
    /\ IF OwnUpdates(c, answer) THEN UpdateMergeAccountStatus
       ELSE UNCHANGED flagVars
    /\ UNCHANGED <<call, asked, aware, reloadVars>>

-----------------------------------------------------------------------------
(* signTx(), and reloadAccountSequence() by signTx() and, at any time, by    *)
(* the application or initialize().                                          *)

\* the flag is cleared before the account is asked for
AskAccount(k) == /\ reload' = [reload EXCEPT ![k] = "asked"]
                 /\ sequenceInvalidated' = FALSE

Disturb == disturbed' = (disturbed \/ \E k \in Reloaders : reload[k] # "none")

\* evmOnly: the account was found at evmBech32Address
SignTx(evmOnly) ==
    /\ signing = "none"
    /\ \E r \in Requests : status[r] = "pending"
    /\ knew' = accountMerged
    /\ IF sequenceInvalidated \/ evmOnly
       THEN signing' = "account" /\ AskAccount("signTx")
       ELSE signing' = "height" /\ UNCHANGED <<reload, sequenceInvalidated>>
    /\ Disturb
    /\ UNCHANGED <<serviceVars, accountMerged, callVars, accountInfo>>

\* getTimeoutHeight() returns: the sequence and the account are taken
TakeSequence == /\ signing = "height"
                /\ signing' = "none"
                /\ knew' = FALSE
                /\ UNCHANGED <<serviceVars, flagVars, callVars, accountInfo,
                               reload, disturbed>>

\* a nonce error, or a wallet that cannot sign for its account
Invalidate == /\ \E r \in Requests : status[r] = "pending"
              /\ sequenceInvalidated' = TRUE
              /\ UNCHANGED <<serviceVars, accountMerged, callVars, reloadVars>>

BeginReload(k) ==
    /\ k # "signTx"
    /\ reload[k] = "none"
    /\ AskAccount(k)
    /\ Disturb
    /\ UNCHANGED <<serviceVars, accountMerged, callVars, accountInfo, signVars>>

\* the node reads the account
ReadAccount(k) == /\ reload[k] = "asked"
                  /\ reload' = [reload EXCEPT ![k] = View]
                  /\ UNCHANGED <<serviceVars, flagVars, callVars, accountInfo,
                                 disturbed, signVars>>

\* mutant: an account that was not found overwrites the one that was
ReloadReturnsUnchecked(k) ==
    /\ reload[k] \in {"before", "after"}
    /\ accountInfo' \in {reload[k], "none"}
    /\ reload' = [reload EXCEPT ![k] = "none"]
    /\ signing' = IF k = "signTx" THEN "height" ELSE signing
    /\ UNCHANGED <<serviceVars, flagVars, callVars, disturbed, knew>>

ReloadReturns(k) ==
    /\ reload[k] \in {"before", "after"}
    /\ accountInfo' = reload[k]
    /\ reload' = [reload EXCEPT ![k] = "none"]
    /\ signing' = IF k = "signTx" THEN "height" ELSE signing
    /\ UNCHANGED <<serviceVars, flagVars, callVars, disturbed, knew>>

\* accountInfo stays as it is; signTx() is left when the query throws, and
\* goes on when it finds no account
ReloadFails(k) ==
    /\ reload[k] # "none"
    /\ reload' = [reload EXCEPT ![k] = "none"]
    /\ disturbed' = TRUE
    /\ \/ /\ signing' = IF k = "signTx" THEN "height" ELSE signing
          /\ UNCHANGED knew
       \/ k = "signTx" /\ signing' = "none" /\ knew' = FALSE
    /\ UNCHANGED <<serviceVars, flagVars, callVars, accountInfo>>

Reload(k) == BeginReload(k) \/ ReadAccount(k) \/ ReloadReturns(k) \/ ReloadFails(k)

Sign == \/ \E evmOnly \in BOOLEAN : SignTx(evmOnly)
        \/ TakeSequence
        \/ Invalidate

CallStep(c) == \/ Resume(c)
               \/ StatusAnswers(c)
               \/ QueryFails(c)
               \/ Check(c)
               \/ SendMerge(c)
               \/ Send(c)
               \/ \E answer \in Service!Answers : MergeSettles(c, answer)
                                                  \/ OwnSettles(c, answer)

Next == \/ \E r \in Requests : Execute(r)
        \/ \E c \in Callers : Begin(c) \/ CallStep(c)
        \/ \E k \in Reloaders : Reload(k)
        \/ Sign

Spec == Init /\ [][Next]_vars

-----------------------------------------------------------------------------
(* sendTxs() updates the flag when a MsgMergeAccount of the caller resolves, *)
(* which tells nothing about blocks unless the mode is "block".              *)
OwnMergesAreConfirmed == \A c \in Callers :
    call[c].isMerge /\ call[c].confirm => mode[<<c, "own">>] = "block"

(* The wallet never takes the account for merged before the chain does: not *)
(* after a merge that failed, nor one that is still on its way.             *)
MergedFlagHolds == OwnMergesAreConfirmed /\ accountMerged => merged

(* A transaction that triggers a merge is sent only after the account was   *)
(* merged, although another call may have merged it, and although the       *)
(* answer to the status query may be older than that.                       *)
TriggeredAfterMerge == \A c \in Callers :
    /\ OwnMergesAreConfirmed
    /\ call[c].trigger /\ ~call[c].isMerge
    /\ status[<<c, "own">>] # "new"
    => merged

(* Two calls that overlap may both send a merge; a call that begins after    *)
(* the merge is known, with no older status query out, never does.          *)
KnownMergeIsFinal == \A c \in aware : status[<<c, "merge">>] = "new"

(* "invalidate sequence after merging": signTx() takes the sequence of the   *)
(* account as it is after the merge, when the merge was known as it began    *)
(* and no reload failed, met another or ran beside it.                       *)
FreshAfterMerge ==
    OwnMergesAreConfirmed /\ signing = "height" /\ knew /\ ~disturbed
    => accountInfo = "after"
=============================================================================
