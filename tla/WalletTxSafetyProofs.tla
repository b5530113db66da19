------------------------ MODULE WalletTxSafetyProofs ------------------------
(***************************************************************************)
(* The safety of WalletTx for any number of requests, any broadcast modes  *)
(* and any behaviour of the node: types, that every pending request is in  *)
(* exactly one place, that a refusal is final, and that a request executes *)
(* at most once.                                                           *)
(***************************************************************************)
EXTENDS WalletTx, TLAPS

-----------------------------------------------------------------------------
(* Sequences.                                                               *)

LEMMA TailIsTyped ==
    ASSUME NEW S, NEW q \in Seq(S), q # <<>>
    PROVE  Head(q) \in S /\ Tail(q) \in Seq(S)
  OBVIOUS

LEMMA AppendIsTyped ==
    ASSUME NEW S, NEW q \in Seq(S), NEW e \in S
    PROVE  Append(q, e) \in Seq(S)
  OBVIOUS

-----------------------------------------------------------------------------
(* Typing: the node, signTx() and dispatchTx() in turn.                     *)

TypeOfNode == /\ funded \in BOOLEAN
              /\ nonce \in [Accounts -> Nat]
              /\ mempool \subseteq Txs
              /\ late \subseteq Txs
              /\ included \subseteq Txs
              /\ height \in Nat

LEMMA NodeTyping == ASSUME TypeOfNode, NodeNext PROVE TypeOfNode'
<1>1. ASSUME NEW t \in mempool, Deliver(t) PROVE TypeOfNode'
  <2>1. t \in Txs /\ t.acct \in Accounts
    BY DEF TypeOfNode, Txs
  <2> QED  BY <1>1, <2>1 DEF TypeOfNode, Deliver
<1>2. ASSUME NEW t \in mempool, Evict(t) PROVE TypeOfNode'
  BY <1>2 DEF TypeOfNode, Evict
<1>3. ASSUME NEW t \in late, Arrive(t) PROVE TypeOfNode'
  BY <1>3 DEF TypeOfNode, Arrive
<1>4. CASE NodeRestarts
  BY <1>4 DEF TypeOfNode, NodeRestarts
<1>5. ASSUME NEW a \in Shared, Foreign(a) PROVE TypeOfNode'
  BY <1>5, NodeAssumption DEF TypeOfNode, Foreign
<1>6. CASE Fund
  BY <1>6 DEF TypeOfNode, Fund
<1>7. CASE NewBlock
  BY <1>7 DEF TypeOfNode, NewBlock
<1> QED  BY <1>1, <1>2, <1>3, <1>4, <1>5, <1>6, <1>7 DEF NodeNext

LEMMA SigningIsTyped ==
    ASSUME NEW r \in Requests, NEW step \in SignSteps, NEW acct \in Accounts
    PROVE  Signing(r, step, acct) \in Sign
  BY DEF Signing, Sign, NoTtl, NoInfo

\* what a query may answer, and what the wallet makes of it
LEMMA AnswersAreTyped ==
    ASSUME TypeOK, NEW a \in Accounts, NEW since \in Nat \cup {NoInfo},
           NEW n \in since .. Committed(a)
    PROVE  /\ Committed(a) \in Nat \cup {NoInfo}
           /\ n \in Nat \cup {NoInfo}
           /\ Loaded(n) \in Nat \cup {NoInfo}
  BY DEF TypeOK, Committed, Loaded, NoInfo

LEMMA LimitsAreTyped == ASSUME TypeOK, NEW limit \in Limits PROVE limit \in Nat
  BY WalletAssumption DEF TypeOK, Limits, NoTtl

LEMMA AwaitingIsTyped == Awaiting \subseteq Requests
  BY DEF Awaiting

LEMMA HistoryIsTyped ==
    ASSUME TypeOK
    PROVE  /\ \A covered, n : Serve(covered, n) => stale' \subseteq Requests
           /\ \A r, covered : Leave(r, covered) =>
                 stale' \subseteq Requests /\ disturbed' \subseteq Requests
  BY AwaitingIsTyped DEF TypeOK, Serve, Leave

LEMMA SignStepTyping == ASSUME TypeOK, SignStep PROVE TypeOK'
<1>1. PICK s \in signing :
          \/ \E n \in s.since .. Committed(s.acct) : ReloadReturns(s, n)
                                                   \/ GranteeAccountReturns(s, n)
          \/ QueryFails(s)
          \/ \E limit \in Limits : HeightReturns(s, limit)
                                   \/ GranteeHeightReturns(s, limit)
          \/ Signed(s)
          \/ SignFails(s)
          \/ WalletIncompatible(s)
  BY DEF SignStep
<1>2. /\ s \in Sign
      /\ s.req \in Requests
      /\ s.acct \in Accounts
      /\ s.seq \in Nat
      /\ s.ttl \in Nat
      /\ s.since \in Nat \cup {NoInfo}
  BY DEF TypeOK, Sign
<1>3. "own" \in Accounts
  BY NodeAssumption
<1>4. ASSUME NEW outcome \in Outcomes, Settle(s.req, outcome)
      PROVE  settled' \in [Requests -> Outcomes \cup {"new", "pending"}]
  BY <1>2, <1>4 DEF TypeOK, Settle
<1>5. ASSUME NEW n \in s.since .. Committed(s.acct), ReloadReturns(s, n)
      PROVE  TypeOK'
  <2>1. [s EXCEPT !.step = "height", !.covered = {}, !.since = NoInfo] \in Sign
    BY <1>2 DEF Sign, SignSteps
  <2>2. Loaded(n) \in Nat \cup {NoInfo}
    BY <1>2, AnswersAreTyped
  <2>3. stale' \subseteq Requests
    BY <1>5, HistoryIsTyped DEF ReloadReturns
  <2> QED  BY <1>5, <2>1, <2>2, <2>3 DEF TypeOK, nodeVars, besideVars, ReloadReturns
<1>7. ASSUME NEW n \in s.since .. Committed(s.acct), GranteeAccountReturns(s, n)
      PROVE  TypeOK'
  <2>1. n \in Nat
    BY <1>2, <1>7, AnswersAreTyped DEF GranteeAccountReturns
  <2>2. [s EXCEPT !.step = "height", !.seq = n, !.since = NoInfo] \in Sign
    BY <1>2, <2>1 DEF Sign, SignSteps
  <2> QED  BY <1>7, <2>2 DEF TypeOK, nodeVars, besideVars, GranteeAccountReturns
<1>8. CASE QueryFails(s)
  BY <1>4, <1>8, HistoryIsTyped
     DEF TypeOK, nodeVars, QueryFails, Outcomes, Refusals
<1>9. ASSUME NEW limit \in Limits, HeightReturns(s, limit) PROVE TypeOK'
  <2>1. limit \in Nat /\ Explicit(s.req, limit) \in Nat
    BY <1>2, LimitsAreTyped DEF TypeOK, NoTtl, Explicit, Absent
  <2>2. NextSequence \in Nat
    BY DEF TypeOK, NextSequence, NoInfo
  <2>3. signing' \subseteq Sign
    BY <1>2, <1>9, <2>1, <2>2 DEF HeightReturns, Sign, SignSteps
  <2>4. explicitTtl' \in [Requests -> Nat \cup {Absent}]
    BY <1>2, <1>9, <2>1 DEF TypeOK, HeightReturns
  <2>5. accountSequence' \in Nat \cup {NoInfo}
    BY <1>9 DEF TypeOK, HeightReturns, NoInfo
  <2> QED  BY <1>9, <2>3, <2>4, <2>5 DEF TypeOK, nodeVars, besideVars, HeightReturns
<1>10. ASSUME NEW limit \in Limits, GranteeHeightReturns(s, limit) PROVE TypeOK'
  <2>1. /\ limit \in Nat
        /\ Explicit(s.req, limit) \in Nat
        /\ Explicit(s.req, NoTtl) \in Nat
    BY <1>2, LimitsAreTyped DEF TypeOK, NoTtl, Explicit, Absent
  <2>2. signing' \subseteq Sign
    BY <1>2, <1>10, <2>1 DEF GranteeHeightReturns, Sign, SignSteps
  <2>3. explicitTtl' \in [Requests -> Nat \cup {Absent}]
    BY <1>2, <1>10, <2>1 DEF TypeOK, GranteeHeightReturns
  <2> QED  BY <1>10, <2>2, <2>3 DEF TypeOK, nodeVars, besideVars, GranteeHeightReturns
<1>11. CASE Signed(s)
  <2>1. SignedTx(s) \in Txs
    BY <1>2 DEF TypeOK, SignedTx, Txs
  <2>2. dispatchQueue' \in Seq(Txs)
    BY <1>11, <2>1, AppendIsTyped DEF TypeOK, Signed
  <2> QED  BY <1>11, <2>2, HistoryIsTyped DEF TypeOK, nodeVars, Signed
<1>12. CASE SignFails(s)
  BY <1>4, <1>12, HistoryIsTyped
     DEF TypeOK, nodeVars, SignFails, Outcomes, Refusals
<1>13. CASE WalletIncompatible(s)
  BY <1>4, <1>13, HistoryIsTyped
     DEF TypeOK, nodeVars, WalletIncompatible, Outcomes, Refusals
<1> QED
  BY <1>1, <1>5, <1>7, <1>8, <1>9, <1>10, <1>11, <1>12, <1>13

LEMMA DispatchStepTyping == ASSUME TypeOK, DispatchStep PROVE TypeOK'
<1>1. PICK c \in dispatching :
          \/ AcceptedAsync(c)
          \/ CheckTxPasses(c)
          \/ CheckTxFails(c)
          \/ ConnectionFails(c)
          \/ PollFinds(c)
          \/ PollFindsMismatch(c)
          \/ PollTimesOut(c)
          \/ Retry(c)
          \/ SettleCall(c)
  BY DEF DispatchStep
<1>2. /\ c \in Call
      /\ c.tx \in Txs
      /\ c.tx.req \in Requests
      /\ c.outcome \in CallOutcomes
  BY DEF TypeOK, Call, Txs
<1>3. ASSUME NEW outcome \in CallOutcomes, Answer(c, outcome)
      PROVE  dispatching' \subseteq Call
  BY <1>2, <1>3 DEF Answer, Call
<1>4. ASSUME DuringCall, mempool' \subseteq Txs, late' \subseteq Txs,
             dispatching' \subseteq Call
      PROVE  TypeOK'
  BY <1>4 DEF TypeOK, DuringCall, besideVars
<1>5. CASE AcceptedAsync(c)
  BY <1>2, <1>3, <1>4, <1>5 DEF TypeOK, AcceptedAsync, CallOutcomes
<1>6. CASE CheckTxPasses(c)
  <2>1. [c EXCEPT !.step = "polling"] \in Call
    BY <1>2 DEF Call
  <2>2. dispatching' \subseteq Call
    BY <1>3, <1>6, <2>1 DEF CheckTxPasses, CallOutcomes
  <2> QED  BY <1>2, <1>4, <1>6, <2>2 DEF TypeOK, CheckTxPasses
<1>7. CASE CheckTxFails(c)
  BY <1>3, <1>4, <1>7 DEF TypeOK, CheckTxFails, CallOutcomes
<1>8. CASE ConnectionFails(c)
  BY <1>2, <1>3, <1>4, <1>8 DEF TypeOK, ConnectionFails, CallOutcomes
<1>9. CASE PollFinds(c)
  BY <1>3, <1>4, <1>9 DEF TypeOK, PollFinds, CallOutcomes
<1>10. CASE PollFindsMismatch(c)
  BY <1>3, <1>4, <1>10 DEF TypeOK, PollFindsMismatch, CallOutcomes
<1>11. CASE PollTimesOut(c)
  BY <1>3, <1>4, <1>11 DEF TypeOK, PollTimesOut, CallOutcomes
<1>12. CASE Retry(c)
  <2>1. reattempts' \in [Requests -> 0 .. 1]
    <3>1. reattempts[c.tx.req] \in 0 .. 1 /\ reattempts[c.tx.req] < 1
      BY <1>2, <1>12 DEF TypeOK, Retry, Retryable
    <3>2. reattempts[c.tx.req] + 1 = 1
      BY <3>1
    <3> QED  BY <1>2, <1>12, <3>2 DEF TypeOK, Retry
  <2>2. signQueue' \in Seq(Requests)
    BY <1>2, <1>12, AppendIsTyped DEF TypeOK, Retry
  <2> QED  BY <1>2, <1>12, <2>1, <2>2 DEF TypeOK, nodeVars, besideVars, Retry
<1>13. CASE SettleCall(c)
  <2>1. Settlement(c.outcome) \in Outcomes
    BY <1>2 DEF Settlement, Outcomes, Refusals, CallOutcomes
  <2>2. settled' \in [Requests -> Outcomes \cup {"new", "pending"}]
    BY <1>2, <1>13, <2>1 DEF TypeOK, SettleCall, Settle
  <2> QED  BY <1>13, <2>2 DEF TypeOK, nodeVars, besideVars, SettleCall
<1> QED
  BY <1>1, <1>5, <1>6, <1>7, <1>8, <1>9, <1>10, <1>11, <1>12, <1>13

(* Every variable of the wallet and the node keeps its type; in particular  *)
(* no request is attempted more than twice.                                 *)
THEOREM Typing == Spec => []TypeOK
<1>1. Init => TypeOK
  <2> SUFFICES ASSUME Init PROVE TypeOK
    OBVIOUS
  <2>1. TypeOfNode
    BY DEF Init, NodeInit, TypeOfNode
  <2>2. mode \in [Requests -> {"block", "sync", "async"}]
    BY WalletAssumption DEF Init
  <2>3. signQueue \in Seq(Requests) /\ dispatchQueue \in Seq(Txs)
    BY DEF Init
  <2>4. accountSequence \in Nat \cup {NoInfo}
    BY DEF Init, NoInfo
  <2>5. /\ reattempts \in [Requests -> 0 .. 1]
        /\ explicitTtl \in [Requests -> Nat \cup {Absent}]
        /\ settled \in [Requests -> Outcomes \cup {"new", "pending"}]
    BY DEF Init
  <2>6. /\ granteeValid \in BOOLEAN
        /\ sequenceInvalidated \in BOOLEAN
        /\ missed \in BOOLEAN
    BY Zenon DEF Init
  <2> QED  BY <2>1, <2>2, <2>3, <2>4, <2>5, <2>6
           DEF Init, TypeOK, TypeOfNode
<1>2. TypeOK /\ [Next]_vars => TypeOK'
  <2> SUFFICES ASSUME TypeOK, [Next]_vars PROVE TypeOK'
    OBVIOUS
  <2>1. ASSUME NEW r \in Requests, SignAndBroadcast(r) PROVE TypeOK'
    <3>1. signQueue' \in Seq(Requests)
      BY <2>1, AppendIsTyped DEF TypeOK, SignAndBroadcast
    <3> QED  BY <2>1, <3>1 DEF TypeOK, nodeVars, besideVars, SignAndBroadcast, Settle
  <2>2. ASSUME TakeFromSignQueue
        PROVE  Head(signQueue) \in Requests /\ signQueue' \in Seq(Requests)
    BY <2>2, TailIsTyped DEF TypeOK, TakeFromSignQueue
  <2>3. CASE SignWithGrantee
    <3> DEFINE x == Signing(Head(signQueue), "granteeAccount", "grantee")
    <3>1. "grantee" \in Accounts
      BY <2>3, WalletAssumption DEF SignWithGrantee, UsesGrantee
    <3>2. x \in Sign
      BY <2>2, <2>3, <3>1, SigningIsTyped DEF SignWithGrantee, SignSteps
    <3>3. Committed("grantee") \in Nat \cup {NoInfo}
      BY <3>1 DEF TypeOK, Committed, NoInfo
    <3>4. [x EXCEPT !.since = Committed("grantee")] \in Sign
      BY <3>2, <3>3 DEF Sign
    <3>5. signing' \subseteq Sign
      BY <2>3, <3>4 DEF SignWithGrantee
    <3> QED  BY <2>2, <2>3, <3>5 DEF TypeOK, nodeVars, besideVars, SignWithGrantee
  <2>4. CASE SignTx
    <3> DEFINE r == Head(signQueue)
    <3>1. r \in Requests
      BY <2>2, <2>4 DEF SignTx
    <3>2. /\ Signing(r, "account", "own") \in Sign
          /\ Signing(r, "height", "own") \in Sign
      BY <3>1, SigningIsTyped, NodeAssumption DEF SignSteps
    <3>3. Committed("own") \in Nat \cup {NoInfo}
      BY NodeAssumption DEF TypeOK, Committed, NoInfo
    <3>4. [Signing(r, "account", "own") EXCEPT
              !.covered = Awaiting, !.since = Committed("own")] \in Sign
      BY <3>2, <3>3, AwaitingIsTyped DEF Sign
    <3>5. signing' \subseteq Sign /\ sequenceInvalidated' \in BOOLEAN
      BY <2>4, <3>2, <3>4 DEF TypeOK, SignTx, BeginReload
    <3>6. disturbed' \subseteq Requests
      BY <2>4, AwaitingIsTyped DEF TypeOK, SignTx
    <3> QED  BY <2>2, <2>4, <3>5, <3>6 DEF TypeOK, nodeVars, SignTx
  <2>5. CASE SignStep
    BY <2>5, SignStepTyping
  <2>6. CASE DispatchTx
    <3>1. Head(dispatchQueue) \in Txs /\ dispatchQueue' \in Seq(Txs)
      BY <2>6, TailIsTyped DEF TypeOK, DispatchTx
    <3>2. dispatching' \subseteq Call
      BY <2>6, <3>1 DEF DispatchTx, Call, CallOutcomes
    <3> QED  BY <2>6, <3>1, <3>2 DEF TypeOK, nodeVars, besideVars, DispatchTx
  <2>7. CASE DispatchStep
    BY <2>7, DispatchStepTyping
  <2>8. CASE MergeStatusChanges
    BY <2>8 DEF TypeOK, nodeVars, besideVars, MergeStatusChanges
  <2>9. CASE GranteeChanges
    BY <2>9 DEF TypeOK, nodeVars, besideVars, GranteeChanges
  <2>10. CASE Chain
    <3>1. TypeOfNode'
      BY <2>10, NodeTyping DEF TypeOK, TypeOfNode, Chain
    <3> QED  BY <2>10, <3>1 DEF TypeOK, TypeOfNode, Chain, walletVars, besideVars
  <2>11. ASSUME NEW k \in Reloads, AskReload(k) PROVE TypeOK'
    <3>1. Committed("own") \in Nat \cup {NoInfo}
      BY NodeAssumption DEF TypeOK, Committed, NoInfo
    <3>2. reloads' \subseteq Reload
      BY <2>11, <3>1, AwaitingIsTyped DEF TypeOK, AskReload, Reload
    <3>3. disturbed' \subseteq Requests
      BY <2>11, AwaitingIsTyped DEF TypeOK, AskReload
    <3> QED  BY <2>11, <3>2, <3>3 DEF TypeOK, nodeVars, AskReload
  <2>12. ASSUME NEW e \in reloads, NEW n \in e.since .. Committed("own"),
                ReloadAnswers(e, n)
         PROVE  TypeOK'
    <3>1. e.since \in Nat \cup {NoInfo}
      BY DEF TypeOK, Reload
    <3>2. Loaded(n) \in Nat \cup {NoInfo}
      BY <3>1, NodeAssumption, AnswersAreTyped
    <3>3. stale' \subseteq Requests
      BY <2>12, HistoryIsTyped DEF ReloadAnswers
    <3> QED  BY <2>12, <3>2, <3>3 DEF TypeOK, nodeVars, ReloadAnswers
  <2>13. ASSUME NEW e \in reloads, ReloadFails(e) PROVE TypeOK'
    BY <2>13, AwaitingIsTyped DEF TypeOK, nodeVars, ReloadFails
  <2>14. CASE TimerMissed
    BY <2>14 DEF TypeOK, nodeVars, TimerMissed
  <2>15. CASE UNCHANGED vars
    BY <2>15 DEF TypeOK, vars, nodeVars, walletVars, besideVars
  <2> QED
    BY <2>1, <2>3, <2>4, <2>5, <2>6, <2>7, <2>8, <2>9, <2>10, <2>11, <2>12,
       <2>13, <2>14, <2>15 DEF Next, ReloadsBeside
<1> QED  BY <1>1, <1>2, PTL DEF Spec

-----------------------------------------------------------------------------
(* The two queues: what appending and taking the head do to membership.     *)

SignDistinct == \A i, j \in DOMAIN signQueue :
                    signQueue[i] = signQueue[j] => i = j

DispatchDistinct == \A i, j \in DOMAIN dispatchQueue :
                        dispatchQueue[i].req = dispatchQueue[j].req => i = j

LEMMA SignQueueGrows ==
    ASSUME TypeOK, SignDistinct, NEW r \in Requests, ~InSignQueue(r),
           signQueue' = Append(signQueue, r)
    PROVE  /\ SignDistinct'
           /\ \A x : InSignQueue(x)' <=> InSignQueue(x) \/ x = r
<1> DEFINE q == signQueue
<1>1. q \in Seq(Requests)
  BY DEF TypeOK
<1>2. /\ DOMAIN q = 1 .. Len(q)
      /\ DOMAIN q' = 1 .. Len(q) + 1
      /\ \A i \in 1 .. Len(q) : q'[i] = q[i]
      /\ q'[Len(q) + 1] = r
  BY <1>1
<1>3. Len(q) \in Nat
  BY <1>1
<1> HIDE DEF q
<1>4. SignDistinct'
  BY <1>2, <1>3 DEF SignDistinct, InSignQueue, q
<1>5. ASSUME NEW x PROVE InSignQueue(x)' <=> InSignQueue(x) \/ x = r
  BY <1>2, <1>3 DEF InSignQueue, q
<1> QED  BY <1>4, <1>5

LEMMA SignQueueShrinks ==
    ASSUME TypeOK, SignDistinct, signQueue # <<>>, signQueue' = Tail(signQueue)
    PROVE  /\ SignDistinct'
           /\ InSignQueue(Head(signQueue))
           /\ \A x : InSignQueue(x)' <=> InSignQueue(x) /\ x # Head(signQueue)
<1> DEFINE q == signQueue
<1>1. q \in Seq(Requests) /\ q # <<>>
  BY DEF TypeOK
<1>2. /\ DOMAIN q = 1 .. Len(q)
      /\ DOMAIN q' = 1 .. Len(q) - 1
      /\ \A i \in 1 .. Len(q) - 1 : q'[i] = q[i + 1]
      /\ Head(q) = q[1]
  BY <1>1
<1>3. Len(q) \in Nat \ {0}
  BY <1>1
<1> HIDE DEF q
<1>4. SignDistinct'
  BY <1>2, <1>3 DEF SignDistinct, q
<1>5. InSignQueue(Head(signQueue))
  BY <1>2, <1>3 DEF InSignQueue, q
<1>6. ASSUME NEW x, InSignQueue(x)'
      PROVE  InSignQueue(x) /\ x # Head(signQueue)
  <2>1. PICK i \in 1 .. Len(q) - 1 : q'[i] = x
    BY <1>2, <1>6 DEF InSignQueue, q
  <2>2. q[i + 1] = x /\ i + 1 \in 1 .. Len(q) /\ i + 1 # 1
    BY <1>2, <1>3, <2>1
  <2> QED  BY <1>2, <1>3, <2>2 DEF SignDistinct, InSignQueue, q
<1>7. ASSUME NEW x, InSignQueue(x), x # Head(signQueue) PROVE InSignQueue(x)'
  <2>1. PICK i \in 1 .. Len(q) : q[i] = x
    BY <1>2, <1>7 DEF InSignQueue, q
  <2>2. i # 1
    BY <1>2, <1>7, <2>1 DEF q
  <2>3. i - 1 \in 1 .. Len(q) - 1 /\ (i - 1) + 1 = i
    BY <1>3, <2>1, <2>2
  <2>4. q'[i - 1] = x
    BY <1>2, <2>1, <2>3
  <2> QED  BY <1>2, <2>3, <2>4 DEF InSignQueue, q
<1> QED  BY <1>4, <1>5, <1>6, <1>7

LEMMA DispatchQueueGrows ==
    ASSUME TypeOK, DispatchDistinct, NEW t \in Txs, ~InDispatchQueue(t.req),
           dispatchQueue' = Append(dispatchQueue, t)
    PROVE  /\ DispatchDistinct'
           /\ \A x : InDispatchQueue(x)' <=> InDispatchQueue(x) \/ x = t.req
<1> DEFINE q == dispatchQueue
<1>1. q \in Seq(Txs)
  BY DEF TypeOK
<1>2. /\ DOMAIN q = 1 .. Len(q)
      /\ DOMAIN q' = 1 .. Len(q) + 1
      /\ \A i \in 1 .. Len(q) : q'[i] = q[i]
      /\ q'[Len(q) + 1] = t
  BY <1>1
<1>3. Len(q) \in Nat
  BY <1>1
<1> HIDE DEF q
<1>4. DispatchDistinct'
  BY <1>2, <1>3 DEF DispatchDistinct, InDispatchQueue, q
<1>5. ASSUME NEW x PROVE InDispatchQueue(x)' <=> InDispatchQueue(x) \/ x = t.req
  BY <1>2, <1>3 DEF InDispatchQueue, q
<1> QED  BY <1>4, <1>5

LEMMA DispatchQueueShrinks ==
    ASSUME TypeOK, DispatchDistinct, dispatchQueue # <<>>,
           dispatchQueue' = Tail(dispatchQueue)
    PROVE  /\ DispatchDistinct'
           /\ InDispatchQueue(Head(dispatchQueue).req)
           /\ \A x : InDispatchQueue(x)' <=>
                        InDispatchQueue(x) /\ x # Head(dispatchQueue).req
<1> DEFINE q == dispatchQueue
<1>1. q \in Seq(Txs) /\ q # <<>>
  BY DEF TypeOK
<1>2. /\ DOMAIN q = 1 .. Len(q)
      /\ DOMAIN q' = 1 .. Len(q) - 1
      /\ \A i \in 1 .. Len(q) - 1 : q'[i] = q[i + 1]
      /\ Head(q) = q[1]
  BY <1>1
<1>3. Len(q) \in Nat \ {0}
  BY <1>1
<1> HIDE DEF q
<1>4. DispatchDistinct'
  BY <1>2, <1>3 DEF DispatchDistinct, q
<1>5. InDispatchQueue(Head(dispatchQueue).req)
  BY <1>2, <1>3 DEF InDispatchQueue, q
<1>6. ASSUME NEW x, InDispatchQueue(x)'
      PROVE  InDispatchQueue(x) /\ x # Head(dispatchQueue).req
  <2>1. PICK i \in 1 .. Len(q) - 1 : q'[i].req = x
    BY <1>2, <1>6 DEF InDispatchQueue, q
  <2>2. q[i + 1].req = x /\ i + 1 \in 1 .. Len(q) /\ i + 1 # 1
    BY <1>2, <1>3, <2>1
  <2> QED  BY <1>2, <1>3, <2>2 DEF DispatchDistinct, InDispatchQueue, q
<1>7. ASSUME NEW x, InDispatchQueue(x), x # Head(dispatchQueue).req
      PROVE  InDispatchQueue(x)'
  <2>1. PICK i \in 1 .. Len(q) : q[i].req = x
    BY <1>2, <1>7 DEF InDispatchQueue, q
  <2>2. i # 1
    BY <1>2, <1>7, <2>1 DEF q
  <2>3. i - 1 \in 1 .. Len(q) - 1 /\ (i - 1) + 1 = i
    BY <1>3, <2>1, <2>2
  <2>4. q'[i - 1].req = x
    BY <1>2, <2>1, <2>3
  <2> QED  BY <1>2, <2>3, <2>4 DEF InDispatchQueue, q
<1> QED  BY <1>4, <1>5, <1>6, <1>7

-----------------------------------------------------------------------------
(* Placement.  A step leaves the places alone or moves one request from one *)
(* place to the next; each lemma below is one kind of move.                 *)

LEMMA OnePlaceParts ==
    OnePlace <=> /\ OneTaskEach /\ SignDistinct /\ DispatchDistinct
                 /\ PlacesDisjoint /\ PendingIsPlaced
  BY DEF OnePlace, QueuedOnce, SignDistinct, DispatchDistinct

\* the task in signTx() or dispatchTx() changes, its request does not
LEMMA PlacesUnchanged ==
    ASSUME OnePlace, UNCHANGED <<signQueue, dispatchQueue, settled>>,
           \/ UNCHANGED signing
           \/ \E s \in signing : \E x : signing' = {x} /\ x.req = s.req,
           \/ UNCHANGED dispatching
           \/ \E c \in dispatching : \E x : dispatching' = {x} /\ x.tx.req = c.tx.req
    PROVE  /\ OnePlace'
           /\ \A r : /\ InSignQueue(r)' <=> InSignQueue(r)
                     /\ InSigning(r)' <=> InSigning(r)
                     /\ InDispatchQueue(r)' <=> InDispatchQueue(r)
                     /\ InDispatching(r)' <=> InDispatching(r)
<1>1. \A r : InSignQueue(r)' <=> InSignQueue(r)
  BY DEF InSignQueue
<1>2. \A r : InDispatchQueue(r)' <=> InDispatchQueue(r)
  BY DEF InDispatchQueue
<1>3. (\A r : InSigning(r)' <=> InSigning(r)) /\ (\A s, t \in signing' : s = t)
  <2>1. CASE UNCHANGED signing
    BY <2>1 DEF InSigning, OnePlace, OneTaskEach
  <2>2. CASE \E s \in signing : \E x : signing' = {x} /\ x.req = s.req
    BY <2>2 DEF InSigning, OnePlace, OneTaskEach
  <2> QED  BY <2>1, <2>2
<1>4. /\ \A r : InDispatching(r)' <=> InDispatching(r)
      /\ \A c, d \in dispatching' : c = d
  <2>1. CASE UNCHANGED dispatching
    BY <2>1 DEF InDispatching, OnePlace, OneTaskEach
  <2>2. CASE \E c \in dispatching : \E x : dispatching' = {x} /\ x.tx.req = c.tx.req
    BY <2>2 DEF InDispatching, OnePlace, OneTaskEach
  <2> QED  BY <2>1, <2>2
<1>5. OneTaskEach' /\ QueuedOnce'
  BY <1>3, <1>4 DEF OnePlace, OneTaskEach, QueuedOnce
<1>6. PlacesDisjoint' /\ PendingIsPlaced'
  BY <1>1, <1>2, <1>3, <1>4 DEF OnePlace, PlacesDisjoint, PendingIsPlaced
<1> QED  BY <1>1, <1>2, <1>3, <1>4, <1>5, <1>6 DEF OnePlace

\* signAndBroadcast(): into the sign queue
LEMMA RequestEnters ==
    ASSUME TypeOK, OnePlace, NEW r \in Requests, SignAndBroadcast(r)
    PROVE  OnePlace'
<1>1. /\ ~InSignQueue(r) /\ ~InSigning(r)
      /\ ~InDispatchQueue(r) /\ ~InDispatching(r)
  BY DEF OnePlace, PendingIsPlaced, SignAndBroadcast
<1>2. SignDistinct' /\ (\A x : InSignQueue(x)' <=> InSignQueue(x) \/ x = r)
  BY <1>1, SignQueueGrows, OnePlaceParts DEF SignAndBroadcast
<1>3. /\ \A x : InSigning(x)' <=> InSigning(x)
      /\ \A x : InDispatchQueue(x)' <=> InDispatchQueue(x)
      /\ \A x : InDispatching(x)' <=> InDispatching(x)
  BY DEF SignAndBroadcast, InSigning, InDispatchQueue, InDispatching
<1>4. OneTaskEach' /\ DispatchDistinct'
  BY OnePlaceParts DEF SignAndBroadcast, OneTaskEach, DispatchDistinct
<1>5. PlacesDisjoint'
  BY <1>1, <1>2, <1>3 DEF OnePlace, PlacesDisjoint
<1>6. \A x \in Requests : settled'[x] = IF x = r THEN "pending" ELSE settled[x]
  BY DEF TypeOK, SignAndBroadcast, Settle
<1>7. PendingIsPlaced'
  BY <1>2, <1>3, <1>6 DEF OnePlace, PendingIsPlaced
<1> QED
  BY <1>2, <1>4, <1>5, <1>7 DEF OnePlace, QueuedOnce, SignDistinct, DispatchDistinct

\* the head of the sign queue goes into signTx()
LEMMA SigningBegins ==
    ASSUME TypeOK, OnePlace, TakeFromSignQueue,
           NEW x, signing' = {x}, x.req = Head(signQueue),
           UNCHANGED <<dispatchQueue, dispatching, settled>>
    PROVE  /\ OnePlace'
           /\ InSignQueue(x.req)
           /\ \A r : /\ InSignQueue(r)' => InSignQueue(r)
                     /\ InSigning(r)' <=> r = x.req
                     /\ InDispatchQueue(r)' <=> InDispatchQueue(r)
                     /\ InDispatching(r)' <=> InDispatching(r)
<1>1. /\ SignDistinct'
      /\ InSignQueue(x.req)
      /\ \A r : InSignQueue(r)' <=> InSignQueue(r) /\ r # x.req
  BY SignQueueShrinks, OnePlaceParts DEF TakeFromSignQueue
<1>2. /\ \A r : InSigning(r)' <=> r = x.req
      /\ \A r : ~InSigning(r)
      /\ \A r : InDispatchQueue(r)' <=> InDispatchQueue(r)
      /\ \A r : InDispatching(r)' <=> InDispatching(r)
  BY DEF TakeFromSignQueue, InSigning, InDispatchQueue, InDispatching
<1>3. OneTaskEach' /\ DispatchDistinct'
  BY OnePlaceParts DEF OneTaskEach, DispatchDistinct
<1>4. x.req \in Requests
  BY TailIsTyped DEF TypeOK, TakeFromSignQueue
<1>5. PlacesDisjoint'
  BY <1>1, <1>2, <1>4 DEF OnePlace, PlacesDisjoint
<1>6. PendingIsPlaced'
  BY <1>1, <1>2, <1>4 DEF OnePlace, PendingIsPlaced
<1> QED
  BY <1>1, <1>2, <1>3, <1>5, <1>6
     DEF OnePlace, QueuedOnce, SignDistinct, DispatchDistinct

\* a signed transaction goes into the dispatch queue
LEMMA SigningEnds ==
    ASSUME TypeOK, OnePlace, NEW s \in signing, Signed(s)
    PROVE  /\ OnePlace'
           /\ \A r : /\ InSignQueue(r)' <=> InSignQueue(r)
                     /\ ~InSigning(r)'
                     /\ InDispatchQueue(r)' <=> InDispatchQueue(r) \/ r = s.req
                     /\ InDispatching(r)' <=> InDispatching(r)
<1>1. s.req \in Requests /\ s \in Sign
  BY DEF TypeOK, Sign
<1>2. SignedTx(s) \in Txs /\ SignedTx(s).req = s.req
  BY <1>1 DEF TypeOK, Sign, SignedTx, Txs
<1>3. \A r : InSigning(r) <=> r = s.req
  BY DEF OnePlace, OneTaskEach, InSigning
<1>4. /\ ~InSignQueue(s.req)
      /\ ~InDispatchQueue(s.req)
      /\ ~InDispatching(s.req)
  BY <1>1, <1>3 DEF OnePlace, PlacesDisjoint
<1>5. /\ DispatchDistinct'
      /\ \A r : InDispatchQueue(r)' <=> InDispatchQueue(r) \/ r = s.req
  BY <1>2, <1>4, DispatchQueueGrows, OnePlaceParts DEF Signed
<1>6. /\ \A r : InSignQueue(r)' <=> InSignQueue(r)
      /\ \A r : ~InSigning(r)'
      /\ \A r : InDispatching(r)' <=> InDispatching(r)
  BY DEF Signed, InSignQueue, InSigning, InDispatching
<1>7. OneTaskEach' /\ SignDistinct' /\ UNCHANGED settled
  BY OnePlaceParts DEF Signed, OneTaskEach, SignDistinct
<1>8. PlacesDisjoint'
  BY <1>3, <1>4, <1>5, <1>6 DEF OnePlace, PlacesDisjoint
<1>9. PendingIsPlaced'
  BY <1>3, <1>5, <1>6, <1>7 DEF OnePlace, PendingIsPlaced
<1> QED
  BY <1>5, <1>6, <1>7, <1>8, <1>9
     DEF OnePlace, QueuedOnce, SignDistinct, DispatchDistinct

\* signTx() rejects
LEMMA SigningRejects ==
    ASSUME TypeOK, OnePlace, NEW s \in signing, signing' = {},
           NEW outcome \in Outcomes, Settle(s.req, outcome),
           UNCHANGED <<signQueue, dispatchQueue, dispatching>>
    PROVE  /\ OnePlace'
           /\ \A r : /\ InSignQueue(r)' <=> InSignQueue(r)
                     /\ ~InSigning(r)'
                     /\ InDispatchQueue(r)' <=> InDispatchQueue(r)
                     /\ InDispatching(r)' <=> InDispatching(r)
<1>1. s.req \in Requests
  BY DEF TypeOK, Sign
<1>2. \A r : InSigning(r) <=> r = s.req
  BY DEF OnePlace, OneTaskEach, InSigning
<1>3. /\ ~InSignQueue(s.req)
      /\ ~InDispatchQueue(s.req)
      /\ ~InDispatching(s.req)
  BY <1>1, <1>2 DEF OnePlace, PlacesDisjoint
<1>4. /\ \A r : InSignQueue(r)' <=> InSignQueue(r)
      /\ \A r : ~InSigning(r)'
      /\ \A r : InDispatchQueue(r)' <=> InDispatchQueue(r)
      /\ \A r : InDispatching(r)' <=> InDispatching(r)
  BY DEF InSignQueue, InSigning, InDispatchQueue, InDispatching
<1>5. OneTaskEach' /\ QueuedOnce'
  BY DEF OnePlace, OneTaskEach, QueuedOnce
<1>6. PlacesDisjoint'
  BY <1>4 DEF OnePlace, PlacesDisjoint
<1>7. /\ outcome # "pending"
      /\ \A r \in Requests : settled'[r] = IF r = s.req THEN outcome ELSE settled[r]
  BY DEF TypeOK, Settle, Outcomes, Refusals
<1>8. PendingIsPlaced'
  BY <1>2, <1>3, <1>4, <1>7 DEF OnePlace, PendingIsPlaced
<1> QED  BY <1>4, <1>5, <1>6, <1>8 DEF OnePlace

\* the head of the dispatch queue goes into dispatchTx()
LEMMA DispatchBegins ==
    ASSUME TypeOK, OnePlace, DispatchTx
    PROVE  /\ OnePlace'
           /\ InDispatchQueue(Head(dispatchQueue).req)
           /\ \A r : /\ InSignQueue(r)' <=> InSignQueue(r)
                     /\ InSigning(r)' <=> InSigning(r)
                     /\ InDispatchQueue(r)' => InDispatchQueue(r)
                     /\ InDispatching(r)' <=> r = Head(dispatchQueue).req
<1> DEFINE n == Head(dispatchQueue).req
<1>1. /\ DispatchDistinct'
      /\ InDispatchQueue(n)
      /\ \A r : InDispatchQueue(r)' <=> InDispatchQueue(r) /\ r # n
  BY DispatchQueueShrinks, OnePlaceParts DEF DispatchTx
<1>2. /\ \A r : InDispatching(r)' <=> r = n
      /\ \A r : ~InDispatching(r)
      /\ \A r : InSignQueue(r)' <=> InSignQueue(r)
      /\ \A r : InSigning(r)' <=> InSigning(r)
  BY DEF DispatchTx, InDispatching, InSignQueue, InSigning
<1>3. OneTaskEach' /\ SignDistinct' /\ UNCHANGED settled
  BY OnePlaceParts DEF DispatchTx, OneTaskEach, SignDistinct
<1>4. n \in Requests
  <2>1. Head(dispatchQueue) \in Txs
    BY TailIsTyped DEF TypeOK, DispatchTx
  <2> QED  BY <2>1 DEF Txs
<1> HIDE DEF n
<1>5. PlacesDisjoint'
  BY <1>1, <1>2, <1>4 DEF OnePlace, PlacesDisjoint
<1>6. PendingIsPlaced'
  BY <1>1, <1>2, <1>3, <1>4 DEF OnePlace, PendingIsPlaced
<1> QED
  BY <1>1, <1>2, <1>3, <1>5, <1>6
     DEF OnePlace, QueuedOnce, SignDistinct, DispatchDistinct, n

\* dispatchTx() sends the request back to the sign queue
LEMMA DispatchRetries ==
    ASSUME TypeOK, OnePlace, NEW c \in dispatching, Retry(c)
    PROVE  /\ OnePlace'
           /\ \A r : /\ InSignQueue(r)' <=> InSignQueue(r) \/ r = c.tx.req
                     /\ InSigning(r)' <=> InSigning(r)
                     /\ InDispatchQueue(r)' <=> InDispatchQueue(r)
                     /\ ~InDispatching(r)'
<1>1. c.tx.req \in Requests
  BY DEF TypeOK, Call, Txs
<1>2. \A r : InDispatching(r) <=> r = c.tx.req
  BY DEF OnePlace, OneTaskEach, InDispatching
<1>3. /\ ~InSignQueue(c.tx.req)
      /\ ~InSigning(c.tx.req)
      /\ ~InDispatchQueue(c.tx.req)
  BY <1>1, <1>2 DEF OnePlace, PlacesDisjoint
<1>4. /\ SignDistinct'
      /\ \A r : InSignQueue(r)' <=> InSignQueue(r) \/ r = c.tx.req
  BY <1>1, <1>3, SignQueueGrows, OnePlaceParts DEF Retry
<1>5. /\ \A r : InSigning(r)' <=> InSigning(r)
      /\ \A r : InDispatchQueue(r)' <=> InDispatchQueue(r)
      /\ \A r : ~InDispatching(r)'
  BY DEF Retry, InSigning, InDispatchQueue, InDispatching
<1>6. OneTaskEach' /\ DispatchDistinct' /\ UNCHANGED settled
  BY OnePlaceParts DEF Retry, OneTaskEach, DispatchDistinct
<1>7. PlacesDisjoint'
  BY <1>3, <1>4, <1>5 DEF OnePlace, PlacesDisjoint
<1>8. PendingIsPlaced'
  BY <1>2, <1>4, <1>5, <1>6 DEF OnePlace, PendingIsPlaced
<1> QED
  BY <1>4, <1>5, <1>6, <1>7, <1>8
     DEF OnePlace, QueuedOnce, SignDistinct, DispatchDistinct

\* dispatchTx() settles the promise
LEMMA DispatchSettles ==
    ASSUME TypeOK, OnePlace, NEW c \in dispatching, SettleCall(c)
    PROVE  /\ OnePlace'
           /\ \A r : /\ InSignQueue(r)' <=> InSignQueue(r)
                     /\ InSigning(r)' <=> InSigning(r)
                     /\ InDispatchQueue(r)' <=> InDispatchQueue(r)
                     /\ ~InDispatching(r)'
           /\ \A r \in Requests :
                 settled'[r] = IF r = c.tx.req THEN Settlement(c.outcome)
                               ELSE settled[r]
<1>1. c.tx.req \in Requests /\ c.outcome \in CallOutcomes
  BY DEF TypeOK, Call, Txs
<1>2. \A r : InDispatching(r) <=> r = c.tx.req
  BY DEF OnePlace, OneTaskEach, InDispatching
<1>3. /\ ~InSignQueue(c.tx.req)
      /\ ~InSigning(c.tx.req)
      /\ ~InDispatchQueue(c.tx.req)
  BY <1>1, <1>2 DEF OnePlace, PlacesDisjoint
<1>4. /\ \A r : InSignQueue(r)' <=> InSignQueue(r)
      /\ \A r : InSigning(r)' <=> InSigning(r)
      /\ \A r : InDispatchQueue(r)' <=> InDispatchQueue(r)
      /\ \A r : ~InDispatching(r)'
  BY DEF SettleCall, InSignQueue, InSigning, InDispatchQueue, InDispatching
<1>5. OneTaskEach' /\ QueuedOnce'
  BY DEF SettleCall, OnePlace, OneTaskEach, QueuedOnce
<1>6. PlacesDisjoint'
  BY <1>4 DEF OnePlace, PlacesDisjoint
<1>7. \A r \in Requests :
          settled'[r] = IF r = c.tx.req THEN Settlement(c.outcome) ELSE settled[r]
  BY DEF TypeOK, SettleCall, Settle
<1>8. Settlement(c.outcome) # "pending"
  BY <1>1 DEF Settlement, CallOutcomes
<1>9. PendingIsPlaced'
  BY <1>2, <1>3, <1>4, <1>7, <1>8 DEF OnePlace, PendingIsPlaced
<1> QED  BY <1>4, <1>5, <1>6, <1>7, <1>9 DEF OnePlace

-----------------------------------------------------------------------------
(* Bodies of transactions.  A request that still waits, is being signed or  *)
(* sent, or was refused has no transaction at the node; any other request   *)
(* has one at most, and that one exists only once.                          *)

CallIsFresh(c) == \/ c.step = "sending"
                  \/ c.step = "done" /\ c.outcome \in {"mismatch", "checkTx"}

Fresh(r) == \/ settled[r] \in Refusals \cup {"new"}
            \/ InSignQueue(r)
            \/ InSigning(r)
            \/ InDispatchQueue(r)
            \/ \E c \in dispatching : c.tx.req = r /\ CallIsFresh(c)

Unsent == \A r \in Requests : Fresh(r) => \A t \in Bodies : t.req # r

OneBody == \A t, u \in Bodies : t.req = u.req => t = u

OneCopy == /\ mempool \cap late = {}
           /\ mempool \cap included = {}
           /\ late \cap included = {}

Sent == Unsent /\ OneBody /\ OneCopy

\* nothing new at the node, and no request becomes fresh
LEMMA SentUnchanged ==
    ASSUME Sent, UNCHANGED nodeVars, \A r \in Requests : Fresh(r)' => Fresh(r)
    PROVE  Sent'
<1>1. UNCHANGED Bodies /\ OneCopy'
  BY DEF nodeVars, Bodies, Sent, OneCopy
<1>2. OneBody'
  BY <1>1 DEF Sent, OneBody
<1>3. Unsent'
  BY <1>1 DEF Sent, Unsent
<1> QED  BY <1>1, <1>2, <1>3 DEF Sent

\* the node moves or drops transactions
LEMMA NodeKeepsSent ==
    ASSUME Sent, Chain
    PROVE  Sent'
<1>1. Bodies' \subseteq Bodies /\ OneCopy'
  <2>1. ASSUME NEW t \in mempool, Deliver(t) \/ Evict(t)
        PROVE  Bodies' \subseteq Bodies /\ OneCopy'
    BY <2>1 DEF Bodies, Sent, OneCopy, Deliver, Evict
  <2>2. ASSUME NEW t \in late, Arrive(t)
        PROVE  Bodies' \subseteq Bodies /\ OneCopy'
    BY <2>2 DEF Bodies, Sent, OneCopy, Arrive
  <2>3. CASE NodeRestarts
    BY <2>3 DEF Bodies, Sent, OneCopy, NodeRestarts
  <2>4. ASSUME NEW a \in Shared, Foreign(a)
        PROVE  Bodies' \subseteq Bodies /\ OneCopy'
    BY <2>4 DEF Bodies, Sent, OneCopy, Foreign
  <2>5. CASE Fund \/ NewBlock
    BY <2>5 DEF Bodies, Sent, OneCopy, Fund, NewBlock
  <2> QED  BY <2>1, <2>2, <2>3, <2>4, <2>5 DEF Chain, NodeNext
<1>2. OneBody'
  BY <1>1 DEF Sent, OneBody
<1>3. \A r \in Requests : Fresh(r)' <=> Fresh(r)
  BY DEF Chain, walletVars, Fresh, InSignQueue, InSigning, InDispatchQueue,
         CallIsFresh
<1>4. Unsent'
  BY <1>1, <1>3 DEF Sent, Unsent
<1> QED  BY <1>1, <1>2, <1>4 DEF Sent

\* while a request is in dispatchTx() it is nowhere else
LEMMA CallIsAlone ==
    ASSUME TypeOK, OnePlace, NEW c \in dispatching
    PROVE  /\ c.tx.req \in Requests
           /\ settled[c.tx.req] = "pending"
           /\ ~InSignQueue(c.tx.req)
           /\ ~InSigning(c.tx.req)
           /\ ~InDispatchQueue(c.tx.req)
<1>1. c.tx.req \in Requests
  BY DEF TypeOK, Call, Txs
<1>2. InDispatching(c.tx.req)
  BY DEF InDispatching
<1> QED  BY <1>1, <1>2 DEF OnePlace, PlacesDisjoint, PendingIsPlaced

\* a broadcast call that hands the transaction over
LEMMA SendKeepsSent ==
    ASSUME TypeOK, OnePlace, Sent, NEW c \in dispatching, c.step = "sending",
           NEW d, dispatching' = {d}, d.tx = c.tx, ~CallIsFresh(d),
           DuringCall,
           \/ mempool' = mempool \cup {c.tx} /\ UNCHANGED late
           \/ late' = late \cup {c.tx} /\ UNCHANGED mempool
    PROVE  Sent'
<1>1. \A t \in Bodies : t.req # c.tx.req
  BY CallIsAlone DEF Sent, Unsent, Fresh, CallIsFresh
<1>2. Bodies' = Bodies \cup {c.tx} /\ c.tx \notin Bodies /\ OneCopy'
  BY <1>1 DEF DuringCall, Bodies, Sent, OneCopy
<1>3. OneBody'
  BY <1>1, <1>2 DEF Sent, OneBody
<1>4. ASSUME NEW r \in Requests, Fresh(r)' PROVE Fresh(r) /\ r # c.tx.req
  <2>1. ~\E e \in dispatching' : CallIsFresh(e)
    BY DEF CallIsFresh
  <2>2. /\ \/ settled[r] \in Refusals \cup {"new"}
           \/ InSignQueue(r)
           \/ InSigning(r)
           \/ InDispatchQueue(r)
    BY <1>4, <2>1
       DEF Fresh, DuringCall, InSignQueue, InSigning, InDispatchQueue,
           CallIsFresh
  <2> QED  BY <2>2, CallIsAlone DEF Fresh, Refusals
<1>5. Unsent'
  BY <1>2, <1>4 DEF Sent, Unsent
<1> QED  BY <1>2, <1>3, <1>5 DEF Sent

-----------------------------------------------------------------------------
(* The steps of dispatchTx().                                               *)

\* an answer that says nothing of the request's fate, or a poll in which the
\* transaction stays where it is
LEMMA AnswerKeepsSent ==
    ASSUME TypeOK, OnePlace, Sent, NEW c \in dispatching,
           NEW d, dispatching' = {d}, d.tx = c.tx,
           CallIsFresh(d) => CallIsFresh(c),
           DuringCall, UNCHANGED <<mempool, late>>
    PROVE  Sent'
<1>1. ASSUME NEW r \in Requests, Fresh(r)' PROVE Fresh(r)
  <2>1. CASE \E e \in dispatching' : e.tx.req = r /\ CallIsFresh(e)
    BY <2>1 DEF Fresh
  <2>2. CASE ~\E e \in dispatching' : e.tx.req = r /\ CallIsFresh(e)
    BY <1>1, <2>2
       DEF Fresh, DuringCall, InSignQueue, InSigning, InDispatchQueue,
           CallIsFresh
  <2> QED  BY <2>1, <2>2
<1>2. UNCHANGED nodeVars
  BY DEF DuringCall, nodeVars
<1> QED  BY <1>1, <1>2, SentUnchanged

\* the block that reports the mismatch held the request's only transaction
LEMMA PollMismatchKeepsSent ==
    ASSUME TypeOK, OnePlace, Sent, NEW c \in dispatching, PollFindsMismatch(c)
    PROVE  Sent'
<1>1. /\ c.tx \in mempool
      /\ mempool' = mempool \ {c.tx}
      /\ UNCHANGED <<late, included>>
  BY DEF PollFindsMismatch, DuringCall
<1>2. Bodies' = Bodies \ {c.tx} /\ c.tx \in Bodies /\ OneCopy'
  BY <1>1 DEF Bodies, Sent, OneCopy
<1>3. OneBody' /\ \A t \in Bodies' : t.req # c.tx.req
  BY <1>2 DEF Sent, OneBody
<1>4. ASSUME NEW r \in Requests, Fresh(r)', r # c.tx.req PROVE Fresh(r)
  <2>1. ~\E e \in dispatching' : e.tx.req = r
    BY <1>4 DEF PollFindsMismatch, Answer, TypeOK, Call
  <2> QED
    BY <1>4, <2>1
       DEF PollFindsMismatch, Fresh, DuringCall, InSignQueue, InSigning,
           InDispatchQueue, CallIsFresh
<1>5. Unsent'
  BY <1>2, <1>3, <1>4 DEF Sent, Unsent
<1> QED  BY <1>2, <1>3, <1>5 DEF Sent

LEMMA CallStepSafety ==
    ASSUME TypeOK, OnePlace, Sent, NEW c \in dispatching,
           \/ AcceptedAsync(c) \/ CheckTxPasses(c) \/ CheckTxFails(c)
           \/ ConnectionFails(c) \/ PollFinds(c) \/ PollFindsMismatch(c)
           \/ PollTimesOut(c)
    PROVE  OnePlace' /\ Sent'
<1> DEFINE Done(o) == [c EXCEPT !.step = "done", !.outcome = o]
           Polls   == [c EXCEPT !.step = "polling"]
<1>1. /\ \A o : Done(o).tx = c.tx /\ Done(o).step = "done" /\ Done(o).outcome = o
      /\ Polls.tx = c.tx /\ Polls.step = "polling"
  BY DEF TypeOK, Call
<1> HIDE DEF Done, Polls
<1>2. CASE AcceptedAsync(c)
  <2>1. dispatching' = {Done("ok")} /\ ~CallIsFresh(Done("ok"))
    BY <1>1, <1>2 DEF AcceptedAsync, Answer, Done, CallIsFresh
  <2>2. Sent'
    BY <1>1, <1>2, <2>1, SendKeepsSent DEF AcceptedAsync
  <2>3. OnePlace'
    BY <1>1, <1>2, <2>1, PlacesUnchanged DEF AcceptedAsync, DuringCall
  <2> QED  BY <2>2, <2>3
<1>3. CASE CheckTxPasses(c)
  <2>1. PICK d \in {Done("ok"), Polls} : dispatching' = {d}
    BY <1>3 DEF CheckTxPasses, Answer, Done, Polls
  <2>2. d.tx = c.tx /\ ~CallIsFresh(d)
    BY <1>1, <2>1 DEF CallIsFresh
  <2>3. /\ c.step = "sending"
        /\ mempool' = mempool \cup {c.tx}
        /\ DuringCall /\ UNCHANGED late
    BY <1>3 DEF CheckTxPasses
  <2>4. Sent'
    BY <2>1, <2>2, <2>3, SendKeepsSent
  <2>5. OnePlace'
    <3>1. UNCHANGED <<signQueue, dispatchQueue, settled, signing>>
      BY <2>3 DEF DuringCall
    <3> QED  BY <2>1, <2>2, <3>1, PlacesUnchanged
  <2> QED  BY <2>4, <2>5
<1>4. CASE CheckTxFails(c)
  <2>1. PICK d \in {Done("mismatch"), Done("checkTx")} : dispatching' = {d}
    BY <1>4 DEF CheckTxFails, Answer, Done
  <2>2. d.tx = c.tx /\ CallIsFresh(c)
    BY <1>1, <1>4, <2>1 DEF CheckTxFails, CallIsFresh
  <2>3. Sent'
    BY <1>4, <2>1, <2>2, AnswerKeepsSent DEF CheckTxFails
  <2>4. OnePlace'
    BY <1>4, <2>1, <2>2, PlacesUnchanged DEF CheckTxFails, DuringCall
  <2> QED  BY <2>3, <2>4
<1>5. CASE ConnectionFails(c)
  <2>1. dispatching' = {Done("network")} /\ ~CallIsFresh(Done("network"))
    BY <1>1, <1>5 DEF ConnectionFails, Answer, Done, CallIsFresh
  <2>2. ASSUME UNCHANGED late PROVE Sent'
    BY <1>1, <1>5, <2>1, <2>2, AnswerKeepsSent DEF ConnectionFails
  <2>3. ASSUME late' = late \cup {c.tx} PROVE Sent'
    BY <1>1, <1>5, <2>1, <2>3, SendKeepsSent DEF ConnectionFails
  <2>4. OnePlace'
    BY <1>1, <1>5, <2>1, PlacesUnchanged DEF ConnectionFails, DuringCall
  <2> QED  BY <1>5, <2>2, <2>3, <2>4 DEF ConnectionFails
<1>6. CASE PollFinds(c) \/ PollTimesOut(c)
  <2>1. PICK o \in {"ok", "blockFail", "timeout", "network"} :
            dispatching' = {Done(o)}
    BY <1>6 DEF PollFinds, PollTimesOut, Answer, Done
  <2>2. Done(o).tx = c.tx /\ ~CallIsFresh(Done(o))
    BY <1>1, <2>1 DEF CallIsFresh
  <2>3. Sent'
    BY <1>6, <2>1, <2>2, AnswerKeepsSent DEF PollFinds, PollTimesOut
  <2>4. OnePlace'
    BY <1>6, <2>1, <2>2, PlacesUnchanged DEF PollFinds, PollTimesOut, DuringCall
  <2> QED  BY <2>3, <2>4
<1>7. CASE PollFindsMismatch(c)
  <2>1. dispatching' = {Done("mismatch")}
    BY <1>7 DEF PollFindsMismatch, Answer, Done
  <2>2. OnePlace'
    BY <1>1, <1>7, <2>1, PlacesUnchanged DEF PollFindsMismatch, DuringCall
  <2> QED  BY <1>7, <2>2, PollMismatchKeepsSent
<1> QED  BY <1>2, <1>3, <1>4, <1>5, <1>6, <1>7

LEMMA DispatchStepSafety ==
    ASSUME TypeOK, OnePlace, Sent, DispatchStep
    PROVE  OnePlace' /\ Sent'
<1>1. PICK c \in dispatching :
          \/ \/ AcceptedAsync(c) \/ CheckTxPasses(c) \/ CheckTxFails(c)
             \/ ConnectionFails(c) \/ PollFinds(c) \/ PollFindsMismatch(c)
             \/ PollTimesOut(c)
          \/ Retry(c)
          \/ SettleCall(c)
  BY DEF DispatchStep
<1>2. ASSUME NEW r, ~InDispatching(r)'
      PROVE  ~\E e \in dispatching' : e.tx.req = r /\ CallIsFresh(e)'
  BY <1>2 DEF InDispatching
<1>3. CASE Retry(c)
  <2>1. CallIsFresh(c)
    BY <1>3 DEF Retry, Retryable, CallIsFresh
  <2>2. ASSUME NEW r \in Requests, Fresh(r)' PROVE Fresh(r)
    BY <1>2, <1>3, <2>1, <2>2, DispatchRetries DEF Fresh, Retry
  <2> QED  BY <1>3, <2>2, DispatchRetries, SentUnchanged DEF Retry
<1>4. CASE SettleCall(c)
  <2>1. c.outcome \in CallOutcomes /\ c.step = "done"
    BY <1>4 DEF TypeOK, Call, SettleCall
  <2>2. ASSUME Settlement(c.outcome) \in Refusals \cup {"new"}
        PROVE  CallIsFresh(c)
    BY <2>1, <2>2 DEF Settlement, CallOutcomes, Refusals, CallIsFresh
  <2>3. ASSUME NEW r \in Requests, Fresh(r)' PROVE Fresh(r)
    BY <1>2, <1>4, <2>2, <2>3, DispatchSettles DEF Fresh, Refusals
  <2> QED  BY <1>4, <2>3, DispatchSettles, SentUnchanged DEF SettleCall
<1> QED  BY <1>1, <1>3, <1>4, CallStepSafety

-----------------------------------------------------------------------------
(* The steps of signTx().                                                   *)

\* signTx() goes on to its next await
GoesOn(s) ==
    \/ \E n \in s.since .. Committed(s.acct) : ReloadReturns(s, n)
                                             \/ GranteeAccountReturns(s, n)
    \/ \E limit \in Limits : HeightReturns(s, limit)
                             \/ GranteeHeightReturns(s, limit)

LEMMA SigningGoesOn ==
    ASSUME TypeOK, NEW s \in signing, GoesOn(s)
    PROVE  /\ UNCHANGED <<nodeVars, signQueue, dispatchQueue, dispatching,
                          settled, reattempts, sequenceInvalidated, besideVars>>
           /\ s.step \in {"account", "granteeAccount", "height"}
           /\ \E x : /\ signing' = {x} /\ x.req = s.req /\ x.acct = s.acct
                    /\ x.step = IF s.step = "height" THEN "signature" ELSE "height"
<1>1. s \in Sign
  BY DEF TypeOK
<1>2. ASSUME NEW n, ReloadReturns(s, n)
      PROVE  \E x : /\ signing' = {x} /\ x.req = s.req /\ x.acct = s.acct
                   /\ x.step = "height" /\ s.step = "account"
  <2> DEFINE x == [s EXCEPT !.step = "height", !.covered = {}, !.since = NoInfo]
  <2>1. signing' = {x} /\ s.step = "account"
    BY <1>2 DEF ReloadReturns
  <2>2. x.req = s.req /\ x.acct = s.acct /\ x.step = "height"
    BY <1>1 DEF Sign
  <2> HIDE DEF x
  <2> QED  BY <2>1, <2>2
<1>3. ASSUME NEW n, GranteeAccountReturns(s, n)
      PROVE  \E x : /\ signing' = {x} /\ x.req = s.req /\ x.acct = s.acct
                   /\ x.step = "height" /\ s.step = "granteeAccount"
  <2> DEFINE x == [s EXCEPT !.step = "height", !.seq = n, !.since = NoInfo]
  <2>1. signing' = {x} /\ s.step = "granteeAccount"
    BY <1>3 DEF GranteeAccountReturns
  <2>2. x.req = s.req /\ x.acct = s.acct /\ x.step = "height"
    BY <1>1 DEF Sign
  <2> HIDE DEF x
  <2> QED  BY <2>1, <2>2
<1>4. ASSUME NEW limit, HeightReturns(s, limit) \/ GranteeHeightReturns(s, limit)
      PROVE  \E x : /\ signing' = {x} /\ x.req = s.req /\ x.acct = s.acct
                   /\ x.step = "signature" /\ s.step = "height"
  <2> DEFINE x == [s EXCEPT !.step = "signature", !.seq = NextSequence,
                            !.ttl = Explicit(s.req, limit)]
             y == [s EXCEPT !.step = "signature",
                            !.ttl = Explicit(s.req, NoTtl)]
  <2>1. signing' \in {{x}, {y}} /\ s.step = "height"
    BY <1>4 DEF HeightReturns, GranteeHeightReturns
  <2>2. /\ x.req = s.req /\ x.acct = s.acct /\ x.step = "signature"
        /\ y.req = s.req /\ y.acct = s.acct /\ y.step = "signature"
    BY <1>1 DEF Sign
  <2> HIDE DEF x, y
  <2> QED  BY <2>1, <2>2
<1>5. UNCHANGED <<nodeVars, signQueue, dispatchQueue, dispatching, settled,
                  reattempts, sequenceInvalidated, besideVars>>
  BY DEF GoesOn, ReloadReturns, GranteeAccountReturns, HeightReturns,
         GranteeHeightReturns
<1> QED  BY <1>2, <1>3, <1>4, <1>5 DEF GoesOn

LEMMA SignStepSafety ==
    ASSUME TypeOK, OnePlace, Sent, SignStep
    PROVE  OnePlace' /\ Sent'
<1>1. PICK s \in signing :
          \/ GoesOn(s)
          \/ QueryFails(s) \/ SignFails(s) \/ WalletIncompatible(s)
          \/ Signed(s)
  BY DEF SignStep, GoesOn
<1>2. s.req \in Requests /\ s \in Sign /\ InSigning(s.req)
  BY DEF TypeOK, Sign, InSigning
<1>3. CASE GoesOn(s)
  <2>1. UNCHANGED <<nodeVars, signQueue, dispatchQueue, dispatching, settled>>
    BY <1>3, SigningGoesOn
  <2>2. \E x : signing' = {x} /\ x.req = s.req
    BY <1>3, SigningGoesOn
  <2>3. /\ OnePlace'
        /\ \A r : /\ InSignQueue(r)' <=> InSignQueue(r)
                  /\ InSigning(r)' <=> InSigning(r)
                  /\ InDispatchQueue(r)' <=> InDispatchQueue(r)
    BY <2>1, <2>2, PlacesUnchanged
  <2>4. \A r \in Requests : Fresh(r)' => Fresh(r)
    BY <2>1, <2>3 DEF Fresh, CallIsFresh
  <2> QED  BY <2>1, <2>3, <2>4, SentUnchanged
<1>4. CASE QueryFails(s) \/ SignFails(s) \/ WalletIncompatible(s)
  <2>1. /\ UNCHANGED <<nodeVars, signQueue, dispatchQueue, dispatching>>
        /\ signing' = {}
        /\ \E outcome \in Refusals : Settle(s.req, outcome)
    BY <1>4 DEF QueryFails, SignFails, WalletIncompatible, Refusals
  <2>2. /\ OnePlace'
        /\ \A r : /\ InSignQueue(r)' <=> InSignQueue(r)
                  /\ ~InSigning(r)'
                  /\ InDispatchQueue(r)' <=> InDispatchQueue(r)
    BY <2>1, SigningRejects DEF Outcomes
  <2>3. \A r \in Requests : r = s.req \/ settled'[r] = settled[r]
    BY <2>1 DEF TypeOK, Settle
  <2>4. \A r \in Requests : Fresh(r)' => Fresh(r)
    BY <1>2, <2>1, <2>2, <2>3 DEF Fresh, CallIsFresh
  <2> QED  BY <2>1, <2>2, <2>4, SentUnchanged
<1>5. CASE Signed(s)
  <2>1. UNCHANGED <<nodeVars, dispatching, settled>>
    BY <1>5 DEF Signed
  <2>2. \A r \in Requests : Fresh(r)' => Fresh(r)
    BY <1>2, <1>5, <2>1, SigningEnds DEF Fresh, CallIsFresh
  <2> QED  BY <1>5, <2>1, <2>2, SigningEnds, SentUnchanged
<1> QED  BY <1>1, <1>3, <1>4, <1>5

-----------------------------------------------------------------------------
(* The invariant: Typing gives TypeOK; OnePlace /\ Sent is inductive with it. *)

LEMMA InitSafety == Init => OnePlace /\ Sent
<1> SUFFICES ASSUME Init PROVE OnePlace /\ Sent
  OBVIOUS
<1>1. /\ signQueue = <<>> /\ signing = {}
      /\ dispatchQueue = <<>> /\ dispatching = {}
      /\ settled = [r \in Requests |-> "new"]
      /\ Bodies = {} /\ mempool = {} /\ late = {} /\ included = {}
  BY DEF Init, NodeInit, Bodies
<1>2. DOMAIN signQueue = {} /\ DOMAIN dispatchQueue = {}
  BY <1>1
<1>3. OnePlace
  BY <1>1, <1>2
     DEF OnePlace, OneTaskEach, QueuedOnce, PlacesDisjoint, PendingIsPlaced,
         InSignQueue, InSigning, InDispatchQueue, InDispatching
<1>4. Sent
  BY <1>1 DEF Sent, Unsent, OneBody, OneCopy
<1> QED  BY <1>3, <1>4

LEMMA NextSafety ==
    ASSUME TypeOK, OnePlace, Sent, [Next]_vars
    PROVE  OnePlace' /\ Sent'
<1>1. ASSUME NEW r \in Requests, SignAndBroadcast(r) PROVE OnePlace' /\ Sent'
  <2>1. OnePlace'
    BY <1>1, RequestEnters
  <2>2. ASSUME NEW x \in Requests, Fresh(x)' PROVE Fresh(x)
    <3>1. CASE x = r
      BY <1>1, <3>1 DEF Fresh, SignAndBroadcast
    <3>2. CASE x # r
      <4>1. settled'[x] = settled[x]
        BY <1>1, <3>2 DEF TypeOK, SignAndBroadcast, Settle
      <4>2. InSignQueue(x)' => InSignQueue(x)
        BY <1>1, <3>2 DEF TypeOK, SignAndBroadcast, InSignQueue
      <4> QED
        BY <1>1, <2>2, <4>1, <4>2
           DEF Fresh, SignAndBroadcast, InSigning, InDispatchQueue, CallIsFresh
    <3> QED  BY <3>1, <3>2
  <2>3. UNCHANGED nodeVars
    BY <1>1 DEF SignAndBroadcast
  <2> QED  BY <2>1, <2>2, <2>3, SentUnchanged
<1>2. CASE SignWithGrantee \/ SignTx
  <2>1. /\ TakeFromSignQueue
        /\ UNCHANGED <<nodeVars, dispatchQueue, dispatching, settled>>
        /\ \E x : signing' = {x} /\ x.req = Head(signQueue)
    <3> DEFINE r == Head(signQueue)
    <3>1. CASE SignWithGrantee
      <4> DEFINE x == [Signing(r, "granteeAccount", "grantee")
                         EXCEPT !.since = Committed("grantee")]
      <4>1. signing' = {x}
        BY <3>1 DEF SignWithGrantee
      <4>2. x.req = r
        BY DEF Signing
      <4> HIDE DEF x
      <4> QED  BY <3>1, <4>1, <4>2 DEF SignWithGrantee
    <3>2. CASE SignTx /\ NeedsReload
      <4> DEFINE x == [Signing(r, "account", "own") EXCEPT
                          !.covered = Awaiting, !.since = Committed("own")]
      <4>1. signing' = {x}
        BY <3>2 DEF SignTx, BeginReload
      <4>2. x.req = r
        BY DEF Signing
      <4> HIDE DEF x
      <4> QED  BY <3>2, <4>1, <4>2 DEF SignTx, BeginReload
    <3>3. CASE SignTx /\ ~NeedsReload
      <4>1. Signing(r, "height", "own").req = r
        BY DEF Signing
      <4> QED  BY <3>3, <4>1 DEF SignTx
    <3> QED  BY <1>2, <3>1, <3>2, <3>3
  <2>2. /\ OnePlace'
        /\ InSignQueue(Head(signQueue))
        /\ \A r : /\ InSignQueue(r)' => InSignQueue(r)
                  /\ InSigning(r)' <=> r = Head(signQueue)
                  /\ InDispatchQueue(r)' <=> InDispatchQueue(r)
    BY <2>1, SigningBegins
  <2>3. \A r \in Requests : Fresh(r)' => Fresh(r)
    BY <2>1, <2>2 DEF Fresh, CallIsFresh
  <2> QED  BY <2>1, <2>2, <2>3, SentUnchanged
<1>3. CASE SignStep
  BY <1>3, SignStepSafety
<1>4. CASE DispatchTx
  <2>1. UNCHANGED nodeVars /\ UNCHANGED settled
    BY <1>4 DEF DispatchTx
  <2>2. ASSUME NEW r \in Requests, Fresh(r)' PROVE Fresh(r)
    <3>1. CASE \E c \in dispatching' : c.tx.req = r
      <4>1. InDispatching(r)'
        BY <3>1 DEF InDispatching
      <4> QED  BY <1>4, <4>1, DispatchBegins DEF Fresh
    <3>2. CASE ~\E c \in dispatching' : c.tx.req = r
      BY <1>4, <2>1, <2>2, <3>2, DispatchBegins DEF Fresh
    <3> QED  BY <3>1, <3>2
  <2> QED  BY <1>4, <2>1, <2>2, DispatchBegins, SentUnchanged
<1>5. CASE DispatchStep
  BY <1>5, DispatchStepSafety
<1>6. CASE MergeStatusChanges \/ GranteeChanges \/ ReloadsBeside \/ TimerMissed
           \/ UNCHANGED vars
  <2>1. UNCHANGED <<nodeVars, signQueue, signing, dispatchQueue, dispatching,
                    settled>>
    BY <1>6 DEF MergeStatusChanges, GranteeChanges, ReloadsBeside, AskReload,
                ReloadAnswers, ReloadFails, TimerMissed, vars, walletVars
  <2>2. OnePlace'
    BY <2>1, PlacesUnchanged
  <2>3. \A r \in Requests : Fresh(r)' => Fresh(r)
    BY <2>1 DEF Fresh, InSignQueue, InSigning, InDispatchQueue, CallIsFresh
  <2> QED  BY <2>1, <2>2, <2>3, SentUnchanged
<1>7. CASE Chain
  <2>1. OnePlace'
    BY <1>7, PlacesUnchanged DEF Chain, walletVars
  <2> QED  BY <1>7, <2>1, NodeKeepsSent
<1> QED  BY <1>1, <1>2, <1>3, <1>4, <1>5, <1>6, <1>7 DEF Next

\* every reachable state satisfies the invariant
THEOREM SafetyInvariance == Spec => [](OnePlace /\ Sent)
<1>1. Init => OnePlace /\ Sent
  BY InitSafety
<1>2. TypeOK /\ OnePlace /\ Sent /\ [Next]_vars => (OnePlace /\ Sent)'
  BY NextSafety
<1> QED  BY <1>1, <1>2, Typing, PTL DEF Spec

\* No promise of signAndBroadcast() is lost or settled twice: a pending
\* request is in exactly one of the sign queue, signTx(), the dispatch queue
\* and dispatchTx(), also after a retry has sent it back.
THEOREM OnePlaceHolds == Spec => []OnePlace
<1> QED  BY SafetyInvariance, PTL

\* dispatchTx() broadcasts a request again only when the node refused its
\* first transaction for good: a request executes at most once.
THEOREM AtMostOnceHolds == Spec => []AtMostOnce
<1>1. Sent => AtMostOnce
  BY DEF Sent, OneBody, Bodies, AtMostOnce
<1> QED  BY <1>1, SafetyInvariance, PTL

\* A promise that signTx() or dispatchTx() rejects for the nonce, the
\* signature, the account query or CheckTx leaves nothing behind that could
\* still execute.
THEOREM RefusalIsFinalHolds == Spec => []RefusalIsFinal
<1>1. Sent => RefusalIsFinal
  BY DEF Sent, Unsent, Fresh, RefusalIsFinal
<1> QED  BY <1>1, SafetyInvariance, PTL

-----------------------------------------------------------------------------
(* A retry is signed with an account that was loaded after the failure.     *)
(* While a retried request waits, either the sequence is invalidated or     *)
(* every reload under way was asked for after the failure, and one is under *)
(* way if none was answered yet.                                            *)

Inner == {s \in signing : s.step = "account"}

\* r, which no reload has left behind, waits for its second sequence
Served(r) == \/ sequenceInvalidated
             \/ /\ \A e \in reloads : r \in e.covered
                /\ \A s \in Inner : r \in s.covered
                /\ r \in stale => reloads # {} \/ Inner # {}

WaitingIsServed == \A r \in Awaiting : r \notin disturbed => Served(r)

\* the reload of a retry inside signTx() meets no other
LoadingIsAlone == \A s \in Inner :
    reattempts[s.req] = 1 /\ s.req \notin disturbed
        => reloads = {} /\ s.req \in s.covered

LoadedIsFresh == \A s \in signing :
    s.step = "height" /\ s.acct = "own" /\ s.req \notin disturbed
        => /\ s.req \notin stale
           /\ reattempts[s.req] = 1 => \A e \in reloads : s.req \in e.covered

PastReload(s) == \/ s.step = "signature"
                 \/ s.step = "height" /\ s.acct # "own"

SignedIsFresh == \A s \in signing :
    PastReload(s) /\ s.req \notin disturbed => s.req \notin stale

\* who asks for which account; who was tried
RightAccount == \A s \in signing : /\ s.step = "account" => s.acct = "own"
                                   /\ s.step = "granteeAccount" => s.acct # "own"

Tried == /\ \A r \in stale : reattempts[r] = 1
         /\ \A r \in Requests : settled[r] = "new" => reattempts[r] = 0

StaleInv == /\ WaitingIsServed
            /\ LoadingIsAlone
            /\ LoadedIsFresh
            /\ SignedIsFresh
            /\ RightAccount
            /\ Tried

\* a request inside signTx() waits for its sequence only there
LEMMA AwaitingInside ==
    ASSUME TypeOK, OnePlace, NEW s \in signing
    PROVE  s.req \in Awaiting <=> /\ reattempts[s.req] = 1
                                  /\ s.acct = "own"
                                  /\ s.step \in {"account", "height"}
<1>1. s.req \in Requests /\ ~InSignQueue(s.req)
  BY DEF TypeOK, Sign, OnePlace, PlacesDisjoint, InSigning
<1>2. \A t \in signing : t = s
  BY DEF OnePlace, OneTaskEach
<1> QED  BY <1>1, <1>2 DEF Awaiting

\* nothing but the flag, the reloads and the history changes
LEMMA AwaitingSame ==
    ASSUME UNCHANGED <<signQueue, signing, reattempts>>
    PROVE  Awaiting' = Awaiting /\ Inner' = Inner
  BY DEF Awaiting, InSignQueue, Inner

LEMMA UntouchedKeepsStale ==
    ASSUME StaleInv, sequenceInvalidated => sequenceInvalidated',
           UNCHANGED <<signQueue, signing, reattempts, reloads, stale, disturbed>>,
           \A r \in Requests : settled'[r] = "new" => settled[r] = "new"
    PROVE  StaleInv'
  BY AwaitingSame DEF StaleInv, WaitingIsServed, Served, LoadingIsAlone,
     LoadedIsFresh, SignedIsFresh, PastReload, RightAccount, Tried

\* requests settle, none becomes new again
LEMMA NoneIsNew ==
    ASSUME TypeOK, NEW r, NEW outcome, outcome # "new", Settle(r, outcome)
    PROVE  \A q \in Requests : settled'[q] = "new" => settled[q] = "new"
  BY DEF TypeOK, Settle

LEMMA EnterKeepsStale ==
    ASSUME TypeOK, StaleInv, NEW r \in Requests, SignAndBroadcast(r)
    PROVE  StaleInv'
<1>1. /\ UNCHANGED <<signing, reattempts, reloads, stale, disturbed,
                     sequenceInvalidated>>
      /\ reattempts[r] = 0
  BY DEF SignAndBroadcast, besideVars, StaleInv, Tried
<1>2. \A x : InSignQueue(x)' => InSignQueue(x) \/ x = r
  BY DEF TypeOK, SignAndBroadcast, InSignQueue
<1>3. Awaiting' \subseteq Awaiting /\ Inner' = Inner
  BY <1>1, <1>2 DEF Awaiting, Inner
<1>4. Tried'
  BY <1>1, NoneIsNew DEF StaleInv, Tried, SignAndBroadcast
<1> QED
  BY <1>1, <1>3, <1>4
     DEF StaleInv, WaitingIsServed, Served, LoadingIsAlone, LoadedIsFresh,
         SignedIsFresh, PastReload, RightAccount

LEMMA SignTxKeepsStale ==
    ASSUME TypeOK, OnePlace, StaleInv, SignTx \/ SignWithGrantee
    PROVE  StaleInv'
<1> DEFINE r == Head(signQueue)
<1>1. /\ signing = {} /\ Inner = {}
      /\ UNCHANGED <<settled, stale, reattempts, reloads>>
      /\ r \in Requests /\ InSignQueue(r)
      /\ \A x : InSignQueue(x)' <=> InSignQueue(x) /\ x # r
  BY TailIsTyped, SignQueueShrinks, OnePlaceParts
     DEF SignTx, SignWithGrantee, TakeFromSignQueue, Inner, besideVars, TypeOK
<1>2. Tried'
  BY <1>1 DEF StaleInv, Tried
<1>3. CASE SignWithGrantee
  <2> DEFINE x == [Signing(r, "granteeAccount", "grantee")
                     EXCEPT !.since = Committed("grantee")]
  <2>1. signing' = {x} /\ UNCHANGED <<sequenceInvalidated, disturbed>>
    BY <1>3 DEF SignWithGrantee, besideVars
  <2>2. x.step = "granteeAccount" /\ x.acct = "grantee"
    BY DEF Signing
  <2> HIDE DEF x
  <2>3. Inner' = {} /\ Awaiting' \subseteq Awaiting
    BY <1>1, <2>1, <2>2 DEF Inner, Awaiting
  <2> QED
    BY <1>1, <1>2, <2>1, <2>2, <2>3
       DEF StaleInv, WaitingIsServed, Served, LoadingIsAlone, LoadedIsFresh,
           SignedIsFresh, PastReload, RightAccount
<1>4. CASE SignTx /\ NeedsReload
  <2> DEFINE x == [Signing(r, "account", "own") EXCEPT
                      !.covered = Awaiting, !.since = Committed("own")]
  <2>1. signing' = {x} /\ disturbed \subseteq disturbed'
        /\ (reloads # {} => Awaiting \subseteq disturbed')
    BY <1>4 DEF SignTx, BeginReload
  <2>2. x.step = "account" /\ x.acct = "own" /\ x.covered = Awaiting /\ x.req = r
    BY DEF Signing
  <2> HIDE DEF x
  <2>3. Inner' = {x} /\ Awaiting' \subseteq Awaiting
    BY <1>1, <2>1, <2>2 DEF Inner, Awaiting
  <2>4. reattempts[r] = 1 => r \in Awaiting
    BY <1>1 DEF Awaiting
  <2> QED
    BY <1>1, <1>2, <2>1, <2>2, <2>3, <2>4
       DEF StaleInv, WaitingIsServed, Served, LoadingIsAlone, LoadedIsFresh,
           SignedIsFresh, PastReload, RightAccount
<1>5. CASE SignTx /\ ~NeedsReload
  <2> DEFINE x == Signing(r, "height", "own")
  <2>1. signing' = {x} /\ UNCHANGED sequenceInvalidated
        /\ disturbed \subseteq disturbed' /\ ~sequenceInvalidated
        /\ (reloads # {} /\ r \in Awaiting => r \in disturbed')
    BY <1>5 DEF SignTx, NeedsReload
  <2>2. x.step = "height" /\ x.acct = "own" /\ x.req = r
    BY DEF Signing
  <2> HIDE DEF x
  <2>3. Inner' = {} /\ Awaiting' \subseteq Awaiting
    BY <1>1, <2>1, <2>2 DEF Inner, Awaiting
  <2>4. reattempts[r] = 1 => r \in Awaiting
    BY <1>1 DEF Awaiting
  <2>5. r \notin disturbed' => r \notin stale /\ (reattempts[r] = 1 => reloads = {})
    BY <1>1, <2>1, <2>4 DEF StaleInv, WaitingIsServed, Served, Tried
  <2> QED
    BY <1>1, <1>2, <2>1, <2>2, <2>3, <2>5
       DEF StaleInv, WaitingIsServed, Served, LoadingIsAlone, LoadedIsFresh,
           SignedIsFresh, PastReload, RightAccount
<1> QED  BY <1>3, <1>4, <1>5

LEMMA GoesOnKeepsStale ==
    ASSUME TypeOK, OnePlace, StaleInv, NEW s \in signing, GoesOn(s)
    PROVE  StaleInv'
<1>1. /\ UNCHANGED <<settled, reattempts, sequenceInvalidated, reloads, disturbed,
                     signQueue>>
      /\ \A x : InSignQueue(x)' <=> InSignQueue(x)
      /\ signing = {s} /\ s.req \in Requests
  BY SigningGoesOn DEF besideVars, InSignQueue, OnePlace, OneTaskEach, TypeOK, Sign
<1>2. PICK x : /\ signing' = {x} /\ x.req = s.req /\ x.acct = s.acct
               /\ x.step = IF s.step = "height" THEN "signature" ELSE "height"
  BY SigningGoesOn
<1>3. Inner' = {} /\ x.step \in {"height", "signature"}
  BY <1>2 DEF Inner
<1>4. s.req \in Awaiting <=> /\ reattempts[s.req] = 1
                             /\ s.acct = "own"
                             /\ s.step \in {"account", "height"}
  BY AwaitingInside
<1>5. CASE \E n : ReloadReturns(s, n)
  <2>1. /\ s.step = "account" /\ s.acct = "own" /\ x.step = "height"
        /\ stale' \subseteq stale \cup Awaiting
        /\ \A q \in stale' : q \notin s.covered
    BY <1>2, <1>5 DEF ReloadReturns, Serve, StaleInv, RightAccount
  <2>2. Inner = {s} /\ Awaiting' \subseteq Awaiting
    BY <1>1, <1>2, <2>1 DEF Inner, Awaiting
  <2>3. WaitingIsServed'
    BY <1>1, <1>3, <2>1, <2>2 DEF StaleInv, WaitingIsServed, Served
  <2>4. LoadedIsFresh'
    <3>1. s.req \notin disturbed => s.req \notin stale'
      BY <1>4, <2>1, <2>2 DEF StaleInv, LoadingIsAlone, Tried
    <3>2. s.req \notin disturbed /\ reattempts[s.req] = 1 => reloads = {}
      BY <2>2 DEF StaleInv, LoadingIsAlone
    <3> QED  BY <1>1, <1>2, <3>1, <3>2 DEF LoadedIsFresh
  <2>5. Tried'
    BY <1>1, <2>1 DEF StaleInv, Tried, Awaiting
  <2> QED
    BY <1>2, <1>3, <2>1, <2>3, <2>4, <2>5
       DEF StaleInv, LoadingIsAlone, SignedIsFresh, PastReload, RightAccount
<1>6. CASE \E n : GranteeAccountReturns(s, n)
  <2>1. /\ s.step = "granteeAccount" /\ s.acct # "own" /\ x.step = "height"
        /\ stale' = stale \ {s.req}
    BY <1>2, <1>6 DEF GranteeAccountReturns, StaleInv, RightAccount
  <2>2. Inner = {} /\ Awaiting' \subseteq Awaiting
    BY <1>1, <1>2, <2>1 DEF Inner, Awaiting
  <2> QED
    BY <1>1, <1>2, <1>3, <2>1, <2>2
       DEF StaleInv, WaitingIsServed, Served, LoadingIsAlone, LoadedIsFresh,
           SignedIsFresh, PastReload, RightAccount, Tried
<1>7. CASE \E limit : HeightReturns(s, limit) \/ GranteeHeightReturns(s, limit)
  <2>1. s.step = "height" /\ x.step = "signature" /\ UNCHANGED stale
    BY <1>2, <1>7 DEF HeightReturns, GranteeHeightReturns
  <2>2. Inner = {} /\ Awaiting' \subseteq Awaiting
    BY <1>1, <1>2, <2>1 DEF Inner, Awaiting
  <2>3. s.req \notin disturbed => s.req \notin stale
    BY <1>1, <2>1 DEF StaleInv, LoadedIsFresh, SignedIsFresh, PastReload
  <2> QED
    BY <1>1, <1>2, <1>3, <2>1, <2>2, <2>3
       DEF StaleInv, WaitingIsServed, Served, LoadingIsAlone, LoadedIsFresh,
           SignedIsFresh, PastReload, RightAccount, Tried
<1> QED  BY <1>5, <1>6, <1>7 DEF GoesOn

\* signTx() is left: what waits is in the sign queue
LEMMA LeavingKeepsStale ==
    ASSUME TypeOK, OnePlace, StaleInv, NEW s \in signing, SignStep, ~GoesOn(s)
    PROVE  StaleInv'
<1>1. \/ QueryFails(s) \/ Signed(s) \/ SignFails(s) \/ WalletIncompatible(s)
  BY DEF SignStep, GoesOn, OnePlace, OneTaskEach
<1>2. /\ UNCHANGED <<signQueue, reattempts, reloads>>
      /\ sequenceInvalidated => sequenceInvalidated'
      /\ signing' = {} /\ signing = {s}
      /\ \A x : InSignQueue(x)' <=> InSignQueue(x)
  BY <1>1 DEF QueryFails, Signed, SignFails, WalletIncompatible, InSignQueue,
              OnePlace, OneTaskEach, besideVars
<1>3. PICK covered : /\ Leave(s.req, covered)
                     /\ covered = s.covered \/ s.step # "account"
  BY <1>1 DEF QueryFails, Signed, SignFails, WalletIncompatible
<1>4. Inner' = {} /\ Awaiting' \subseteq Awaiting /\ s.req \notin Awaiting'
  BY <1>2 DEF Inner, Awaiting, OnePlace, PlacesDisjoint, InSigning, TypeOK, Sign
<1>5. \A r \in Awaiting' : r \notin disturbed'
                           => r \notin disturbed /\ r \notin covered
  BY <1>3, <1>4 DEF Leave
<1>6. WaitingIsServed'
  BY <1>2, <1>3, <1>4, <1>5 DEF StaleInv, WaitingIsServed, Served, Leave, Inner
<1>7. \A q \in Requests : settled'[q] = "new" => settled[q] = "new"
  BY <1>1, NoneIsNew DEF QueryFails, Signed, SignFails, WalletIncompatible
<1>8. Tried'
  BY <1>2, <1>3, <1>7 DEF StaleInv, Tried, Leave
<1> QED
  BY <1>2, <1>4, <1>6, <1>8
     DEF StaleInv, LoadingIsAlone, LoadedIsFresh, SignedIsFresh, RightAccount

\* the request that is sent back is not the one being signed
LEMMA RetryKeepsStale ==
    ASSUME TypeOK, OnePlace, StaleInv, NEW c \in dispatching, Retry(c)
    PROVE  StaleInv'
<1> DEFINE r == c.tx.req
<1>1. /\ UNCHANGED <<signing, reloads, disturbed, settled>>
      /\ stale' = stale \cup {r} /\ sequenceInvalidated'
  BY DEF Retry, besideVars
<1>2. r \in Requests /\ settled[r] = "pending" /\ \A s \in signing : s.req # r
  BY CallIsAlone DEF InSigning
<1>3. /\ reattempts' = [reattempts EXCEPT ![r] = @ + 1]
      /\ reattempts[r] = 0
  BY <1>2 DEF Retry, Retryable, TypeOK
<1>4. /\ reattempts'[r] = 1
      /\ \A q \in Requests : q # r => reattempts'[q] = reattempts[q]
  BY <1>2, <1>3 DEF TypeOK
<1>5. \A s \in signing : s.req \in Requests
  BY DEF TypeOK, Sign
<1>6. Tried'
  BY <1>1, <1>2, <1>4 DEF StaleInv, Tried, TypeOK
<1> QED
  BY <1>1, <1>2, <1>4, <1>5, <1>6
     DEF StaleInv, WaitingIsServed, Served, LoadingIsAlone, LoadedIsFresh,
         SignedIsFresh, PastReload, RightAccount, Inner

LEMMA AskKeepsStale ==
    ASSUME TypeOK, OnePlace, StaleInv, NEW k \in Reloads, AskReload(k)
    PROVE  StaleInv'
<1>1. /\ UNCHANGED <<signQueue, signing, reattempts, settled, stale>>
      /\ disturbed \subseteq disturbed'
      /\ reloads # {} \/ Inner # {} => Awaiting \subseteq disturbed'
  BY DEF AskReload, Inner
<1>2. PICK e : reloads' = reloads \cup {e} /\ e.covered = Awaiting
  <2> DEFINE e == [id |-> k, covered |-> Awaiting, since |-> Committed("own")]
  <2>1. reloads' = reloads \cup {e}
    BY DEF AskReload
  <2>2. e.covered = Awaiting
    OBVIOUS
  <2> HIDE DEF e
  <2> QED  BY <2>1, <2>2
<1>3. Awaiting' = Awaiting /\ Inner' = Inner
  BY <1>1, AwaitingSame
<1>4. WaitingIsServed'
  BY <1>1, <1>2, <1>3 DEF WaitingIsServed, Served
<1>5. LoadingIsAlone'
  BY <1>1, <1>3, AwaitingInside DEF LoadingIsAlone, Inner, StaleInv, RightAccount
<1>6. LoadedIsFresh'
  BY <1>1, <1>2, AwaitingInside DEF StaleInv, LoadedIsFresh
<1> QED
  BY <1>1, <1>4, <1>5, <1>6
     DEF StaleInv, SignedIsFresh, PastReload, RightAccount, Tried

LEMMA AnswerKeepsStale ==
    ASSUME TypeOK, OnePlace, StaleInv, NEW e \in reloads, NEW n,
           ReloadAnswers(e, n)
    PROVE  StaleInv'
<1>1. /\ UNCHANGED <<signQueue, signing, reattempts, settled, disturbed,
                     sequenceInvalidated>>
      /\ reloads' \subseteq reloads
      /\ stale' \subseteq stale \cup (Awaiting \ e.covered)
      /\ \A q \in stale' : q \notin e.covered
  BY DEF ReloadAnswers, Serve
<1>2. Awaiting' = Awaiting /\ Inner' = Inner
  BY <1>1, AwaitingSame
<1>3. WaitingIsServed'
  BY <1>1, <1>2 DEF StaleInv, WaitingIsServed, Served
<1>4. LoadingIsAlone'
  BY <1>1, <1>2 DEF StaleInv, LoadingIsAlone
<1>5. LoadedIsFresh'
  BY <1>1, AwaitingInside DEF StaleInv, LoadedIsFresh
<1>6. SignedIsFresh'
  BY <1>1, AwaitingInside DEF StaleInv, SignedIsFresh, PastReload
<1>7. Tried'
  BY <1>1 DEF StaleInv, Tried, Awaiting
<1> QED  BY <1>1, <1>3, <1>4, <1>5, <1>6, <1>7 DEF StaleInv, RightAccount

LEMMA FailureKeepsStale ==
    ASSUME TypeOK, OnePlace, StaleInv, NEW e \in reloads, ReloadFails(e)
    PROVE  StaleInv'
<1>1. /\ UNCHANGED <<signQueue, signing, reattempts, settled, stale,
                     sequenceInvalidated>>
      /\ reloads' \subseteq reloads
      /\ disturbed' = disturbed \cup (e.covered \cap Awaiting)
  BY DEF ReloadFails
<1>2. Awaiting' = Awaiting /\ Inner' = Inner
  BY <1>1, AwaitingSame
<1>3. WaitingIsServed'
  BY <1>1, <1>2 DEF StaleInv, WaitingIsServed, Served
<1>4. LoadingIsAlone'
  BY <1>1, <1>2 DEF StaleInv, LoadingIsAlone
<1> QED
  BY <1>1, <1>3, <1>4
     DEF StaleInv, LoadedIsFresh, SignedIsFresh, PastReload, RightAccount, Tried

LEMMA NextStale ==
    ASSUME TypeOK, OnePlace, StaleInv, [Next]_vars PROVE StaleInv'
<1>1. CASE SignStep
  <2>1. PICK s \in signing : TRUE
    BY <1>1 DEF SignStep
  <2> QED  BY <1>1, <2>1, GoesOnKeepsStale, LeavingKeepsStale
<1>2. CASE \E c \in dispatching : Retry(c)
  BY <1>2, RetryKeepsStale
<1>3. CASE DispatchStep /\ ~\E c \in dispatching : Retry(c)
  <2>1. PICK c \in dispatching :
            \/ AcceptedAsync(c) \/ CheckTxPasses(c) \/ CheckTxFails(c)
            \/ ConnectionFails(c) \/ PollFinds(c) \/ PollFindsMismatch(c)
            \/ PollTimesOut(c) \/ SettleCall(c)
    BY <1>3 DEF DispatchStep
  <2>2. CASE SettleCall(c)
    <3>1. Settlement(c.outcome) # "new"
      BY DEF TypeOK, Call, Settlement, CallOutcomes
    <3>2. \A q \in Requests : settled'[q] = "new" => settled[q] = "new"
      BY <2>2, <3>1, NoneIsNew DEF SettleCall
    <3> QED  BY <2>2, <3>2, UntouchedKeepsStale DEF SettleCall, besideVars
  <2>3. CASE ~SettleCall(c)
    <3>1. DuringCall
      BY <2>1, <2>3
         DEF AcceptedAsync, CheckTxPasses, CheckTxFails, ConnectionFails,
             PollFinds, PollFindsMismatch, PollTimesOut
    <3> QED  BY <3>1, UntouchedKeepsStale DEF DuringCall, besideVars
  <2> QED  BY <2>2, <2>3
<1>4. CASE DispatchTx \/ MergeStatusChanges \/ GranteeChanges \/ TimerMissed
           \/ Chain \/ UNCHANGED vars
  <2>1. /\ UNCHANGED <<signQueue, signing, reattempts, reloads, stale, disturbed,
                       settled>>
        /\ sequenceInvalidated => sequenceInvalidated'
    BY <1>4 DEF DispatchTx, MergeStatusChanges, GranteeChanges, TimerMissed,
                Chain, vars, walletVars, besideVars
  <2> QED  BY <2>1, UntouchedKeepsStale
<1> QED  BY <1>1, <1>2, <1>3, <1>4, EnterKeepsStale, SignTxKeepsStale,
            AskKeepsStale, AnswerKeepsStale, FailureKeepsStale
         DEF Next, ReloadsBeside

\* reloadAccountSequence(): the second attempt of a request is signed with a
\* sequence loaded after the first one failed, unless a reload it waited for
\* failed, or met another reload, or was under way beside signTx().
THEOREM RetrySignsFreshHolds == Spec => []RetrySignsFresh
<1>1. Init => StaleInv
  <2> SUFFICES ASSUME Init PROVE StaleInv
    OBVIOUS
  <2>1. signing = {} /\ stale = {} /\ reloads = {} /\ Inner = {}
        /\ reattempts = [r \in Requests |-> 0]
    BY DEF Init, Inner
  <2>2. Awaiting = {}
    BY <2>1 DEF Awaiting
  <2> QED
    BY <2>1, <2>2
       DEF StaleInv, WaitingIsServed, LoadingIsAlone, LoadedIsFresh,
           SignedIsFresh, RightAccount, Tried
<1>2. StaleInv => RetrySignsFresh
  BY DEF StaleInv, SignedIsFresh, PastReload, RetrySignsFresh
<1>3. TypeOK /\ OnePlace /\ StaleInv /\ [Next]_vars => StaleInv'
  BY NextStale
<1> QED  BY <1>1, <1>2, <1>3, Typing, OnePlaceHolds, PTL DEF Spec
=============================================================================
