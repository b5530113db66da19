------------------------- MODULE MergeAccountProofs -------------------------
(***************************************************************************)
(* The safety of account merging, for any number of calls and reloads.     *)
(***************************************************************************)
EXTENDS MergeAccount, TLAPS

\* the reloads and signTx() touch only the account and sequenceInvalidated
LEMMA SigningIsBeside ==
    ASSUME (\E k \in Reloaders : Reload(k)) \/ Sign
    PROVE  UNCHANGED <<serviceVars, callVars, accountMerged>>
  BY DEF Reload, BeginReload, ReadAccount, ReloadReturns, ReloadFails, Sign,
         SignTx, TakeSequence, Invalidate, flagVars

\* what every step leaves alone, or only lets grow
LEMMA Steady ==
    ASSUME TypeOK, [Next]_vars
    PROVE  /\ UNCHANGED <<mode, call>>
           /\ merged => merged'
           /\ succeeded \subseteq succeeded'
           /\ aware \subseteq aware'
<1>1. ASSUME NEW r \in Requests, Execute(r)
      PROVE  UNCHANGED <<mode, call, aware>> /\ (merged => merged')
             /\ succeeded \subseteq succeeded'
  <2>1. UNCHANGED <<mode, call, aware>>
    BY <1>1 DEF Execute, Service!Execute, callVars
  <2>2. \/ succeeded' = succeeded \cup {r} /\ merged' = (merged \/ IsMerge(r))
        \/ UNCHANGED <<succeeded, merged>>
    BY <1>1 DEF Execute
  <2>3. merged => merged'
    BY <2>2, Zenon
  <2> QED  BY <2>1, <2>2, <2>3
<1>2. ASSUME NEW c \in Callers, Begin(c)
      PROVE  UNCHANGED <<mode, call, succeeded, merged>> /\ aware \subseteq aware'
  BY <1>2 DEF Begin, serviceVars
<1>3. ASSUME NEW c \in Callers, CallStep(c)
      PROVE  UNCHANGED <<mode, call, succeeded, merged, aware>>
  <2>1. CASE \/ Resume(c) \/ StatusAnswers(c) \/ QueryFails(c) \/ Check(c)
             \/ SendMerge(c) \/ Send(c)
    BY <2>1 DEF Resume, StatusAnswers, QueryFails, Check, SendMerge, Send,
                Service!Submit, serviceVars
  <2>2. ASSUME NEW answer \in Service!Answers,
               MergeSettles(c, answer) \/ OwnSettles(c, answer)
        PROVE  UNCHANGED <<mode, call, succeeded, merged, aware>>
    BY <2>2 DEF MergeSettles, OwnSettles, Settles, Service!Settle
  <2> QED  BY <1>3, <2>1, <2>2 DEF CallStep
<1>4. CASE (\E k \in Reloaders : Reload(k)) \/ Sign
  BY <1>4, SigningIsBeside DEF serviceVars, callVars
<1>5. CASE UNCHANGED vars
  BY <1>5 DEF vars, serviceVars, callVars
<1> QED  BY <1>1, <1>2, <1>3, <1>4, <1>5 DEF Next

-----------------------------------------------------------------------------
(* Types *)

LEMMA InitTypes == Init => TypeOK
<1> SUFFICES ASSUME Init PROVE TypeOK
  OBVIOUS
<1>1. mode \in [Requests -> Service!BroadcastModes]
  <2>1. PICK defaultMode \in DefaultModes :
            mode = [r \in Requests |-> IF r[2] = "merge" THEN "block"
                                       ELSE ModeOf(r[1], defaultMode)]
    BY DEF Init
  <2>2. defaultMode \in Service!BroadcastModes
    BY MergeAssumption DEF Service!BroadcastModes
  <2>3. \A c \in Callers : ModeOf(c, defaultMode) \in Service!BroadcastModes
    BY <2>2 DEF ModeOf, Service!BroadcastModes
  <2>4. "block" \in Service!BroadcastModes
    BY DEF Service!BroadcastModes
  <2> QED  BY <2>1, <2>3, <2>4 DEF Requests
<1>2. Service!TypeOK
  BY <1>1 DEF Init, Service!TypeOK
<1>3. pc \in [Callers -> Steps]
  BY DEF Init, Steps
<1>4. reload \in [Reloaders -> {"none", "asked", "before", "after"}]
  BY DEF Init
<1> QED  BY <1>2, <1>3, <1>4 DEF Init, TypeOK, View

LEMMA ServiceTypes ==
    ASSUME Service!TypeOK, NEW r \in Requests, NEW answer \in Service!Answers,
           \/ Service!Submit(r)
           \/ Service!Execute(r)
           \/ Service!Settle(r, answer)
    PROVE  Service!TypeOK'
  BY DEF Service!TypeOK, Service!Submit, Service!Execute, Service!Settle,
         Service!Answers

LEMMA ServiceStays ==
    ASSUME Service!TypeOK, UNCHANGED <<mode, status, executed>>
    PROVE  Service!TypeOK'
  BY DEF Service!TypeOK

LEMMA GotoTypes ==
    ASSUME TypeOK, NEW c \in Callers, NEW step \in Steps, Goto(c, step)
    PROVE  pc' \in [Callers -> Steps]
  BY DEF TypeOK, Goto

LEMMA AskTypes ==
    ASSUME TypeOK, NEW c \in Callers, NEW step \in Steps, NEW next \in Steps,
           AskStatus(c, step, next)
    PROVE  pc' \in [Callers -> Steps] /\ asked' \in [Callers -> BOOLEAN]
  BY GotoTypes DEF TypeOK, AskStatus

LEMMA ContinueTypes ==
    ASSUME TypeOK, NEW c \in Callers, Continue(c)
    PROVE  pc' \in [Callers -> Steps] /\ asked' \in [Callers -> BOOLEAN]
<1>1. CASE call[c].trigger
  BY <1>1, AskTypes DEF Continue, Steps
<1>2. CASE ~call[c].trigger
  BY <1>2, GotoTypes DEF Continue, Steps, TypeOK
<1> QED  BY <1>1, <1>2

LEMMA CallTypes ==
    ASSUME TypeOK, NEW c \in Callers, CallStep(c) PROVE TypeOK'
<1>1. <<c, "merge">> \in Requests /\ <<c, "own">> \in Requests
  BY DEF Requests
<1>2. CASE Resume(c)
  BY <1>2, ContinueTypes, ServiceStays
     DEF Resume, TypeOK, serviceVars, flagVars, reloadVars, signVars
<1>3. CASE StatusAnswers(c)
  BY <1>3, GotoTypes, ServiceStays
     DEF StatusAnswers, TypeOK, Steps, serviceVars, reloadVars, signVars
<1>4. CASE QueryFails(c) \/ Check(c)
  BY <1>4, GotoTypes, ServiceStays
     DEF QueryFails, Check, TypeOK, Steps, serviceVars, flagVars, reloadVars, signVars
<1>5. CASE SendMerge(c) \/ Send(c)
  <2>1. Service!TypeOK'
    BY <1>1, <1>5, ServiceTypes DEF SendMerge, Send, TypeOK, Service!Answers
  <2> QED  BY <1>5, <2>1, GotoTypes
           DEF SendMerge, Send, TypeOK, Steps, flagVars, reloadVars, signVars
<1>6. ASSUME NEW answer \in Service!Answers,
             MergeSettles(c, answer) \/ OwnSettles(c, answer)
      PROVE  TypeOK'
  <2>1. Service!TypeOK'
    BY <1>1, <1>6, ServiceTypes DEF MergeSettles, OwnSettles, Settles, TypeOK
  <2>2. accountMerged' \in BOOLEAN /\ sequenceInvalidated' \in BOOLEAN
    BY <1>6 DEF MergeSettles, OwnSettles, UpdateMergeAccountStatus, flagVars, TypeOK
  <2>3. pc' \in [Callers -> Steps]
    BY <1>6, GotoTypes DEF MergeSettles, OwnSettles, Steps
  <2> QED  BY <1>6, <2>1, <2>2, <2>3
           DEF MergeSettles, OwnSettles, Settles, TypeOK, reloadVars, signVars
<1> QED  BY <1>2, <1>3, <1>4, <1>5, <1>6 DEF CallStep

LEMMA NextTypes == ASSUME TypeOK, [Next]_vars PROVE TypeOK'
<1>1. ASSUME NEW r \in Requests, Execute(r) PROVE TypeOK'
  <2>1. Service!TypeOK'
    BY <1>1, ServiceTypes DEF Execute, TypeOK, Service!Answers
  <2> QED  BY <1>1, <2>1
           DEF Execute, TypeOK, IsMerge, flagVars, callVars, reloadVars, signVars
<1>2. ASSUME NEW c \in Callers, Begin(c) PROVE TypeOK'
  <2>1. pc' \in [Callers -> Steps] /\ asked' \in [Callers -> BOOLEAN]
    BY <1>2, ContinueTypes, AskTypes DEF Begin, Steps
  <2> QED  BY <1>2, <2>1, ServiceStays
           DEF Begin, TypeOK, serviceVars, flagVars, reloadVars, signVars
<1>3. ASSUME NEW k \in Reloaders, Reload(k) PROVE TypeOK'
  <2>1. Service!TypeOK'
    BY <1>3, SigningIsBeside, ServiceStays DEF TypeOK, serviceVars
  <2>2. UNCHANGED <<succeeded, merged, call, pc, asked, aware, accountMerged>>
    BY <1>3, SigningIsBeside DEF serviceVars, callVars
  <2>3. /\ reload' \in [Reloaders -> {"none", "asked", "before", "after"}]
        /\ accountInfo' \in {"before", "after"}
        /\ sequenceInvalidated' \in BOOLEAN /\ disturbed' \in BOOLEAN
    BY <1>3 DEF Reload, BeginReload, ReadAccount, ReloadReturns, ReloadFails,
                AskAccount, Disturb, TypeOK, View, flagVars
  <2>4. signing' \in {"none", "account", "height"} /\ knew' \in BOOLEAN
    BY <1>3 DEF Reload, BeginReload, ReadAccount, ReloadReturns, ReloadFails,
                TypeOK, signVars
  <2> QED  BY <2>1, <2>2, <2>3, <2>4 DEF TypeOK
<1>5. CASE Sign
  <2>1. Service!TypeOK'
    BY <1>5, SigningIsBeside, ServiceStays DEF TypeOK, serviceVars
  <2>2. UNCHANGED <<succeeded, merged, call, pc, asked, aware, accountMerged>>
    BY <1>5, SigningIsBeside DEF serviceVars, callVars
  <2>3. /\ reload' \in [Reloaders -> {"none", "asked", "before", "after"}]
        /\ accountInfo' \in {"before", "after"}
        /\ sequenceInvalidated' \in BOOLEAN /\ disturbed' \in BOOLEAN
        /\ signing' \in {"none", "account", "height"} /\ knew' \in BOOLEAN
    BY <1>5 DEF Sign, SignTx, TakeSequence, Invalidate, AskAccount, Disturb,
                TypeOK, flagVars, reloadVars, signVars
  <2> QED  BY <2>1, <2>2, <2>3 DEF TypeOK
<1>4. CASE UNCHANGED vars
  BY <1>4, ServiceStays
     DEF vars, serviceVars, flagVars, callVars, reloadVars, signVars, TypeOK
<1> QED  BY <1>1, <1>2, <1>3, <1>4, <1>5, CallTypes DEF Next

\* The flags, the account and every call stay in their domains.
THEOREM Typing == Spec => []TypeOK
<1> QED  BY InitTypes, NextTypes, PTL DEF Spec

-----------------------------------------------------------------------------
(* What the wallet knows of the merge is true.                              *)

MergesAreConfirmed == \A c \in Callers : mode[<<c, "merge">>] = "block"

Truthful == /\ MergesAreConfirmed
            /\ \A r \in succeeded : IsMerge(r) => merged
            /\ \A c \in Callers : asked[c] => merged
            /\ MergedFlagHolds

LEMMA StepTruthful == ASSUME TypeOK, Truthful, [Next]_vars PROVE Truthful'
<1>1. UNCHANGED <<mode, call>> /\ (merged => merged')
  BY Steady
<1>2. MergesAreConfirmed'
  BY <1>1 DEF Truthful, MergesAreConfirmed
<1>3. OwnMergesAreConfirmed' <=> OwnMergesAreConfirmed
  BY <1>1 DEF OwnMergesAreConfirmed
<1>4. \A r \in succeeded' : IsMerge(r)' => merged'
  <2>1. \A r \in succeeded : IsMerge(r)' => merged'
    BY <1>1 DEF Truthful, IsMerge
  <2>2. CASE UNCHANGED succeeded
    BY <2>1, <2>2
  <2>3. ASSUME NEW q \in Requests, Execute(q) PROVE \A r \in succeeded' : IsMerge(r)' => merged'
    BY <1>1, <2>1, <2>3 DEF Execute, IsMerge
  <2> QED  BY <2>2, <2>3, SigningIsBeside
           DEF Next, vars, serviceVars, Begin, CallStep, Resume, StatusAnswers,
               QueryFails, Check, SendMerge, Send, MergeSettles, OwnSettles,
               Settles, callVars
<1>5. \A c \in Callers : asked[c]' => merged'
  <2>1. CASE UNCHANGED asked
    BY <1>1, <2>1 DEF Truthful
  <2>2. ASSUME NEW c \in Callers, Begin(c) \/ Resume(c)
        PROVE  \A d \in Callers : asked[d]' => merged'
    BY <1>1, <2>2
       DEF Truthful, TypeOK, Begin, Resume, Continue, AskStatus, serviceVars
  <2> QED  BY <2>1, <2>2, SigningIsBeside
           DEF Next, vars, callVars, Execute, CallStep, StatusAnswers,
               QueryFails, Check, SendMerge, Send, MergeSettles, OwnSettles, serviceVars
<1>6. MergedFlagHolds'
  <2>1. CASE UNCHANGED accountMerged
    BY <1>1, <1>3, <2>1 DEF Truthful, MergedFlagHolds
  <2>2. ASSUME NEW c \in Callers, StatusAnswers(c) PROVE MergedFlagHolds'
    BY <1>1, <2>2 DEF Truthful, StatusAnswers, MergedFlagHolds, TypeOK, serviceVars
  <2>3. ASSUME NEW c \in Callers, NEW answer, MergeSettles(c, answer),
               ~UNCHANGED accountMerged
        PROVE  MergedFlagHolds'
    <3>1. <<c, "merge">> \in succeeded /\ IsMerge(<<c, "merge">>)
      BY <2>3 DEF MergeSettles, Settles, flagVars, Truthful, MergesAreConfirmed,
                  IsMerge
    <3> QED  BY <1>1, <3>1 DEF Truthful, MergedFlagHolds
  <2>4. ASSUME NEW c \in Callers, NEW answer, OwnSettles(c, answer),
               ~UNCHANGED accountMerged, OwnMergesAreConfirmed
        PROVE  merged
    <3>1. <<c, "own">> \in succeeded /\ IsMerge(<<c, "own">>)
      BY <2>4 DEF OwnSettles, OwnUpdates, Settles, flagVars,
                  OwnMergesAreConfirmed, IsMerge
    <3> QED  BY <3>1 DEF Truthful
  <2> QED  BY <1>1, <1>3, <2>1, <2>2, <2>3, <2>4, SigningIsBeside
           DEF MergedFlagHolds, Next, vars, flagVars, Execute, Begin, CallStep,
               Resume, QueryFails, Check, SendMerge, Send, serviceVars, callVars
<1> QED  BY <1>2, <1>4, <1>5, <1>6 DEF Truthful

LEMMA InitTruthful == Init => Truthful
  BY DEF Init, Truthful, MergesAreConfirmed, MergedFlagHolds, Requests

LEMMA Truth == Spec => []Truthful
<1>1. TypeOK /\ Truthful /\ [Next]_vars => Truthful'
  BY StepTruthful
<1> QED  BY <1>1, InitTruthful, Typing, PTL DEF Spec

\* reloadMergeAccountStatus() and updateMergeAccountStatus() set
\* accountMerged only when the account is merged, whatever the calls that
\* run meanwhile.
THEOREM MergedFlagIsTrue == Spec => []MergedFlagHolds
<1>1. Truthful => MergedFlagHolds
  BY DEF Truthful
<1> QED  BY <1>1, Truth, PTL

-----------------------------------------------------------------------------
(* A triggered transaction waits for the merge.                             *)

Waits(c) == call[c].trigger /\ ~call[c].isMerge

Ordered == \A c \in Callers :
    /\ OwnMergesAreConfirmed
    /\ Waits(c)
    /\ pc[c] = "send" \/ status[<<c, "own">>] # "new"
    => merged

LEMMA StepOrdered ==
    ASSUME TypeOK, Truthful, Ordered, [Next]_vars PROVE Ordered'
<1>1. UNCHANGED <<mode, call>> /\ (merged => merged')
  BY Steady
<1> SUFFICES ASSUME NEW c \in Callers, OwnMergesAreConfirmed, Waits(c),
                    pc'[c] = "send" \/ status'[<<c, "own">>] # "new",
                    ~merged, ~merged'
             PROVE  FALSE
  BY <1>1 DEF Ordered, OwnMergesAreConfirmed, Waits
<1>2. ~accountMerged /\ pc[c] # "send" /\ status[<<c, "own">>] = "new"
  BY DEF Truthful, MergedFlagHolds, Ordered
<1>3. status'[<<c, "own">>] = "new"
  <2>1. <<c, "own">> \in Requests /\ status \in [Requests -> Service!Answers \cup {"new", "pending"}]
    BY DEF TypeOK, Service!TypeOK, Requests
  <2>2. ASSUME NEW d \in Callers, SendMerge(d) \/ Send(d)
        PROVE  status'[<<c, "own">>] = "new"
    BY <1>2, <2>1, <2>2 DEF SendMerge, Send, Service!Submit
  <2>3. ASSUME NEW r, NEW answer, Settles(r, answer)
        PROVE  status'[<<c, "own">>] = "new"
    BY <1>2, <2>1, <2>3 DEF Settles, Service!Settle
  <2>4. CASE UNCHANGED status
    BY <1>2, <2>4
  <2> QED  BY <2>2, <2>3, <2>4, SigningIsBeside
           DEF Next, vars, serviceVars, Execute, Service!Execute, Begin,
               CallStep, Resume, StatusAnswers, QueryFails, Check,
               MergeSettles, OwnSettles, callVars
<1>4. pc'[c] = "send"
  BY <1>3
<1>5. CASE Begin(c) \/ Resume(c)
  BY <1>2, <1>4, <1>5 DEF Begin, Resume, Continue, AskStatus, Goto, TypeOK, Waits
<1>6. CASE StatusAnswers(c) \/ QueryFails(c) \/ Check(c) \/ SendMerge(c) \/ Send(c)
  BY <1>2, <1>4, <1>6 DEF StatusAnswers, QueryFails, Check, SendMerge, Send,
                          Goto, TypeOK, Waits
<1>7. ASSUME NEW answer, MergeSettles(c, answer) PROVE FALSE
  <2>1. <<c, "merge">> \in succeeded /\ IsMerge(<<c, "merge">>)
    BY <1>2, <1>4, <1>7 DEF MergeSettles, Goto, TypeOK, Settles, Truthful,
                            MergesAreConfirmed, IsMerge
  <2> QED  BY <2>1 DEF Truthful
<1>8. ASSUME NEW answer, OwnSettles(c, answer) PROVE FALSE
  BY <1>4, <1>8 DEF OwnSettles, Goto, TypeOK
<1>9. pc'[c] # pc[c]
  BY <1>2, <1>4
<1>10. ASSUME NEW d \in Callers, d # c, Begin(d) \/ CallStep(d) PROVE FALSE
  BY <1>9, <1>10
     DEF TypeOK, Begin, CallStep, Resume, StatusAnswers, QueryFails, Check,
         SendMerge, Send, MergeSettles, OwnSettles, Continue, AskStatus, Goto
<1> QED  BY <1>5, <1>6, <1>7, <1>8, <1>9, <1>10, SigningIsBeside
         DEF Next, vars, callVars, CallStep, Execute, serviceVars

\* sendInitialMergeAccountTx(): a transaction that triggers a merge is
\* handed over only when the account is merged.
THEOREM TriggeredIsOrdered == Spec => []TriggeredAfterMerge
<1>1. Init => Ordered
  BY DEF Init, Ordered, Requests
<1>2. TypeOK /\ Truthful /\ Ordered /\ [Next]_vars => Ordered'
  BY StepOrdered
<1>3. Ordered => TriggeredAfterMerge
  BY DEF Ordered, TriggeredAfterMerge, Waits
<1> QED  BY <1>1, <1>2, <1>3, Typing, Truth, PTL DEF Spec

-----------------------------------------------------------------------------
(* A merge that is known is not repeated.                                   *)

Aware == \A c \in aware :
    /\ status[<<c, "merge">>] = "new"
    /\ pc[c] \notin {"account", "merge"}
    /\ accountMerged
    /\ ~StatusOut

\* the merge of a call is untouched until the call sends it
Unmerged == \A c \in Callers :
    pc[c] \in {"idle", "firstStatus", "resumed", "status", "check", "account"}
    => status[<<c, "merge">>] = "new"

LEMMA MergeStatus ==
    ASSUME TypeOK, NEW c \in Callers, status[<<c, "merge">>] = "new",
           [Next]_vars, ~SendMerge(c)
    PROVE  status'[<<c, "merge">>] = "new"
<1>1. /\ <<c, "merge">> \in Requests
      /\ status \in [Requests -> Service!Answers \cup {"new", "pending"}]
  BY DEF TypeOK, Service!TypeOK, Requests
<1>2. ASSUME NEW d \in Callers, SendMerge(d) \/ Send(d)
      PROVE  status'[<<c, "merge">>] = "new"
  BY <1>1, <1>2 DEF SendMerge, Send, Service!Submit
<1>3. ASSUME NEW r, NEW answer, Settles(r, answer)
      PROVE  status'[<<c, "merge">>] = "new"
  BY <1>1, <1>3 DEF Settles, Service!Settle
<1>4. CASE UNCHANGED status
  BY <1>4
<1> QED  BY <1>2, <1>3, <1>4, SigningIsBeside
         DEF Next, vars, serviceVars, Execute, Service!Execute, Begin,
             CallStep, Resume, StatusAnswers, QueryFails, Check,
             MergeSettles, OwnSettles, callVars

\* a step moves at most one call
LEMMA OneMoves ==
    ASSUME TypeOK, [Next]_vars, NEW c \in Callers, ~Begin(c), ~CallStep(c)
    PROVE  pc'[c] = pc[c]
<1>1. ASSUME NEW d \in Callers, d # c, Begin(d) \/ CallStep(d) PROVE pc'[c] = pc[c]
  BY <1>1
     DEF TypeOK, Begin, CallStep, Resume, StatusAnswers, QueryFails, Check,
         SendMerge, Send, MergeSettles, OwnSettles, Continue, AskStatus, Goto
<1> QED  BY <1>1, SigningIsBeside
         DEF Next, vars, callVars, Execute, serviceVars

LEMMA StepUnmerged ==
    ASSUME TypeOK, Unmerged, [Next]_vars PROVE Unmerged'
<1> SUFFICES ASSUME NEW c \in Callers,
                    pc'[c] \in {"idle", "firstStatus", "resumed", "status",
                                "check", "account"}
             PROVE  status'[<<c, "merge">>] = "new"
  BY DEF Unmerged
<1>1. pc[c] \in {"idle", "firstStatus", "resumed", "status", "check", "account"}
      /\ ~SendMerge(c)
  <2>1. CASE pc'[c] = pc[c]
    BY <2>1 DEF SendMerge, Goto, TypeOK
  <2>2. CASE Begin(c) \/ CallStep(c)
    BY <2>2 DEF TypeOK, Begin, CallStep, Resume, StatusAnswers, QueryFails,
                Check, SendMerge, Send, MergeSettles, OwnSettles, Goto
  <2> QED  BY <2>1, <2>2, OneMoves
<1> QED  BY <1>1, MergeStatus DEF Unmerged

\* a call enters a status query only while accountMerged is false
LEMMA NoNewQuery ==
    ASSUME TypeOK, accountMerged, ~StatusOut, [Next]_vars
    PROVE  ~StatusOut' /\ accountMerged'
<1>1. accountMerged'
  BY SigningIsBeside
     DEF StatusOut, Next, vars, flagVars, Execute, Begin, CallStep, Resume,
         StatusAnswers, QueryFails, Check, SendMerge, Send, MergeSettles,
         OwnSettles, UpdateMergeAccountStatus, serviceVars, callVars
<1>2. ASSUME NEW c \in Callers PROVE pc'[c] \notin {"firstStatus", "status"}
  <2>1. CASE Begin(c) \/ CallStep(c)
    BY <2>1 DEF StatusOut, TypeOK, Begin, CallStep, Resume, StatusAnswers,
                QueryFails, Check, SendMerge, Send, MergeSettles, OwnSettles,
                Continue, AskStatus, Goto
  <2>2. CASE pc'[c] = pc[c]
    BY <2>2 DEF StatusOut
  <2> QED  BY <2>1, <2>2, OneMoves
<1> QED  BY <1>1, <1>2 DEF StatusOut

LEMMA StepAware ==
    ASSUME TypeOK, Unmerged, Aware, [Next]_vars PROVE Aware'
<1> SUFFICES ASSUME NEW c \in aware'
             PROVE  /\ status'[<<c, "merge">>] = "new"
                    /\ pc'[c] \notin {"account", "merge"}
                    /\ accountMerged'
                    /\ ~StatusOut'
  BY DEF Aware
<1>1. CASE c \in aware
  <2>1. c \in Callers /\ accountMerged /\ ~StatusOut
    BY <1>1 DEF TypeOK, Aware
  <2>2. status[<<c, "merge">>] = "new" /\ pc[c] \notin {"account", "merge"}
    BY <1>1 DEF Aware
  <2>3. status'[<<c, "merge">>] = "new"
    BY <2>1, <2>2, MergeStatus DEF SendMerge
  <2>4. pc'[c] \notin {"account", "merge"}
    <3>1. CASE Begin(c) \/ CallStep(c)
      BY <2>1, <2>2, <3>1
         DEF TypeOK, Begin, CallStep, Resume, StatusAnswers, QueryFails, Check,
             SendMerge, Send, MergeSettles, OwnSettles, Continue, AskStatus,
             Goto
    <3> QED  BY <2>1, <2>2, <3>1, OneMoves
  <2> QED  BY <2>1, <2>3, <2>4, NoNewQuery
<1>2. CASE c \notin aware
  <2>1. c \in Callers /\ Begin(c) /\ accountMerged /\ ~StatusOut
    <3>1. PICK d \in Callers : Begin(d)
      BY <1>2, SigningIsBeside
              DEF Next, vars, callVars, Execute, CallStep, Resume,
                  StatusAnswers, QueryFails, Check, SendMerge, Send,
                  MergeSettles, OwnSettles, serviceVars
    <3> QED  BY <1>2, <3>1 DEF Begin
  <2>2. status[<<c, "merge">>] = "new"
    BY <2>1 DEF Unmerged, Begin
  <2>3. UNCHANGED status
    BY <2>1 DEF Begin, serviceVars
  <2>4. pc'[c] \notin {"account", "merge"}
    BY <2>1 DEF TypeOK, Begin, Continue, AskStatus, Goto
  <2> QED  BY <2>1, <2>2, <2>3, <2>4, NoNewQuery
<1> QED  BY <1>1, <1>2

\* Calls that begin once the merge is known, while no older status query is
\* out, never send a merge of their own.
THEOREM KnownMergeStays == Spec => []KnownMergeIsFinal
<1>1. Init => Unmerged /\ Aware
  BY DEF Init, Unmerged, Aware, Requests
<1>2. TypeOK /\ Unmerged /\ Aware /\ [Next]_vars => Unmerged' /\ Aware'
  BY StepUnmerged, StepAware
<1>3. Aware => KnownMergeIsFinal
  BY DEF Aware, KnownMergeIsFinal
<1> QED  BY <1>1, <1>2, <1>3, Typing, PTL DEF Spec

-----------------------------------------------------------------------------
(* The account is loaded again after the merge.                             *)

OneReload == ~disturbed => \A j, k \in Reloaders :
    reload[j] # "none" /\ reload[k] # "none" => j = k

Known == OwnMergesAreConfirmed /\ accountMerged /\ ~disturbed

\* a reload that began when the merge was known reads the account after it
Reloaded ==
    Known /\ ~sequenceInvalidated
    => /\ \A k \in Reloaders : reload[k] # "before"
       /\ accountInfo = "after" \/ \E k \in Reloaders : reload[k] # "none"

\* signTx() waits for its own reload, or has the account
SigningFresh ==
    /\ signing = "account" <=> reload["signTx"] # "none"
    /\ OwnMergesAreConfirmed /\ ~disturbed /\ signing # "none" /\ knew
       => /\ \A k \in Reloaders : reload[k] # "before"
          /\ signing = "height" => accountInfo = "after"
    /\ OwnMergesAreConfirmed /\ knew => merged

Freshness == OneReload /\ Reloaded /\ SigningFresh

LEMMA StepFresh ==
    ASSUME TypeOK, Truthful, Freshness, [Next]_vars PROVE Freshness'
<1>1. /\ OwnMergesAreConfirmed' <=> OwnMergesAreConfirmed
      /\ merged => merged'
      /\ "signTx" \in Reloaders
  BY Steady, MergeAssumption DEF OwnMergesAreConfirmed
<1>2. ASSUME NEW evmOnly, SignTx(evmOnly) PROVE Freshness'
  <2>1. /\ knew' = accountMerged /\ signing = "none"
        /\ UNCHANGED <<merged, accountMerged, accountInfo>>
        /\ disturbed' = (disturbed \/ \E k \in Reloaders : reload[k] # "none")
    BY <1>2 DEF SignTx, Disturb, serviceVars
  <2>2. OwnMergesAreConfirmed /\ accountMerged => merged
    BY DEF Truthful, MergedFlagHolds
  <2>3. ~disturbed' => ~disturbed /\ \A k \in Reloaders : reload[k] = "none"
    BY <2>1
  <2>4. CASE sequenceInvalidated \/ evmOnly
    <3>1. /\ signing' = "account"
          /\ reload' = [reload EXCEPT !["signTx"] = "asked"]
          /\ sequenceInvalidated' = FALSE
      BY <1>2, <2>4 DEF SignTx, AskAccount
    <3>2. /\ reload'["signTx"] = "asked"
          /\ \A k \in Reloaders : k # "signTx" => reload'[k] = reload[k]
      BY <1>1, <3>1 DEF TypeOK
    <3> QED  BY <1>1, <2>1, <2>2, <2>3, <3>1, <3>2
             DEF Freshness, OneReload, Reloaded, SigningFresh, Known
  <2>5. CASE ~(sequenceInvalidated \/ evmOnly)
    <3>1. /\ signing' = "height" /\ ~sequenceInvalidated
          /\ UNCHANGED <<reload, sequenceInvalidated>>
      BY <1>2, <2>5 DEF SignTx
    <3> QED  BY <1>1, <2>1, <2>2, <2>3, <3>1
             DEF Freshness, OneReload, Reloaded, SigningFresh, Known
  <2> QED  BY <2>4, <2>5
<1>3. ASSUME NEW k \in Reloaders, BeginReload(k) PROVE Freshness'
  BY <1>1, <1>3 DEF BeginReload, AskAccount, Disturb, Freshness, OneReload,
                    Reloaded, SigningFresh, Known, TypeOK, signVars, serviceVars
<1>4. ASSUME NEW k \in Reloaders, ReadAccount(k) PROVE Freshness'
  BY <1>1, <1>4 DEF ReadAccount, Freshness, OneReload, Reloaded, SigningFresh,
                    Known, TypeOK, View, Truthful, MergedFlagHolds, flagVars,
                    signVars, serviceVars
<1>5. ASSUME NEW k \in Reloaders, ReloadReturns(k) PROVE Freshness'
  BY <1>1, <1>5 DEF ReloadReturns, Freshness, OneReload, Reloaded, SigningFresh,
                    Known, TypeOK, flagVars, serviceVars
<1>6. ASSUME NEW k \in Reloaders, ReloadFails(k) PROVE Freshness'
  BY <1>1, <1>6 DEF ReloadFails, Freshness, OneReload, Reloaded, SigningFresh,
                    Known, TypeOK, flagVars, serviceVars
<1>7. CASE TakeSequence
  BY <1>1, <1>7 DEF TakeSequence, Freshness, OneReload, Reloaded, SigningFresh,
                    Known, flagVars, serviceVars
<1>8. CASE UNCHANGED reloadVars /\ (UNCHANGED flagVars \/ sequenceInvalidated')
  BY <1>1, <1>8 DEF reloadVars, signVars, flagVars, Freshness, OneReload,
                    Reloaded, SigningFresh, Known
<1> QED  BY <1>2, <1>3, <1>4, <1>5, <1>6, <1>7, <1>8
         DEF Next, vars, Execute, Begin, CallStep, Resume, StatusAnswers,
             QueryFails, Check, SendMerge, Send, MergeSettles, OwnSettles,
             UpdateMergeAccountStatus, Reload, Sign, Invalidate

\* updateMergeAccountStatus() invalidates the sequence: a signTx() that begins
\* when the merge is known takes the sequence and the account from after it,
\* unless a reload failed, met another or ran beside it.
THEOREM FreshIsKept == Spec => []FreshAfterMerge
<1>1. Init => Freshness
  BY MergeAssumption DEF Init, Freshness, OneReload, Reloaded, SigningFresh
<1>2. TypeOK /\ Truthful /\ Freshness /\ [Next]_vars => Freshness'
  BY StepFresh
<1>3. Freshness => FreshAfterMerge
  BY DEF Freshness, SigningFresh, Known, FreshAfterMerge
<1> QED  BY <1>1, <1>2, <1>3, Typing, Truth, PTL DEF Spec
=============================================================================
