------------------------------ MODULE CDPModule ------------------------------
(***************************************************************************)
(* Three methods of CDPModule (src/modules/cdp.ts): getAccountData(), its  *)
(* caller getMaxCollateralForUnlock(), and getMaxCollateralForLiquidator().*)
(* A behaviour is one call.  Its queries are answered in any order or      *)
(* fail; the answers do not change during the call.  A sum is represented  *)
(* by the set of denoms that went into it.                                 *)
(***************************************************************************)
EXTENDS CdpMath, Functions, FiniteSets

CONSTANTS Denoms,      \* assets that may be lent and borrowed
          Amounts,     \* amounts of collateral, and USD values of debts
          Rates,       \* <<loanToValue, liquidationThreshold>> of the assets
          Pers,        \* USD value of a cdp token: price by ratio
          Scale,       \* ten to the decimals of the stablecoin
          Liquidations \* inputs of getMaxCollateralForLiquidator()

\* what getMaxCollateralForLiquidator() may be asked, and its queries answer;
\* the collateral and its liquidation threshold are in USD
LiquidationInputs ==
    [debt : Nat, collateral : Nat, threshold : Nat, small : Nat,
     minimum : 0 .. Unit, complete : Nat,
     twap : Nat \ {0}, per : Nat \ {0},
     bonus : 0 .. (Unit - 1), fee : 0 .. Unit,
     requested : Nat, locked : Nat,
     collateralDecimals : Nat, debtDecimals : Nat, loaded : BOOLEAN]

ASSUME CdpAssumption ==
    /\ IsFiniteSet(Denoms)
    /\ Amounts \subseteq Nat
    /\ Rates \subseteq {r \in (1 .. Unit) \X (1 .. Unit) : r[1] <= r[2]}
    /\ Pers \subseteq Nat \ {0}
    /\ Scale \in Nat \ {0}
    /\ Liquidations \subseteq {q \in LiquidationInputs : q.threshold <= q.collateral}

Methods == {"getAccountData", "getMaxCollateralForUnlock",
            "getMaxCollateralForLiquidator"}

Positions ==
    [collateral : [Denoms -> Amounts],   \* locked cdp tokens
     debt : [Denoms -> Amounts],         \* what the account owes, in USD
     stablecoin : Amounts,
     issued : BOOLEAN,                   \* is there stablecoinDebtInfo?
     infos : SUBSET Denoms,              \* denoms with debtInfo
     params : SUBSET Denoms,             \* denoms with assetParams
     rates : Rates, per : Pers,
     denom : Denoms,                     \* the one to unlock
     devNet : BOOLEAN,
     loaded : BOOLEAN]                   \* did the TokenClient load its tokens?

InputsOf(m) == IF m = "getMaxCollateralForLiquidator" THEN Liquidations
               ELSE Positions

VARIABLES method, input,   \* the call, and what its queries answer
          at,          \* where the call awaits
          todo,        \* collaterals still to be valued
          valued,      \* collaterals in the totals
          running,     \* debts whose value is being requested
          failed,      \* debts whose request was rejected
          counted,     \* debts in totalDebtsUsd
          account,     \* what getAccountData() returned
          answer       \* what the other two returned

inputs == <<method, input>>
tasks == <<running, failed, counted>>
vars == <<inputs, at, todo, valued, tasks, account, answer>>

NoAccount == [valued |-> {}, counted |-> {}, stablecoin |-> 0]
NoAnswer == [repaid |-> Whole(0), taken |-> Whole(0), profit |-> Whole(0),
             answer |-> Whole(0)]

TypeOK ==
    /\ method \in Methods
    /\ input \in InputsOf(method)
    /\ at \in {"begin", "asset", "queries", "collaterals", "stablecoin", "ratio",
               "debtor", "returned", "undefined", "threw"}
    /\ todo \subseteq Denoms /\ valued \subseteq Denoms
    /\ running \subseteq Denoms /\ failed \subseteq Denoms
    /\ counted \subseteq Denoms
    /\ account \in [valued : SUBSET Denoms, counted : SUBSET Denoms,
                    stablecoin : Nat]
    /\ answer \in [repaid : Fractions, taken : Fractions, profit : Fractions,
                   answer : Fractions]

\* debts with a principal and with debtInfo: lines 488-499
Owed == {d \in input.infos : input.debt[d] # 0}

UsdValue(amount) == amount * input.per

\* in Unit-ths of a USD
AvailableBorrows(data) ==
    SumFunctionOnSet([d \in Denoms |-> UsdValue(input.collateral[d]) * input.rates[1]],
                     data.valued)

TotalDebts(data) ==
    data.stablecoin + SumFunctionOnSet(input.debt, data.counted)

Init == /\ method \in Methods
        /\ input \in InputsOf(method)
        /\ at = "begin"
        /\ todo = {} /\ valued = {}
        /\ running = {} /\ failed = {} /\ counted = {}
        /\ account = NoAccount
        /\ answer = NoAnswer

-----------------------------------------------------------------------------
Await(from, to) == /\ at = from
                   /\ at' = to

\* getUnderlyingDenom() throws while the tokens are not loaded
Begin == /\ at = "begin"
         /\ at' = CASE method = "getAccountData" -> "queries"
                    [] ~input.loaded -> "threw"
                    [] method = "getMaxCollateralForUnlock" -> "asset"
                    [] OTHER -> "debtor"
         /\ UNCHANGED <<inputs, todo, valued, tasks, account, answer>>

\* a query that the call awaits is rejected
QueryFails == /\ at \in {"asset", "queries", "stablecoin", "ratio", "debtor"}
              /\ at' = "threw"
              /\ UNCHANGED <<inputs, todo, valued, tasks, account, answer>>

AssetAnswers ==
    /\ at = "asset"
    /\ at' = IF input.denom \in input.params THEN "queries" ELSE "undefined"
    /\ UNCHANGED <<inputs, todo, valued, tasks, account, answer>>

\* the five queries of getAccountData()
QueriesAnswer ==
    /\ Await("queries", "collaterals")
    /\ todo' = {d \in input.infos : input.collateral[d] # 0}
    /\ UNCHANGED <<inputs, valued, tasks, account, answer>>

\* getCdpTokenUsdVal() and, after it, the look-up of the asset parameters
CollateralValued(d) ==
    /\ at = "collaterals" /\ d \in todo
    /\ input.loaded
    /\ todo' = todo \ {d}
    /\ valued' = valued \cup ({d} \cap input.params)
    /\ UNCHANGED <<inputs, at, tasks, account, answer>>

CollateralFails ==
    /\ at = "collaterals" /\ todo # {}
    /\ at' = "threw"
    /\ UNCHANGED <<inputs, todo, valued, tasks, account, answer>>

\* the end of getAccountData(); getMaxCollateralForUnlock() awaits it
Totals(stablecoin) ==
    /\ account' = [valued |-> valued, counted |-> counted,
                   stablecoin |-> stablecoin]
    /\ at' = IF method = "getAccountData" THEN "returned" ELSE "ratio"

(***************************************************************************)
(* After the collaterals the requests for the debts start; their sum is    *)
(* not awaited.  Without stablecoinDebtInfo the totals follow at once.     *)
(***************************************************************************)
CollateralsDone ==
    /\ at = "collaterals" /\ todo = {}
    /\ running' = Owed
    /\ IF input.issued
       THEN at' = "stablecoin" /\ UNCHANGED account
       ELSE Totals(0)
    /\ UNCHANGED <<inputs, todo, valued, failed, counted, answer>>

\* mutant: the interest is taken off, not added
StablecoinLessInterest ==
    /\ at = "stablecoin"
    /\ Totals(input.stablecoin - 1)
    /\ UNCHANGED <<inputs, todo, valued, tasks, answer>>

\* AccountStablecoin(); without decimals the amount is not scaled
StablecoinAnswers ==
    /\ at = "stablecoin"
    /\ Totals(IF input.loaded THEN input.stablecoin
              ELSE input.stablecoin * Scale)
    /\ UNCHANGED <<inputs, todo, valued, tasks, answer>>

\* mutant: each request adds its own value
DebtAddsItself(d) ==
    /\ d \in running /\ input.loaded
    /\ running' = running \ {d}
    /\ counted' = counted \cup {d}
    /\ UNCHANGED <<inputs, at, todo, valued, failed, account, answer>>

\* getTotalAccountTokenDebtUsdVal() of one debt; the last one resolves
\* Promise.all, whose callback adds all values
DebtValued(d) ==
    /\ d \in running /\ input.loaded
    /\ running' = running \ {d}
    /\ counted' = IF running = {d} /\ failed = {} THEN Owed ELSE counted
    /\ UNCHANGED <<inputs, at, todo, valued, failed, account, answer>>

\* a rejection that nobody handles; the sum is never added
DebtFails(d) ==
    /\ d \in running
    /\ running' = running \ {d}
    /\ failed' = failed \cup {d}
    /\ UNCHANGED <<inputs, at, todo, valued, counted, account, answer>>

\* mutant: the debts are not taken off
UnlockableIgnoringDebts ==
    Over(Whole(AvailableBorrows(account)), Whole(input.rates[1] * input.per))

\* lines 911-916: what may be unlocked, in cdp tokens
Unlockable ==
    LET ratio == IF input.devNet THEN input.rates[2] ELSE input.rates[1]
    IN Over(Whole(AvailableBorrows(account) - TotalDebts(account) * Unit),
            Whole(ratio * input.per))

\* the price of the token, the ratio and the locked amount are known
UnlockAnswers ==
    /\ Await("ratio", "returned")
    /\ LET locked == Whole(input.collateral[input.denom]) IN
       answer' = [NoAnswer EXCEPT !.answer =
                      IF Less(locked, Unlockable) THEN locked ELSE Unlockable]
    /\ UNCHANGED <<inputs, todo, valued, tasks, account>>

\* all queries about the debtor are answered; a loss is an error
DebtorAnswers ==
    /\ at = "debtor"
    /\ answer' = Liquidation(input, Whole(input.requested))
    /\ at' = IF Less(answer'.profit, Whole(0)) THEN "threw" ELSE "returned"
    /\ UNCHANGED <<inputs, todo, valued, tasks, account>>

Next == \/ Begin
        \/ QueryFails
        \/ AssetAnswers
        \/ QueriesAnswer
        \/ \E d \in Denoms : CollateralValued(d) \/ DebtValued(d) \/ DebtFails(d)
        \/ CollateralFails
        \/ CollateralsDone
        \/ StablecoinAnswers
        \/ UnlockAnswers
        \/ DebtorAnswers

Spec == Init /\ [][Next]_vars

-----------------------------------------------------------------------------
HasAccount == at \in {"ratio", "returned"} /\ method # "getMaxCollateralForLiquidator"

(* However the requests for the debts interleave with the rest of          *)
(* getAccountData(), the total it returns has all token debts in it or     *)
(* none, and none as soon as one request failed.                           *)
DebtsAllOrNothing ==
    HasAccount => \/ account.counted = {}
                  \/ account.counted = Owed /\ failed = {}

(* "add token debts" (cdp.ts:484): the total that getAccountData() returns *)
(* has the debts of the account in it, when no request fails.              *)
DebtsAreCounted ==
    HasAccount /\ input.loaded /\ failed = {} => account.counted = Owed

(* When the total was complete, what getMaxCollateralForUnlock() allows to *)
(* unlock is locked, and the borrowing power of the rest covers the debts. *)
(* It is the most: short of all that is locked, the rest covers no more    *)
(* than the debts, where line 912 divides by the loan-to-value.            *)
UnlockIsCovered ==
    at = "returned" /\ method = "getMaxCollateralForUnlock"
            /\ account.counted = Owed /\ Less(Whole(0), answer.answer)
        => LET unlocked == answer.answer
               locked == Whole(input.collateral[input.denom])
               lost == Times(unlocked, Whole(input.per * input.rates[1]))
               rest == Minus(Whole(AvailableBorrows(account)), lost)
               debts == Whole(TotalDebts(account) * Unit)
           IN /\ ~Less(locked, unlocked)
              /\ ~Less(rest, debts)
              /\ unlocked = locked \/ input.devNet \/ ~Less(debts, rest)

(* The part of a debt that may be repaid, as the comments on the parameters *)
(* have it (codec/Switcheo/carbon/cdp/params.ts:22 and 44-46): it goes from *)
(* the minimum to 1 as the debt goes from the threshold to CL; a borrow     *)
(* below the small size bypasses this, so that all of it may be repaid.     *)
RepayablePart(q) ==
    LET CL == Minus(Whole(q.threshold),
                    <<-q.complete * (q.collateral - q.threshold), Unit>>)
        progress == Over(Whole(q.debt - q.threshold),
                         Minus(CL, Whole(q.threshold)))
    IN IF q.debt < q.threshold THEN Whole(0)
       ELSE IF q.debt < q.small \/ ~Less(Whole(q.debt), CL) THEN Whole(1)
       ELSE Minus(progress, Times(Minus(progress, Whole(1)), <<q.minimum, Unit>>))

(* "small enough to be liquidated in a single transaction, bypassing        *)
(* dynamic close factor" (params.ts:44-46): when the debtor may be          *)
(* liquidated and owes less than the small size, the repayment is what the  *)
(* liquidator asks for or the whole debt, unless the collateral is less.    *)
SmallLiquidatedAtOnce ==
    LET q == input
        asked == Whole(q.requested)
        whole == Times(Whole(q.debt), DecimalMultiplier(q.debtDecimals))
    IN method = "getMaxCollateralForLiquidator" /\ at = "returned"
           /\ q.threshold <= q.debt /\ q.debt < q.small
       => \/ answer.taken = Whole(q.locked)
          \/ ~Less(answer.repaid, IF Less(asked, whole) THEN asked ELSE whole)

(* getMaxCollateralForLiquidator() never hands out more than the debtor    *)
(* has locked and, but for the rounding of half a unit, repays no more     *)
(* than was asked for or than the documented part of the debt; the         *)
(* collateral is worth the repayment at the discounted price and, unless   *)
(* it is all there is, would not be with one unit less.  The error         *)
(* "liquidator's profit is negative" comes from rounding only.             *)
LiquidationIsBounded ==
    method = "getMaxCollateralForLiquidator" /\ answer # NoAnswer =>
    LET q == input
        repayable == Times(Times(Whole(q.debt), DecimalMultiplier(q.debtDecimals)),
                           RepayablePart(q))
        Worth(amount) ==
            Times(Times(amount, DecimalMultiplier(q.debtDecimals - q.collateralDecimals)),
                  Times(<<q.twap, q.per>>, <<Unit - q.bonus, Unit>>))
        half == <<1, 2>>
    IN /\ ~Less(Whole(q.locked), answer.taken)
       /\ at = "returned" => /\ ~Less(answer.answer, Whole(0))
                             /\ ~Less(answer.taken, answer.answer)
       /\ ~Less(half, Minus(answer.repaid, Whole(q.requested)))
       /\ ~Less(half, Minus(answer.repaid, repayable))
       /\ ~Less(half, Minus(answer.repaid, Worth(answer.taken)))
       /\ \/ answer.taken = Whole(q.locked)
          \/ Less(Worth(Minus(answer.taken, Whole(1))), answer.repaid)
       /\ at = "threw" => /\ answer.taken = Whole(q.locked)
                          /\ Less(Worth(answer.taken), answer.repaid)
=============================================================================
