------------------------------- MODULE CdpMath -------------------------------
(***************************************************************************)
(* The arithmetic of liquidations in src/modules/cdp.ts.  A BigNumber is a *)
(* fraction <<n, d>> with d > 0; its division keeps 20 decimal places,     *)
(* which is taken as exact, and only decimalPlaces(0) rounds.              *)
(***************************************************************************)
EXTENDS Integers

CONSTANT Unit     \* BN_10000: rates are Unit-ths

ASSUME UnitAssumption == Unit \in Nat \ {0}

Fractions == Int \X (Nat \ {0})

\* BigNumber.times, div, minus, isLessThan, isGreaterThan
Times(x, y) == <<x[1] * y[1], x[2] * y[2]>>
Over(x, y) == <<x[1] * y[2], x[2] * y[1]>>
Minus(x, y) == <<x[1] * y[2] - y[1] * x[2], x[2] * y[2]>>
Less(x, y) == x[1] * y[2] < y[1] * x[2]
Lesser(x, y) == IF Less(y, x) THEN y ELSE x
Whole(n) == <<n, 1>>

\* decimalPlaces(0, ROUND_CEIL) and decimalPlaces(0), which rounds half up
RoundUp(x) == Whole(-((-x[1]) \div x[2]))
RoundHalfUp(x) == Whole((2 * x[1] + x[2]) \div (2 * x[2]))

\* BigNumber.pow of ten; a function, about which more can be proved than of ^
TenTo(n) == LET power[k \in 0 .. n] == IF k = 0 THEN 1 ELSE 10 * power[k - 1]
            IN power[n]

\* getDecimalMultiplier() of a difference of decimals
DecimalMultiplier(n) == IF n < 0 THEN <<1, TenTo(-n)>> ELSE Whole(TenTo(n))

(***************************************************************************)
(* computeCloseFactor(): the part of a debt that one liquidation may       *)
(* repay.  Between the liquidation threshold and the critical value it     *)
(* rises from minimumCloseFactor to 1.                                     *)
(***************************************************************************)
Clamped(x) == IF Less(Whole(1), x) THEN Whole(1)
              ELSE IF Less(x, Whole(0)) THEN Whole(0) ELSE x

\* mutant: the slope runs from 0, not from the minimum
CloseFactorSteep(debt, collateral, threshold, q) ==
    LET reach == q.complete * (collateral - threshold) IN
    IF debt < threshold \/ debt < q.small THEN Whole(0)
    ELSE IF reach = 0 THEN Whole(1)
    ELSE Clamped(<<q.minimum * reach + (debt - threshold) * Unit * Unit,
                   Unit * reach>>)

CloseFactor(debt, collateral, threshold, q) ==
    LET reach == q.complete * (collateral - threshold)   \* critical value
    IN                                                   \*   less threshold
    IF debt < threshold \/ debt < q.small THEN Whole(0)
    ELSE IF q.complete = 0 THEN Whole(1)
    ELSE IF reach = 0 THEN Clamped(<<q.minimum, Unit>>)
    ELSE Clamped(<<q.minimum * reach
                       + (debt - threshold) * (Unit - q.minimum) * Unit,
                   Unit * reach>>)

\* calculateCollateralRequiredForDebt() with a debt price of 1
CollateralRequired(price, debt, shift) ==
    RoundUp(Over(Times(debt, DecimalMultiplier(shift)), price))

\* calculateDebtCoveredByCollateral() with a debt price of 1
DebtCovered(price, collateral, shift) ==
    RoundHalfUp(Times(Times(price, collateral), DecimalMultiplier(-shift)))

(***************************************************************************)
(* getMaxCollateralForLiquidator() once its queries are answered: the      *)
(* repayment is limited by the close factor and by the collateral there    *)
(* is, the fee is a part of the profit.  Line 937 multiplies the price of  *)
(* the underlying token by the ratio, 1 / per.                             *)
(***************************************************************************)
Liquidation(q, requested) ==
    LET price == <<q.twap, q.per>>
        discounted == Times(price, <<Unit - q.bonus, Unit>>)
        shift == q.collateralDecimals - q.debtDecimals
        limit == Times(Times(Whole(q.debt), DecimalMultiplier(q.debtDecimals)),
                       CloseFactor(q.debt, q.collateral, q.threshold, q))
        wanted == Lesser(requested, limit)
        needed == CollateralRequired(discounted, wanted, shift)
        short == Less(Whole(q.locked), needed)
        taken == IF short THEN Whole(q.locked) ELSE needed
        repaid == IF short THEN DebtCovered(discounted, taken, shift) ELSE wanted
        profit == Minus(taken, CollateralRequired(price, repaid, shift))
    IN [repaid |-> repaid, taken |-> taken, profit |-> profit,
        answer |-> Minus(taken, Times(profit, <<q.fee, Unit>>))]
=============================================================================
