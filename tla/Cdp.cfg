SPECIFICATION Spec
CONSTANTS
    d1 = d1
    d2 = d2
    Denoms = {d1, d2}
    Amounts = {0, 2}
    Rates <- MCRates
    Pers = {1, 2}
    Unit = 2
    Scale = 10
    Liquidations <- MCLiquidations
SYMMETRY DenomSymmetry
INVARIANTS TypeOK DebtsAllOrNothing UnlockIsCovered LiquidationIsBounded
\* a call that has returned or thrown is over
CHECK_DEADLOCK FALSE
