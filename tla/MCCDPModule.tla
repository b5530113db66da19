---------------------------- MODULE MCCDPModule ----------------------------
(* Instances of CDPModule for TLC.                                          *)
EXTENDS CDPModule, TLC

CONSTANT d1, d2

MCRates == {<<1, 2>>, <<2, 2>>, <<1, 1>>}

MCLiquidations ==
    {q \in [debt : 0 .. 3, collateral : {2, 4}, threshold : {1, 2}, small : {0, 2},
            minimum : 0 .. Unit, complete : 0 .. Unit, twap : {1, 3}, per : {1, 2},
            bonus : {0, 1}, fee : {0, 1}, requested : {1, 3, 20}, locked : {0, 1, 7},
            collateralDecimals : {0, 1}, debtDecimals : {0, 1}, loaded : BOOLEAN] :
        q.threshold <= q.collateral}

DenomSymmetry == Permutations(Denoms)
=============================================================================
