SPECIFICATION Spec
CONSTANTS
    Denoms = {"swth", "usc", "iusd"}
    Gecko = {"swth", "usc"}
    BuiltIn = {"swth"}
    Usc = "usc"
    Pegged = {"iusd"}
    Inits = {"i1"}
    Reloads = {"r1"}
INVARIANTS TypeOK ReadySdk ReloadPricesTokens
PROPERTY PricingWins
\* an application may stop
CHECK_DEADLOCK FALSE
