----------------------------- MODULE TokenClient -----------------------------
(***************************************************************************)
(* The start-up and the USD prices of TokenClient                          *)
(* (src/clients/TokenClient.ts).  initialize() waits for three queries and *)
(* then, whatever became of them, loads the CoinGecko names and the prices *)
(* in the background; the application reloads prices when it likes, so     *)
(* that several reloads overlap.  Of a price only the source is kept.      *)
(***************************************************************************)
EXTENDS Naturals

CONSTANTS Denoms,     \* denoms of the token list
          Gecko,      \* denoms CoinGecko has a positive price for
          BuiltIn,    \* denoms with a CoinGecko name before any reload
          Usc,        \* the native stablecoin
          Pegged,     \* iusd and cgusd, which every reload sets to 1 first
          Inits,      \* calls of initialize()
          Reloads     \* the application's calls of reloadUSDValues()

ASSUME TokenAssumption == /\ Gecko \subseteq Denoms
                          /\ BuiltIn \subseteq Denoms
                          /\ Pegged \subseteq Denoms
                          /\ Inits \cap Reloads = {}

VARIABLES tokens,         \* denoms the client has loaded
          geckoTokenNames,
          usdValues,      \* the source of each price
          initialUsdValuesLoaded,
          initialize,     \* the promise of each initialize()
          load,           \* its three queries
          geckoMap,       \* its reloadDenomGeckoMap()
          reload,         \* calls of reloadUSDValues()
          priced          \* denoms the pricing module has a price for

cacheVars == <<tokens, geckoTokenNames, usdValues, initialUsdValuesLoaded>>
initVars == <<initialize, load, geckoMap>>
tokenVars == <<cacheVars, initVars, reload, priced>>

Parts == {"tokens", "wrapperMap", "bridges"}
Sources == {"none", "pricing", "gecko", "fixed"}
Queries == {"none", "pending", "answered", "failed"}

Idle == [at |-> "none", asked |-> {}, since |-> {}]

TokenTypeOK ==
    /\ tokens \subseteq Denoms
    /\ geckoTokenNames \subseteq Denoms
    /\ usdValues \in [Denoms -> Sources]
    /\ initialUsdValuesLoaded \in BOOLEAN
    /\ initialize \in [Inits -> {"idle", "loading", "resolved", "rejected"}]
    /\ load \in [Inits -> [Parts -> Queries]]
    /\ geckoMap \in [Inits -> Queries]
    /\ reload \in [Inits \cup Reloads ->
                      [at : {"none", "gecko", "pricing", "done", "failed"},
                       asked : SUBSET Denoms,     \* denoms with a CoinGecko name
                       since : SUBSET Denoms]]    \* priced as the query left
    /\ priced \subseteq Denoms

TokenInit ==
    /\ tokens = {}
    /\ geckoTokenNames = BuiltIn
    /\ usdValues = [d \in Denoms |-> "none"]
    /\ initialUsdValuesLoaded = FALSE
    /\ initialize = [i \in Inits |-> "idle"]
    /\ load = [i \in Inits |-> [p \in Parts |-> "none"]]
    /\ geckoMap = [i \in Inits |-> "none"]
    /\ reload = [r \in Inits \cup Reloads |-> Idle]
    /\ priced \in SUBSET Denoms

-----------------------------------------------------------------------------
\* initialize(): Promise.all of three queries
Initialize(i) ==
    /\ initialize[i] = "idle"
    /\ initialize' = [initialize EXCEPT ![i] = "loading"]
    /\ load' = [load EXCEPT ![i] = [p \in Parts |-> "pending"]]
    /\ UNCHANGED <<cacheVars, geckoMap, reload, priced>>

\* the promise of initialize() settles, and its finally block runs
Finally(i, outcome) ==
    /\ initialize' = [initialize EXCEPT ![i] = outcome]
    /\ geckoMap' = [geckoMap EXCEPT ![i] = "pending"]

\* mutant: Promise.race
PartAnswersFirst(i, p) ==
    /\ load[i][p] = "pending"
    /\ load' = [load EXCEPT ![i][p] = "answered"]
    /\ tokens' = IF p = "tokens" THEN Denoms ELSE tokens
    /\ IF initialize[i] = "loading" THEN Finally(i, "resolved")
       ELSE UNCHANGED <<initialize, geckoMap>>
    /\ UNCHANGED <<geckoTokenNames, usdValues, initialUsdValuesLoaded, reload, priced>>

\* reloadTokens(), reloadWrapperMap() or getBridges() comes back
PartAnswers(i, p) ==
    /\ load[i][p] = "pending"
    /\ load' = [load EXCEPT ![i][p] = "answered"]
    /\ tokens' = IF p = "tokens" THEN Denoms ELSE tokens
    /\ IF initialize[i] = "loading" /\ \A q \in Parts \ {p} : load[i][q] = "answered"
       THEN Finally(i, "resolved")
       ELSE UNCHANGED <<initialize, geckoMap>>
    /\ UNCHANGED <<geckoTokenNames, usdValues, initialUsdValuesLoaded, reload, priced>>

\* the first failure rejects initialize() while the others go on
PartFails(i, p) ==
    /\ load[i][p] = "pending"
    /\ load' = [load EXCEPT ![i][p] = "failed"]
    /\ IF initialize[i] = "loading"
       THEN Finally(i, "rejected")
       ELSE UNCHANGED <<initialize, geckoMap>>
    /\ UNCHANGED <<cacheVars, reload, priced>>

\* reloadUSDValues() up to its first await: some prices are set to 1, also
\* over a price of the pricing module, and CoinGecko is asked for the rest
PegUsdValues == usdValues' = [d \in Denoms |-> IF d \in Pegged THEN "fixed"
                                               ELSE usdValues[d]]

Starting(denoms, names) ==
    [at |-> "gecko", asked |-> denoms \cap names, since |-> {}]

\* reloadDenomGeckoMap() settles; finally() reloads the prices either way
GeckoMapSettles(i) ==
    /\ geckoMap[i] = "pending"
    /\ \E names \in {geckoTokenNames, Denoms} :
          /\ geckoMap' = [geckoMap EXCEPT
                 ![i] = IF names = Denoms THEN "answered" ELSE "failed"]
          /\ geckoTokenNames' = names
          /\ reload' = [reload EXCEPT ![i] = Starting(tokens, names)]
    /\ PegUsdValues
    /\ UNCHANGED <<tokens, initialUsdValuesLoaded, initialize, load, priced>>

ReloadUSDValues(r) ==
    /\ reload[r] = Idle
    /\ reload' = [reload EXCEPT ![r] = Starting(tokens, geckoTokenNames)]
    /\ PegUsdValues
    /\ UNCHANGED <<tokens, geckoTokenNames, initialUsdValuesLoaded, initVars, priced>>

GeckoAnswers(r) ==
    /\ reload[r].at = "gecko"
    /\ reload' = [reload EXCEPT ![r].at = "pricing", ![r].since = priced]
    /\ UNCHANGED <<cacheVars, initVars, priced>>

\* mutant: CoinGecko comes first
UsdValuesGeckoFirst(r, prices) ==
    [d \in Denoms |-> IF d \in reload[r].asked \cap Gecko THEN "gecko"
                      ELSE IF d \in prices THEN "pricing" ELSE usdValues[d]]

\* mutant: prices of zero are stored
UsdValuesUnchecked(r, prices) ==
    [d \in Denoms |-> IF d \in prices THEN "pricing"
                      ELSE IF usdValues[d] # "none" THEN usdValues[d]
                      ELSE IF d \in reload[r].asked \cap Gecko THEN "gecko"
                      ELSE "zero"]

\* the pricing module's prices first, then CoinGecko's where there is none;
\* the names that select CoinGecko's prices are those the query was made with
UsdValues(r, prices) ==
    [d \in Denoms |-> IF d \in prices THEN "pricing"
                      ELSE IF usdValues[d] # "none" THEN usdValues[d]
                      ELSE IF d \notin reload[r].asked \cap Gecko THEN "none"
                      ELSE IF d = Usc THEN "fixed" ELSE "gecko"]

PricingAnswers(r) ==
    /\ reload[r].at = "pricing"
    /\ \E prices \in SUBSET priced :
          /\ reload[r].since \subseteq prices
          /\ usdValues' = UsdValues(r, prices)
    /\ initialUsdValuesLoaded' = TRUE
    /\ reload' = [reload EXCEPT ![r] = [Idle EXCEPT !.at = "done"]]
    /\ UNCHANGED <<tokens, geckoTokenNames, initVars, priced>>

ReloadFails(r) ==
    /\ reload[r].at \in {"gecko", "pricing"}
    /\ reload' = [reload EXCEPT ![r] = [Idle EXCEPT !.at = "failed"]]
    /\ UNCHANGED <<cacheVars, initVars, priced>>

\* the chain: an oracle starts to price a denom
Prices(d) == /\ d \notin priced
             /\ priced' = priced \cup {d}
             /\ UNCHANGED <<cacheVars, initVars, reload>>

Background ==
    \/ \E i \in Inits : \/ \E p \in Parts : PartAnswers(i, p) \/ PartFails(i, p)
                        \/ GeckoMapSettles(i)
    \/ \E r \in Inits \cup Reloads : \/ GeckoAnswers(r)
                                     \/ PricingAnswers(r)
                                     \/ ReloadFails(r)
    \/ \E d \in Denoms : Prices(d)

-----------------------------------------------------------------------------
(* "if token price in pricing module exists for denom, return that as usd  *)
(* price first" (TokenClient.ts:668): however reloads overlap, no price    *)
(* disappears and none of the pricing module gives way to another source.  *)
(* Not so for the pegged denoms: a reload that starts drops their price,   *)
(* and for good when it fails.                                             *)
PricingWins ==
    [][\A d \in Denoms :
          /\ usdValues[d] = "pricing" /\ d \notin Pegged
                => usdValues'[d] = "pricing"
          /\ usdValues[d] # "none" => usdValues'[d] # "none"]_tokenVars

(* When initialize() has resolved and its background reload is done, every *)
(* token that CoinGecko prices and the client had a name for has a value;  *)
(* the reload must not start on a token list that is still loading.        *)
ReloadPricesTokens ==
    \A i \in Inits :
        initialize[i] = "resolved" /\ reload[i].at = "done"
            => \A d \in BuiltIn \cap Gecko : usdValues[d] # "none"
=============================================================================
