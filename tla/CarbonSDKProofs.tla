--------------------------- MODULE CarbonSDKProofs ---------------------------
(***************************************************************************)
(* What an SDK that is handed out has, for any token list and any number   *)
(* of initialize() and reloadUSDValues() calls that overlap and fail.      *)
(***************************************************************************)
EXTENDS CarbonSDK, TLAPS

\* the token client's part of every step
TokenStep == \/ \E i \in Inits : Initialize(i)
             \/ \E r \in Reloads : ReloadUSDValues(r)
             \/ Background
             \/ UNCHANGED tokenVars

LEMMA TokensStep == ASSUME [Next]_vars PROVE TokenStep
  BY DEF Next, vars, TokenStep, StatusAnswers, StatusFails, ConnectGasAnswers,
         ConnectWalletAnswers, GasAnswers, ChainIdAnswers, TokenReady,
         WalletAnswers, CallFails, AppConnects, AppInitializes, AppDisconnects,
         AppReloads

-----------------------------------------------------------------------------
(* Types                                                                    *)

Calls == [at : {"none", "gecko", "pricing", "done", "failed"},
          asked : SUBSET Denoms, since : SUBSET Denoms]

\* no step shrinks the token list or a name list
LEMMA TokenTypes == ASSUME TokenTypeOK, TokenStep PROVE TokenTypeOK'
<1>1. reload \in [Inits \cup Reloads -> Calls]
  BY DEF TokenTypeOK, Calls
<1>2. ASSUME NEW i \in Inits, Initialize(i) PROVE TokenTypeOK'
  BY <1>2 DEF Initialize, TokenTypeOK, cacheVars, Queries
<1>3. ASSUME NEW i \in Inits, NEW p \in Parts, PartAnswers(i, p) \/ PartFails(i, p)
      PROVE  TokenTypeOK'
  <2>1. load' \in [Inits -> [Parts -> Queries]]
    <3>1. load[i] \in [Parts -> Queries]
      BY DEF TokenTypeOK
    <3>2. \A q \in {"answered", "failed"} :
              [load[i] EXCEPT ![p] = q] \in [Parts -> Queries]
      BY <3>1 DEF Queries
    <3>3. \E q \in {"answered", "failed"} :
              load' = [load EXCEPT ![i] = [load[i] EXCEPT ![p] = q]]
      BY <1>3 DEF PartAnswers, PartFails
    <3> DEFINE Part == [Parts -> Queries]
    <3> HIDE DEF Part
    <3>4. load \in [Inits -> Part]
      BY DEF TokenTypeOK, Part
    <3>5. \A q \in {"answered", "failed"} : [load[i] EXCEPT ![p] = q] \in Part
      BY <3>2 DEF Part
    <3>6. load' \in [Inits -> Part]
      BY <3>3, <3>4, <3>5
    <3> QED  BY <3>6 DEF Part
  <2>2. /\ initialize' \in [Inits -> {"idle", "loading", "resolved", "rejected"}]
        /\ geckoMap' \in [Inits -> Queries]
    BY <1>3 DEF PartAnswers, PartFails, Finally, TokenTypeOK, Queries
  <2> QED  BY <1>3, <2>1, <2>2
           DEF PartAnswers, PartFails, TokenTypeOK, cacheVars
<1>4. ASSUME NEW i \in Inits, GeckoMapSettles(i) PROVE TokenTypeOK'
  <2>1. PICK names \in {geckoTokenNames, Denoms} :
            /\ geckoMap' = [geckoMap EXCEPT
                   ![i] = IF names = Denoms THEN "answered" ELSE "failed"]
            /\ geckoTokenNames' = names
            /\ reload' = [reload EXCEPT ![i] = Starting(tokens, names)]
    BY <1>4 DEF GeckoMapSettles
  <2>2. Starting(tokens, names) \in Calls
    BY DEF Starting, Calls, TokenTypeOK
  <2>3. reload' \in [Inits \cup Reloads -> Calls]
    <3> HIDE DEF Calls
    <3> QED  BY <1>1, <2>1, <2>2
  <2>4. geckoMap' \in [Inits -> Queries] /\ geckoTokenNames' \subseteq Denoms
    BY <2>1 DEF TokenTypeOK, Queries
  <2>5. usdValues' \in [Denoms -> Sources]
    BY <1>4 DEF GeckoMapSettles, PegUsdValues, TokenTypeOK, Sources
  <2> QED  BY <1>4, <2>3, <2>4, <2>5 DEF GeckoMapSettles, TokenTypeOK, Calls
<1>5. ASSUME NEW r \in Reloads, ReloadUSDValues(r) PROVE TokenTypeOK'
  <2>1. Starting(tokens, geckoTokenNames) \in Calls
    BY DEF Starting, Calls, TokenTypeOK
  <2>2. reload' \in [Inits \cup Reloads -> Calls]
    <3> HIDE DEF Calls
    <3> QED  BY <1>1, <1>5, <2>1 DEF ReloadUSDValues
  <2>3. usdValues' \in [Denoms -> Sources]
    BY <1>5 DEF ReloadUSDValues, PegUsdValues, TokenTypeOK, Sources
  <2> QED  BY <1>5, <2>2, <2>3
           DEF ReloadUSDValues, TokenTypeOK, Calls, cacheVars, initVars
<1>6. ASSUME NEW r \in Inits \cup Reloads,
             GeckoAnswers(r) \/ PricingAnswers(r) \/ ReloadFails(r)
      PROVE  TokenTypeOK'
  <2>1. reload' \in [Inits \cup Reloads -> Calls]
    <3>1. reload[r] \in Calls
      BY <1>1
    <3>2. \A s \in {"done", "failed"} : [Idle EXCEPT !.at = s] \in Calls
      BY DEF Idle, Calls
    <3>3. [reload[r] EXCEPT !.at = "pricing", !.since = priced] \in Calls
      BY <3>1 DEF Calls, TokenTypeOK
    <3>4. \/ reload' = [reload EXCEPT ![r] = [reload[r] EXCEPT !.at = "pricing", !.since = priced]]
          \/ \E s \in {"done", "failed"} :
                reload' = [reload EXCEPT ![r] = [Idle EXCEPT !.at = s]]
      BY <1>6 DEF GeckoAnswers, PricingAnswers, ReloadFails
    <3> HIDE DEF Calls
    <3> QED  BY <1>1, <3>2, <3>3, <3>4
  <2>2. usdValues' \in [Denoms -> Sources]
    BY <1>6 DEF GeckoAnswers, PricingAnswers, ReloadFails, UsdValues, TokenTypeOK,
                Sources, cacheVars
  <2> QED  BY <1>6, <2>1, <2>2
           DEF GeckoAnswers, PricingAnswers, ReloadFails, TokenTypeOK, Calls,
               cacheVars, initVars
<1>7. ASSUME NEW d \in Denoms, Prices(d) PROVE TokenTypeOK'
  BY <1>7 DEF Prices, TokenTypeOK, cacheVars, initVars
<1>8. CASE UNCHANGED tokenVars
  BY <1>8 DEF tokenVars, cacheVars, initVars, TokenTypeOK
<1> QED  BY <1>2, <1>3, <1>4, <1>5, <1>6, <1>7, <1>8 DEF TokenStep, Background

LEMMA InitTypes == Init => TypeOK
<1> SUFFICES ASSUME Init PROVE TypeOK
  OBVIOUS
<1>1. Idle \in Calls
  BY DEF Idle, Calls
<1>2. reload \in [Inits \cup Reloads -> Calls]
  <2> HIDE DEF Calls
  <2> QED  BY <1>1 DEF Init, TokenInit
<1>3. load \in [Inits -> [Parts -> Queries]]
  BY DEF Init, TokenInit, Queries
<1> QED  BY <1>2, <1>3, TokenAssumption
         DEF Init, TypeOK, TokenInit, TokenTypeOK, Calls, Sources, Queries

LEMMA NextTypes == ASSUME TypeOK, [Next]_vars PROVE TypeOK'
<1>1. TokenTypeOK'
  BY TokensStep, TokenTypes DEF TypeOK
<1> QED  BY <1>1
         DEF TypeOK, Next, vars, sdkVars, StatusAnswers, StatusFails,
             ConnectGasAnswers, ConnectWalletAnswers, GasAnswers, ChainIdAnswers,
             TokenReady, WalletAnswers, CallFails, AppConnects, AppInitializes,
             AppDisconnects, AppReloads, AfterConnect, Resolve

\* The SDK, its token client and the calls stay in their domains.
THEOREM Typing == Spec => []TypeOK
<1> QED  BY InitTypes, NextTypes, PTL DEF Spec

-----------------------------------------------------------------------------
(* The token client: what a resolved initialize() and a finished reload     *)
(* have done.                                                               *)

Loaded ==
    \A i \in Inits :
        /\ initialize[i] = "resolved" => \A p \in Parts : load[i][p] = "answered"
        /\ load[i]["tokens"] = "answered" => tokens = Denoms

\* a background reload starts after its initialize() has settled
Named ==
    /\ BuiltIn \subseteq geckoTokenNames
    /\ \A i \in Inits :
          /\ geckoMap[i] # "none" => initialize[i] \in {"resolved", "rejected"}
          /\ reload[i].at # "none" => geckoMap[i] \in {"answered", "failed"}
          /\ initialize[i] = "resolved" /\ reload[i].at \in {"gecko", "pricing"}
                => BuiltIn \subseteq reload[i].asked

TokenInv == Loaded /\ Named /\ ReloadPricesTokens

LEMMA InitTokens == Init => TokenInv
<1> SUFFICES ASSUME Init PROVE TokenInv
  OBVIOUS
<1>1. Idle.at = "none" /\ "tokens" \in Parts
  BY DEF Idle, Parts
<1>2. \A i \in Inits : /\ initialize[i] = "idle" /\ geckoMap[i] = "none"
                       /\ load[i]["tokens"] = "none" /\ reload[i].at = "none"
  BY <1>1 DEF Init, TokenInit
<1> QED  BY <1>2 DEF Init, TokenInit, TokenInv, Loaded, Named, ReloadPricesTokens

LEMMA LoadedStays == ASSUME TokenTypeOK, Loaded, TokenStep PROVE Loaded'
<1>0. "tokens" \in Parts
  BY DEF Parts
<1>1. ASSUME NEW i \in Inits, Initialize(i) PROVE Loaded'
  <2>1. initialize'[i] = "loading" /\ load'[i]["tokens"] = "pending"
    BY <1>0, <1>1 DEF Initialize, TokenTypeOK
  <2>2. \A j \in Inits \ {i} : initialize'[j] = initialize[j] /\ load'[j] = load[j]
    BY <1>1 DEF Initialize, TokenTypeOK
  <2> QED  BY <1>1, <2>1, <2>2 DEF Initialize, Loaded, cacheVars
<1>2. ASSUME NEW i \in Inits, NEW p \in Parts, PartAnswers(i, p) \/ PartFails(i, p)
      PROVE  Loaded'
  <2> SUFFICES ASSUME NEW j \in Inits
               PROVE  /\ initialize'[j] = "resolved" => \A q \in Parts : load'[j][q] = "answered"
                      /\ load'[j]["tokens"] = "answered" => tokens' = Denoms
    BY DEF Loaded
  <2>1. /\ \A q \in Parts : load'[j][q] = "answered" =>
              load[j][q] = "answered" \/ (j = i /\ q = p /\ PartAnswers(i, p))
        /\ \A q \in Parts : load[j][q] = "answered" => load'[j][q] = "answered"
    BY <1>2 DEF PartAnswers, PartFails, TokenTypeOK
  <2>2. tokens = Denoms => tokens' = Denoms
    BY <1>2 DEF PartAnswers, PartFails, cacheVars
  <2>3. PartAnswers(i, "tokens") => tokens' = Denoms
    BY DEF PartAnswers
  <2>4. load'[j]["tokens"] = "answered" => tokens' = Denoms
    BY <1>0, <2>1, <2>2, <2>3 DEF Loaded
  <2>5. initialize'[j] = "resolved" =>
          \/ initialize[j] = "resolved"
          \/ j = i /\ PartAnswers(i, p) /\ \A q \in Parts \ {p} : load[i][q] = "answered"
    BY <1>2 DEF PartAnswers, PartFails, Finally, TokenTypeOK
  <2>6. PartAnswers(i, p) => load'[i][p] = "answered"
    BY DEF PartAnswers, TokenTypeOK
  <2> QED  BY <2>1, <2>4, <2>5, <2>6 DEF Loaded
<1>3. ASSUME UNCHANGED <<tokens, initialize, load>> PROVE Loaded'
  BY <1>3 DEF Loaded
<1> QED  BY <1>1, <1>2, <1>3
         DEF TokenStep, Background, GeckoMapSettles, ReloadUSDValues,
             GeckoAnswers, PricingAnswers, ReloadFails, Prices, tokenVars,
             cacheVars, initVars

\* a step of one reload leaves the others alone, and the names it asked for
LEMMA ReloadAdvances ==
    ASSUME TokenTypeOK, NEW r \in Inits \cup Reloads,
           GeckoAnswers(r) \/ PricingAnswers(r) \/ ReloadFails(r)
    PROVE  /\ UNCHANGED <<tokens, geckoTokenNames, initVars>>
           /\ reload[r].at # "none"
           /\ \A s \in Inits \cup Reloads :
                 /\ reload'[s].at \in {"gecko", "pricing"}
                       => /\ reload[s].at \in {"gecko", "pricing"}
                          /\ reload'[s].asked = reload[s].asked
                 /\ s # r => reload'[s] = reload[s]
                 /\ s = r => reload'[s].at # "none"
  BY DEF GeckoAnswers, PricingAnswers, ReloadFails, Idle, TokenTypeOK, cacheVars

LEMMA NamedStays == ASSUME TokenTypeOK, Loaded, Named, TokenStep PROVE Named'
<1>0. "tokens" \in Parts
  BY DEF Parts
<1>1. ASSUME NEW i \in Inits, Initialize(i) PROVE Named'
  BY <1>1 DEF Initialize, Named, TokenTypeOK, cacheVars
<1>2. ASSUME NEW i \in Inits, NEW p \in Parts, PartAnswers(i, p) \/ PartFails(i, p)
      PROVE  Named'
  BY <1>2 DEF PartAnswers, PartFails, Finally, Named, TokenTypeOK, cacheVars
<1>3. ASSUME NEW i \in Inits, GeckoMapSettles(i) PROVE Named'
  <2>1. PICK names \in {geckoTokenNames, Denoms} :
            /\ geckoMap' = [geckoMap EXCEPT
                   ![i] = IF names = Denoms THEN "answered" ELSE "failed"]
            /\ geckoTokenNames' = names
            /\ reload' = [reload EXCEPT ![i] = Starting(tokens, names)]
    BY <1>3 DEF GeckoMapSettles
  <2>2. BuiltIn \subseteq names
    BY <2>1, TokenAssumption DEF Named
  <2>3. initialize[i] = "resolved" => tokens = Denoms
    BY <1>0 DEF Loaded
  <2>4. Starting(tokens, names).asked = tokens \cap names
    BY DEF Starting
  <2>5. initialize[i] = "resolved" => BuiltIn \subseteq reload'[i].asked
    BY <2>1, <2>2, <2>3, <2>4, TokenAssumption DEF TokenTypeOK
  <2>6. geckoMap'[i] \in {"answered", "failed"} /\ geckoMap[i] = "pending"
    BY <1>3, <2>1 DEF GeckoMapSettles, TokenTypeOK
  <2>7. \A j \in Inits \ {i} : reload'[j] = reload[j] /\ geckoMap'[j] = geckoMap[j]
    BY <2>1 DEF TokenTypeOK
  <2> QED  BY <1>3, <2>1, <2>2, <2>5, <2>6, <2>7 DEF GeckoMapSettles, Named
<1>4. ASSUME NEW r \in Reloads, ReloadUSDValues(r) PROVE Named'
  <2>1. \A i \in Inits : reload'[i] = reload[i]
    BY <1>4, TokenAssumption DEF ReloadUSDValues, TokenTypeOK
  <2> QED  BY <1>4, <2>1 DEF ReloadUSDValues, Named, cacheVars, initVars
<1>5. ASSUME NEW r \in Inits \cup Reloads,
             GeckoAnswers(r) \/ PricingAnswers(r) \/ ReloadFails(r)
      PROVE  Named'
  BY <1>5, ReloadAdvances DEF Named, initVars
<1> QED  BY <1>1, <1>2, <1>3, <1>4, <1>5
         DEF TokenStep, Background, Named, Prices, tokenVars, cacheVars, initVars

\* storing prices keeps those there are
LEMMA PricesStay ==
    ASSUME TokenStep
    PROVE  \A d \in Denoms :
              /\ usdValues[d] = "pricing" /\ d \notin Pegged
                    => usdValues'[d] = "pricing"
              /\ usdValues[d] # "none" => usdValues'[d] # "none"
<1>1. ASSUME NEW r \in Inits \cup Reloads, PricingAnswers(r), NEW d \in Denoms
      PROVE  /\ usdValues[d] = "pricing" => usdValues'[d] = "pricing"
             /\ usdValues[d] # "none" => usdValues'[d] # "none"
  BY <1>1 DEF PricingAnswers, UsdValues
<1>2. ASSUME PegUsdValues, NEW d \in Denoms
      PROVE  usdValues'[d] = IF d \in Pegged THEN "fixed" ELSE usdValues[d]
  BY <1>2 DEF PegUsdValues
<1> QED  BY <1>1, <1>2
         DEF TokenStep, Background, Initialize, PartAnswers, PartFails,
             GeckoMapSettles, ReloadUSDValues, GeckoAnswers, ReloadFails, Prices,
             tokenVars, cacheVars

LEMMA PricedStays ==
    ASSUME TokenTypeOK, TokenInv, TokenStep PROVE ReloadPricesTokens'
<1> SUFFICES ASSUME NEW i \in Inits, initialize'[i] = "resolved",
                    reload'[i].at = "done", NEW d \in BuiltIn \cap Gecko
             PROVE  usdValues'[d] # "none"
  BY DEF ReloadPricesTokens
<1>1. d \in Denoms
  BY TokenAssumption
<1>2. CASE initialize[i] = "resolved" /\ reload[i].at = "done"
  BY <1>1, <1>2, PricesStay DEF TokenInv, ReloadPricesTokens
<1>3. ASSUME PricingAnswers(i) PROVE usdValues'[d] # "none"
  <2>1. d \in reload[i].asked
    BY <1>3 DEF PricingAnswers, TokenInv, Named, initVars
  <2> QED  BY <1>1, <1>3, <2>1 DEF PricingAnswers, UsdValues
<1>4. ASSUME initialize[i] # "resolved" PROVE FALSE
  <2>1. ASSUME NEW j \in Inits, NEW p \in Parts, PartAnswers(j, p) PROVE FALSE
    \* the promise has just settled, so no reload of it can be done
    <3>1. i = j /\ initialize[i] = "loading" /\ UNCHANGED reload
      BY <1>4, <2>1 DEF PartAnswers, Finally, TokenTypeOK
    <3> QED  BY <3>1 DEF TokenInv, Named
  <2> QED  BY <1>4, <2>1
           DEF TokenStep, Background, Initialize, PartFails, Finally,
               GeckoMapSettles, ReloadUSDValues, GeckoAnswers, PricingAnswers,
               ReloadFails, Prices, tokenVars, cacheVars, initVars, TokenTypeOK
<1>5. ASSUME reload[i].at # "done" PROVE PricingAnswers(i)
  <2>1. ASSUME NEW r \in Inits \cup Reloads, PricingAnswers(r) PROVE PricingAnswers(i)
    BY <1>5, <2>1, ReloadAdvances DEF TokenTypeOK
  <2>2. ASSUME NEW r \in Inits \cup Reloads, GeckoAnswers(r) \/ ReloadFails(r)
        PROVE  FALSE
    BY <1>5, <2>2 DEF GeckoAnswers, ReloadFails, Idle, TokenTypeOK
  <2>3. ASSUME NEW j \in Inits, GeckoMapSettles(j) PROVE FALSE
    BY <1>5, <2>3 DEF GeckoMapSettles, Starting, TokenTypeOK
  <2>4. ASSUME NEW r \in Reloads, ReloadUSDValues(r) PROVE FALSE
    BY <1>5, <2>4 DEF ReloadUSDValues, Starting, TokenTypeOK
  <2> QED  BY <1>5, <2>1, <2>2, <2>3, <2>4
           DEF TokenStep, Background, Initialize, PartAnswers, PartFails, Prices,
               tokenVars, initVars
<1> QED  BY <1>2, <1>3, <1>4, <1>5

LEMMA TokensKeep ==
    ASSUME TokenTypeOK, TokenInv, TokenStep PROVE TokenInv'
  BY LoadedStays, NamedStays, PricedStays DEF TokenInv

-----------------------------------------------------------------------------
(* The calls of the SDK                                                     *)

\* what a call has done when it awaits at a point
Progress ==
    /\ at = "idle" => held
    /\ ~held /\ at \in {"gas", "chainId", "token", "wallet"}
          => (opts.wallet => wallet)
    /\ at \in {"token", "wallet"} => gasFee
    /\ at = "token" => current # {}
    /\ at = "wallet" => tokens = Denoms

IInv == TypeOK /\ TokenInv /\ Progress /\ ReadySdk

LEMMA InitInvariant == Init => IInv
  BY InitTypes, InitTokens DEF Init, IInv, Progress, ReadySdk

LEMMA TokensLoadOnce ==
    ASSUME TokenTypeOK, Loaded, TokenStep PROVE tokens = Denoms => tokens' = Denoms
  BY DEF TokenStep, Background, Initialize, PartAnswers, PartFails,
         GeckoMapSettles, ReloadUSDValues, GeckoAnswers, PricingAnswers,
         ReloadFails, Prices, tokenVars, cacheVars

LEMMA NextInvariant == ASSUME IInv, [Next]_vars PROVE IInv'
<1>1. TypeOK' /\ TokenInv' /\ (tokens = Denoms => tokens' = Denoms)
  BY TokensStep, NextTypes, TokensKeep, TokensLoadOnce DEF IInv, TypeOK, TokenInv
<1>2. TokenReady => tokens = Denoms
  <2> SUFFICES ASSUME TokenReady PROVE tokens = Denoms
    OBVIOUS
  <2>1. PICK i \in current : TRUE
    BY DEF IInv, Progress, TokenReady
  <2>2. i \in Inits /\ initialize[i] = "resolved"
    BY <2>1 DEF TokenReady, IInv, TypeOK
  <2> QED  BY <2>2 DEF IInv, TokenInv, Loaded, Parts
<1>3. CASE StatusAnswers \/ StatusFails
  BY <1>1, <1>3 DEF IInv, TypeOK, Progress, ReadySdk, StatusAnswers, StatusFails,
                    AfterConnect, Resolve, tokenVars, cacheVars
<1>4. CASE ConnectGasAnswers \/ ConnectWalletAnswers \/ GasAnswers
  BY <1>1, <1>4 DEF IInv, TypeOK, Progress, ReadySdk, ConnectGasAnswers,
                    ConnectWalletAnswers, GasAnswers, AfterConnect, Resolve
<1>5. ASSUME NEW i \in Inits, ChainIdAnswers(i) PROVE IInv'
  BY <1>1, <1>5 DEF IInv, TypeOK, Progress, ReadySdk, ChainIdAnswers
<1>6. CASE TokenReady \/ WalletAnswers
  BY <1>1, <1>2, <1>6 DEF IInv, TypeOK, Progress, ReadySdk, TokenReady,
                          WalletAnswers, Resolve
<1>7. CASE CallFails
  BY <1>1, <1>7 DEF IInv, TypeOK, Progress, ReadySdk, CallFails
<1>8. CASE AppConnects \/ AppInitializes \/ AppDisconnects
  BY <1>1, <1>8 DEF IInv, TypeOK, Progress, ReadySdk, AppConnects,
                    AppInitializes, AppDisconnects
<1>9. ASSUME UNCHANGED sdkVars PROVE IInv'
  BY <1>1, <1>9 DEF IInv, TypeOK, Progress, ReadySdk, sdkVars
<1> QED  BY <1>3, <1>4, <1>5, <1>6, <1>7, <1>8, <1>9
         DEF Next, vars, AppReloads

LEMMA Invariance == Spec => []IInv
<1> QED  BY InitInvariant, NextInvariant, PTL DEF Spec

\* instance(), initialize() and connect(): the SDK handed out has what it was
\* asked for, whatever fails on the way.
THEOREM ReadySdkHolds == Spec => []ReadySdk
<1>1. IInv => ReadySdk
  BY DEF IInv
<1> QED  BY <1>1, Invariance, PTL

\* initialize() of the token client: its background reload starts on the
\* whole token list.
THEOREM ReloadPricesTokensHolds == Spec => []ReloadPricesTokens
<1>1. IInv => ReloadPricesTokens
  BY DEF IInv, TokenInv
<1> QED  BY <1>1, Invariance, PTL

\* reloadUSDValues(): no price disappears and, but for the denoms that every
\* reload sets to 1 as it starts, no price of the pricing module is displaced.
THEOREM PricingWinsHolds == Spec => PricingWins
<1>1. ASSUME [Next]_vars
      PROVE  [\A d \in Denoms :
                 /\ usdValues[d] = "pricing" /\ d \notin Pegged
                       => usdValues'[d] = "pricing"
                 /\ usdValues[d] # "none" => usdValues'[d] # "none"]_tokenVars
  BY <1>1, TokensStep, PricesStay
<1> QED  BY <1>1, PTL DEF Spec, PricingWins
=============================================================================
