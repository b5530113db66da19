------------------------------ MODULE CarbonSDK ------------------------------
(***************************************************************************)
(* The life cycle of CarbonSDK (src/CarbonSDK.ts): instance(), initialize()*)
(* and connect() as steps from await to await, with the TokenClient that   *)
(* they start and CarbonWallet.initialize().  After instance() the         *)
(* application makes further calls, one at a time.                         *)
(***************************************************************************)
EXTENDS TokenClient

VARIABLES opts,           \* what instance() was given, less what was disconnected
          at,             \* where the running call awaits; "idle": the
                          \*   application holds the SDK
          held,           \* has instance() resolved?
          normalInit,
          gasFee,         \* does the SDK have its gas fees?
          wallet,         \* is this.wallet set?
          walletReady,    \* wallet.initialized
          current         \* the running token.initialize()

sdkVars == <<opts, at, held, normalInit, gasFee, wallet, walletReady, current>>
vars == <<sdkVars, tokenVars>>

TypeOK ==
    /\ TokenTypeOK
    /\ opts \in [wallet : BOOLEAN, skipInit : BOOLEAN]
    /\ at \in {"status", "connectGas", "connectWallet", "gas", "chainId",
               "token", "wallet", "idle", "rejected"}
    /\ held \in BOOLEAN /\ normalInit \in BOOLEAN /\ gasFee \in BOOLEAN
    /\ wallet \in BOOLEAN /\ walletReady \in BOOLEAN
    /\ current \in SUBSET Inits

Init == /\ TokenInit
        /\ opts \in [wallet : BOOLEAN, skipInit : BOOLEAN]
        /\ at = "status"
        /\ held = FALSE
        /\ normalInit = TRUE
        /\ gasFee = FALSE
        /\ wallet = FALSE
        /\ walletReady \in BOOLEAN     \* the wallet may have been used before
        /\ current = {}

-----------------------------------------------------------------------------
\* a call resolves, instance() for the first time
Resolve == /\ at' = "idle"
           /\ held' = TRUE

\* instance() after connect()
AfterConnect ==
    IF held \/ opts.skipInit THEN Resolve ELSE at' = "gas" /\ UNCHANGED held

StatusAnswers ==
    /\ at = "status"
    /\ IF opts.wallet /\ ~walletReady
       THEN at' = "connectGas" /\ UNCHANGED <<held, wallet>>
       ELSE AfterConnect /\ wallet' = opts.wallet
    /\ UNCHANGED <<opts, normalInit, gasFee, walletReady, current, tokenVars>>

\* "tm client init failed": the SDK is returned as it is
StatusFails ==
    /\ at = "status"
    /\ normalInit' = FALSE
    /\ Resolve
    /\ UNCHANGED <<opts, gasFee, wallet, walletReady, current, tokenVars>>

\* getGasFee() of connect(), which does not keep the fees
ConnectGasAnswers ==
    /\ at = "connectGas"
    /\ at' = "connectWallet"
    /\ UNCHANGED <<opts, held, normalInit, gasFee, wallet, walletReady, current, tokenVars>>

\* wallet.initialize() of connect()
ConnectWalletAnswers ==
    /\ at = "connectWallet"
    /\ walletReady' = TRUE
    /\ wallet' = TRUE
    /\ AfterConnect
    /\ UNCHANGED <<opts, normalInit, gasFee, current, tokenVars>>

\* initialize(): the fees are queried once
GasAnswers ==
    /\ at = "gas"
    /\ at' = "chainId"
    /\ UNCHANGED <<opts, held, normalInit, gasFee, wallet, walletReady, current, tokenVars>>

ChainIdAnswers(i) ==
    /\ at = "chainId"
    /\ gasFee' = TRUE
    /\ Initialize(i)
    /\ current' = {i}
    /\ at' = "token"
    /\ UNCHANGED <<opts, held, normalInit, wallet, walletReady>>

TokenReady ==
    /\ at = "token"
    /\ \A i \in current : initialize[i] = "resolved"
    /\ IF wallet THEN at' = "wallet" /\ UNCHANGED held ELSE Resolve
    /\ UNCHANGED <<opts, normalInit, gasFee, wallet, walletReady, current, tokenVars>>

WalletAnswers ==
    /\ at = "wallet"
    /\ walletReady' = TRUE
    /\ Resolve
    /\ UNCHANGED <<opts, normalInit, gasFee, wallet, current, tokenVars>>

\* mutant: connect() swallows every error
FailsQuietly ==
    /\ at \in {"connectGas", "connectWallet"}
    /\ wallet' = TRUE
    /\ AfterConnect
    /\ UNCHANGED <<opts, normalInit, gasFee, walletReady, current, tokenVars>>

\* an awaited call rejects, and with it the call that awaits it
CallFails ==
    /\ \/ at \in {"connectGas", "connectWallet", "gas", "chainId", "wallet"}
       \/ at = "token" /\ \E i \in current : initialize[i] = "rejected"
    /\ at' = IF held THEN "idle" ELSE "rejected"
    /\ UNCHANGED <<opts, held, normalInit, gasFee, wallet, walletReady, current, tokenVars>>

-----------------------------------------------------------------------------
\* the application, once it holds the SDK
AppConnects ==
    /\ at = "idle"
    /\ IF walletReady       \* it is taken as it is
       THEN wallet' = TRUE /\ UNCHANGED at
       ELSE /\ at' = IF gasFee THEN "connectWallet" ELSE "connectGas"
            /\ UNCHANGED wallet
    /\ UNCHANGED <<opts, held, normalInit, gasFee, walletReady, current, tokenVars>>

AppInitializes ==
    /\ at = "idle"
    /\ \E i \in Inits : initialize[i] = "idle"
    /\ at' = IF gasFee THEN "chainId" ELSE "gas"
    /\ UNCHANGED <<opts, held, normalInit, gasFee, wallet, walletReady, current, tokenVars>>

\* disconnect(): a new SDK with the same clients and no wallet
AppDisconnects ==
    /\ at = "idle" /\ wallet
    /\ wallet' = FALSE
    /\ opts' = [opts EXCEPT !.wallet = FALSE]
    /\ UNCHANGED <<at, held, normalInit, gasFee, walletReady, current, tokenVars>>

AppReloads(r) == /\ held
                 /\ ReloadUSDValues(r)
                 /\ UNCHANGED sdkVars

Next == \/ StatusAnswers \/ StatusFails
        \/ ConnectGasAnswers \/ ConnectWalletAnswers
        \/ GasAnswers
        \/ \E i \in Inits : ChainIdAnswers(i)
        \/ TokenReady \/ WalletAnswers
        \/ CallFails
        \/ AppConnects \/ AppInitializes \/ AppDisconnects
        \/ \E r \in Reloads : AppReloads(r)
        \/ Background /\ UNCHANGED sdkVars

Spec == Init /\ [][Next]_vars

-----------------------------------------------------------------------------
(* A connected wallet is initialized, and an SDK whose instance() began     *)
(* normally has what it was asked for: the wallet until disconnect() and,   *)
(* unless skipInit was set, its tokens and fees.  Whatever fails on the way *)
(* rejects the call instead; only a failing status() gives less.            *)
ReadySdk ==
    /\ wallet => walletReady
    /\ held /\ normalInit /\ opts.wallet => wallet
    /\ held /\ normalInit /\ ~opts.skipInit => tokens = Denoms /\ gasFee
=============================================================================
