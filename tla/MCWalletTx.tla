----------------------------- MODULE MCWalletTx -----------------------------
(* Instances of WalletTx for TLC.                                           *)
EXTENDS WalletTx, TLC

\* granted requests are sent asynchronously, the others wait for their block
MCInit == /\ Init
          /\ mode = [r \in Requests |-> IF r \in Granted THEN "async" ELSE "block"]

MCSpec == MCInit /\ [][Next]_vars /\ Fairness

\* requests are interchangeable when all of them are granted or none is
RequestSymmetry == Permutations(Requests)
=============================================================================
