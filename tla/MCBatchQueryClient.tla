------------------------- MODULE MCBatchQueryClient -------------------------
(* Instance of BatchQueryClient for TLC: two requests share the one id that *)
(* modifyTmClient() gives to queries, the others have ids of their own.     *)
EXTENDS BatchQueryClient, TLC

CONSTANTS r1, r2, r3, r4

PairedId(r) == IF r \in {r1, r2} THEN 42 ELSE IF r = r3 THEN 43 ELSE 44
=============================================================================
