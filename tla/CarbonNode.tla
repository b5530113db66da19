----------------------------- MODULE CarbonNode -----------------------------
(***************************************************************************)
(* The Carbon node that a wallet broadcasts to, as far as src/ relies on   *)
(* it: CheckTx admits a transaction only with the account's next sequence  *)
(* and before its timeout height; a block executes it at most once; other  *)
(* users of the same key, block production, mempool rechecks and restarts  *)
(* happen at any time.  The node is not part of src/.                      *)
(*                                                                         *)
(* A transaction is a record [req, try, acct, seq, ttl]: the request it    *)
(* was signed for, at which attempt, the signing account, the sequence and *)
(* the timeout height.                                                     *)
(***************************************************************************)
EXTENDS Integers, FiniteSets

CONSTANTS Accounts,   \* the accounts that the wallet signs for
          Shared,     \* the ones whose keys other clients use as well
          MaxNonce,   \* bound on the sequences that foreign transactions reach
          MaxHeight   \* bound on the block height

ASSUME NodeAssumption == /\ "own" \in Accounts
                         /\ Shared \subseteq Accounts
                         /\ MaxNonce \in Nat
                         /\ MaxHeight \in Nat

VARIABLES funded,     \* the wallet's account exists
          nonce,      \* committed sequence of each account
          mempool,    \* admitted transactions not yet in a block
          late,       \* transactions still travelling to the node
          included,   \* transactions that were executed in a block
          height      \* latest block

nodeVars == <<funded, nonce, mempool, late, included, height>>

NoTtl == 0            \* timeoutHeight 0: the transaction does not expire

NodeInit == /\ funded \in BOOLEAN
            /\ nonce = [a \in Accounts |-> 0]
            /\ mempool = {}
            /\ late = {}
            /\ included = {}
            /\ height = 1

Pooled(a, n) == \E t \in mempool : t.acct = a /\ t.seq = n

\* the account's sequence after the transactions waiting in the mempool
CheckNonce(a) ==
    CHOOSE n \in nonce[a] .. nonce[a] + Cardinality(mempool) :
        /\ ~Pooled(a, n)
        /\ \A m \in nonce[a] .. n - 1 : Pooled(a, m)

Expired(t) == t.ttl # NoTtl /\ height > t.ttl

Exists(a) == a = "own" => funded

SequenceMismatch(t) == Exists(t.acct) /\ t.seq # CheckNonce(t.acct)

Admissible(t) == /\ Exists(t.acct)
                 /\ ~SequenceMismatch(t)
                 /\ ~Expired(t)

-----------------------------------------------------------------------------
Deliver(t) == /\ t.seq = nonce[t.acct]
              /\ ~Expired(t)
              /\ included' = included \cup {t}
              /\ nonce' = [nonce EXCEPT ![t.acct] = @ + 1]
              /\ mempool' = mempool \ {t}
              /\ UNCHANGED <<funded, late, height>>

\* a waiting transaction that a block or a recheck of the mempool refuses
Outdated(t) == \/ t.seq < nonce[t.acct]
               \/ t.seq > nonce[t.acct] /\ ~Pooled(t.acct, t.seq - 1)
               \/ Expired(t)

Evict(t) == /\ Outdated(t)
            /\ mempool' = mempool \ {t}
            /\ UNCHANGED <<funded, nonce, late, included, height>>

Arrive(t) == /\ late' = late \ {t}
             /\ mempool' = IF Admissible(t) THEN mempool \cup {t} ELSE mempool
             /\ UNCHANGED <<funded, nonce, included, height>>

NodeRestarts == /\ mempool # {}
                /\ mempool' = {}
                /\ UNCHANGED <<funded, nonce, late, included, height>>

\* the same key used by another client, through another node
Foreign(a) == /\ Exists(a)
              /\ nonce[a] < MaxNonce
              /\ nonce' = [nonce EXCEPT ![a] = @ + 1]
              /\ UNCHANGED <<funded, mempool, late, included, height>>

Fund == /\ ~funded
        /\ funded' = TRUE
        /\ UNCHANGED <<nonce, mempool, late, included, height>>

NewBlock == /\ height < MaxHeight
            /\ height' = height + 1
            /\ UNCHANGED <<funded, nonce, mempool, late, included>>

NodeNext == \/ \E t \in mempool : Deliver(t) \/ Evict(t)
            \/ \E t \in late : Arrive(t)
            \/ NodeRestarts
            \/ \E a \in Shared : Foreign(a)
            \/ Fund
            \/ NewBlock
=============================================================================
