----------------------------- MODULE FifoWorker -----------------------------
(***************************************************************************)
(* What a QueueManager promises to the code that enqueues into it: tasks   *)
(* are handed to the processor in the order they were submitted, each one  *)
(* once, and never two at a time.  Nothing is promised about when.         *)
(* QueueManager is shown to implement this specification, and WalletTx     *)
(* uses two such workers without their timers.                             *)
(***************************************************************************)
EXTENDS Sequences, SequencesExt

CONSTANT Tasks

VARIABLES pending,    \* submitted and not yet handed over, oldest first
          active,     \* tasks the processor is working on
          handed      \* every task handed to the processor, in order

vars == <<pending, active, handed>>

Seen == ToSet(pending) \cup ToSet(handed)

Init == /\ pending = <<>>
        /\ active = {}
        /\ handed = <<>>

Submit(t) == /\ t \notin Seen
             /\ pending' = Append(pending, t)
             /\ UNCHANGED <<active, handed>>

HandOver == /\ pending # <<>>
            /\ active' = {Head(pending)}
            /\ handed' = Append(handed, Head(pending))
            /\ pending' = Tail(pending)

Begin == active = {} /\ HandOver

Complete == /\ active # {}
            /\ active' = {}
            /\ UNCHANGED <<pending, handed>>

CompleteAndBegin == active # {} /\ HandOver

Next == \/ \E t \in Tasks : Submit(t)
        \/ Begin
        \/ Complete
        \/ CompleteAndBegin

Spec == Init /\ [][Next]_vars
=============================================================================
