--------------------------- MODULE RequestService ---------------------------
(***************************************************************************)
(* What signAndBroadcast() promises its callers, whatever the queues, the  *)
(* retry and the node do in between: a request executes at most once, its  *)
(* promise settles at most once, a refusal means that it neither executed  *)
(* nor ever will, and in block mode resolving means that it executed.      *)
(***************************************************************************)
EXTENDS Naturals

CONSTANT Requests     \* calls of signAndBroadcast()

VARIABLES mode,       \* the broadcast mode of each request
          status,     \* what the promise of each request says
          executed    \* how often a block has executed each request

serviceVars == <<mode, status, executed>>

BroadcastModes == {"block", "sync", "async"}

\* "failed": executed with an error; "unknown": no answer, it may execute yet
Answers == {"resolved", "failed", "unknown", "refused"}

TypeOK == /\ mode \in [Requests -> BroadcastModes]
          /\ status \in [Requests -> Answers \cup {"new", "pending"}]
          /\ executed \in [Requests -> 0 .. 1]

Init == /\ mode \in [Requests -> BroadcastModes]
        /\ status = [r \in Requests |-> "new"]
        /\ executed = [r \in Requests |-> 0]

Submit(r) == /\ status[r] = "new"
             /\ status' = [status EXCEPT ![r] = "pending"]
             /\ UNCHANGED <<mode, executed>>

Execute(r) == /\ status[r] \notin {"new", "refused"}
              /\ executed[r] = 0
              /\ executed' = [executed EXCEPT ![r] = 1]
              /\ UNCHANGED <<mode, status>>

Settle(r, answer) == /\ status[r] = "pending"
                     /\ answer = "refused" => executed[r] = 0
                     /\ answer = "failed" => executed[r] = 1
                     /\ answer = "resolved" /\ mode[r] = "block" => executed[r] = 1
                     /\ status' = [status EXCEPT ![r] = answer]
                     /\ UNCHANGED <<mode, executed>>

Next == \E r \in Requests : \/ Submit(r)
                            \/ Execute(r)
                            \/ \E answer \in Answers : Settle(r, answer)

Spec == Init /\ [][Next]_serviceVars
=============================================================================
