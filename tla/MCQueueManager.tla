--------------------------- MODULE MCQueueManager ---------------------------
(* Instances of QueueManager for TLC.  The tasks are interchangeable.       *)
EXTENDS QueueManager, TLC

TaskSymmetry == Permutations(Tasks)
=============================================================================
