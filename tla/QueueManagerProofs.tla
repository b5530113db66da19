------------------------- MODULE QueueManagerProofs -------------------------
(***************************************************************************)
(* Theorems about QueueManager for every set of tasks and every delay:     *)
(* types, the safety invariants, and the refinement of FifoWorker.         *)
(***************************************************************************)
EXTENDS QueueManager, TLAPS

-----------------------------------------------------------------------------
(* Sequences: taking the head of the right part keeps the concatenation.    *)

LEMMA TakeKeepsConcat ==
    ASSUME NEW S, NEW a \in Seq(S), NEW b \in Seq(S), b # <<>>
    PROVE  /\ Head(b) \in S
           /\ Tail(b) \in Seq(S)
           /\ Append(a, Head(b)) \in Seq(S)
           /\ Append(a, Head(b)) \o Tail(b) = a \o b
  OBVIOUS

LEMMA AppendKeepsConcat ==
    ASSUME NEW S, NEW a \in Seq(S), NEW b \in Seq(S), NEW e \in S
    PROVE  /\ Append(b, e) \in Seq(S)
           /\ Append(a \o b, e) = a \o Append(b, e)
           /\ Append(b, e) # <<>>
  OBVIOUS

-----------------------------------------------------------------------------
(* Every variable keeps its type: no step of the queue, the timer or the    *)
(* drain loop stores anything that is not one of the tasks or a time.       *)
THEOREM Typing == Spec => []TypeOK
<1>1. Init => TypeOK
  <2>1. <<>> \in Seq(Tasks)
    OBVIOUS
  <2>2. Init => /\ timer \in Nat /\ threshold \in Nat /\ now \in Nat \ {0}
    BY DEF Init, Unset
  <2> QED  BY <2>1, <2>2, Zenon DEF Init, TypeOK
<1>2. TypeOK /\ [Next]_vars => TypeOK'
  <2> SUFFICES ASSUME TypeOK, [Next]_vars PROVE TypeOK'
    OBVIOUS
  <2>1. ASSUME NEW work \in Seq(Tasks), Trigger(work)
        PROVE  timer' \in Nat /\ threshold' \in Nat /\ owed' \in BOOLEAN
    BY <2>1, DelayAssumption DEF TypeOK, Trigger, Arm, Postponable
  <2>2. ASSUME NEW t \in Tasks, Store(t)
        PROVE  /\ queue' \in Seq(Tasks)
               /\ submitted' \in Seq(Tasks)
    BY <2>2, AppendKeepsConcat DEF TypeOK, Store
  <2>3. ASSUME NEW others \in SUBSET Tasks, TakeOrStop(others)
        PROVE  /\ queue' \in Seq(Tasks)
               /\ started' \in Seq(Tasks)
               /\ running' \subseteq Tasks
               /\ isProcessing' \in BOOLEAN
               /\ owed' \in BOOLEAN
    <3>1. CASE queue = <<>>
      BY <2>3, <3>1 DEF TypeOK, TakeOrStop
    <3>2. CASE queue # <<>>
      <4>1. /\ Head(queue) \in Tasks
            /\ Tail(queue) \in Seq(Tasks)
            /\ Append(started, Head(queue)) \in Seq(Tasks)
        BY <3>2, TakeKeepsConcat DEF TypeOK
      <4> QED  BY <2>3, <3>2, <4>1 DEF TypeOK, TakeOrStop
    <3> QED  BY <3>1, <3>2
  <2>4. ASSUME NEW t \in Tasks, Enqueue(t) PROVE TypeOK'
    <3>1. Append(queue, t) \in Seq(Tasks)
      BY AppendKeepsConcat DEF TypeOK
    <3> QED  BY <2>4, <2>1, <2>2, <3>1 DEF TypeOK, Enqueue
  <2>5. ASSUME NEW t \in Tasks, EnqueueSkipTrigger(t) PROVE TypeOK'
    BY <2>5, <2>2 DEF TypeOK, EnqueueSkipTrigger
  <2>6. ASSUME NEW t \in Tasks, ProcessorSettles(t) PROVE TypeOK'
    <3>1. running \ {t} \in SUBSET Tasks
      BY DEF TypeOK
    <3> QED  BY <2>6, <2>3, <3>1 DEF TypeOK, ProcessorSettles
  <2>7. ASSUME TriggerOnly PROVE TypeOK'
    BY <2>7, <2>1 DEF TypeOK, TriggerOnly
  <2>8. ASSUME ProcessLocked PROVE TypeOK'
    BY <2>8 DEF TypeOK, ProcessLocked, Unset
  <2>9. ASSUME Process PROVE TypeOK'
    BY <2>9, <2>3 DEF TypeOK, Process, Unset
  <2>10. ASSUME Tick PROVE TypeOK'
    BY <2>10 DEF TypeOK, Tick
  <2>11. ASSUME UNCHANGED vars PROVE TypeOK'
    BY <2>11 DEF TypeOK, vars
  <2> QED
    BY <2>4, <2>5, <2>6, <2>7, <2>8, <2>9, <2>10, <2>11 DEF Next
<1> QED  BY <1>1, <1>2, PTL DEF Spec

-----------------------------------------------------------------------------
(* The safety invariants.  The first two are inductive with the types.      *)
(* The stall needs two more facts about the threshold: without a timer it   *)
(* is only ever left over by a missed run, and triggered work without a     *)
(* timer and without a drain loop has such a threshold in its way.          *)

LeftoverIsMissed == (threshold # 0 /\ timer = Unset) => missed

OwedIsScheduled == (owed /\ ~isProcessing /\ timer = Unset) => threshold # 0

IInv == /\ FifoHandOver
        /\ OneAtATime
        /\ DebounceBounded
        /\ LeftoverIsMissed
        /\ OwedIsScheduled

(* trigger() arms a timer in the future or leaves a threshold in force.     *)
LEMMA TriggerSchedules ==
    ASSUME TypeOK, DebounceBounded, LeftoverIsMissed,
           NEW work, Trigger(work), missed' = missed
    PROVE  /\ DebounceBounded'
           /\ LeftoverIsMissed'
           /\ timer' # Unset \/ threshold' # 0
  BY DelayAssumption
     DEF TypeOK, DebounceBounded, LeftoverIsMissed, Trigger, Arm, Postponable,
         Unset

(* The drain loop takes the oldest task when it runs alone, or releases.    *)
LEMMA TakeIsFifo ==
    ASSUME TypeOK, FifoHandOver, TakeOrStop({}), submitted' = submitted
    PROVE  /\ FifoHandOver'
           /\ OneAtATime'
           /\ owed' => isProcessing'
<1>1. CASE queue = <<>>
  BY <1>1 DEF TypeOK, FifoHandOver, OneAtATime, TakeOrStop
<1>2. CASE queue # <<>>
  <2>1. Append(started, Head(queue)) \o Tail(queue) = started \o queue
    BY <1>2, TakeKeepsConcat DEF TypeOK
  <2> QED  BY <1>2, <2>1 DEF FifoHandOver, OneAtATime, TakeOrStop
<1> QED  BY <1>1, <1>2

LEMMA Invariance == Spec => []IInv
<1>1. Init => IInv
  BY DEF Init, IInv, FifoHandOver, OneAtATime, DebounceBounded,
         LeftoverIsMissed, OwedIsScheduled, Unset
<1>2. TypeOK /\ IInv /\ [Next]_vars => IInv'
  <2> SUFFICES ASSUME TypeOK, IInv, [Next]_vars PROVE IInv'
    OBVIOUS
  <2> USE DEF IInv
  <2>1. ASSUME NEW t \in Tasks, Store(t), started' = started
        PROVE  FifoHandOver'
    <3>1. Append(started \o queue, t) = started \o Append(queue, t)
      <4>1. started \in Seq(Tasks) /\ queue \in Seq(Tasks)
        BY DEF TypeOK
      <4> QED  BY <4>1
    <3> QED  BY <2>1, <3>1 DEF FifoHandOver, Store
  <2>2. ASSUME UNCHANGED <<running, isProcessing>> PROVE OneAtATime'
    BY <2>2 DEF OneAtATime
  <2>3. ASSUME NEW t \in Tasks, Enqueue(t) PROVE IInv'
    BY <2>3, <2>1, <2>2, TriggerSchedules DEF Enqueue, OwedIsScheduled
  <2>4. ASSUME NEW t \in Tasks, EnqueueSkipTrigger(t) PROVE IInv'
    BY <2>4, <2>1, <2>2
       DEF EnqueueSkipTrigger, DebounceBounded, LeftoverIsMissed,
           OwedIsScheduled
  <2>5. ASSUME TriggerOnly PROVE IInv'
    BY <2>5, <2>2, TriggerSchedules
       DEF TriggerOnly, OwedIsScheduled, FifoHandOver
  <2>6. ASSUME ProcessLocked PROVE IInv'
    BY <2>6, <2>2
       DEF ProcessLocked, FifoHandOver, DebounceBounded, LeftoverIsMissed,
           OwedIsScheduled, Unset
  <2>7. ASSUME Process PROVE IInv'
    <3>1. running = {}
      BY <2>7 DEF Process, OneAtATime
    <3> QED
      BY <2>7, <3>1, TakeIsFifo
         DEF Process, DebounceBounded, LeftoverIsMissed, OwedIsScheduled
  <2>8. ASSUME NEW t \in Tasks, ProcessorSettles(t) PROVE IInv'
    <3>1. running \ {t} = {}
      BY <2>8 DEF ProcessorSettles, OneAtATime
    <3> QED
      BY <2>8, <3>1, TakeIsFifo
         DEF ProcessorSettles, DebounceBounded, LeftoverIsMissed,
             OwedIsScheduled
  <2>9. ASSUME Tick PROVE IInv'
    BY <2>9, <2>2
       DEF Tick, FifoHandOver, DebounceBounded, LeftoverIsMissed,
           OwedIsScheduled
  <2>10. ASSUME UNCHANGED vars PROVE IInv'
    BY <2>10, <2>2
       DEF vars, FifoHandOver, DebounceBounded, LeftoverIsMissed,
           OwedIsScheduled
  <2> QED
    BY <2>3, <2>4, <2>5, <2>6, <2>7, <2>8, <2>9, <2>10 DEF Next
<1> QED  BY <1>1, <1>2, Typing, PTL DEF Spec

(* However enqueues, timers and processor completions interleave, every     *)
(* task is handed over once and in the order it was enqueued.               *)
THEOREM FifoHandOverHolds == Spec => []FifoHandOver
<1>1. IInv => FifoHandOver  BY DEF IInv
<1> QED  BY <1>1, Invariance, PTL

(* The lock keeps every timer from starting a second drain loop.            *)
THEOREM OneAtATimeHolds == Spec => []OneAtATime
<1>1. IInv => OneAtATime  BY DEF IInv
<1> QED  BY <1>1, Invariance, PTL

(* Re-arming never pushes the run past the threshold of the first trigger.  *)
THEOREM DebounceBoundedHolds == Spec => []DebounceBounded
<1>1. IInv => DebounceBounded  BY DEF IInv
<1> QED  BY <1>1, Invariance, PTL

(* Triggered work is stranded only after process() met its own lock: the    *)
(* stall has no other cause, whatever the delays.                           *)
THEOREM StallNeedsMissedTimerHolds == Spec => []StallNeedsMissedTimer
<1>1. IInv => StallNeedsMissedTimer
  BY DEF IInv, StallNeedsMissedTimer, Stalled, LeftoverIsMissed,
         OwedIsScheduled
<1> QED  BY <1>1, Invariance, PTL

-----------------------------------------------------------------------------
(* The refinement of FifoWorker: storing is a Submit; the drain loop's steps *)
(* hand over or complete; timers, thresholds and missed runs are stutters.  *)

LEMMA PartsAreInConcat ==
    ASSUME NEW S, NEW a \in Seq(S), NEW b \in Seq(S)
    PROVE  ToSet(a) \cup ToSet(b) \subseteq ToSet(a \o b)
<1>1. ASSUME NEW x \in ToSet(a) PROVE x \in ToSet(a \o b)
  <2>1. PICK i \in 1 .. Len(a) : x = a[i]
    BY DEF ToSet
  <2>2. i \in 1 .. Len(a \o b) /\ (a \o b)[i] = x
    BY <2>1
  <2> QED  BY <2>2 DEF ToSet
<1>2. ASSUME NEW x \in ToSet(b) PROVE x \in ToSet(a \o b)
  <2>1. PICK i \in 1 .. Len(b) : x = b[i]
    BY DEF ToSet
  <2> DEFINE j == Len(a) + i
  <2>2. j \in 1 .. Len(a) + Len(b) /\ ~(j <= Len(a)) /\ j - Len(a) = i
    BY <2>1
  <2>3. j \in 1 .. Len(a \o b) /\ (a \o b)[j] = x
    BY <2>1, <2>2
  <2> QED  BY <2>3 DEF ToSet
<1> QED  BY <1>1, <1>2

(* The debounced queue with its lock implements the plain FIFO worker, for  *)
(* every set of tasks and all delays.                                       *)
THEOREM Refinement == Spec => ImplementsFifoWorker
<1>1. Init => Fifo!Init
  BY DEF Init, Fifo!Init
<1>2. TypeOK /\ IInv /\ [Next]_vars => [Fifo!Next]_(Fifo!vars)
  <2> SUFFICES ASSUME TypeOK, IInv, [Next]_vars
               PROVE  Fifo!Next \/ UNCHANGED Fifo!vars
    BY DEF Fifo!vars
  <2>1. ASSUME NEW t \in Tasks, Store(t), UNCHANGED <<running, started>>
        PROVE  Fifo!Submit(t)
    <3>1. ToSet(started) \cup ToSet(queue) \subseteq ToSet(submitted)
      BY PartsAreInConcat DEF TypeOK, IInv, FifoHandOver
    <3>2. Fifo!Seen \subseteq ToSet(submitted)
      BY <3>1 DEF Fifo!Seen, ToSet, Fifo!ToSet
    <3> QED  BY <2>1, <3>2 DEF Store, Fifo!Submit
  <2>2. ASSUME NEW t \in Tasks, Enqueue(t) \/ EnqueueSkipTrigger(t)
        PROVE  Fifo!Next
    BY <2>1, <2>2 DEF Enqueue, EnqueueSkipTrigger, Fifo!Next
  <2>3. ASSUME Process PROVE Fifo!Next \/ UNCHANGED Fifo!vars
    <3>1. running = {} /\ TakeOrStop({})
      BY <2>3 DEF Process, IInv, OneAtATime
    <3>2. CASE queue = <<>>
      BY <3>1, <3>2 DEF TakeOrStop, Fifo!vars
    <3>3. CASE queue # <<>>
      <4>1. Fifo!Begin
        BY <3>1, <3>3 DEF TakeOrStop, Fifo!Begin, Fifo!HandOver
      <4> QED  BY <4>1 DEF Fifo!Next
    <3> QED  BY <3>2, <3>3
  <2>4. ASSUME NEW t \in Tasks, ProcessorSettles(t) PROVE Fifo!Next
    <3>1. running # {} /\ TakeOrStop({})
      <4>1. running \ {t} = {}
        BY <2>4 DEF ProcessorSettles, IInv, OneAtATime
      <4> QED  BY <2>4, <4>1 DEF ProcessorSettles
    <3>2. CASE queue = <<>>
      <4>1. Fifo!Complete
        BY <3>1, <3>2 DEF TakeOrStop, Fifo!Complete
      <4> QED  BY <4>1 DEF Fifo!Next
    <3>3. CASE queue # <<>>
      <4>1. Fifo!CompleteAndBegin
        BY <3>1, <3>3 DEF TakeOrStop, Fifo!CompleteAndBegin, Fifo!HandOver
      <4> QED  BY <4>1 DEF Fifo!Next
    <3> QED  BY <3>2, <3>3
  <2>5. ASSUME TriggerOnly \/ ProcessLocked \/ Tick \/ UNCHANGED vars
        PROVE  UNCHANGED Fifo!vars
    BY <2>5 DEF TriggerOnly, ProcessLocked, Tick, vars, Fifo!vars
  <2> QED  BY <2>2, <2>3, <2>4, <2>5 DEF Next
<1> QED
  BY <1>1, <1>2, Typing, Invariance, PTL DEF Spec, ImplementsFifoWorker, Fifo!Spec
=============================================================================
