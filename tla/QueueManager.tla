---------------------------- MODULE QueueManager ----------------------------
(***************************************************************************)
(* QueueManager (src/util/generic.ts): a debounced work queue.  enqueue()  *)
(* stores a task and calls trigger(), which (re)arms one setTimeout; when  *)
(* it fires, process() takes a lock and drains the queue through an        *)
(* asynchronous processor.  CarbonWallet owns two of them, one that signs  *)
(* and one that broadcasts.                                                *)
(*                                                                         *)
(* The array is written at its left end (unshift) and read at its right    *)
(* end (pop), so "queue" below lists it oldest first.  Time is a clock in  *)
(* units of which the delays are multiples; a timer fires at its due time  *)
(* or later, as on an event loop that may be busy.                         *)
(***************************************************************************)
EXTENDS Integers, Sequences, SequencesExt, FiniteSets

CONSTANTS Tasks,               \* the task objects that callers enqueue
          TriggerDelay,        \* options.triggerDelay (300 ms by default)
          MaxDelayThreshold,   \* options.maxDelayThreshold (1000 ms), 0 = off
          MaxTime              \* bound on the clock

ASSUME DelayAssumption == /\ TriggerDelay \in Nat
                          /\ MaxDelayThreshold \in Nat
                          /\ MaxTime \in Nat

VARIABLES queue,               \* this.queue, oldest first
          timer,               \* due time of the pending setTimeout, or Unset
          threshold,           \* this.currTriggerThreshold, 0 when unset
          isProcessing,        \* this.isProcessingQueue
          running,             \* tasks inside the processor
          now,                 \* Date.getTime(), never 0
          submitted,           \* history: tasks in the order enqueued
          started,             \* history: tasks in the order processed
          owed,                \* history: trigger() called for queued work
          missed               \* history: process() found the lock taken
                               \*   since it last got it

vars == <<queue, timer, threshold, isProcessing, running, now,
          submitted, started, owed, missed>>

Unset == 0

TypeOK == /\ queue \in Seq(Tasks)
          /\ timer \in Nat
          /\ threshold \in Nat
          /\ isProcessing \in BOOLEAN
          /\ running \subseteq Tasks
          /\ now \in Nat \ {0}
          /\ submitted \in Seq(Tasks)
          /\ started \in Seq(Tasks)
          /\ owed \in BOOLEAN
          /\ missed \in BOOLEAN

Init == /\ queue = <<>>
        /\ timer = Unset
        /\ threshold = 0
        /\ isProcessing = FALSE
        /\ running = {}
        /\ now = 1
        /\ submitted = <<>>
        /\ started = <<>>
        /\ owed = FALSE
        /\ missed = FALSE

-----------------------------------------------------------------------------
(* trigger(): keep the timer where it is when moving it would pass the      *)
(* threshold; otherwise set the threshold if there is none and re-arm.      *)

\* mutant: the timer is always postponed
AlwaysPostponable == TRUE

Postponable == threshold = 0 \/ now + TriggerDelay <= threshold

Arm == /\ timer' = IF Postponable THEN now + TriggerDelay ELSE timer
       /\ threshold' = IF threshold = 0 /\ MaxDelayThreshold > 0
                       THEN now + MaxDelayThreshold
                       ELSE threshold

\* MaxTime leaves room for the last timer to fire
Trigger(work) == /\ now + TriggerDelay <= MaxTime
                 /\ Arm
                 /\ owed' = (work # <<>>)

TriggerOnly == /\ Trigger(queue)
               /\ UNCHANGED <<queue, isProcessing, running, now, submitted,
                              started, missed>>

\* mutant: push() instead of unshift()
StoreAtWrongEnd(t) == /\ t \notin ToSet(submitted)
                      /\ queue' = <<t>> \o queue
                      /\ submitted' = Append(submitted, t)

Store(t) == /\ t \notin ToSet(submitted)
            /\ queue' = Append(queue, t)
            /\ submitted' = Append(submitted, t)

Enqueue(t) == /\ Store(t)
              /\ Trigger(Append(queue, t))
              /\ UNCHANGED <<isProcessing, running, now, started, missed>>

EnqueueSkipTrigger(t) ==
    /\ Store(t)
    /\ UNCHANGED <<timer, threshold, isProcessing, running, now, started,
                   owed, missed>>

-----------------------------------------------------------------------------
(* process(): the loop takes one task and awaits the processor; each step   *)
(* below runs from one await to the next.                                   *)

\* mutant: do ... while (queue.length), which pops undefined when empty
TakeUnchecked(others) ==
    IF queue # <<>>
    THEN /\ running' = others \cup {Head(queue)}
         /\ started' = Append(started, Head(queue))
         /\ queue' = Tail(queue)
         /\ isProcessing' = TRUE
         /\ owed' = (owed /\ Tail(queue) # <<>>)
    ELSE /\ running' = others \cup {"undefined"}
         /\ isProcessing' = TRUE
         /\ owed' = FALSE
         /\ UNCHANGED <<queue, started>>

\* pop a task for the processor, or leave the loop and release the lock
TakeOrStop(others) ==
    IF queue # <<>>
    THEN /\ running' = others \cup {Head(queue)}
         /\ started' = Append(started, Head(queue))
         /\ queue' = Tail(queue)
         /\ isProcessing' = TRUE
         /\ owed' = (owed /\ Tail(queue) # <<>>)
    ELSE /\ isProcessing' = FALSE
         /\ running' = others
         /\ owed' = FALSE
         /\ UNCHANGED <<queue, started>>

TimerDue == timer # Unset /\ now >= timer

ProcessLocked == /\ TimerDue
                 /\ isProcessing
                 /\ timer' = Unset
                 /\ missed' = TRUE
                 /\ UNCHANGED <<queue, threshold, isProcessing, running, now,
                                submitted, started, owed>>

\* mutants: no lock check; the threshold is not reset
ProcessUnlocked == /\ TimerDue
                   /\ timer' = Unset
                   /\ threshold' = 0
                   /\ missed' = FALSE
                   /\ TakeOrStop(running)
                   /\ UNCHANGED <<now, submitted>>

ProcessKeepsThreshold == /\ TimerDue
                         /\ ~isProcessing
                         /\ timer' = Unset
                         /\ missed' = FALSE
                         /\ TakeOrStop(running)
                         /\ UNCHANGED <<threshold, now, submitted>>

Process == /\ TimerDue
           /\ ~isProcessing
           /\ timer' = Unset
           /\ threshold' = 0
           /\ missed' = FALSE
           /\ TakeOrStop(running)
           /\ UNCHANGED <<now, submitted>>

\* mutant: one task per run, if instead of while
ProcessorSettlesOnce(t) == /\ t \in running
                           /\ running' = running \ {t}
                           /\ isProcessing' = FALSE
                           /\ UNCHANGED <<queue, timer, threshold, now,
                                          submitted, started, owed, missed>>

\* the awaited processor settles; a rejection is caught and logged, so both
\* outcomes continue with the next task
ProcessorSettles(t) == /\ t \in running
                       /\ TakeOrStop(running \ {t})
                       /\ UNCHANGED <<timer, threshold, now, submitted, missed>>

Tick == /\ now < MaxTime
        /\ now' = now + 1
        /\ UNCHANGED <<queue, timer, threshold, isProcessing, running,
                       submitted, started, owed, missed>>

Next == \/ \E t \in Tasks : \/ Enqueue(t)
                            \/ EnqueueSkipTrigger(t)
                            \/ ProcessorSettles(t)
        \/ TriggerOnly
        \/ ProcessLocked
        \/ Process
        \/ Tick

Spec == Init /\ [][Next]_vars

\* timers fire, time passes and the processor's promises settle; callers owe
\* the queue nothing
Fairness == /\ WF_vars(ProcessLocked)
            /\ WF_vars(Process)
            /\ WF_vars(Tick)
            /\ \A t \in Tasks : WF_vars(ProcessorSettles(t))

FairSpec == Spec /\ Fairness

-----------------------------------------------------------------------------
(* Every task enqueued is either waiting or has been handed to the          *)
(* processor, exactly once and in the order of the enqueue() calls, however *)
(* enqueues, timers and processor completions interleave.                   *)
FifoHandOver == submitted = started \o queue

(* isProcessingQueue works as a lock: timers armed while the queue is       *)
(* draining never start a second drain loop beside the first.               *)
OneAtATime == /\ \A t, u \in running : t = u
              /\ isProcessing <=> running # {}

(* Re-arming the timer on every enqueue never moves the run past the        *)
(* threshold that the first trigger set: the debounce cannot starve.        *)
DebounceBounded ==
    (MaxDelayThreshold >= TriggerDelay /\ timer # Unset /\ threshold # 0)
       => timer <= threshold

(* The one way in which triggered work can sit in the queue with no drain   *)
(* loop and no timer: an earlier timer fired while the lock was held, and   *)
(* process() returned without clearing the threshold it left behind.        *)
Stalled == owed /\ ~isProcessing /\ timer = Unset

StallNeedsMissedTimer == Stalled => (missed /\ threshold # 0)

(* "max wait for 1s before dispatching queue": triggered work that nobody   *)
(* is processing has a timer that will start its processing.                *)
TriggeredWorkIsScheduled == ~Stalled

(* Work that is queued while a drain loop runs is handed over by that loop. *)
QueuedWhileDrainingStarts ==
    \A t \in Tasks : (isProcessing /\ t \in ToSet(queue))
                       ~> (t \in ToSet(started))

(* Every task whose enqueue() triggered the queue reaches the processor,    *)
(* unless the queue stalls behind the threshold of a missed timer.          *)
TriggeredWorkStarts ==
    \A t \in Tasks : (owed /\ t \in ToSet(queue))
                       ~> (t \in ToSet(started) \/ (Stalled /\ missed))

Fifo == INSTANCE FifoWorker WITH pending <- queue, active <- running,
                                 handed <- started
(* The debounced, lockable queue implements the plain FIFO worker.          *)
ImplementsFifoWorker == Fifo!Spec
=============================================================================
