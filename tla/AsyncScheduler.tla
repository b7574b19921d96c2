--------------------------- MODULE AsyncScheduler ---------------------------
(***************************************************************************)
(* The task scheduler of async.cpp: one worker thread, a multimap of tasks *)
(* ordered by the time of their next run, and any number of threads that   *)
(* submit and cancel.  The worker looks at the head of the map under the   *)
(* mutex, drops the mutex, and only then runs the task, or locks again to  *)
(* sleep until the time it read.                                           *)
(*                                                                         *)
(* Times are kept relative to now: left is next_run - now_ms(), and a tick *)
(* of the clock lowers them all.                                           *)
(***************************************************************************)
EXTENDS Integers, SequencesExt

CONSTANTS
  MaxId,      \* bound on the tasks submitted
  Delays,     \* delays and intervals
  Lag,        \* bound on how late a task may run
  Nothing     \* next_wake = -1, and no ready task

ASSUME SchedulerAssumption ==
  /\ MaxId \in Nat /\ Lag \in Nat
  /\ Delays \subseteq Nat
  /\ Nothing \notin Int

VARIABLES
  next_id,     \* next_id_
  scheduled,   \* tasks_, in the order of the multimap
  phase,       \* the worker: "check", "run", "wait", "asleep" or "done"
  ready,       \* the task the worker took
  next_wake,   \* the time the worker read, relative to now
  over,        \* ids that must not start again: cancelled, stopped or done
  stopping     \* stopping_

schedulerVars == <<next_id, scheduled, phase, ready, next_wake, over, stopping>>

TaskIds == 1..MaxId
Task == [id : TaskIds, left : Int, interval : Delays \cup {0}, cancelled : BOOLEAN]

SchedulerTypeOK ==
  /\ next_id \in 1..MaxId + 1
  /\ scheduled \in Seq(Task)
  /\ phase \in {"check", "run", "wait", "asleep", "done"}
  /\ ready \in Task \cup {Nothing}
  /\ next_wake \in Int \cup {Nothing}
  /\ over \subseteq TaskIds
  /\ stopping \in BOOLEAN
  \* every task is taken off before it runs, and a periodic one is put back once
  /\ \A i, j \in DOMAIN scheduled : scheduled[i].id = scheduled[j].id => i = j

SchedulerInit ==
  /\ next_id = 1 /\ scheduled = <<>>
  /\ phase = "check" /\ ready = Nothing /\ next_wake = Nothing
  /\ over = {}
  /\ stopping = FALSE

-----------------------------------------------------------------------------
\* Mutant: new entries go to the back of the map.
InsertLast(map, t) == Append(map, t)

\* multimap::insert(): behind the entries with the same key.
Insert(map, t) ==
  LET before == {i \in DOMAIN map : map[i].left <= t.left}
  IN InsertAt(map, Cardinality(before) + 1, t)

\* The worker starts its loop again, with a new next_wake.
Again == phase' = "check" /\ next_wake' = Nothing

\* cv_.notify_all(): it reaches the worker only if it sleeps.  Without a
\* wake-up time the predicate of the wait is evaluated again.
NotifyScheduler(stop) ==
  IF phase = "asleep" /\ (next_wake # Nothing \/ stop \/ scheduled' # <<>>)
    THEN Again ELSE UNCHANGED <<phase, next_wake>>

\* run_after_ms() (period = 0) and run_every_ms() (period = delay).
SubmitTask(delay, period) ==
  /\ ~stopping /\ next_id \in TaskIds
  /\ next_id' = next_id + 1
  /\ scheduled' = Insert(scheduled, [id |-> next_id, left |-> delay, interval |-> period, cancelled |-> FALSE])
  /\ NotifyScheduler(FALSE)
  /\ UNCHANGED <<ready, over, stopping>>

Marked(map, ids) ==
  [i \in DOMAIN map |-> IF map[i].id \in ids THEN [map[i] EXCEPT !.cancelled = TRUE] ELSE map[i]]

\* cancel_task() returning true: a single entry of the map is marked.
Cancel(i) ==
  /\ ~stopping
  /\ \E k \in DOMAIN scheduled : scheduled[k].id = i /\ ~scheduled[k].cancelled
  /\ scheduled' = Marked(scheduled, {i})
  /\ over' = over \cup {i}
  /\ NotifyScheduler(FALSE)
  /\ UNCHANGED <<next_id, ready, stopping>>

\* cancel_all()
CancelAll ==
  /\ ~stopping /\ scheduled # <<>>
  /\ scheduled' = Marked(scheduled, TaskIds)
  /\ over' = over \cup {scheduled[k].id : k \in DOMAIN scheduled}
  /\ NotifyScheduler(FALSE)
  /\ UNCHANGED <<next_id, ready, stopping>>

\* The map without the cancelled tasks at its head.
Swept ==
  LET head == {k \in DOMAIN scheduled : \A m \in 1..k : scheduled[m].cancelled}
  IN SubSeq(scheduled, Cardinality(head) + 1, Len(scheduled))

HeadIsDue == IF Swept = <<>> THEN FALSE ELSE Head(Swept).left <= 0

\* A periodic task is put back before it runs, one interval after the run
\* that was due.
Rescheduled(t, rest) ==
  IF t.interval = 0 THEN rest
    ELSE Insert(rest, [t EXCEPT !.left = @ + t.interval])

\* worker_loop(): the head is due and is taken off the map.
TakeDue ==
  /\ phase = "check" /\ ~stopping
  /\ HeadIsDue
  /\ ready' = Head(Swept)
  /\ scheduled' = Rescheduled(Head(Swept), Tail(Swept))
  /\ over' = IF Head(Swept).interval = 0 THEN over \cup {Head(Swept).id} ELSE over
  /\ phase' = "run"
  /\ UNCHANGED <<next_id, next_wake, stopping>>

\* worker_loop(): nothing is due; the worker remembers when to look again
\* and drops the mutex.
LookAhead ==
  /\ phase = "check" /\ ~stopping
  /\ ~HeadIsDue
  /\ scheduled' = Swept
  /\ next_wake' = IF Swept = <<>> THEN Nothing ELSE Head(Swept).left
  /\ phase' = "wait"
  /\ UNCHANGED <<next_id, ready, over, stopping>>

\* Mutant: the worker sleeps without looking at the map again.
SleepBlind ==
  /\ phase = "wait"
  /\ phase' = "asleep"
  /\ UNCHANGED <<next_id, scheduled, ready, next_wake, over, stopping>>

\* The worker locks again and sleeps: with a predicate when there was no
\* task, without one otherwise.
SleepUntil ==
  /\ phase = "wait"
  /\ phase' = IF next_wake = Nothing /\ (stopping \/ scheduled # <<>>) THEN "check" ELSE "asleep"
  /\ UNCHANGED <<next_id, scheduled, ready, next_wake, over, stopping>>

WakeUp ==
  /\ phase = "asleep" /\ next_wake # Nothing /\ next_wake <= 0
  /\ Again
  /\ UNCHANGED <<next_id, scheduled, ready, over, stopping>>

\* What is left of the map when a periodic callback has asked to stop: the loop
\* over all entries finds one at most.
Without(id) ==
  IF \E k \in DOMAIN scheduled : scheduled[k].id = id
    THEN RemoveAt(scheduled, CHOOSE k \in DOMAIN scheduled : scheduled[k].id = id)
    ELSE scheduled

CallbackContinues ==
  /\ phase = "run" /\ ready.interval > 0
  /\ phase' = "check" /\ ready' = Nothing
  /\ UNCHANGED <<next_id, scheduled, next_wake, over, stopping>>

\* The callback returned false, as a one-shot task's does.
CallbackStops ==
  /\ phase = "run"
  /\ scheduled' = IF ready.interval > 0 THEN Without(ready.id) ELSE scheduled
  /\ over' = over \cup {ready.id}
  /\ phase' = "check" /\ ready' = Nothing
  /\ UNCHANGED <<next_id, next_wake, stopping>>

\* The destructor sets stopping_ and notifies.
StopScheduler ==
  /\ ~stopping
  /\ stopping' = TRUE
  /\ UNCHANGED <<next_id, scheduled, ready, over>>
  /\ NotifyScheduler(TRUE)

WorkerExit ==
  /\ phase = "check" /\ stopping
  /\ phase' = "done"
  /\ UNCHANGED <<next_id, scheduled, ready, next_wake, over, stopping>>

WakeUpSet == next_wake # Nothing /\ phase \in {"wait", "asleep"}

\* Time passes: while the worker waits for its wake-up time, or as far as Lag
\* lets it run ahead of the worker.
Tick ==
  /\ \/ IF WakeUpSet THEN next_wake > 0 ELSE FALSE
     \/ /\ \E k \in DOMAIN scheduled : ~scheduled[k].cancelled
        /\ \A k \in DOMAIN scheduled : scheduled[k].left > -Lag \/ scheduled[k].cancelled
  /\ phase # "done"
  /\ scheduled' = [k \in DOMAIN scheduled |-> [scheduled[k] EXCEPT !.left = @ - 1]]
  /\ next_wake' = IF WakeUpSet THEN next_wake - 1 ELSE next_wake
  /\ UNCHANGED <<next_id, phase, ready, over, stopping>>

SchedulerWorker ==
  \/ TakeDue \/ LookAhead \/ SleepUntil \/ WakeUp
  \/ CallbackContinues \/ CallbackStops \/ WorkerExit

SchedulerNext ==
  \/ \E d \in Delays : SubmitTask(d, 0) \/ (d > 0 /\ SubmitTask(d, d))
  \/ \E i \in TaskIds : Cancel(i)
  \/ CancelAll \/ StopScheduler \/ SchedulerWorker \/ Tick

SchedulerSpec == SchedulerInit /\ [][SchedulerNext]_schedulerVars

-----------------------------------------------------------------------------
StartsTask == phase' = "run" /\ phase # "run"

\* A task that was cancelled, that asked to stop, or that ran once and is not
\* periodic never starts again, however the cancellation, the callback and the
\* registration of the next run interleave; and none is started while one with
\* an earlier deadline waits.
StartsInTurn ==
  [][StartsTask => /\ ready'.id \notin over
              /\ \A k \in DOMAIN scheduled :
                   scheduled[k].cancelled \/ ready'.left <= scheduled[k].left]_schedulerVars

\* The destructor's join() returns.
Stops == stopping ~> phase = "done"

\* async.cpp, run_after_ms(), notifies since an earlier task may change the
\* time the worker waits.
\* Whenever the worker sleeps, it wakes up no later than its first task.
WakesInTime ==
  phase = "asleep" /\ next_wake # Nothing =>
    \A k \in DOMAIN scheduled : scheduled[k].cancelled \/ next_wake <= scheduled[k].left \/ next_wake <= 0
=============================================================================
