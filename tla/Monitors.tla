------------------------------ MODULE Monitors ------------------------------
(***************************************************************************)
(* The small monitors of thread_utils.cpp: a semaphore, a manual event, a  *)
(* countdown latch, and the cancellation token.  The first three are one   *)
(* number behind a mutex and a condition variable; they differ in what a   *)
(* waiter waits for and in who is woken: the semaphore wakes one thread    *)
(* per unit after it has left the mutex, the event and the latch wake all  *)
(* before.  The token has no condition variable: its waiter looks again    *)
(* and again, at the token's own flag and at the one it is linked to.      *)
(***************************************************************************)
EXTENDS Counting, Sequences

CONSTANTS
  Waiters,     \* threads that wait
  MaxUnits     \* bound on the units released, and the latch's first count

ASSUME MonitorAssumption == IsFiniteSet(Waiters) /\ MaxUnits \in Nat \ {0}

VARIABLES
  monitor,     \* which of them it is
  value,       \* count_, or set_ as 0 or 1
  station,     \* per thread: "out", "asleep" or "awake" in a wait
  owed,        \* semaphore: calls of notify_one() still to come
  released,    \* semaphore: units released
  passed,      \* waits that returned true
  tokens_set,   \* token: "own" and "other", as far as cancel() was called
  linked       \* token: link_to() was called

monitorVars == <<monitor, value, station, owed, released, passed, tokens_set, linked>>

MonitorTypeOK ==
  /\ monitor \in {"semaphore", "event", "latch", "token"}
  /\ value \in 0..(MaxUnits + 1)
  /\ station \in [Waiters -> {"out", "asleep", "awake"}]
  /\ owed \in 0..MaxUnits /\ released \in 0..MaxUnits
  /\ passed \in Nat
  /\ tokens_set \subseteq {"own", "other"} /\ linked \in BOOLEAN

MonitorInit ==
  /\ monitor \in {"semaphore", "event", "latch", "token"}
  /\ value = CASE monitor = "latch" -> MaxUnits
               [] monitor = "semaphore" -> 1
               [] OTHER -> 0
  /\ station = [t \in Waiters |-> "out"]
  /\ owed = 0 /\ released = 0 /\ passed = 0
  /\ tokens_set = {} /\ linked = FALSE

-----------------------------------------------------------------------------
MonitorSleepers == In(Waiters, station, "asleep")

IsCancelled == "own" \in tokens_set \/ (linked /\ "other" \in tokens_set)

\* What a waiter waits for.
MayReturn ==
  CASE monitor = "semaphore" -> value > 0
    [] monitor = "event" -> value = 1
    [] monitor = "latch" -> value = 0
    [] monitor = "token" -> IsCancelled

EverybodyWakes == station' = [t \in Waiters |-> IF station[t] = "asleep" THEN "awake" ELSE station[t]]

\* A wait that is over with true; acquire() also takes its unit.  The bound on
\* passed leaves room for every unit.
WaitReturns(t) ==
  /\ MayReturn /\ passed < MaxUnits + 2
  /\ passed' = passed + 1
  /\ value' = IF monitor = "semaphore" THEN value - 1 ELSE value
  /\ station' = [station EXCEPT ![t] = "out"]

FallsAsleep(t) ==
  /\ ~MayReturn
  /\ station' = [station EXCEPT ![t] = "asleep"]
  /\ UNCHANGED <<value, passed>>

\* A new wait, or a thread that was woken and has the mutex again.  The
\* token's waiter sleeps for 20 ms between two looks.
WaitOn(t) ==
  /\ station[t] \in {"out", "awake"}
  /\ WaitReturns(t) \/ FallsAsleep(t)
  /\ UNCHANGED <<monitor, owed, released, tokens_set, linked>>

\* A sleeper wakes for no reason, or because the token's pause is over.
WakeUnasked(t) ==
  /\ station[t] = "asleep"
  /\ station' = [station EXCEPT ![t] = "awake"]
  /\ UNCHANGED <<monitor, value, owed, released, passed, tokens_set, linked>>

\* The time of a wait is over: the predicate decides.
WaitTimesOut(t) ==
  /\ station[t] # "out"
  /\ \/ WaitReturns(t)
     \/ /\ ~MayReturn
        /\ station' = [station EXCEPT ![t] = "out"]
        /\ UNCHANGED <<value, passed>>
  /\ UNCHANGED <<monitor, owed, released, tokens_set, linked>>

\* The token's wait returns true then as well.
TokenWaitTimesOut(t) ==
  /\ monitor = "token" /\ station[t] # "out" /\ ~IsCancelled
  /\ passed < MaxUnits + 2 /\ passed' = passed + 1
  /\ station' = [station EXCEPT ![t] = "out"]
  /\ UNCHANGED <<monitor, value, owed, released, tokens_set, linked>>

-----------------------------------------------------------------------------
\* Mutant: release(n) wakes one thread.
OwesOne(n) == owed + 1

OwesAfter(n) == owed + n

\* release(n): the units under the mutex, one notify_one() for each after it.
Release(n) ==
  /\ monitor = "semaphore" /\ released + n <= MaxUnits
  /\ value' = value + n /\ released' = released + n
  /\ owed' = OwesAfter(n)
  /\ UNCHANGED <<monitor, station, passed, tokens_set, linked>>

NotifyWaiter ==
  /\ owed > 0 /\ owed' = owed - 1
  /\ \/ MonitorSleepers = {} /\ UNCHANGED station
     \/ \E t \in MonitorSleepers : station' = [station EXCEPT ![t] = "awake"]
  /\ UNCHANGED <<monitor, value, released, passed, tokens_set, linked>>

\* Event: set() and reset().
SetEvent ==
  /\ monitor = "event"
  /\ value' = 1 /\ EverybodyWakes
  /\ UNCHANGED <<monitor, owed, released, passed, tokens_set, linked>>

ResetEvent ==
  /\ monitor = "event"
  /\ value' = 0
  /\ UNCHANGED <<monitor, station, owed, released, passed, tokens_set, linked>>

CountDown ==
  /\ monitor = "latch" /\ value > 0
  /\ value' = value - 1
  /\ IF value = 1 THEN EverybodyWakes ELSE UNCHANGED station
  /\ UNCHANGED <<monitor, owed, released, passed, tokens_set, linked>>

\* Token: cancel() of either, and link_to(), which is not undone.
CancelToken(token) ==
  /\ monitor = "token"
  /\ tokens_set' = tokens_set \cup {token}
  /\ UNCHANGED <<monitor, value, station, owed, released, passed, linked>>

LinkTo ==
  /\ monitor = "token" /\ linked' = TRUE
  /\ UNCHANGED <<monitor, value, station, owed, released, passed, tokens_set>>

MonitorNext ==
  \/ \E t \in Waiters :
       WaitOn(t) \/ WakeUnasked(t)
       \/ IF monitor = "token" THEN TokenWaitTimesOut(t) ELSE WaitTimesOut(t)
  \/ \E n \in 1..MaxUnits : Release(n)
  \/ NotifyWaiter \/ SetEvent \/ ResetEvent \/ CountDown
  \/ \E token \in {"own", "other"} : CancelToken(token)
  \/ LinkTo

MonitorSpec == MonitorInit /\ [][MonitorNext]_monitorVars

-----------------------------------------------------------------------------
\* Semaphore: a unit is taken once, whoever is faster, and none lies idle
\* while a thread sleeps that nobody is about to wake.  The wake-ups come
\* after the mutex, so that other threads may take the units first or go to
\* sleep in between.
UnitsInv ==
  monitor = "semaphore" =>
    /\ value + passed = 1 + released
    /\ MonitorSleepers # {} => value <= Count(Waiters, station, "awake") + owed

\* Event and latch: nobody sleeps on what has happened; the latch lets nobody
\* through before its count is zero, and then everybody for good.
SignalsInv ==
  /\ (monitor \in {"event", "latch"} /\ MayReturn) => MonitorSleepers = {}
  /\ (monitor = "latch" /\ passed > 0) => value = 0

MonitorInv == UnitsInv /\ SignalsInv
-----------------------------------------------------------------------------
(* OnceFlag::call_once of thread_utils.h: the thread whose compare-and-    *)
(* exchange takes the state from Idle to Running runs the function; a      *)
(* thread that finds Running spins until it reads Done.                    *)

CONSTANTS
  FlagThreads,
  MaxThrows    \* bound on the times the function throws

ASSUME OnceAssumption == MaxThrows \in Nat

VARIABLES
  once_state,   \* once_state_: "Idle", "Running" or "Done"
  place,        \* per thread: "out", "runs", "spins", or the answer of its
                \* last call: "true", "false" or "threw"
  runs,         \* completed runs of the function
  throws        \* runs that threw

onceVars == <<once_state, place, runs, throws>>

Resting == {"out", "true", "false", "threw"}

OnceTypeOK ==
  /\ once_state \in {"Idle", "Running", "Done"}
  /\ place \in [FlagThreads -> Resting \cup {"runs", "spins"}]
  /\ runs \in 0..1 /\ throws \in 0..MaxThrows

OnceInit ==
  /\ once_state = "Idle"
  /\ place = [t \in FlagThreads |-> "out"]
  /\ runs = 0 /\ throws = 0

-----------------------------------------------------------------------------

WinsExchange == once_state = "Idle"

Call(t) ==
  /\ place[t] \in Resting
  /\ IF WinsExchange
       THEN once_state' = "Running" /\ place' = [place EXCEPT ![t] = "runs"]
       ELSE /\ place' = [place EXCEPT ![t] = IF once_state = "Done" THEN "false" ELSE "spins"]
            /\ UNCHANGED once_state
  /\ UNCHANGED <<runs, throws>>

SpinsOver == once_state = "Done"

Spin(t) ==
  /\ place[t] = "spins" /\ SpinsOver
  /\ place' = [place EXCEPT ![t] = "false"]
  /\ UNCHANGED <<once_state, runs, throws>>

Completes(t) ==
  /\ place[t] = "runs"
  /\ once_state' = "Done" /\ runs' = runs + 1
  /\ place' = [place EXCEPT ![t] = "true"]
  /\ UNCHANGED throws

Throws(t) ==
  /\ place[t] = "runs" /\ throws < MaxThrows
  /\ once_state' = "Idle" /\ throws' = throws + 1
  /\ place' = [place EXCEPT ![t] = "threw"]
  /\ UNCHANGED runs

OnceNext == \E t \in FlagThreads : Call(t) \/ Spin(t) \/ Completes(t) \/ Throws(t)

OnceSpec == OnceInit /\ [][OnceNext]_onceVars

-----------------------------------------------------------------------------
\* One run at a time, and none after one has completed.
OneRunner ==
  /\ Cardinality({t \in FlagThreads : place[t] = "runs"}) <= 1
  /\ (\E t \in FlagThreads : place[t] = "runs") => runs = 0

\* Whoever is told false may rely on a completed run.
FalseMeansDone == (\E t \in FlagThreads : place[t] = "false") => runs = 1

\* A flag whose function threw can be taken again: it never looks taken while
\* nobody runs the function.
Retriable == once_state = "Running" => \E t \in FlagThreads : place[t] = "runs"

\* call_once(): one run at a time, false only after it, and retries after a throw.
OnceInv == OneRunner /\ FalseMeansDone /\ Retriable

-----------------------------------------------------------------------------
(***************************************************************************)
(* The blocking queue of thread_utils.h: push() sleeps on not_full_ while  *)
(* the queue is full, pop() on not_empty_ while it is empty, and close()   *)
(* wakes everybody.  Each push wakes one consumer and each pop one         *)
(* producer, under the mutex; a sleeper takes the mutex again later and    *)
(* may find that somebody else was faster, or that its time is over.       *)
(***************************************************************************)

CONSTANTS
  Producers, Consumers,   \* threads
  Capacity,               \* capacity_, 0 for no limit
  MaxItems                \* bound on the items pushed

ASSUME QueueAssumption ==
  /\ IsFiniteSet(Producers) /\ IsFiniteSet(Consumers)
  /\ Producers \cap Consumers = {}
  /\ Capacity \in Nat /\ MaxItems \in Nat

VARIABLES
  queue,      \* queue_: the items, numbered as they enter
  closed,     \* closed_
  notified,   \* close() has also woken the sleepers
  at,         \* per thread: "out", "asleep" or "awake"
  pushed,     \* the items that entered
  popped      \* the items that left

queueVars == <<queue, closed, notified, at, pushed, popped>>

QueueThreads == Producers \cup Consumers

QueueTypeOK ==
  /\ queue \in Seq(1..MaxItems)
  /\ Capacity > 0 => Len(queue) <= Capacity
  /\ closed \in BOOLEAN /\ notified \in BOOLEAN
  /\ at \in [QueueThreads -> {"out", "asleep", "awake"}]
  /\ pushed \in 0..MaxItems /\ popped \in 0..MaxItems

QueueInit ==
  /\ queue = <<>> /\ closed = FALSE /\ notified = FALSE
  /\ at = [t \in QueueThreads |-> "out"]
  /\ pushed = 0 /\ popped = 0

-----------------------------------------------------------------------------
QueueSleepers(group) == In(group, at, "asleep")

\* Mutant: the waiter is not told.
NotifyNone(t, group) == at' = [at EXCEPT ![t] = "out"]

\* Thread t leaves its call and wakes one sleeper of a group, if there is one.
NotifyOne(t, group) ==
  \/ QueueSleepers(group) = {} /\ at' = [at EXCEPT ![t] = "out"]
  \/ \E s \in QueueSleepers(group) : at' = [at EXCEPT ![t] = "out", ![s] = "awake"]

\* The predicates of the waits.
MayPush == closed \/ Capacity = 0 \/ Len(queue) < Capacity
MayPop == queue # <<>> \/ closed

Push(p) ==
  /\ at[p] \in {"out", "awake"} /\ ~closed
  /\ MayPush /\ pushed < MaxItems
  /\ pushed' = pushed + 1
  /\ queue' = Append(queue, pushed')
  /\ NotifyOne(p, Consumers)
  /\ UNCHANGED <<closed, notified, popped>>

\* pop() and try_pop() once the predicate holds and there is an item.
PopFront(c) ==
  /\ queue # <<>>
  /\ popped' = Head(queue)
  /\ queue' = Tail(queue)
  /\ NotifyOne(c, Producers)
  /\ UNCHANGED <<closed, notified, pushed>>

Pop(c) == at[c] \in {"out", "awake"} /\ MayPop /\ PopFront(c)

\* A call has to wait, or to wait again.
WaitInQueue(t, ready) ==
  /\ at[t] \in {"out", "awake"} /\ ~ready
  /\ at' = [at EXCEPT ![t] = "asleep"]
  /\ UNCHANGED <<queue, closed, notified, pushed, popped>>

\* The time of try_pop() is over: the predicate decides.
TimeOutInQueue(c) ==
  /\ at[c] \in {"asleep", "awake"}
  /\ \/ PopFront(c)
     \/ /\ queue = <<>>
        /\ at' = [at EXCEPT ![c] = "out"]
        /\ UNCHANGED <<queue, closed, notified, pushed, popped>>

\* A sleeper that was woken finds the queue closed, and empty for pop().
\* push() drops its value.
LeaveQueue(t, ready) ==
  /\ at[t] = "awake" /\ closed /\ ready
  /\ t \in Consumers => queue = <<>>
  /\ at' = [at EXCEPT ![t] = "out"]
  /\ UNCHANGED <<queue, closed, notified, pushed, popped>>

\* close(): the flag under the mutex, the wake-ups after it.
Close ==
  /\ ~closed /\ closed' = TRUE
  /\ UNCHANGED <<queue, notified, at, pushed, popped>>

CloseNotify ==
  /\ closed /\ ~notified /\ notified' = TRUE
  /\ at' = [t \in QueueThreads |-> IF at[t] = "asleep" THEN "awake" ELSE at[t]]
  /\ UNCHANGED <<queue, closed, pushed, popped>>

Producer(p) == Push(p) \/ WaitInQueue(p, MayPush) \/ LeaveQueue(p, MayPush)
Consumer(c) == Pop(c) \/ WaitInQueue(c, MayPop) \/ LeaveQueue(c, MayPop)

QueueNext ==
  \/ \E p \in Producers : Producer(p)
  \/ \E c \in Consumers : Consumer(c) \/ TimeOutInQueue(c)
  \/ Close \/ CloseNotify

QueueSpec == QueueInit /\ [][QueueNext]_queueVars

-----------------------------------------------------------------------------
\* The items come out in the order they went in, none lost, none twice.
InOrder ==
  /\ \A i \in DOMAIN queue : queue[i] = popped + i
  /\ pushed = popped + Len(queue)

\* While a consumer sleeps, every item is promised to one that was woken;
\* time-outs and faster newcomers notwithstanding.
NoStrandedConsumer ==
  (QueueSleepers(Consumers) # {} /\ ~closed) => Len(queue) <= Count(Consumers, at, "awake")

\* While a producer sleeps, every free place is promised to one that was woken.
NoStrandedProducer ==
  (QueueSleepers(Producers) # {} /\ Capacity > 0 /\ ~closed) =>
    Capacity - Len(queue) <= Count(Producers, at, "awake")

\* What the queue promises in every state.  The first part is about data, the
\* others about the two condition variables.
QueueInv == InOrder /\ NoStrandedConsumer /\ NoStrandedProducer

\* All that waits in thread_utils.h: signals, the flag and the queue wake whom they
\* should, and lose and double nothing.
MonitorsInv == MonitorInv /\ OnceInv /\ QueueInv
=============================================================================
