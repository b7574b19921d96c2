--------------------------- MODULE AdmissionGate ---------------------------
(***************************************************************************)
(* The admission gate of RpcServer (rpc.cpp, class AdmissionGate): a       *)
(* counter of the requests inside handle_core(), with an optional limit,   *)
(* one mutex and one condition variable, slot_freed_cv, on which queued    *)
(* requests (acquire_for) and the stopping thread (wait_until_idle) both   *)
(* sleep.  Every action is one critical section of the mutex.  A sleeping  *)
(* thread is a member of "asleep"; notify_all empties that set, and a      *)
(* thread that has left it still has to take the mutex again and test its  *)
(* predicate, while other callers may get the mutex first.                 *)
(***************************************************************************)
EXTENDS Integers, FiniteSets, Counting

CONSTANTS
  Callers,   \* threads that run handle_core
  Drainer,   \* the thread in RpcServer::Impl::shutdown
  Limits     \* the values set_limit is called with; 0 = no limit

ASSUME GateAssumption ==
  /\ IsFiniteSet(Callers)
  /\ Drainer \notin Callers
  /\ Limits \subseteq Nat

VARIABLES
  limit, in_flight, waiting, stop_waiting,  \* the fields of the class
  at,       \* where each caller is with respect to the gate
  drain,    \* where the drainer is in wait_until_idle
  asleep    \* threads blocked on slot_freed_cv

gateVars == <<limit, in_flight, waiting, stop_waiting, at, drain, asleep>>

GateTypeOK ==
  /\ limit \in Limits \cup {0}
  /\ in_flight \in Nat
  /\ waiting \in Nat
  /\ stop_waiting \in BOOLEAN
  /\ at \in [Callers -> {"out", "waiting", "in", "refused"}]
  /\ drain \in {"none", "waiting", "idle", "timeout"}
  /\ asleep \subseteq Callers \cup {Drainer}

GateInit ==
  /\ limit \in Limits \cup {0}
  /\ in_flight = 0
  /\ waiting = 0
  /\ stop_waiting = FALSE
  /\ at = [c \in Callers |-> "out"]
  /\ drain = "none"
  /\ asleep = {}

-----------------------------------------------------------------------------
Full == limit > 0 /\ in_flight >= limit

\* The predicate of acquire_for's wait, and of wait_until_idle's.
MayLeaveQueue == ~Full \/ stop_waiting
Idle == in_flight = 0 /\ waiting = 0

notify_all == asleep' = {}

\* acquire(): never blocks.
Acquire(c) ==
  /\ at[c] = "out"
  /\ at' = [at EXCEPT ![c] = IF Full THEN "refused" ELSE "in"]
  /\ in_flight' = IF Full THEN in_flight ELSE in_flight + 1
  /\ UNCHANGED <<limit, waiting, stop_waiting, drain, asleep>>

\* acquire_for(): the path that finds a free slot.
AcquireForFree(c) ==
  /\ at[c] = "out"
  /\ ~Full
  /\ at' = [at EXCEPT ![c] = "in"]
  /\ in_flight' = in_flight + 1
  /\ UNCHANGED <<limit, waiting, stop_waiting, drain, asleep>>

\* acquire_for(): the path that queues; wait_until tests the predicate
\* before it sleeps, so a gate that is shut down lets the caller through.
AcquireForQueue(c) ==
  /\ at[c] = "out"
  /\ Full
  /\ at' = [at EXCEPT ![c] = "waiting"]
  /\ waiting' = waiting + 1
  /\ asleep' = IF stop_waiting THEN asleep ELSE asleep \cup {c}
  /\ UNCHANGED <<limit, in_flight, stop_waiting, drain>>

\* Mutant: the early return of a caller that got no slot is lost.
LeaveQueueCounted(c, got) ==
  /\ waiting' = waiting - 1
  /\ at' = [at EXCEPT ![c] = IF got /\ ~stop_waiting THEN "in" ELSE "refused"]
  /\ in_flight' = in_flight + 1

\* The end of acquire_for once wait_until has returned "got".
LeaveQueue(c, got) ==
  /\ waiting' = waiting - 1
  /\ at' = [at EXCEPT ![c] = IF got /\ ~stop_waiting THEN "in" ELSE "refused"]
  /\ in_flight' = IF got /\ ~stop_waiting THEN in_flight + 1 ELSE in_flight

\* Mutant: the woken caller trusts the notification.
ResumeTrusting(c) ==
  /\ at[c] = "waiting"
  /\ c \notin asleep
  /\ LeaveQueue(c, TRUE)
  /\ UNCHANGED <<limit, stop_waiting, drain, asleep>>

\* A queued caller that was woken (or woke spuriously) tests the predicate.
Resume(c) ==
  /\ at[c] = "waiting"
  /\ c \notin asleep
  /\ MayLeaveQueue
  /\ LeaveQueue(c, TRUE)
  /\ UNCHANGED <<limit, stop_waiting, drain, asleep>>

SleepAgain(c) ==
  /\ at[c] = "waiting"
  /\ c \notin asleep
  /\ ~MayLeaveQueue
  /\ asleep' = asleep \cup {c}
  /\ UNCHANGED <<limit, in_flight, waiting, stop_waiting, at, drain>>

\* queue_wait_ms is over: wait_until returns what the predicate says then.
QueueTimeout(c) ==
  /\ at[c] = "waiting"
  /\ LeaveQueue(c, MayLeaveQueue)
  /\ asleep' = asleep \ {c}
  /\ UNCHANGED <<limit, stop_waiting, drain>>

\* Mutant: notify_one, which may wake the drainer instead of a caller.
ReleaseNotifyOne(c) ==
  /\ at[c] = "in"
  /\ at' = [at EXCEPT ![c] = "out"]
  /\ in_flight' = in_flight - 1
  /\ IF asleep = {} THEN asleep' = {} ELSE \E t \in asleep : asleep' = asleep \ {t}
  /\ UNCHANGED <<limit, waiting, stop_waiting, drain>>

Release(c) ==
  /\ at[c] = "in"
  /\ at' = [at EXCEPT ![c] = "out"]
  /\ in_flight' = in_flight - 1
  /\ notify_all
  /\ UNCHANGED <<limit, waiting, stop_waiting, drain>>

\* The refused caller answers 429; its thread serves the next request.
Refused(c) ==
  /\ at[c] = "refused"
  /\ at' = [at EXCEPT ![c] = "out"]
  /\ UNCHANGED <<limit, in_flight, waiting, stop_waiting, drain, asleep>>

SetLimit(n) ==
  /\ limit' = n
  /\ notify_all
  /\ UNCHANGED <<in_flight, waiting, stop_waiting, at, drain>>

Shutdown ==
  /\ drain # "waiting"
  /\ stop_waiting' = TRUE
  /\ notify_all
  /\ UNCHANGED <<limit, in_flight, waiting, at, drain>>

\* Called at the start of every run of the server, by which time the
\* stopping thread has left wait_until_idle.
Reset ==
  /\ drain # "waiting"
  /\ stop_waiting' = FALSE
  /\ drain' = "none"
  /\ UNCHANGED <<limit, in_flight, waiting, at, asleep>>

\* wait_until_idle(): called by the thread that may later call Shutdown, so
\* the two never overlap; a second stop may find the gate already shut down.
DrainStart ==
  /\ drain # "waiting"
  /\ drain' = IF Idle THEN "idle" ELSE "waiting"
  /\ asleep' = IF Idle THEN asleep ELSE asleep \cup {Drainer}
  /\ UNCHANGED <<limit, in_flight, waiting, stop_waiting, at>>

DrainResume ==
  /\ drain = "waiting"
  /\ Drainer \notin asleep
  /\ drain' = IF Idle THEN "idle" ELSE "waiting"
  /\ asleep' = IF Idle THEN asleep ELSE asleep \cup {Drainer}
  /\ UNCHANGED <<limit, in_flight, waiting, stop_waiting, at>>

DrainTimeout ==
  /\ drain = "waiting"
  /\ drain' = IF Idle THEN "idle" ELSE "timeout"
  /\ asleep' = asleep \ {Drainer}
  /\ UNCHANGED <<limit, in_flight, waiting, stop_waiting, at>>

CallerStep(c) ==
  \/ Acquire(c) \/ AcquireForFree(c) \/ AcquireForQueue(c)
  \/ Resume(c) \/ SleepAgain(c) \/ QueueTimeout(c)
  \/ Release(c) \/ Refused(c)

GateNext ==
  \/ \E c \in Callers : CallerStep(c)
  \/ \E n \in Limits : SetLimit(n)
  \/ Shutdown \/ Reset
  \/ DrainStart \/ DrainResume \/ DrainTimeout

GateSpec == GateInit /\ [][GateNext]_gateVars

-----------------------------------------------------------------------------
\* The two counters count exactly the callers that are inside and the ones
\* that are queued, through every timeout, refusal and shutdown.
CountersExact ==
  /\ in_flight = Count(Callers, at, "in")
  /\ waiting = Count(Callers, at, "waiting")

\* No lost wakeup: a caller sleeps only while its predicate is false, so a
\* slot freed by release(), set_limit() or shutdown() is always seen.
NoLostSlot ==
  \A c \in Callers : c \in asleep => at[c] = "waiting" /\ ~MayLeaveQueue

\* No lost wakeup for the stopping thread: on a gate not yet shut down it
\* never sleeps when the gate is idle, although queued callers that time out
\* do not notify.  (A caller turned away by shutdown() does not notify either:
\* a second stop may then sleep until its timeout.)
NoLostIdle ==
  Drainer \in asleep => drain = "waiting" /\ (stop_waiting \/ ~Idle)

\* The condition variable loses no notification, although two kinds of waiters
\* share it.
NoLostWakeup == NoLostSlot /\ NoLostIdle

\* A queued caller that is let in after the limit was lowered, or after a
\* newcomer took the slot it was woken for, would exceed the limit.
AdmitsBelowLimit ==
  [][in_flight' > in_flight => in_flight' = in_flight + 1 /\ ~Full]_gateVars

\* The gate is an implementation of bounded leases: with all its counters,
\* sleepers and time-outs it never admits a caller whom those who are really
\* inside, compared with the limit of that moment, leave no room.
Leases == INSTANCE BoundedLeases WITH
  Users   <- Callers,
  Bounds  <- Limits \ {0},
  NoBound <- 0,
  holders <- In(Callers, at, "in"),
  bound   <- limit

ImplementsLeases == Leases!LeaseSpec
-----------------------------------------------------------------------------
(***************************************************************************)
(* Proofs.  The gate's counters are exact and its condition variable loses *)
(* no wakeup, for any number of callers and any limits.  The counters      *)
(* alone are not inductive without the places of the callers, and the      *)
(* wakeup invariants need the counters (an idle gate is one nobody is in), *)
(* so the inductive invariant is the conjunction.                          *)
(***************************************************************************)
IInv == GateTypeOK /\ CountersExact /\ NoLostSlot /\ NoLostIdle

USE GateAssumption DEF GateAssumption

LEMMA GateInitInv == GateInit => IInv
<1> SUFFICES ASSUME GateInit PROVE IInv
  OBVIOUS
<1>1. GateTypeOK
  BY DEF GateInit, GateTypeOK
<1>2. CountersExact
  BY CountZero DEF GateInit, CountersExact
<1>3. NoLostSlot /\ NoLostIdle
  BY DEF GateInit, NoLostSlot, NoLostIdle
<1> QED
  BY <1>1, <1>2, <1>3 DEF IInv

\* One caller moves and the two counters follow it.
LEMMA MoveKeepsCounters ==
  ASSUME GateTypeOK, CountersExact, NEW c \in Callers,
         \A x \in Callers : x # c => at'[x] = at[x],
         in_flight' = in_flight + (IF at'[c] = "in" THEN 1 ELSE 0)
                                - (IF at[c] = "in" THEN 1 ELSE 0),
         waiting' = waiting + (IF at'[c] = "waiting" THEN 1 ELSE 0)
                            - (IF at[c] = "waiting" THEN 1 ELSE 0)
  PROVE  CountersExact' /\ in_flight' \in Nat /\ waiting' \in Nat
<1>1. in_flight \in Int /\ waiting \in Int
  BY DEF GateTypeOK
<1>2. in_flight' = Count(Callers, at', "in")
  <2>1. CASE at[c] # "in" /\ at'[c] = "in"
    BY <1>1, <2>1, CountEnter DEF CountersExact
  <2>2. CASE at[c] = "in" /\ at'[c] # "in"
    BY <1>1, <2>2, CountLeave DEF CountersExact
  <2>3. CASE at[c] = "in" <=> at'[c] = "in"
    <3>1. Count(Callers, at', "in") = Count(Callers, at, "in")
      BY <2>3, CountSame
    <3>2. in_flight' = in_flight
      BY <1>1, <2>3
    <3> QED
      BY <3>1, <3>2 DEF CountersExact
  <2> QED
    BY <2>1, <2>2, <2>3
<1>3. waiting' = Count(Callers, at', "waiting")
  <2>1. CASE at[c] # "waiting" /\ at'[c] = "waiting"
    BY <1>1, <2>1, CountEnter DEF CountersExact
  <2>2. CASE at[c] = "waiting" /\ at'[c] # "waiting"
    BY <1>1, <2>2, CountLeave DEF CountersExact
  <2>3. CASE at[c] = "waiting" <=> at'[c] = "waiting"
    <3>1. Count(Callers, at', "waiting") = Count(Callers, at, "waiting")
      BY <2>3, CountSame
    <3>2. waiting' = waiting
      BY <1>1, <2>3
    <3> QED
      BY <3>1, <3>2 DEF CountersExact
  <2> QED
    BY <2>1, <2>2, <2>3
<1> QED
  BY <1>2, <1>3, CountType DEF CountersExact

LEMMA GateStepInv == IInv /\ [GateNext]_gateVars => IInv'
<1> SUFFICES ASSUME IInv, [GateNext]_gateVars PROVE IInv'
  OBVIOUS
<1>t. GateTypeOK /\ CountersExact /\ NoLostSlot /\ NoLostIdle
  BY DEF IInv
<1>n. in_flight \in Nat /\ waiting \in Nat /\ limit \in Nat
  BY <1>t DEF GateTypeOK
<1>1. ASSUME NEW c \in Callers, Acquire(c) PROVE IInv'
  <2>0. /\ \A x \in Callers : x # c => at'[x] = at[x]
        /\ in_flight' = in_flight + (IF at'[c] = "in" THEN 1 ELSE 0)
                                   - (IF at[c] = "in" THEN 1 ELSE 0)
        /\ waiting' = waiting + (IF at'[c] = "waiting" THEN 1 ELSE 0)
                               - (IF at[c] = "waiting" THEN 1 ELSE 0)
    BY <1>t, <1>n, <1>1 DEF GateTypeOK, Acquire
  <2>1. CountersExact' /\ in_flight' \in Nat /\ waiting' \in Nat
    BY <1>t, <2>0, MoveKeepsCounters
  <2>2. GateTypeOK'
    BY <1>t, <1>1, <2>1 DEF GateTypeOK, Acquire
  <2>3. NoLostSlot'
    BY <1>t, <1>n, <1>1 DEF GateTypeOK, NoLostSlot, MayLeaveQueue, Full, Acquire
  <2>4. NoLostIdle'
    BY <1>t, <1>n, <1>1 DEF NoLostIdle, Idle, Full, Acquire
  <2> QED
    BY <2>1, <2>2, <2>3, <2>4 DEF IInv
<1>2. ASSUME NEW c \in Callers, AcquireForFree(c) PROVE IInv'
  <2>0. /\ \A x \in Callers : x # c => at'[x] = at[x]
        /\ in_flight' = in_flight + (IF at'[c] = "in" THEN 1 ELSE 0)
                                   - (IF at[c] = "in" THEN 1 ELSE 0)
        /\ waiting' = waiting + (IF at'[c] = "waiting" THEN 1 ELSE 0)
                               - (IF at[c] = "waiting" THEN 1 ELSE 0)
    BY <1>t, <1>n, <1>2 DEF GateTypeOK, AcquireForFree
  <2>1. CountersExact' /\ in_flight' \in Nat /\ waiting' \in Nat
    BY <1>t, <2>0, MoveKeepsCounters
  <2>2. GateTypeOK'
    BY <1>t, <1>2, <2>1 DEF GateTypeOK, AcquireForFree
  <2>3. NoLostSlot'
    BY <1>t, <1>n, <1>2 DEF GateTypeOK, NoLostSlot, MayLeaveQueue, Full, AcquireForFree
  <2>4. NoLostIdle'
    BY <1>t, <1>n, <1>2 DEF NoLostIdle, Idle, Full, AcquireForFree
  <2> QED
    BY <2>1, <2>2, <2>3, <2>4 DEF IInv
<1>3. ASSUME NEW c \in Callers, AcquireForQueue(c) PROVE IInv'
  <2>0. /\ \A x \in Callers : x # c => at'[x] = at[x]
        /\ in_flight' = in_flight + (IF at'[c] = "in" THEN 1 ELSE 0)
                                   - (IF at[c] = "in" THEN 1 ELSE 0)
        /\ waiting' = waiting + (IF at'[c] = "waiting" THEN 1 ELSE 0)
                               - (IF at[c] = "waiting" THEN 1 ELSE 0)
    BY <1>t, <1>n, <1>3 DEF GateTypeOK, AcquireForQueue
  <2>1. CountersExact' /\ in_flight' \in Nat /\ waiting' \in Nat
    BY <1>t, <2>0, MoveKeepsCounters
  <2>2. GateTypeOK'
    BY <1>t, <1>3, <2>1 DEF GateTypeOK, AcquireForQueue
  <2>3. NoLostSlot'
    BY <1>t, <1>n, <1>3 DEF GateTypeOK, NoLostSlot, MayLeaveQueue, Full, AcquireForQueue
  <2>4. NoLostIdle'
    BY <1>t, <1>n, <1>3 DEF NoLostIdle, Idle, AcquireForQueue
  <2> QED
    BY <2>1, <2>2, <2>3, <2>4 DEF IInv
<1>4. ASSUME NEW c \in Callers, Resume(c) PROVE IInv'
  <2>0. /\ \A x \in Callers : x # c => at'[x] = at[x]
        /\ in_flight' = in_flight + (IF at'[c] = "in" THEN 1 ELSE 0)
                                   - (IF at[c] = "in" THEN 1 ELSE 0)
        /\ waiting' = waiting + (IF at'[c] = "waiting" THEN 1 ELSE 0)
                               - (IF at[c] = "waiting" THEN 1 ELSE 0)
    BY <1>t, <1>n, <1>4 DEF GateTypeOK, Resume, LeaveQueue
  <2>1. CountersExact' /\ in_flight' \in Nat /\ waiting' \in Nat
    BY <1>t, <2>0, MoveKeepsCounters
  <2>2. GateTypeOK'
    BY <1>t, <1>4, <2>1 DEF GateTypeOK, Resume, LeaveQueue
  <2>3. NoLostSlot'
    BY <1>t, <1>n, <1>4 DEF GateTypeOK, NoLostSlot, MayLeaveQueue, Full, Resume, LeaveQueue
  <2>4. NoLostIdle'
    BY <1>t, <1>n, <1>4 DEF NoLostIdle, Idle, MayLeaveQueue, Full, Resume, LeaveQueue
  <2> QED
    BY <2>1, <2>2, <2>3, <2>4 DEF IInv
<1>5. ASSUME NEW c \in Callers, SleepAgain(c) PROVE IInv'
  <2>1. CountersExact'
    BY <1>t, <1>5 DEF CountersExact, SleepAgain
  <2>2. GateTypeOK'
    BY <1>t, <1>5 DEF GateTypeOK, SleepAgain
  <2>3. NoLostSlot' /\ NoLostIdle'
    BY <1>t, <1>5 DEF NoLostSlot, NoLostIdle, MayLeaveQueue, Full, Idle, SleepAgain
  <2> QED
    BY <2>1, <2>2, <2>3 DEF IInv
<1>6. ASSUME NEW c \in Callers, QueueTimeout(c) PROVE IInv'
  <2>0. /\ \A x \in Callers : x # c => at'[x] = at[x]
        /\ in_flight' = in_flight + (IF at'[c] = "in" THEN 1 ELSE 0)
                                   - (IF at[c] = "in" THEN 1 ELSE 0)
        /\ waiting' = waiting + (IF at'[c] = "waiting" THEN 1 ELSE 0)
                               - (IF at[c] = "waiting" THEN 1 ELSE 0)
    BY <1>t, <1>n, <1>6 DEF GateTypeOK, QueueTimeout, LeaveQueue
  <2>1. CountersExact' /\ in_flight' \in Nat /\ waiting' \in Nat
    BY <1>t, <2>0, MoveKeepsCounters
  <2>2. GateTypeOK'
    BY <1>t, <1>6, <2>1 DEF GateTypeOK, QueueTimeout, LeaveQueue
  <2>3. NoLostSlot'
    BY <1>t, <1>n, <1>6
    DEF GateTypeOK, NoLostSlot, MayLeaveQueue, Full, QueueTimeout, LeaveQueue
  <2>4. NoLostIdle'
    BY <1>t, <1>n, <1>6
    DEF NoLostIdle, Idle, MayLeaveQueue, Full, QueueTimeout, LeaveQueue
  <2> QED
    BY <2>1, <2>2, <2>3, <2>4 DEF IInv
<1>7. ASSUME NEW c \in Callers, Release(c) PROVE IInv'
  <2>0. /\ \A x \in Callers : x # c => at'[x] = at[x]
        /\ in_flight' = in_flight + (IF at'[c] = "in" THEN 1 ELSE 0)
                                   - (IF at[c] = "in" THEN 1 ELSE 0)
        /\ waiting' = waiting + (IF at'[c] = "waiting" THEN 1 ELSE 0)
                               - (IF at[c] = "waiting" THEN 1 ELSE 0)
    BY <1>t, <1>n, <1>7 DEF GateTypeOK, Release
  <2>1. CountersExact' /\ in_flight' \in Nat /\ waiting' \in Nat
    BY <1>t, <2>0, MoveKeepsCounters
  <2>2. GateTypeOK'
    BY <1>t, <1>7, <2>1 DEF GateTypeOK, Release, notify_all
  <2>3. NoLostSlot' /\ NoLostIdle'
    BY <1>7 DEF NoLostSlot, NoLostIdle, Release, notify_all
  <2> QED
    BY <2>1, <2>2, <2>3 DEF IInv
<1>8. ASSUME NEW c \in Callers, Refused(c) PROVE IInv'
  <2>0. /\ \A x \in Callers : x # c => at'[x] = at[x]
        /\ in_flight' = in_flight + (IF at'[c] = "in" THEN 1 ELSE 0)
                                   - (IF at[c] = "in" THEN 1 ELSE 0)
        /\ waiting' = waiting + (IF at'[c] = "waiting" THEN 1 ELSE 0)
                               - (IF at[c] = "waiting" THEN 1 ELSE 0)
    BY <1>t, <1>n, <1>8 DEF GateTypeOK, Refused
  <2>1. CountersExact' /\ in_flight' \in Nat /\ waiting' \in Nat
    BY <1>t, <2>0, MoveKeepsCounters
  <2>2. GateTypeOK'
    BY <1>t, <1>8, <2>1 DEF GateTypeOK, Refused
  <2>3. NoLostSlot' /\ NoLostIdle'
    BY <1>t, <1>8
    DEF GateTypeOK, NoLostSlot, NoLostIdle, MayLeaveQueue, Full, Idle, Refused
  <2> QED
    BY <2>1, <2>2, <2>3 DEF IInv
<1>9. ASSUME (\E n \in Limits : SetLimit(n)) \/ Shutdown \/ Reset PROVE IInv'
  <2>1. CountersExact'
    BY <1>t, <1>9 DEF CountersExact, SetLimit, Shutdown, Reset
  <2>2. GateTypeOK'
    BY <1>t, <1>9 DEF GateTypeOK, SetLimit, Shutdown, Reset, notify_all
  <2>3. NoLostSlot' /\ NoLostIdle'
    BY <1>t, <1>9
    DEF GateTypeOK, NoLostSlot, NoLostIdle, MayLeaveQueue, Full, Idle,
        SetLimit, Shutdown, Reset, notify_all
  <2> QED
    BY <2>1, <2>2, <2>3 DEF IInv
<1>10. ASSUME DrainStart \/ DrainResume \/ DrainTimeout PROVE IInv'
  <2>1. CountersExact'
    BY <1>t, <1>10 DEF CountersExact, DrainStart, DrainResume, DrainTimeout
  <2>2. GateTypeOK'
    BY <1>t, <1>10 DEF GateTypeOK, DrainStart, DrainResume, DrainTimeout
  <2>3. NoLostSlot'
    BY <1>t, <1>10
    DEF NoLostSlot, MayLeaveQueue, Full, DrainStart, DrainResume, DrainTimeout
  <2>4. NoLostIdle'
    BY <1>t, <1>10 DEF NoLostIdle, Idle, DrainStart, DrainResume, DrainTimeout
  <2> QED
    BY <2>1, <2>2, <2>3, <2>4 DEF IInv
<1>11. CASE UNCHANGED gateVars
  BY <1>t, <1>11
  DEF IInv, GateTypeOK, CountersExact, NoLostSlot, NoLostIdle, MayLeaveQueue,
      Full, Idle, gateVars
<1> QED
  BY <1>1, <1>2, <1>3, <1>4, <1>5, <1>6, <1>7, <1>8, <1>9, <1>10, <1>11
  DEF GateNext, CallerStep

\* What the gate's fields always satisfy: exact counters and no lost wakeup,
\* for every set of callers and every sequence of limits.
THEOREM GateInvariant == GateSpec => []IInv
<1> QED
  BY GateInitInv, GateStepInv, PTL DEF GateSpec

\* The counters of AdmissionGate (in_flight, waiting) are exact.
THEOREM GateCountersExact == GateSpec => []CountersExact
<1>1. IInv => CountersExact
  BY DEF IInv
<1> QED
  BY <1>1, GateInvariant, PTL

\* release(), set_limit() and shutdown() wake whoever can go on.
THEOREM GateNoLostWakeup == GateSpec => []NoLostWakeup
<1>1. IInv => NoLostWakeup
  BY DEF IInv, NoLostWakeup
<1> QED
  BY <1>1, GateInvariant, PTL

\* No step lets a caller in while the gate is full, not even that of a
\* caller woken for a slot that a newcomer took or that set_limit removed.
THEOREM GateAdmitsBelowLimit == GateSpec => AdmitsBelowLimit
<1>1. ASSUME IInv, [GateNext]_gateVars
      PROVE  [in_flight' > in_flight => in_flight' = in_flight + 1 /\ ~Full]_gateVars
  <2>1. in_flight \in Nat /\ waiting \in Nat
    BY <1>1 DEF IInv, GateTypeOK
  <2>2. SUFFICES ASSUME GateNext, in_flight' > in_flight
                 PROVE  in_flight' = in_flight + 1 /\ ~Full
    BY <1>1, <2>1 DEF gateVars
  <2>3. PICK c \in Callers : CallerStep(c)
    BY <2>1, <2>2
    DEF GateNext, SetLimit, Shutdown, Reset, DrainStart, DrainResume, DrainTimeout
  <2>4. CASE Acquire(c) \/ AcquireForFree(c)
    BY <2>1, <2>2, <2>4 DEF Acquire, AcquireForFree
  <2>5. CASE Resume(c) \/ QueueTimeout(c)
    BY <2>1, <2>2, <2>5 DEF Resume, QueueTimeout, LeaveQueue, MayLeaveQueue
  <2>6. CASE AcquireForQueue(c) \/ SleepAgain(c) \/ Release(c) \/ Refused(c)
    BY <2>1, <2>2, <2>6 DEF AcquireForQueue, SleepAgain, Release, Refused
  <2> QED
    BY <2>3, <2>4, <2>5, <2>6 DEF CallerStep
<1> QED
  BY <1>1, GateInvariant, PTL DEF GateSpec, AdmitsBelowLimit
\* The two names of the library's operator mean the same.
LEMMA SameCardinality == \A S : Leases!Cardinality(S) = Cardinality(S)
  BY DEF Leases!Cardinality, Cardinality

\* Whoever is let in finds room, as bounded leases understand it.
LEMMA EntryIsGrant ==
  ASSUME IInv, NEW c \in Callers, at[c] # "in", ~Full,
         at' = [at EXCEPT ![c] = "in"], limit' = limit
  PROVE  Leases!Grant(c)
<1>1. in_flight = Cardinality(In(Callers, at, "in"))
  BY DEF IInv, CountersExact, Count
<1>2. limit = 0 \/ in_flight < limit
  BY DEF IInv, GateTypeOK, Full
<1>3. In(Callers, at', "in") = In(Callers, at, "in") \cup {c}
  BY DEF IInv, GateTypeOK, In
<1>4. c \notin In(Callers, at, "in")
  BY DEF In
<1> QED
  BY <1>1, <1>2, <1>3, <1>4, SameCardinality DEF Leases!Grant, Leases!HasRoom

\* A caller that was not in and does not come in changes no lease.
LEMMA OutsideIsStutter ==
  ASSUME IInv, NEW c \in Callers, NEW place, at[c] # "in", place # "in",
         at' = [at EXCEPT ![c] = place], limit' = limit
  PROVE  UNCHANGED Leases!leaseVars
<1>1. In(Callers, at', "in") = In(Callers, at, "in")
  BY DEF IInv, GateTypeOK, In
<1> QED
  BY <1>1 DEF Leases!leaseVars

LEMMA CallerIsLease ==
  ASSUME IInv, NEW c \in Callers, CallerStep(c)
  PROVE  [Leases!LeaseNext]_(Leases!leaseVars)
<1>1. CASE Acquire(c) \/ AcquireForFree(c)
  <2>1. CASE Full
    BY <1>1, <2>1, OutsideIsStutter DEF Acquire, AcquireForFree
  <2>2. CASE ~Full
    BY <1>1, <2>2, EntryIsGrant DEF Acquire, AcquireForFree, Leases!LeaseNext
  <2> QED
    BY <2>1, <2>2
<1>2. CASE Resume(c) \/ QueueTimeout(c)
  <2>1. CASE MayLeaveQueue /\ ~stop_waiting
    <3>1. ~Full
      BY <2>1 DEF MayLeaveQueue
    <3> QED
      BY <1>2, <2>1, <3>1, EntryIsGrant DEF Resume, QueueTimeout, LeaveQueue, Leases!LeaseNext
  <2>2. CASE ~(MayLeaveQueue /\ ~stop_waiting)
    BY <1>2, <2>2, OutsideIsStutter DEF Resume, QueueTimeout, LeaveQueue
  <2> QED
    BY <2>1, <2>2
<1>3. CASE AcquireForQueue(c)
  BY <1>3, OutsideIsStutter DEF AcquireForQueue
<1>4. CASE Refused(c)
  BY <1>4, OutsideIsStutter DEF Refused
<1>5. CASE SleepAgain(c)
  BY <1>5 DEF SleepAgain, Leases!leaseVars
<1>6. CASE Release(c)
  <2>1. In(Callers, at', "in") = In(Callers, at, "in") \ {c}
    BY <1>6 DEF IInv, GateTypeOK, Release, In
  <2>2. c \in In(Callers, at, "in") /\ limit' = limit
    BY <1>6 DEF Release, In
  <2> QED
    BY <2>1, <2>2 DEF Leases!GiveBackLease, Leases!LeaseNext
<1> QED
  BY <1>1, <1>2, <1>3, <1>4, <1>5, <1>6 DEF CallerStep

\* The gate, with its counters, its sleepers and its time-outs, implements
\* bounded leases: every entry is a grant within the limit of that moment,
\* every release a return, and all else is invisible.
THEOREM GateImplementsLeases == GateSpec => ImplementsLeases
<1>1. GateInit => Leases!LeaseInit
  BY DEF GateInit, In, Leases!LeaseInit
<1>2. ASSUME IInv, [GateNext]_gateVars
      PROVE  [Leases!LeaseNext]_(Leases!leaseVars)
  <2>1. CASE \E c \in Callers : CallerStep(c)
    BY <1>2, <2>1, CallerIsLease
  <2>2. CASE \E n \in Limits : SetLimit(n)
    <3>1. PICK n \in Limits : SetLimit(n)
      BY <2>2
    <3>2. Leases!SetBound(n)
      BY <3>1 DEF SetLimit, Leases!SetBound
    <3> QED
      BY <3>2 DEF Leases!LeaseNext
  <2>3. CASE Shutdown \/ Reset \/ DrainStart \/ DrainResume \/ DrainTimeout
    BY <2>3 DEF Shutdown, Reset, DrainStart, DrainResume, DrainTimeout, Leases!leaseVars
  <2>4. CASE UNCHANGED gateVars
    BY <2>4 DEF gateVars, Leases!leaseVars
  <2> QED
    BY <1>2, <2>1, <2>2, <2>3, <2>4 DEF GateNext
<1> QED
  BY <1>1, <1>2, GateInvariant, PTL DEF GateSpec, ImplementsLeases, Leases!LeaseSpec
=============================================================================
