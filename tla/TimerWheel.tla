----------------------------- MODULE TimerWheel -----------------------------
(***************************************************************************)
(* The timer wheel (timer_wheel.cpp).  A timer sits in the slot of its     *)
(* deadline; the worker thread advances the cursor one slot per tick,      *)
(* takes the timers that are due out of the slot under the mutex and runs  *)
(* their callbacks outside of it, while other threads, or the callbacks    *)
(* themselves, add and cancel timers.                                      *)
(*                                                                         *)
(* current_tick_ and the deadlines grow for ever and only their difference *)
(* and their position on the wheel matter: the model keeps the cursor,     *)
(* current_tick_ % kSlotCount, and for each timer the ticks that are left. *)
(***************************************************************************)
EXTENDS Integers, FiniteSets

CONSTANTS
  MaxTimers,    \* bound on the timers added
  SlotCount,    \* kSlotCount
  TimerDelays,  \* delays and intervals, in ticks after rounding up
  StopsLate     \* a periodic callback may return false even after its timer
                \* was cancelled

ASSUME WheelAssumption ==
  /\ MaxTimers \in Nat
  /\ SlotCount \in Nat \ {0}
  /\ TimerDelays \subseteq Nat \ {0}
  /\ StopsLate \in BOOLEAN

VARIABLES
  next_timer,     \* next_id_
  cursor,      \* current_tick_ % kSlotCount
  slots,       \* slots_: the timers in each slot
  left,        \* Timer::deadline - current_tick_
  interval,    \* Timer::interval; 0 for a timer that fires once
  cancelled,   \* Timer::cancelled
  pending,     \* pending_
  due,         \* the worker's snapshot of timers to run
  firing,      \* the timer whose callback runs, 0 if none
  waiter,      \* a thread in wait_idle(): "no", "asleep" or "awake"
  wheel_stopping, ticker   \* stopping_, and whether the worker thread lives

slotVars == <<cursor, slots, left>>
stopVars  == <<wheel_stopping, ticker>>
wheelVars == <<next_timer, slotVars, interval, cancelled, pending, due, firing, waiter, stopVars>>

Timers == 1..MaxTimers
Slots == 0..SlotCount - 1
Added == 1..next_timer - 1
InWheel == UNION {slots[s] : s \in Slots}

WheelTypeOK ==
  /\ next_timer \in 1..MaxTimers + 1
  /\ cursor \in Slots
  /\ slots \in [Slots -> SUBSET Added]
  /\ left \in [Timers -> Int] /\ interval \in [Timers -> TimerDelays \cup {0}]
  /\ cancelled \subseteq Added
  /\ pending \in 0..MaxTimers
  /\ due \subseteq Added /\ firing \in Added \cup {0}
  /\ waiter \in {"no", "asleep", "awake"}
  /\ wheel_stopping \in BOOLEAN /\ ticker \in BOOLEAN

WheelInit ==
  /\ next_timer = 1 /\ cursor = 0 /\ pending = 0
  /\ slots = [s \in Slots |-> {}]
  /\ left = [i \in Timers |-> 0] /\ interval = [i \in Timers |-> 0]
  /\ cancelled = {}
  /\ due = {} /\ firing = 0
  /\ waiter = "no"
  /\ wheel_stopping = FALSE /\ ticker = TRUE

-----------------------------------------------------------------------------
\* idle_cv_.notify_all()
notify_idle == waiter' = IF waiter = "asleep" THEN "awake" ELSE waiter

SlotOf(ticks) == (cursor + ticks) % SlotCount

\* add_ms() (period = 0) and add_periodic_ms() (period = delay).
Add(delay, period) ==
  /\ ~wheel_stopping /\ next_timer \in Timers
  /\ next_timer' = next_timer + 1
  /\ slots' = [slots EXCEPT ![SlotOf(delay)] = @ \cup {next_timer}]
  /\ left' = [left EXCEPT ![next_timer] = delay]
  /\ interval' = [interval EXCEPT ![next_timer] = period]
  /\ pending' = pending + 1
  /\ UNCHANGED <<cursor, cancelled, due, firing, waiter, stopVars>>

\* cancel_timer() returning true: the timer is in the wheel.  (Returning
\* false changes nothing.)
CancelTimer(i) ==
  /\ ~wheel_stopping /\ i \in InWheel \ cancelled
  /\ cancelled' = cancelled \cup {i}
  /\ pending' = pending - 1
  /\ notify_idle
  /\ UNCHANGED <<next_timer, slotVars, interval, due, firing, stopVars>>

\* wait_idle()
WaitWheelIdle ==
  /\ ~wheel_stopping /\ waiter # "asleep"
  /\ waiter' = IF pending = 0 THEN "no" ELSE "asleep"
  /\ UNCHANGED <<next_timer, slotVars, interval, cancelled, pending, due, firing, stopVars>>

\* Mutant: whatever is in the slot is taken to be due.
WholeSlot(now) == slots[now] \ cancelled

\* The deadline test: current_tick_ >= t.deadline after the increment.
DueIn(now) == {i \in slots[now] \ cancelled : left[i] <= 1}

Staying(now) == (slots[now] \ cancelled) \ DueIn(now)

NextSlot(i, now) == (now + left[i] - 1 + interval[i]) % SlotCount

\* worker_loop(), the critical section: the next tick.  Cancelled timers of
\* the slot are swept, those that are due are taken out, and the periodic
\* ones among them go back into the slot of their next deadline.
Scan ==
  LET now   == SlotOf(1)
      again == {i \in DueIn(now) : interval[i] > 0}
  IN
  /\ ticker /\ ~wheel_stopping /\ pending # 0 /\ due = {} /\ firing = 0
  /\ cursor' = now
  /\ due' = DueIn(now)
  /\ left' = [i \in Timers |-> IF i \in again THEN left[i] - 1 + interval[i]
                            ELSE IF i \in InWheel THEN left[i] - 1 ELSE left[i]]
  /\ slots' = [s \in Slots |->
                 (IF s = now THEN Staying(now) ELSE slots[s])
                   \cup {i \in again : NextSlot(i, now) = s}]
  /\ UNCHANGED <<next_timer, interval, cancelled, pending, firing, waiter, stopVars>>

\* The worker calls the callback of a timer of its snapshot.
StartCallback ==
  /\ firing = 0
  /\ \E i \in due : firing' = i /\ due' = due \ {i}
  /\ UNCHANGED <<next_timer, slotVars, interval, cancelled, pending, waiter, stopVars>>

CallbackKeeps ==
  /\ firing # 0 /\ interval[firing] > 0
  /\ firing' = 0
  /\ UNCHANGED <<next_timer, slotVars, interval, cancelled, pending, due, waiter, stopVars>>

MayReturnFalse ==
  interval[firing] = 0 \/ firing \notin cancelled \/ StopsLate

\* The callback returned false, as a one-shot timer's does: pending_ is
\* counted down and cancel_timer_locked() marks what is left in the wheel.
CallbackEnds ==
  /\ firing # 0 /\ MayReturnFalse
  /\ firing' = 0
  /\ pending' = pending - 1
  /\ cancelled' = cancelled \cup ({firing} \cap InWheel)
  /\ notify_idle
  /\ UNCHANGED <<next_timer, slotVars, interval, due, stopVars>>

\* The destructor; nobody uses the wheel any more.
StopWheel ==
  /\ ~wheel_stopping /\ waiter = "no"
  /\ wheel_stopping' = TRUE
  /\ UNCHANGED <<next_timer, slotVars, interval, cancelled, pending, due, firing, waiter, ticker>>

WheelWorkerExit ==
  /\ wheel_stopping /\ ticker /\ due = {} /\ firing = 0
  /\ ticker' = FALSE
  /\ UNCHANGED <<next_timer, slotVars, interval, cancelled, pending, due, firing, waiter, wheel_stopping>>

WheelWorker == Scan \/ StartCallback \/ CallbackKeeps \/ CallbackEnds \/ WheelWorkerExit

WheelNext ==
  \/ \E d \in TimerDelays : Add(d, 0) \/ Add(d, d)
  \/ \E i \in Timers : CancelTimer(i)
  \/ WaitWheelIdle \/ WheelWorker \/ StopWheel

WheelSpec == WheelInit /\ [][WheelNext]_wheelVars

-----------------------------------------------------------------------------
OneShots == {i \in Added : interval[i] = 0}

\* What pending_count() is documented to count: the timers that are neither
\* cancelled nor, for a one-shot timer, done.
Live == (InWheel \ cancelled) \cup ((due \cup {firing}) \cap OneShots)

\* pending_ counts the live timers through every cancellation, also of a
\* timer that is about to run.
PendingExact == pending = Cardinality(Live)

\* A timer is in the one slot its deadline belongs to and is never overdue,
\* however many turns of the wheel it waits.
InItsSlot ==
  \A s \in Slots : \A i \in slots[s] : i \notin cancelled =>
    left[i] >= 1 /\ s = SlotOf(left[i])

\* Whatever runs was due at this very tick, not a turn of the wheel early.
FiresOnTime ==
  \A i \in due : left[i] = interval[i]

\* wait_idle() does not sleep through the moment the wheel becomes idle.
NoLostWheelIdle == waiter = "asleep" => pending # 0

\* The account, the slots and the moment of firing, in every state.
WheelInv == PendingExact /\ InItsSlot /\ FiresOnTime /\ NoLostWheelIdle
=============================================================================
