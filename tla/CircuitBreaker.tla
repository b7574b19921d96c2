--------------------------- MODULE CircuitBreaker ---------------------------
(***************************************************************************)
(* The circuit breaker (circuit_breaker.cpp) under concurrent callers.     *)
(* Every method is one critical section of the breaker's mutex; between    *)
(* allow() and record_success() / record_failure() a call runs outside of  *)
(* it, so its result may arrive in another state than the one it was       *)
(* admitted in.  The cooldown is a flag that becomes true at some time     *)
(* after the breaker opened.                                               *)
(***************************************************************************)
EXTENDS Integers, FiniteSets

CONSTANTS
  Callers,            \* threads that go through the breaker
  FailureThreshold,   \* effective_failure_threshold()
  SuccessThreshold,   \* effective_success_threshold()
  HalfOpenMax         \* effective_half_open_max()

ASSUME BreakerAssumption ==
  /\ IsFiniteSet(Callers)
  /\ FailureThreshold \in Nat \ {0}
  /\ SuccessThreshold \in Nat \ {0}
  /\ HalfOpenMax \in Nat \ {0}

VARIABLES
  state,       \* Impl::state
  cooled,      \* open_duration_ms has passed since opened_at_ms
  failures,    \* consecutive_failures
  in_flight,   \* half_open_in_flight
  successes,   \* half_open_successes
  running,     \* callers between allow() and the record of their result
  probes,      \* those of them admitted in the present HalfOpen period
  healthy      \* the protected service answers

stateVars == <<state, cooled, failures, in_flight, successes>>
breakerVars == <<stateVars, running, probes, healthy>>

States == {"Closed", "Open", "HalfOpen"}

BreakerTypeOK ==
  /\ state \in States
  /\ cooled \in BOOLEAN
  /\ failures \in 0..FailureThreshold - 1
  /\ in_flight \in 0..HalfOpenMax
  /\ successes \in 0..SuccessThreshold - 1
  /\ running \subseteq Callers
  /\ probes \subseteq running
  /\ healthy \in BOOLEAN

BreakerInit ==
  /\ state = "Closed" /\ cooled = FALSE
  /\ failures = 0 /\ in_flight = 0 /\ successes = 0
  /\ running = {} /\ probes = {}
  /\ healthy \in BOOLEAN

-----------------------------------------------------------------------------
\* Mutant: transition_locked() keeps the counters of the former state.
TransitionKeeping(to) ==
  /\ state' = to
  /\ cooled' = FALSE
  /\ failures' = 0
  /\ UNCHANGED <<in_flight, successes>>
  /\ probes' = {}

\* transition_locked(): every transition clears every counter.
Transition(to) ==
  /\ state' = to
  /\ cooled' = FALSE
  /\ failures' = 0 /\ in_flight' = 0 /\ successes' = 0
  /\ probes' = {}

\* The cooldown expires.
CoolDown ==
  /\ state = "Open" /\ ~cooled
  /\ cooled' = TRUE
  /\ UNCHANGED <<state, failures, in_flight, successes, running, probes, healthy>>

\* allow() in Closed.
AllowClosed(c) ==
  /\ c \notin running /\ state = "Closed"
  /\ running' = running \cup {c}
  /\ UNCHANGED <<stateVars, probes, healthy>>

\* allow() in Open, the cooldown over: the call is the first probe.
AllowFirstProbe(c) ==
  /\ c \notin running /\ state = "Open" /\ cooled
  /\ state' = "HalfOpen" /\ cooled' = FALSE
  /\ failures' = 0 /\ successes' = 0 /\ in_flight' = 1
  /\ running' = running \cup {c}
  /\ probes' = {c}
  /\ UNCHANGED healthy

\* allow() in HalfOpen, a probe slot free.  (Rejected calls change nothing.)
AllowProbe(c) ==
  /\ c \notin running /\ state = "HalfOpen" /\ in_flight < HalfOpenMax
  /\ in_flight' = in_flight + 1
  /\ running' = running \cup {c} /\ probes' = probes \cup {c}
  /\ UNCHANGED <<state, cooled, failures, successes, healthy>>

Allow(c) == AllowClosed(c) \/ AllowFirstProbe(c) \/ AllowProbe(c)

\* state(): the query moves a cooled breaker to HalfOpen, too.
QueryState ==
  /\ state = "Open" /\ cooled
  /\ Transition("HalfOpen")
  /\ UNCHANGED <<running, healthy>>

\* Mutant: a probe that succeeds does not give its slot back.
GiveBackNothing == in_flight

\* A result recorded in HalfOpen frees a probe slot, if one is taken.
GiveBack == IF in_flight > 0 THEN in_flight - 1 ELSE 0

Returns(c) == c \in running /\ running' = running \ {c}

SuccessClosed(c) ==
  /\ Returns(c) /\ state = "Closed"
  /\ failures' = 0
  /\ UNCHANGED <<state, cooled, in_flight, successes, probes, healthy>>

\* A late result in Open is ignored.
ResultOpen(c) ==
  /\ Returns(c) /\ state = "Open"
  /\ UNCHANGED <<stateVars, probes, healthy>>

SuccessHalfOpen(c) ==
  /\ Returns(c) /\ state = "HalfOpen"
  /\ IF successes + 1 >= SuccessThreshold
     THEN Transition("Closed")
     ELSE /\ in_flight' = GiveBack
          /\ successes' = successes + 1
          /\ probes' = probes \ {c}
          /\ UNCHANGED <<state, cooled, failures>>
  /\ UNCHANGED healthy

FailureClosed(c) ==
  /\ Returns(c) /\ state = "Closed" /\ ~healthy
  /\ IF failures + 1 >= FailureThreshold
     THEN Transition("Open")
     ELSE /\ failures' = failures + 1
          /\ UNCHANGED <<state, cooled, in_flight, successes, probes>>
  /\ UNCHANGED healthy

FailureHalfOpen(c) ==
  /\ Returns(c) /\ state = "HalfOpen" /\ ~healthy
  /\ Transition("Open")
  /\ UNCHANGED healthy

\* record_success() and record_failure(); a healthy service does not fail.
Record(c) ==
  \/ SuccessClosed(c) \/ SuccessHalfOpen(c) \/ ResultOpen(c)
  \/ FailureClosed(c) \/ FailureHalfOpen(c)

\* reset(), from any state.
Reset ==
  /\ Transition("Closed")
  /\ UNCHANGED <<running, healthy>>

ServiceChanges ==
  /\ healthy' = ~healthy
  /\ UNCHANGED <<stateVars, running, probes>>

BreakerNext ==
  \/ \E c \in Callers : Allow(c) \/ Record(c)
  \/ CoolDown \/ QueryState \/ Reset \/ ServiceChanges

BreakerSpec == BreakerInit /\ [][BreakerNext]_breakerVars

-----------------------------------------------------------------------------
\* A counter is only ever non-zero in the state it belongs to, so no period
\* starts with what an earlier one left behind.
CountersBelong ==
  /\ state # "HalfOpen" => in_flight = 0 /\ successes = 0 /\ probes = {}
  /\ state # "Closed" => failures = 0
  /\ state # "Open" => ~cooled

\* No probe slot leaks: each slot taken belongs to a probe that still runs and
\* will give it back, whatever stale results are recorded meanwhile.
NoLeakedProbe == in_flight <= Cardinality(probes)

\* The counters stay within their thresholds, belong to the state they are
\* counted in, and no probe slot leaks.
BreakerInv == BreakerTypeOK /\ CountersBelong /\ NoLeakedProbe

\* Once the service stays healthy, the breaker closes and stays closed.
Recovers == <>[]healthy => <>[](state = "Closed")
=============================================================================
