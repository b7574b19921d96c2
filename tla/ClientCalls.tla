----------------------------- MODULE ClientCalls ----------------------------
(***************************************************************************)
(* RpcClient::call_core of rpc.cpp: the retry loop around one attempt on   *)
(* the wire, for several calls of one client at the same time.  The calls  *)
(* share last_error and retry_after_ms, which have no lock.  Time is that  *)
(* of each call's own clock, in units of the backoff's base.               *)
(***************************************************************************)
EXTENDS Integers, FiniteSets

CONSTANTS
  Calls,        \* the calls, each made once
  MaxRetries,   \* max_retries
  BaseDelay, MaxDelay,   \* retry_base_delay_ms and retry_max_delay_ms
  Budget,       \* retry_max_total_wait_ms
  Jitter,       \* retry_jitter
  Durations,    \* how long an attempt may take
  RetryAfters   \* Retry-After of a 429 answer, 0 for none

ASSUME CallsAssumption ==
  /\ IsFiniteSet(Calls)
  /\ {MaxRetries, BaseDelay, MaxDelay, Budget} \subseteq Nat
  /\ BaseDelay <= MaxDelay
  /\ Jitter \in BOOLEAN
  /\ Durations \subseteq Nat /\ RetryAfters \subseteq Nat

VARIABLES
  lastError,    \* impl->last_error
  retryAfter,   \* impl->retry_after_ms
  pc,           \* per call: "idle", "try", "decide" or "done"
  attempt,      \* per call: attempt
  failure,      \* per call: last_fail_error
  elapsed,      \* per call: total_waited_ms()
  waited,       \* per call: the time it has slept between attempts
  advice,       \* per call: the Retry-After of its own last 429 answer
  error         \* per call: the error it has reported

callsVars == <<lastError, retryAfter, pc, attempt, failure, elapsed, waited, advice, error>>

Retryable == {"TIMEOUT", "OVERLOADED"}
Errors == Retryable \cup {"OK", "SERVER", "PROTOCOL", "UNKNOWN"}

CallsTypeOK ==
  /\ lastError \in Errors
  /\ retryAfter \in RetryAfters \cup {0}
  /\ pc \in [Calls -> {"idle", "try", "decide", "done"}]
  /\ attempt \in [Calls -> 0..MaxRetries + 1]
  /\ failure \in [Calls -> Retryable \cup {"UNKNOWN"}]
  /\ elapsed \in [Calls -> Nat] /\ waited \in [Calls -> Nat]
  /\ advice \in [Calls -> RetryAfters \cup {0}]
  /\ error \in [Calls -> Errors]

CallsInit ==
  /\ lastError = "UNKNOWN" /\ retryAfter = 0
  /\ pc = [c \in Calls |-> "idle"]
  /\ attempt = [c \in Calls |-> 0]
  /\ failure = [c \in Calls |-> "UNKNOWN"]
  /\ elapsed = [c \in Calls |-> 0] /\ waited = [c \in Calls |-> 0]
  /\ advice = [c \in Calls |-> 0]
  /\ error = [c \in Calls |-> "UNKNOWN"]

-----------------------------------------------------------------------------
\* backoff_ms(): base * 2^(n-1), limited from the second retry on.
Backoff(n) ==
  LET delay == BaseDelay * 2 ^ (n - 1)
  IN  IF n > 1 /\ delay >= MaxDelay THEN MaxDelay ELSE delay

\* apply_jitter(): half of the delay, and a random part of the other half.
Jittered(delay) ==
  IF ~Jitter \/ delay <= 1 THEN {delay}
  ELSE LET half == delay \div 2 IN half..(2 * half - 1)

\* The pause before the n-th retry.
Waits(c, n) ==
  IF failure[c] = "OVERLOADED" /\ retryAfter > 0
    THEN {retryAfter} ELSE Jittered(Backoff(n))

\* The end of a call: an asynchronous one writes last_error too.
Report(c, e) ==
  /\ lastError' = e
  /\ error' = [error EXCEPT ![c] = e]
  /\ pc' = [pc EXCEPT ![c] = "done"]

\* The request is built; parameters that are not JSON end the call at once.
Start(c) ==
  /\ pc[c] = "idle"
  /\ \/ /\ pc' = [pc EXCEPT ![c] = "try"]
        /\ UNCHANGED <<lastError, error>>
     \/ Report(c, "PROTOCOL")
  /\ UNCHANGED <<retryAfter, attempt, failure, elapsed, waited, advice>>

\* The attempt fails on the wire, or is answered by 429.
Fails(c) ==
  \/ /\ failure' = [failure EXCEPT ![c] = "TIMEOUT"]
     /\ UNCHANGED <<retryAfter, advice>>
  \/ \E ra \in RetryAfters :
       /\ failure' = [failure EXCEPT ![c] = "OVERLOADED"]
       /\ retryAfter' = ra
       /\ advice' = [advice EXCEPT ![c] = ra]

\* One attempt.
Try(c) ==
  /\ pc[c] = "try"
  /\ \E d \in Durations : elapsed' = [elapsed EXCEPT ![c] = @ + d]
  /\ \/ Fails(c) /\ pc' = [pc EXCEPT ![c] = "decide"] /\ UNCHANGED <<lastError, error>>
     \/ \E e \in {"OK", "SERVER", "PROTOCOL"} :
          Report(c, e) /\ UNCHANGED <<failure, retryAfter, advice>>
  /\ UNCHANGED <<attempt, waited>>

\* Mutant: only the time slept so far counts.
TooLongAsleep(c, wait) == waited[c] + wait > Budget

\* The budget covers the attempts' own time as well.
TooLong(c, wait) == elapsed[c] + wait > Budget

\* All retries have been made.
Spent(c) == attempt[c] + 1 > MaxRetries

\* The loop comes round: it is over, or the call pauses and tries again.
Decide(c) ==
  /\ pc[c] = "decide"
  /\ attempt' = [attempt EXCEPT ![c] = @ + 1]
  /\ IF Spent(c)
       THEN Report(c, failure[c]) /\ UNCHANGED <<elapsed, waited>>
       ELSE \E wait \in Waits(c, attempt[c] + 1) :
              IF TooLong(c, wait)
                THEN Report(c, failure[c]) /\ UNCHANGED <<elapsed, waited>>
                ELSE /\ elapsed' = [elapsed EXCEPT ![c] = @ + wait]
                     /\ waited' = [waited EXCEPT ![c] = @ + wait]
                     /\ pc' = [pc EXCEPT ![c] = "try"]
                     /\ UNCHANGED <<lastError, error>>
  /\ UNCHANGED <<retryAfter, failure, advice>>

Step(c) == Try(c) \/ Decide(c)

CallsNext == \E c \in Calls : Start(c) \/ Step(c)

CallsSpec == CallsInit /\ [][CallsNext]_callsVars

-----------------------------------------------------------------------------
Sleeps(c) == pc[c] = "decide" /\ pc'[c] = "try"

\* rpc.h, RpcClient: an overloaded server's advice is followed to the letter,
\* every other failure is followed by the limited, perhaps jittered backoff, and
\* (retry_max_total_wait_ms) no pause ends later than the budget after the call
\* began, so that only the last attempt can exceed it.
PausesAsDocumented ==
  [][\A c \in Calls : Sleeps(c) =>
       LET pause == elapsed'[c] - elapsed[c]
           full == IF BaseDelay * 2 ^ attempt[c] <= MaxDelay
                     THEN BaseDelay * 2 ^ attempt[c] ELSE MaxDelay
       IN  /\ elapsed'[c] <= Budget
           /\ IF failure[c] = "OVERLOADED" /\ advice[c] > 0 THEN pause = advice[c]
              ELSE pause <= full /\ 2 * pause >= full - 1]_callsVars
=============================================================================
