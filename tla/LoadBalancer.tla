---------------------------- MODULE LoadBalancer ----------------------------
(***************************************************************************)
(* RpcLoadBalancer of rpc.cpp: several endpoints, each with a client of    *)
(* its own; a call picks the order of its candidates under the mutex, then *)
(* tries them one after the other without it, and accounts for each        *)
(* attempt under it again.  A synchronous call learns why an attempt       *)
(* failed from the client's last_error(), which all calls of that client   *)
(* share; an asynchronous one gets the error with its answer, and is       *)
(* counted in pending_async, for which the destructor waits.               *)
(***************************************************************************)
EXTENDS Counting, Sequences

CONSTANTS
  BalancedCalls,  \* calls, each made once
  AsyncCalls,     \* those made with call_async()
  First,          \* endpoints added before the first call
  MaxEndpoints,   \* bound on the endpoints
  Strategies,     \* values of strategy, among the three that follow
  RoundRobin, Random, LeastInFlight,
  Thresholds,     \* values of unhealthy_threshold
  Failovers,      \* values of failover
  Answers         \* what an endpoint may answer: see AnswerAttempt

ASSUME BalancerAssumption ==
  /\ IsFiniteSet(BalancedCalls) /\ AsyncCalls \subseteq BalancedCalls
  /\ First \in Nat /\ MaxEndpoints \in Nat /\ First <= MaxEndpoints
  /\ Strategies \subseteq {RoundRobin, Random, LeastInFlight}
  /\ Thresholds \subseteq Nat /\ Failovers \subseteq BOOLEAN
  /\ Answers \subseteq {"value", "null", "timeout", "server"}

VARIABLES
  ep,         \* endpoints: the records of Impl::Endpoint, plus their clients' last_error
  rr,         \* rr_counter
  config,     \* config.strategy, .failover and .unhealthy_threshold
  totals,     \* total_calls, total_failures and failovers
  chains,    \* pending_async
  deleted,      \* the destructor has deleted Impl
  stage,         \* per call: how far it is
  order,      \* per call: its candidates
  index,      \* per call: the candidate it is at
  bound,      \* per call: max_attempts of a synchronous call
  outcome      \* per call: what the endpoint really answered to the last attempt

balancerVars == <<ep, rr, config, totals, chains, deleted, stage, order, index, bound, outcome>>

Endpoint == 1..Len(ep)
At(c) == order[c][index[c]]

Steps == {"idle", "bound", "count", "begin", "net", "answered", "fail",
          "finalize", "callback", "uncount", "notify", "done"}

BalancerTypeOK ==
  /\ Len(ep) \in First..MaxEndpoints
  /\ \A e \in Endpoint :
       /\ {ep[e].selected, ep[e].attempts, ep[e].failures, ep[e].inFlight,
           ep[e].consecutive} \subseteq Nat
       /\ ep[e].healthy \in BOOLEAN
       /\ ep[e].lastError \in {"OK", "TIMEOUT", "SERVER"}
  /\ rr \in Nat
  /\ config \in [strategy : Strategies, failover : Failovers, threshold : Thresholds]
  /\ chains \in 0..Cardinality(AsyncCalls)
  /\ deleted \in BOOLEAN
  /\ stage \in [BalancedCalls -> Steps]
  /\ \A c \in BalancedCalls : order[c] \in Seq(Endpoint) /\ index[c] \in 1..MaxEndpoints + 1
  /\ bound \in [BalancedCalls -> 0..MaxEndpoints]

NewEndpoint ==
  [selected |-> 0, attempts |-> 0, failures |-> 0, inFlight |-> 0,
   consecutive |-> 0, healthy |-> TRUE, lastError |-> "OK"]

BalancerInit ==
  /\ ep = [e \in 1..First |-> NewEndpoint]
  /\ rr = 0
  /\ config \in [strategy : Strategies, failover : Failovers, threshold : Thresholds]
  /\ totals = [calls |-> 0, failures |-> 0, failovers |-> 0]
  /\ chains = 0 /\ deleted = FALSE
  /\ stage = [c \in BalancedCalls |-> "idle"]
  /\ order = [c \in BalancedCalls |-> <<>>]
  /\ index = [c \in BalancedCalls |-> 1]
  /\ bound = [c \in BalancedCalls |-> 0]
  /\ outcome = [c \in BalancedCalls |-> "value"]

-----------------------------------------------------------------------------
(* Which endpoint first, and which then. *)

\* The endpoint i places after e, in the order in which they were added.
After(e, i) == ((e - 1 + i) % Len(ep)) + 1

\* pick_start_locked(): where the circle may start.
Starts ==
  LET tie == After(1, rr)
      load(i) == ep[After(tie, i)].inFlight
      Best(i) == \A j \in 0..Len(ep) - 1 : load(i) < load(j) \/ (load(i) = load(j) /\ i <= j)
  IN  CASE config.strategy = Random     -> Endpoint
        [] config.strategy = RoundRobin -> {tie}
        [] OTHER                 -> {After(tie, i) : i \in {i \in 0..Len(ep) - 1 : Best(i)}}

\* How far e comes after start on the way round.
Turn(start, e) == (e - start) % Len(ep)

\* build_order_locked(): once round from start, the unhealthy ones last.
Orders(start) ==
  LET Precedes(d, e) ==
        IF ep[d].healthy = ep[e].healthy THEN Turn(start, d) < Turn(start, e) ELSE ep[d].healthy
  IN  {o \in [Endpoint -> Endpoint] : \A i, k \in Endpoint : i < k => Precedes(o[i], o[k])}

\* call_core() and call_async(), first critical section: without an endpoint
\* the call has failed at once.
PickOrder(c) ==
  /\ stage[c] = "idle" /\ ~deleted
  /\ IF ep = <<>>
       THEN /\ totals' = [totals EXCEPT !.calls = @ + 1, !.failures = @ + 1]
            /\ stage' = [stage EXCEPT ![c] = "done"]
            /\ UNCHANGED <<order, rr>>
       ELSE /\ \E s \in Starts : \E o \in Orders(s) : order' = [order EXCEPT ![c] = o]
            /\ rr' = IF config.strategy = Random THEN rr ELSE rr + 1
            /\ stage' = [stage EXCEPT ![c] = IF c \in AsyncCalls THEN "count" ELSE "bound"]
            /\ UNCHANGED totals
  /\ UNCHANGED <<ep, config, chains, deleted, index, bound, outcome>>

\* call_core(): max_attempts, from a config.failover read without the mutex.
Bound(c) ==
  /\ stage[c] = "bound"
  /\ bound' = [bound EXCEPT ![c] = IF config.failover THEN Len(order[c]) ELSE 1]
  /\ stage' = [stage EXCEPT ![c] = "begin"]
  /\ UNCHANGED <<ep, rr, config, totals, chains, deleted, order, index, outcome>>

\* call_async(): the chain is counted before it begins.
CountIn(c) ==
  /\ stage[c] = "count"
  /\ chains' = chains + 1
  /\ stage' = [stage EXCEPT ![c] = "begin"]
  /\ UNCHANGED <<ep, rr, config, totals, deleted, order, index, bound, outcome>>

-----------------------------------------------------------------------------
(* One attempt. *)

Begun(endpoint, first) ==
  [endpoint EXCEPT !.attempts = @ + 1, !.selected = IF first THEN @ + 1 ELSE @,
                   !.inFlight = @ + 1]

\* begin_attempt_locked()
BeginAttempt(c) ==
  /\ stage[c] = "begin"
  /\ ep' = [ep EXCEPT ![At(c)] = Begun(@, index[c] = 1)]
  /\ stage' = [stage EXCEPT ![c] = "net"]
  /\ UNCHANGED <<rr, config, totals, chains, deleted, order, index, bound, outcome>>

\* The error a client records for an answer: a result that is null counts as
\* a success and is returned as an empty string.
ErrorOf(a) ==
  CASE a \in {"value", "null"} -> "OK" [] a = "timeout" -> "TIMEOUT" [] a = "server" -> "SERVER"

\* RpcClient::call() or the client's executor ends the attempt.  "timeout"
\* stands for the errors another endpoint may cure, "server" for the others.
AnswerAttempt(c) ==
  /\ stage[c] = "net"
  /\ \E a \in Answers :
       /\ outcome' = [outcome EXCEPT ![c] = a]
       /\ ep' = [ep EXCEPT ![At(c)] = [@ EXCEPT !.lastError = ErrorOf(a)]]
  /\ stage' = [stage EXCEPT ![c] = "answered"]
  /\ UNCHANGED <<rr, config, totals, chains, deleted, order, index, bound>>

\* Mutant: an asynchronous call reads last_error() as well.
ErrorShared(c) ==
  LET reported == ep[At(c)].lastError
  IN  IF outcome[c] = "value" THEN "OK"
      ELSE IF reported = "OK" THEN "TIMEOUT" ELSE reported

\* The error of the attempt, after normalize_error().
Error(c) ==
  LET reported == IF c \in AsyncCalls THEN ErrorOf(outcome[c]) ELSE ep[At(c)].lastError
  IN  IF outcome[c] = "value" THEN "OK"
      ELSE IF reported = "OK" THEN "TIMEOUT" ELSE reported

Less(n) == IF n > 0 THEN n - 1 ELSE 0

\* finish_attempt_locked()
Finished(endpoint, err) ==
  IF err = "OK"
    THEN [endpoint EXCEPT !.inFlight = Less(@), !.consecutive = 0, !.healthy = TRUE]
    ELSE [endpoint EXCEPT !.inFlight = Less(@), !.failures = @ + 1, !.consecutive = @ + 1,
            !.healthy = @ /\ (config.threshold = 0 \/ endpoint.consecutive + 1 < config.threshold)]

\* May the call go on with the next candidate?
Switchable(c) ==
  config.failover /\ Error(c) = "TIMEOUT" /\ index[c] < Len(order[c])

\* The attempt failed and the call switches.  A synchronous one counts the
\* switch even if its max_attempts then ends the loop.
Switch(c) ==
  /\ stage[c] = "answered"
  /\ Error(c) # "OK" /\ Switchable(c)
  /\ ep' = [ep EXCEPT ![At(c)] = Finished(@, Error(c))]
  /\ totals' = [totals EXCEPT !.failovers = @ + 1]
  /\ IF c \in AsyncCalls \/ index[c] < bound[c]
       THEN /\ index' = [index EXCEPT ![c] = @ + 1]
            /\ stage' = [stage EXCEPT ![c] = "begin"]
       ELSE /\ stage' = [stage EXCEPT ![c] = "fail"]
            /\ UNCHANGED index
  /\ UNCHANGED <<rr, config, chains, deleted, order, bound, outcome>>

\* The attempt ends the call: call_core() accounts for a success in the same
\* critical section, everything else is left to the next step.
End(c) ==
  /\ stage[c] = "answered"
  /\ Error(c) = "OK" \/ ~Switchable(c)
  /\ ep' = [ep EXCEPT ![At(c)] = Finished(@, Error(c))]
  /\ IF c \in AsyncCalls
       THEN stage' = [stage EXCEPT ![c] = "finalize"] /\ UNCHANGED totals
       ELSE IF Error(c) = "OK"
         THEN /\ stage' = [stage EXCEPT ![c] = "done"]
              /\ totals' = [totals EXCEPT !.calls = @ + 1]
         ELSE stage' = [stage EXCEPT ![c] = "fail"] /\ UNCHANGED totals
  /\ UNCHANGED <<rr, config, chains, deleted, order, index, bound, outcome>>

\* call_core(), last critical section.
FailCall(c) ==
  /\ stage[c] = "fail"
  /\ totals' = [totals EXCEPT !.calls = @ + 1, !.failures = @ + 1]
  /\ stage' = [stage EXCEPT ![c] = "done"]
  /\ UNCHANGED <<ep, rr, config, chains, deleted, order, index, bound, outcome>>

-----------------------------------------------------------------------------
(* The end of an asynchronous call, and the destructor. *)

\* async_finalize(): the totals under the mutex, the callback without it, then
\* pending_async under its own mutex, and the notification after releasing it.
Finalize(c) ==
  /\ stage[c] = "finalize"
  /\ totals' = [totals EXCEPT !.calls = @ + 1,
                              !.failures = IF outcome[c] = "value" THEN @ ELSE @ + 1]
  /\ stage' = [stage EXCEPT ![c] = "callback"]
  /\ UNCHANGED <<ep, rr, config, chains, deleted, order, index, bound, outcome>>

Callback(c) ==
  /\ stage[c] = "callback"
  /\ stage' = [stage EXCEPT ![c] = "uncount"]
  /\ UNCHANGED <<ep, rr, config, totals, chains, deleted, order, index, bound, outcome>>

Uncount(c) ==
  /\ stage[c] = "uncount"
  /\ chains' = Less(chains)
  /\ stage' = [stage EXCEPT ![c] = "notify"]
  /\ UNCHANGED <<ep, rr, config, totals, deleted, order, index, bound, outcome>>

NotifyDrain(c) ==
  /\ stage[c] = "notify"
  /\ stage' = [stage EXCEPT ![c] = "done"]
  /\ UNCHANGED <<ep, rr, config, totals, chains, deleted, order, index, bound, outcome>>

\* Nobody is inside a member function that the caller may not destroy under.
Quiet == \A c \in BalancedCalls : stage[c] \in {"idle", "done"} \/ (c \in AsyncCalls /\ stage[c] # "count")

\* ~RpcLoadBalancer(): the wait is over once no chain is counted, because the
\* predicate was true already or because a chain has notified.  async_cv is a
\* member of Impl that is destroyed before the clients are.
DestroyBalancer ==
  /\ ~deleted /\ Quiet /\ chains = 0
  /\ deleted' = TRUE
  /\ UNCHANGED <<ep, rr, config, totals, chains, stage, order, index, bound, outcome>>

-----------------------------------------------------------------------------
(* BalancedCalls that change the configuration while others are under way. *)

\* add_endpoint_core()
AddEndpoint ==
  /\ ~deleted /\ Len(ep) < MaxEndpoints
  /\ ep' = Append(ep, NewEndpoint)
  /\ UNCHANGED <<rr, config, totals, chains, deleted, stage, order, index, bound, outcome>>

SetFailover(on) ==
  /\ ~deleted
  /\ config' = [config EXCEPT !.failover = on]
  /\ UNCHANGED <<ep, rr, totals, chains, deleted, stage, order, index, bound, outcome>>

\* Mutant: the endpoints are not judged again.
SetThresholdOnly(n) ==
  /\ ~deleted
  /\ config' = [config EXCEPT !.threshold = n]
  /\ UNCHANGED <<ep, rr, totals, chains, deleted, stage, order, index, bound, outcome>>

\* set_unhealthy_threshold(): every endpoint is judged again.
SetThreshold(n) ==
  /\ ~deleted
  /\ config' = [config EXCEPT !.threshold = n]
  /\ ep' = [e \in Endpoint |->
              [ep[e] EXCEPT !.healthy = (n = 0 \/ ep[e].consecutive < n)]]
  /\ UNCHANGED <<rr, totals, chains, deleted, stage, order, index, bound, outcome>>

Call(c) ==
  \/ PickOrder(c) \/ Bound(c) \/ CountIn(c)
  \/ BeginAttempt(c) \/ AnswerAttempt(c) \/ Switch(c) \/ End(c) \/ FailCall(c)
  \/ Finalize(c) \/ Callback(c) \/ Uncount(c) \/ NotifyDrain(c)

BalancerNext ==
  \/ \E c \in BalancedCalls : Call(c)
  \/ DestroyBalancer \/ AddEndpoint
  \/ \E on \in Failovers : SetFailover(on)
  \/ \E n \in Thresholds : SetThreshold(n)

BalancerSpec == BalancerInit /\ [][BalancerNext]_balancerVars

-----------------------------------------------------------------------------
OnEndpoint(e) == {c \in BalancedCalls : stage[c] \in {"net", "answered"} /\ At(c) = e}

\* The load LeastInFlight goes by is the number of calls that are really on
\* the endpoint, whichever way earlier ones ended.
LoadExact == \A e \in Endpoint : ep[e].inFlight = Cardinality(OnEndpoint(e))

\* An endpoint is unhealthy exactly while its failures in a row reach the
\* threshold in force, which may change under way.
HealthExact ==
  \A e \in Endpoint :
    ep[e].healthy = (config.threshold = 0 \/ ep[e].consecutive < config.threshold)

\* The attempts at an endpoint that were not a call's first.
Switches == UNION {{e} \X (1..ep[e].attempts - ep[e].selected) : e \in Endpoint}

\* rpc.h, failovers: each switch to another endpoint counts once.  Every
\* attempt that is not a call's first is one, made or about to be made.
FailoversExact ==
  totals.failovers =
    Cardinality(Switches)
      + Cardinality({c \in BalancedCalls : stage[c] = "begin" /\ index[c] > 1})

\* With failover on, an asynchronous call that fails for a reason another
\* endpoint might have cured has tried all its candidates.  (A synchronous one
\* may have read another call's error.)
GivesUpLast ==
  \A c \in AsyncCalls :
    stage[c] = "finalize" /\ outcome[c] = "timeout" => index[c] = Len(order[c])

\* rpc.h: an error of the server's is not a reason to switch, and neither is
\* a success: an asynchronous call that a server has answered is not sent to
\* another one, whatever the other calls of that endpoint meet with.
ServedOnce ==
  [][\A c \in AsyncCalls : outcome[c] \in {"value", "null", "server"} => ~Switch(c)]_balancerVars

\* The destructor waits until no chain will run its callback any more.
DrainedBeforeFree ==
  deleted => \A c \in AsyncCalls : stage[c] \in {"idle", "notify", "done"}

\* Load, health, switches and the drained chains are what they are said to be,
\* and no call gives up early.
BalancerInv ==
  /\ BalancerTypeOK /\ LoadExact /\ HealthExact /\ FailoversExact
  /\ DrainedBeforeFree /\ GivesUpLast
=============================================================================
