------------------------------ MODULE RpcClient ------------------------------
(***************************************************************************)
(* The parts of an RPC client that do not depend on the connection: the    *)
(* retry loop of its calls, the executor that runs asynchronous ones, the  *)
(* balancer that spreads calls over several endpoints, the way of a call   *)
(* from its JSON to its verdict, the settings, and the configuration that  *)
(* they are read from.  To the executor a call is just a task that         *)
(* returns, the loop does not see which thread it runs on, and the         *)
(* balancer sees only what a call returns, so a behaviour is one of a      *)
(* single part, which its first state chooses.                             *)
(***************************************************************************)
EXTENDS ClientCalls, AsyncExecutor, LoadBalancer, RpcEnvelope, Configuring

VARIABLE part   \* the part that is looked at

clientVars == <<part, callsVars, executorVars, balancerVars, envelopeVars, settingsVars,
                configVars>>

Init ==
  /\ part \in {"calls", "executor", "balancer", "envelope", "settings", "configuring"}
  /\ CallsInit /\ ExecutorInit /\ BalancerInit /\ EnvelopeInit /\ SettingsInit
  /\ part # "balancer" => config.strategy = RoundRobin /\ config.threshold = 0
  /\ part # "envelope" => carrier = "http" /\ hint = CHOOSE h \in Hints : TRUE
  /\ IF part = "configuring" THEN ConfigInit ELSE ConfigIdle

\* p is used, and nothing else changes.
Using(p) ==
  /\ part = p /\ UNCHANGED part
  /\ IF p = "calls" THEN TRUE ELSE UNCHANGED callsVars
  /\ IF p = "executor" THEN TRUE ELSE UNCHANGED executorVars
  /\ IF p = "balancer" THEN TRUE ELSE UNCHANGED balancerVars
  /\ IF p = "envelope" THEN TRUE ELSE UNCHANGED envelopeVars
  /\ IF p = "settings" THEN TRUE ELSE UNCHANGED settingsVars
  /\ IF p = "configuring" THEN TRUE ELSE UNCHANGED configVars

RunCalls    == Using("calls") /\ CallsNext
RunExecutor == Using("executor") /\ ExecutorNext
RunBalancer == Using("balancer") /\ BalancerNext
RunEnvelope == Using("envelope") /\ EnvelopeNext
RunSettings == Using("settings") /\ SettingsNext
RunConfig   == Using("configuring") /\ ConfigNext

Next == RunCalls \/ RunExecutor \/ RunBalancer \/ RunEnvelope \/ RunSettings \/ RunConfig

Spec == Init /\ [][Next]_clientVars

\* The threads of the executor, and those that wait for it, are scheduled, and
\* calls return.  Nothing makes anybody call, replace the pool or destroy the
\* client.
FairSpec ==
  /\ Spec
  /\ \A p \in Pool, w \in Workers :
       WF_executorVars(part = "executor" /\ p <= pools /\ Worker(p, w))
  /\ \A p \in Pool :
       WF_executorVars(part = "executor" /\ (WaitIdle(p) \/ StopPool(p) \/ Join(p)))
  /\ \A s \in Submitters : WF_executorVars(part = "executor" /\ Post(s))
  /\ WF_executorVars(part = "executor" /\ Free)

-----------------------------------------------------------------------------
\* A verdict on each call that says what its server meant, of whichever endpoint it
\* was sent to, and the settings that clients and servers are given.
ChoicesInv == CallsTypeOK /\ BalancerInv /\ EnvelopeInv /\ SettingsInv
=============================================================================
