------------------------------ MODULE Pipeline ------------------------------
(***************************************************************************)
(* The request pipeline of RpcClient (rpc.cpp, PipelineChannel and         *)
(* PipeSession): one connection carries up to Limit calls at a time, a     *)
(* reader hands each response to the call it belongs to, and a broken      *)
(* connection is rebuilt by the next call.                                 *)
(*                                                                         *)
(* Each action is one critical section: of the channel mutex (taken,       *)
(* ch_broken, queued), of setup_mutex (current), or of a session's mutex   *)
(* (inflight, anon, broken).  What the reader does after it has left the   *)
(* session's mutex, handing a response over or waking the calls of a       *)
(* broken session, is an action of its own.  Deadlines may pass at any     *)
(* time.                                                                   *)
(***************************************************************************)
EXTENDS Integers, FiniteSets

CONSTANTS
  Sharers,     \* threads that share the connection of a client
  Sessions,    \* identities of connections
  None,        \* no connection, no caller, no response
  Limit,       \* pipeline_max_in_flight
  MaxId,       \* bound on the request ids handed out
  EchoesId     \* the server returns the request's id with the response

ASSUME PipelineAssumption ==
  /\ IsFiniteSet(Sharers)
  /\ None \notin Sharers \cup Sessions \cup Int \cup [to : Int, payload : Int]
  /\ Limit \in Nat \ {0}
  /\ MaxId \in Nat
  /\ EchoesId \in BOOLEAN

VARIABLES
  taken, queued,     \* PipelineChannel::busy and the sleepers on its cv
  ch_broken,         \* PipelineChannel::broken
  current,           \* PipelineChannel::conn
  setup,             \* owner of setup_mutex while it rebuilds
  inflight, anon,    \* PipeSession::inflight (ids) and anon_waiter
  broken,            \* connections whose session is broken
  hand, wake,        \* what the reader of a connection has yet to deliver
  got,               \* PendingCall: the response handed over, per id
  next_id,           \* next_pipeline_id
  at, held, id, answer,  \* of each call: place, connection, id, outcome
  wire,              \* requests the server has to answer, per connection
  dead               \* connections whose peer is gone

channelVars == <<taken, queued, ch_broken, current, setup>>
sessionVars == <<inflight, anon, broken, hand, wake, got>>
pipeCallVars == <<at, held, id, answer, next_id>>
serverVars  == <<wire, dead>>
pipelineVars == <<channelVars, sessionVars, pipeCallVars, serverVars>>

Ids == 1..MaxId
Broken == 0             \* in got: woken by mark_broken without a response
Slotted == {"pick", "register", "send", "wait", "fail", "release"}

PipelineTypeOK ==
  /\ taken \in Nat /\ queued \subseteq Sharers /\ ch_broken \in BOOLEAN
  /\ current \in Sessions \cup {None} /\ setup \in Sharers \cup {None}
  /\ inflight \in [Sessions -> SUBSET Ids] /\ anon \in [Sessions -> Ids \cup {None}]
  /\ broken \subseteq Sessions /\ dead \subseteq Sessions
  /\ hand \in [Sessions -> {None} \cup [to : Ids, payload : Ids]]
  /\ wake \in [Sessions -> SUBSET Ids] /\ wire \in [Sessions -> SUBSET Ids]
  /\ got \in [Ids -> Ids \cup {None, Broken}]
  /\ next_id \in 1..MaxId + 1
  /\ at \in [Sharers -> {"ready", "setup", "rebuild", "slot"} \cup Slotted]
  /\ held \in [Sharers -> Sessions \cup {None}]
  /\ id \in [Sharers -> 0..MaxId]
  /\ answer \in [Sharers -> {"none", "ok", "failed", "timeout"}]

PipelineInit ==
  /\ taken = 0 /\ queued = {} /\ ch_broken = FALSE
  /\ current = None /\ setup = None
  /\ inflight = [k \in Sessions |-> {}] /\ anon = [k \in Sessions |-> None]
  /\ broken = {} /\ dead = {}
  /\ hand = [k \in Sessions |-> None]
  /\ wake = [k \in Sessions |-> {}] /\ wire = [k \in Sessions |-> {}]
  /\ got = [i \in Ids |-> None] /\ next_id = 1
  /\ at = [c \in Sharers |-> "ready"] /\ held = [c \in Sharers |-> None]
  /\ id = [c \in Sharers |-> 0] /\ answer = [c \in Sharers |-> "none"]

-----------------------------------------------------------------------------
Move(c, place) == at' = [at EXCEPT ![c] = place]
Answer(c, r) == answer' = [answer EXCEPT ![c] = r]

\* A new call: attempt_pipelined_channel() is entered.
BeginPipelined(c) ==
  /\ at[c] = "ready" /\ next_id <= MaxId
  /\ Move(c, "setup") /\ Answer(c, "none")
  /\ id' = [id EXCEPT ![c] = 0]
  /\ UNCHANGED <<channelVars, sessionVars, held, next_id, serverVars>>

\* Under setup_mutex: keep the connection, or drop it and open another one.
Setup(c) ==
  /\ at[c] = "setup" /\ setup = None
  /\ IF ch_broken \/ current = None
     THEN Move(c, "rebuild") /\ setup' = c /\ current' = None
     ELSE Move(c, "slot") /\ UNCHANGED <<setup, current>>
  /\ UNCHANGED <<taken, queued, ch_broken, sessionVars, held, id, answer,
                 next_id, serverVars>>

\* A destroyed connection has joined its reader; its identity is free again.
Unused(k) ==
  k # current /\ (\A c \in Sharers : held[c] # k) /\ hand[k] = None /\ wake[k] = {}

RebuildOk(c) ==
  /\ at[c] = "rebuild"
  /\ \E k \in Sessions :
       /\ Unused(k)
       /\ current' = k
       /\ inflight' = [inflight EXCEPT ![k] = {}]
       /\ anon' = [anon EXCEPT ![k] = None]
       /\ wire' = [wire EXCEPT ![k] = {}]
       /\ broken' = broken \ {k} /\ dead' = dead \ {k}
  /\ ch_broken' = FALSE /\ setup' = None
  /\ Move(c, "slot")
  /\ UNCHANGED <<taken, queued, hand, wake, got, held, id, answer, next_id>>

RebuildFails(c) ==
  /\ at[c] = "rebuild"
  /\ ch_broken' = TRUE /\ queued' = {} /\ setup' = None
  /\ Move(c, "ready") /\ Answer(c, "failed")
  /\ UNCHANGED <<taken, current, sessionVars, held, id, next_id, serverVars>>

AcquireSlot(c) ==
  /\ at[c] = "slot" /\ c \notin queued /\ taken < Limit
  /\ taken' = taken + 1 /\ Move(c, "pick")
  /\ UNCHANGED <<queued, ch_broken, current, setup, sessionVars, held, id,
                 answer, next_id, serverVars>>

SleepForSlot(c) ==
  /\ at[c] = "slot" /\ c \notin queued /\ taken >= Limit
  /\ queued' = queued \cup {c}
  /\ UNCHANGED <<taken, ch_broken, current, setup, sessionVars, pipeCallVars, serverVars>>

\* wait_for() reaches its deadline and tests its predicate once more.
SlotDeadline(c) ==
  /\ c \in queued
  /\ queued' = queued \ {c}
  /\ IF taken < Limit
     THEN taken' = taken + 1 /\ Move(c, "pick") /\ UNCHANGED answer
     ELSE UNCHANGED taken /\ Move(c, "ready") /\ Answer(c, "timeout")
  /\ UNCHANGED <<ch_broken, current, setup, sessionVars, held, id, next_id, serverVars>>

\* The call takes its share of the current connection, and an id.
Pick(c) ==
  /\ at[c] = "pick" /\ setup = None
  /\ IF current = None
     THEN Move(c, "release") /\ Answer(c, "failed") /\ UNCHANGED <<held, id, next_id>>
     ELSE /\ next_id <= MaxId
          /\ held' = [held EXCEPT ![c] = current]
          /\ id' = [id EXCEPT ![c] = next_id] /\ next_id' = next_id + 1
          /\ Move(c, "register") /\ UNCHANGED answer
  /\ UNCHANGED <<channelVars, sessionVars, serverVars>>

\* Mutant: the call enters the table without testing "broken".
RegisterBlindly(c) ==
  /\ at[c] = "register"
  /\ inflight' = [inflight EXCEPT ![held[c]] = @ \cup {id[c]}]
  /\ anon' = [anon EXCEPT ![held[c]] = id[c]]
  /\ Move(c, "send") /\ UNCHANGED answer
  /\ UNCHANGED <<channelVars, broken, hand, wake, got, held, id, next_id, serverVars>>

Register(c) ==
  /\ at[c] = "register"
  /\ IF held[c] \in broken
     THEN Move(c, "fail") /\ Answer(c, "failed") /\ UNCHANGED <<inflight, anon>>
     ELSE /\ inflight' = [inflight EXCEPT ![held[c]] = @ \cup {id[c]}]
          /\ anon' = [anon EXCEPT ![held[c]] = id[c]]
          /\ Move(c, "send") /\ UNCHANGED answer
  /\ UNCHANGED <<channelVars, broken, hand, wake, got, held, id, next_id, serverVars>>

Unregister(c) ==
  LET k == held[c] IN
  /\ inflight' = [inflight EXCEPT ![k] = @ \ {id[c]}]
  /\ anon' = [anon EXCEPT ![k] = IF @ = id[c] THEN None ELSE @]

Send(c) ==
  /\ at[c] = "send"
  /\ wire' = [wire EXCEPT ![held[c]] = @ \cup {id[c]}]
  /\ Move(c, "wait")
  /\ UNCHANGED <<channelVars, sessionVars, held, id, answer, next_id, dead>>

SendFails(c) ==
  /\ at[c] = "send" /\ held[c] \in dead \cup broken
  /\ Unregister(c)
  /\ Move(c, "fail") /\ Answer(c, "failed")
  /\ UNCHANGED <<channelVars, broken, hand, wake, got, held, id, next_id, serverVars>>

\* The response is there, or the session broke.
Await(c) ==
  /\ at[c] = "wait" /\ got[id[c]] # None
  /\ IF got[id[c]] = Broken
     THEN Move(c, "fail") /\ Answer(c, "failed")
     ELSE Move(c, "release") /\ Answer(c, "ok")
  /\ UNCHANGED <<channelVars, sessionVars, held, id, next_id, serverVars>>

AwaitTimeout(c) ==
  /\ at[c] = "wait" /\ got[id[c]] = None
  /\ Unregister(c)
  /\ Move(c, "release") /\ Answer(c, "timeout")
  /\ UNCHANGED <<channelVars, broken, hand, wake, got, held, id, next_id, serverVars>>

\* PipelineChannel::mark_broken()
Fail(c) ==
  /\ at[c] = "fail"
  /\ ch_broken' = TRUE /\ queued' = {}
  /\ Move(c, "release")
  /\ UNCHANGED <<taken, current, setup, sessionVars, held, id, answer, next_id, serverVars>>

\* release_slot(): notify_one wakes some sleeper, if there is one.
ReleaseSlot(c) ==
  /\ at[c] = "release"
  /\ taken' = taken - 1
  /\ IF queued = {} THEN UNCHANGED queued
     ELSE \E d \in queued : queued' = queued \ {d}
  /\ held' = [held EXCEPT ![c] = None]
  /\ Move(c, "ready")
  /\ UNCHANGED <<ch_broken, current, setup, sessionVars, id, answer, next_id, serverVars>>

-----------------------------------------------------------------------------
Reading(k) == k \notin broken /\ hand[k] = None /\ wake[k] = {}

\* Mutant: responses go to the waiter without an id, whatever id they carry.
TargetAnon(k, i) == anon[k]

\* The call deliver() picks for the response to request i: by id if it has one.
Target(k, i) ==
  IF EchoesId THEN IF i \in inflight[k] THEN i ELSE None
  ELSE anon[k]

\* deliver(), first half: a response arrives and its call is looked up.
Receive(k, i) ==
  /\ Reading(k) /\ i \in wire[k]
  /\ wire' = [wire EXCEPT ![k] = @ \ {i}]
  /\ LET t == Target(k, i) IN
     /\ hand' = [hand EXCEPT ![k] = IF t = None THEN None ELSE [to |-> t, payload |-> i]]
     /\ IF EchoesId
        THEN inflight' = [inflight EXCEPT ![k] = @ \ {i}] /\ UNCHANGED anon
        ELSE anon' = [anon EXCEPT ![k] = None] /\ UNCHANGED inflight
  /\ UNCHANGED <<channelVars, broken, wake, got, pipeCallVars, dead>>

\* deliver(), second half.
HandOver(k) ==
  /\ hand[k] # None
  /\ got' = [got EXCEPT ![hand[k].to] = hand[k].payload]
  /\ hand' = [hand EXCEPT ![k] = None]
  /\ UNCHANGED <<channelVars, inflight, anon, broken, wake, pipeCallVars, serverVars>>

\* PipeSession::mark_broken(): the peer is gone, or (on a local socket)
\* nothing was received for a second.
Break(k) ==
  /\ Reading(k)
  /\ broken' = broken \cup {k}
  /\ wake' = [wake EXCEPT ![k] = inflight[k] \cup ({anon[k]} \ {None})]
  /\ inflight' = [inflight EXCEPT ![k] = {}]
  /\ anon' = [anon EXCEPT ![k] = None]
  /\ UNCHANGED <<channelVars, hand, got, pipeCallVars, serverVars>>

\* ... and its second half: a response already handed over is kept.
WakeAll(k) ==
  /\ wake[k] # {}
  /\ got' = [i \in Ids |-> IF i \in wake[k] /\ got[i] = None THEN Broken ELSE got[i]]
  /\ wake' = [wake EXCEPT ![k] = {}]
  /\ UNCHANGED <<channelVars, inflight, anon, broken, hand, pipeCallVars, serverVars>>

InService(k) == k = current \/ \E c \in Sharers : held[c] = k

PeerDies(k) ==
  /\ InService(k) /\ k \notin dead
  /\ dead' = dead \cup {k} /\ wire' = [wire EXCEPT ![k] = {}]
  /\ UNCHANGED <<channelVars, sessionVars, pipeCallVars>>

\* What a call does without waiting for a deadline.
PipelinedCall(c) ==
  \/ Setup(c) \/ RebuildOk(c) \/ RebuildFails(c) \/ AcquireSlot(c) \/ SleepForSlot(c)
  \/ Pick(c) \/ Register(c) \/ Send(c) \/ SendFails(c) \/ Await(c)
  \/ Fail(c) \/ ReleaseSlot(c)

ReaderStep(k) ==
  \/ \E i \in Ids : Receive(k, i)
  \/ HandOver(k) \/ WakeAll(k)
  \/ k \in dead /\ Break(k)

PipelineNext ==
  \/ \E c \in Sharers : BeginPipelined(c) \/ PipelinedCall(c) \/ SlotDeadline(c) \/ AwaitTimeout(c)
  \/ \E k \in Sessions : ReaderStep(k) \/ (InService(k) /\ Break(k)) \/ PeerDies(k)

PipelineSpec == PipelineInit /\ [][PipelineNext]_pipelineVars

-----------------------------------------------------------------------------
\* A call that returns a response returns the response to its own request
\* (deliver(): by id, whatever timeouts and late responses came before).
OwnAnswer ==
  \A c \in Sharers : at[c] = "release" /\ answer[c] = "ok" => got[id[c]] = id[c]

\* The in-flight count is the number of calls that hold a slot, and the table
\* of a connection never exceeds the limit.
SlotsExact ==
  /\ taken = Cardinality({c \in Sharers : at[c] \in Slotted})
  /\ taken <= Limit
  /\ \A k \in Sessions : Cardinality(inflight[k]) <= Limit

\* release_slot notifies one: while calls sleep, each free slot has an awake
\* call on its way to it.
NoLostPipeSlot ==
  queued # {} => Limit - taken <= Cardinality({c \in Sharers : at[c] = "slot"} \ queued)

\* Every entry of an in-flight table belongs to a call that still waits for it.
TableClean ==
  \A k \in Sessions : \A i \in inflight[k] :
    \E c \in Sharers : id[c] = i /\ held[c] = k /\ at[c] \in {"send", "wait"}

\* No call waits on a broken session that will not wake it: registration and
\* mark_broken exclude each other.
NoStrandedCall ==
  \A c \in Sharers :
    at[c] = "wait" /\ held[c] \in broken /\ got[id[c]] = None => id[c] \in wake[held[c]]

\* Slots and tables go with the calls through time-outs and rebuilds, and no
\* call sleeps in front of a free slot or of a session that is gone.
ChannelInv ==
  /\ PipelineTypeOK /\ SlotsExact /\ TableClean
  /\ NoLostPipeSlot /\ NoStrandedCall
=============================================================================
