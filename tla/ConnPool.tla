------------------------------ MODULE ConnPool ------------------------------
(***************************************************************************)
(* The connection pool of RpcClient (rpc.cpp, ConnPool) and the calls that *)
(* go through it (attempt_pooled), against a server that may restart.      *)
(*                                                                         *)
(* The pool is an idle queue (oldest first), the number "busy" of leased   *)
(* connections and a condition variable.  A lease is either an idle        *)
(* connection or the right to open a new one.  Every critical section of   *)
(* the pool's mutex is one action; opening a connection and exchanging     *)
(* frames happen outside of it.  Time is abstract: at every place where    *)
(* the code evicts, any number of the oldest idle connections may have     *)
(* expired, and a wait may reach its deadline at any time.                 *)
(***************************************************************************)
EXTENDS Sequences, Counting, SequenceTheorems

CONSTANTS
  Callers,    \* threads that call the client
  Conns,      \* identities of connections
  NoConn,     \* no connection
  Sizes,      \* values of set_connection_pool_max(); 0 disables the pool
  MaxConns,   \* bound on Sizes
  MaxIdle     \* pool_max_idle

ASSUME PoolAssumption ==
  /\ IsFiniteSet(Callers)
  /\ NoConn \notin Conns
  /\ MaxConns \in Nat
  /\ Sizes \subseteq 0..MaxConns
  /\ MaxIdle \in Nat

VARIABLES
  size,     \* Impl::pool_max_conns
  resized,  \* history: the size has been changed
  idle,     \* ConnPool::idle, oldest first
  busy,     \* ConnPool::busy
  opened,   \* created_total - closed_total
  asleep,   \* callers blocked on the pool's condition variable
  pc,       \* where each call is
  conn,     \* the connection a call holds
  reused,   \* whether the lease was an idle connection
  round,    \* stale_retry
  cap,      \* the pool size acquire() was called with
  result,   \* what the call returned
  up,       \* the server accepts connections
  alive     \* connections whose peer still exists

poolVars == <<idle, busy, opened, asleep>>
poolCallVars == <<pc, conn, reused, round, cap, result>>
envVars  == <<up, alive>>
sizeVars == <<size, resized>>
connPoolVars == <<sizeVars, poolVars, poolCallVars, envVars>>

Leased == {"open", "cancel", "exchange", "release", "discard"}
Outcomes == {"none", "ok", "failed", "timeout", "pool_busy", "unknown"}

ConnPoolTypeOK ==
  /\ size \in Sizes /\ resized \in BOOLEAN
  /\ idle \in Seq(Conns)
  /\ busy \in Nat
  /\ opened \in Int
  /\ asleep \subseteq Callers
  /\ pc \in [Callers -> {"ready", "acquire"} \cup Leased]
  /\ conn \in [Callers -> Conns \cup {NoConn}]
  /\ reused \in [Callers -> BOOLEAN]
  /\ round \in [Callers -> 0..1]
  /\ cap \in [Callers -> Sizes]
  /\ result \in [Callers -> Outcomes]
  /\ up \in BOOLEAN
  /\ alive \subseteq Conns

ConnPoolInit ==
  /\ size \in Sizes \ {0} /\ resized = FALSE
  /\ idle = <<>> /\ busy = 0 /\ opened = 0 /\ asleep = {}
  /\ pc = [c \in Callers |-> "ready"]
  /\ conn = [c \in Callers |-> NoConn]
  /\ reused = [c \in Callers |-> FALSE]
  /\ round = [c \in Callers |-> 0]
  /\ cap = [c \in Callers |-> size]
  /\ result = [c \in Callers |-> "none"]
  /\ up = TRUE /\ alive = {}

-----------------------------------------------------------------------------
Go(c, place) == pc' = [pc EXCEPT ![c] = place]

\* The idle queue after the k oldest connections have been evicted.
After(q, k) == SubSeq(q, k + 1, Len(q))

InUse == {idle[i] : i \in 1..Len(idle)} \cup {conn[c] : c \in Callers}

\* notify_one wakes some sleeper, if there is one.
notify_one ==
  IF asleep = {} THEN UNCHANGED asleep
  ELSE \E c \in asleep : asleep' = asleep \ {c}

\* call_core picks the pooled path while the pool is enabled.
Begin(c) ==
  /\ pc[c] = "ready" /\ size > 0
  /\ Go(c, "acquire")
  /\ round' = [round EXCEPT ![c] = 0]
  /\ cap' = [cap EXCEPT ![c] = size]
  /\ result' = [result EXCEPT ![c] = "none"]
  /\ UNCHANGED <<sizeVars, poolVars, conn, reused, envVars>>

\* The two ways acquire() hands out a lease, after k connections expired.
LeaseIdle(c, k) ==
  /\ pc[c] = "acquire" /\ k < Len(idle)
  /\ idle' = Tail(After(idle, k))
  /\ conn' = [conn EXCEPT ![c] = idle[k + 1]]
  /\ reused' = [reused EXCEPT ![c] = TRUE]
  /\ busy' = busy + 1
  /\ opened' = opened - k
  /\ asleep' = asleep \ {c}
  /\ Go(c, "exchange")
  /\ UNCHANGED <<sizeVars, round, cap, result, envVars>>

LeaseCreate(c) ==
  /\ pc[c] = "acquire" /\ busy < cap[c]
  /\ idle' = <<>>
  /\ opened' = opened - Len(idle) + 1
  /\ busy' = busy + 1
  /\ reused' = [reused EXCEPT ![c] = FALSE]
  /\ asleep' = asleep \ {c}
  /\ Go(c, "open")
  /\ UNCHANGED <<sizeVars, conn, round, cap, result, envVars>>

\* acquire() finds nothing: it sleeps, or its deadline has passed.
Exhausted(c) == pc[c] = "acquire" /\ busy >= cap[c]

Sleep(c) ==
  /\ Exhausted(c) /\ c \notin asleep
  /\ idle' = <<>>
  /\ opened' = opened - Len(idle)
  /\ asleep' = asleep \cup {c}
  /\ UNCHANGED <<sizeVars, busy, poolCallVars, envVars>>

AcquireTimeout(c) ==
  /\ Exhausted(c)
  /\ idle' = <<>>
  /\ opened' = opened - Len(idle)
  /\ asleep' = asleep \ {c}
  /\ Go(c, "ready")
  /\ result' = [result EXCEPT ![c] = "pool_busy"]
  /\ UNCHANGED <<sizeVars, busy, conn, reused, round, cap, envVars>>

\* acquire() run by a caller that is awake, or whose deadline wakes it.
Acquire(c) ==
  /\ c \notin asleep
  /\ (\E k \in 0..Len(idle) : LeaseIdle(c, k)) \/ LeaseCreate(c) \/ Sleep(c)

AcquireAtDeadline(c) ==
  \/ c \in asleep /\ ((\E k \in 0..Len(idle) : LeaseIdle(c, k)) \/ LeaseCreate(c))
  \/ AcquireTimeout(c)

\* uds_connect(): somebody listens.
Reachable == up

\* A connection that is opened has its own socket, waiting state and callbacks.
NewConns == Conns \ InUse

\* open_conn(), where the wait and the time-out are over in time.
OpenConn(c) ==
  /\ pc[c] = "open" /\ Reachable
  /\ \E k \in NewConns :
       /\ conn' = [conn EXCEPT ![c] = k]
       /\ alive' = alive \cup {k}
  /\ Go(c, "exchange")
  /\ UNCHANGED <<sizeVars, poolVars, reused, round, cap, result, up>>

OpenFails(c) ==
  /\ pc[c] = "open"
  /\ Go(c, "cancel")
  /\ UNCHANGED <<sizeVars, poolVars, conn, reused, round, cap, result, envVars>>

\* Mutant: a failed open keeps its slot.
CancelCreateLeak(c) ==
  /\ pc[c] = "cancel"
  /\ opened' = opened - 1
  /\ notify_one
  /\ Go(c, "ready")
  /\ result' = [result EXCEPT ![c] = "failed"]
  /\ UNCHANGED <<sizeVars, idle, busy, conn, reused, round, cap, envVars>>

\* Mutant: a failed open frees its slot without telling the waiters.
CancelCreateSilent(c) ==
  /\ pc[c] = "cancel"
  /\ busy' = busy - 1
  /\ opened' = opened - 1
  /\ Go(c, "ready")
  /\ result' = [result EXCEPT ![c] = "failed"]
  /\ UNCHANGED <<sizeVars, idle, asleep, conn, reused, round, cap, envVars>>

CancelCreate(c) ==
  /\ pc[c] = "cancel"
  /\ busy' = busy - 1
  /\ opened' = opened - 1
  /\ notify_one
  /\ Go(c, "ready")
  /\ result' = [result EXCEPT ![c] = "failed"]
  /\ UNCHANGED <<sizeVars, idle, conn, reused, round, cap, envVars>>

\* exchange_on(): an answer (a protocol error counts as one, the frame was
\* complete), no answer in time, or a dead peer.
Exchange(c) ==
  /\ pc[c] = "exchange"
  /\ \/ /\ conn[c] \in alive
        /\ \E r \in {"ok", "failed"} : result' = [result EXCEPT ![c] = r]
        /\ Go(c, "release")
     \/ /\ result' = [result EXCEPT ![c] = IF conn[c] \in alive THEN "timeout" ELSE "failed"]
        /\ Go(c, "discard")
  /\ UNCHANGED <<sizeVars, poolVars, conn, reused, round, cap, envVars>>

\* release(), followed by an eviction of the k oldest.
Release(c) ==
  /\ pc[c] = "release"
  /\ busy' = busy - 1
  /\ LET keep == Len(idle) < MaxIdle
         q    == IF keep THEN Append(idle, conn[c]) ELSE idle
     IN  \E k \in 0..Len(q) :
           /\ idle' = After(q, k)
           /\ opened' = opened - k - (IF keep THEN 0 ELSE 1)
  /\ notify_one
  /\ conn' = [conn EXCEPT ![c] = NoConn]
  /\ Go(c, "ready")
  /\ UNCHANGED <<sizeVars, reused, round, cap, result, envVars>>

\* discard(), and what attempt_pooled does next: a fresh connection that
\* failed ends the call, a reused one that failed starts the next round.
Discard(c) ==
  /\ pc[c] = "discard"
  /\ busy' = busy - 1
  /\ opened' = opened - 1
  /\ notify_one
  /\ conn' = [conn EXCEPT ![c] = NoConn]
  /\ IF ~reused[c]
     THEN Go(c, "ready") /\ UNCHANGED <<round, cap, result>>
     ELSE IF round[c] = 0
     THEN /\ Go(c, "acquire")
          /\ round' = [round EXCEPT ![c] = 1]
          /\ cap' = [cap EXCEPT ![c] = size]
          /\ result' = [result EXCEPT ![c] = "none"]
     ELSE /\ Go(c, "ready")
          /\ result' = [result EXCEPT ![c] = "unknown"]
          /\ UNCHANGED <<round, cap>>
  /\ UNCHANGED <<sizeVars, idle, reused, envVars>>

\* set_connection_pool_max(): 0 also closes the idle connections.
SetConnectionPoolMax(n) ==
  /\ n # size
  /\ size' = n /\ resized' = TRUE
  /\ idle' = IF n = 0 THEN <<>> ELSE idle
  /\ opened' = IF n = 0 THEN opened - Len(idle) ELSE opened
  /\ UNCHANGED <<busy, asleep, poolCallVars, envVars>>

\* The server goes down with all its connections, and comes up again.
ServerStops ==
  /\ up' = FALSE /\ alive' = {}
  /\ UNCHANGED <<sizeVars, poolVars, poolCallVars>>

ServerStarts ==
  /\ up' = TRUE
  /\ UNCHANGED <<sizeVars, poolVars, poolCallVars, alive>>

PooledCall(c) ==
  \/ Begin(c) \/ Acquire(c) \/ AcquireAtDeadline(c)
  \/ OpenConn(c) \/ OpenFails(c) \/ CancelCreate(c)
  \/ Exchange(c) \/ Release(c) \/ Discard(c)

ConnPoolNext ==
  \/ \E c \in Callers : PooledCall(c)
  \/ \E n \in Sizes : SetConnectionPoolMax(n)
  \/ ServerStops \/ ServerStarts

ConnPoolSpec == ConnPoolInit /\ [][ConnPoolNext]_connPoolVars

-----------------------------------------------------------------------------
\* The lease count is exact through failed opens, discards and deadlines.
BusyExact == busy = Cardinality({c \in Callers : pc[c] \in Leased})

\* open_connections (idle + busy) is created_total - closed_total.
OpenExact == opened = Len(idle) + busy

\* Never more connections than the largest configured pool.
WithinCapacity == Len(idle) + busy <= MaxConns

\* A connection serves one call at a time: it is in the queue once, or held
\* by one call, never both.
Exclusive ==
  /\ \A i, j \in 1..Len(idle) : idle[i] = idle[j] => i = j
  /\ \A c \in Callers, i \in 1..Len(idle) : conn[c] # idle[i]
  /\ \A c, d \in Callers : conn[c] = conn[d] /\ conn[c] # NoConn => c = d

\* The counters of the pool tell what is leased and what is open, and no
\* connection is leased twice.
LeaseInv == ConnPoolTypeOK /\ BusyExact /\ OpenExact /\ WithinCapacity /\ Exclusive

\* While the size is not changed, notify_one loses no slot: as long as calls
\* sleep, every free slot has an awake call on its way to it.  (After a change
\* the sleepers have different limits, and the one that is woken may not be
\* the one that could go on.)
NoLostSlot ==
  asleep # {} /\ ~resized =>
    size - busy <= Cardinality({c \in Callers : pc[c] = "acquire"} \ asleep)

\* What the pool lends, it lends to one call at a time, and it wakes whom it should.
LeasesInv == LeaseInv /\ NoLostSlot

-----------------------------------------------------------------------------
(***************************************************************************)
(* Proofs.  The counters of the pool are exact, its capacity holds and no  *)
(* connection is shared, for any callers, connections and sizes; and no    *)
(* slot is lost.  LeaseInv is not inductive as it stands: that the         *)
(* connection a call gives back is one at all, and is not in the queue     *)
(* yet, needs to know at which places a call holds one; and that a freed   *)
(* slot finds a sleeper that can take it needs that sleepers are inside    *)
(* acquire(), with the limit of everybody else.                            *)
(***************************************************************************)
Holding == {"exchange", "release", "discard"}

\* A call holds a connection from opening or leasing it until it gives it back.
HoldsConn == \A c \in Callers : conn[c] # NoConn <=> pc[c] \in Holding

\* Only a call inside acquire() sleeps.
SleepersAcquire == \A c \in asleep : pc[c] = "acquire"

\* Until the first change of the size all calls go by the same limit.
SameLimit == ~resized => \A c \in Callers : cap[c] = size

ConnPoolIInv == LeaseInv /\ HoldsConn /\ SleepersAcquire /\ SameLimit /\ NoLostSlot

USE PoolAssumption DEF PoolAssumption

LEMMA AfterProperties ==
  ASSUME NEW S, NEW q \in Seq(S), NEW k \in 0..Len(q)
  PROVE  /\ After(q, k) \in Seq(S)
         /\ Len(After(q, k)) = Len(q) - k
         /\ \A i \in 1..Len(q) - k : After(q, k)[i] = q[i + k]
<1>1. \A i \in k + 1..Len(q) : q[i] \in S
  OBVIOUS
<1>2. /\ SubSeq(q, k + 1, Len(q)) \in Seq(S)
      /\ Len(SubSeq(q, k + 1, Len(q))) = IF k + 1 <= Len(q) THEN Len(q) - (k + 1) + 1 ELSE 0
      /\ \A i \in 1..Len(q) - (k + 1) + 1 : SubSeq(q, k + 1, Len(q))[i] = q[k + 1 + i - 1]
  BY <1>1, SubSeqProperties
<1> QED
  BY <1>2 DEF After

\* What a step of one call does to the number of leases.
LeasedIn(f) == {c \in Callers : f[c] \in Leased}

LEMMA LeasedMove ==
  ASSUME NEW f, NEW g, NEW c \in Callers, \A x \in Callers : x # c => g[x] = f[x]
  PROVE  /\ Cardinality(LeasedIn(f)) \in Nat /\ Cardinality(LeasedIn(g)) \in Nat
         /\ Cardinality(LeasedIn(g)) =
              Cardinality(LeasedIn(f)) + (IF g[c] \in Leased THEN 1 ELSE 0)
                                       - (IF f[c] \in Leased THEN 1 ELSE 0)
<1>1. IsFiniteSet(LeasedIn(f)) /\ IsFiniteSet(LeasedIn(g))
  <2>1. LeasedIn(f) \in SUBSET Callers /\ LeasedIn(g) \in SUBSET Callers
    BY DEF LeasedIn
  <2> QED
    BY <2>1, FS_Subset
<1>2. Cardinality(LeasedIn(f)) \in Nat /\ Cardinality(LeasedIn(g)) \in Nat
  BY <1>1, FS_CardinalityType
<1>3. CASE f[c] \in Leased /\ g[c] \notin Leased
  <2>1. LeasedIn(g) = LeasedIn(f) \ {c} /\ c \in LeasedIn(f)
    BY <1>3 DEF LeasedIn
  <2>2. Cardinality(LeasedIn(g)) = Cardinality(LeasedIn(f)) - 1
    BY <1>1, <2>1, FS_RemoveElement
  <2> QED
    BY <1>2, <1>3, <2>2
<1>4. CASE f[c] \notin Leased /\ g[c] \in Leased
  <2>1. LeasedIn(g) = LeasedIn(f) \cup {c} /\ c \notin LeasedIn(f)
    BY <1>4 DEF LeasedIn
  <2>2. Cardinality(LeasedIn(g)) = Cardinality(LeasedIn(f)) + 1
    BY <1>1, <2>1, FS_AddElement
  <2> QED
    BY <1>2, <1>4, <2>2
<1>5. CASE f[c] \in Leased <=> g[c] \in Leased
  <2>1. LeasedIn(g) = LeasedIn(f)
    BY <1>5 DEF LeasedIn
  <2> QED
    BY <1>2, <1>5, <2>1
<1> QED
  BY <1>3, <1>4, <1>5

LEMMA BusyMove ==
  ASSUME BusyExact, NEW c \in Callers,
         \A x \in Callers : x # c => pc'[x] = pc[x],
         busy' = busy + (IF pc'[c] \in Leased THEN 1 ELSE 0)
                      - (IF pc[c] \in Leased THEN 1 ELSE 0)
  PROVE  BusyExact' /\ busy' \in Nat
<1>1. /\ Cardinality(LeasedIn(pc)) \in Nat /\ Cardinality(LeasedIn(pc')) \in Nat
      /\ Cardinality(LeasedIn(pc')) =
           Cardinality(LeasedIn(pc)) + (IF pc'[c] \in Leased THEN 1 ELSE 0)
                                     - (IF pc[c] \in Leased THEN 1 ELSE 0)
  BY LeasedMove
<1>2. busy = Cardinality(LeasedIn(pc))
  BY DEF BusyExact, LeasedIn
<1>3. busy' = Cardinality(LeasedIn(pc'))
  BY <1>1, <1>2
<1> QED
  BY <1>1, <1>3 DEF BusyExact, LeasedIn

\* The calls inside acquire() that are awake.
Awake == {c \in Callers : pc[c] = "acquire"} \ asleep

LEMMA AwakeFinite == IsFiniteSet(Awake) /\ IsFiniteSet(Awake')
<1>1. Awake \in SUBSET Callers /\ Awake' \in SUBSET Callers
  BY DEF Awake
<1> QED
  BY <1>1, FS_Subset

LEMMA ConnPoolInitInv == ConnPoolInit => ConnPoolIInv
<1> SUFFICES ASSUME ConnPoolInit PROVE ConnPoolIInv
  OBVIOUS
<1>1. ConnPoolTypeOK
  <2>1. size \in Sizes /\ idle \in Seq(Conns) /\ busy \in Nat /\ opened \in Int
    BY DEF ConnPoolInit
  <2>2. /\ pc \in [Callers -> {"ready", "acquire"} \cup Leased]
        /\ conn \in [Callers -> Conns \cup {NoConn}]
        /\ result \in [Callers -> Outcomes]
    BY DEF ConnPoolInit, Outcomes
  <2>3. /\ reused \in [Callers -> BOOLEAN] /\ round \in [Callers -> 0..1]
        /\ cap \in [Callers -> Sizes]
    BY <2>1 DEF ConnPoolInit
  <2>4. resized \in BOOLEAN /\ up \in BOOLEAN
    BY DEF ConnPoolInit
  <2>5. asleep \subseteq Callers /\ alive \subseteq Conns
    BY DEF ConnPoolInit
  <2> QED
    BY <2>1, <2>2, <2>3, <2>4, <2>5 DEF ConnPoolTypeOK
<1>2. BusyExact
  <2>1. {c \in Callers : pc[c] \in Leased} = {}
    BY DEF ConnPoolInit, Leased
  <2>2. Cardinality({c \in Callers : pc[c] \in Leased}) = 0
    BY <2>1, FS_EmptySet
  <2> QED
    BY <2>2 DEF ConnPoolInit, BusyExact
<1>3. OpenExact /\ WithinCapacity /\ Exclusive
  BY DEF ConnPoolInit, OpenExact, WithinCapacity, Exclusive
<1>4. HoldsConn /\ SleepersAcquire /\ SameLimit /\ NoLostSlot
  BY DEF ConnPoolInit, HoldsConn, Holding, SleepersAcquire, SameLimit, NoLostSlot
<1> QED
  BY <1>1, <1>2, <1>3, <1>4 DEF ConnPoolIInv, LeaseInv

\* The facts about a state that every step of the proof starts from.
LEMMA PoolFacts ==
  ConnPoolIInv =>
    /\ ConnPoolTypeOK /\ BusyExact /\ OpenExact /\ WithinCapacity /\ Exclusive
    /\ HoldsConn /\ SleepersAcquire /\ SameLimit /\ NoLostSlot
    /\ asleep \in SUBSET Callers
    /\ idle \in Seq(Conns) /\ busy \in Nat /\ Len(idle) \in Nat
    /\ MaxConns \in Nat /\ size \in 0..MaxConns
    /\ \A c \in Callers : cap[c] \in 0..MaxConns
<1>1. ASSUME ConnPoolIInv
      PROVE  /\ ConnPoolTypeOK /\ BusyExact /\ OpenExact /\ WithinCapacity /\ Exclusive
             /\ HoldsConn /\ SleepersAcquire /\ SameLimit /\ NoLostSlot
  BY <1>1 DEF ConnPoolIInv, LeaseInv
<1>2. ASSUME ConnPoolTypeOK
      PROVE  /\ asleep \in SUBSET Callers
             /\ idle \in Seq(Conns) /\ busy \in Nat /\ Len(idle) \in Nat
             /\ MaxConns \in Nat /\ size \in 0..MaxConns
             /\ \A c \in Callers : cap[c] \in 0..MaxConns
  <2>1. size \in Sizes /\ cap \in [Callers -> Sizes] /\ idle \in Seq(Conns) /\ busy \in Nat
    BY <1>2 DEF ConnPoolTypeOK
  <2>2. MaxConns \in Nat /\ size \in 0..MaxConns
    BY <2>1
  <2>3. \A c \in Callers : cap[c] \in 0..MaxConns
    BY <2>1
  <2>4. Len(idle) \in Nat
    BY <2>1
  <2>5. asleep \in SUBSET Callers
    BY <1>2 DEF ConnPoolTypeOK
  <2> QED
    BY <2>1, <2>2, <2>3, <2>4, <2>5
<1> QED
  BY <1>1, <1>2

\* Handing out an idle connection, or the right to open one.
LEMMA LeaseIdleInv ==
  ASSUME ConnPoolIInv, NEW c \in Callers, NEW k \in 0..Len(idle), LeaseIdle(c, k)
  PROVE  ConnPoolIInv'
<1> USE PoolFacts
<1>1. /\ idle' \in Seq(Conns) /\ Len(idle') = Len(idle) - (k + 1)
      /\ \A i \in 1..Len(idle) - (k + 1) : idle'[i] = idle[i + k + 1]
  <2>1. k + 1 \in 0..Len(idle) /\ k \in 0..Len(idle) /\ idle \in Seq(Conns)
    BY DEF LeaseIdle, ConnPoolTypeOK
  <2>2. /\ After(idle, k) \in Seq(Conns) /\ Len(After(idle, k)) = Len(idle) - k
        /\ \A i \in 1..Len(idle) - k : After(idle, k)[i] = idle[i + k]
    BY <2>1, AfterProperties
  <2>3. After(idle, k) # <<>>
    BY <2>1, <2>2
  <2> QED
    BY <2>1, <2>2, <2>3, HeadTailProperties DEF LeaseIdle
<1>2. idle[k + 1] \in Conns /\ k + 1 \in 1..Len(idle)
  BY DEF LeaseIdle, ConnPoolTypeOK
<1>3. pc[c] = "acquire" /\ pc'[c] = "exchange" /\ \A x \in Callers : x # c => pc'[x] = pc[x]
  BY DEF LeaseIdle, Go, ConnPoolTypeOK
<1>4. BusyExact' /\ busy' \in Nat
  <2>1. busy' = busy + 1
    BY DEF LeaseIdle
  <2>2. pc[c] \notin Leased /\ pc'[c] \in Leased
    BY <1>3 DEF Leased
  <2> QED
    BY <1>3, <2>1, <2>2, BusyMove
<1>5. ConnPoolTypeOK'
  <2>1. opened' \in Int /\ asleep' \in SUBSET Callers
    BY DEF ConnPoolTypeOK, LeaseIdle
  <2>2. /\ pc' \in [Callers -> {"ready", "acquire"} \cup Leased]
        /\ conn' \in [Callers -> Conns \cup {NoConn}]
    BY <1>2 DEF ConnPoolTypeOK, LeaseIdle, Go, Leased
  <2>3. reused' \in [Callers -> BOOLEAN]
    BY DEF ConnPoolTypeOK, LeaseIdle
  <2> QED
    BY <1>1, <1>4, <2>1, <2>2, <2>3 DEF ConnPoolTypeOK, LeaseIdle, sizeVars, envVars
<1>6. OpenExact' /\ WithinCapacity'
  <2>1. /\ busy' = busy + 1 /\ opened' = opened - k
        /\ busy \in Nat /\ Len(idle) \in Nat /\ k \in Nat
    BY DEF LeaseIdle
  <2>2. opened = Len(idle) + busy /\ Len(idle) + busy <= MaxConns /\ Len(idle') = Len(idle) - (k + 1)
    BY <1>1 DEF OpenExact, WithinCapacity
  <2> QED
    BY <2>1, <2>2 DEF OpenExact, WithinCapacity
<1>7. Exclusive'
  <2>1. /\ \A i \in 1..Len(idle') : i + k + 1 \in 1..Len(idle) /\ i + k + 1 # k + 1 /\ idle'[i] = idle[i + k + 1]
        /\ \A i, j \in 1..Len(idle') : i # j => i + k + 1 # j + k + 1
    <3>1. Len(idle') = Len(idle) - (k + 1) /\ k \in Nat /\ Len(idle) \in Nat
      BY <1>1
    <3>2. \A i \in 1..Len(idle') : idle'[i] = idle[i + k + 1]
      BY <1>1
    <3>3. \A i \in 1..Len(idle') : i + k + 1 \in 1..Len(idle) /\ i + k + 1 # k + 1
      BY <3>1
    <3>4. \A i, j \in 1..Len(idle') : i # j => i + k + 1 # j + k + 1
      BY <3>1
    <3> QED
      BY <3>2, <3>3, <3>4
  <2>2. conn'[c] = idle[k + 1] /\ \A d \in Callers : d # c => conn'[d] = conn[d]
    BY DEF LeaseIdle, ConnPoolTypeOK
  <2>3. Exclusive
    OBVIOUS
  <2>4. \A i, j \in 1..Len(idle') : idle'[i] = idle'[j] => i = j
    BY <2>1, <2>3 DEF Exclusive
  <2>5. \A d \in Callers, i \in 1..Len(idle') : conn'[d] # idle'[i]
    BY <1>2, <2>1, <2>2, <2>3 DEF Exclusive
  <2>6. \A d, e \in Callers : conn'[d] = conn'[e] /\ conn'[d] # NoConn => d = e
    BY <1>2, <2>2, <2>3 DEF Exclusive
  <2> QED
    BY <2>4, <2>5, <2>6 DEF Exclusive
<1>8. HoldsConn' /\ SleepersAcquire' /\ SameLimit'
  <2>1. HoldsConn'
    BY <1>2, <1>3 DEF HoldsConn, Holding, LeaseIdle, ConnPoolTypeOK
  <2>2. SleepersAcquire'
    BY <1>3 DEF SleepersAcquire, LeaseIdle
  <2>3. SameLimit'
    BY DEF SameLimit, LeaseIdle, sizeVars
  <2> QED
    BY <2>1, <2>2, <2>3
<1>9. NoLostSlot'
  <2>1. Awake \ {c} \subseteq Awake'
    BY <1>3 DEF Awake, LeaseIdle
  <2>2. asleep' # {} => asleep # {}
    BY DEF LeaseIdle
  <2>3. Cardinality(Awake) - 1 <= Cardinality(Awake') /\ Cardinality(Awake) \in Nat /\ Cardinality(Awake') \in Nat
    BY <2>1, AwakeFinite, SubsetLost
  <2> QED
    BY <2>2, <2>3 DEF NoLostSlot, Awake, LeaseIdle, sizeVars
<1> QED
  BY <1>4, <1>5, <1>6, <1>7, <1>8, <1>9 DEF ConnPoolIInv, LeaseInv

LEMMA LeaseCreateInv ==
  ASSUME ConnPoolIInv, NEW c \in Callers, LeaseCreate(c)
  PROVE  ConnPoolIInv'
<1> USE PoolFacts
<1>1. idle' \in Seq(Conns) /\ Len(idle') = 0
  BY DEF LeaseCreate
<1>2. pc[c] = "acquire" /\ pc'[c] = "open" /\ \A x \in Callers : x # c => pc'[x] = pc[x]
  BY DEF LeaseCreate, Go, ConnPoolTypeOK
<1>3. BusyExact' /\ busy' \in Nat
  BY <1>2, BusyMove DEF LeaseCreate, Leased
<1>4. ConnPoolTypeOK'
  <2>1. opened' \in Int /\ asleep' \in SUBSET Callers
    BY DEF ConnPoolTypeOK, LeaseCreate
  <2>2. pc' \in [Callers -> {"ready", "acquire"} \cup Leased]
    BY DEF ConnPoolTypeOK, LeaseCreate, Go, Leased
  <2>3. reused' \in [Callers -> BOOLEAN]
    BY DEF ConnPoolTypeOK, LeaseCreate
  <2> QED
    BY <1>1, <1>3, <2>1, <2>2, <2>3 DEF ConnPoolTypeOK, LeaseCreate, sizeVars, envVars
<1>5. OpenExact' /\ WithinCapacity'
  <2>1. /\ busy' = busy + 1 /\ opened' = opened - Len(idle) + 1 /\ busy < cap[c]
        /\ busy \in Nat /\ Len(idle) \in Nat /\ cap[c] \in 0..MaxConns /\ MaxConns \in Nat
    BY DEF LeaseCreate
  <2>2. opened = Len(idle) + busy
    BY DEF OpenExact
  <2> QED
    BY <1>1, <2>1, <2>2 DEF OpenExact, WithinCapacity
<1>6. Exclusive'
  BY <1>1 DEF Exclusive, LeaseCreate
<1>7. HoldsConn' /\ SleepersAcquire' /\ SameLimit'
  <2>1. HoldsConn'
    BY <1>2 DEF HoldsConn, Holding, LeaseCreate
  <2>2. SleepersAcquire'
    BY <1>2 DEF SleepersAcquire, LeaseCreate
  <2>3. SameLimit'
    BY DEF SameLimit, LeaseCreate, sizeVars
  <2> QED
    BY <2>1, <2>2, <2>3
<1>8. NoLostSlot'
  <2>1. Awake \ {c} \subseteq Awake'
    BY <1>2 DEF Awake, LeaseCreate
  <2>2. asleep' # {} => asleep # {}
    BY DEF LeaseCreate
  <2>3. Cardinality(Awake) - 1 <= Cardinality(Awake') /\ Cardinality(Awake) \in Nat /\ Cardinality(Awake') \in Nat
    BY <2>1, AwakeFinite, SubsetLost
  <2> QED
    BY <2>2, <2>3 DEF NoLostSlot, Awake, LeaseCreate, sizeVars
<1> QED
  BY <1>3, <1>4, <1>5, <1>6, <1>7, <1>8 DEF ConnPoolIInv, LeaseInv

\* A call that finds nothing goes to sleep or gives up: every slot of its
\* limit is leased, so it leaves no free slot behind.
LEMMA ExhaustedInv ==
  ASSUME ConnPoolIInv, NEW c \in Callers, Sleep(c) \/ AcquireTimeout(c)
  PROVE  ConnPoolIInv'
<1> USE PoolFacts
<1>1. idle' \in Seq(Conns) /\ Len(idle') = 0
  <2>1. idle' = <<>>
    BY DEF Sleep, AcquireTimeout
  <2> QED
    BY <2>1
<1>2. /\ pc[c] = "acquire" /\ pc'[c] \in {"acquire", "ready"}
      /\ \A x \in Callers : x # c => pc'[x] = pc[x]
      /\ \A x \in asleep' : pc'[x] = "acquire"
  BY DEF Sleep, AcquireTimeout, Exhausted, Go, ConnPoolTypeOK, poolCallVars, SleepersAcquire
<1>3. BusyExact' /\ busy' \in Nat
  <2>1. busy' = busy
    BY DEF Sleep, AcquireTimeout
  <2> QED
    BY <1>2, <2>1, BusyMove DEF Leased
<1>4. ConnPoolTypeOK'
  <2>1. opened' \in Int /\ asleep' \in SUBSET Callers
    BY DEF ConnPoolTypeOK, Sleep, AcquireTimeout
  <2>2. pc' \in [Callers -> {"ready", "acquire"} \cup Leased]
    BY DEF ConnPoolTypeOK, Sleep, AcquireTimeout, Go, poolCallVars
  <2>3. result' \in [Callers -> Outcomes]
    BY DEF ConnPoolTypeOK, Sleep, AcquireTimeout, Outcomes, poolCallVars
  <2> QED
    BY <1>1, <1>3, <2>1, <2>2, <2>3
    DEF ConnPoolTypeOK, Sleep, AcquireTimeout, sizeVars, envVars, poolCallVars
<1>5. OpenExact' /\ WithinCapacity'
  <2>1. busy' = busy /\ opened' = opened - Len(idle) /\ busy \in Nat /\ Len(idle) \in Nat
    BY DEF Sleep, AcquireTimeout
  <2>2. opened = Len(idle) + busy /\ Len(idle) + busy <= MaxConns /\ MaxConns \in Nat
    BY DEF OpenExact, WithinCapacity
  <2> QED
    BY <1>1, <2>1, <2>2 DEF OpenExact, WithinCapacity
<1>6. Exclusive'
  BY <1>1 DEF Exclusive, Sleep, AcquireTimeout, poolCallVars
<1>7. HoldsConn' /\ SleepersAcquire' /\ SameLimit'
  <2>1. HoldsConn'
    BY <1>2 DEF HoldsConn, Holding, Sleep, AcquireTimeout, poolCallVars
  <2>2. SleepersAcquire'
    BY <1>2 DEF SleepersAcquire
  <2>3. SameLimit'
    BY DEF SameLimit, Sleep, AcquireTimeout, sizeVars, poolCallVars
  <2> QED
    BY <2>1, <2>2, <2>3
<1>8. NoLostSlot'
  <2>1. busy \in Nat /\ size \in 0..MaxConns /\ MaxConns \in Nat
    OBVIOUS
  <2>2. ~resized => size - busy <= 0
    BY <2>1 DEF Sleep, AcquireTimeout, Exhausted, SameLimit
  <2>3. Cardinality(Awake') \in Nat
    BY AwakeFinite, FS_CardinalityType
  <2> QED
    BY <2>1, <2>2, <2>3 DEF NoLostSlot, Awake, Sleep, AcquireTimeout, sizeVars
<1> QED
  BY <1>3, <1>4, <1>5, <1>6, <1>7, <1>8 DEF ConnPoolIInv, LeaseInv

\* The new connection is one that nobody uses.
LEMMA OpenConnInv ==
  ASSUME ConnPoolIInv, NEW c \in Callers, OpenConn(c)
  PROVE  ConnPoolIInv'
<1> USE PoolFacts
<1>1. PICK k \in Conns \ InUse : conn' = [conn EXCEPT ![c] = k] /\ alive' = alive \cup {k}
  BY DEF OpenConn, NewConns
<1>2. pc[c] = "open" /\ pc'[c] = "exchange" /\ \A x \in Callers : x # c => pc'[x] = pc[x]
  BY DEF OpenConn, Go, ConnPoolTypeOK
<1>3. BusyExact'
  BY <1>2, BusyMove DEF OpenConn, Leased, poolVars
<1>4. ConnPoolTypeOK'
  <2>1. pc' \in [Callers -> {"ready", "acquire"} \cup Leased]
    BY DEF ConnPoolTypeOK, OpenConn, Go, Leased
  <2>2. conn' \in [Callers -> Conns \cup {NoConn}] /\ alive' \in SUBSET Conns
    BY <1>1 DEF ConnPoolTypeOK
  <2> QED
    BY <2>1, <2>2 DEF ConnPoolTypeOK, OpenConn, sizeVars, poolVars
<1>5. OpenExact' /\ WithinCapacity'
  BY DEF OpenExact, WithinCapacity, OpenConn, poolVars
<1>6. Exclusive'
  <2>1. /\ conn'[c] = k /\ \A d \in Callers : d # c => conn'[d] = conn[d]
        /\ \A d \in Callers : conn[d] # k
        /\ \A i \in 1..Len(idle) : idle[i] # k
    BY <1>1 DEF InUse, ConnPoolTypeOK
  <2> QED
    BY <2>1 DEF Exclusive, OpenConn, poolVars
<1>7. HoldsConn' /\ SleepersAcquire' /\ SameLimit'
  <2>1. conn'[c] # NoConn /\ \A d \in Callers : d # c => conn'[d] = conn[d]
    BY <1>1 DEF ConnPoolTypeOK
  <2>2. HoldsConn'
    BY <1>2, <2>1 DEF HoldsConn, Holding
  <2>3. SleepersAcquire'
    BY <1>2 DEF SleepersAcquire, OpenConn, poolVars
  <2>4. SameLimit'
    BY DEF SameLimit, OpenConn, sizeVars
  <2> QED
    BY <2>2, <2>3, <2>4
<1>8. NoLostSlot'
  <2>1. Awake' = Awake
    BY <1>2 DEF Awake, OpenConn, poolVars
  <2> QED
    BY <2>1 DEF NoLostSlot, Awake, OpenConn, sizeVars, poolVars
<1> QED
  BY <1>3, <1>4, <1>5, <1>6, <1>7, <1>8 DEF ConnPoolIInv, LeaseInv

\* Steps of a call that keep its lease and its connection.
LEMMA LeaseKeptInv ==
  ASSUME ConnPoolIInv, NEW c \in Callers, OpenFails(c) \/ Exchange(c)
  PROVE  ConnPoolIInv'
<1> USE PoolFacts
<1>1. /\ \/ pc[c] = "open" /\ pc'[c] = "cancel"
         \/ pc[c] = "exchange" /\ pc'[c] \in {"release", "discard"}
      /\ \A x \in Callers : x # c => pc'[x] = pc[x]
  BY DEF OpenFails, Exchange, Go, ConnPoolTypeOK
<1>2. UNCHANGED <<sizeVars, poolVars, conn, reused, round, cap, envVars>>
  BY DEF OpenFails, Exchange
<1>3. BusyExact'
  BY <1>1, <1>2, BusyMove DEF Leased, poolVars
<1>4. ConnPoolTypeOK'
  <2>1. pc' \in [Callers -> {"ready", "acquire"} \cup Leased]
    BY DEF ConnPoolTypeOK, OpenFails, Exchange, Go, Leased
  <2>2. result' \in [Callers -> Outcomes]
    BY DEF ConnPoolTypeOK, OpenFails, Exchange, Outcomes
  <2> QED
    BY <1>2, <2>1, <2>2 DEF ConnPoolTypeOK, sizeVars, poolVars, envVars
<1>5. OpenExact' /\ WithinCapacity' /\ Exclusive'
  BY <1>2 DEF OpenExact, WithinCapacity, Exclusive, poolVars
<1>6. HoldsConn' /\ SleepersAcquire' /\ SameLimit'
  <2>1. HoldsConn'
    BY <1>1, <1>2 DEF HoldsConn, Holding
  <2>2. SleepersAcquire'
    BY <1>1, <1>2 DEF SleepersAcquire, poolVars
  <2>3. SameLimit'
    BY <1>2 DEF SameLimit, sizeVars
  <2> QED
    BY <2>1, <2>2, <2>3
<1>7. NoLostSlot'
  <2>1. Awake' = Awake
    BY <1>1, <1>2 DEF Awake, poolVars
  <2> QED
    BY <1>2, <2>1 DEF NoLostSlot, Awake, sizeVars, poolVars
<1> QED
  BY <1>3, <1>4, <1>5, <1>6, <1>7 DEF ConnPoolIInv, LeaseInv

\* notify_one wakes a sleeper for the slot that is given back.
LEMMA NotifyKeepsSlot ==
  ASSUME ConnPoolIInv, NEW c \in Callers, notify_one,
         pc[c] \in Leased, \A x \in Callers : x # c => pc'[x] = pc[x],
         busy' = busy - 1, UNCHANGED sizeVars
  PROVE  /\ NoLostSlot'
         /\ asleep' \in SUBSET Callers
         /\ \A x \in asleep' : pc'[x] = "acquire"
<1> USE PoolFacts
<1>1. asleep \in SUBSET Callers /\ c \notin asleep
  BY DEF ConnPoolTypeOK, SleepersAcquire, Leased
<1>2. CASE asleep = {}
  BY <1>2 DEF notify_one, NoLostSlot
<1>3. CASE asleep # {}
  <2>1. PICK d \in asleep : asleep' = asleep \ {d}
    BY <1>3 DEF notify_one
  <2>2. d \notin Awake /\ Awake \cup {d} \subseteq Awake'
    BY <1>1, <2>1 DEF Awake, SleepersAcquire, Leased
  <2>3. /\ Cardinality(Awake) + 1 <= Cardinality(Awake')
        /\ Cardinality(Awake) \in Nat /\ Cardinality(Awake') \in Nat
    BY <2>2, AwakeFinite, SubsetGained
  <2>4. busy \in Nat /\ size \in 0..MaxConns /\ MaxConns \in Nat
    OBVIOUS
  <2>5. resized' = resized /\ size' = size
    BY DEF sizeVars
  <2>6. ~resized => size - busy <= Cardinality(Awake)
    BY <1>3 DEF NoLostSlot, Awake
  <2>7. ~resized' => size' - busy' <= Cardinality(Awake')
    BY <2>3, <2>4, <2>5, <2>6
  <2>8. NoLostSlot'
    BY <2>7 DEF NoLostSlot, Awake
  <2> QED
    BY <1>1, <2>1, <2>8 DEF SleepersAcquire
<1> QED
  BY <1>2, <1>3

\* A failed open gives its slot back.
LEMMA CancelCreateInv ==
  ASSUME ConnPoolIInv, NEW c \in Callers, CancelCreate(c)
  PROVE  ConnPoolIInv'
<1> USE PoolFacts
<1>1. pc[c] = "cancel" /\ pc'[c] = "ready" /\ \A x \in Callers : x # c => pc'[x] = pc[x]
  BY DEF CancelCreate, Go, ConnPoolTypeOK
<1>2. /\ busy' = busy - 1 /\ opened' = opened - 1 /\ notify_one
      /\ UNCHANGED <<sizeVars, idle, conn, reused, round, cap, envVars>>
  BY DEF CancelCreate
<1>3. BusyExact' /\ busy' \in Nat
  BY <1>1, <1>2, BusyMove DEF Leased
<1>4. NoLostSlot' /\ asleep' \in SUBSET Callers /\ \A x \in asleep' : pc'[x] = "acquire"
  BY <1>1, <1>2, NotifyKeepsSlot DEF Leased
<1>5. ConnPoolTypeOK'
  <2>1. pc' \in [Callers -> {"ready", "acquire"} \cup Leased]
    BY DEF ConnPoolTypeOK, CancelCreate, Go, Leased
  <2>2. result' \in [Callers -> Outcomes] /\ opened' \in Int
    BY DEF ConnPoolTypeOK, CancelCreate, Outcomes
  <2> QED
    BY <1>2, <1>3, <1>4, <2>1, <2>2 DEF ConnPoolTypeOK, sizeVars, envVars
<1>6. OpenExact' /\ WithinCapacity'
  <2>1. busy \in Nat /\ Len(idle) \in Nat /\ MaxConns \in Nat /\ idle' = idle
    BY <1>2
  <2> QED
    BY <1>2, <2>1 DEF OpenExact, WithinCapacity
<1>7. Exclusive'
  BY <1>2 DEF Exclusive
<1>8. HoldsConn'
  BY <1>1, <1>2 DEF HoldsConn, Holding
<1>9. SleepersAcquire' /\ SameLimit'
  <2>1. SleepersAcquire'
    BY <1>4 DEF SleepersAcquire
  <2>2. SameLimit'
    BY <1>2 DEF SameLimit, sizeVars
  <2> QED
    BY <2>1, <2>2
<1> QED
  BY <1>3, <1>4, <1>5, <1>6, <1>7, <1>8, <1>9 DEF ConnPoolIInv, LeaseInv

\* The connection goes to the end of the queue, where it is found once.
LEMMA ReleaseInv ==
  ASSUME ConnPoolIInv, NEW c \in Callers, Release(c)
  PROVE  ConnPoolIInv'
<1> USE PoolFacts
<1> DEFINE keep == Len(idle) < MaxIdle
           q == IF keep THEN Append(idle, conn[c]) ELSE idle
<1>1. pc[c] = "release" /\ pc'[c] = "ready" /\ \A x \in Callers : x # c => pc'[x] = pc[x]
  BY DEF Release, Go, ConnPoolTypeOK
<1>2. /\ busy' = busy - 1 /\ notify_one
      /\ conn'[c] = NoConn /\ \A x \in Callers : x # c => conn'[x] = conn[x]
      /\ UNCHANGED <<sizeVars, reused, round, cap, result, envVars>>
  BY DEF Release, ConnPoolTypeOK
<1>3. PICK k \in 0..Len(q) :
        idle' = After(q, k) /\ opened' = opened - k - (IF keep THEN 0 ELSE 1)
  BY DEF Release
<1>4. conn[c] \in Conns
  BY <1>1 DEF HoldsConn, Holding, ConnPoolTypeOK
<1>5. /\ q \in Seq(Conns) /\ Len(q) = Len(idle) + (IF keep THEN 1 ELSE 0)
      /\ \A i \in 1..Len(q) : q[i] = IF i <= Len(idle) THEN idle[i] ELSE conn[c]
  <2>1. CASE keep
    BY <1>4, <2>1, AppendProperties
  <2>2. CASE ~keep
    BY <2>2
  <2> QED
    BY <2>1, <2>2
<1> HIDE DEF q
<1>6. /\ idle' \in Seq(Conns) /\ Len(idle') = Len(q) - k
      /\ \A i \in 1..Len(q) - k : idle'[i] = q[i + k]
  BY <1>3, <1>5, AfterProperties
<1>7. Len(q) \in Nat /\ k \in Nat /\ Len(idle) \in Nat
  BY <1>5
<1>8. BusyExact' /\ busy' \in Nat
  BY <1>1, <1>2, BusyMove DEF Leased
<1>9. NoLostSlot' /\ asleep' \in SUBSET Callers /\ \A x \in asleep' : pc'[x] = "acquire"
  BY <1>1, <1>2, NotifyKeepsSlot DEF Leased
<1>10. ConnPoolTypeOK'
  <2>1. pc' \in [Callers -> {"ready", "acquire"} \cup Leased]
    BY DEF ConnPoolTypeOK, Release, Go, Leased
  <2>2. conn' \in [Callers -> Conns \cup {NoConn}]
    BY DEF ConnPoolTypeOK, Release
  <2>3. opened' \in Int
    BY <1>3, <1>7 DEF ConnPoolTypeOK
  <2> QED
    BY <1>2, <1>6, <1>8, <1>9, <2>1, <2>2, <2>3 DEF ConnPoolTypeOK, sizeVars, envVars
<1>11. OpenExact' /\ WithinCapacity'
  <2>1. busy \in Nat /\ MaxConns \in Nat /\ opened = Len(idle) + busy /\ Len(idle) + busy <= MaxConns
    BY DEF OpenExact, WithinCapacity
  <2> QED
    BY <1>2, <1>3, <1>5, <1>6, <1>7, <2>1 DEF OpenExact, WithinCapacity
<1>12. Exclusive'
  <2>1. /\ \A i, j \in 1..Len(q) : q[i] = q[j] => i = j
        /\ \A d \in Callers, i \in 1..Len(q) : d # c => conn[d] # q[i]
    <3>1. \A i \in 1..Len(q) : i <= Len(idle) => i \in 1..Len(idle) /\ q[i] = idle[i]
      BY <1>5, <1>7
    <3>2. \A i \in 1..Len(q) : ~(i <= Len(idle)) => q[i] = conn[c] /\ i = Len(q)
      BY <1>5, <1>7
    <3>3. /\ \A i, j \in 1..Len(idle) : idle[i] = idle[j] => i = j
          /\ \A d \in Callers, i \in 1..Len(idle) : conn[d] # idle[i]
          /\ \A d \in Callers : d # c => conn[d] # conn[c]
      BY <1>4 DEF Exclusive
    <3>4. \A i, j \in 1..Len(q) : q[i] = q[j] => i = j
      <4>1. SUFFICES ASSUME NEW i \in 1..Len(q), NEW j \in 1..Len(q), q[i] = q[j]
                     PROVE  i = j
        OBVIOUS
      <4>2. CASE i <= Len(idle) /\ j <= Len(idle)
        BY <3>1, <3>3, <4>1, <4>2
      <4>3. CASE ~(i <= Len(idle)) /\ ~(j <= Len(idle))
        BY <3>2, <4>3
      <4>4. CASE (i <= Len(idle)) # (j <= Len(idle))
        BY <3>1, <3>2, <3>3, <4>1, <4>4
      <4> QED
        BY <4>2, <4>3, <4>4
    <3>5. \A d \in Callers, i \in 1..Len(q) : d # c => conn[d] # q[i]
      BY <3>1, <3>2, <3>3
    <3> QED
      BY <3>4, <3>5
  <2>2. \A i \in 1..Len(idle') : i + k \in 1..Len(q) /\ idle'[i] = q[i + k]
    BY <1>6, <1>7
  <2>3. \A i, j \in 1..Len(idle') : idle'[i] = idle'[j] => i = j
    <3>1. SUFFICES ASSUME NEW i \in 1..Len(idle'), NEW j \in 1..Len(idle'), idle'[i] = idle'[j]
                   PROVE  i = j
      OBVIOUS
    <3>2. i + k = j + k
      BY <2>1, <2>2, <3>1
    <3> QED
      BY <1>7, <3>2
  <2>4. \A d \in Callers, i \in 1..Len(idle') : conn'[d] # idle'[i]
    <3>1. \A i \in 1..Len(idle') : idle'[i] \in Conns
      BY <1>6
    <3>2. NoConn \notin Conns
      OBVIOUS
    <3>3. \A i \in 1..Len(idle') : conn'[c] # idle'[i]
      BY <1>2, <3>1, <3>2
    <3>4. \A d \in Callers, i \in 1..Len(idle') : d # c => conn'[d] # idle'[i]
      <4>1. SUFFICES ASSUME NEW d \in Callers, NEW i \in 1..Len(idle'), d # c
                     PROVE  conn'[d] # idle'[i]
        OBVIOUS
      <4>2. conn'[d] = conn[d]
        BY <1>2, <4>1
      <4>3. i + k \in 1..Len(q) /\ idle'[i] = q[i + k]
        BY <2>2
      <4> QED
        BY <2>1, <4>1, <4>2, <4>3
    <3> QED
      BY <3>3, <3>4
  <2>5. \A d, e \in Callers : conn'[d] = conn'[e] /\ conn'[d] # NoConn => d = e
    BY <1>2 DEF Exclusive
  <2> QED
    BY <2>3, <2>4, <2>5 DEF Exclusive
<1>13. HoldsConn' /\ SleepersAcquire' /\ SameLimit'
  <2>1. HoldsConn'
    BY <1>1, <1>2 DEF HoldsConn, Holding
  <2>2. SleepersAcquire'
    BY <1>9 DEF SleepersAcquire
  <2>3. SameLimit'
    BY <1>2 DEF SameLimit, sizeVars
  <2> QED
    BY <2>1, <2>2, <2>3
<1> QED
  BY <1>8, <1>9, <1>10, <1>11, <1>12, <1>13 DEF ConnPoolIInv, LeaseInv

\* A connection that failed is closed, and the call ends or tries once more.
LEMMA DiscardInv ==
  ASSUME ConnPoolIInv, NEW c \in Callers, Discard(c)
  PROVE  ConnPoolIInv'
<1> USE PoolFacts
<1>1. pc[c] = "discard" /\ pc'[c] \in {"ready", "acquire"} /\ \A x \in Callers : x # c => pc'[x] = pc[x]
  BY DEF Discard, Go, ConnPoolTypeOK
<1>2. /\ busy' = busy - 1 /\ opened' = opened - 1 /\ notify_one
      /\ conn'[c] = NoConn /\ \A x \in Callers : x # c => conn'[x] = conn[x]
      /\ UNCHANGED <<sizeVars, idle, reused, envVars>>
  BY DEF Discard, ConnPoolTypeOK
<1>3. BusyExact' /\ busy' \in Nat
  BY <1>1, <1>2, BusyMove DEF Leased
<1>4. NoLostSlot' /\ asleep' \in SUBSET Callers /\ \A x \in asleep' : pc'[x] = "acquire"
  BY <1>1, <1>2, NotifyKeepsSlot DEF Leased
<1>5. ConnPoolTypeOK'
  <2>1. pc' \in [Callers -> {"ready", "acquire"} \cup Leased]
    <3>1. pc' = [pc EXCEPT ![c] = "ready"] \/ pc' = [pc EXCEPT ![c] = "acquire"]
      BY DEF Discard, Go
    <3> QED
      BY <3>1 DEF ConnPoolTypeOK
  <2>2. conn' \in [Callers -> Conns \cup {NoConn}] /\ opened' \in Int
    BY DEF ConnPoolTypeOK, Discard
  <2>3. result' \in [Callers -> Outcomes]
    BY DEF ConnPoolTypeOK, Discard, Outcomes
  <2>4. round' \in [Callers -> 0..1]
    <3>1. round' = round \/ round' = [round EXCEPT ![c] = 1]
      BY DEF Discard
    <3>2. round \in [Callers -> 0..1] /\ 1 \in 0..1
      BY DEF ConnPoolTypeOK
    <3> QED
      BY <3>1, <3>2
  <2>5. cap' \in [Callers -> Sizes]
    BY DEF ConnPoolTypeOK, Discard
  <2> QED
    BY <1>2, <1>3, <1>4, <2>1, <2>2, <2>3, <2>4, <2>5 DEF ConnPoolTypeOK, sizeVars, envVars
<1>6. OpenExact' /\ WithinCapacity'
  <2>1. busy \in Nat /\ Len(idle) \in Nat /\ MaxConns \in Nat /\ idle' = idle
    BY <1>2
  <2> QED
    BY <1>2, <2>1 DEF OpenExact, WithinCapacity
<1>7. Exclusive'
  <2>1. \A i \in 1..Len(idle) : idle[i] # NoConn
    BY DEF ConnPoolTypeOK
  <2> QED
    BY <1>2, <2>1 DEF Exclusive
<1>8. HoldsConn' /\ SleepersAcquire' /\ SameLimit'
  <2>1. HoldsConn'
    BY <1>1, <1>2 DEF HoldsConn, Holding
  <2>2. SleepersAcquire'
    BY <1>4 DEF SleepersAcquire
  <2>3. cap'[c] \in {cap[c], size} /\ \A x \in Callers : x # c => cap'[x] = cap[x]
    BY DEF Discard, ConnPoolTypeOK
  <2>4. SameLimit'
    BY <1>2, <2>3 DEF SameLimit, sizeVars
  <2> QED
    BY <2>1, <2>2, <2>4
<1> QED
  BY <1>3, <1>4, <1>5, <1>6, <1>7, <1>8 DEF ConnPoolIInv, LeaseInv

\* A new call, a new size (0 closes what is idle), and the server's own steps.
LEMMA BeginInv ==
  ASSUME ConnPoolIInv, NEW c \in Callers, Begin(c)
  PROVE  ConnPoolIInv'
<1> USE PoolFacts
<1>1. pc[c] = "ready" /\ pc'[c] = "acquire" /\ \A x \in Callers : x # c => pc'[x] = pc[x]
  BY DEF Begin, Go, ConnPoolTypeOK
<1>2. UNCHANGED <<sizeVars, poolVars, conn, reused, envVars>>
  BY DEF Begin
<1>3. BusyExact'
  BY <1>1, <1>2, BusyMove DEF Leased, poolVars
<1>4. ConnPoolTypeOK'
  <2>1. pc' \in [Callers -> {"ready", "acquire"} \cup Leased]
    BY DEF ConnPoolTypeOK, Begin, Go
  <2>2. result' \in [Callers -> Outcomes]
    BY DEF ConnPoolTypeOK, Begin, Outcomes
  <2>3. round' \in [Callers -> 0..1] /\ cap' \in [Callers -> Sizes]
    BY DEF ConnPoolTypeOK, Begin
  <2> QED
    BY <1>2, <2>1, <2>2, <2>3 DEF ConnPoolTypeOK, sizeVars, poolVars, envVars
<1>5. OpenExact' /\ WithinCapacity' /\ Exclusive'
  BY <1>2 DEF OpenExact, WithinCapacity, Exclusive, poolVars
<1>6. HoldsConn' /\ SleepersAcquire' /\ SameLimit'
  <2>1. HoldsConn'
    BY <1>1, <1>2 DEF HoldsConn, Holding
  <2>2. SleepersAcquire'
    BY <1>1, <1>2 DEF SleepersAcquire, poolVars
  <2>3. cap'[c] = size /\ \A x \in Callers : x # c => cap'[x] = cap[x]
    BY DEF Begin, ConnPoolTypeOK
  <2>4. SameLimit'
    BY <1>2, <2>3 DEF SameLimit, sizeVars
  <2> QED
    BY <2>1, <2>2, <2>4
<1>7. NoLostSlot'
  <2>1. Awake \subseteq Awake'
    BY <1>1, <1>2 DEF Awake, poolVars
  <2>2. Cardinality(Awake) <= Cardinality(Awake') /\ Cardinality(Awake) \in Nat /\ Cardinality(Awake') \in Nat
    BY <2>1, AwakeFinite, SubsetKept
  <2>3. busy \in Nat /\ size \in 0..MaxConns /\ MaxConns \in Nat
    OBVIOUS
  <2>4. asleep' = asleep /\ size' = size /\ busy' = busy /\ resized' = resized
    BY <1>2 DEF poolVars, sizeVars
  <2> QED
    BY <2>2, <2>3, <2>4 DEF NoLostSlot, Awake
<1> QED
  BY <1>3, <1>4, <1>5, <1>6, <1>7 DEF ConnPoolIInv, LeaseInv

LEMMA ResizeInv ==
  ASSUME ConnPoolIInv, NEW n \in Sizes, SetConnectionPoolMax(n)
  PROVE  ConnPoolIInv'
<1> USE PoolFacts
<1>1. /\ size' = n /\ UNCHANGED <<busy, asleep, poolCallVars, envVars>>
      /\ \/ idle' = <<>> /\ opened' = opened - Len(idle)
         \/ idle' = idle /\ opened' = opened
  BY DEF SetConnectionPoolMax
<1>2. resized' = TRUE
  BY DEF SetConnectionPoolMax
<1>3. ConnPoolTypeOK'
  <2>1. idle' \in Seq(Conns)
    <3>1. CASE idle' = <<>>
      BY <3>1
    <3>2. CASE idle' = idle
      BY <3>2
    <3> QED
      BY <1>1, <3>1, <3>2
  <2>2. opened' \in Int
    BY <1>1 DEF ConnPoolTypeOK
  <2> QED
    BY <1>1, <1>2, <2>1, <2>2 DEF ConnPoolTypeOK, poolCallVars, envVars
<1>4. BusyExact'
  BY <1>1 DEF BusyExact, poolCallVars
<1>5. OpenExact' /\ WithinCapacity'
  <2>1. /\ busy' = busy /\ busy \in Nat /\ Len(idle) \in Nat /\ MaxConns \in Nat
        /\ opened = Len(idle) + busy /\ Len(idle) + busy <= MaxConns
    BY <1>1 DEF OpenExact, WithinCapacity
  <2> QED
    BY <1>1, <2>1 DEF OpenExact, WithinCapacity
<1>6. Exclusive'
  BY <1>1 DEF Exclusive, poolCallVars
<1>7. HoldsConn' /\ SleepersAcquire'
  BY <1>1 DEF HoldsConn, SleepersAcquire, poolCallVars
<1>8. SameLimit' /\ NoLostSlot'
  BY <1>2 DEF SameLimit, NoLostSlot
<1> QED
  BY <1>3, <1>4, <1>5, <1>6, <1>7, <1>8 DEF ConnPoolIInv, LeaseInv

LEMMA ServerStepInv ==
  ASSUME ConnPoolIInv, ServerStops \/ ServerStarts \/ UNCHANGED connPoolVars
  PROVE  ConnPoolIInv'
<1> USE PoolFacts
<1>1. UNCHANGED <<sizeVars, poolVars, poolCallVars>>
  BY DEF ServerStops, ServerStarts, connPoolVars
<1>2. ConnPoolTypeOK'
  <2>1. alive' \in SUBSET Conns
    BY DEF ConnPoolTypeOK, ServerStops, ServerStarts, connPoolVars, envVars
  <2>2. up' \in BOOLEAN
    BY DEF ConnPoolTypeOK, ServerStops, ServerStarts, connPoolVars, envVars
  <2> QED
    BY <1>1, <2>1, <2>2 DEF ConnPoolTypeOK, sizeVars, poolVars, poolCallVars
<1>3. BusyExact' /\ OpenExact' /\ WithinCapacity' /\ Exclusive'
  BY <1>1 DEF BusyExact, OpenExact, WithinCapacity, Exclusive, poolVars, poolCallVars
<1>4. HoldsConn' /\ SleepersAcquire' /\ SameLimit' /\ NoLostSlot'
  BY <1>1 DEF HoldsConn, SleepersAcquire, SameLimit, NoLostSlot, sizeVars, poolVars, poolCallVars
<1> QED
  BY <1>2, <1>3, <1>4 DEF ConnPoolIInv, LeaseInv

LEMMA ConnPoolStepInv == ConnPoolIInv /\ [ConnPoolNext]_connPoolVars => ConnPoolIInv'
<1> SUFFICES ASSUME ConnPoolIInv, [ConnPoolNext]_connPoolVars PROVE ConnPoolIInv'
  OBVIOUS
<1>1. ASSUME NEW c \in Callers, PooledCall(c) PROVE ConnPoolIInv'
  <2>1. CASE Begin(c)
    BY <2>1, BeginInv
  <2>2. CASE Acquire(c) \/ AcquireAtDeadline(c)
    BY <2>2, LeaseIdleInv, LeaseCreateInv, ExhaustedInv DEF Acquire, AcquireAtDeadline
  <2>3. CASE OpenConn(c)
    BY <2>3, OpenConnInv
  <2>4. CASE OpenFails(c) \/ Exchange(c)
    BY <2>4, LeaseKeptInv
  <2>5. CASE CancelCreate(c)
    BY <2>5, CancelCreateInv
  <2>6. CASE Release(c)
    BY <2>6, ReleaseInv
  <2>7. CASE Discard(c)
    BY <2>7, DiscardInv
  <2> QED
    BY <1>1, <2>1, <2>2, <2>3, <2>4, <2>5, <2>6, <2>7 DEF PooledCall
<1>2. ASSUME NEW n \in Sizes, SetConnectionPoolMax(n) PROVE ConnPoolIInv'
  BY <1>2, ResizeInv
<1>3. CASE ServerStops \/ ServerStarts \/ UNCHANGED connPoolVars
  BY <1>3, ServerStepInv
<1> QED
  BY <1>1, <1>2, <1>3 DEF ConnPoolNext

THEOREM PoolInvariant == ConnPoolSpec => []ConnPoolIInv
<1> QED
  BY ConnPoolInitInv, ConnPoolStepInv, PTL DEF ConnPoolSpec

\* The counters of the pool tell what is leased and what is open, the pool
\* never exceeds the largest size it was given, and no connection serves two
\* calls: through failed opens, dead peers, deadlines and changes of the size.
\* And release(), discard() and cancel_create() notify one sleeper: that is
\* enough as long as the size of the pool is not changed.
THEOREM PoolLeases == ConnPoolSpec => []LeasesInv
<1>1. ConnPoolIInv => LeasesInv
  BY DEF ConnPoolIInv, LeasesInv
<1> QED
  BY <1>1, PoolInvariant, PTL
=============================================================================
