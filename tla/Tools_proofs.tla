---------------------------- MODULE Tools_proofs ----------------------------
(***************************************************************************)
(* Proofs about the tools of the library that threads share: the blocking  *)
(* queue, the thread pool, the object pool, the circuit breaker, the       *)
(* source of identifiers, the monitors and the once flag, the scheduler's  *)
(* map, the timer wheel, the instruments, the LRU cache and polling.  Each *)
(* part stands for itself and uses nothing of the others but the           *)
(* assumptions on its own constants.                                       *)
(***************************************************************************)
EXTENDS Monitors, ThreadPool, ObjectPool, CircuitBreaker, UuidV7, AsyncScheduler, TimerWheel,
        Telemetry, Helpers, SequenceTheorems, FiniteSetTheorems, TLAPS

-----------------------------------------------------------------------------
\* What RemoveAt leaves of a sequence, and where it stands.
LEMMA RemoveAtProperties ==
  ASSUME NEW S, NEW seq \in Seq(S), NEW k \in 1..Len(seq)
  PROVE  /\ RemoveAt(seq, k) \in Seq(S) /\ Len(RemoveAt(seq, k)) = Len(seq) - 1
         /\ \A i \in 1..(Len(seq) - 1) :
              RemoveAt(seq, k)[i] = seq[IF i < k THEN i ELSE i + 1]
<1> DEFINE front == SubSeq(seq, 1, k - 1)
           back == SubSeq(seq, k + 1, Len(seq))
           new == RemoveAt(seq, k)
<1>1. seq \in Seq(S) /\ Len(seq) \in Nat /\ DOMAIN seq = 1..Len(seq) /\ k \in 1..Len(seq)
  BY LenProperties
<1>2. \A i \in 1..Len(seq) : seq[i] \in S
  BY <1>1, ElementOfSeq
<1>3. /\ front \in Seq(S) /\ Len(front) = k - 1
      /\ \A i \in 1..(k - 1) : front[i] = seq[i]
  <2>1. \A i \in 1..(k - 1) : seq[i] \in S
    BY <1>1, <1>2
  <2>2. 1 \in Int /\ k - 1 \in Int
    BY <1>1
  <2>3. /\ front \in Seq(S) /\ Len(front) = IF 1 <= k - 1 THEN (k - 1) - 1 + 1 ELSE 0
        /\ \A i \in 1..((k - 1) - 1 + 1) : front[i] = seq[1 + i - 1]
    BY ONLY <2>1, <2>2, SubSeqProperties
  <2> QED
    BY <1>1, <2>3
<1>4. /\ back \in Seq(S) /\ Len(back) = Len(seq) - k
      /\ \A i \in 1..(Len(seq) - k) : back[i] = seq[i + k]
  <2>1. \A i \in (k + 1)..Len(seq) : seq[i] \in S
    BY <1>1, <1>2
  <2>2. k + 1 \in Int /\ Len(seq) \in Int
    BY <1>1
  <2>3. /\ back \in Seq(S) /\ Len(back) = IF k + 1 <= Len(seq) THEN Len(seq) - (k + 1) + 1 ELSE 0
        /\ \A i \in 1..(Len(seq) - (k + 1) + 1) : back[i] = seq[(k + 1) + i - 1]
    BY ONLY <2>1, <2>2, SubSeqProperties
  <2> HIDE DEF back
  <2>4. Len(back) = Len(seq) - k
    <3>1. Len(back) = IF k + 1 <= Len(seq) THEN Len(seq) - (k + 1) + 1 ELSE 0
      BY <2>3
    <3>2. Len(seq) \in Nat /\ k \in 1..Len(seq)
      BY <1>1
    <3> QED
      BY ONLY <3>1, <3>2
  <2>5. ASSUME NEW i \in 1..(Len(seq) - k) PROVE back[i] = seq[i + k]
    <3>1. i \in 1..(Len(seq) - (k + 1) + 1) /\ (k + 1) + i - 1 = i + k
      BY <1>1
    <3> QED
      BY ONLY <2>3, <3>1
  <2> QED
    BY <2>3, <2>4, <2>5
<1>5. new = front \o back
  BY DEF RemoveAt
<1> HIDE DEF front, back, new
<1> DEFINE old(i) == IF i < k THEN i ELSE i + 1
<1>6. /\ new \in Seq(S) /\ Len(new) = Len(seq) - 1
      /\ \A i \in 1..(Len(seq) - 1) : new[i] = seq[old(i)]
  <2>1. /\ new \in Seq(S) /\ Len(new) = (k - 1) + (Len(seq) - k)
        /\ \A i \in 1..((k - 1) + (Len(seq) - k)) :
             new[i] = IF i <= k - 1 THEN front[i] ELSE back[i - (k - 1)]
    <3>1. /\ new \in Seq(S) /\ Len(new) = Len(front) + Len(back)
          /\ \A i \in 1..(Len(front) + Len(back)) :
               new[i] = IF i <= Len(front) THEN front[i] ELSE back[i - Len(front)]
      BY ONLY <1>3, <1>4, <1>5, ConcatProperties
    <3> QED
      BY ONLY <1>3, <1>4, <3>1
  <2>2. ASSUME NEW i \in 1..(Len(seq) - 1) PROVE new[i] = seq[old(i)]
    <3>1. i \in 1..((k - 1) + (Len(seq) - k))
      BY <1>1
    <3>2. CASE i < k
      BY <1>1, <1>3, <2>1, <3>1, <3>2
    <3>3. CASE ~(i < k)
      <4>1. i - (k - 1) \in 1..(Len(seq) - k) /\ (i - (k - 1)) + k = i + 1 /\ ~(i <= k - 1)
        BY <1>1, <3>3
      <4> QED
        BY <1>4, <2>1, <3>1, <3>3, <4>1
    <3> QED
      BY <3>2, <3>3
  <2>3. Len(new) = Len(seq) - 1
    BY <1>1, <2>1
  <2> QED
    BY <2>1, <2>2, <2>3
<1> QED
  BY <1>6 DEF new

-----------------------------------------------------------------------------
(***************************************************************************)
(* For any producers, consumers and capacity: the queue hands over every   *)
(* item once and in order, and neither condition variable loses a wake-up. *)
(* The three invariants are independent of each other; each needs only the *)
(* types.                                                                  *)
(***************************************************************************)

USE QueueAssumption DEF QueueAssumption

QueueType ==
  /\ queue \in Seq(Nat) /\ pushed \in Nat /\ popped \in Nat
  /\ at \in [QueueThreads -> {"out", "asleep", "awake"}]

LEMMA QueueTypeInit == QueueInit => QueueType
BY DEF QueueInit, QueueType

LEMMA NotifyType ==
  ASSUME QueueType, NEW t \in QueueThreads, NEW group \in {Producers, Consumers},
         NotifyOne(t, group)
  PROVE  at' \in [QueueThreads -> {"out", "asleep", "awake"}]
BY DEF QueueType, NotifyOne

LEMMA QueueTypeStep == QueueType /\ [QueueNext]_queueVars => QueueType'
<1> SUFFICES ASSUME QueueType, [QueueNext]_queueVars PROVE QueueType'
  OBVIOUS
<1>1. CASE UNCHANGED queueVars
  BY <1>1 DEF QueueType, queueVars
<1>2. ASSUME NEW p \in Producers, Push(p) PROVE QueueType'
  <2>1. p \in QueueThreads /\ NotifyOne(p, Consumers)
    BY <1>2 DEF Push, QueueThreads
  <2>2. at' \in [QueueThreads -> {"out", "asleep", "awake"}]
    BY <2>1, NotifyType
  <2>3. pushed' \in Nat /\ queue' \in Seq(Nat) /\ popped' = popped
    BY <1>2 DEF Push, QueueType
  <2> QED
    BY <2>2, <2>3 DEF QueueType
<1>3. ASSUME NEW c \in Consumers, PopFront(c) PROVE QueueType'
  <2>1. c \in QueueThreads /\ NotifyOne(c, Producers)
    BY <1>3 DEF PopFront, QueueThreads
  <2>2. at' \in [QueueThreads -> {"out", "asleep", "awake"}]
    BY <2>1, NotifyType
  <2>3. pushed' \in Nat /\ queue' \in Seq(Nat) /\ popped' \in Nat
    BY <1>3 DEF PopFront, QueueType
  <2> QED
    BY <2>2, <2>3 DEF QueueType
<1>4. ASSUME NEW t \in QueueThreads, WaitInQueue(t, MayPush) \/ WaitInQueue(t, MayPop) PROVE QueueType'
  BY <1>4 DEF WaitInQueue, QueueType
<1>5. ASSUME NEW t \in QueueThreads, LeaveQueue(t, MayPush) \/ LeaveQueue(t, MayPop) PROVE QueueType'
  BY <1>5 DEF LeaveQueue, QueueType
<1>6. ASSUME NEW c \in Consumers, TimeOutInQueue(c) PROVE QueueType'
  <2>1. CASE PopFront(c)
    BY <1>3, <2>1
  <2>2. CASE ~PopFront(c)
    BY <1>6, <2>2 DEF TimeOutInQueue, QueueType, QueueThreads
  <2> QED
    BY <2>1, <2>2
<1>7. CASE Close \/ CloseNotify
  BY <1>7 DEF Close, CloseNotify, QueueType
<1> QED
  BY <1>1, <1>2, <1>3, <1>4, <1>5, <1>6, <1>7
  DEF QueueNext, Producer, Consumer, Pop, QueueThreads

-----------------------------------------------------------------------------
LEMMA InOrderInit == QueueInit => InOrder
BY DEF QueueInit, InOrder

LEMMA InOrderStep == QueueType /\ InOrder /\ [QueueNext]_queueVars => InOrder'
<1> SUFFICES ASSUME QueueType, InOrder, [QueueNext]_queueVars PROVE InOrder'
  OBVIOUS
<1>1. ASSUME UNCHANGED <<queue, pushed, popped>> PROVE InOrder'
  BY <1>1 DEF InOrder
<1>2. ASSUME NEW p \in Producers, Push(p) PROVE InOrder'
  <2>1. queue' = Append(queue, pushed + 1) /\ pushed' = pushed + 1 /\ popped' = popped
    BY <1>2 DEF Push
  <2>2. /\ queue \in Seq(Nat) /\ pushed + 1 \in Nat
        /\ pushed = popped + Len(queue) /\ pushed \in Nat /\ popped \in Nat
    BY DEF QueueType, InOrder
  <2>3. Len(queue') = Len(queue) + 1
    BY <2>1, <2>2
  <2>i. \A i \in 1..Len(queue) : queue[i] = popped + i
    BY <2>2 DEF InOrder
  <2>4. ASSUME NEW i \in 1..Len(queue) + 1 PROVE queue'[i] = popped' + i
    <3>1. CASE i = Len(queue) + 1
      BY <2>1, <2>2, <3>1
    <3>2. CASE i \in 1..Len(queue)
      <4>1. queue'[i] = queue[i]
        BY <2>1, <2>2, <3>2
      <4> QED
        BY <2>1, <2>i, <3>2, <4>1
    <3> QED
      BY <2>2, <3>1, <3>2
  <2>5. DOMAIN queue' = 1..Len(queue) + 1
    BY <2>1, <2>2
  <2> QED
    BY <2>1, <2>2, <2>3, <2>4, <2>5 DEF InOrder
<1>3. ASSUME NEW c \in Consumers, PopFront(c) PROVE InOrder'
  <2>1. queue # <<>> /\ queue' = Tail(queue) /\ popped' = Head(queue) /\ pushed' = pushed
    BY <1>3 DEF PopFront
  <2>2. queue \in Seq(Nat) /\ pushed \in Nat /\ popped \in Nat
    BY DEF QueueType
  <2>3. Len(queue') = Len(queue) - 1 /\ Len(queue) \in Nat \ {0}
    BY <2>1, <2>2
  <2>4. popped' = popped + 1
    BY <2>1, <2>2, <2>3 DEF InOrder
  <2>5. \A i \in 1..Len(queue') : queue'[i] = queue[i + 1]
    BY <2>1, <2>2, <2>3
  <2>6. ASSUME NEW i \in DOMAIN queue' PROVE queue'[i] = popped' + i
    <3>1. i \in 1..Len(queue') /\ i + 1 \in 1..Len(queue)
      BY <2>1, <2>2, <2>3
    <3>2. queue[i + 1] = popped + (i + 1)
      BY <2>2, <3>1 DEF InOrder
    <3> QED
      BY <2>2, <2>4, <2>5, <3>1, <3>2
  <2> QED
    BY <2>1, <2>2, <2>3, <2>4, <2>6 DEF InOrder
<1>4. ASSUME NEW c \in Consumers, TimeOutInQueue(c), ~PopFront(c) PROVE InOrder'
  BY <1>1, <1>4 DEF TimeOutInQueue
<1>5. ASSUME NEW t \in QueueThreads, \/ WaitInQueue(t, MayPush) \/ WaitInQueue(t, MayPop)
                                \/ LeaveQueue(t, MayPush) \/ LeaveQueue(t, MayPop)
      PROVE InOrder'
  BY <1>1, <1>5 DEF WaitInQueue, LeaveQueue
<1>6. CASE Close \/ CloseNotify \/ UNCHANGED queueVars
  BY <1>1, <1>6 DEF Close, CloseNotify, queueVars
<1> QED
  BY <1>2, <1>3, <1>4, <1>5, <1>6 DEF QueueNext, Producer, Consumer, Pop, QueueThreads

\* Every item leaves the queue once, in the order of entry.
THEOREM QueueInOrder == QueueSpec => []InOrder
<1> QED
  BY QueueTypeInit, QueueTypeStep, InOrderInit, InOrderStep, PTL DEF QueueSpec

-----------------------------------------------------------------------------
Awake(group) == Count(group, at, "awake")

LEMMA AwakeType ==
  ASSUME NEW group \in {Producers, Consumers}
  PROVE  Awake(group) \in Nat /\ Awake(group)' \in Nat
<1>1. IsFiniteSet(group)
  OBVIOUS
<1> QED
  BY <1>1, CountType DEF Awake

\* A group nobody of which moves.
LEMMA Unaffected ==
  ASSUME NEW group, \A x \in group : at'[x] = at[x]
  PROVE  Awake(group)' = Awake(group) /\ QueueSleepers(group)' = QueueSleepers(group)
<1>1. \A s : In(group, at', s) = In(group, at, s)
  BY DEF In
<1> QED
  BY <1>1 DEF Awake, QueueSleepers, Count

\* A thread of another group wakes a sleeper of this one, if there is one.
LEMMA NotifyWakes ==
  ASSUME QueueType, NEW group \in {Producers, Consumers},
         NEW t \in QueueThreads \ group, NotifyOne(t, group)
  PROVE  \/ QueueSleepers(group)' = {}
         \/ QueueSleepers(group) # {} /\ Awake(group)' = Awake(group) + 1
<1>1. CASE QueueSleepers(group) = {} /\ at' = [at EXCEPT ![t] = "out"]
  <2>1. \A x \in group : at'[x] = at[x]
    BY <1>1 DEF QueueType, QueueThreads
  <2> QED
    BY <1>1, <2>1, Unaffected
<1>2. ASSUME NEW s \in QueueSleepers(group), at' = [at EXCEPT ![t] = "out", ![s] = "awake"]
      PROVE  QueueSleepers(group) # {} /\ Awake(group)' = Awake(group) + 1
  <2>1. s \in group /\ at[s] = "asleep"
    BY <1>2 DEF QueueSleepers, In
  <2>2. /\ at'[s] = "awake"
        /\ \A x \in group : x # s => at'[x] = at[x]
    BY <1>2, <2>1 DEF QueueType, QueueThreads
  <2>3. IsFiniteSet(group)
    OBVIOUS
  <2>4. Count(group, at', "awake") = Count(group, at, "awake") + 1
    BY <2>1, <2>2, <2>3, CountEnter
  <2> QED
    BY <1>2, <2>4 DEF Awake
<1> QED
  BY <1>1, <1>2 DEF NotifyOne

\* A thread of this group leaves and wakes one of the other.
LEMMA NotifyLeaves ==
  ASSUME QueueType, NEW group \in {Producers, Consumers},
         NEW other \in {Producers, Consumers} \ {group},
         NEW t \in group, NotifyOne(t, other)
  PROVE  Awake(group)' >= Awake(group) - 1 /\ QueueSleepers(group)' \subseteq QueueSleepers(group)
<1>1. /\ at'[t] = "out"
      /\ \A x \in group : x # t => at'[x] = at[x]
  BY DEF NotifyOne, QueueSleepers, In, QueueType, QueueThreads
<1>2. IsFiniteSet(group)
  OBVIOUS
<1>3. at'[t] # "awake"
  BY <1>1
<1>4. Count(group, at, "awake") \in Nat
  BY <1>2, CountType
<1>5. Count(group, at', "awake") >= Count(group, at, "awake") - 1
  <2>1. CASE at[t] = "awake"
    <3>1. Count(group, at', "awake") = Count(group, at, "awake") - 1
      BY <1>1, <1>2, <1>3, <2>1, CountLeave
    <3> QED
      BY <1>4, <3>1
  <2>2. CASE at[t] # "awake"
    <3>1. \A x \in group : (at'[x] = "awake") <=> (at[x] = "awake")
      BY <1>1, <1>3, <2>2
    <3>2. In(group, at', "awake") = In(group, at, "awake")
      BY <3>1 DEF In
    <3>3. Count(group, at', "awake") = Count(group, at, "awake")
      BY <3>2 DEF Count
    <3> QED
      BY <1>4, <3>3
  <2> QED
    BY <2>1, <2>2
<1> QED
  BY <1>1, <1>5 DEF QueueSleepers, In, Awake

NobodyStranded == NoStrandedConsumer /\ NoStrandedProducer

LEMMA NobodyStrandedStep == QueueType /\ NobodyStranded /\ [QueueNext]_queueVars => NobodyStranded'
<1> SUFFICES ASSUME QueueType, NobodyStranded, [QueueNext]_queueVars PROVE NobodyStranded'
  OBVIOUS
<1>n. /\ Awake(Consumers) \in Nat /\ Awake(Consumers)' \in Nat
      /\ Awake(Producers) \in Nat /\ Awake(Producers)' \in Nat
      /\ queue \in Seq(Nat) /\ Len(queue) \in Nat
  BY AwakeType DEF QueueType
<1>c. NoStrandedConsumer <=>
        ((QueueSleepers(Consumers) # {} /\ ~closed) => Len(queue) <= Awake(Consumers))
  BY DEF NoStrandedConsumer, Awake
<1>p. NoStrandedProducer <=>
        ((QueueSleepers(Producers) # {} /\ Capacity > 0 /\ ~closed) =>
           Capacity - Len(queue) <= Awake(Producers))
  BY DEF NoStrandedProducer, Awake
<1>cp. NoStrandedConsumer' <=>
        ((QueueSleepers(Consumers)' # {} /\ ~closed') => Len(queue') <= Awake(Consumers)')
  BY DEF NoStrandedConsumer, Awake
<1>pp. NoStrandedProducer' <=>
        ((QueueSleepers(Producers)' # {} /\ Capacity > 0 /\ ~closed') =>
           Capacity - Len(queue') <= Awake(Producers)')
  BY DEF NoStrandedProducer, Awake
<1>0. NoStrandedConsumer /\ NoStrandedProducer
  BY DEF NobodyStranded
<1>1. CASE UNCHANGED queueVars
  <2>1. queue' = queue /\ closed' = closed /\ at' = at
    BY <1>1 DEF queueVars
  <2>2. /\ Awake(Consumers)' = Awake(Consumers) /\ QueueSleepers(Consumers)' = QueueSleepers(Consumers)
        /\ Awake(Producers)' = Awake(Producers) /\ QueueSleepers(Producers)' = QueueSleepers(Producers)
    BY <2>1, Unaffected
  <2> QED
    BY <1>0, <1>c, <1>cp, <1>p, <1>pp, <2>1, <2>2 DEF NobodyStranded
<1>2. ASSUME NEW p \in Producers, Push(p) PROVE NobodyStranded'
  <2>1. NotifyOne(p, Consumers) /\ p \in QueueThreads \ Consumers
    BY <1>2 DEF Push, QueueThreads
  <2>2. Len(queue') = Len(queue) + 1 /\ ~closed /\ ~closed'
    BY <1>2, <1>n DEF Push, QueueType
  <2>3. \/ QueueSleepers(Consumers)' = {}
        \/ QueueSleepers(Consumers) # {} /\ Awake(Consumers)' = Awake(Consumers) + 1
    BY <2>1, NotifyWakes
  <2>4. NoStrandedConsumer'
    BY <1>0, <1>n, <1>c, <1>cp, <2>2, <2>3
  <2>5. /\ Awake(Producers)' >= Awake(Producers) - 1
        /\ QueueSleepers(Producers)' \subseteq QueueSleepers(Producers)
    <3>1. Producers # Consumers
      BY <1>2
    <3> QED
      BY <1>2, <2>1, <3>1, NotifyLeaves
  <2>6. NoStrandedProducer'
    BY <1>0, <1>n, <1>p, <1>pp, <2>2, <2>5
  <2> QED
    BY <2>4, <2>6 DEF NobodyStranded
<1>3. ASSUME NEW c \in Consumers, PopFront(c) PROVE NobodyStranded'
  <2>1. NotifyOne(c, Producers) /\ c \in QueueThreads \ Producers
    BY <1>3 DEF PopFront, QueueThreads
  <2>2. Len(queue') = Len(queue) - 1 /\ closed' = closed
    BY <1>3, <1>n DEF PopFront
  <2>3. \/ QueueSleepers(Producers)' = {}
        \/ QueueSleepers(Producers) # {} /\ Awake(Producers)' = Awake(Producers) + 1
    BY <2>1, NotifyWakes
  <2>4. NoStrandedProducer'
    BY <1>0, <1>n, <1>p, <1>pp, <2>2, <2>3
  <2>5. /\ Awake(Consumers)' >= Awake(Consumers) - 1
        /\ QueueSleepers(Consumers)' \subseteq QueueSleepers(Consumers)
    <3>1. Producers # Consumers
      BY <1>3
    <3> QED
      BY <1>3, <2>1, <3>1, NotifyLeaves
  <2>6. NoStrandedConsumer'
    BY <1>0, <1>n, <1>c, <1>cp, <2>2, <2>5
  <2> QED
    BY <2>4, <2>6 DEF NobodyStranded
<1>4. ASSUME NEW p \in Producers, WaitInQueue(p, MayPush) PROVE NobodyStranded'
  <2>1. \A x \in Consumers : at'[x] = at[x]
    BY <1>4 DEF WaitInQueue, QueueType, QueueThreads
  <2>2. NoStrandedConsumer'
    BY <1>0, <1>4, <1>c, <1>cp, <2>1, Unaffected DEF WaitInQueue
  <2>3. Capacity > 0 => Capacity - Len(queue) <= 0
    BY <1>4, <1>n DEF WaitInQueue, MayPush
  <2>4. queue' = queue
    BY <1>4 DEF WaitInQueue
  <2>5. NoStrandedProducer'
    BY <1>n, <1>pp, <2>3, <2>4
  <2> QED
    BY <2>2, <2>5 DEF NobodyStranded
<1>5. ASSUME NEW c \in Consumers, NEW q, at' = [at EXCEPT ![c] = q],
             queue = <<>>, UNCHANGED <<queue, closed>>
      PROVE NobodyStranded'
  <2>1. \A x \in Producers : at'[x] = at[x]
    BY <1>5 DEF QueueType, QueueThreads
  <2>2. NoStrandedProducer'
    BY <1>0, <1>5, <1>p, <1>pp, <2>1, Unaffected
  <2>3. Len(queue') = 0
    BY <1>5
  <2>4. NoStrandedConsumer'
    BY <1>n, <1>cp, <2>3
  <2> QED
    BY <2>2, <2>4 DEF NobodyStranded
<1>6. ASSUME NEW c \in Consumers, WaitInQueue(c, MayPop) \/ TimeOutInQueue(c) PROVE NobodyStranded'
  BY <1>3, <1>5, <1>6 DEF WaitInQueue, MayPop, TimeOutInQueue
<1>7. ASSUME closed' PROVE NobodyStranded'
  BY <1>7, <1>cp, <1>pp DEF NobodyStranded
<1>8. ASSUME NEW t \in QueueThreads, LeaveQueue(t, MayPush) \/ LeaveQueue(t, MayPop) PROVE NobodyStranded'
  BY <1>7, <1>8 DEF LeaveQueue
<1>9. CASE Close \/ CloseNotify
  BY <1>7, <1>9 DEF Close, CloseNotify
<1> QED
  BY <1>1, <1>2, <1>3, <1>4, <1>6, <1>8, <1>9
  DEF QueueNext, Producer, Consumer, Pop, QueueThreads

LEMMA NobodyStrandedInit == QueueInit => NobodyStranded
BY DEF QueueInit, NobodyStranded, NoStrandedConsumer, NoStrandedProducer, QueueSleepers, In, QueueThreads

\* Neither not_empty_ nor not_full_ loses a wake-up.
THEOREM QueueNoStranded == QueueSpec => [](NoStrandedConsumer /\ NoStrandedProducer)
<1>1. NobodyStranded <=> NoStrandedConsumer /\ NoStrandedProducer
  BY DEF NobodyStranded
<1> QED
  BY <1>1, QueueTypeInit, QueueTypeStep, NobodyStrandedInit, NobodyStrandedStep, PTL DEF QueueSpec

\* Order and wake-ups together: what the queue promises holds in every state.
THEOREM QueueInvariant == QueueSpec => []QueueInv
<1>1. InOrder /\ (NoStrandedConsumer /\ NoStrandedProducer) => QueueInv
  BY DEF QueueInv
<1> QED
  BY <1>1, QueueInOrder, QueueNoStranded, PTL

HIDE QueueAssumption DEF QueueAssumption

-----------------------------------------------------------------------------
(***************************************************************************)
(* The thread pool, for any workers, clients and number of tasks: the      *)
(* counter of busy workers is exact, the tasks that left the queue have    *)
(* run or run, and so wait_idle() returns only when all of them have run.  *)
(***************************************************************************)

USE ThreadPoolAssumption DEF ThreadPoolAssumption

\* PoolTypeOK but for the bound on busy, which rests on its being a count.
WorkersType ==
  /\ tasks \in Seq(Tasks) /\ busy \in Nat /\ stop \in BOOLEAN
  /\ worker \in [Workers -> {"loop", "asleep", "runs", "gone"}]
  /\ task \in [Workers -> 0..MaxTasks]
  /\ client \in [Clients -> {"out", "asleep", "awake"}]
  /\ submitted \in 0..MaxTasks /\ done \subseteq Tasks

Looping == Count(Workers, worker, "loop")

BusyExact == busy = Count(Workers, worker, "runs")

\* The queue holds the last tasks submitted, in their order; the ones before
\* them have run or run.
Fetched == submitted - Len(tasks)

QueueInTurn == Fetched \in Nat /\ \A i \in 1..Len(tasks) : tasks[i] = Fetched + i

FetchedRun ==
  /\ done \subseteq 1..Fetched
  /\ \A w \in Workers : worker[w] = "runs" => task[w] \in 1..Fetched
  /\ \A t \in 1..Fetched : t \in done \/ \E w \in Workers : worker[w] = "runs" /\ task[w] = t

WorkersIInv ==
  WorkersType /\ BusyExact /\ QueueInTurn /\ FetchedRun /\ NoLostIdle /\ NoStrandedTask

\* What one step does to the queue, and to where the workers are.
LEMMA QueueStep ==
  ASSUME WorkersType, QueueInTurn, [PoolNext]_poolVars
  PROVE  \/ tasks' = tasks /\ submitted' = submitted
         \/ Submit /\ tasks' = Append(tasks, submitted + 1) /\ submitted' = submitted + 1
         \/ \E w \in Workers : TakeTask(w) /\ tasks # <<>> /\ tasks' = Tail(tasks) /\ submitted' = submitted
BY DEF PoolNext, Worker, Submit, Stop, SleepWorker, Leave, TakeTask, Finish, WaitIdle, ReturnIdle, poolVars

LEMMA QueueTypes ==
  ASSUME WorkersType, QueueInTurn, [PoolNext]_poolVars
  PROVE  /\ tasks' \in Seq(Tasks) /\ submitted' \in 0..MaxTasks /\ QueueInTurn'
         /\ Fetched' = IF \E w \in Workers : TakeTask(w) THEN Fetched + 1 ELSE Fetched
<1>t. /\ tasks \in Seq(Tasks) /\ submitted \in 0..MaxTasks /\ Len(tasks) \in Nat /\ Fetched \in Nat
  BY LenProperties DEF WorkersType, QueueInTurn
<1>1. CASE tasks' = tasks /\ submitted' = submitted
  <2>1. ~ \E w \in Workers : TakeTask(w)
    <3> SUFFICES ASSUME NEW w \in Workers, TakeTask(w) PROVE FALSE
      OBVIOUS
    <3>1. Len(Tail(tasks)) = Len(tasks) - 1
      BY <1>t, HeadTailProperties DEF TakeTask
    <3> QED
      BY <1>1, <1>t, <3>1 DEF TakeTask
  <2> QED
    BY <1>1, <1>t, <2>1 DEF QueueInTurn, Fetched
<1>2. CASE Submit /\ tasks' = Append(tasks, submitted + 1) /\ submitted' = submitted + 1
  <2>1. submitted + 1 \in Tasks
    BY <1>2, <1>t DEF Submit, Tasks
  <2>2. /\ tasks' \in Seq(Tasks) /\ Len(tasks') = Len(tasks) + 1
        /\ \A i \in 1..Len(tasks) : tasks'[i] = tasks[i]
        /\ tasks'[Len(tasks) + 1] = submitted + 1
    BY <1>2, <1>t, <2>1, AppendProperties
  <2>3. Fetched' = Fetched
    BY <1>2, <1>t, <2>2 DEF Fetched
  <2>4. \A i \in 1..Len(tasks') : tasks'[i] = Fetched' + i
    BY <1>t, <2>2, <2>3 DEF QueueInTurn, Fetched
  <2>5. ~ \E w \in Workers : TakeTask(w)
    BY <1>2, <1>t DEF TakeTask
  <2> QED
    BY <1>2, <1>t, <2>1, <2>2, <2>3, <2>4, <2>5 DEF QueueInTurn, Submit
<1>3. CASE \E w \in Workers : TakeTask(w) /\ tasks # <<>> /\ tasks' = Tail(tasks) /\ submitted' = submitted
  <2>1. /\ tasks' \in Seq(Tasks) /\ Len(tasks') = Len(tasks) - 1
        /\ \A i \in 1..Len(tasks') : tasks'[i] = tasks[i + 1]
    BY <1>3, <1>t, HeadTailProperties
  <2>2. Fetched' = Fetched + 1
    BY <1>3, <1>t, <2>1 DEF Fetched
  <2>3. \A i \in 1..Len(tasks') : tasks'[i] = Fetched' + i
    BY <1>t, <2>1, <2>2 DEF QueueInTurn
  <2> QED
    BY <1>3, <1>t, <2>1, <2>2, <2>3 DEF QueueInTurn
<1> QED
  BY <1>1, <1>2, <1>3, QueueStep

LEMMA WorkersTypeStep ==
  ASSUME WorkersType, BusyExact, QueueInTurn, FetchedRun, [PoolNext]_poolVars
  PROVE  WorkersType'
<1>1. tasks' \in Seq(Tasks) /\ submitted' \in 0..MaxTasks
  BY QueueTypes
<1> USE DEF WorkersType
<1>2. CASE Submit
  BY <1>1, <1>2 DEF Submit, WakeOne, Sleeping, In
<1>3. CASE Stop
  BY <1>1, <1>3 DEF Stop
<1>4. ASSUME NEW w \in Workers, SleepWorker(w) \/ Leave(w)
      PROVE  WorkersType'
  BY <1>1, <1>4 DEF SleepWorker, Leave
<1>5. ASSUME NEW w \in Workers, TakeTask(w)
      PROVE  WorkersType'
  <2>1. Head(tasks) \in 0..MaxTasks
    BY <1>5, HeadTailProperties DEF TakeTask, Tasks
  <2> QED
    BY <1>1, <1>5, <2>1 DEF TakeTask
<1>6. ASSUME NEW w \in Workers, Finish(w)
      PROVE  WorkersType'
  <2>1. task[w] \in Tasks
    <3>1. task[w] \in 1..Fetched /\ Fetched <= MaxTasks
      BY <1>6, LenProperties DEF FetchedRun, Finish, Fetched, QueueInTurn
    <3> QED
      BY <3>1 DEF Tasks, QueueInTurn
  <2>2. busy' \in Nat
    BY <1>6, CountPositive DEF Finish, BusyExact
  <2> QED
    BY <1>1, <1>6, <2>1, <2>2 DEF Finish, TellWaiters
<1>7. ASSUME NEW c \in Clients, WaitIdle(c) \/ ReturnIdle(c)
      PROVE  WorkersType'
  BY <1>1, <1>7 DEF WaitIdle, ReturnIdle
<1>8. CASE UNCHANGED poolVars
  BY <1>8 DEF poolVars
<1> QED
  BY <1>2, <1>3, <1>4, <1>5, <1>6, <1>7, <1>8 DEF PoolNext, Worker

LEMMA BusyStep ==
  ASSUME WorkersType, BusyExact, [PoolNext]_poolVars
  PROVE  BusyExact'
<1>1. CASE Submit \/ Stop
  <2>1. In(Workers, worker', "runs") = In(Workers, worker, "runs") /\ busy' = busy
    BY <1>1 DEF Submit, Stop, WakeOne, Sleeping, In, WorkersType
  <2> QED
    BY <2>1 DEF BusyExact, Count
<1>2. ASSUME NEW w \in Workers, Worker(w)
      PROVE  BusyExact'
  <2>1. CASE SleepWorker(w) \/ Leave(w)
    <3>1. In(Workers, worker', "runs") = In(Workers, worker, "runs") /\ busy' = busy
      BY <2>1 DEF SleepWorker, Leave, In, WorkersType
    <3> QED
      BY <3>1 DEF BusyExact, Count
  <2>2. CASE TakeTask(w)
    <3>1. /\ \A x \in Workers : x # w => worker'[x] = worker[x]
          /\ worker[w] # "runs" /\ worker'[w] = "runs" /\ busy' = busy + 1
      BY <2>2 DEF TakeTask, WorkersType
    <3>2. Count(Workers, worker', "runs") = Count(Workers, worker, "runs") + 1
      BY <3>1, CountEnter
    <3> QED
      BY <3>1, <3>2 DEF BusyExact
  <2>3. CASE Finish(w)
    <3>1. /\ \A x \in Workers : x # w => worker'[x] = worker[x]
          /\ worker[w] = "runs" /\ worker'[w] # "runs" /\ busy' = busy - 1
      BY <2>3 DEF Finish, WorkersType
    <3>2. Count(Workers, worker', "runs") = Count(Workers, worker, "runs") - 1
      BY <3>1, CountLeave
    <3> QED
      BY <3>1, <3>2 DEF BusyExact
  <2> QED
    BY <1>2, <2>1, <2>2, <2>3 DEF Worker
<1>3. CASE (\E c \in Clients : WaitIdle(c) \/ ReturnIdle(c)) \/ UNCHANGED poolVars
  BY <1>3 DEF WaitIdle, ReturnIdle, BusyExact, poolVars
<1> QED
  BY <1>1, <1>2, <1>3 DEF PoolNext

LEMMA FetchedStep ==
  ASSUME WorkersType, QueueInTurn, FetchedRun, [PoolNext]_poolVars
  PROVE  FetchedRun'
<1>t. Fetched \in Nat /\ Fetched' = IF \E w \in Workers : TakeTask(w) THEN Fetched + 1 ELSE Fetched
  BY QueueTypes DEF QueueInTurn
<1>1. ASSUME NEW w \in Workers, TakeTask(w)
      PROVE  FetchedRun'
  <2>1. tasks # <<>> /\ Head(tasks) = Fetched + 1
    <3>1. tasks # <<>> /\ Head(tasks) = tasks[1] /\ 1 \in 1..Len(tasks)
      BY <1>1, LenProperties, HeadTailProperties, EmptySeq DEF TakeTask, WorkersType
    <3> QED
      BY <3>1 DEF QueueInTurn
  <2>2. /\ Fetched' = Fetched + 1 /\ done' = done
        /\ worker[w] # "runs" /\ worker'[w] = "runs" /\ task'[w] = Fetched + 1
        /\ \A x \in Workers : x # w => worker'[x] = worker[x] /\ task'[x] = task[x]
    BY <1>t, <1>1, <2>1 DEF TakeTask, WorkersType
  <2>3. done' \subseteq 1..Fetched' /\ \A x \in Workers : worker'[x] = "runs" => task'[x] \in 1..Fetched'
    BY <1>t, <2>2 DEF FetchedRun
  <2>4. ASSUME NEW t \in 1..Fetched'
        PROVE  t \in done' \/ \E x \in Workers : worker'[x] = "runs" /\ task'[x] = t
    <3>1. CASE t = Fetched + 1
      BY <2>2, <3>1
    <3>2. CASE t \in 1..Fetched
      BY <2>2, <3>2 DEF FetchedRun
    <3> QED
      BY <1>t, <2>2, <3>1, <3>2
  <2> QED
    BY <2>3, <2>4 DEF FetchedRun
<1>2. ASSUME NEW w \in Workers, Finish(w)
      PROVE  FetchedRun'
  <2>1. Fetched' = Fetched
    BY <1>2 DEF Finish, Fetched
  <2>2. /\ done' = done \cup {task[w]} /\ worker[w] = "runs" /\ worker'[w] # "runs"
        /\ \A x \in Workers : x # w => worker'[x] = worker[x]
        /\ task' = task
    BY <1>2 DEF Finish, WorkersType
  <2>3. done' \subseteq 1..Fetched' /\ \A x \in Workers : worker'[x] = "runs" => task'[x] \in 1..Fetched'
    BY <2>1, <2>2 DEF FetchedRun
  <2>4. \A t \in 1..Fetched' : t \in done' \/ \E x \in Workers : worker'[x] = "runs" /\ task'[x] = t
    BY <2>1, <2>2 DEF FetchedRun
  <2> QED
    BY <2>3, <2>4 DEF FetchedRun
<1>3. ASSUME Fetched' = Fetched, UNCHANGED <<task, done>>,
             \A x \in Workers : worker'[x] = "runs" <=> worker[x] = "runs"
      PROVE  FetchedRun'
  BY <1>3 DEF FetchedRun
<1>4. CASE Submit \/ Stop
  <2>1. ~ \E w \in Workers : TakeTask(w)
    BY <1>4, QueueStep, QueueTypes, LenProperties DEF Submit, Stop, TakeTask, WorkersType
  <2>2. UNCHANGED <<task, done>> /\ \A x \in Workers : worker'[x] = "runs" <=> worker[x] = "runs"
    BY <1>4 DEF Submit, Stop, WakeOne, Sleeping, In, WorkersType
  <2> QED
    BY <1>t, <1>3, <2>1, <2>2
<1>5. ASSUME NEW w \in Workers, SleepWorker(w) \/ Leave(w)
      PROVE  FetchedRun'
  BY <1>3, <1>5 DEF SleepWorker, Leave, Fetched, WorkersType
<1>6. CASE (\E c \in Clients : WaitIdle(c) \/ ReturnIdle(c)) \/ UNCHANGED poolVars
  BY <1>3, <1>6 DEF WaitIdle, ReturnIdle, Fetched, poolVars
<1> QED
  BY <1>1, <1>2, <1>4, <1>5, <1>6 DEF PoolNext, Worker

LEMMA IdleStep ==
  ASSUME WorkersType, BusyExact, NoLostIdle, [PoolNext]_poolVars
  PROVE  NoLostIdle'
<1> USE DEF NoLostIdle, Idle
<1>1. CASE Submit
  <2>1. tasks' # <<>>
    BY <1>1, EmptySeq, LenProperties, AppendProperties DEF Submit, WorkersType
  <2> QED
    BY <2>1
<1>2. CASE Stop
  BY <1>2 DEF Stop
<1>3. ASSUME NEW w \in Workers, SleepWorker(w) \/ Leave(w)
      PROVE  NoLostIdle'
  BY <1>3 DEF SleepWorker, Leave
<1>4. ASSUME NEW w \in Workers, TakeTask(w)
      PROVE  NoLostIdle'
  BY <1>4 DEF TakeTask, WorkersType
<1>5. ASSUME NEW w \in Workers, Finish(w)
      PROVE  NoLostIdle'
  BY <1>5 DEF Finish, TellWaiters
<1>6. ASSUME NEW c \in Clients, WaitIdle(c) \/ ReturnIdle(c)
      PROVE  NoLostIdle'
  BY <1>6 DEF WaitIdle, ReturnIdle, WorkersType
<1>7. CASE UNCHANGED poolVars
  BY <1>7 DEF poolVars
<1> QED
  BY <1>1, <1>2, <1>3, <1>4, <1>5, <1>6, <1>7 DEF PoolNext, Worker

LEMMA StrandedStep ==
  ASSUME WorkersType, NoStrandedTask, [PoolNext]_poolVars
  PROVE  NoStrandedTask'
<1>t. /\ tasks \in Seq(Tasks) /\ Len(tasks) \in Nat /\ (tasks = <<>> => Len(tasks) = 0)
      /\ Looping \in Nat /\ Looping' \in Nat
  BY LenProperties, CountType DEF WorkersType, Looping
<1>n. /\ Sleeping # {} => Len(tasks) <= Looping
      /\ (Sleeping' # {} => Len(tasks') <= Looping') => NoStrandedTask'
  BY DEF NoStrandedTask, Looping
<1>1. CASE Submit
  <2>1. Len(tasks') = Len(tasks) + 1
    <3>1. submitted + 1 \in Tasks /\ tasks' = Append(tasks, submitted + 1)
      BY <1>1 DEF Submit, Tasks, WorkersType
    <3> QED
      BY <1>t, <3>1, AppendProperties
  <2>2. CASE Sleeping = {}
    BY <1>1, <1>n, <2>2 DEF Submit, WakeOne, Sleeping
  <2>3. CASE Sleeping # {}
    <3>1. PICK w \in Sleeping : worker' = [worker EXCEPT ![w] = "loop"]
      BY <1>1, <2>3 DEF Submit, WakeOne
    <3>2. /\ w \in Workers /\ worker[w] # "loop" /\ worker'[w] = "loop"
          /\ \A x \in Workers : x # w => worker'[x] = worker[x]
      BY <3>1 DEF Sleeping, In, WorkersType
    <3>3. Looping' = Looping + 1
      BY <3>2, CountEnter DEF Looping
    <3> QED
      BY <1>t, <1>n, <2>1, <2>3, <3>3
  <2> QED
    BY <2>2, <2>3
<1>2. CASE Stop
  <2>1. Sleeping' = {}
    BY <1>2 DEF Stop, Sleeping, In, WorkersType
  <2> QED
    BY <1>n, <2>1
<1>3. ASSUME NEW w \in Workers, SleepWorker(w) \/ Leave(w)
      PROVE  NoStrandedTask'
  <2>1. tasks' = <<>> /\ Len(tasks') = 0
    BY <1>t, <1>3 DEF SleepWorker, Leave, MayLeave
  <2> QED
    BY <1>t, <1>n, <2>1
<1>4. ASSUME NEW w \in Workers, TakeTask(w)
      PROVE  NoStrandedTask'
  <2>1. Len(tasks') = Len(tasks) - 1
    BY <1>t, <1>4, HeadTailProperties DEF TakeTask
  <2>2. /\ worker[w] = "loop" /\ worker'[w] = "runs"
        /\ \A x \in Workers : x # w => worker'[x] = worker[x]
    BY <1>4 DEF TakeTask, WorkersType
  <2>3. Looping' = Looping - 1
    BY <2>2, CountLeave DEF Looping
  <2>4. Sleeping' = Sleeping
    BY <2>2 DEF Sleeping, In
  <2> QED
    BY <1>t, <1>n, <2>1, <2>3, <2>4
<1>5. ASSUME NEW w \in Workers, Finish(w)
      PROVE  NoStrandedTask'
  <2>1. /\ worker[w] = "runs" /\ worker'[w] = "loop" /\ tasks' = tasks
        /\ \A x \in Workers : x # w => worker'[x] = worker[x]
    BY <1>5 DEF Finish, WorkersType
  <2>2. Looping' = Looping + 1
    BY <2>1, CountEnter DEF Looping
  <2>3. Sleeping' = Sleeping
    BY <2>1 DEF Sleeping, In
  <2> QED
    BY <1>t, <1>n, <2>1, <2>2, <2>3
<1>6. CASE (\E c \in Clients : WaitIdle(c) \/ ReturnIdle(c)) \/ UNCHANGED poolVars
  BY <1>6 DEF WaitIdle, ReturnIdle, poolVars, NoStrandedTask, Sleeping
<1> QED
  BY <1>1, <1>2, <1>3, <1>4, <1>5, <1>6 DEF PoolNext, Worker

LEMMA WorkersStart ==
  ASSUME PoolInit
  PROVE  WorkersIInv
<1> USE DEF PoolInit
<1>1. WorkersType
  <2>1. tasks \in Seq(Tasks)
    BY EmptySeq
  <2>2. /\ worker \in [Workers -> {"loop", "asleep", "runs", "gone"}]
        /\ task \in [Workers -> 0..MaxTasks]
        /\ client \in [Clients -> {"out", "asleep", "awake"}]
    OBVIOUS
  <2>3. busy \in Nat /\ submitted \in 0..MaxTasks
    OBVIOUS
  <2>4. stop \in BOOLEAN /\ done \subseteq Tasks
    OBVIOUS
  <2> HIDE DEF PoolInit
  <2> QED
    BY <2>1, <2>2, <2>3, <2>4 DEF WorkersType
<1>2. BusyExact
  BY CountZero DEF BusyExact
<1>3. QueueInTurn /\ FetchedRun
  BY EmptySeq DEF QueueInTurn, FetchedRun, Fetched
<1>4. NoLostIdle
  BY DEF NoLostIdle
<1>5. NoStrandedTask
  BY DEF NoStrandedTask, Sleeping, In
<1> QED
  BY <1>1, <1>2, <1>3, <1>4, <1>5 DEF WorkersIInv

LEMMA WorkersStep ==
  ASSUME WorkersIInv, [PoolNext]_poolVars
  PROVE  WorkersIInv'
BY WorkersTypeStep, BusyStep, QueueTypes, FetchedStep, IdleStep, StrandedStep DEF WorkersIInv

\* No more workers are busy than there are, and when the counters say idle all
\* that was submitted has run.
LEMMA WorkersMean ==
  ASSUME WorkersIInv
  PROVE  PoolTypeOK /\ PoolInv
<1> USE DEF WorkersIInv
<1>1. IsFiniteSet(Workers) /\ Cardinality(Workers) \in Nat
  BY FS_CardinalityType
<1>2. busy <= Cardinality(Workers)
  <2>1. In(Workers, worker, "runs") \in SUBSET Workers
    BY DEF In
  <2> QED
    BY <1>1, <2>1, FS_Subset DEF BusyExact, Count
<1>3. PoolTypeOK
  BY <1>1, <1>2 DEF WorkersType, PoolTypeOK
<1>4. IdleIsTrue
  <2> SUFFICES ASSUME Idle PROVE done = 1..submitted
    BY DEF IdleIsTrue
  <2>1. Len(tasks) = 0 /\ Fetched = submitted
    <3>1. Len(tasks) = 0
      BY EmptySeq DEF Idle, WorkersType
    <3> QED
      BY <3>1 DEF Fetched, WorkersType
  <2>2. \A w \in Workers : worker[w] # "runs"
    BY CountZero DEF Idle, BusyExact
  <2> QED
    BY <2>1, <2>2 DEF FetchedRun
<1> QED
  BY <1>3, <1>4 DEF PoolInv

\* wait_idle() never returns before every task has run to its end, nobody sleeps
\* in it while the pool is idle, and no task waits for a worker that sleeps.
THEOREM ThreadPoolInvariant == PoolSpec => [](PoolTypeOK /\ PoolInv)
BY WorkersStart, WorkersStep, WorkersMean, PTL DEF PoolSpec

HIDE ThreadPoolAssumption DEF ThreadPoolAssumption

-----------------------------------------------------------------------------
(***************************************************************************)
(* For any number of borrowers, any capacity and any number of prefilled   *)
(* objects, with a factory that may throw: no wake-up of the pool is lost, *)
(* its account is exact and it never holds more objects than it may.       *)
(***************************************************************************)

USE PoolAssumption DEF PoolAssumption

\* What the theorems need of TypeOK; its bound on idle_ rests on the accounts.
PoolType ==
  /\ idle \in Nat /\ created \in 0..MaxSize /\ failed \in Nat
  /\ borrower \in [Borrowers -> {"out", "asleep", "awake", "lease", "notify"}]

\* Every count is a natural number.
LEMMA NumberType == \A s : Number(s) \in Nat
BY CountType DEF Number

\* Only borrower b moves: what that does to a count.
LEMMA NumberMove ==
  ASSUME NEW b \in Borrowers, NEW s,
         \A x \in Borrowers : x # b => borrower'[x] = borrower[x]
  PROVE  Number(s)' = Number(s) + (IF borrower'[b] = s THEN 1 ELSE 0)
                                - (IF borrower[b] = s THEN 1 ELSE 0)
<1> DEFINE f == borrower
           g == borrower'
<1>1. \A x \in Borrowers : x # b => g[x] = f[x]
  OBVIOUS
<1>2. Number(s) = Count(Borrowers, f, s) /\ Number(s)' = Count(Borrowers, g, s)
  BY DEF Number
<1>3. IsFiniteSet(Borrowers)
  OBVIOUS
<1> HIDE DEF f, g
<1>4. Count(Borrowers, g, s) = Count(Borrowers, f, s) + (IF g[b] = s THEN 1 ELSE 0)
                                                      - (IF f[b] = s THEN 1 ELSE 0)
  <2> HIDE PoolAssumption DEF PoolAssumption
  <2> QED BY <1>1, <1>3, CountMove
<1> QED
  BY <1>2, <1>4 DEF f, g

LEMMA PoolTypeInit == ObjectInit => PoolType
BY DEF ObjectInit, PoolType, Filled

LEMMA PoolTypeStep == PoolType /\ [ObjectNext]_objectVars => PoolType'
<1> SUFFICES ASSUME PoolType, [ObjectNext]_objectVars PROVE PoolType'
  OBVIOUS
<1>1. CASE UNCHANGED objectVars
  BY <1>1 DEF PoolType, objectVars
<1>2. ASSUME NEW b \in Borrowers, TakeOne(b) \/ TakeThrows(b), MayTake PROVE PoolType'
  BY <1>2 DEF PoolType, TakeOne, TakeThrows, MayTake
<1>3. ASSUME NEW b \in Borrowers, Take(b) \/ TimeOut(b) PROVE PoolType'
  BY <1>2, <1>3 DEF PoolType, Take, TimeOut
<1>4. ASSUME NEW b \in Borrowers, Sleep(b) \/ GiveBackObject(b) \/ Notify(b) PROVE PoolType'
  BY <1>4 DEF PoolType, Sleep, GiveBackObject, Notify
<1> QED
  BY <1>1, <1>3, <1>4 DEF ObjectNext

\* A borrower that takes an object, or whose factory call throws, leaves at
\* most as many objects idle as there are wake-ups under way.
LEMMA TakeKeepsPromise ==
  ASSUME PoolType, NoStranded, NEW b \in Borrowers,
         TakeOne(b) \/ TakeThrows(b), borrower[b] \in {"out", "awake", "asleep"}
  PROVE  NoStranded'
<1>1. CASE TakeOne(b)
  <2>1. /\ Number("awake")' = Number("awake") - (IF borrower[b] = "awake" THEN 1 ELSE 0)
        /\ Number("notify")' = Number("notify")
    <3>1. borrower'[b] = "lease" /\ \A x \in Borrowers : x # b => borrower'[x] = borrower[x]
      BY <1>1 DEF TakeOne, PoolType
    <3>2. /\ Number("awake")' = Number("awake") + 0 - (IF borrower[b] = "awake" THEN 1 ELSE 0)
          /\ Number("notify")' = Number("notify") + 0 - 0
      BY <3>1, NumberMove
    <3> QED
      BY <3>2, NumberType
  <2>2. Sleepers' # {} => Sleepers # {}
    BY <1>1 DEF Sleepers, In, TakeOne, PoolType
  <2>3. idle' = IF idle > 0 THEN idle - 1 ELSE 0
    BY <1>1 DEF TakeOne
  <2>4. idle \in Nat /\ Number("awake")' \in Nat /\ Number("notify")' \in Nat
    BY NumberType, CountType DEF PoolType, Number
  <2> QED
    BY <2>1, <2>2, <2>3, <2>4, NumberType DEF NoStranded
<1>2. CASE TakeThrows(b)
  <2>1. idle' = 0
    BY <1>2 DEF TakeThrows
  <2>2. Number("awake")' \in Nat /\ Number("notify")' \in Nat
    BY CountType DEF Number
  <2> QED
    BY <2>1, <2>2 DEF NoStranded
<1> QED
  BY <1>1, <1>2

LEMMA NoStrandedStep == PoolType /\ NoStranded /\ [ObjectNext]_objectVars => NoStranded'
<1> SUFFICES ASSUME PoolType, NoStranded, [ObjectNext]_objectVars PROVE NoStranded'
  OBVIOUS
<1>n. Number("awake")' \in Nat /\ Number("notify")' \in Nat /\ idle \in Nat
  BY CountType DEF Number, PoolType
<1>1. CASE UNCHANGED objectVars
  BY <1>1 DEF NoStranded, Sleepers, Number, objectVars
<1>2. ASSUME NEW b \in Borrowers, Take(b) PROVE NoStranded'
  BY <1>2, TakeKeepsPromise DEF Take
<1>3. ASSUME NEW b \in Borrowers, Sleep(b) PROVE NoStranded'
  <2>1. idle' = 0
    BY <1>3, <1>n DEF Sleep, MayTake
  <2> QED
    BY <1>n, <2>1 DEF NoStranded
<1>4. ASSUME NEW b \in Borrowers, TimeOut(b) PROVE NoStranded'
  <2>1. CASE MayTake
    BY <1>4, <2>1, TakeKeepsPromise DEF TimeOut
  <2>2. CASE ~MayTake
    <3>1. idle' = 0
      BY <1>4, <1>n, <2>2 DEF TimeOut, MayTake
    <3> QED
      BY <1>n, <3>1 DEF NoStranded
  <2> QED
    BY <2>1, <2>2
<1>5. ASSUME NEW b \in Borrowers, GiveBackObject(b) PROVE NoStranded'
  <2>q. borrower[b] = "lease"
    BY <1>5 DEF GiveBackObject
  <2>1. borrower' = [borrower EXCEPT ![b] = "notify"] /\ idle' = idle + 1
    BY <1>5 DEF GiveBackObject
  <2>m. borrower'[b] = "notify" /\ \A x \in Borrowers : x # b => borrower'[x] = borrower[x]
    BY <2>1 DEF PoolType
  <2>2. /\ Number("awake")' = Number("awake") + 0 - 0
        /\ Number("notify")' = Number("notify") + 1 - 0
    BY <2>m, <2>q, NumberMove
  <2>3. Sleepers' # {} => Sleepers # {}
    BY <2>1 DEF Sleepers, In, PoolType
  <2> QED
    BY <1>n, <2>1, <2>2, <2>3, NumberType DEF NoStranded
<1>6. ASSUME NEW b \in Borrowers, Notify(b) PROVE NoStranded'
  <2>1. CASE Sleepers = {} /\ borrower' = [borrower EXCEPT ![b] = "out"]
    <3>1. Sleepers' = {}
      BY <2>1 DEF Sleepers, In, PoolType
    <3> QED
      BY <3>1 DEF NoStranded
  <2>2. ASSUME NEW s \in Sleepers, borrower' = [borrower EXCEPT ![b] = "out", ![s] = "awake"]
        PROVE  NoStranded'
    <3>1. s \in Borrowers /\ borrower[s] = "asleep" /\ borrower[b] = "notify" /\ s # b
      BY <1>6, <2>2 DEF Sleepers, In, Notify
    <3> DEFINE mid == [borrower EXCEPT ![b] = "out"]
    <3>2. /\ mid[b] = "out" /\ mid[s] = "asleep"
          /\ \A x \in Borrowers : x # b => mid[x] = borrower[x]
          /\ borrower'[s] = "awake"
          /\ \A x \in Borrowers : x # s => borrower'[x] = mid[x]
      BY <2>2, <3>1 DEF PoolType
    <3> HIDE DEF mid
    <3>3. Number("notify")' = Number("notify") - 1
      <4>1. Count(Borrowers, mid, "notify") = Number("notify") - 1
        BY <3>1, <3>2, CountLeave DEF Number
      <4>2. Number("notify")' = Count(Borrowers, mid, "notify")
        BY <3>1, <3>2, CountSame DEF Number
      <4> QED
        BY <4>1, <4>2
    <3>4. Number("awake")' = Number("awake") + 1
      <4>1. Count(Borrowers, mid, "awake") = Number("awake")
        BY <3>1, <3>2, CountSame DEF Number
      <4>2. Number("awake")' = Count(Borrowers, mid, "awake") + 1
        BY <3>1, <3>2, CountEnter DEF Number
      <4> QED
        BY <4>1, <4>2
    <3>5. idle' = idle /\ Sleepers # {}
      BY <1>6, <2>2 DEF Notify
    <3> QED
      BY <1>n, <3>3, <3>4, <3>5, NumberType DEF NoStranded
  <2> QED
    BY <1>6, <2>1, <2>2 DEF Notify
<1> QED
  BY <1>1, <1>2, <1>3, <1>4, <1>5, <1>6 DEF ObjectNext

LEMMA NoStrandedInit == ObjectInit => NoStranded
BY DEF ObjectInit, NoStranded, Sleepers, In

\* give_back_() loses no wake-up: no borrower sleeps in acquire() in front of
\* an idle object that nobody was woken for.
THEOREM PoolNoStranded == ObjectSpec => []NoStranded
<1> QED
  BY PoolTypeInit, PoolTypeStep, NoStrandedInit, NoStrandedStep, PTL DEF ObjectSpec

-----------------------------------------------------------------------------
LEMMA AccountStep ==
  ASSUME PoolType, AccountExact, [ObjectNext]_objectVars
  PROVE  AccountExact'
<1>n. Number("lease") \in Nat /\ idle \in Nat /\ created \in Nat /\ failed \in Nat /\ Filled \in Nat
  BY NumberType DEF PoolType, Filled
<1>1. CASE UNCHANGED objectVars
  BY <1>1 DEF AccountExact, Number, objectVars
<1>2. ASSUME NEW b \in Borrowers, TakeOne(b), borrower[b] # "lease" PROVE AccountExact'
  <2>1. borrower'[b] = "lease" /\ \A x \in Borrowers : x # b => borrower'[x] = borrower[x]
    BY <1>2 DEF TakeOne, PoolType
  <2>2. borrower[b] # "lease"
    BY <1>2
  <2>3. Number("lease")' = Number("lease") + 1 - 0
    BY <2>1, <2>2, NumberMove
  <2> QED
    BY <1>n, <1>2, <2>3 DEF TakeOne, AccountExact
<1>t. ASSUME NEW b \in Borrowers, TakeThrows(b), borrower[b] # "lease" PROVE AccountExact'
  <2>1. In(Borrowers, borrower', "lease") = In(Borrowers, borrower, "lease")
    BY <1>t DEF TakeThrows, In, PoolType
  <2>2. Number("lease")' = Number("lease")
    BY <2>1 DEF Number, Count
  <2> QED
    BY <1>n, <1>t, <2>2 DEF TakeThrows, AccountExact
<1>3. ASSUME NEW b \in Borrowers, Take(b) PROVE AccountExact'
  BY <1>2, <1>t, <1>3 DEF Take
<1>4. ASSUME NEW b \in Borrowers, NEW q \in {"asleep", "out"}, borrower[b] # "lease",
             borrower' = [borrower EXCEPT ![b] = q], UNCHANGED <<idle, created, failed>>
      PROVE  AccountExact'
  <2>1. In(Borrowers, borrower', "lease") = In(Borrowers, borrower, "lease")
    BY <1>4 DEF In, PoolType
  <2>2. Number("lease")' = Number("lease")
    BY <2>1 DEF Number, Count
  <2> QED
    BY <1>4, <2>2 DEF AccountExact
<1>5. ASSUME NEW b \in Borrowers, Sleep(b) \/ TimeOut(b) PROVE AccountExact'
  BY <1>2, <1>t, <1>4, <1>5 DEF Sleep, TimeOut
<1>6. ASSUME NEW b \in Borrowers, GiveBackObject(b) PROVE AccountExact'
  <2>1. borrower'[b] = "notify" /\ \A x \in Borrowers : x # b => borrower'[x] = borrower[x]
    BY <1>6 DEF GiveBackObject, PoolType
  <2>2. borrower[b] = "lease"
    BY <1>6 DEF GiveBackObject
  <2>3. Number("lease")' = Number("lease") + 0 - 1
    BY <2>1, <2>2, NumberMove
  <2> QED
    BY <1>n, <1>6, <2>3 DEF GiveBackObject, AccountExact
<1>7. ASSUME NEW b \in Borrowers, Notify(b) PROVE AccountExact'
  <2>1. In(Borrowers, borrower', "lease") = In(Borrowers, borrower, "lease")
    BY <1>7 DEF Notify, Sleepers, In, PoolType
  <2>2. Number("lease")' = Number("lease")
    BY <2>1 DEF Number, Count
  <2> QED
    BY <1>7, <2>2 DEF Notify, AccountExact
<1> QED
  BY <1>1, <1>3, <1>5, <1>6, <1>7 DEF ObjectNext

LEMMA AccountInit == ObjectInit => AccountExact
<1> SUFFICES ASSUME ObjectInit PROVE AccountExact
  OBVIOUS
<1>1. Number("lease") = 0
  BY CountZero DEF ObjectInit, Number
<1>2. idle = Filled /\ created = 0 /\ failed = 0 /\ Filled \in Nat
  BY DEF ObjectInit, Filled
<1> QED
  BY <1>1, <1>2 DEF AccountExact

\* The account of the objects is exact in every behaviour, each failure of the
\* factory costing one, and so the capacity is kept.
THEOREM PoolWithinCapacity == ObjectSpec => [](AccountExact /\ WithinCapacity)
<1>1. AccountExact /\ PoolType => WithinCapacity
  <2> SUFFICES ASSUME AccountExact, PoolType PROVE WithinCapacity
    OBVIOUS
  <2>1. Number("lease") \in Nat /\ Filled \in Nat
    BY NumberType DEF Filled
  <2> QED
    BY <2>1 DEF AccountExact, PoolType, WithinCapacity
<1>2. PoolType /\ AccountExact /\ [ObjectNext]_objectVars => AccountExact'
  BY AccountStep
<1> QED
  BY <1>1, <1>2, AccountInit, PoolTypeInit, PoolTypeStep, PTL DEF ObjectSpec

\* The account, the capacity and the wake-ups of the pool together.
THEOREM ObjectsKept == ObjectSpec => []ObjectsInv
<1>1. (AccountExact /\ WithinCapacity) /\ NoStranded => ObjectsInv
  BY DEF ObjectsInv
<1> QED
  BY <1>1, PoolWithinCapacity, PoolNoStranded, PTL
-----------------------------------------------------------------------------
LEMMA SameCardinality == \A S : Leases!Cardinality(S) = Cardinality(S)
BY DEF Leases!Cardinality, Cardinality

\* An object on loan more is a grant within the bound: the account leaves room.
LEMMA TakeIsGrant ==
  ASSUME PoolType, AccountExact, NEW b \in Borrowers, TakeOne(b), MayTake,
         borrower[b] # "lease"
  PROVE  Leases!Grant(b)
<1>1. Number("lease") \in Nat /\ Filled \in Nat
  BY NumberType DEF Filled
<1>2. idle \in Nat /\ created \in 0..MaxSize /\ failed \in Nat
  BY DEF PoolType
<1>3. Number("lease") < MaxSize + Filled
  BY <1>1, <1>2 DEF AccountExact, MayTake
<1>4. Leases!Cardinality(In(Borrowers, borrower, "lease")) < MaxSize + Filled
  BY <1>3, SameCardinality DEF Number, Count
<1>5. In(Borrowers, borrower', "lease") = In(Borrowers, borrower, "lease") \cup {b}
  BY DEF PoolType, TakeOne, In
<1>6. b \notin In(Borrowers, borrower, "lease")
  BY DEF In
<1>7. UNCHANGED (MaxSize + Filled)
  BY DEF Filled
<1> QED
  BY <1>4, <1>5, <1>6, <1>7 DEF Leases!Grant, Leases!HasRoom

\* A borrower that neither has nor gets an object changes no lease.
LEMMA OutsideIsStutter ==
  ASSUME PoolType, In(Borrowers, borrower', "lease") = In(Borrowers, borrower, "lease")
  PROVE  UNCHANGED Leases!leaseVars
BY DEF Leases!leaseVars, Filled

\* The pool, with its idle objects, its sleepers and a factory that may throw,
\* implements bounded leases.
THEOREM PoolImplementsLeases == ObjectSpec => ImplementsLeases
<1>1. ObjectInit => Leases!LeaseInit
  BY DEF ObjectInit, In, Leases!LeaseInit
<1>2. ASSUME PoolType, AccountExact, [ObjectNext]_objectVars
      PROVE  [Leases!LeaseNext]_(Leases!leaseVars)
  <2>1. CASE UNCHANGED objectVars
    BY <1>2, <2>1, OutsideIsStutter DEF objectVars
  <2>2. ASSUME NEW b \in Borrowers, TakeOne(b) \/ TakeThrows(b), MayTake,
               borrower[b] # "lease"
        PROVE  [Leases!LeaseNext]_(Leases!leaseVars)
    <3>1. CASE TakeOne(b)
      BY <1>2, <2>2, <3>1, TakeIsGrant DEF Leases!LeaseNext
    <3>2. CASE TakeThrows(b)
      <4>1. In(Borrowers, borrower', "lease") = In(Borrowers, borrower, "lease")
        BY <1>2, <2>2, <3>2 DEF TakeThrows, PoolType, In
      <4> QED
        BY <1>2, <4>1, OutsideIsStutter
    <3> QED
      BY <2>2, <3>1, <3>2
  <2>3. ASSUME NEW b \in Borrowers, Take(b)
        PROVE  [Leases!LeaseNext]_(Leases!leaseVars)
    BY <2>2, <2>3 DEF Take
  <2>4. ASSUME NEW b \in Borrowers, Sleep(b) \/ Notify(b)
        PROVE  [Leases!LeaseNext]_(Leases!leaseVars)
    <3>1. In(Borrowers, borrower', "lease") = In(Borrowers, borrower, "lease")
      BY <1>2, <2>4 DEF Sleep, Notify, Sleepers, PoolType, In
    <3> QED
      BY <1>2, <3>1, OutsideIsStutter
  <2>5. ASSUME NEW b \in Borrowers, TimeOut(b)
        PROVE  [Leases!LeaseNext]_(Leases!leaseVars)
    <3>1. CASE MayTake
      BY <2>2, <2>5, <3>1 DEF TimeOut
    <3>2. CASE ~MayTake
      <4>1. In(Borrowers, borrower', "lease") = In(Borrowers, borrower, "lease")
        BY <1>2, <2>5, <3>2 DEF TimeOut, PoolType, In
      <4> QED
        BY <1>2, <4>1, OutsideIsStutter
    <3> QED
      BY <3>1, <3>2
  <2>6. ASSUME NEW b \in Borrowers, GiveBackObject(b)
        PROVE  [Leases!LeaseNext]_(Leases!leaseVars)
    <3>1. In(Borrowers, borrower', "lease") = In(Borrowers, borrower, "lease") \ {b}
      BY <1>2, <2>6 DEF GiveBackObject, PoolType, In
    <3>2. b \in In(Borrowers, borrower, "lease") /\ UNCHANGED (MaxSize + Filled)
      BY <2>6 DEF GiveBackObject, In, Filled
    <3> QED
      BY <3>1, <3>2 DEF Leases!GiveBackLease, Leases!LeaseNext
  <2> QED
    BY <1>2, <2>1, <2>3, <2>4, <2>5, <2>6 DEF ObjectNext
<1>3. PoolType /\ AccountExact /\ [ObjectNext]_objectVars => AccountExact'
  BY AccountStep
<1> QED
  BY <1>1, <1>2, <1>3, AccountInit, PoolTypeInit, PoolTypeStep, PTL
  DEF ObjectSpec, ImplementsLeases, Leases!LeaseSpec

HIDE PoolAssumption DEF PoolAssumption

-----------------------------------------------------------------------------
(* Proofs, for any number of callers and any thresholds. *)

USE BreakerAssumption DEF BreakerAssumption

\* Any set of probes is finite and has a size.
LEMMA ProbesFinite ==
  ASSUME BreakerTypeOK
  PROVE  IsFiniteSet(probes) /\ Cardinality(probes) \in Nat
BY FS_Subset, FS_CardinalityType DEF BreakerTypeOK

\* A transition establishes the invariant, whatever the counters were.
LEMMA TransitionInv ==
  ASSUME BreakerTypeOK, NEW to \in States, Transition(to),
         running' \subseteq Callers, healthy' \in BOOLEAN
  PROVE  BreakerInv'
<1>1. BreakerTypeOK'
  <2>1. /\ failures' \in 0..FailureThreshold - 1
        /\ in_flight' \in 0..HalfOpenMax
        /\ successes' \in 0..SuccessThreshold - 1
    BY DEF Transition
  <2>2. state' \in States /\ cooled' \in BOOLEAN /\ probes' \subseteq running'
    BY DEF Transition
  <2> QED BY <2>1, <2>2 DEF BreakerTypeOK
<1>2. CountersBelong'
  BY DEF CountersBelong, Transition
<1>3. NoLeakedProbe'
  BY FS_EmptySet DEF NoLeakedProbe, Transition
<1> QED
  BY <1>1, <1>2, <1>3 DEF BreakerInv

\* Starting a call preserves the invariant: a slot is taken by a new probe.
LEMMA AllowInv ==
  ASSUME BreakerInv, NEW c \in Callers, Allow(c)
  PROVE  BreakerInv'
<1> USE DEF BreakerInv
<1>1. CASE AllowClosed(c)
  <2>1. BreakerTypeOK' /\ CountersBelong'
    BY <1>1 DEF AllowClosed, BreakerTypeOK, CountersBelong, stateVars
  <2>2. NoLeakedProbe'
    BY <1>1 DEF AllowClosed, NoLeakedProbe, stateVars
  <2> QED BY <2>1, <2>2
<1>2. CASE AllowFirstProbe(c)
  <2>1. BreakerTypeOK' /\ CountersBelong'
    <3>1. /\ failures' \in 0..FailureThreshold - 1
          /\ in_flight' \in 0..HalfOpenMax
          /\ successes' \in 0..SuccessThreshold - 1
      BY <1>2 DEF AllowFirstProbe
    <3>2. /\ state' = "HalfOpen" /\ cooled' = FALSE /\ failures' = 0
          /\ running' \subseteq Callers /\ probes' \subseteq running'
          /\ healthy' \in BOOLEAN
      BY <1>2 DEF AllowFirstProbe, BreakerTypeOK
    <3>3. state' \in States /\ cooled' \in BOOLEAN
      BY <3>2 DEF States
    <3> QED BY <3>1, <3>2, <3>3 DEF BreakerTypeOK, CountersBelong
  <2>2. Cardinality(probes') = 1
    BY <1>2, FS_Singleton DEF AllowFirstProbe
  <2> QED BY <1>2, <2>1, <2>2 DEF AllowFirstProbe, NoLeakedProbe
<1>3. CASE AllowProbe(c)
  <2>1. BreakerTypeOK' /\ CountersBelong'
    BY <1>3 DEF AllowProbe, BreakerTypeOK, CountersBelong
  <2>2. c \notin probes
    BY <1>3 DEF AllowProbe, BreakerTypeOK
  <2>3. Cardinality(probes') = Cardinality(probes) + 1
    BY <1>3, <2>2, ProbesFinite, FS_AddElement DEF AllowProbe
  <2>4. in_flight' = in_flight + 1 /\ in_flight \in Int /\ Cardinality(probes) \in Int
    BY <1>3, ProbesFinite DEF AllowProbe, BreakerTypeOK
  <2> QED BY <2>1, <2>3, <2>4 DEF NoLeakedProbe
<1> QED BY <1>1, <1>2, <1>3 DEF Allow

\* Recording a result preserves the invariant: the slot that is freed and the
\* probe that leaves balance, and a stale result can only free a slot too many.
LEMMA RecordInv ==
  ASSUME BreakerInv, NEW c \in Callers, Record(c)
  PROVE  BreakerInv'
<1> USE DEF BreakerInv
<1>1. CASE SuccessClosed(c)
  <2>1. probes = {} /\ probes' = probes /\ in_flight' = in_flight
    BY <1>1 DEF SuccessClosed, CountersBelong
  <2>2. BreakerTypeOK' /\ CountersBelong'
    BY <1>1, <2>1 DEF SuccessClosed, Returns, BreakerTypeOK, CountersBelong
  <2> QED BY <2>1, <2>2 DEF NoLeakedProbe
<1>2. CASE ResultOpen(c)
  <2>1. probes = {} /\ probes' = probes /\ in_flight' = in_flight
    BY <1>2 DEF ResultOpen, CountersBelong, stateVars
  <2>2. BreakerTypeOK' /\ CountersBelong'
    BY <1>2, <2>1 DEF ResultOpen, Returns, BreakerTypeOK, CountersBelong, stateVars
  <2> QED BY <2>1, <2>2 DEF NoLeakedProbe
<1>3. CASE SuccessHalfOpen(c)
  <2>1. CASE successes + 1 >= SuccessThreshold
    BY <1>3, <2>1, TransitionInv DEF SuccessHalfOpen, Returns, BreakerTypeOK, States
  <2>2. CASE ~(successes + 1 >= SuccessThreshold)
    <3>1. /\ in_flight' = GiveBack /\ successes' = successes + 1
          /\ probes' = probes \ {c} /\ running' = running \ {c}
          /\ state = "HalfOpen" /\ UNCHANGED <<state, cooled, failures, healthy>>
      BY <1>3, <2>2 DEF SuccessHalfOpen, Returns
    <3>2. GiveBack \in 0..HalfOpenMax /\ (GiveBack = 0 \/ GiveBack = in_flight - 1)
      BY DEF GiveBack, BreakerTypeOK
    <3>3. BreakerTypeOK' /\ CountersBelong'
      BY <2>2, <3>1, <3>2 DEF BreakerTypeOK, CountersBelong
    <3>4. Cardinality(probes') \in Nat /\ Cardinality(probes') >= Cardinality(probes) - 1
      <4>1. Cardinality(probes \ {c})
              = (IF c \in probes THEN Cardinality(probes) - 1 ELSE Cardinality(probes))
        BY ProbesFinite, FS_RemoveElement
      <4>2. Cardinality(probes \ {c}) \in Nat /\ Cardinality(probes) \in Nat
        BY ProbesFinite, FS_RemoveElement, FS_CardinalityType
      <4> QED BY <3>1, <4>1, <4>2
    <3>5. in_flight \in Int /\ Cardinality(probes) \in Int
      BY ProbesFinite DEF BreakerTypeOK
    <3> QED BY <3>1, <3>2, <3>3, <3>4, <3>5 DEF NoLeakedProbe
  <2> QED BY <2>1, <2>2
<1>4. CASE FailureClosed(c)
  <2>1. CASE failures + 1 >= FailureThreshold
    BY <1>4, <2>1, TransitionInv DEF FailureClosed, Returns, BreakerTypeOK, States
  <2>2. CASE ~(failures + 1 >= FailureThreshold)
    <3>1. probes = {} /\ probes' = probes /\ in_flight' = in_flight
      BY <1>4, <2>2 DEF FailureClosed, CountersBelong
    <3>2. BreakerTypeOK' /\ CountersBelong'
      BY <1>4, <2>2, <3>1 DEF FailureClosed, Returns, BreakerTypeOK, CountersBelong
    <3> QED BY <3>1, <3>2 DEF NoLeakedProbe
  <2> QED BY <2>1, <2>2
<1>5. CASE FailureHalfOpen(c)
  BY <1>5, TransitionInv DEF FailureHalfOpen, Returns, BreakerTypeOK, States
<1> QED BY <1>1, <1>2, <1>3, <1>4, <1>5 DEF Record

LEMMA BreakerStepInv ==
  ASSUME BreakerInv, [BreakerNext]_breakerVars
  PROVE  BreakerInv'
<1>1. ASSUME NEW c \in Callers, Allow(c) PROVE BreakerInv'
  BY <1>1, AllowInv
<1>2. ASSUME NEW c \in Callers, Record(c) PROVE BreakerInv'
  BY <1>2, RecordInv
<1>3. CASE CoolDown
  BY <1>3 DEF CoolDown, BreakerInv, BreakerTypeOK, CountersBelong, NoLeakedProbe
<1>4. CASE QueryState
  BY <1>4, TransitionInv DEF QueryState, BreakerInv, BreakerTypeOK, States
<1>5. CASE Reset
  BY <1>5, TransitionInv DEF Reset, BreakerInv, BreakerTypeOK, States
<1>6. CASE ServiceChanges
  BY <1>6 DEF ServiceChanges, BreakerInv, BreakerTypeOK, CountersBelong, NoLeakedProbe, stateVars
<1>7. CASE UNCHANGED breakerVars
  BY <1>7 DEF breakerVars, stateVars, BreakerInv, BreakerTypeOK, CountersBelong, NoLeakedProbe
<1> QED BY <1>1, <1>2, <1>3, <1>4, <1>5, <1>6, <1>7 DEF BreakerNext

\* The breaker's counters stay within their thresholds, belong to the state
\* they are counted in, and no probe slot leaks, in every behaviour.
THEOREM BreakerInvariant == BreakerSpec => []BreakerInv
<1>1. BreakerInit => BreakerInv
  <2> SUFFICES ASSUME BreakerInit PROVE BreakerInv
    OBVIOUS
  <2>1. /\ failures \in 0..FailureThreshold - 1 /\ in_flight \in 0..HalfOpenMax
        /\ successes \in 0..SuccessThreshold - 1
    BY DEF BreakerInit
  <2>2. /\ state \in States /\ cooled \in BOOLEAN /\ healthy \in BOOLEAN
        /\ running \subseteq Callers /\ probes \subseteq running
    BY DEF BreakerInit, States
  <2>3. BreakerTypeOK
    BY <2>1, <2>2 DEF BreakerTypeOK
  <2>4. CountersBelong
    BY DEF BreakerInit, CountersBelong
  <2>5. NoLeakedProbe
    BY FS_EmptySet DEF BreakerInit, NoLeakedProbe
  <2> QED BY <2>3, <2>4, <2>5 DEF BreakerInv
<1>2. BreakerInv /\ [BreakerNext]_breakerVars => BreakerInv'
  BY BreakerStepInv
<1> QED BY <1>1, <1>2, PTL DEF BreakerSpec

HIDE BreakerAssumption DEF BreakerAssumption

-----------------------------------------------------------------------------
(* Proofs, for any threads, clock readings and counter width: identifiers  *)
(* increase strictly and never coincide, whatever the clock does and       *)
(* however many calls find no random bytes.                                *)

\* The pair behind the identifiers only grows: an identifier being built is
\* behind nothing returned when its call began and ahead of nothing given out.
UuidBehind ==
  /\ AtMost(top, last)
  /\ \A t \in Generators :
       /\ AtMost(floor[t], last)
       /\ pc[t] = "builds" => Less(floor[t], mine[t]) /\ AtMost(mine[t], last)

UuidInv == UuidTypeOK /\ UuidBehind /\ Distinct

\* The order of pairs of integers.
LEMMA LessFacts ==
  ASSUME NEW a \in Ids, NEW b \in Ids, NEW c \in Ids
  PROVE  /\ AtMost(a, b) /\ Less(b, c) => Less(a, c)
         /\ AtMost(a, b) /\ AtMost(b, c) => AtMost(a, c)
         /\ ~Less(a, a)
         /\ AtMost(a, b) \/ Less(b, a)
         /\ Less(a, b) => AtMost(a, b)
  BY UuidAssumption DEF Less, AtMost, Ids

\* The critical section takes the pair strictly forward.
LEMMA SuccessorGrows ==
  ASSUME last \in Ids, NEW time \in Nat, NEW seed \in 0..CounterMax
  PROVE  /\ Successor(time, seed) \in Ids
         /\ Less(last, Successor(time, seed))
  BY UuidAssumption DEF Successor, Less, Ids

LEMMA UuidInitially == UuidInit => UuidInv
  BY UuidAssumption DEF UuidInit, UuidInv, UuidTypeOK, UuidBehind, Distinct, Ids, None, AtMost

\* Every step keeps the invariant.
LEMMA UuidStep ==
  ASSUME UuidInv, [UuidNext]_uuidVars
  PROVE  UuidInv'
<1> USE UuidAssumption
<1>1. CASE UNCHANGED uuidVars
  BY <1>1 DEF uuidVars, UuidInv, UuidTypeOK, UuidBehind, Distinct
<1>2. ASSUME NEW t \in Generators, ReadClock(t) PROVE UuidInv'
  <2>1. UuidTypeOK'
    BY <1>2 DEF UuidInv, UuidTypeOK, ReadClock
  <2>2. UuidBehind'
    BY <1>2 DEF UuidInv, UuidTypeOK, UuidBehind, ReadClock
  <2>3. Distinct'
    BY <1>2 DEF UuidInv, UuidTypeOK, Distinct, ReadClock
  <2> QED BY <2>1, <2>2, <2>3 DEF UuidInv
<1>3. ASSUME NEW t \in Generators, Advance(t) PROVE UuidInv'
  <2>1. PICK seed \in 0..CounterMax : last' = Successor(now[t], seed)
    BY <1>3 DEF Advance
  <2>2. last' \in Ids /\ Less(last, last')
    BY <2>1, SuccessorGrows DEF UuidInv, UuidTypeOK
  <2>3. /\ UNCHANGED <<now, top, floor>>
        /\ pc' = [pc EXCEPT ![t] = "builds"]
        /\ mine' = [mine EXCEPT ![t] = last']
    BY <1>3 DEF Advance
  <2>4. UuidTypeOK'
    BY <2>2, <2>3 DEF UuidInv, UuidTypeOK
  <2>5. \A a \in Ids : AtMost(a, last) => Less(a, last') /\ AtMost(a, last')
    BY <2>2, LessFacts DEF UuidInv, UuidTypeOK
  <2>6. \A s \in Generators : floor[s] \in Ids /\ mine[s] \in Ids /\ top \in Ids
    BY DEF UuidInv, UuidTypeOK
  <2>7. UuidBehind'
    <3>1. AtMost(top', last')
      BY <2>3, <2>5, <2>6 DEF UuidInv, UuidBehind
    <3>2. ASSUME NEW s \in Generators PROVE AtMost(floor'[s], last')
      BY <2>3, <2>5, <2>6 DEF UuidInv, UuidBehind
    <3>3. ASSUME NEW s \in Generators, pc'[s] = "builds"
          PROVE  Less(floor'[s], mine'[s]) /\ AtMost(mine'[s], last')
      <4>1. CASE s = t
        <5>1. mine'[s] = last'
          BY <2>3, <4>1 DEF UuidInv, UuidTypeOK
        <5>2. Less(floor[s], last')
          BY <2>5, <2>6 DEF UuidInv, UuidBehind
        <5> QED BY <2>3, <5>1, <5>2 DEF AtMost
      <4>2. CASE s # t
        <5>1. pc[s] = "builds" /\ mine'[s] = mine[s]
          BY <2>3, <3>3, <4>2 DEF UuidInv, UuidTypeOK
        <5> QED BY <2>3, <2>5, <2>6, <5>1 DEF UuidInv, UuidBehind
      <4> QED BY <4>1, <4>2
    <3> QED BY <3>1, <3>2, <3>3 DEF UuidBehind
  <2>8. ASSUME NEW r \in Generators, NEW s \in Generators, r # s,
               pc'[r] = "builds", pc'[s] = "builds"
        PROVE  mine'[r] # mine'[s]
    <3>1. ASSUME NEW u \in Generators, u # t, pc'[u] = "builds"
          PROVE  mine'[u] # last'
      <4>1. pc[u] = "builds" /\ mine'[u] = mine[u]
        BY <2>3, <3>1 DEF UuidInv, UuidTypeOK
      <4>2. Less(mine[u], last')
        BY <2>5, <2>6, <4>1 DEF UuidInv, UuidBehind
      <4> QED BY <2>2, <4>1, <4>2, LessFacts
    <3>2. mine'[t] = last'
      BY <2>3 DEF UuidInv, UuidTypeOK
    <3>3. CASE r # t /\ s # t
      BY <2>3, <2>8, <3>3 DEF UuidInv, UuidTypeOK, Distinct
    <3> QED BY <2>8, <3>1, <3>2, <3>3
  <2> QED BY <2>4, <2>7, <2>8 DEF UuidInv, Distinct
<1>4. ASSUME NEW t \in Generators, ReturnUuid(t) PROVE UuidInv'
  <2>1. /\ UNCHANGED <<last, now, mine, floor>>
        /\ pc' = [pc EXCEPT ![t] = "out"]
        /\ top' = (IF Less(top, mine[t]) THEN mine[t] ELSE top)
        /\ pc[t] = "builds"
    BY <1>4 DEF ReturnUuid, Raise
  <2>2. UuidTypeOK'
    BY <2>1 DEF UuidInv, UuidTypeOK
  <2>3. AtMost(top', last')
    BY <2>1 DEF UuidInv, UuidBehind
  <2>4. UuidBehind'
    BY <2>1, <2>3 DEF UuidInv, UuidTypeOK, UuidBehind
  <2>5. Distinct'
    BY <2>1 DEF UuidInv, UuidTypeOK, Distinct
  <2> QED BY <2>2, <2>4, <2>5 DEF UuidInv
<1>5. ASSUME NEW t \in Generators, ReturnNil(t) PROVE UuidInv'
  BY <1>5 DEF ReturnNil, UuidInv, UuidTypeOK, UuidBehind, Distinct
<1> QED BY <1>1, <1>2, <1>3, <1>4, <1>5 DEF UuidNext

\* Calls that overlap get different identifiers, on any number of threads and
\* whatever the clock shows.
THEOREM UuidDistinct == UuidSpec => []Distinct
<1>1. UuidInv => Distinct
  BY DEF UuidInv
<1>2. UuidInv /\ [UuidNext]_uuidVars => UuidInv'
  BY UuidStep
<1> QED BY <1>1, <1>2, UuidInitially, PTL DEF UuidSpec

\* A call gets a greater identifier than every call that had returned before it
\* began, also when the clock is set back or more identifiers are made in a
\* millisecond than the counter can tell apart.
THEOREM UuidIncreasing == UuidSpec => Increasing
<1> DEFINE Greater == \A t \in Generators : ReturnUuid(t) => Less(floor[t], mine[t])
<1>1. UuidInv => [Greater]_uuidVars
  BY DEF UuidInv, UuidBehind, ReturnUuid
<1>2. UuidInv /\ [UuidNext]_uuidVars => UuidInv'
  BY UuidStep
<1> QED BY <1>1, <1>2, UuidInitially, PTL DEF UuidSpec, Increasing

-----------------------------------------------------------------------------
(***************************************************************************)
(* The monitors, for any number of waiters and units.  What is promised is *)
(* inductive with the types and the bounds on the number: a semaphore's    *)
(* units are those released and not yet taken, and no other monitor has    *)
(* more than it began with.                                                *)
(***************************************************************************)

MonitorIInv ==
  /\ monitor \in {"semaphore", "event", "latch", "token"}
  /\ value \in Nat /\ owed \in Nat /\ released \in 0..MaxUnits /\ passed \in Nat
  /\ station \in [Waiters -> {"out", "asleep", "awake"}]
  /\ tokens_set \subseteq {"own", "other"} /\ linked \in BOOLEAN
  /\ owed <= released
  /\ monitor # "semaphore" => value <= MaxUnits
  /\ MonitorInv

\* The awake waiters of a semaphore are a number.
LEMMA WaitersAwake ==
  /\ Count(Waiters, station, "awake") \in Nat /\ Count(Waiters, station', "awake") \in Nat
  /\ IsFiniteSet(Waiters)
<1>1. IsFiniteSet(Waiters)
  BY MonitorAssumption DEF MonitorAssumption
<1> QED
  BY <1>1, CountType

\* One waiter goes to another station: nobody else is counted anew.
LEMMA StationMoves ==
  ASSUME NEW t \in Waiters, NEW s \in {"out", "asleep", "awake"},
         station \in [Waiters -> {"out", "asleep", "awake"}],
         station' = [station EXCEPT ![t] = s]
  PROVE  /\ station' \in [Waiters -> {"out", "asleep", "awake"}]
         /\ Count(Waiters, station', "awake") =
              Count(Waiters, station, "awake") + (IF s = "awake" THEN 1 ELSE 0)
                                               - (IF station[t] = "awake" THEN 1 ELSE 0)
         /\ s # "asleep" => MonitorSleepers' \subseteq MonitorSleepers
<1>1. /\ station' \in [Waiters -> {"out", "asleep", "awake"}]
      /\ station'[t] = s /\ \A x \in Waiters : x # t => station'[x] = station[x]
  OBVIOUS
<1>2. Count(Waiters, station', "awake") =
        Count(Waiters, station, "awake") + (IF station'[t] = "awake" THEN 1 ELSE 0)
                                         - (IF station[t] = "awake" THEN 1 ELSE 0)
  <2>1. IsFiniteSet(Waiters)
    BY WaitersAwake
  <2>2. \A x \in Waiters : x # t => station'[x] = station[x]
    BY <1>1
  <2> QED
    BY ONLY <2>1, <2>2, t \in Waiters, CountMove
<1>3. s # "asleep" => MonitorSleepers' \subseteq MonitorSleepers
  BY <1>1 DEF MonitorSleepers, In
<1> QED
  BY <1>1, <1>2, <1>3

\* A wait that returns takes a semaphore's unit and counts itself.
LEMMA WaitReturnsKeeps ==
  ASSUME MonitorIInv, NEW t \in Waiters, WaitReturns(t),
         UNCHANGED <<monitor, owed, released, tokens_set, linked>>
  PROVE  MonitorIInv'
<1>1. /\ MayReturn /\ passed' = passed + 1 /\ passed \in Nat /\ value \in Nat
      /\ value' = (IF monitor = "semaphore" THEN value - 1 ELSE value)
      /\ station' = [station EXCEPT ![t] = "out"]
  BY DEF WaitReturns, MonitorIInv
<1>2. /\ station' \in [Waiters -> {"out", "asleep", "awake"}]
      /\ Count(Waiters, station', "awake") >= Count(Waiters, station, "awake") - 1
      /\ MonitorSleepers' \subseteq MonitorSleepers
  <2>1. /\ station' \in [Waiters -> {"out", "asleep", "awake"}]
        /\ Count(Waiters, station', "awake") =
             Count(Waiters, station, "awake") - (IF station[t] = "awake" THEN 1 ELSE 0)
        /\ MonitorSleepers' \subseteq MonitorSleepers
    <3>1. station \in [Waiters -> {"out", "asleep", "awake"}]
      BY DEF MonitorIInv
    <3>2. "out" \in {"out", "asleep", "awake"} /\ "out" # "awake" /\ "out" # "asleep"
      OBVIOUS
    <3>3. station' = [station EXCEPT ![t] = "out"]
      BY <1>1
    <3>4. /\ station' \in [Waiters -> {"out", "asleep", "awake"}]
          /\ Count(Waiters, station', "awake") =
               Count(Waiters, station, "awake") + (IF "out" = "awake" THEN 1 ELSE 0)
                 - (IF station[t] = "awake" THEN 1 ELSE 0)
          /\ "out" # "asleep" => MonitorSleepers' \subseteq MonitorSleepers
      BY ONLY <3>1, <3>2, <3>3, t \in Waiters, StationMoves
    <3> QED
      BY <3>2, <3>4, WaitersAwake
  <2> QED
    BY <2>1, WaitersAwake
<1>3. monitor = "semaphore" => value > 0
  BY <1>1 DEF MayReturn
<1>4. value' \in Nat /\ (monitor' # "semaphore" => value' <= MaxUnits)
  BY <1>1, <1>3 DEF MonitorIInv
<1>5. UnitsInv'
  <2>1. value \in Nat /\ owed \in Nat /\ released \in Nat /\ owed' = owed
        /\ released' = released /\ monitor' = monitor /\ UnitsInv
    BY DEF MonitorIInv, MonitorInv
  <2>2. monitor = "semaphore" => value' + passed' = 1 + released'
    BY <1>1, <1>3, <2>1 DEF UnitsInv
  <2>3. monitor = "semaphore" /\ MonitorSleepers' # {}
          => value' <= Count(Waiters, station', "awake") + owed'
    <3>1. monitor = "semaphore" /\ MonitorSleepers' # {}
            => value <= Count(Waiters, station, "awake") + owed
      BY <1>2, <2>1 DEF UnitsInv
    <3> QED
      BY <1>1, <1>2, <1>3, <2>1, <3>1, WaitersAwake
  <2> QED
    BY <2>1, <2>2, <2>3 DEF UnitsInv
<1>6. SignalsInv'
  <2>1. monitor \in {"event", "latch"} => MonitorSleepers = {}
    BY <1>1 DEF MonitorIInv, MonitorInv, SignalsInv
  <2>2. monitor = "latch" => value = 0
    BY <1>1 DEF MayReturn
  <2> QED
    BY <1>1, <1>2, <2>1, <2>2 DEF SignalsInv
<1> QED
  BY <1>1, <1>2, <1>4, <1>5, <1>6 DEF MonitorIInv, MonitorInv

\* A wait that is not over goes to sleep, or gives up: a semaphore has no units then.
LEMMA WaitFailsKeeps ==
  ASSUME MonitorIInv, NEW t \in Waiters, NEW s \in {"out", "asleep"}, ~MayReturn,
         station' = [station EXCEPT ![t] = s],
         UNCHANGED <<monitor, value, owed, released, passed, tokens_set, linked>>
  PROVE  MonitorIInv'
<1>1. station' \in [Waiters -> {"out", "asleep", "awake"}]
  BY StationMoves DEF MonitorIInv
<1>2. UnitsInv'
  <2>1. monitor = "semaphore" => value = 0
    BY DEF MonitorIInv, MayReturn
  <2>2. owed' \in Nat /\ owed' = owed /\ UnitsInv
    BY DEF MonitorIInv, MonitorInv
  <2> QED
    BY <2>1, <2>2, WaitersAwake DEF UnitsInv
<1>3. SignalsInv'
  <2>1. monitor \in {"event", "latch"} => ~MayReturn'
    BY DEF MayReturn
  <2>2. (monitor = "latch" /\ passed > 0) => value = 0
    BY DEF MonitorIInv, MonitorInv, SignalsInv
  <2> QED
    BY <2>1, <2>2 DEF SignalsInv
<1> QED
  BY <1>1, <1>2, <1>3 DEF MonitorIInv, MonitorInv

\* A sleeper wakes, for no reason or because it was told.
LEMMA WakesKeeps ==
  ASSUME MonitorIInv, NEW t \in Waiters, station[t] = "asleep",
         station' = [station EXCEPT ![t] = "awake"],
         owed' = owed \/ (owed > 0 /\ owed' = owed - 1),
         UNCHANGED <<monitor, value, released, passed, tokens_set, linked>>
  PROVE  MonitorIInv'
<1>1. /\ station' \in [Waiters -> {"out", "asleep", "awake"}]
      /\ Count(Waiters, station', "awake") = Count(Waiters, station, "awake") + 1
      /\ MonitorSleepers' \subseteq MonitorSleepers
  <2>1. /\ station' \in [Waiters -> {"out", "asleep", "awake"}]
        /\ Count(Waiters, station', "awake") =
             Count(Waiters, station, "awake") + 1 - (IF station[t] = "awake" THEN 1 ELSE 0)
        /\ MonitorSleepers' \subseteq MonitorSleepers
    BY StationMoves DEF MonitorIInv
  <2> QED
    BY <2>1, WaitersAwake
<1>2. /\ owed \in Nat /\ owed' \in Nat /\ released \in Nat /\ owed <= released
      /\ owed' <= owed /\ owed - 1 <= owed' /\ value \in Nat
  BY DEF MonitorIInv
<1>3. UnitsInv'
  <2>1. monitor = "semaphore" /\ MonitorSleepers' # {}
          => value <= Count(Waiters, station, "awake") + owed
    BY <1>1 DEF MonitorIInv, MonitorInv, UnitsInv
  <2>2. monitor = "semaphore" /\ MonitorSleepers' # {}
          => value' <= Count(Waiters, station', "awake") + owed'
    BY <1>1, <1>2, <2>1, WaitersAwake
  <2>3. monitor = "semaphore" => value' + passed' = 1 + released'
    BY DEF MonitorIInv, MonitorInv, UnitsInv
  <2> QED
    BY <2>2, <2>3 DEF UnitsInv
<1>4. SignalsInv'
  <2>1. MayReturn' = MayReturn
    BY DEF MayReturn, IsCancelled
  <2> QED
    BY <1>1, <2>1 DEF SignalsInv, MonitorIInv, MonitorInv
<1> QED
  BY <1>1, <1>2, <1>3, <1>4 DEF MonitorIInv, MonitorInv

\* release(n) owes as many wake-ups as it has units.
LEMMA ReleaseKeepsUnits ==
  ASSUME MonitorIInv, NEW n \in 1..MaxUnits, Release(n)
  PROVE  MonitorIInv'
<1>1. /\ monitor = "semaphore" /\ released + n <= MaxUnits /\ value' = value + n
      /\ released' = released + n /\ owed' = owed + n
      /\ UNCHANGED <<monitor, station, passed, tokens_set, linked>>
  BY DEF Release, OwesAfter
<1>2. /\ n \in Nat /\ value \in Nat /\ owed \in Nat /\ released \in Nat /\ owed <= released
      /\ MaxUnits \in Nat /\ passed \in Nat
  BY MonitorAssumption DEF MonitorIInv, MonitorAssumption
<1>3. UnitsInv'
  <2>1. value + passed = 1 + released
        /\ (MonitorSleepers # {} => value <= Count(Waiters, station, "awake") + owed)
    BY <1>1 DEF MonitorIInv, MonitorInv, UnitsInv
  <2>2. MonitorSleepers' = MonitorSleepers
        /\ Count(Waiters, station', "awake") = Count(Waiters, station, "awake")
    BY <1>1 DEF MonitorSleepers
  <2>3. value' + passed' = 1 + released'
    BY <1>1, <1>2, <2>1
  <2>4. MonitorSleepers' # {} => value' <= Count(Waiters, station', "awake") + owed'
    BY <1>1, <1>2, <2>1, <2>2, WaitersAwake
  <2> QED
    BY <2>3, <2>4 DEF UnitsInv
<1>4. SignalsInv'
  BY <1>1 DEF SignalsInv
<1>5. /\ value' \in Nat /\ owed' \in Nat /\ released' \in 0..MaxUnits /\ owed' <= released'
  BY <1>1, <1>2
<1> QED
  BY <1>1, <1>3, <1>4, <1>5 DEF MonitorIInv, MonitorInv

\* set() and the last count_down() wake everybody: nobody sleeps on what has happened.
LEMMA SignalKeeps ==
  ASSUME MonitorIInv, monitor \in {"event", "latch"}, value' \in Nat, value' <= MaxUnits,
         \/ EverybodyWakes
         \/ ~MayReturn' /\ UNCHANGED station,
         monitor = "latch" => value > 0,
         UNCHANGED <<monitor, owed, released, passed, tokens_set, linked>>
  PROVE  MonitorIInv'
<1>1. station' \in [Waiters -> {"out", "asleep", "awake"}]
  BY DEF MonitorIInv, EverybodyWakes
<1>2. SignalsInv'
  <2>1. EverybodyWakes => MonitorSleepers' = {}
    BY DEF EverybodyWakes, MonitorSleepers, In
  <2>2. ~(monitor = "latch" /\ passed > 0)
    BY DEF MonitorIInv, MonitorInv, SignalsInv
  <2> QED
    BY <2>1, <2>2 DEF SignalsInv
<1>3. UnitsInv'
  BY DEF UnitsInv
<1> QED
  BY <1>1, <1>2, <1>3 DEF MonitorIInv, MonitorInv

\* The token has a flag of its own and one it is linked to, and no wake-ups.
LEMMA TokenKeeps ==
  ASSUME MonitorIInv, monitor = "token", value' = value, passed' \in Nat,
         station' \in [Waiters -> {"out", "asleep", "awake"}],
         tokens_set' \subseteq {"own", "other"}, linked' \in BOOLEAN,
         UNCHANGED <<monitor, owed, released>>
  PROVE  MonitorIInv'
<1>1. UnitsInv' /\ SignalsInv'
  BY DEF UnitsInv, SignalsInv
<1> QED
  BY <1>1 DEF MonitorIInv, MonitorInv

\* Every step keeps it.
LEMMA MonitorStays == MonitorIInv /\ [MonitorNext]_monitorVars => MonitorIInv'
<1> SUFFICES ASSUME MonitorIInv, [MonitorNext]_monitorVars PROVE MonitorIInv'
  OBVIOUS
<1>1. CASE UNCHANGED monitorVars
  <2>1. /\ UNCHANGED <<monitor, value, station, owed, released, passed, tokens_set, linked>>
    BY <1>1 DEF monitorVars
  <2>2. UnitsInv' /\ SignalsInv'
    BY <2>1 DEF MonitorIInv, MonitorInv, UnitsInv, SignalsInv, MonitorSleepers, MayReturn, IsCancelled
  <2> QED
    BY <2>1, <2>2 DEF MonitorIInv, MonitorInv
<1>2. ASSUME NEW t \in Waiters, WaitOn(t) PROVE MonitorIInv'
  BY <1>2, WaitReturnsKeeps, WaitFailsKeeps DEF WaitOn, FallsAsleep
<1>3. ASSUME NEW t \in Waiters, WakeUnasked(t) PROVE MonitorIInv'
  BY <1>3, WakesKeeps DEF WakeUnasked
<1>4. ASSUME NEW t \in Waiters, WaitTimesOut(t) PROVE MonitorIInv'
  BY <1>4, WaitReturnsKeeps, WaitFailsKeeps DEF WaitTimesOut
<1>5. ASSUME NEW t \in Waiters, TokenWaitTimesOut(t) PROVE MonitorIInv'
  <2>1. passed \in Nat /\ passed' = passed + 1 /\ station \in [Waiters -> {"out", "asleep", "awake"}]
        /\ station' = [station EXCEPT ![t] = "out"]
        /\ tokens_set \subseteq {"own", "other"} /\ linked \in BOOLEAN
    BY <1>5 DEF TokenWaitTimesOut, MonitorIInv
  <2>2. passed' \in Nat /\ station' \in [Waiters -> {"out", "asleep", "awake"}]
    BY <2>1
  <2> QED
    BY <1>5, <2>1, <2>2, TokenKeeps DEF TokenWaitTimesOut
<1>6. ASSUME NotifyWaiter PROVE MonitorIInv'
  <2>1. CASE MonitorSleepers = {} /\ UNCHANGED station
    <3>1. owed' \in Nat /\ owed' <= released'
      BY <1>6 DEF NotifyWaiter, MonitorIInv
    <3>2. UnitsInv'
      BY <1>6, <2>1 DEF NotifyWaiter, MonitorIInv, MonitorInv, UnitsInv, MonitorSleepers
    <3>3. SignalsInv'
      BY <1>6, <2>1 DEF NotifyWaiter, MonitorIInv, MonitorInv, SignalsInv, MonitorSleepers
    <3> QED
      BY <1>6, <2>1, <3>1, <3>2, <3>3 DEF NotifyWaiter, MonitorIInv, MonitorInv
  <2>2. ASSUME NEW t \in MonitorSleepers, station' = [station EXCEPT ![t] = "awake"]
        PROVE  MonitorIInv'
    <3>1. t \in Waiters /\ station[t] = "asleep"
      BY <2>2 DEF MonitorSleepers, In
    <3> QED
      BY <1>6, <2>2, <3>1, WakesKeeps DEF NotifyWaiter
  <2> QED
    BY <1>6, <2>1, <2>2 DEF NotifyWaiter
<1>7. ASSUME SetEvent \/ ResetEvent PROVE MonitorIInv'
  <2>1. MaxUnits \in Nat /\ 1 <= MaxUnits
    BY MonitorAssumption DEF MonitorAssumption
  <2>2. ResetEvent => ~MayReturn'
    BY DEF ResetEvent, MayReturn
  <2>3. value' \in Nat /\ value' <= MaxUnits
    BY <1>7, <2>1 DEF SetEvent, ResetEvent
  <2> QED
    BY <1>7, <2>2, <2>3, SignalKeeps DEF SetEvent, ResetEvent
<1>8. ASSUME CountDown PROVE MonitorIInv'
  <2>1. value \in Nat /\ value <= MaxUnits /\ value > 0 /\ monitor = "latch" /\ value' = value - 1
        /\ monitor' = monitor /\ MaxUnits \in Nat
    BY <1>8, MonitorAssumption DEF CountDown, MonitorIInv, MonitorAssumption
  <2>2. value' \in Nat /\ value' <= MaxUnits /\ (value # 1 => value' # 0)
    BY <2>1
  <2>3. value # 1 => ~MayReturn'
    BY <2>1, <2>2 DEF MayReturn
  <2> QED
    BY <1>8, <2>1, <2>2, <2>3, SignalKeeps DEF CountDown
<1>9. ASSUME LinkTo \/ \E token \in {"own", "other"} : CancelToken(token) PROVE MonitorIInv'
  <2>1. /\ monitor = "token" /\ UNCHANGED <<monitor, value, station, owed, released, passed>>
        /\ tokens_set' \subseteq {"own", "other"} /\ linked' \in BOOLEAN
    BY <1>9 DEF LinkTo, CancelToken, MonitorIInv
  <2>2. passed' \in Nat /\ station' \in [Waiters -> {"out", "asleep", "awake"}]
    BY <2>1 DEF MonitorIInv
  <2> QED
    BY <2>1, <2>2, TokenKeeps
<1> QED
  BY <1>1, <1>2, <1>3, <1>4, <1>5, <1>6, <1>7, <1>8, <1>9, ReleaseKeepsUnits DEF MonitorNext

\* It begins so, and implies the types and what each monitor promises.
LEMMA MonitorBegins == MonitorInit => MonitorIInv
<1> SUFFICES ASSUME MonitorInit PROVE MonitorIInv
  OBVIOUS
<1>1. MaxUnits \in Nat /\ 1 <= MaxUnits
  BY MonitorAssumption DEF MonitorAssumption
<1>2. /\ monitor = "semaphore" => value = 1
      /\ monitor = "latch" => value = MaxUnits
      /\ monitor \in {"event", "token"} => value = 0
      /\ monitor \in {"semaphore", "event", "latch", "token"}
  BY DEF MonitorInit
<1>3. value \in Nat /\ (monitor # "semaphore" => value <= MaxUnits)
  BY <1>1, <1>2
<1>4. MonitorSleepers = {}
  BY DEF MonitorInit, MonitorSleepers, In
<1>5. UnitsInv /\ SignalsInv
  BY <1>1, <1>2, <1>4 DEF MonitorInit, UnitsInv, SignalsInv
<1>6. owed = 0 /\ released = 0 /\ passed = 0 /\ tokens_set = {} /\ linked = FALSE
  BY DEF MonitorInit
<1>7. /\ owed \in Nat /\ released \in 0..MaxUnits /\ passed \in Nat /\ owed <= released
      /\ tokens_set \subseteq {"own", "other"}
  BY <1>1, <1>6
<1>9. linked \in BOOLEAN
  BY <1>6
<1>8. station \in [Waiters -> {"out", "asleep", "awake"}]
  BY DEF MonitorInit
<1> QED
  BY <1>2, <1>3, <1>5, <1>7, <1>8, <1>9 DEF MonitorIInv, MonitorInv

\* It implies what the runs check.
LEMMA MonitorHolds == MonitorIInv => MonitorTypeOK /\ MonitorInv
<1> SUFFICES ASSUME MonitorIInv PROVE MonitorTypeOK /\ MonitorInv
  OBVIOUS
<1>1. MaxUnits \in Nat /\ value \in Nat /\ passed \in Nat /\ owed \in Nat /\ released \in Nat
      /\ released <= MaxUnits /\ owed <= released
  BY MonitorAssumption DEF MonitorAssumption, MonitorIInv
<1>2. value <= MaxUnits + 1
  <2>1. monitor = "semaphore" => value + passed = 1 + released
    BY DEF MonitorIInv, MonitorInv, UnitsInv
  <2>2. monitor # "semaphore" => value <= MaxUnits
    BY DEF MonitorIInv
  <2> QED
    BY <1>1, <2>1, <2>2
<1>3. value \in 0..(MaxUnits + 1) /\ owed \in 0..MaxUnits /\ released \in 0..MaxUnits
  BY <1>1, <1>2
<1> QED
  BY <1>3 DEF MonitorIInv, MonitorTypeOK

\* A semaphore neither loses nor makes units and no wake-up is lost; nobody sleeps
\* through a set, the last count or a cancel.
THEOREM MonitorInvariant == MonitorSpec => [](MonitorTypeOK /\ MonitorInv)
BY MonitorBegins, MonitorStays, MonitorHolds, PTL DEF MonitorSpec

-----------------------------------------------------------------------------
(***************************************************************************)
(* call_once(), for any number of threads: the flag tells whether somebody *)
(* runs the function, and who that is is unique.                           *)
(***************************************************************************)

OnceIInv ==
  /\ OnceTypeOK
  /\ \A t \in FlagThreads : place[t] = "runs" => once_state = "Running"
  /\ \A t, u \in FlagThreads : place[t] = "runs" /\ place[u] = "runs" => t = u
  /\ once_state = "Running" => \E t \in FlagThreads : place[t] = "runs"
  /\ runs = 1 <=> once_state = "Done"
  /\ \A t \in FlagThreads : place[t] = "false" => once_state = "Done"

\* The one who runs the function stays alone, or leaves the flag to the next.
LEMMA OnceStays == OnceIInv /\ [OnceNext]_onceVars => OnceIInv'
<1> SUFFICES ASSUME OnceIInv, [OnceNext]_onceVars PROVE OnceIInv'
  OBVIOUS
<1>t. /\ once_state \in {"Idle", "Running", "Done"} /\ runs \in 0..1 /\ throws \in 0..MaxThrows
      /\ place \in [FlagThreads -> Resting \cup {"runs", "spins"}] /\ MaxThrows \in Nat
  BY OnceAssumption DEF OnceAssumption, OnceIInv, OnceTypeOK
<1>1. CASE UNCHANGED onceVars
  BY <1>1 DEF OnceIInv, OnceTypeOK, onceVars
<1>2. ASSUME NEW t \in FlagThreads, Call(t) PROVE OnceIInv'
  <2>1. OnceTypeOK'
    BY <1>2, <1>t DEF Call, OnceTypeOK, Resting
  <2>2. CASE once_state = "Idle"
    <3>1. once_state' = "Running" /\ place' = [place EXCEPT ![t] = "runs"] /\ UNCHANGED runs
      BY <1>2, <2>2 DEF Call, WinsExchange
    <3>2. /\ place'[t] = "runs" /\ \A u \in FlagThreads : u # t => place'[u] = place[u]
      BY <1>t, <3>1
    <3>3. \A u \in FlagThreads : place[u] # "runs" /\ place[u] # "false"
      BY <2>2 DEF OnceIInv
    <3> QED
      BY <2>1, <2>2, <3>1, <3>2, <3>3 DEF OnceIInv
  <2>3. CASE once_state # "Idle"
    <3>1. /\ UNCHANGED <<once_state, runs>> /\ place[t] # "runs"
          /\ place' = [place EXCEPT ![t] = IF once_state = "Done" THEN "false" ELSE "spins"]
      BY <1>2, <2>3 DEF Call, WinsExchange, Resting
    <3>2. /\ place'[t] # "runs" /\ (place'[t] = "false" => once_state = "Done")
          /\ \A u \in FlagThreads : u # t => place'[u] = place[u]
      BY <1>t, <3>1
    <3> QED
      BY <2>1, <3>1, <3>2 DEF OnceIInv
  <2> QED
    BY <2>2, <2>3
<1>3. ASSUME NEW t \in FlagThreads, Spin(t) PROVE OnceIInv'
  <2>1. OnceTypeOK'
    BY <1>3, <1>t DEF Spin, OnceTypeOK, Resting
  <2>2. /\ UNCHANGED <<once_state, runs>> /\ once_state = "Done" /\ place'[t] = "false"
        /\ \A u \in FlagThreads : u # t => place'[u] = place[u]
    BY <1>3, <1>t DEF Spin, SpinsOver
  <2> QED
    BY <2>1, <2>2 DEF OnceIInv
<1>4. ASSUME NEW t \in FlagThreads, Completes(t) \/ Throws(t) PROVE OnceIInv'
  <2>1. /\ place[t] = "runs" /\ once_state = "Running" /\ runs = 0
        /\ \A u \in FlagThreads : u # t => place[u] # "runs" /\ place[u] # "false"
    <3>1. place[t] = "runs"
      BY <1>4 DEF Completes, Throws
    <3>2. runs # 1
      BY <3>1 DEF OnceIInv
    <3>3. runs = 0
      BY <1>t, <3>2
    <3> QED
      BY <3>1, <3>3 DEF OnceIInv
  <2>2. OnceTypeOK'
    BY <1>4, <1>t, <2>1 DEF Completes, Throws, OnceTypeOK, Resting
  <2>3. /\ place'[t] \in {"true", "threw"} /\ \A u \in FlagThreads : u # t => place'[u] = place[u]
        /\ \/ once_state' = "Done" /\ runs' = 1
           \/ once_state' = "Idle" /\ runs' = 0
    BY <1>4, <1>t, <2>1 DEF Completes, Throws
  <2>4. \A u \in FlagThreads : place'[u] # "runs" /\ place'[u] # "false"
    BY <2>1, <2>3
  <2> QED
    BY <2>2, <2>3, <2>4 DEF OnceIInv
<1> QED
  BY <1>1, <1>2, <1>3, <1>4 DEF OnceNext

\* One thread runs the function at a time and none after it completed, who is told
\* false may rely on that, and a flag is never taken by nobody.
THEOREM OnceInvariant == OnceSpec => [](OnceTypeOK /\ OnceInv)
<1>1. OnceInit => OnceIInv
  BY OnceAssumption DEF OnceAssumption, OnceInit, OnceIInv, OnceTypeOK, Resting
<1>2. ASSUME OnceIInv PROVE OnceTypeOK /\ OnceInv
  <2>1. Cardinality({t \in FlagThreads : place[t] = "runs"}) <= 1
    <3>1. CASE \A t \in FlagThreads : place[t] # "runs"
      <4>1. {t \in FlagThreads : place[t] = "runs"} = {}
        BY <3>1
      <4> QED
        BY <4>1, FS_EmptySet
    <3>2. CASE \E t \in FlagThreads : place[t] = "runs"
      <4>1. PICK t \in FlagThreads : {u \in FlagThreads : place[u] = "runs"} = {t}
        BY <1>2, <3>2 DEF OnceIInv
      <4> QED
        BY <4>1, FS_Singleton
    <3> QED
      BY <3>1, <3>2
  <2>2. (\E t \in FlagThreads : place[t] = "runs") => runs = 0
    <3>1. (\E t \in FlagThreads : place[t] = "runs") => runs # 1
      BY <1>2 DEF OnceIInv
    <3>2. runs \in {0, 1}
      BY <1>2 DEF OnceIInv, OnceTypeOK
    <3> QED
      BY <3>1, <3>2
  <2>3. FalseMeansDone /\ Retriable
    BY <1>2 DEF OnceIInv, FalseMeansDone, Retriable
  <2> QED
    BY <1>2, <2>1, <2>2, <2>3 DEF OnceIInv, OnceInv, OneRunner
<1> QED
  BY <1>1, <1>2, OnceStays, PTL DEF OnceSpec

\* The queue, the flag and the signals, which share nothing, at once.
THEOREM MonitorsKept == QueueSpec /\ OnceSpec /\ MonitorSpec => []MonitorsInv
<1>1. (MonitorTypeOK /\ MonitorInv) /\ (OnceTypeOK /\ OnceInv) /\ QueueInv => MonitorsInv
  BY DEF MonitorsInv
<1> QED
  BY <1>1, QueueInvariant, OnceInvariant, MonitorInvariant, PTL

-----------------------------------------------------------------------------
(***************************************************************************)
(* The scheduler's map, for any tasks, delays and lag.  A list that is in  *)
(* the order of the multimap stays so when the head is dropped, an entry   *)
(* goes in behind those with the same key, one is taken out, or the clock  *)
(* ticks; it holds every task once; and what is over is marked in it.      *)
(***************************************************************************)

\* Indices that hold with each of them all smaller ones are the first so many.
LEMMA InitialSegment ==
  ASSUME NEW n \in Nat, NEW S \in SUBSET (1..n), \A i \in S : 1..i \subseteq S
  PROVE  Cardinality(S) \in 0..n /\ S = 1..Cardinality(S)
<1>1. IsFiniteSet(1..n) /\ Cardinality(1..n) = n
  BY FS_Interval
<1>2. IsFiniteSet(S) /\ Cardinality(S) <= n
  <2>1. S \subseteq 1..n
    OBVIOUS
  <2> QED
    BY ONLY <1>1, <2>1, FS_Subset
<1>3. Cardinality(S) \in Nat
  BY ONLY <1>2, FS_CardinalityType
<1>4. ASSUME NEW i \in S PROVE i <= Cardinality(S)
  <2>1. 1..i \subseteq S /\ i \in 1..n
    BY <1>4
  <2>2. Cardinality(1..i) = i
    BY <2>1, FS_Interval
  <2> QED
    BY <1>2, <2>1, <2>2, FS_Subset
<1>5. ASSUME NEW i \in 1..n, i \notin S PROVE Cardinality(S) < i
  <2>1. S \subseteq 1..(i - 1)
    <3> SUFFICES ASSUME NEW j \in S, j \notin 1..(i - 1) PROVE FALSE
      OBVIOUS
    <3>1. j \in 1..n /\ i \in 1..j
      OBVIOUS
    <3> QED
      BY <1>5, <3>1
  <2>2. IsFiniteSet(1..(i - 1)) /\ Cardinality(1..(i - 1)) = i - 1
    BY FS_Interval
  <2>3. Cardinality(S) <= i - 1
    BY <2>1, <2>2, FS_Subset
  <2> QED
    BY <1>3, <2>3
<1>6. S \subseteq 1..Cardinality(S)
  <2> SUFFICES ASSUME NEW i \in S PROVE i \in 1..Cardinality(S)
    OBVIOUS
  <2>1. i \in 1..n /\ i <= Cardinality(S)
    BY <1>4
  <2> QED
    BY <1>3, <2>1
<1>7. 1..Cardinality(S) \subseteq S
  <2> SUFFICES ASSUME NEW i \in 1..Cardinality(S), i \notin S PROVE FALSE
    OBVIOUS
  <2>1. i \in 1..n
    BY <1>2, <1>3
  <2> QED
    BY <1>3, <1>5, <2>1
<1>8. Cardinality(S) \in 0..n
  BY <1>2, <1>3
<1> QED
  BY ONLY <1>6, <1>7, <1>8

\* The list in the order of the multimap, each task once, and each of those in
\* stopped marked as cancelled.
InOrderOfTime(map) == \A i, j \in DOMAIN map : i <= j => map[i].left <= map[j].left
EachOnce(map) == \A i, j \in DOMAIN map : map[i].id = map[j].id => i = j
Queued(map, stopped) ==
  /\ map \in Seq(Task)
  /\ InOrderOfTime(map) /\ EachOnce(map)
  /\ \A i \in DOMAIN map : map[i].id \in stopped => map[i].cancelled

\* The place of an entry in a list from which the first h are dropped.
LEMMA QueuedSuffix ==
  ASSUME NEW map, NEW stopped, Queued(map, stopped), NEW h \in 0..Len(map)
  PROVE  LET rest == SubSeq(map, h + 1, Len(map))
         IN  /\ Queued(rest, stopped)
             /\ Len(rest) = Len(map) - h
             /\ \A i \in 1..Len(map) - h : rest[i] = map[i + h]
<1> DEFINE rest == SubSeq(map, h + 1, Len(map))
<1>1. map \in Seq(Task) /\ Len(map) \in Nat /\ DOMAIN map = 1..Len(map)
  BY LenProperties DEF Queued
<1>2. \A i \in (h + 1)..Len(map) : map[i] \in Task
  BY <1>1, ElementOfSeq
<1>3. /\ rest \in Seq(Task)
      /\ Len(rest) = IF h + 1 <= Len(map) THEN Len(map) - (h + 1) + 1 ELSE 0
      /\ \A i \in 1..(Len(map) - (h + 1) + 1) : rest[i] = map[(h + 1) + i - 1]
  <2>1. h + 1 \in Int /\ Len(map) \in Int
    BY <1>1
  <2> QED
    BY <1>2, <2>1, SubSeqProperties
<1> HIDE DEF rest
<1>4. Len(rest) = Len(map) - h /\ \A i \in 1..(Len(map) - h) : rest[i] = map[i + h]
  <2>1. Len(rest) = Len(map) - h
    <3>1. Len(map) \in Nat /\ h \in 0..Len(map)
      BY <1>1
    <3>2. Len(rest) = IF h + 1 <= Len(map) THEN Len(map) - (h + 1) + 1 ELSE 0
      BY <1>3
    <3> QED
      BY ONLY <3>1, <3>2
  <2>2. ASSUME NEW i \in 1..(Len(map) - h) PROVE rest[i] = map[i + h]
    <3>1. i \in 1..(Len(map) - (h + 1) + 1) /\ (h + 1) + i - 1 = i + h
      BY <1>1
    <3> QED
      BY <1>3, <3>1
  <2> QED
    BY <2>1, <2>2
<1>5. DOMAIN rest = 1..(Len(map) - h)
  BY <1>3, <1>4, LenProperties
<1>6. Queued(rest, stopped)
  <2>1. \A i \in DOMAIN rest : i + h \in DOMAIN map /\ rest[i] = map[i + h]
    BY <1>1, <1>4, <1>5
  <2>2. InOrderOfTime(rest)
    <3> SUFFICES ASSUME NEW i \in DOMAIN rest, NEW j \in DOMAIN rest, i <= j
                 PROVE  rest[i].left <= rest[j].left
      BY DEF InOrderOfTime
    <3>1. i + h <= j + h
      BY <1>1, <1>5
    <3> QED
      BY <2>1, <3>1 DEF Queued, InOrderOfTime
  <2>3. EachOnce(rest)
    <3> SUFFICES ASSUME NEW i \in DOMAIN rest, NEW j \in DOMAIN rest, rest[i].id = rest[j].id
                 PROVE  i = j
      BY DEF EachOnce
    <3>1. i + h = j + h
      BY <2>1 DEF Queued, EachOnce
    <3> QED
      BY <1>1, <1>5, <3>1
  <2>4. \A i \in DOMAIN rest : rest[i].id \in stopped => rest[i].cancelled
    BY <2>1 DEF Queued
  <2> QED
    BY <1>3, <2>2, <2>3, <2>4 DEF Queued
<1> QED
  BY <1>4, <1>6 DEF rest

\* insert() puts a task behind those with the same key.
LEMMA QueuedInsert ==
  ASSUME NEW map, NEW stopped, Queued(map, stopped), NEW t \in Task,
         \A i \in DOMAIN map : map[i].id # t.id,
         t.id \in stopped => t.cancelled
  PROVE  /\ Queued(Insert(map, t), stopped)
         /\ \A i \in DOMAIN Insert(map, t) :
              Insert(map, t)[i] = t \/ \E j \in DOMAIN map : Insert(map, t)[i] = map[j]
<1> DEFINE before == {i \in DOMAIN map : map[i].left <= t.left}
           p == Cardinality(before)
           front == SubSeq(map, 1, p)
           back == SubSeq(map, p + 1, Len(map))
           new == Insert(map, t)
<1>1. map \in Seq(Task) /\ Len(map) \in Nat /\ DOMAIN map = 1..Len(map)
  BY LenProperties DEF Queued
<1>2. \A i \in 1..Len(map) : map[i] \in Task
  BY <1>1, ElementOfSeq
<1>3. \A s \in Task : s.left \in Int
  BY DEF Task
<1>4. p \in 0..Len(map) /\ before = 1..p
  <2>1. before \in SUBSET (1..Len(map))
    BY <1>1
  <2>2. ASSUME NEW i \in before, NEW j \in 1..i PROVE j \in before
    <3>1. i \in DOMAIN map /\ j \in DOMAIN map /\ j <= i /\ map[i].left <= t.left
      BY <1>1, <2>2
    <3>2. map[j].left <= map[i].left
      BY <3>1 DEF Queued, InOrderOfTime
    <3>3. map[j].left \in Int /\ map[i].left \in Int /\ t.left \in Int
      BY <1>1, <1>2, <1>3, <3>1
    <3>4. map[j].left <= t.left
      BY <3>1, <3>2, <3>3
    <3> QED
      BY <3>1, <3>4
  <2> HIDE DEF before
  <2>3. \A i \in before : 1..i \subseteq before
    BY <2>2
  <2> QED
    BY ONLY <1>1, <2>1, <2>3, InitialSegment
<1> HIDE DEF p
<1>5. /\ \A i \in 1..p : map[i].left <= t.left
      /\ \A i \in (p + 1)..Len(map) : t.left <= map[i].left
  <2>1. \A i \in 1..p : i \in before
    BY <1>4
  <2>2. \A i \in (p + 1)..Len(map) : i \notin before /\ i \in DOMAIN map
    BY <1>1, <1>4
  <2>3. \A i \in (p + 1)..Len(map) : map[i].left \in Int /\ t.left \in Int
    BY <1>1, <1>2, <1>3, <1>4
  <2> QED
    BY <2>1, <2>2, <2>3
<1> HIDE DEF before
<1>6. /\ front \in Seq(Task) /\ Len(front) = p
      /\ \A i \in 1..p : front[i] = map[i]
  <2>1. \A i \in 1..p : map[i] \in Task
    BY <1>2, <1>4
  <2>2. 1 \in Int /\ p \in Int
    BY <1>4
  <2>3. /\ front \in Seq(Task) /\ Len(front) = IF 1 <= p THEN p - 1 + 1 ELSE 0
        /\ \A i \in 1..(p - 1 + 1) : front[i] = map[1 + i - 1]
    BY ONLY <2>1, <2>2, SubSeqProperties
  <2> QED
    BY <1>4, <2>3
<1>7. /\ back \in Seq(Task) /\ Len(back) = Len(map) - p
      /\ \A i \in 1..(Len(map) - p) : back[i] = map[i + p]
  <2>1. \A i \in (p + 1)..Len(map) : map[i] \in Task
    BY <1>2, <1>4
  <2>2. p + 1 \in Int /\ Len(map) \in Int
    BY <1>1, <1>4
  <2>3. /\ back \in Seq(Task) /\ Len(back) = IF p + 1 <= Len(map) THEN Len(map) - (p + 1) + 1 ELSE 0
        /\ \A i \in 1..(Len(map) - (p + 1) + 1) : back[i] = map[(p + 1) + i - 1]
    BY ONLY <2>1, <2>2, SubSeqProperties
  <2> HIDE DEF front, back, new
  <2>4. Len(back) = Len(map) - p
    <3> DEFINE l == Len(map)
               b == Len(back)
    <3>1. l \in Nat /\ p \in 0..l /\ b = IF p + 1 <= l THEN l - (p + 1) + 1 ELSE 0
      BY <1>1, <1>4, <2>3
    <3> HIDE DEF l, b
    <3>2. b = l - p
      BY ONLY <3>1
    <3> QED
      BY <3>2 DEF l, b
  <2>5. \A i \in 1..(Len(map) - p) : back[i] = map[i + p]
    <3> SUFFICES ASSUME NEW i \in 1..(Len(map) - p) PROVE back[i] = map[i + p]
      OBVIOUS
    <3>1. i \in 1..(Len(map) - (p + 1) + 1) /\ (p + 1) + i - 1 = i + p
      BY ONLY <1>1, <1>4, i \in 1..(Len(map) - p)
    <3> QED
      BY <2>3, <3>1
  <2> QED
    BY <2>3, <2>4, <2>5
<1>8. new = front \o <<t>> \o back
  <2>1. (p + 1) - 1 = p
    BY <1>4
  <2> QED
    BY <2>1 DEF Insert, InsertAt, p, before
<1> HIDE DEF front, back, new
<1>9. /\ new \in Seq(Task) /\ Len(new) = Len(map) + 1
      /\ \A i \in 1..(Len(map) + 1) :
           new[i] = IF i <= p THEN map[i] ELSE IF i = p + 1 THEN t ELSE map[i - 1]
  <2>1. <<t>> \in Seq(Task) /\ Len(<<t>>) = 1 /\ <<t>>[1] = t
    OBVIOUS
  <2>2. /\ front \o <<t>> \in Seq(Task) /\ Len(front \o <<t>>) = p + 1
        /\ \A i \in 1..(p + 1) : (front \o <<t>>)[i] = IF i <= p THEN front[i] ELSE <<t>>[i - p]
    BY ONLY <1>6, <2>1, ConcatProperties
  <2>3. \A i \in 1..(p + 1) : (front \o <<t>>)[i] = IF i <= p THEN map[i] ELSE t
    BY <1>4, <1>6, <2>1, <2>2
  <2>4. /\ new \in Seq(Task) /\ Len(new) = (p + 1) + (Len(map) - p)
        /\ \A i \in 1..((p + 1) + (Len(map) - p)) :
             new[i] = IF i <= p + 1 THEN (front \o <<t>>)[i] ELSE back[i - (p + 1)]
    <3> DEFINE most == front \o <<t>>
    <3>a. most \in Seq(Task) /\ new = most \o back /\ back \in Seq(Task)
      BY <1>7, <1>8, <2>2
    <3> HIDE DEF most
    <3>b. /\ new \in Seq(Task) /\ Len(new) = Len(most) + Len(back)
          /\ \A i \in 1..(Len(most) + Len(back)) :
               new[i] = IF i <= Len(most) THEN most[i] ELSE back[i - Len(most)]
      BY ONLY <3>a, ConcatProperties
    <3>1. /\ new \in Seq(Task) /\ Len(new) = Len(front \o <<t>>) + Len(back)
          /\ \A i \in 1..(Len(front \o <<t>>) + Len(back)) :
               new[i] = IF i <= Len(front \o <<t>>) THEN (front \o <<t>>)[i]
                        ELSE back[i - Len(front \o <<t>>)]
      BY ONLY <3>b DEF most
    <3> QED
      BY ONLY <1>7, <2>2, <3>1
  <2>5. ASSUME NEW i \in 1..(Len(map) + 1)
        PROVE  new[i] = IF i <= p THEN map[i] ELSE IF i = p + 1 THEN t ELSE map[i - 1]
    <3>1. i \in 1..((p + 1) + (Len(map) - p))
      BY <1>1, <1>4
    <3>2. CASE i <= p + 1
      <4>1. i \in 1..(p + 1) /\ (i <= p \/ i = p + 1) /\ p \in Int /\ i \in Int
        BY <1>4, <3>2
      <4>2. new[i] = IF i <= p THEN map[i] ELSE t
        BY <2>3, <2>4, <3>1, <3>2, <4>1
      <4> QED
        BY <4>1, <4>2
    <3>3. CASE i > p + 1
      <4>1. i - (p + 1) \in 1..(Len(map) - p) /\ (i - (p + 1)) + p = i - 1 /\ ~(i <= p + 1)
        BY <1>1, <1>4, <3>3
      <4>2. new[i] = map[i - 1]
        BY <1>7, <2>4, <3>1, <4>1
      <4> QED
        BY <1>4, <3>3, <4>2
    <3> QED
      BY <1>1, <1>4, <3>2, <3>3
  <2>6. Len(new) = Len(map) + 1
    BY <1>1, <1>4, <2>4
  <2> QED
    BY <2>4, <2>5, <2>6
<1>10. DOMAIN new = 1..(Len(map) + 1)
  BY <1>9, LenProperties
<1> DEFINE old(i) == IF i <= p THEN i ELSE i - 1
<1>11. \A i \in DOMAIN new : i # p + 1 => old(i) \in DOMAIN map /\ new[i] = map[old(i)]
  BY <1>1, <1>4, <1>9, <1>10
<1>12. p + 1 \in DOMAIN new /\ new[p + 1] = t
  BY <1>1, <1>4, <1>9, <1>10
<1>13. InOrderOfTime(new)
  <2> SUFFICES ASSUME NEW i \in DOMAIN new, NEW j \in DOMAIN new, i <= j
               PROVE  new[i].left <= new[j].left
    BY DEF InOrderOfTime
  <2>0. \A k \in DOMAIN new : new[k].left \in Int
    BY <1>3, <1>9, <1>10, ElementOfSeq
  <2>1. CASE i # p + 1 /\ j # p + 1
    <3>1. old(i) <= old(j)
      BY <1>1, <1>4, <1>10, <2>1
    <3> QED
      BY <1>11, <2>1, <3>1 DEF Queued, InOrderOfTime
  <2>2. CASE i = p + 1 /\ j # p + 1
    <3>1. old(j) \in (p + 1)..Len(map)
      BY <1>1, <1>4, <1>10, <2>2
    <3> QED
      BY <1>5, <1>11, <1>12, <2>2, <3>1
  <2>3. CASE i # p + 1 /\ j = p + 1
    <3>1. old(i) \in 1..p
      BY <1>1, <1>4, <1>10, <2>3
    <3> QED
      BY <1>5, <1>11, <1>12, <2>3, <3>1
  <2>4. CASE i = j
    BY <2>0, <2>4
  <2> QED
    BY <2>1, <2>2, <2>3, <2>4
<1>14. EachOnce(new)
  <2> SUFFICES ASSUME NEW i \in DOMAIN new, NEW j \in DOMAIN new, new[i].id = new[j].id
               PROVE  i = j
    BY DEF EachOnce
  <2>1. CASE i # p + 1 /\ j # p + 1
    <3>1. old(i) = old(j)
      BY <1>11, <2>1 DEF Queued, EachOnce
    <3> QED
      BY <1>1, <1>4, <1>10, <2>1, <3>1
  <2>2. CASE i = p + 1 \/ j = p + 1
    BY <1>11, <1>12, <2>2
  <2> QED
    BY <2>1, <2>2
<1>15. \A i \in DOMAIN new : new[i].id \in stopped => new[i].cancelled
  BY <1>11, <1>12 DEF Queued
<1>16. \A i \in DOMAIN new : new[i] = t \/ \E j \in DOMAIN map : new[i] = map[j]
  BY <1>11, <1>12
<1> QED
  BY <1>9, <1>13, <1>14, <1>15, <1>16 DEF Queued, new

\* Taking a task out leaves the others in order; none of that id is left.
LEMMA QueuedRemove ==
  ASSUME NEW map, NEW stopped, Queued(map, stopped), NEW k \in DOMAIN map
  PROVE  /\ Queued(RemoveAt(map, k), stopped \cup {map[k].id})
         /\ \A i \in DOMAIN RemoveAt(map, k) :
              \E j \in DOMAIN map : RemoveAt(map, k)[i] = map[j]
<1> DEFINE new == RemoveAt(map, k)
           old(i) == IF i < k THEN i ELSE i + 1
<1>1. map \in Seq(Task) /\ Len(map) \in Nat /\ DOMAIN map = 1..Len(map) /\ k \in 1..Len(map)
  BY LenProperties DEF Queued
<1>2. /\ new \in Seq(Task) /\ Len(new) = Len(map) - 1
      /\ \A i \in 1..(Len(map) - 1) : new[i] = map[old(i)]
  BY <1>1, RemoveAtProperties
<1> HIDE DEF new
<1>3. DOMAIN new = 1..(Len(map) - 1)
  BY <1>2, LenProperties
<1>4. \A i \in DOMAIN new : old(i) \in DOMAIN map /\ old(i) # k /\ new[i] = map[old(i)]
  BY <1>1, <1>2, <1>3
<1>5. InOrderOfTime(new)
  <2> SUFFICES ASSUME NEW i \in DOMAIN new, NEW j \in DOMAIN new, i <= j
               PROVE  new[i].left <= new[j].left
    BY DEF InOrderOfTime
  <2>1. old(i) <= old(j)
    BY <1>1, <1>3
  <2> QED
    BY <1>4, <2>1 DEF Queued, InOrderOfTime
<1>6. EachOnce(new)
  <2> SUFFICES ASSUME NEW i \in DOMAIN new, NEW j \in DOMAIN new, new[i].id = new[j].id
               PROVE  i = j
    BY DEF EachOnce
  <2>1. old(i) = old(j)
    BY <1>4 DEF Queued, EachOnce
  <2> QED
    BY <1>1, <1>3, <2>1
<1>7. \A i \in DOMAIN new : new[i].id # map[k].id
  BY <1>4 DEF Queued, EachOnce
<1>8. \A i \in DOMAIN new : new[i].id \in stopped => new[i].cancelled
  BY <1>4 DEF Queued
<1> QED
  BY <1>2, <1>4, <1>5, <1>6, <1>7, <1>8 DEF Queued, new

\* What is marked, or moves with the clock, keeps its place.
LEMMA QueuedChanged ==
  ASSUME NEW map, NEW stopped, Queued(map, stopped), NEW later,
         NEW new, DOMAIN new = DOMAIN map,
         new = [i \in DOMAIN map |-> new[i]],
         \A i \in DOMAIN map :
           /\ new[i] \in Task /\ new[i].id = map[i].id
           /\ map[i].cancelled => new[i].cancelled
           /\ map[i].id \in later => map[i].id \in stopped \/ new[i].cancelled,
         \A i, j \in DOMAIN map : map[i].left <= map[j].left => new[i].left <= new[j].left
  PROVE  Queued(new, later)
<1>1. map \in Seq(Task) /\ Len(map) \in Nat /\ DOMAIN map = 1..Len(map)
  BY LenProperties DEF Queued
<1>2. new \in Seq(Task)
  <2>1. new \in [1..Len(map) -> Task]
    BY <1>1
  <2> QED
    BY <1>1, <2>1, SeqDef
<1>4. InOrderOfTime(new)
  <2> SUFFICES ASSUME NEW i \in DOMAIN map, NEW j \in DOMAIN map, i <= j
               PROVE  new[i].left <= new[j].left
    BY DEF InOrderOfTime
  <2> QED
    BY DEF Queued, InOrderOfTime
<1>5. EachOnce(new)
  BY DEF Queued, EachOnce
<1>6. \A i \in DOMAIN new : new[i].id \in later => new[i].cancelled
  BY DEF Queued
<1> QED
  BY <1>2, <1>4, <1>5, <1>6 DEF Queued

\* Marking tasks as cancelled puts their ids among those that are over.
LEMMA QueuedMarked ==
  ASSUME NEW map, NEW stopped, Queued(map, stopped), NEW ids, NEW later,
         \A i \in DOMAIN map : map[i].id \in later => map[i].id \in stopped \/ map[i].id \in ids
  PROVE  /\ Queued(Marked(map, ids), later)
         /\ DOMAIN Marked(map, ids) = DOMAIN map
         /\ \A i \in DOMAIN map : Marked(map, ids)[i].id = map[i].id
<1>0. map \in Seq(Task) /\ Len(map) \in Nat /\ DOMAIN map = 1..Len(map)
  BY LenProperties DEF Queued
<1>1. \A i \in DOMAIN map : map[i] \in Task
  BY <1>0, ElementOfSeq
<1> DEFINE new == Marked(map, ids)
<1>2. /\ DOMAIN new = DOMAIN map
      /\ new = [i \in DOMAIN map |-> new[i]]
  BY DEF Marked
<1>3. ASSUME NEW i \in DOMAIN map
      PROVE  /\ new[i] \in Task /\ new[i].id = map[i].id /\ new[i].left = map[i].left
             /\ map[i].cancelled => new[i].cancelled
             /\ map[i].id \in later => map[i].id \in stopped \/ new[i].cancelled
  <2>1. map[i] \in Task
    BY <1>1
  <2>2. CASE map[i].id \in ids
    <3>1. new[i] = [map[i] EXCEPT !.cancelled = TRUE]
      BY <2>2 DEF Marked
    <3>2. new[i] \in Task /\ new[i].id = map[i].id /\ new[i].left = map[i].left /\ new[i].cancelled
      BY <2>1, <3>1 DEF Task
    <3> QED
      BY <2>1, <3>2
  <2>3. CASE map[i].id \notin ids
    <3>1. new[i] = map[i]
      BY <2>3 DEF Marked
    <3> QED
      BY <2>1, <2>3, <3>1
  <2> QED
    BY <2>2, <2>3
<1> HIDE DEF new
<1>4. Queued(new, later)
  BY <1>2, <1>3, QueuedChanged
<1> QED
  BY <1>2, <1>3, <1>4 DEF new

\* Types, with the list in its order, and ids that are given once: what is over is
\* marked in the list, and so is not the task that runs unless it may run again.
SchedulerIInv ==
  /\ next_id \in 1..MaxId + 1
  /\ phase \in {"check", "run", "wait", "asleep", "done"}
  /\ ready \in Task \cup {Nothing}
  /\ next_wake \in Int \cup {Nothing}
  /\ over \subseteq TaskIds
  /\ stopping \in BOOLEAN
  /\ Queued(scheduled, over)
  /\ \A i \in DOMAIN scheduled : scheduled[i].id < next_id
  /\ \A i \in over : i < next_id
  /\ phase = "run" => /\ ready \in Task
                      /\ ready.id < next_id
                      /\ ready.interval = 0 => ready.id \in over

\* The entries of a list are tasks, and have places.
LEMMA EntriesAre ==
  ASSUME NEW map, NEW stopped, Queued(map, stopped)
  PROVE  /\ map \in Seq(Task) /\ Len(map) \in Nat /\ DOMAIN map = 1..Len(map)
         /\ \A i \in DOMAIN map : map[i] \in Task
<1>1. map \in Seq(Task) /\ Len(map) \in Nat /\ DOMAIN map = 1..Len(map)
  BY LenProperties DEF Queued
<1> QED
  BY <1>1, ElementOfSeq

\* What is left when the cancelled tasks at the head are swept: its head waits for
\* nobody, and the rest is without it.
LEMMA SweptIs ==
  ASSUME SchedulerIInv
  PROVE  /\ Queued(Swept, over)
         /\ \A i \in DOMAIN Swept : \E j \in DOMAIN scheduled : Swept[i] = scheduled[j]
         /\ Swept # <<>> =>
              /\ Head(Swept) \in Task /\ ~Head(Swept).cancelled /\ Head(Swept).id < next_id
              /\ \A k \in DOMAIN scheduled :
                   scheduled[k].cancelled \/ Head(Swept).left <= scheduled[k].left
              /\ Queued(Tail(Swept), over \cup {Head(Swept).id})
              /\ \A i \in DOMAIN Tail(Swept) :
                   Tail(Swept)[i].id # Head(Swept).id /\ Tail(Swept)[i].id < next_id
<1> DEFINE head == {k \in DOMAIN scheduled : \A m \in 1..k : scheduled[m].cancelled}
           h == Cardinality(head)
<1>1. /\ scheduled \in Seq(Task) /\ Len(scheduled) \in Nat /\ DOMAIN scheduled = 1..Len(scheduled)
      /\ Queued(scheduled, over)
  BY EntriesAre DEF SchedulerIInv
<1>2. h \in 0..Len(scheduled) /\ head = 1..h
  <2>1. head \in SUBSET (1..Len(scheduled))
    BY <1>1
  <2>2. ASSUME NEW i \in head PROVE 1..i \subseteq head
    <3>1. i \in 1..Len(scheduled) /\ \A m \in 1..i : scheduled[m].cancelled
      BY <1>1
    <3> SUFFICES ASSUME NEW j \in 1..i PROVE j \in DOMAIN scheduled /\ \A m \in 1..j : scheduled[m].cancelled
      OBVIOUS
    <3>2. j \in 1..Len(scheduled) /\ \A m \in 1..j : m \in 1..i
      BY <1>1, <3>1
    <3> QED
      BY <1>1, <3>1, <3>2
  <2> HIDE DEF head
  <2> QED
    BY ONLY <1>1, <2>1, <2>2, InitialSegment
<1>3. Swept = SubSeq(scheduled, h + 1, Len(scheduled))
  BY DEF Swept
<1> HIDE DEF h
<1>4. \A k \in 1..h : scheduled[k].cancelled
  <2>1. \A k \in head : scheduled[k].cancelled
    BY <1>1
  <2> QED
    BY <1>2, <2>1
<1>5. h < Len(scheduled) => ~scheduled[h + 1].cancelled
  <2> SUFFICES ASSUME h < Len(scheduled), scheduled[h + 1].cancelled PROVE FALSE
    OBVIOUS
  <2>1. h \in Nat /\ h + 1 \in 1..Len(scheduled) /\ \A m \in 1..(h + 1) : m \in 1..h \/ m = h + 1
    BY <1>1, <1>2
  <2>2. \A m \in 1..(h + 1) : scheduled[m].cancelled
    BY <1>4, <2>1
  <2>3. h + 1 \in head
    BY <1>1, <2>1, <2>2
  <2> HIDE DEF head
  <2> QED
    BY <1>2, <2>1, <2>3
<1> HIDE DEF head
<1>6. /\ Queued(Swept, over) /\ Len(Swept) = Len(scheduled) - h
      /\ \A i \in 1..(Len(scheduled) - h) : Swept[i] = scheduled[i + h]
  BY <1>1, <1>2, <1>3, QueuedSuffix
<1>7. Swept \in Seq(Task) /\ DOMAIN Swept = 1..(Len(scheduled) - h)
  BY <1>6, EntriesAre
<1>8. \A i \in DOMAIN Swept : i + h \in DOMAIN scheduled /\ Swept[i] = scheduled[i + h]
  BY <1>1, <1>2, <1>6, <1>7
<1>9. ASSUME Swept # <<>>
      PROVE  /\ Head(Swept) \in Task /\ ~Head(Swept).cancelled /\ Head(Swept).id < next_id
             /\ \A k \in DOMAIN scheduled :
                  scheduled[k].cancelled \/ Head(Swept).left <= scheduled[k].left
             /\ Queued(Tail(Swept), over \cup {Head(Swept).id})
             /\ \A i \in DOMAIN Tail(Swept) :
                  Tail(Swept)[i].id # Head(Swept).id /\ Tail(Swept)[i].id < next_id
  <2>1. /\ Head(Swept) \in Task /\ Tail(Swept) \in Seq(Task) /\ Len(Tail(Swept)) = Len(Swept) - 1
        /\ \A i \in 1..Len(Tail(Swept)) : Tail(Swept)[i] = Swept[i + 1]
    BY <1>7, <1>9, HeadTailProperties
  <2>2. Len(Swept) \in Nat \ {0} /\ 1 \in DOMAIN Swept /\ Head(Swept) = Swept[1]
    <3>1. Len(Swept) \in Nat \ {0}
      BY <1>7, <1>9, EmptySeq
    <3>2. 1 \in DOMAIN Swept
      <4>1. DOMAIN Swept = 1..Len(Swept)
        BY <1>6, <1>7
      <4> QED
        BY <3>1, <4>1
    <3>3. Head(Swept) = Swept[1]
      BY <1>7
    <3> QED
      BY <3>1, <3>2, <3>3
  <2>3. h < Len(scheduled) /\ Head(Swept) = scheduled[h + 1] /\ h + 1 \in DOMAIN scheduled
    <3>1. h < Len(scheduled)
      <4>1. h \in 0..Len(scheduled) /\ Len(scheduled) \in Nat
        BY <1>1, <1>2
      <4>2. Len(Swept) = Len(scheduled) - h /\ Len(Swept) \in Nat /\ Len(Swept) # 0
        BY <1>6, <2>2
      <4> QED
        BY ONLY <4>1, <4>2
    <3>2. 1 + h = h + 1
      BY <1>2
    <3> QED
      BY <1>8, <2>2, <3>1, <3>2
  <2>4. ~Head(Swept).cancelled /\ Head(Swept).id < next_id
    BY <1>5, <2>3 DEF SchedulerIInv
  <2>5. ASSUME NEW k \in DOMAIN scheduled
        PROVE  scheduled[k].cancelled \/ Head(Swept).left <= scheduled[k].left
    <3>1. k \in 1..h \/ h + 1 <= k
      BY <1>1, <1>2
    <3> QED
      BY <1>1, <1>4, <2>3, <3>1 DEF Queued, InOrderOfTime
  <2>6. /\ Queued(Tail(Swept), over)
        /\ \A i \in DOMAIN Tail(Swept) : i + 1 \in DOMAIN Swept /\ i + 1 # 1 /\ Tail(Swept)[i] = Swept[i + 1]
    <3>1. Tail(Swept) = SubSeq(Swept, 1 + 1, Len(Swept)) /\ 1 \in 0..Len(Swept)
      BY <1>7, <1>9, <2>2, TailIsSubSeq
    <3>2. Queued(Tail(Swept), over)
      BY <1>6, <3>1, QueuedSuffix
    <3>3. DOMAIN Tail(Swept) = 1..(Len(Swept) - 1) /\ DOMAIN Swept = 1..Len(Swept)
      BY <1>7, <2>1, LenProperties
    <3>4. \A i \in DOMAIN Tail(Swept) : i + 1 \in DOMAIN Swept /\ i + 1 # 1
      BY <2>2, <3>3
    <3> QED
      BY <2>1, <3>2, <3>3, <3>4
  <2>7. \A i \in DOMAIN Tail(Swept) : Tail(Swept)[i].id # Head(Swept).id
    BY <1>6, <2>2, <2>6 DEF Queued, EachOnce
  <2>8. \A i \in DOMAIN Tail(Swept) : Tail(Swept)[i].id < next_id
    BY <1>8, <2>6 DEF SchedulerIInv
  <2>9. Queued(Tail(Swept), over \cup {Head(Swept).id})
    BY <2>6, <2>7 DEF Queued
  <2> QED
    BY <2>1, <2>4, <2>5, <2>7, <2>8, <2>9
<1> QED
  BY <1>6, <1>8, <1>9

\* A call that only wakes the worker keeps what the others say.
LEMMA Notified ==
  ASSUME NEW ends, NotifyScheduler(ends), SchedulerIInv
  PROVE  /\ phase' \in {"check", "run", "wait", "asleep", "done"}
         /\ next_wake' \in Int \cup {Nothing}
         /\ phase' = "run" => phase = "run"
BY DEF NotifyScheduler, Again, SchedulerIInv

\* Every step keeps it, and a task that starts is not over and is the first.
LEMMA SchedulerStays ==
  SchedulerIInv /\ [SchedulerNext]_schedulerVars =>
    /\ SchedulerIInv'
    /\ StartsTask => /\ ready'.id \notin over
                     /\ \A k \in DOMAIN scheduled :
                          scheduled[k].cancelled \/ ready'.left <= scheduled[k].left
<1> SUFFICES ASSUME SchedulerIInv, [SchedulerNext]_schedulerVars
             PROVE  /\ SchedulerIInv'
                    /\ StartsTask => /\ ready'.id \notin over
                                     /\ \A k \in DOMAIN scheduled :
                                          scheduled[k].cancelled \/ ready'.left <= scheduled[k].left
  OBVIOUS
<1>a. MaxId \in Nat /\ Delays \subseteq Nat /\ Nothing \notin Int
  BY SchedulerAssumption DEF SchedulerAssumption
<1>e. /\ scheduled \in Seq(Task) /\ Len(scheduled) \in Nat /\ DOMAIN scheduled = 1..Len(scheduled)
      /\ \A i \in DOMAIN scheduled : scheduled[i] \in Task
      /\ Queued(scheduled, over)
  BY EntriesAre DEF SchedulerIInv
<1>i. next_id \in Nat \ {0} /\ next_id <= MaxId + 1
  BY <1>a DEF SchedulerIInv
<1>1. ASSUME NEW delay \in Delays, NEW period \in Delays \cup {0}, SubmitTask(delay, period)
      PROVE  SchedulerIInv' /\ ~StartsTask
  <2> DEFINE t == [id |-> next_id, left |-> delay, interval |-> period, cancelled |-> FALSE]
  <2>1. /\ next_id \in TaskIds /\ next_id' = next_id + 1 /\ scheduled' = Insert(scheduled, t)
        /\ UNCHANGED <<ready, over, stopping>>
    BY <1>1 DEF SubmitTask
  <2>2. t \in Task /\ t.id = next_id
    BY <1>a, <2>1 DEF Task
  <2>3. \A i \in DOMAIN scheduled : scheduled[i].id # t.id /\ scheduled[i].id < next_id
    BY <1>e, <1>i, <2>2 DEF SchedulerIInv, Task, TaskIds
  <2>4. t.id \notin over
    BY <1>i, <2>2 DEF SchedulerIInv
  <2> HIDE DEF t
  <2>5. /\ Queued(scheduled', over)
        /\ \A i \in DOMAIN scheduled' :
             scheduled'[i] = t \/ \E j \in DOMAIN scheduled : scheduled'[i] = scheduled[j]
    BY <1>e, <2>1, <2>2, <2>3, <2>4, QueuedInsert
  <2>6. \A i \in DOMAIN scheduled' : scheduled'[i].id <= next_id
    <3>1. \A j \in DOMAIN scheduled : scheduled[j].id <= next_id
      BY <1>e, <1>i, <2>3 DEF Task, TaskIds
    <3> QED
      BY <1>i, <2>2, <2>5, <3>1
  <2>7. \A i \in DOMAIN scheduled' : scheduled'[i].id < next_id'
    <3>1. \A i \in DOMAIN scheduled' : scheduled'[i].id \in Int
      BY <1>e, <1>i, <2>2, <2>5 DEF Task, TaskIds
    <3> QED
      BY <1>i, <2>1, <2>6, <3>1
  <2>8. next_id' \in 1..MaxId + 1 /\ next_id < next_id'
    BY <1>a, <2>1 DEF TaskIds
  <2>9. \A i \in over : i < next_id'
    BY <1>i, <2>1, <2>8 DEF SchedulerIInv, TaskIds
  <2>10. /\ phase' \in {"check", "run", "wait", "asleep", "done"}
         /\ next_wake' \in Int \cup {Nothing}
         /\ phase' = "run" => phase = "run"
    BY <1>1, Notified DEF SubmitTask
  <2>11. phase' = "run" => /\ ready' \in Task /\ ready'.id < next_id'
                           /\ ready'.interval = 0 => ready'.id \in over'
    <3>1. phase = "run" => ready \in Task /\ ready.id < next_id /\ (ready.interval = 0 => ready.id \in over)
      BY DEF SchedulerIInv
    <3>2. ready \in Task /\ ready.id < next_id => ready.id < next_id'
      BY <1>i, <2>1 DEF Task, TaskIds
    <3> QED
      BY <2>1, <2>10, <3>1, <3>2
  <2>12. ready' \in Task \cup {Nothing} /\ over' \subseteq TaskIds /\ stopping' \in BOOLEAN /\ over' = over
    BY <2>1 DEF SchedulerIInv
  <2> QED
    BY <2>5, <2>7, <2>8, <2>9, <2>10, <2>11, <2>12 DEF SchedulerIInv, StartsTask
<1>2. ASSUME NEW ids, NEW more \in SUBSET TaskIds, NEW ends,
             scheduled' = Marked(scheduled, ids), over' = over \cup more, NotifyScheduler(ends),
             \A i \in DOMAIN scheduled : scheduled[i].id \in more => scheduled[i].id \in ids,
             \A i \in more : \E k \in DOMAIN scheduled : scheduled[k].id = i,
             UNCHANGED <<next_id, ready, stopping>>
      PROVE  SchedulerIInv' /\ ~StartsTask
  <2>1. /\ Queued(scheduled', over') /\ DOMAIN scheduled' = DOMAIN scheduled
        /\ \A i \in DOMAIN scheduled : scheduled'[i].id = scheduled[i].id
    <3>1. \A i \in DOMAIN scheduled :
            scheduled[i].id \in over' => scheduled[i].id \in over \/ scheduled[i].id \in ids
      BY <1>2
    <3>2. /\ Queued(Marked(scheduled, ids), over')
          /\ DOMAIN Marked(scheduled, ids) = DOMAIN scheduled
          /\ \A i \in DOMAIN scheduled : Marked(scheduled, ids)[i].id = scheduled[i].id
      BY ONLY <1>e, <3>1, QueuedMarked
    <3> QED
      BY <1>2, <3>2
  <2>2. /\ phase' \in {"check", "run", "wait", "asleep", "done"}
        /\ next_wake' \in Int \cup {Nothing}
        /\ phase' = "run" => phase = "run"
    BY <1>2, Notified
  <2>3. /\ \A i \in DOMAIN scheduled' : scheduled'[i].id < next_id'
        /\ \A i \in over' : i < next_id'
    BY <1>2, <2>1 DEF SchedulerIInv
  <2>4. /\ over' \subseteq TaskIds
        /\ phase' = "run" => /\ ready' \in Task /\ ready'.id < next_id'
                             /\ ready'.interval = 0 => ready'.id \in over'
    BY <1>2, <2>2 DEF SchedulerIInv
  <2>5. /\ next_id' \in 1..MaxId + 1 /\ ready' \in Task \cup {Nothing} /\ stopping' \in BOOLEAN
    BY <1>2 DEF SchedulerIInv
  <2> QED
    BY <2>1, <2>2, <2>3, <2>4, <2>5 DEF SchedulerIInv, StartsTask
<1>3. ASSUME NEW i \in TaskIds, Cancel(i) PROVE SchedulerIInv' /\ ~StartsTask
  <2>1. /\ scheduled' = Marked(scheduled, {i}) /\ over' = over \cup {i}
        /\ NotifyScheduler(FALSE) /\ UNCHANGED <<next_id, ready, stopping>>
        /\ \E k \in DOMAIN scheduled : scheduled[k].id = i
    BY <1>3 DEF Cancel
  <2>2. /\ {i} \in SUBSET TaskIds
        /\ \A k \in DOMAIN scheduled : scheduled[k].id \in {i} => scheduled[k].id \in {i}
        /\ \A j \in {i} : \E k \in DOMAIN scheduled : scheduled[k].id = j
    BY <2>1
  <2> QED
    BY <1>2, <2>1, <2>2
<1>4. ASSUME CancelAll PROVE SchedulerIInv' /\ ~StartsTask
  <2> DEFINE more == {scheduled[k].id : k \in DOMAIN scheduled}
  <2>1. more \in SUBSET TaskIds
    BY <1>e DEF Task
  <2>2. /\ \A i \in DOMAIN scheduled : scheduled[i].id \in more => scheduled[i].id \in TaskIds
        /\ \A i \in more : \E k \in DOMAIN scheduled : scheduled[k].id = i
    BY <2>1
  <2>3. /\ scheduled' = Marked(scheduled, TaskIds) /\ over' = over \cup more
        /\ NotifyScheduler(FALSE) /\ UNCHANGED <<next_id, ready, stopping>>
    BY <1>4 DEF CancelAll
  <2> HIDE DEF more
  <2> QED
    BY <1>2, <2>1, <2>2, <2>3
<1>5. ASSUME TakeDue
      PROVE  /\ SchedulerIInv'
             /\ ready'.id \notin over
             /\ \A k \in DOMAIN scheduled :
                  scheduled[k].cancelled \/ ready'.left <= scheduled[k].left
  <2> DEFINE t == Head(Swept)
             rest == Tail(Swept)
             again == [t EXCEPT !.left = @ + t.interval]
  <2>1. Swept # <<>> /\ ready' = t /\ phase' = "run" /\ UNCHANGED <<next_id, next_wake, stopping>>
        /\ scheduled' = (IF t.interval = 0 THEN rest ELSE Insert(rest, again))
        /\ over' = (IF t.interval = 0 THEN over \cup {t.id} ELSE over)
    BY <1>5 DEF TakeDue, HeadIsDue, Rescheduled
  <2>2. /\ t \in Task /\ ~t.cancelled /\ t.id < next_id
        /\ \A k \in DOMAIN scheduled : scheduled[k].cancelled \/ t.left <= scheduled[k].left
        /\ Queued(rest, over \cup {t.id})
        /\ \A i \in DOMAIN rest : rest[i].id # t.id /\ rest[i].id < next_id
    BY <2>1, SweptIs
  <2>3. t.id \notin over
    <3>1. \E j \in DOMAIN Swept : t = Swept[j]
      <4>1. Swept \in Seq(Task) /\ Len(Swept) \in Nat /\ DOMAIN Swept = 1..Len(Swept)
        BY SweptIs, EntriesAre
      <4>2. Len(Swept) # 0
        BY <2>1, <4>1, EmptySeq
      <4>3. 1 \in DOMAIN Swept
        BY ONLY <4>1, <4>2
      <4>4. t = Swept[1]
        BY <4>1
      <4> QED
        BY <4>3, <4>4
    <3>2. PICK j \in DOMAIN Swept : t = Swept[j]
      BY <3>1
    <3>3. Swept[j].id \in over => Swept[j].cancelled
      BY SweptIs DEF Queued
    <3>4. ~Swept[j].cancelled
      BY <2>2, <3>2
    <3> HIDE DEF t
    <3> QED
      BY <3>2, <3>3, <3>4
  <2>4. again \in Task /\ again.id = t.id /\ again.cancelled = t.cancelled
    <3>1. t.left \in Int /\ t.interval \in Int /\ t.left + t.interval \in Int
      <4>1. Delays \cup {0} \subseteq Int
        BY <1>a
      <4>2. t.left \in Int /\ t.interval \in Delays \cup {0}
        <5> HIDE DEF t
        <5> QED
          BY <2>2 DEF Task
      <4> HIDE DEF t
      <4> QED
        BY ONLY <4>1, <4>2
    <3> HIDE DEF t
    <3> QED
      BY <2>2, <3>1 DEF Task
  <2> HIDE DEF t, rest, again
  <2>5. /\ Queued(scheduled', over')
        /\ \A i \in DOMAIN scheduled' : scheduled'[i].id < next_id
    <3>1. CASE t.interval = 0
      BY <2>1, <2>2, <3>1
    <3>2. CASE t.interval # 0
      <4>1. Queued(rest, over)
        BY <2>2 DEF Queued
      <4>2. /\ Queued(scheduled', over)
            /\ \A i \in DOMAIN scheduled' :
                 scheduled'[i] = again \/ \E j \in DOMAIN rest : scheduled'[i] = rest[j]
        BY <2>1, <2>2, <2>3, <2>4, <3>2, <4>1, QueuedInsert
      <4> QED
        BY <2>1, <2>2, <2>4, <3>2, <4>2
    <3> QED
      BY <3>1, <3>2
  <2>6. over' \subseteq TaskIds /\ \A i \in over' : i < next_id'
    BY <2>1, <2>2 DEF SchedulerIInv, Task
  <2>7. t.interval = 0 => t.id \in over'
    BY <2>1
  <2> QED
    BY <2>1, <2>2, <2>3, <2>5, <2>6, <2>7 DEF SchedulerIInv
<1>6. ASSUME LookAhead PROVE SchedulerIInv' /\ ~StartsTask
  <2>1. /\ scheduled' = Swept /\ phase' = "wait" /\ UNCHANGED <<next_id, ready, over, stopping>>
        /\ next_wake' = IF Swept = <<>> THEN Nothing ELSE Head(Swept).left
    BY <1>6 DEF LookAhead
  <2>2. next_wake' \in Int \cup {Nothing}
    BY <2>1, SweptIs DEF Task
  <2>3. Queued(scheduled', over') /\ \A i \in DOMAIN scheduled' : scheduled'[i].id < next_id'
    BY <2>1, SweptIs DEF SchedulerIInv
  <2> QED
    BY <2>1, <2>2, <2>3 DEF SchedulerIInv, StartsTask
<1>7. ASSUME SleepUntil \/ WakeUp \/ CallbackContinues \/ WorkerExit PROVE SchedulerIInv' /\ ~StartsTask
  <2>1. /\ UNCHANGED <<next_id, scheduled, over, stopping>>
        /\ phase' \in {"check", "asleep", "done"}
        /\ ready' \in {ready, Nothing} /\ next_wake' \in {next_wake, Nothing}
    BY <1>7 DEF SleepUntil, WakeUp, CallbackContinues, WorkerExit, Again
  <2> QED
    BY <2>1 DEF SchedulerIInv, StartsTask
<1>8. ASSUME CallbackStops PROVE SchedulerIInv' /\ ~StartsTask
  <2>1. /\ phase = "run" /\ phase' = "check" /\ ready' = Nothing /\ over' = over \cup {ready.id}
        /\ UNCHANGED <<next_id, next_wake, stopping>>
        /\ scheduled' = IF ready.interval > 0 THEN Without(ready.id) ELSE scheduled
    BY <1>8 DEF CallbackStops
  <2>2. ready \in Task /\ ready.id < next_id /\ (ready.interval = 0 => ready.id \in over)
    BY <2>1 DEF SchedulerIInv
  <2>3. Queued(scheduled', over') /\ \A i \in DOMAIN scheduled' : scheduled'[i].id < next_id
    <3>1. CASE ~(ready.interval > 0)
      <4>1. ready.interval = 0
        <5>1. ready.interval \in Delays \cup {0}
          BY <2>2 DEF Task
        <5>2. ready.interval \in Nat
          <6>1. Delays \cup {0} \subseteq Nat
            BY <1>a
          <6> QED
            BY ONLY <5>1, <6>1
        <5> QED
          BY <3>1, <5>2
      <4>2. over' = over /\ scheduled' = scheduled
        BY <2>1, <2>2, <3>1, <4>1
      <4> QED
        BY <4>2 DEF SchedulerIInv
    <3>2. CASE ready.interval > 0 /\ \E k \in DOMAIN scheduled : scheduled[k].id = ready.id
      <4> DEFINE k == CHOOSE i \in DOMAIN scheduled : scheduled[i].id = ready.id
      <4>1. k \in DOMAIN scheduled /\ scheduled[k].id = ready.id
        BY <3>2
      <4>2. scheduled' = RemoveAt(scheduled, k)
        BY <2>1, <3>2 DEF Without
      <4> HIDE DEF k
      <4>3. /\ Queued(scheduled', over \cup {scheduled[k].id})
            /\ \A i \in DOMAIN scheduled' : \E j \in DOMAIN scheduled : scheduled'[i] = scheduled[j]
        <5>1. /\ Queued(RemoveAt(scheduled, k), over \cup {scheduled[k].id})
              /\ \A i \in DOMAIN RemoveAt(scheduled, k) :
                   \E j \in DOMAIN scheduled : RemoveAt(scheduled, k)[i] = scheduled[j]
          <6>1. Queued(scheduled, over)
            BY <1>e
          <6>2. k \in DOMAIN scheduled
            BY <4>1
          <6> QED
            BY ONLY <6>1, <6>2, QueuedRemove
        <5> QED
          BY ONLY <4>2, <5>1
      <4> QED
        BY <2>1, <4>1, <4>3 DEF SchedulerIInv
    <3>3. CASE ready.interval > 0 /\ ~\E k \in DOMAIN scheduled : scheduled[k].id = ready.id
      <4>1. scheduled' = scheduled
        BY <2>1, <3>3 DEF Without
      <4> QED
        BY <1>e, <2>1, <3>3, <4>1 DEF SchedulerIInv, Queued
    <3> QED
      BY <3>1, <3>2, <3>3
  <2>4. over' \subseteq TaskIds /\ \A i \in over' : i < next_id
    BY <2>1, <2>2 DEF SchedulerIInv, Task
  <2> QED
    BY <2>1, <2>3, <2>4 DEF SchedulerIInv, StartsTask
<1>9. ASSUME StopScheduler PROVE SchedulerIInv' /\ ~StartsTask
  <2>1. /\ phase' \in {"check", "run", "wait", "asleep", "done"}
        /\ next_wake' \in Int \cup {Nothing}
        /\ phase' = "run" => phase = "run"
    BY <1>9, Notified DEF StopScheduler
  <2>2. UNCHANGED <<next_id, scheduled, ready, over>> /\ stopping' = TRUE
    BY <1>9 DEF StopScheduler
  <2>3. stopping' \in BOOLEAN
    BY <2>2
  <2> QED
    BY <2>1, <2>2, <2>3 DEF SchedulerIInv, StartsTask
<1>10. ASSUME Tick PROVE SchedulerIInv' /\ ~StartsTask
  <2>1. /\ scheduled' = [k \in DOMAIN scheduled |-> [scheduled[k] EXCEPT !.left = @ - 1]]
        /\ next_wake' = IF WakeUpSet THEN next_wake - 1 ELSE next_wake
        /\ UNCHANGED <<next_id, phase, ready, over, stopping>>
    BY <1>10 DEF Tick
  <2>2. next_wake' \in Int \cup {Nothing}
    BY <2>1 DEF WakeUpSet, SchedulerIInv
  <2>3. DOMAIN scheduled' = DOMAIN scheduled /\ scheduled' = [k \in DOMAIN scheduled |-> scheduled'[k]]
    BY <2>1
  <2>4. ASSUME NEW k \in DOMAIN scheduled
        PROVE  /\ scheduled'[k] \in Task /\ scheduled'[k].id = scheduled[k].id
               /\ scheduled'[k].left = scheduled[k].left - 1
               /\ scheduled'[k].cancelled = scheduled[k].cancelled
    <3>1. scheduled[k] \in Task /\ scheduled[k].left - 1 \in Int
      BY <1>e DEF Task
    <3>2. scheduled'[k] = [scheduled[k] EXCEPT !.left = scheduled[k].left - 1]
      BY <2>1
    <3> QED
      BY <3>1, <3>2 DEF Task
  <2>5. Queued(scheduled', over)
    <3>2. \A k \in DOMAIN scheduled :
            /\ scheduled'[k] \in Task /\ scheduled'[k].id = scheduled[k].id
            /\ scheduled[k].cancelled => scheduled'[k].cancelled
            /\ scheduled[k].id \in over => scheduled[k].id \in over \/ scheduled'[k].cancelled
      BY <2>4
    <3>3. ASSUME NEW i \in DOMAIN scheduled, NEW j \in DOMAIN scheduled,
                 scheduled[i].left <= scheduled[j].left
          PROVE  scheduled'[i].left <= scheduled'[j].left
      <4>1. scheduled[i].left \in Int /\ scheduled[j].left \in Int
        BY <1>e DEF Task
      <4>2. scheduled'[i].left = scheduled[i].left - 1 /\ scheduled'[j].left = scheduled[j].left - 1
        BY <2>4
      <4> QED
        BY ONLY <3>3, <4>1, <4>2
    <3> QED
      BY ONLY <1>e, <2>3, <3>2, <3>3, QueuedChanged
  <2> QED
    BY <2>1, <2>2, <2>3, <2>4, <2>5 DEF SchedulerIInv, StartsTask
<1>11. CASE UNCHANGED schedulerVars
  BY <1>11 DEF schedulerVars, SchedulerIInv, StartsTask
<1> QED
  BY <1>1, <1>3, <1>4, <1>5, <1>6, <1>7, <1>8, <1>9, <1>10, <1>11
     DEF SchedulerNext, SchedulerWorker, StartsTask

\* It begins so.
LEMMA SchedulerBegins == SchedulerInit => SchedulerIInv
<1> SUFFICES ASSUME SchedulerInit PROVE SchedulerIInv
  OBVIOUS
<1>1. Queued(scheduled, over)
  BY EmptySeq DEF SchedulerInit, Queued, InOrderOfTime, EachOnce
<1>2. MaxId \in Nat /\ next_id = 1 /\ next_id \in 1..MaxId + 1
  BY SchedulerAssumption DEF SchedulerAssumption, SchedulerInit
<1>3. DOMAIN scheduled = {}
  BY DEF SchedulerInit
<1> QED
  BY <1>1, <1>2, <1>3 DEF SchedulerInit, SchedulerIInv

\* A task that was cancelled, asked to stop or ran for the only time never starts
\* again, and none starts while one with an earlier deadline waits.
THEOREM SchedulerStartsInTurn == SchedulerSpec => StartsInTurn
<1>1. SchedulerIInv /\ [SchedulerNext]_schedulerVars => SchedulerIInv'
  BY SchedulerStays
<1>2. SchedulerIInv /\ [SchedulerNext]_schedulerVars =>
        [StartsTask => /\ ready'.id \notin over
                       /\ \A k \in DOMAIN scheduled :
                            scheduled[k].cancelled \/ ready'.left <= scheduled[k].left]_schedulerVars
  BY SchedulerStays
<1> QED
  BY SchedulerBegins, <1>1, <1>2, PTL DEF SchedulerSpec, StartsInTurn

\* The list is in order, holds each task once, and all is of its type.
THEOREM SchedulerTypes == SchedulerSpec => []SchedulerTypeOK
<1>1. SchedulerIInv => SchedulerTypeOK
  BY DEF SchedulerIInv, SchedulerTypeOK, Queued, EachOnce
<1> QED
  BY SchedulerBegins, <1>1, SchedulerStays, PTL DEF SchedulerSpec

-----------------------------------------------------------------------------
(***************************************************************************)
(* The timer wheel, for any slots, timers and delays.  Where a timer sits  *)
(* is a remainder, and a remainder of a remainder is one remainder: so the *)
(* slot of a deadline does not move while the cursor does.  The account is *)
(* kept as long as a callback that was cancelled does not ask to stop      *)
(* (~StopsLate); then what the worker is about to call is in the wheel     *)
(* when it is periodic, and is not when it fires once.                     *)
(***************************************************************************)

\* A remainder may be taken before or after adding.
LEMMA RemainderOfSum ==
  ASSUME NEW n \in Nat \ {0}, NEW a \in Int, NEW b \in Int
  PROVE  ((a % n) + b) % n = (a + b) % n
<1> DEFINE q == a \div n
           r == a % n
           p == (r + b) \div n
           s == (r + b) % n
<1>1. q \in Int /\ r \in 0..(n - 1) /\ a = n * q + r
  OBVIOUS
<1>2. p \in Int /\ s \in 0..(n - 1) /\ r + b = n * p + s
  BY <1>1
<1> HIDE DEF q, p, r, s
<1>3. a + b = n * (q + p) + s
  <2>1. n * (q + p) = n * q + n * p
    BY <1>1, <1>2
  <2> QED
    BY <1>1, <1>2, <2>1
<1>4. (n * (q + p) + s) % n = s
  <2>1. q + p \in Int
    BY <1>1, <1>2
  <2> DEFINE m == q + p
  <2>2. m \in Int
    BY <2>1
  <2> HIDE DEF m
  <2>3. (n * m + s) % n = s
    BY ONLY <1>2, <2>2, n \in Nat \ {0}
  <2> QED
    BY <2>3 DEF m
<1> QED
  BY <1>3, <1>4 DEF r, s

\* A remainder is a slot of the wheel.
LEMMA RemainderRange ==
  ASSUME NEW n \in Nat \ {0}, NEW a \in Int
  PROVE  a % n \in 0..(n - 1)
OBVIOUS

\* What the worker took out to run, or runs.
Taken == due \cup ({firing} \ {0})

WheelIInv ==
  /\ next_timer \in 1..MaxTimers + 1
  /\ cursor \in Slots
  /\ slots \in [Slots -> SUBSET Added]
  /\ left \in [Timers -> Int] /\ interval \in [Timers -> TimerDelays \cup {0}]
  /\ cancelled \subseteq Added
  /\ due \subseteq Added /\ firing \in Added \cup {0} /\ firing \notin due
  /\ waiter \in {"no", "asleep", "awake"}
  /\ wheel_stopping \in BOOLEAN /\ ticker \in BOOLEAN
  /\ PendingExact /\ InItsSlot /\ FiresOnTime /\ NoLostWheelIdle
  /\ \A i \in Taken : i \in InWheel <=> interval[i] > 0

\* A timer is in the wheel when it is in a slot.
LEMMA InWheelIs == \A i : i \in InWheel <=> \E s \in Slots : i \in slots[s]
BY DEF InWheel

\* The constants and the timers there may be.
LEMMA WheelSizes ==
  ASSUME WheelIInv
  PROVE  /\ SlotCount \in Nat \ {0} /\ MaxTimers \in Nat /\ next_timer \in Nat \ {0}
         /\ next_timer <= MaxTimers + 1
         /\ cursor \in Int
         /\ Added \subseteq Timers /\ 0 \notin Added /\ next_timer \notin Added
         /\ \A i \in Added : i \in Nat
         /\ \A i \in Timers : left[i] \in Int /\ interval[i] \in Nat
         /\ \A d \in TimerDelays : d \in Nat \ {0}
<1>1. SlotCount \in Nat \ {0} /\ MaxTimers \in Nat /\ TimerDelays \subseteq Nat \ {0}
  BY WheelAssumption DEF WheelAssumption
<1>2. next_timer \in Nat \ {0} /\ next_timer <= MaxTimers + 1 /\ next_timer \in 1..MaxTimers + 1
  BY <1>1 DEF WheelIInv
<1>3. /\ Added \subseteq Timers /\ 0 \notin Added /\ next_timer \notin Added
      /\ \A i \in Added : i \in Nat
  BY <1>1, <1>2 DEF Added, Timers
<1>4. cursor \in Int
  BY <1>1 DEF WheelIInv, Slots
<1>5. \A i \in Timers : interval[i] \in TimerDelays \cup {0} /\ left[i] \in Int
  BY DEF WheelIInv
<1>6. \A i \in Timers : interval[i] \in Nat
  <2>1. TimerDelays \cup {0} \subseteq Nat
    BY <1>1
  <2> QED
    BY <1>5, <2>1
<1> QED
  BY <1>1, <1>2, <1>3, <1>4, <1>5, <1>6

\* The live timers are a finite number.
LEMMA LiveFinite ==
  ASSUME WheelIInv
  PROVE  /\ Live \subseteq Added /\ IsFiniteSet(Live) /\ Cardinality(Live) \in Nat
         /\ Cardinality(Live) <= MaxTimers
         /\ InWheel \subseteq Added
<1>1. InWheel \subseteq Added
  BY DEF InWheel, WheelIInv
<1>2. Live \subseteq Added
  BY <1>1 DEF Live, OneShots, WheelIInv
<1>3. IsFiniteSet(Timers) /\ Cardinality(Timers) = MaxTimers
  <2>1. MaxTimers \in Nat
    BY WheelSizes
  <2>2. IsFiniteSet(1..MaxTimers) /\ Cardinality(1..MaxTimers) = IF 1 > MaxTimers THEN 0 ELSE MaxTimers - 1 + 1
    BY <2>1, FS_Interval
  <2> QED
    BY <2>1, <2>2 DEF Timers
<1>4. Live \subseteq Timers
  BY <1>2, WheelSizes
<1>5. IsFiniteSet(Live) /\ Cardinality(Live) <= MaxTimers
  BY <1>3, <1>4, FS_Subset
<1> QED
  BY <1>1, <1>2, <1>5, FS_CardinalityType

\* One timer fewer is live, and is counted down, and whoever waits is told.
LEMMA OneFewer ==
  ASSUME WheelIInv, NEW i \in Live, Live' = Live \ {i}, pending' = pending - 1, notify_idle
  PROVE  PendingExact' /\ NoLostWheelIdle' /\ waiter' \in {"no", "asleep", "awake"}
<1>1. IsFiniteSet(Live) /\ Cardinality(Live) \in Nat /\ pending = Cardinality(Live)
  BY LiveFinite DEF WheelIInv, PendingExact
<1>2. Cardinality(Live \ {i}) = Cardinality(Live) - 1
  BY <1>1, FS_RemoveElement
<1>3. PendingExact'
  BY <1>1, <1>2 DEF PendingExact
<1>4. waiter' # "asleep" /\ waiter' \in {"no", "asleep", "awake"}
  BY DEF notify_idle, WheelIInv
<1> QED
  BY <1>3, <1>4 DEF NoLostWheelIdle

\* A timer is added to the slot of its deadline.
LEMMA AddKeeps ==
  ASSUME WheelIInv, NEW delay \in TimerDelays, NEW period \in {0, delay}, Add(delay, period)
  PROVE  WheelIInv'
<1> DEFINE n == next_timer
<1>1. /\ n \in Timers /\ next_timer' = n + 1
      /\ slots' = [slots EXCEPT ![SlotOf(delay)] = @ \cup {n}]
      /\ left' = [left EXCEPT ![n] = delay] /\ interval' = [interval EXCEPT ![n] = period]
      /\ pending' = pending + 1
      /\ UNCHANGED <<cursor, cancelled, due, firing, waiter, wheel_stopping, ticker>>
  BY DEF Add, stopVars
<1>2. /\ SlotCount \in Nat \ {0} /\ MaxTimers \in Nat /\ n \in Nat \ {0} /\ n <= MaxTimers
      /\ cursor \in Int /\ Added \subseteq Timers /\ n \notin Added /\ delay \in Nat \ {0}
      /\ 0 \notin Added
  BY <1>1, WheelSizes DEF Timers
<1>3. SlotOf(delay) \in Slots
  <2>1. (cursor + delay) % SlotCount \in 0..(SlotCount - 1)
    <3>1. cursor + delay \in Int
      BY <1>2
    <3> QED
      BY <1>2, <3>1, RemainderRange
  <2> QED
    BY <2>1 DEF SlotOf, Slots
<1>4. next_timer' \in 1..MaxTimers + 1 /\ Added' = Added \cup {n}
  BY <1>1, <1>2 DEF Added
<1>5. /\ slots \in [Slots -> SUBSET Added] /\ left \in [Timers -> Int]
      /\ interval \in [Timers -> TimerDelays \cup {0}]
      /\ cancelled \subseteq Added /\ due \subseteq Added /\ firing \in Added \cup {0}
      /\ cursor \in Slots
  BY DEF WheelIInv
<1> HIDE DEF n
<1>6. /\ slots' \in [Slots -> SUBSET (Added')]
      /\ \A s \in Slots : slots'[s] = IF s = SlotOf(delay) THEN slots[s] \cup {n} ELSE slots[s]
  BY <1>1, <1>3, <1>4, <1>5
<1>7. /\ left' \in [Timers -> Int] /\ interval' \in [Timers -> TimerDelays \cup {0}]
      /\ left'[n] = delay /\ interval'[n] = period
      /\ \A i \in Timers : i # n => left'[i] = left[i] /\ interval'[i] = interval[i]
  <2>1. delay \in Int /\ period \in TimerDelays \cup {0}
    BY <1>2
  <2> QED
    BY <1>1, <1>5, <2>1
<1>8. \A i : i \in InWheel' <=> i \in InWheel \/ i = n
  <2>1. \A i : i \in InWheel' <=> \E s \in Slots : i \in slots'[s]
    BY DEF InWheel
  <2> QED
    BY <1>3, <1>6, <2>1, InWheelIs
<1>9. PendingExact'
  <2>1. /\ IsFiniteSet(Live) /\ Cardinality(Live) \in Nat /\ pending = Cardinality(Live)
        /\ Live \subseteq Added
    BY LiveFinite DEF WheelIInv, PendingExact
  <2>2. Live' = Live \cup {n}
    <3>1. ASSUME NEW x PROVE x \in Live' <=> x \in Live \/ x = n
      <4>1. x \in InWheel' \ cancelled' <=> x \in InWheel \ cancelled \/ x = n
        BY <1>1, <1>2, <1>5, <1>8
      <4>2. n \notin due \cup {firing}
        BY <1>2, <1>5
      <4>3. x # n => (x \in OneShots' <=> x \in OneShots)
        BY <1>2, <1>4, <1>7 DEF OneShots
      <4>4. x \in (due' \cup {firing'}) \cap OneShots' <=> x \in (due \cup {firing}) \cap OneShots
        BY <1>1, <4>2, <4>3
      <4> QED
        BY <4>1, <4>4 DEF Live
    <3> QED
      BY <3>1
  <2>3. Cardinality(Live \cup {n}) = Cardinality(Live) + 1
    BY <1>2, <2>1, FS_AddElement
  <2> QED
    BY <1>1, <2>1, <2>2, <2>3 DEF PendingExact
<1>10. InItsSlot'
  <2> SUFFICES ASSUME NEW s \in Slots, NEW i \in slots'[s], i \notin cancelled'
               PROVE  left'[i] >= 1 /\ s = (cursor' + left'[i]) % SlotCount
    BY DEF InItsSlot, SlotOf
  <2>1. CASE i = n
    <3>1. s = SlotOf(delay)
      BY <1>2, <1>5, <1>6, <2>1
    <3> QED
      BY <1>1, <1>2, <1>7, <2>1, <3>1 DEF SlotOf
  <2>2. CASE i # n
    <3>1. i \in slots[s] /\ i \notin cancelled /\ i \in Timers
      BY <1>1, <1>2, <1>5, <1>6, <2>2
    <3>2. left[i] >= 1 /\ s = SlotOf(left[i])
      BY <3>1 DEF WheelIInv, InItsSlot
    <3> QED
      BY <1>1, <1>7, <2>2, <3>1, <3>2 DEF SlotOf
  <2> QED
    BY <2>1, <2>2
<1>11. FiresOnTime'
  BY <1>1, <1>2, <1>5, <1>7 DEF FiresOnTime, WheelIInv
<1>12. NoLostWheelIdle'
  <2>1. pending \in Nat
    BY LiveFinite DEF WheelIInv, PendingExact
  <2> QED
    BY <1>1, <2>1 DEF NoLostWheelIdle
<1>13. \A i \in Taken' : i \in InWheel' <=> interval'[i] > 0
  <2> SUFFICES ASSUME NEW i \in Taken' PROVE i \in InWheel' <=> interval'[i] > 0
    OBVIOUS
  <2>1. i \in Taken /\ i \in Added
    BY <1>1, <1>5 DEF Taken
  <2>2. i \in InWheel <=> interval[i] > 0
    BY <2>1 DEF WheelIInv
  <2> QED
    BY <1>2, <1>7, <1>8, <2>1, <2>2
<1>14. /\ cursor' \in Slots /\ cancelled' \subseteq Added' /\ due' \subseteq Added'
       /\ firing' \in Added' \cup {0} /\ firing' \notin due'
       /\ waiter' \in {"no", "asleep", "awake"}
  BY <1>1, <1>4, <1>5 DEF WheelIInv
<1>15. wheel_stopping' \in BOOLEAN /\ ticker' \in BOOLEAN
  BY <1>1 DEF WheelIInv
<1> QED
  BY <1>4, <1>6, <1>7, <1>9, <1>10, <1>11, <1>12, <1>13, <1>14, <1>15 DEF WheelIInv

\* A step that moves no timer: the types, the slots and the deadlines stay, and what
\* is taken is as it was or fewer.
LEMMA NothingMoves ==
  ASSUME WheelIInv, UNCHANGED <<next_timer, cursor, slots, left, interval>>,
         cancelled \subseteq cancelled', cancelled' \subseteq Added,
         Taken' \subseteq Taken, due' \subseteq due, firing' \in Taken \cup {0}, firing' \notin due',
         waiter' \in {"no", "asleep", "awake"}, wheel_stopping' \in BOOLEAN, ticker' \in BOOLEAN,
         PendingExact', NoLostWheelIdle'
  PROVE  WheelIInv'
<1>1. InItsSlot'
  BY DEF WheelIInv, InItsSlot, SlotOf
<1>2. FiresOnTime'
  BY DEF WheelIInv, FiresOnTime
<1>3. InWheel' = InWheel /\ Added' = Added
  BY DEF InWheel, Added
<1>4. \A i \in Taken' : i \in InWheel' <=> interval'[i] > 0
  BY <1>3 DEF WheelIInv
<1>5. due' \subseteq Added' /\ firing' \in Added' \cup {0} /\ cancelled' \subseteq Added'
  BY <1>3 DEF WheelIInv, Taken
<1>6. /\ next_timer' \in 1..MaxTimers + 1 /\ cursor' \in Slots
      /\ slots' \in [Slots -> SUBSET (Added')]
      /\ left' \in [Timers -> Int] /\ interval' \in [Timers -> TimerDelays \cup {0}]
  BY <1>3 DEF WheelIInv
<1> QED
  BY <1>1, <1>2, <1>4, <1>5, <1>6 DEF WheelIInv

\* A timer is cancelled: marked where it sits, and counted down.
LEMMA CancelTimerKeeps ==
  ASSUME WheelIInv, NEW i \in Timers, CancelTimer(i)
  PROVE  WheelIInv'
<1>1. /\ i \in InWheel \ cancelled /\ cancelled' = cancelled \cup {i} /\ pending' = pending - 1
      /\ notify_idle
      /\ UNCHANGED <<next_timer, cursor, slots, left, interval, due, firing, wheel_stopping, ticker>>
  BY DEF CancelTimer, slotVars, stopVars
<1>2. i \in Added /\ i # 0
  BY <1>1, LiveFinite, WheelSizes
<1>3. i \in Live
  BY <1>1 DEF Live
<1>4. Live' = Live \ {i}
  <2>1. i \notin (due \cup {firing}) \cap OneShots
    <3> SUFFICES ASSUME i \in due \cup {firing}, i \in OneShots PROVE FALSE
      OBVIOUS
    <3>1. i \in Taken /\ interval[i] = 0
      BY <1>2 DEF Taken, OneShots
    <3> QED
      BY <1>1, <3>1 DEF WheelIInv
  <2>2. InWheel' = InWheel /\ OneShots' = OneShots
    BY <1>1 DEF InWheel, OneShots, Added
  <2> QED
    BY <1>1, <2>1, <2>2 DEF Live
<1>5. PendingExact' /\ NoLostWheelIdle' /\ waiter' \in {"no", "asleep", "awake"}
  BY <1>1, <1>3, <1>4, OneFewer
<1>6. Taken' = Taken /\ firing \in Taken \cup {0} /\ firing \notin due
  BY <1>1 DEF Taken, WheelIInv
<1>7. wheel_stopping' \in BOOLEAN /\ ticker' \in BOOLEAN
  BY <1>1 DEF WheelIInv
<1> QED
  BY <1>1, <1>2, <1>5, <1>6, <1>7, NothingMoves DEF WheelIInv

\* A callback ends for good: its timer, if it is still in the wheel, is marked.
LEMMA CallbackEndsKeeps ==
  ASSUME WheelIInv, CallbackEnds, ~StopsLate
  PROVE  WheelIInv'
<1>1. /\ firing # 0 /\ firing' = 0 /\ pending' = pending - 1 /\ notify_idle
      /\ cancelled' = cancelled \cup ({firing} \cap InWheel)
      /\ interval[firing] = 0 \/ firing \notin cancelled
      /\ UNCHANGED <<next_timer, cursor, slots, left, interval, due, wheel_stopping, ticker>>
  BY DEF CallbackEnds, MayReturnFalse, slotVars, stopVars
<1>2. /\ firing \in Added /\ firing \in Timers /\ firing \notin due /\ firing \in Taken
      /\ interval[firing] \in Nat
  BY <1>1, WheelSizes DEF WheelIInv, Taken
<1>3. firing \in InWheel <=> interval[firing] > 0
  BY <1>2 DEF WheelIInv
<1>4. InWheel' = InWheel /\ OneShots' = OneShots
  BY <1>1 DEF InWheel, OneShots, Added
<1>5. 0 \notin OneShots
  BY WheelSizes DEF OneShots
<1>6. firing \in Live /\ Live' = Live \ {firing}
  <2>1. CASE interval[firing] = 0
    <3>1. firing \in OneShots /\ firing \notin InWheel
      BY <1>2, <1>3, <2>1 DEF OneShots
    <3>2. cancelled' = cancelled
      BY <1>1, <3>1
    <3> QED
      BY <1>1, <1>2, <1>4, <1>5, <3>1, <3>2 DEF Live
  <2>2. CASE interval[firing] # 0
    <3>1. firing \notin OneShots /\ firing \in InWheel /\ firing \notin cancelled
      BY <1>1, <1>2, <1>3, <2>2 DEF OneShots
    <3>2. cancelled' = cancelled \cup {firing}
      BY <1>1, <3>1
    <3> QED
      BY <1>1, <1>2, <1>4, <1>5, <3>1, <3>2 DEF Live
  <2> QED
    BY <2>1, <2>2
<1>7. PendingExact' /\ NoLostWheelIdle' /\ waiter' \in {"no", "asleep", "awake"}
  BY <1>1, <1>6, OneFewer
<1>8. Taken' \subseteq Taken /\ due' = due /\ 0 \notin due
  BY <1>1, WheelSizes DEF Taken, WheelIInv
<1>9. cancelled' \subseteq Added
  BY <1>1, <1>2 DEF WheelIInv
<1>10. wheel_stopping' \in BOOLEAN /\ ticker' \in BOOLEAN
  BY <1>1 DEF WheelIInv
<1> QED
  BY <1>1, <1>7, <1>8, <1>9, <1>10, NothingMoves

\* A callback begins, a periodic one ends and stays, a thread waits, the wheel stops.
LEMMA OthersKeep ==
  ASSUME WheelIInv, StartCallback \/ CallbackKeeps \/ WaitWheelIdle \/ StopWheel \/ WheelWorkerExit
  PROVE  WheelIInv'
<1>1. /\ UNCHANGED <<next_timer, cursor, slots, left, interval, cancelled, pending>>
      /\ InWheel' = InWheel /\ OneShots' = OneShots
  BY DEF StartCallback, CallbackKeeps, WaitWheelIdle, StopWheel, WheelWorkerExit,
         slotVars, stopVars, InWheel, OneShots, Added
<1>2. 0 \notin OneShots /\ 0 \notin due /\ firing \notin due /\ cancelled \subseteq Added
      /\ firing \in Taken \cup {0}
  BY WheelSizes DEF OneShots, WheelIInv, Taken
<1>3. /\ (due' \cup {firing'}) \cap OneShots' = (due \cup {firing}) \cap OneShots
      /\ Taken' \subseteq Taken /\ due' \subseteq due /\ firing' \in Taken \cup {0} /\ firing' \notin due'
  <2>1. CASE StartCallback
    <3>1. PICK i \in due : firing = 0 /\ firing' = i /\ due' = due \ {i}
      BY <2>1 DEF StartCallback
    <3> QED
      BY <1>1, <1>2, <3>1 DEF Taken
  <2>2. CASE CallbackKeeps
    <3>1. firing # 0 /\ interval[firing] > 0 /\ firing' = 0 /\ due' = due
      BY <2>2 DEF CallbackKeeps
    <3>2. firing \notin OneShots
      BY <3>1 DEF OneShots
    <3> QED
      BY <1>1, <1>2, <3>1, <3>2 DEF Taken
  <2>3. CASE WaitWheelIdle \/ StopWheel \/ WheelWorkerExit
    <3>1. UNCHANGED <<due, firing>>
      BY <2>3 DEF WaitWheelIdle, StopWheel, WheelWorkerExit
    <3> QED
      BY <1>1, <1>2, <3>1 DEF Taken
  <2> QED
    BY <2>1, <2>2, <2>3
<1>4. PendingExact'
  <2>1. Live' = Live
    BY <1>1, <1>3 DEF Live
  <2> QED
    BY <1>1, <2>1 DEF PendingExact, WheelIInv
<1>5. NoLostWheelIdle' /\ waiter' \in {"no", "asleep", "awake"}
  BY <1>1 DEF NoLostWheelIdle, WheelIInv, StartCallback, CallbackKeeps, WaitWheelIdle, StopWheel, WheelWorkerExit
<1>6. wheel_stopping' \in BOOLEAN /\ ticker' \in BOOLEAN
  <2>1. wheel_stopping \in BOOLEAN /\ ticker \in BOOLEAN
    BY DEF WheelIInv
  <2>2. wheel_stopping' \in {wheel_stopping, TRUE} /\ ticker' \in {ticker, FALSE}
    BY DEF StartCallback, CallbackKeeps, WaitWheelIdle, StopWheel, WheelWorkerExit, stopVars
  <2> QED
    BY <2>1, <2>2
<1> QED
  BY <1>1, <1>2, <1>3, <1>4, <1>5, <1>6, NothingMoves

\* The next tick: of the slot the cursor comes to, what is cancelled is swept and what
\* is due is taken, the periodic ones going back to the slot of their next deadline.
LEMMA ScanKeeps ==
  ASSUME WheelIInv, Scan
  PROVE  WheelIInv'
<1> DEFINE tick == SlotOf(1)
           again == {i \in DueIn(tick) : interval[i] > 0}
<1>1. /\ due = {} /\ firing = 0 /\ cursor' = tick /\ due' = DueIn(tick)
      /\ left' = [i \in Timers |-> IF i \in again THEN left[i] - 1 + interval[i]
                                   ELSE IF i \in InWheel THEN left[i] - 1 ELSE left[i]]
      /\ slots' = [s \in Slots |-> (IF s = tick THEN Staying(tick) ELSE slots[s])
                                     \cup {i \in again : NextSlot(i, tick) = s}]
      /\ UNCHANGED <<next_timer, interval, cancelled, pending, firing, waiter, wheel_stopping, ticker>>
  BY DEF Scan, stopVars
<1>2. /\ SlotCount \in Nat \ {0} /\ cursor \in Int /\ Added \subseteq Timers /\ 0 \notin Added
      /\ \A i \in Timers : left[i] \in Int /\ interval[i] \in Nat
  BY WheelSizes
<1>3. /\ slots \in [Slots -> SUBSET Added] /\ left \in [Timers -> Int]
      /\ interval \in [Timers -> TimerDelays \cup {0}] /\ cancelled \subseteq Added
      /\ PendingExact /\ InItsSlot
  BY DEF WheelIInv
<1>4. tick \in Slots
  <2>1. cursor + 1 \in Int
    BY <1>2
  <2> QED
    BY <1>2, <2>1, RemainderRange DEF SlotOf, Slots
<1>5. tick = (cursor + 1) % SlotCount
  BY DEF SlotOf
<1> HIDE DEF tick
<1>6. /\ DueIn(tick) \subseteq slots[tick] /\ DueIn(tick) \cap cancelled = {}
      /\ \A i \in slots[tick] \ cancelled : i \in DueIn(tick) <=> left[i] <= 1
      /\ Staying(tick) = {i \in slots[tick] \ cancelled : i \notin DueIn(tick)}
      /\ again \subseteq DueIn(tick) /\ \A i \in DueIn(tick) : i \in again <=> interval[i] > 0
  BY DEF DueIn, Staying
<1> HIDE DEF again
<1>7. \A i \in DueIn(tick) : i \in Added /\ i \in Timers /\ i \in InWheel /\ left[i] = 1
  <2> SUFFICES ASSUME NEW i \in DueIn(tick)
               PROVE  i \in Added /\ i \in Timers /\ i \in InWheel /\ left[i] = 1
    OBVIOUS
  <2>1. i \in slots[tick] /\ i \notin cancelled /\ i \in Added /\ i \in Timers
    BY <1>2, <1>3, <1>4, <1>6
  <2>2. left[i] <= 1 /\ left[i] >= 1 /\ left[i] \in Int
    BY <1>2, <1>3, <1>4, <1>6, <2>1 DEF InItsSlot
  <2>3. i \in InWheel
    BY <1>4, <2>1, InWheelIs
  <2> QED
    BY <2>1, <2>2, <2>3
<1>8. \A s \in Slots : \A i : i \in slots'[s] <=>
        \/ s = tick /\ i \in slots[tick] /\ i \notin cancelled /\ i \notin DueIn(tick)
        \/ s # tick /\ i \in slots[s]
        \/ i \in again /\ NextSlot(i, tick) = s
  BY <1>1, <1>6
<1>9. \A i \in again : NextSlot(i, tick) \in Slots
  <2> SUFFICES ASSUME NEW i \in again PROVE NextSlot(i, tick) \in Slots
    OBVIOUS
  <2>1. i \in Timers
    BY <1>6, <1>7
  <2>2. tick \in Int
    BY <1>2, <1>4 DEF Slots
  <2>3. tick + left[i] - 1 + interval[i] \in Int
    BY <1>2, <2>1, <2>2
  <2> QED
    BY <1>2, <2>3, RemainderRange DEF NextSlot, Slots
<1>10. \A s \in Slots : \A i \in slots'[s] : i \in Added /\ i \in Timers
  BY <1>2, <1>3, <1>4, <1>6, <1>7, <1>8
<1>11. slots' \in [Slots -> SUBSET (Added')] /\ Added' = Added
  <2>1. Added' = Added
    BY <1>1 DEF Added
  <2>2. slots' = [s \in Slots |-> slots'[s]]
    BY <1>1
  <2>3. \A s \in Slots : slots'[s] \subseteq Added'
    BY <1>10, <2>1
  <2> QED
    BY <2>1, <2>2, <2>3
<1>12. /\ \A i \in again : left'[i] = left[i] - 1 + interval[i]
       /\ \A i \in InWheel : i \notin again => left'[i] = left[i] - 1
  <2>1. \A i \in InWheel : i \in Timers
    BY <1>2, LiveFinite
  <2> QED
    BY <1>1, <1>6, <1>7, <2>1
<1>13. left' \in [Timers -> Int]
  <2>1. \A i \in Timers : left[i] - 1 + interval[i] \in Int /\ left[i] - 1 \in Int /\ left[i] \in Int
    BY <1>2
  <2> QED
    BY <1>1, <2>1
<1>14. InItsSlot'
  <2> SUFFICES ASSUME NEW s \in Slots, NEW i \in slots'[s], i \notin cancelled'
               PROVE  left'[i] >= 1 /\ s = (cursor' + left'[i]) % SlotCount
    BY DEF InItsSlot, SlotOf
  <2>0. i \in Timers /\ i \notin cancelled /\ left[i] \in Int /\ interval[i] \in Nat /\ tick \in Int
    BY <1>1, <1>2, <1>4, <1>10 DEF Slots
  <2>1. CASE i \in again /\ NextSlot(i, tick) = s
    <3>1. left[i] = 1 /\ interval[i] > 0
      BY <1>6, <1>7, <2>1
    <3>2. left'[i] = interval[i] /\ tick + left[i] - 1 + interval[i] = tick + interval[i]
      BY <1>12, <2>0, <2>1, <3>1
    <3>3. s = (tick + interval[i]) % SlotCount
      BY <2>1, <3>2 DEF NextSlot
    <3> QED
      BY <1>1, <2>0, <3>1, <3>2, <3>3
  <2>2. CASE ~(i \in again /\ NextSlot(i, tick) = s)
    <3>1. i \in slots[s] /\ (s = tick => i \notin DueIn(tick))
      BY <1>8, <2>2
    <3>2. left[i] >= 1 /\ s = (cursor + left[i]) % SlotCount
      BY <2>0, <3>1, <1>3 DEF InItsSlot, SlotOf
    <3>3. left[i] # 1
      <4> SUFFICES ASSUME left[i] = 1 PROVE FALSE
        OBVIOUS
      <4>1. s = tick
        BY <1>5, <3>2
      <4>2. i \in DueIn(tick)
        BY <1>6, <2>0, <3>1, <4>1
      <4> QED
        BY <3>1, <4>1, <4>2
    <3>4. i \notin again
      BY <1>6, <1>7, <3>3
    <3>5. left'[i] = left[i] - 1
      BY <1>12, <3>1, <3>4, InWheelIs
    <3>6. (((cursor + 1) % SlotCount) + (left[i] - 1)) % SlotCount = ((cursor + 1) + (left[i] - 1)) % SlotCount
      <4>1. cursor + 1 \in Int /\ left[i] - 1 \in Int
        BY <1>2, <2>0
      <4> QED
        BY <1>2, <4>1, RemainderOfSum
    <3>7. (cursor + 1) + (left[i] - 1) = cursor + left[i] /\ left[i] - 1 >= 1
      BY <1>2, <2>0, <3>2, <3>3
    <3> QED
      BY <1>1, <1>5, <3>2, <3>5, <3>6, <3>7
  <2> QED
    BY <2>1, <2>2
<1>15. FiresOnTime'
  <2> SUFFICES ASSUME NEW i \in DueIn(tick) PROVE left'[i] = interval'[i]
    BY <1>1 DEF FiresOnTime
  <2>1. left[i] = 1 /\ i \in InWheel /\ interval[i] \in Nat
    BY <1>2, <1>7
  <2>2. CASE interval[i] > 0
    BY <1>1, <1>6, <1>12, <2>1, <2>2
  <2>3. CASE interval[i] = 0
    <3>1. i \notin again
      BY <1>6, <2>3
    <3> QED
      BY <1>1, <1>12, <2>1, <2>3, <3>1
  <2> QED
    BY <2>1, <2>2, <2>3
<1>16. \A i : i \in InWheel' <=> \E s \in Slots : i \in slots'[s]
  BY DEF InWheel
<1>17. \A i \in Taken' : i \in InWheel' <=> interval'[i] > 0
  <2> SUFFICES ASSUME NEW i \in DueIn(tick) PROVE i \in InWheel' <=> interval[i] > 0
    BY <1>1 DEF Taken
  <2>1. CASE interval[i] > 0
    <3>1. i \in again
      BY <1>6, <2>1
    <3> QED
      BY <1>8, <1>9, <1>16, <2>1, <3>1
  <2>2. CASE ~(interval[i] > 0)
    <3>1. i \notin again
      BY <1>6, <2>2
    <3>2. ASSUME NEW s \in Slots, i \in slots'[s] PROVE FALSE
      <4>1. s # tick /\ i \in slots[s] /\ i \notin cancelled
        BY <1>6, <1>8, <3>1, <3>2
      <4>2. s = (cursor + left[i]) % SlotCount
        BY <1>3, <4>1 DEF InItsSlot, SlotOf
      <4> QED
        BY <1>5, <1>7, <4>1, <4>2
    <3> QED
      BY <1>16, <2>2, <3>2
  <2> QED
    BY <2>1, <2>2
<1>18. PendingExact'
  <2>1. \A x : x \in Live <=> x \in InWheel /\ x \notin cancelled
    BY <1>1, WheelSizes DEF Live, OneShots
  <2>2. \A x : x \in Live' <=> \/ x \in InWheel' /\ x \notin cancelled
                               \/ x \in DueIn(tick) /\ interval[x] = 0
    BY <1>1, <1>2, <1>7, <1>11 DEF Live, OneShots
  <2>3. ASSUME NEW x, x \in Live' PROVE x \in Live
    <3>1. CASE x \in InWheel' /\ x \notin cancelled
      <4>1. PICK s \in Slots : x \in slots'[s]
        BY <1>16, <3>1
      <4>2. x \in slots[s] \/ x \in slots[tick] \/ x \in DueIn(tick)
        BY <1>6, <1>8, <4>1
      <4> QED
        BY <1>4, <1>7, <2>1, <3>1, <4>2, InWheelIs
    <3>2. CASE x \in DueIn(tick) /\ interval[x] = 0
      BY <1>6, <1>7, <2>1, <3>2
    <3> QED
      BY <2>2, <2>3, <3>1, <3>2
  <2>4. ASSUME NEW x, x \in Live PROVE x \in Live'
    <3>1. x \in InWheel /\ x \notin cancelled
      BY <2>1, <2>4
    <3>2. PICK s \in Slots : x \in slots[s]
      BY <3>1, InWheelIs
    <3>3. CASE s # tick \/ x \notin DueIn(tick)
      BY <1>8, <1>16, <2>2, <3>1, <3>2, <3>3
    <3>4. CASE x \in DueIn(tick)
      <4>1. interval[x] \in Nat
        BY <1>2, <1>7, <3>4
      <4>2. CASE interval[x] = 0
        BY <2>2, <3>4, <4>2
      <4>3. CASE interval[x] > 0
        <5>1. x \in again /\ NextSlot(x, tick) \in Slots
          BY <1>6, <1>9, <3>4, <4>3
        <5> QED
          BY <1>8, <1>16, <2>2, <3>1, <5>1
      <4> QED
        BY <4>1, <4>2, <4>3
    <3> QED
      BY <3>3, <3>4
  <2>5. Live' = Live
    BY <2>3, <2>4
  <2> QED
    BY <1>1, <1>3, <2>5 DEF PendingExact
<1>19. NoLostWheelIdle'
  BY <1>1 DEF NoLostWheelIdle, WheelIInv
<1>20. /\ next_timer' \in 1..MaxTimers + 1 /\ cursor' \in Slots
       /\ interval' \in [Timers -> TimerDelays \cup {0}] /\ cancelled' \subseteq Added'
       /\ waiter' \in {"no", "asleep", "awake"}
  BY <1>1, <1>3, <1>4, <1>11 DEF WheelIInv
<1>21. due' \subseteq Added' /\ firing' \in Added' \cup {0} /\ firing' \notin due'
  BY <1>1, <1>2, <1>7, <1>11
<1>22. wheel_stopping' \in BOOLEAN /\ ticker' \in BOOLEAN
  BY <1>1 DEF WheelIInv
<1> QED
  BY <1>11, <1>13, <1>14, <1>15, <1>17, <1>18, <1>19, <1>20, <1>21, <1>22 DEF WheelIInv

\* Every step keeps it.
LEMMA WheelStays ==
  ASSUME ~StopsLate, WheelIInv, [WheelNext]_wheelVars
  PROVE  WheelIInv'
<1>1. CASE UNCHANGED wheelVars
  <2>1. /\ UNCHANGED <<next_timer, cursor, slots, left, interval, cancelled, pending, due, firing,
                       waiter, wheel_stopping, ticker>>
    BY <1>1 DEF wheelVars, slotVars, stopVars
  <2>2. Live' = Live /\ Taken' = Taken
    BY <2>1 DEF Live, InWheel, OneShots, Added, Taken
  <2>3. PendingExact' /\ NoLostWheelIdle'
    BY <2>1, <2>2 DEF PendingExact, NoLostWheelIdle, WheelIInv
  <2>4. /\ firing \in Taken \cup {0} /\ firing \notin due /\ cancelled \subseteq Added
        /\ waiter' \in {"no", "asleep", "awake"}
    BY <2>1 DEF WheelIInv, Taken
  <2>5. wheel_stopping' \in BOOLEAN /\ ticker' \in BOOLEAN
    BY <2>1 DEF WheelIInv
  <2> QED
    BY <2>1, <2>2, <2>3, <2>4, <2>5, NothingMoves
<1>2. ASSUME NEW d \in TimerDelays, Add(d, 0) \/ Add(d, d) PROVE WheelIInv'
  BY <1>2, AddKeeps
<1>3. ASSUME NEW i \in Timers, CancelTimer(i) PROVE WheelIInv'
  BY <1>3, CancelTimerKeeps
<1> QED
  BY <1>1, <1>2, <1>3, ScanKeeps, CallbackEndsKeeps, OthersKeep DEF WheelNext, WheelWorker

\* It begins with nothing in any slot.
LEMMA WheelBegins == WheelInit => WheelIInv
<1> SUFFICES ASSUME WheelInit PROVE WheelIInv
  OBVIOUS
<1>1. SlotCount \in Nat \ {0} /\ MaxTimers \in Nat
  BY WheelAssumption DEF WheelAssumption
<1>2. next_timer \in 1..MaxTimers + 1 /\ cursor \in Slots
  BY <1>1 DEF WheelInit, Slots
<1>3. slots \in [Slots -> SUBSET Added] /\ \A s \in Slots : slots[s] = {}
  BY DEF WheelInit
<1>4. left \in [Timers -> Int] /\ interval \in [Timers -> TimerDelays \cup {0}]
  BY DEF WheelInit
<1>5. Live = {}
  <2>1. InWheel = {}
    BY <1>3, InWheelIs
  <2>2. 0 \notin OneShots
    BY DEF OneShots, Added
  <2> QED
    BY <2>1, <2>2 DEF Live, WheelInit
<1>6. PendingExact
  BY <1>5, FS_EmptySet DEF PendingExact, WheelInit
<1>7. InItsSlot /\ FiresOnTime /\ NoLostWheelIdle
  BY <1>3 DEF InItsSlot, FiresOnTime, NoLostWheelIdle, WheelInit
<1>8. Taken = {}
  BY DEF Taken, WheelInit
<1> QED
  BY <1>2, <1>3, <1>4, <1>6, <1>7, <1>8 DEF WheelIInv, WheelInit

\* Unless a callback that was cancelled asks to stop: the count of pending timers is
\* exact through every cancellation, each timer is in the slot of its deadline, none
\* fires a turn of the wheel early, and nobody sleeps through the wheel's coming to rest.
THEOREM WheelInvariant ==
  ASSUME ~StopsLate
  PROVE  WheelSpec => [](WheelTypeOK /\ WheelInv)
<1>1. ASSUME WheelIInv PROVE WheelTypeOK /\ WheelInv
  <2>1. pending \in 0..MaxTimers
    <3>1. pending = Cardinality(Live) /\ MaxTimers \in Nat
      BY <1>1, WheelSizes DEF WheelIInv, PendingExact
    <3> QED
      BY <1>1, <3>1, LiveFinite
  <2> QED
    BY <1>1, <2>1 DEF WheelIInv, WheelTypeOK, WheelInv
<1>2. WheelIInv /\ [WheelNext]_wheelVars => WheelIInv'
  BY WheelStays
<1> QED
  BY <1>1, <1>2, WheelBegins, PTL DEF WheelSpec

-----------------------------------------------------------------------------
(***************************************************************************)
(* The instruments, for any numbers of threads, buckets and spans.  A      *)
(* histogram without a mutex and without a reset: the buckets hold what    *)
(* has begun and the total what has ended, so that the two differ by the   *)
(* observers under way, and a reader that walks along the buckets is never *)
(* behind what had ended when it began.  The registry has one type per     *)
(* family.  The tracer's scopes are a chain that ends at its current span, *)
(* and what ended is in the ring or was dropped from it.                   *)
(***************************************************************************)

USE TelemetryAssumption DEF TelemetryAssumption

LEMMA FirstMany == \A k \in Nat : IsFiniteSet(1..k) /\ Cardinality(1..k) = k
BY FS_Interval

\* The units that a sum stands for.
Units(f, n) == UNION {{b} \X (1..f[b]) : b \in 1..n}

LEMMA UnitsAre ==
  ASSUME NEW n \in Nat, NEW f, \A b \in 1..n : f[b] \in Nat
  PROVE  /\ IsFiniteSet(Units(f, n)) /\ SumTo(f, n) \in Nat
         /\ SumTo(f, n) = Cardinality(Units(f, n))
         /\ \A p : p \in Units(f, n) <=>
              \E b \in 1..n : \E k \in 1..f[b] : p = <<b, k>>
<1> DEFINE K(b) == {b} \X (1..f[b])
<1>1. Units(f, n) = UNION {K(b) : b \in 1..n}
  BY DEF Units
<1>2. ASSUME NEW b \in 1..n PROVE IsFiniteSet(K(b))
  <2>1. IsFiniteSet(1..f[b])
    BY FS_Interval
  <2>2. IsFiniteSet({b})
    BY FS_Singleton
  <2> QED
    BY ONLY <2>1, <2>2, FS_Product
<1>3. IsFiniteSet(1..n)
  BY FS_Interval
<1> DEFINE F == {K(b) : b \in 1..n}
<1>4. IsFiniteSet(F)
  <2> DEFINE g == [b \in 1..n |-> K(b)]
  <2>1. g \in Surjection(1..n, F)
    BY DEF Surjection
  <2> HIDE DEF g, F
  <2> QED
    BY ONLY <1>3, <2>1, FS_Surjection
<1>5. \A T \in F : IsFiniteSet(T)
  BY <1>2
<1>6. \A p : p \in Units(f, n) <=> \E b \in 1..n : p \in K(b)
  BY <1>1
<1>7. \A p : p \in Units(f, n) <=> \E b \in 1..n : \E k \in 1..f[b] : p = <<b, k>>
  BY <1>6
<1> HIDE DEF F
<1>8. IsFiniteSet(UNION F)
  BY <1>4, <1>5, FS_UNION
<1>9. IsFiniteSet(Units(f, n))
  BY <1>1, <1>8 DEF F
<1>10. SumTo(f, n) = Cardinality(Units(f, n))
  BY DEF SumTo, Units
<1> QED
  BY <1>7, <1>9, <1>10, FS_CardinalityType

\* One more unit in one place, and the same sum without it.
LEMMA SumGrows ==
  ASSUME NEW n \in Nat, NEW f, NEW g, NEW c \in 1..n,
         \A b \in 1..n : f[b] \in Nat /\ g[b] = IF b = c THEN f[b] + 1 ELSE f[b]
  PROVE  SumTo(g, n) = SumTo(f, n) + 1
<1>1. \A b \in 1..n : g[b] \in Nat
  OBVIOUS
<1>2. f[c] \in Nat /\ g[c] = f[c] + 1
  OBVIOUS
<1> DEFINE u == <<c, f[c] + 1>>
<1>3. IsFiniteSet(Units(f, n)) /\ SumTo(f, n) = Cardinality(Units(f, n))
  BY UnitsAre
<1>4. SumTo(g, n) = Cardinality(Units(g, n))
  BY <1>1, UnitsAre
<1>5. \A p : p \in Units(f, n) <=> \E b \in 1..n : \E k \in 1..f[b] : p = <<b, k>>
  BY UnitsAre
<1>6. \A p : p \in Units(g, n) <=> \E b \in 1..n : \E k \in 1..g[b] : p = <<b, k>>
  BY <1>1, UnitsAre
<1>7. u \notin Units(f, n)
  <2> SUFFICES ASSUME NEW b \in 1..n, NEW k \in 1..f[b], u = <<b, k>> PROVE FALSE
    BY <1>5
  <2>1. b = c /\ k = f[c] + 1
    OBVIOUS
  <2> QED
    BY <1>2, <2>1
<1>8. ASSUME NEW p \in Units(g, n), p # u PROVE p \in Units(f, n)
  <2>0. PICK b \in 1..n : \E k \in 1..g[b] : p = <<b, k>>
    BY <1>6, <1>8
  <2>1. PICK k \in 1..g[b] : p = <<b, k>>
    BY <2>0
  <2>2. CASE b = c
    <3>1. k # f[c] + 1
      BY <1>8, <2>1, <2>2
    <3>2. k \in 1..f[b]
      BY <1>2, <2>2, <3>1
    <3> QED
      BY <1>5, <2>1, <3>2
  <2>3. CASE b # c
    <3>1. k \in 1..f[b]
      BY <2>3
    <3> QED
      BY <1>5, <2>1, <3>1
  <2> QED
    BY <2>2, <2>3
<1>9. ASSUME NEW p \in Units(f, n) PROVE p \in Units(g, n)
  <2>0. PICK b \in 1..n : \E k \in 1..f[b] : p = <<b, k>>
    BY <1>5, <1>9
  <2>1. PICK k \in 1..f[b] : p = <<b, k>>
    BY <2>0
  <2>2. k \in 1..g[b]
    OBVIOUS
  <2> QED
    BY <1>6, <2>1, <2>2
<1>10. u \in Units(g, n)
  <2>1. f[c] + 1 \in 1..g[c]
    BY <1>2
  <2> QED
    BY <1>6, <2>1
<1> HIDE DEF u
<1>11. Units(g, n) = Units(f, n) \cup {u}
  BY <1>8, <1>9, <1>10
<1>12. Cardinality(Units(g, n)) = Cardinality(Units(f, n)) + 1
  BY ONLY <1>3, <1>7, <1>11, FS_AddElement
<1> QED
  BY <1>3, <1>4, <1>12

\* The same numbers have the same sum, larger ones a larger one.
LEMMA SumSame ==
  ASSUME NEW n \in Nat, NEW f, NEW g, \A b \in 1..n : f[b] \in Nat /\ g[b] = f[b]
  PROVE  SumTo(g, n) = SumTo(f, n)
<1>1. \A b \in 1..n : g[b] \in Nat
  OBVIOUS
<1>2. \A p : p \in Units(f, n) <=> \E b \in 1..n : \E k \in 1..f[b] : p = <<b, k>>
  BY UnitsAre
<1>3. \A p : p \in Units(g, n) <=> \E b \in 1..n : \E k \in 1..g[b] : p = <<b, k>>
  BY <1>1, UnitsAre
<1>4. Units(f, n) = Units(g, n)
  BY <1>2, <1>3
<1>5. SumTo(f, n) = Cardinality(Units(f, n)) /\ SumTo(g, n) = Cardinality(Units(g, n))
  BY DEF SumTo, Units
<1> QED
  BY <1>4, <1>5

LEMMA SumLess ==
  ASSUME NEW n \in Nat, NEW f, NEW g,
         \A b \in 1..n : f[b] \in Nat /\ g[b] \in Nat /\ f[b] <= g[b]
  PROVE  SumTo(f, n) <= SumTo(g, n)
<1>1. /\ IsFiniteSet(Units(f, n)) /\ IsFiniteSet(Units(g, n))
      /\ SumTo(f, n) = Cardinality(Units(f, n)) /\ SumTo(g, n) = Cardinality(Units(g, n))
  BY UnitsAre
<1>2. \A p : p \in Units(f, n) <=> \E b \in 1..n : \E k \in 1..f[b] : p = <<b, k>>
  BY UnitsAre
<1>3. \A p : p \in Units(g, n) <=> \E b \in 1..n : \E k \in 1..g[b] : p = <<b, k>>
  BY UnitsAre
<1>4. \A b \in 1..n : \A k \in 1..f[b] : k \in 1..g[b]
  OBVIOUS
<1>5. Units(f, n) \subseteq Units(g, n)
  BY <1>2, <1>3, <1>4
<1> QED
  BY <1>1, <1>5, SubsetKept

\* One place further, and none.
LEMMA SumNext ==
  ASSUME NEW n \in Nat, NEW f, \A b \in 1..(n + 1) : f[b] \in Nat
  PROVE  SumTo(f, n + 1) = SumTo(f, n) + f[n + 1]
<1> DEFINE L == {n + 1} \X (1..f[n + 1])
<1>1. n + 1 \in Nat /\ n + 1 \in 1..(n + 1) /\ 1..n \subseteq 1..(n + 1)
  OBVIOUS
<1>2. f[n + 1] \in Nat /\ \A b \in 1..n : f[b] \in Nat
  BY <1>1
<1>3. /\ IsFiniteSet(Units(f, n)) /\ SumTo(f, n) = Cardinality(Units(f, n))
      /\ SumTo(f, n) \in Nat
  BY <1>2, UnitsAre
<1>4. SumTo(f, n + 1) = Cardinality(Units(f, n + 1))
  BY DEF SumTo, Units
<1>5. \A p : p \in Units(f, n) <=> \E b \in 1..n : \E k \in 1..f[b] : p = <<b, k>>
  BY <1>2, UnitsAre
<1>6. \A p : p \in Units(f, n + 1) <=> \E b \in 1..(n + 1) : \E k \in 1..f[b] : p = <<b, k>>
  BY <1>1, UnitsAre
<1>7. \A p : p \in L <=> \E k \in 1..f[n + 1] : p = <<n + 1, k>>
  OBVIOUS
<1>8. IsFiniteSet(L) /\ Cardinality(L) = f[n + 1]
  <2>1. IsFiniteSet(1..f[n + 1]) /\ Cardinality(1..f[n + 1]) = f[n + 1]
    BY ONLY <1>2, FirstMany
  <2>2. IsFiniteSet({n + 1}) /\ Cardinality({n + 1}) = 1
    BY FS_Singleton
  <2>3. IsFiniteSet(L) /\ Cardinality(L) = 1 * Cardinality(1..f[n + 1])
    BY ONLY <2>1, <2>2, FS_Product
  <2> HIDE DEF L
  <2> QED
    BY <1>2, <2>1, <2>3
<1> HIDE DEF L
<1>9. \A b \in 1..(n + 1) : b \in 1..n \/ b = n + 1
  OBVIOUS
<1>10. Units(f, n + 1) = Units(f, n) \cup L
  <2>1. \A p \in Units(f, n + 1) : p \in Units(f, n) \cup L
    BY <1>5, <1>6, <1>7, <1>9
  <2>2. \A p \in Units(f, n) : p \in Units(f, n + 1)
    BY <1>1, <1>5, <1>6
  <2>3. \A p \in L : p \in Units(f, n + 1)
    BY <1>1, <1>6, <1>7
  <2> QED
    BY <2>1, <2>2, <2>3
<1>11. Units(f, n) \cap L = {}
  <2> SUFFICES ASSUME NEW p \in Units(f, n), p \in L PROVE FALSE
    OBVIOUS
  <2>0. PICK b \in 1..n : \E k \in 1..f[b] : p = <<b, k>>
    BY <1>5
  <2>1. PICK k \in 1..f[b] : p = <<b, k>>
    BY <2>0
  <2>2. PICK j \in 1..f[n + 1] : p = <<n + 1, j>>
    BY <1>7
  <2> QED
    BY <2>1, <2>2
<1>12. Cardinality(Units(f, n) \cup L)
         = Cardinality(Units(f, n)) + Cardinality(L) - Cardinality(Units(f, n) \cap L)
  BY ONLY <1>3, <1>8, FS_Union
<1>13. Cardinality(Units(f, n) \cap L) = 0
  BY <1>11, FS_EmptySet
<1> DEFINE u == Cardinality(Units(f, n))
           v == Cardinality(L)
<1>14. u \in Nat /\ v \in Nat /\ SumTo(f, n) = u /\ f[n + 1] = v
  BY <1>2, <1>3, <1>8
<1>15. SumTo(f, n + 1) = u + v - Cardinality(Units(f, n) \cap L)
  BY <1>4, <1>10, <1>12
<1> HIDE DEF u, v
<1>16. SumTo(f, n + 1) = u + v
  BY ONLY <1>13, <1>14, <1>15
<1> QED
  BY ONLY <1>14, <1>16

LEMMA SumNone ==
  ASSUME NEW n \in Nat, NEW f, n = 0 \/ \A b \in 1..n : f[b] = 0
  PROVE  SumTo(f, n) = 0
<1>1. \A b \in 1..n : f[b] \in Nat
  OBVIOUS
<1>2. \A p : p \in Units(f, n) <=> \E b \in 1..n : \E k \in 1..f[b] : p = <<b, k>>
  BY <1>1, UnitsAre
<1>3. \A b \in 1..n : \A k \in 1..f[b] : FALSE
  OBVIOUS
<1>4. Units(f, n) = {}
  BY <1>2, <1>3
<1> QED
  BY <1>4, FS_EmptySet DEF SumTo, Units

\* A place has no more than the sum.
LEMMA SumHas ==
  ASSUME NEW n \in Nat, NEW f, NEW c \in 1..n, \A b \in 1..n : f[b] \in Nat
  PROVE  f[c] <= SumTo(f, n)
<1>1. /\ IsFiniteSet(Units(f, n)) /\ SumTo(f, n) = Cardinality(Units(f, n))
      /\ SumTo(f, n) \in Nat
  BY UnitsAre
<1>2. \A p : p \in Units(f, n) <=> \E b \in 1..n : \E k \in 1..f[b] : p = <<b, k>>
  BY UnitsAre
<1>3. f[c] \in Nat
  OBVIOUS
<1> DEFINE C == {c} \X (1..f[c])
<1>4. IsFiniteSet(C) /\ Cardinality(C) = f[c]
  <2>1. IsFiniteSet(1..f[c]) /\ Cardinality(1..f[c]) = f[c]
    BY ONLY <1>3, FirstMany
  <2>2. IsFiniteSet({c}) /\ Cardinality({c}) = 1
    BY FS_Singleton
  <2>3. IsFiniteSet(C) /\ Cardinality(C) = 1 * Cardinality(1..f[c])
    BY ONLY <2>1, <2>2, FS_Product
  <2> HIDE DEF C
  <2> QED
    BY <1>3, <2>1, <2>3
<1>5. C \subseteq Units(f, n)
  BY <1>2
<1> HIDE DEF C
<1> QED
  BY <1>1, <1>3, <1>4, <1>5, SubsetKept

\* The histogram.  What is counted, in the buckets and in the total; what there is
\* when nothing was reset; and what its reader has read, then.
Kinds == {"none", "scrape", "percentile", "found", "done"}
Busy == InGroup(Observers, observing, BucketSet)

HistogramTypes ==
  /\ counts \in [BucketSet -> Nat] /\ begun \in [BucketSet -> Nat]
  /\ ended \in [BucketSet -> Nat] /\ settled \in [BucketSet -> Nat]
  /\ total \in Nat /\ resets \in Nat /\ resetting \in 0..(Buckets + 1)
  /\ observing \in [Observers -> 0..Buckets]

ReaderTypes ==
  /\ reader \in [kind : Kinds, at : 0..Buckets, run : Nat, total : Nat, read : Seq(Nat)]
  /\ Len(reader.read) = reader.at

Counted ==
  /\ \A b \in BucketSet : counts[b] <= begun[b] /\ settled[b] <= ended[b]
  /\ \A b \in BucketSet : begun[b] = ended[b] + Count(Observers, observing, b)
  /\ total <= SumTo(ended, Buckets) /\ SumTo(begun, Buckets) <= MaxObserved
  /\ SumTo(begun, Buckets) = SumTo(ended, Buckets) + Cardinality(Busy)

NothingReset == resets = 0 =>
  resetting = 0 /\ counts = begun /\ total = SumTo(ended, Buckets)

ReadIsTrue == resets = 0 =>
  /\ \A i \in 1..reader.at : reader.read[i] \in SumTo(settled, i)..SumTo(begun, i)
  /\ reader.run \in SumTo(settled, reader.at)..SumTo(begun, reader.at)
  /\ reader.kind \in {"percentile", "found"} => reader.total = SumTo(settled, Buckets)
  /\ reader.kind = "found" => reader.run >= reader.total
  /\ reader.kind = "done" =>
       /\ reader.at = Buckets
       /\ reader.total \in SumTo(settled, Buckets)..SumTo(begun, Buckets)
       /\ reader.read[Buckets] - reader.total <= Cardinality(Observers)

HistogramIInv == HistogramTypes /\ ReaderTypes /\ Counted /\ NothingReset /\ ReadIsTrue

\* What the sums of the histogram are, and how they compare.
LEMMA HistogramSums ==
  ASSUME HistogramIInv
  PROVE  /\ \A n \in 0..Buckets :
              /\ SumTo(begun, n) \in Nat /\ SumTo(ended, n) \in Nat /\ SumTo(settled, n) \in Nat
              /\ SumTo(settled, n) <= SumTo(ended, n) /\ SumTo(ended, n) <= SumTo(begun, n)
         /\ \A b \in BucketSet : /\ Count(Observers, observing, b) \in Nat
                                 /\ ended[b] <= begun[b]
         /\ Cardinality(Busy) \in Nat /\ Cardinality(Observers) \in Nat
         /\ Cardinality(Busy) <= Cardinality(Observers)
<1>1. IsFiniteSet(Observers) /\ Busy \subseteq Observers
  BY DEF Busy, InGroup
<1>2. IsFiniteSet(Busy)
  BY <1>1, FS_Subset
<1>3. /\ Cardinality(Busy) \in Nat /\ Cardinality(Observers) \in Nat
      /\ Cardinality(Busy) <= Cardinality(Observers)
  BY <1>1, <1>2, SubsetKept
<1>4. ASSUME NEW b \in BucketSet
      PROVE  Count(Observers, observing, b) \in Nat /\ ended[b] <= begun[b]
  <2>1. Count(Observers, observing, b) \in Nat
    BY <1>1, CountType
  <2>2. begun[b] = ended[b] + Count(Observers, observing, b)
    BY DEF HistogramIInv, Counted
  <2>3. begun[b] \in Nat /\ ended[b] \in Nat
    BY DEF HistogramIInv, HistogramTypes
  <2> QED
    BY <2>1, <2>2, <2>3
<1>5. \A b \in BucketSet :
        /\ begun[b] \in Nat /\ ended[b] \in Nat /\ settled[b] \in Nat
        /\ settled[b] <= ended[b] /\ ended[b] <= begun[b]
  BY <1>4 DEF HistogramIInv, HistogramTypes, Counted
<1>6. ASSUME NEW n \in 0..Buckets
      PROVE  /\ SumTo(begun, n) \in Nat /\ SumTo(ended, n) \in Nat /\ SumTo(settled, n) \in Nat
             /\ SumTo(settled, n) <= SumTo(ended, n) /\ SumTo(ended, n) <= SumTo(begun, n)
  <2>1. n \in Nat
    OBVIOUS
  <2>2. \A b \in 1..n :
          /\ begun[b] \in Nat /\ ended[b] \in Nat /\ settled[b] \in Nat
          /\ settled[b] <= ended[b] /\ ended[b] <= begun[b]
    BY <1>5 DEF BucketSet
  <2>3. SumTo(begun, n) \in Nat /\ SumTo(ended, n) \in Nat /\ SumTo(settled, n) \in Nat
    BY <2>1, <2>2, UnitsAre
  <2>4. SumTo(settled, n) <= SumTo(ended, n)
    BY <2>1, <2>2, SumLess
  <2>5. SumTo(ended, n) <= SumTo(begun, n)
    BY <2>1, <2>2, SumLess
  <2> QED
    BY <2>3, <2>4, <2>5
<1> QED
  BY <1>3, <1>4, <1>6

\* Whoever read before may have read it now: what has begun only grows.
LEMMA ReaderStays ==
  ASSUME HistogramIInv, reader' = reader, settled' = settled, begun' \in [BucketSet -> Nat],
         \A b \in BucketSet : begun[b] <= begun'[b], resets' = 0 => resets = 0
  PROVE  ReadIsTrue'
<1> SUFFICES ASSUME resets' = 0 PROVE ReadIsTrue'
  BY DEF ReadIsTrue
<1>1. resets = 0
  OBVIOUS
<1> DEFINE late == begun'
<1>2. late \in [BucketSet -> Nat] /\ \A b \in BucketSet : begun[b] <= late[b]
  OBVIOUS
<1>3. begun \in [BucketSet -> Nat]
  BY DEF HistogramIInv, HistogramTypes
<1> HIDE DEF late
<1>4. ASSUME NEW n \in 0..Buckets
      PROVE  SumTo(begun, n) <= SumTo(late, n) /\ SumTo(late, n) \in Nat
  <2>1. n \in Nat
    OBVIOUS
  <2>2. \A b \in 1..n : begun[b] \in Nat /\ late[b] \in Nat /\ begun[b] <= late[b]
    BY <1>2, <1>3 DEF BucketSet
  <2> QED
    BY <2>1, <2>2, SumLess, UnitsAre
<1>5. \A n \in 0..Buckets : SumTo(begun, n) \in Nat /\ SumTo(settled, n) \in Nat
  BY HistogramSums
<1>6. /\ reader.at \in 0..Buckets /\ reader.run \in Nat /\ reader.total \in Nat
      /\ reader.read \in Seq(Nat) /\ Len(reader.read) = reader.at
  BY DEF HistogramIInv, ReaderTypes
<1>7. ReadIsTrue
  BY DEF HistogramIInv
<1>8. ASSUME NEW i \in 1..reader.at
      PROVE  reader.read[i] \in SumTo(settled, i)..SumTo(late, i)
  <2>1. reader.read[i] \in SumTo(settled, i)..SumTo(begun, i)
    BY <1>1, <1>7 DEF ReadIsTrue
  <2>2. i \in 0..Buckets
    BY <1>6
  <2> QED
    BY <1>4, <1>5, <2>1, <2>2
<1>9. reader.run \in SumTo(settled, reader.at)..SumTo(late, reader.at)
  <2>1. reader.run \in SumTo(settled, reader.at)..SumTo(begun, reader.at)
    BY <1>1, <1>7 DEF ReadIsTrue
  <2> DEFINE k == reader.at
  <2>2. k \in 0..Buckets
    BY <1>6
  <2>3. /\ SumTo(begun, k) <= SumTo(late, k) /\ SumTo(late, k) \in Nat
        /\ SumTo(begun, k) \in Nat /\ SumTo(settled, k) \in Nat
    BY <1>4, <1>5, <2>2
  <2> QED
    BY ONLY <1>6, <2>1, <2>3
<1>10. reader.kind = "done" => reader.total \in SumTo(settled, Buckets)..SumTo(late, Buckets)
  <2> SUFFICES ASSUME reader.kind = "done" PROVE reader.total \in SumTo(settled, Buckets)..SumTo(late, Buckets)
    OBVIOUS
  <2>1. reader.total \in SumTo(settled, Buckets)..SumTo(begun, Buckets)
    BY <1>1, <1>7 DEF ReadIsTrue
  <2>2. Buckets \in 0..Buckets
    OBVIOUS
  <2> QED
    BY <1>4, <1>5, <2>1, <2>2
<1>11. /\ \A i \in 1..reader.at : reader.read[i] \in SumTo(settled, i)..SumTo(begun', i)
       /\ reader.run \in SumTo(settled, reader.at)..SumTo(begun', reader.at)
       /\ reader.kind = "done" =>
            reader.total \in SumTo(settled, Buckets)..SumTo(begun', Buckets)
  BY <1>8, <1>9, <1>10 DEF late
<1>12. /\ reader.kind \in {"percentile", "found"} => reader.total = SumTo(settled, Buckets)
       /\ reader.kind = "found" => reader.run >= reader.total
       /\ reader.kind = "done" =>
            reader.at = Buckets /\ reader.read[Buckets] - reader.total <= Cardinality(Observers)
  BY <1>1, <1>7 DEF ReadIsTrue
<1> QED
  BY <1>11, <1>12 DEF ReadIsTrue

\* An observation begins: its bucket counts it.
LEMMA ObserveKeeps ==
  ASSUME HistogramIInv, NEW o \in Observers, NEW b \in BucketSet, Observe(o, b)
  PROVE  HistogramIInv'
<1> USE DEF HistogramIInv
<1>1. /\ observing[o] = 0 /\ SumTo(begun, Buckets) < MaxObserved
      /\ counts' = [counts EXCEPT ![b] = @ + 1] /\ total' = total
      /\ observing' = [observing EXCEPT ![o] = b]
      /\ begun' = [begun EXCEPT ![b] = @ + 1]
      /\ UNCHANGED <<reader, resetting, ended, settled, resets>>
  BY DEF Observe, CountStep
<1>2. b \in 1..Buckets /\ b # 0
  BY DEF BucketSet
<1>3. HistogramTypes'
  BY <1>1, <1>2 DEF HistogramTypes
<1>4. ReaderTypes'
  BY <1>1 DEF ReaderTypes
<1>5. \A a \in BucketSet : /\ begun[a] \in Nat
                           /\ begun'[a] = IF a = b THEN begun[a] + 1 ELSE begun[a]
  BY <1>1 DEF HistogramTypes
<1>6. SumTo(begun', Buckets) = SumTo(begun, Buckets) + 1
  BY <1>2, <1>5, SumGrows DEF BucketSet
<1>7. SumTo(begun, Buckets) \in Nat /\ SumTo(ended, Buckets) \in Nat
  <2>1. Buckets \in 0..Buckets
    OBVIOUS
  <2> QED
    BY <2>1, HistogramSums
<1>8. /\ \A p \in Observers : p # o => observing'[p] = observing[p]
      /\ observing'[o] = b /\ observing[o] = 0
  BY <1>1 DEF HistogramTypes
<1>9. ASSUME NEW a \in BucketSet
      PROVE  begun'[a] = ended'[a] + Count(Observers, observing', a)
  <2>1. observing[o] # a
    BY <1>8 DEF BucketSet
  <2>2. begun[a] = ended[a] + Count(Observers, observing, a)
    BY DEF Counted
  <2>3. Count(Observers, observing, a) \in Nat /\ begun[a] \in Nat /\ ended[a] \in Nat
    BY HistogramSums DEF HistogramTypes
  <2>4. ended'[a] = ended[a]
    BY <1>1
  <2>5. CASE a = b
    <3>1. Count(Observers, observing', a) = Count(Observers, observing, a) + 1
      BY <1>8, <2>1, <2>5, CountEnter
    <3>2. begun'[a] = begun[a] + 1
      BY <1>5, <2>5
    <3> QED
      BY <2>2, <2>3, <2>4, <3>1, <3>2
  <2>6. CASE a # b
    <3>1. Count(Observers, observing', a) = Count(Observers, observing, a)
      BY <1>8, <2>1, <2>6, CountSame
    <3>2. begun'[a] = begun[a]
      BY <1>5, <2>6
    <3> QED
      BY <2>2, <2>4, <3>1, <3>2
  <2> QED
    BY <2>5, <2>6
<1>10. Cardinality(Busy') = Cardinality(Busy) + 1
  <2>1. observing[o] \notin BucketSet /\ observing'[o] \in BucketSet
    BY <1>8 DEF BucketSet
  <2>2. Cardinality(InGroup(Observers, observing', BucketSet))
          = Cardinality(InGroup(Observers, observing, BucketSet)) + 1
    BY <1>8, <2>1, GroupEnter
  <2> QED
    BY <2>2 DEF Busy
<1>11. /\ total' <= SumTo(ended', Buckets) /\ SumTo(begun', Buckets) <= MaxObserved
       /\ SumTo(begun', Buckets) = SumTo(ended', Buckets) + Cardinality(Busy')
  <2>1. /\ total <= SumTo(ended, Buckets)
        /\ SumTo(begun, Buckets) = SumTo(ended, Buckets) + Cardinality(Busy)
    BY DEF Counted
  <2>2. Cardinality(Busy) \in Nat
    BY HistogramSums
  <2>3. total' = total /\ SumTo(ended', Buckets) = SumTo(ended, Buckets)
    BY <1>1
  <2> DEFINE B == SumTo(begun', Buckets)
             C == Cardinality(Busy')
             t == total'
             E == SumTo(ended', Buckets)
  <2>4. /\ B = SumTo(begun, Buckets) + 1 /\ C = Cardinality(Busy) + 1
        /\ t = total /\ E = SumTo(ended, Buckets)
    BY <1>6, <1>10, <2>3
  <2> HIDE DEF B, C, t, E
  <2>5. t <= E /\ B <= MaxObserved /\ B = E + C
    BY <1>1, <1>7, <2>1, <2>2, <2>4
  <2> QED
    BY <2>5 DEF B, C, t, E
<1>12. \A a \in BucketSet : counts'[a] <= begun'[a] /\ settled'[a] <= ended'[a]
  <2> SUFFICES ASSUME NEW a \in BucketSet PROVE counts'[a] <= begun'[a] /\ settled'[a] <= ended'[a]
    OBVIOUS
  <2>1. counts[a] <= begun[a] /\ settled[a] <= ended[a] /\ counts[a] \in Nat /\ begun[a] \in Nat
    BY DEF Counted, HistogramTypes
  <2>2. counts'[a] = IF a = b THEN counts[a] + 1 ELSE counts[a]
    BY <1>1 DEF HistogramTypes
  <2>3. settled'[a] = settled[a] /\ ended'[a] = ended[a]
    BY <1>1
  <2>4. counts'[a] <= begun'[a]
    BY <1>5, <2>1, <2>2
  <2> QED
    BY <2>1, <2>3, <2>4
<1>13. Counted'
  BY <1>9, <1>11, <1>12 DEF Counted, BucketSet
<1>14. NothingReset'
  <2> SUFFICES ASSUME resets = 0 PROVE resetting' = 0 /\ counts' = begun' /\ total' = SumTo(ended', Buckets)
    BY <1>1 DEF NothingReset
  <2>1. resetting = 0 /\ counts = begun /\ total = SumTo(ended, Buckets)
    BY DEF NothingReset
  <2> QED
    BY <1>1, <2>1
<1>15. \A a \in BucketSet : begun[a] <= begun'[a]
  BY <1>5
<1>16. begun' \in [BucketSet -> Nat]
  BY <1>1 DEF HistogramTypes
<1>17. ReadIsTrue'
  BY <1>1, <1>15, <1>16, ReaderStays
<1> QED
  BY <1>3, <1>4, <1>13, <1>14, <1>17

\* It ends: the total counts it.
LEMMA ObserveTotalKeeps ==
  ASSUME HistogramIInv, NEW o \in Observers, ObserveTotal(o)
  PROVE  HistogramIInv'
<1> USE DEF HistogramIInv
<1> DEFINE b == observing[o]
<1>1. /\ b # 0 /\ counts' = counts /\ total' = total + 1
      /\ observing' = [observing EXCEPT ![o] = 0]
      /\ ended' = [ended EXCEPT ![b] = @ + 1]
      /\ UNCHANGED <<reader, resetting, begun, settled, resets>>
  BY DEF ObserveTotal, CountStep
<1>2. b \in BucketSet /\ b \in 1..Buckets
  BY <1>1 DEF BucketSet, HistogramTypes
<1>3. /\ \A p \in Observers : p # o => observing'[p] = observing[p]
      /\ observing'[o] = 0 /\ observing[o] = b
  BY <1>1 DEF HistogramTypes
<1> HIDE DEF b
<1>4. HistogramTypes'
  <2>1. observing' \in [Observers -> 0..Buckets]
    BY <1>1 DEF HistogramTypes
  <2>2. ended' \in [BucketSet -> Nat] /\ total' \in Nat
    BY <1>1, <1>2 DEF HistogramTypes
  <2> QED
    BY <1>1, <2>1, <2>2 DEF HistogramTypes
<1>5. ReaderTypes'
  BY <1>1 DEF ReaderTypes
<1>6. \A a \in BucketSet : /\ ended[a] \in Nat
                           /\ ended'[a] = IF a = b THEN ended[a] + 1 ELSE ended[a]
  BY <1>1 DEF HistogramTypes
<1>7. SumTo(ended', Buckets) = SumTo(ended, Buckets) + 1
  BY <1>2, <1>6, SumGrows DEF BucketSet
<1>8. SumTo(begun, Buckets) \in Nat /\ SumTo(ended, Buckets) \in Nat
  <2>1. Buckets \in 0..Buckets
    OBVIOUS
  <2> QED
    BY <2>1, HistogramSums
<1>9. ASSUME NEW a \in BucketSet
      PROVE  begun'[a] = ended'[a] + Count(Observers, observing', a)
  <2>1. observing'[o] # a
    BY <1>3 DEF BucketSet
  <2>2. begun[a] = ended[a] + Count(Observers, observing, a)
    BY DEF Counted
  <2>3. Count(Observers, observing, a) \in Nat /\ begun[a] \in Nat /\ ended[a] \in Nat
    BY HistogramSums DEF HistogramTypes
  <2>4. begun'[a] = begun[a]
    BY <1>1
  <2>5. CASE a = b
    <3>1. Count(Observers, observing', a) = Count(Observers, observing, a) - 1
      BY <1>3, <2>1, <2>5, CountLeave
    <3>2. ended'[a] = ended[a] + 1
      BY <1>6, <2>5
    <3> QED
      BY <2>2, <2>3, <2>4, <3>1, <3>2
  <2>6. CASE a # b
    <3>1. Count(Observers, observing', a) = Count(Observers, observing, a)
      BY <1>3, <2>1, <2>6, CountSame
    <3>2. ended'[a] = ended[a]
      BY <1>6, <2>6
    <3> QED
      BY <2>2, <2>4, <3>1, <3>2
  <2> QED
    BY <2>5, <2>6
<1>10. Cardinality(Busy') = Cardinality(Busy) - 1
  <2>1. observing[o] \in BucketSet /\ observing'[o] \notin BucketSet
    BY <1>2, <1>3 DEF BucketSet
  <2>2. Cardinality(InGroup(Observers, observing', BucketSet))
          = Cardinality(InGroup(Observers, observing, BucketSet)) - 1
    BY <1>3, <2>1, GroupLeave
  <2> QED
    BY <2>2 DEF Busy
<1>11. /\ total' <= SumTo(ended', Buckets) /\ SumTo(begun', Buckets) <= MaxObserved
       /\ SumTo(begun', Buckets) = SumTo(ended', Buckets) + Cardinality(Busy')
  <2>1. /\ total <= SumTo(ended, Buckets) /\ SumTo(begun, Buckets) <= MaxObserved
        /\ SumTo(begun, Buckets) = SumTo(ended, Buckets) + Cardinality(Busy)
    BY DEF Counted
  <2>2. Cardinality(Busy) \in Nat /\ total \in Nat
    BY HistogramSums DEF HistogramTypes
  <2>3. total' = total + 1 /\ SumTo(begun', Buckets) = SumTo(begun, Buckets)
    BY <1>1
  <2> DEFINE B == SumTo(begun', Buckets)
             C == Cardinality(Busy')
             t == total'
             E == SumTo(ended', Buckets)
  <2>4. /\ E = SumTo(ended, Buckets) + 1 /\ C = Cardinality(Busy) - 1
        /\ t = total + 1 /\ B = SumTo(begun, Buckets)
    BY <1>7, <1>10, <2>3
  <2> HIDE DEF B, C, t, E
  <2>5. t <= E /\ B <= MaxObserved /\ B = E + C
    BY <1>8, <2>1, <2>2, <2>4
  <2> QED
    BY <2>5 DEF B, C, t, E
<1>12. \A a \in BucketSet : counts'[a] <= begun'[a] /\ settled'[a] <= ended'[a]
  <2> SUFFICES ASSUME NEW a \in BucketSet PROVE counts'[a] <= begun'[a] /\ settled'[a] <= ended'[a]
    OBVIOUS
  <2>1. counts[a] <= begun[a] /\ settled[a] <= ended[a] /\ ended[a] \in Nat /\ settled[a] \in Nat
    BY DEF Counted, HistogramTypes
  <2>2. counts'[a] = counts[a] /\ begun'[a] = begun[a] /\ settled'[a] = settled[a]
    BY <1>1
  <2>3. settled'[a] <= ended'[a]
    BY <1>6, <2>1, <2>2
  <2> QED
    BY <2>1, <2>2, <2>3
<1>13. Counted'
  BY <1>9, <1>11, <1>12 DEF Counted, BucketSet
<1>14. NothingReset'
  <2> SUFFICES ASSUME resets = 0 PROVE resetting' = 0 /\ counts' = begun' /\ total' = SumTo(ended', Buckets)
    BY <1>1 DEF NothingReset
  <2>1. resetting = 0 /\ counts = begun /\ total = SumTo(ended, Buckets)
    BY DEF NothingReset
  <2> QED
    BY <1>1, <1>7, <2>1
<1>15. begun' \in [BucketSet -> Nat] /\ \A a \in BucketSet : begun[a] <= begun'[a]
  BY <1>1 DEF HistogramTypes
<1>16. ReadIsTrue'
  BY <1>1, <1>15, ReaderStays
<1> QED
  BY <1>4, <1>5, <1>13, <1>14, <1>16

\* A reader begins, and what had ended is what it may not miss.
LEMMA ReadKeeps ==
  ASSUME HistogramIInv, NEW kind \in {"scrape", "percentile"}, Read(kind)
  PROVE  HistogramIInv'
<1> USE DEF HistogramIInv
<1>1. /\ reader' = [NoReader EXCEPT !.kind = kind, !.total = total]
      /\ settled' = ended
      /\ UNCHANGED <<counts, total, observing, resetting, begun, ended, resets>>
  BY DEF Read
<1>2. /\ reader'.kind = kind /\ reader'.at = 0 /\ reader'.run = 0 /\ reader'.total = total
      /\ reader'.read = <<>>
  BY <1>1 DEF NoReader
<1>3. HistogramTypes'
  BY <1>1 DEF HistogramTypes
<1>4. ReaderTypes'
  <2>1. reader' = [kind |-> kind, at |-> 0, run |-> 0, total |-> total, read |-> <<>>]
    BY <1>1 DEF NoReader
  <2>2. total \in Nat /\ kind \in Kinds /\ 0 \in 0..Buckets /\ <<>> \in Seq(Nat)
    BY DEF HistogramTypes, Kinds
  <2>3. reader' \in [kind : Kinds, at : 0..Buckets, run : Nat, total : Nat, read : Seq(Nat)]
    BY <2>1, <2>2
  <2> QED
    BY <1>2, <2>3 DEF ReaderTypes
<1>5. Counted'
  <2>1. \A b \in BucketSet : counts'[b] <= begun'[b] /\ settled'[b] <= ended'[b]
    BY <1>1 DEF Counted, HistogramTypes
  <2>2. Busy' = Busy
    BY <1>1 DEF Busy
  <2> QED
    BY <1>1, <2>1, <2>2 DEF Counted, BucketSet
<1>6. NothingReset'
  BY <1>1 DEF NothingReset
<1>7. ReadIsTrue'
  <2> SUFFICES ASSUME resets = 0 PROVE ReadIsTrue'
    BY <1>1 DEF ReadIsTrue
  <2>1. total = SumTo(ended, Buckets)
    BY DEF NothingReset
  <2>2. SumTo(settled', 0) = 0 /\ SumTo(begun', 0) = 0
    BY SumNone
  <2>3. reader'.run \in SumTo(settled', reader'.at)..SumTo(begun', reader'.at)
    BY <1>2, <2>2
  <2>4. reader'.total = SumTo(settled', Buckets)
    BY <1>1, <1>2, <2>1
  <2>5. reader'.kind # "found" /\ reader'.kind # "done"
    BY <1>2
  <2>6. \A i \in 1..reader'.at : FALSE
    BY <1>2
  <2> QED
    BY <2>3, <2>4, <2>5, <2>6 DEF ReadIsTrue
<1> QED
  BY <1>3, <1>4, <1>5, <1>6, <1>7

\* Nothing but the reader moves.
LEMMA OnlyReader ==
  ASSUME HistogramIInv, ReaderTypes', ReadIsTrue',
         UNCHANGED <<counts, total, observing, resetting, begun, ended, settled, resets>>
  PROVE  HistogramIInv'
<1>1. Busy' = Busy
  BY DEF Busy
<1>2. HistogramTypes' /\ Counted' /\ NothingReset'
  BY <1>1 DEF HistogramIInv, HistogramTypes, Counted, NothingReset
<1> QED
  BY <1>2 DEF HistogramIInv

LEMMA ReadBucketKeeps ==
  ASSUME HistogramIInv, ReadBucket
  PROVE  HistogramIInv'
<1> USE DEF HistogramIInv
<1> DEFINE n == reader.at + 1
           run == reader.run + counts[n]
           ends == reader.kind = "percentile" /\ (run >= reader.total \/ n = Buckets)
<1>1. /\ reader.kind \in {"scrape", "percentile"} /\ reader.at < Buckets
      /\ reader' = [reader EXCEPT !.at = @ + 1, !.run = run, !.read = Append(@, run),
                                  !.kind = IF ends THEN "found" ELSE @]
      /\ UNCHANGED <<counts, total, observing, resetting, begun, ended, settled, resets>>
  BY DEF ReadBucket
<1>2. /\ reader \in [kind : Kinds, at : 0..Buckets, run : Nat, total : Nat, read : Seq(Nat)]
      /\ Len(reader.read) = reader.at
  BY DEF ReaderTypes
<1>3. reader.at \in 0..Buckets /\ reader.run \in Nat /\ reader.total \in Nat /\ reader.read \in Seq(Nat)
  BY <1>2
<1>4. n \in BucketSet /\ n \in 1..Buckets /\ n \in 0..Buckets /\ reader.at \in Nat
  BY <1>1, <1>3 DEF BucketSet
<1>5. counts[n] \in Nat /\ run \in Nat
  BY <1>3, <1>4 DEF HistogramTypes
<1>6. n = reader.at + 1
  OBVIOUS
<1>7. reader'.at = n /\ reader'.run = run /\ reader'.total = reader.total
  BY <1>1, <1>2
<1>8. reader'.read = Append(reader.read, run)
  BY <1>1, <1>2
<1>9. reader'.kind = IF ends THEN "found" ELSE reader.kind
  BY <1>1, <1>2
<1>10. ReaderTypes'
  <2>1. IF ends THEN "found" \in Kinds ELSE reader.kind \in Kinds
    BY <1>1 DEF Kinds
  <2>2. (IF ends THEN "found" ELSE reader.kind) \in Kinds
    BY <2>1
  <2>3. Append(reader.read, run) \in Seq(Nat) /\ Len(Append(reader.read, run)) = n
    BY <1>2, <1>3, <1>5
  <2> HIDE DEF n, run, ends
  <2>4. reader' = [kind |-> IF ends THEN "found" ELSE reader.kind, at |-> n, run |-> run,
                   total |-> reader.total, read |-> Append(reader.read, run)]
    BY <1>1, <1>2, <1>6
  <2>5. reader' \in [kind : Kinds, at : 0..Buckets, run : Nat, total : Nat, read : Seq(Nat)]
    BY <1>3, <1>4, <1>5, <2>2, <2>3, <2>4
  <2> QED
    BY <1>7, <1>8, <2>3, <2>5 DEF ReaderTypes
<1>11. ReadIsTrue'
  <2> SUFFICES ASSUME resets = 0 PROVE ReadIsTrue'
    BY <1>1 DEF ReadIsTrue
  <2>1. /\ \A i \in 1..reader.at : reader.read[i] \in SumTo(settled, i)..SumTo(begun, i)
        /\ reader.run \in SumTo(settled, reader.at)..SumTo(begun, reader.at)
    BY DEF ReadIsTrue
  <2>2. reader.kind = "percentile" => reader.total = SumTo(settled, Buckets)
    BY DEF ReadIsTrue
  <2>3. counts[n] = begun[n] /\ settled[n] <= begun[n] /\ begun[n] \in Nat /\ settled[n] \in Nat
    <3>1. counts = begun
      BY DEF NothingReset
    <3>2. settled[n] <= ended[n] /\ begun[n] \in Nat /\ settled[n] \in Nat /\ ended[n] \in Nat
      BY <1>4 DEF Counted, HistogramTypes
    <3>3. ended[n] <= begun[n]
      BY <1>4, HistogramSums
    <3> QED
      BY <3>1, <3>2, <3>3
  <2>4. /\ SumTo(settled, n) = SumTo(settled, reader.at) + settled[n]
        /\ SumTo(begun, n) = SumTo(begun, reader.at) + begun[n]
    <3> DEFINE k == reader.at
    <3>1. k \in Nat /\ k + 1 = n /\ 1..(k + 1) \subseteq BucketSet
      BY <1>4 DEF BucketSet
    <3>2. \A b \in BucketSet : settled[b] \in Nat /\ begun[b] \in Nat
      BY DEF HistogramTypes
    <3> HIDE DEF k, n
    <3>3. \A b \in 1..(k + 1) : settled[b] \in Nat /\ begun[b] \in Nat
      BY <3>1, <3>2
    <3>4. SumTo(settled, k + 1) = SumTo(settled, k) + settled[k + 1]
      BY ONLY <3>1, <3>3, SumNext
    <3>5. SumTo(begun, k + 1) = SumTo(begun, k) + begun[k + 1]
      BY ONLY <3>1, <3>3, SumNext
    <3> QED
      BY <3>1, <3>4, <3>5 DEF k
  <2>5. /\ SumTo(settled, reader.at) \in Nat /\ SumTo(begun, reader.at) \in Nat
        /\ SumTo(settled, Buckets) \in Nat
    <3>1. Buckets \in 0..Buckets
      OBVIOUS
    <3>2. \A k \in 0..Buckets : SumTo(settled, k) \in Nat /\ SumTo(begun, k) \in Nat
      BY HistogramSums
    <3> QED
      BY ONLY <1>3, <3>1, <3>2
  <2> HIDE DEF ends
  <2>6. run \in SumTo(settled, n)..SumTo(begun, n)
    BY <1>3, <1>5, <2>1, <2>3, <2>4, <2>5
  <2>7. ASSUME NEW i \in 1..n
        PROVE  Append(reader.read, run)[i] \in SumTo(settled, i)..SumTo(begun, i)
    <3>1. CASE i = n
      BY <1>2, <1>3, <1>5, <2>6, <3>1
    <3>2. CASE i # n
      <4>1. i \in 1..reader.at
        BY <1>4, <3>2
      <4>2. Append(reader.read, run)[i] = reader.read[i]
        BY <1>2, <1>3, <1>5, <4>1
      <4> QED
        BY <2>1, <4>1, <4>2
    <3> QED
      BY <3>1, <3>2
  <2>8. ends => run >= reader.total
    <3> SUFFICES ASSUME ends, n = Buckets PROVE run >= reader.total
      BY DEF ends
    <3>1. reader.total = SumTo(settled, n)
      BY <2>2 DEF ends
    <3> QED
      BY <1>5, <2>5, <2>6, <3>1
  <2> HIDE DEF n, run
  <2>9. \A i \in 1..reader'.at : reader'.read[i] \in SumTo(settled', i)..SumTo(begun', i)
    BY <1>1, <1>7, <1>8, <2>7
  <2>10. reader'.run \in SumTo(settled', reader'.at)..SumTo(begun', reader'.at)
    BY <1>1, <1>7, <2>6
  <2>11. ends => reader.kind = "percentile"
    BY DEF ends
  <2>12. reader'.kind \in {"percentile", "found"} => reader'.total = SumTo(settled', Buckets)
    BY <1>1, <1>7, <1>9, <2>2, <2>11
  <2>13. reader'.kind = "found" => reader'.run >= reader'.total
    <3>1. reader'.kind = "found" => ends
      BY <1>1, <1>9
    <3> QED
      BY <1>7, <2>8, <3>1
  <2>14. reader'.kind # "done"
    BY <1>1, <1>9
  <2> QED
    BY <2>9, <2>10, <2>12, <2>13, <2>14 DEF ReadIsTrue
<1> QED
  BY <1>1, <1>10, <1>11, OnlyReader

LEMMA ReadTotalKeeps ==
  ASSUME HistogramIInv, ReadTotal
  PROVE  HistogramIInv'
<1> USE DEF HistogramIInv
<1>1. /\ reader.at = Buckets
      /\ reader' = [reader EXCEPT !.kind = "done", !.total = total]
      /\ UNCHANGED <<counts, total, observing, resetting, begun, ended, settled, resets>>
  BY DEF ReadTotal
<1>2. /\ reader \in [kind : Kinds, at : 0..Buckets, run : Nat, total : Nat, read : Seq(Nat)]
      /\ Len(reader.read) = reader.at
  BY DEF ReaderTypes
<1>3. /\ reader'.kind = "done" /\ reader'.total = total /\ reader'.at = reader.at
      /\ reader'.run = reader.run /\ reader'.read = reader.read
  BY <1>1, <1>2
<1>4. ReaderTypes'
  <2>1. total \in Nat /\ "done" \in Kinds
    BY DEF HistogramTypes, Kinds
  <2>2. reader' \in [kind : Kinds, at : 0..Buckets, run : Nat, total : Nat, read : Seq(Nat)]
    BY <1>1, <1>2, <2>1
  <2> QED
    BY <1>2, <1>3, <2>2 DEF ReaderTypes
<1>5. ReadIsTrue'
  <2> SUFFICES ASSUME resets = 0 PROVE ReadIsTrue'
    BY <1>1 DEF ReadIsTrue
  <2>1. /\ \A i \in 1..reader.at : reader.read[i] \in SumTo(settled, i)..SumTo(begun, i)
        /\ reader.run \in SumTo(settled, reader.at)..SumTo(begun, reader.at)
    BY DEF ReadIsTrue
  <2>2. total = SumTo(ended, Buckets)
    BY DEF NothingReset
  <2>3. Buckets \in 0..Buckets /\ Buckets \in 1..reader.at
    BY <1>1
  <2>4. /\ SumTo(begun, Buckets) \in Nat /\ SumTo(ended, Buckets) \in Nat
        /\ SumTo(settled, Buckets) \in Nat
        /\ SumTo(settled, Buckets) <= SumTo(ended, Buckets)
        /\ SumTo(ended, Buckets) <= SumTo(begun, Buckets)
    BY <2>3, HistogramSums
  <2>5. /\ Cardinality(Busy) \in Nat /\ Cardinality(Observers) \in Nat
        /\ Cardinality(Busy) <= Cardinality(Observers)
    BY HistogramSums
  <2>6. SumTo(begun, Buckets) = SumTo(ended, Buckets) + Cardinality(Busy)
    BY DEF Counted
  <2>7. reader.read[Buckets] \in SumTo(settled, Buckets)..SumTo(begun, Buckets)
    BY <2>1, <2>3
  <2>8. reader.read[Buckets] - total <= Cardinality(Observers)
    BY <2>2, <2>4, <2>5, <2>6, <2>7
  <2>9. total \in SumTo(settled, Buckets)..SumTo(begun, Buckets)
    BY <2>2, <2>4
  <2>10. reader'.read[Buckets] - reader'.total <= Cardinality(Observers)
    BY <1>3, <2>8
  <2>11. reader'.total \in SumTo(settled', Buckets)..SumTo(begun', Buckets)
    BY <1>1, <1>3, <2>9
  <2>12. /\ \A i \in 1..reader'.at : reader'.read[i] \in SumTo(settled', i)..SumTo(begun', i)
         /\ reader'.run \in SumTo(settled', reader'.at)..SumTo(begun', reader'.at)
    BY <1>1, <1>3, <2>1
  <2>13. reader'.kind \notin {"percentile", "found"}
    BY <1>3
  <2> QED
    BY <1>1, <1>3, <2>10, <2>11, <2>12, <2>13 DEF ReadIsTrue
<1> QED
  BY <1>1, <1>4, <1>5, OnlyReader

LEMMA AnsweredKeeps ==
  ASSUME HistogramIInv, Answered
  PROVE  HistogramIInv'
<1>1. /\ reader' = NoReader
      /\ UNCHANGED <<counts, total, observing, resetting, begun, ended, settled, resets>>
  BY DEF Answered
<1>2. /\ reader'.kind = "none" /\ reader'.at = 0 /\ reader'.run = 0
  BY <1>1 DEF NoReader
<1>3. ReaderTypes'
  <2>1. "none" \in Kinds /\ 0 \in 0..Buckets /\ <<>> \in Seq(Nat) /\ 0 \in Nat
    BY DEF Kinds
  <2>2. NoReader \in [kind : Kinds, at : 0..Buckets, run : Nat, total : Nat, read : Seq(Nat)]
    BY <2>1 DEF NoReader
  <2>3. Len(NoReader.read) = NoReader.at
    BY DEF NoReader
  <2> QED
    BY <1>1, <2>2, <2>3 DEF ReaderTypes
<1>4. ReadIsTrue'
  <2>1. SumTo(settled', 0) = 0 /\ SumTo(begun', 0) = 0
    BY SumNone
  <2>2. reader'.run \in SumTo(settled', reader'.at)..SumTo(begun', reader'.at)
    BY <1>2, <2>1
  <2>3. reader'.kind \notin {"percentile", "found", "done"}
    BY <1>2
  <2>4. \A i \in 1..reader'.at : FALSE
    BY <1>2
  <2> QED
    BY <2>2, <2>3, <2>4 DEF ReadIsTrue
<1> QED
  BY <1>1, <1>3, <1>4, OnlyReader

\* A reset begins, and from now on nothing is said of what is read.
LEMMA ResetHistogramKeeps ==
  ASSUME HistogramIInv, NEW all \in BOOLEAN, ResetHistogram(all)
  PROVE  HistogramIInv'
<1>1. /\ resetting' = 1 /\ resets' = resets + 1
      /\ UNCHANGED <<counts, total, observing, reader, begun, ended, settled>>
  BY DEF ResetHistogram
<1>2. HistogramTypes'
  BY <1>1 DEF HistogramIInv, HistogramTypes
<1>3. ReaderTypes'
  BY <1>1 DEF HistogramIInv, ReaderTypes
<1>4. Counted'
  <2>1. Busy' = Busy
    BY <1>1 DEF Busy
  <2> QED
    BY <1>1, <2>1 DEF HistogramIInv, Counted
<1>5. resets' # 0
  BY <1>1 DEF HistogramIInv, HistogramTypes
<1> QED
  BY <1>2, <1>3, <1>4, <1>5 DEF HistogramIInv, NothingReset, ReadIsTrue

LEMMA ResetNextKeeps ==
  ASSUME HistogramIInv, ResetNext
  PROVE  HistogramIInv'
<1>1. resetting # 0 /\ UNCHANGED <<observing, reader, begun, ended, settled, resets>>
  BY DEF ResetNext
<1>2. resets # 0 /\ resets' # 0
  BY <1>1 DEF HistogramIInv, NothingReset
<1>3. ReaderTypes'
  BY <1>1 DEF HistogramIInv, ReaderTypes
<1>4. Busy' = Busy
  BY <1>1 DEF Busy
<1>5. CASE resetting <= Buckets
  <2>1. /\ counts' = [counts EXCEPT ![resetting] = 0]
        /\ resetting' = resetting + 1 /\ total' = total
    BY <1>5 DEF ResetNext
  <2>2. HistogramTypes'
    <3>1. counts' \in [BucketSet -> Nat]
      BY <2>1 DEF HistogramIInv, HistogramTypes
    <3>2. resetting' \in 0..(Buckets + 1)
      BY <1>5, <2>1 DEF HistogramIInv, HistogramTypes
    <3> QED
      BY <1>1, <2>1, <3>1, <3>2 DEF HistogramIInv, HistogramTypes
  <2>3. \A b \in BucketSet : counts'[b] <= begun'[b] /\ settled'[b] <= ended'[b]
    <3> SUFFICES ASSUME NEW b \in BucketSet PROVE counts'[b] <= begun'[b] /\ settled'[b] <= ended'[b]
      OBVIOUS
    <3>1. /\ counts[b] <= begun[b] /\ settled[b] <= ended[b]
          /\ counts[b] \in Nat /\ begun[b] \in Nat
      BY DEF HistogramIInv, HistogramTypes, Counted
    <3>2. counts'[b] = 0 \/ counts'[b] = counts[b]
      BY <2>1 DEF HistogramIInv, HistogramTypes
    <3>3. counts'[b] <= begun[b]
      BY <3>1, <3>2
    <3> QED
      BY <1>1, <3>1, <3>3
  <2>4. Counted'
    BY <1>1, <1>4, <2>1, <2>3 DEF HistogramIInv, Counted, BucketSet
  <2> QED
    BY <1>2, <1>3, <2>2, <2>4 DEF HistogramIInv, NothingReset, ReadIsTrue
<1>6. CASE ~(resetting <= Buckets)
  <2>1. total' = 0 /\ resetting' = 0 /\ counts' = counts
    BY <1>6 DEF ResetNext
  <2>2. HistogramTypes'
    BY <1>1, <2>1 DEF HistogramIInv, HistogramTypes
  <2>3. total' <= SumTo(ended', Buckets)
    <3>1. SumTo(ended, Buckets) \in Nat
      <4>1. Buckets \in 0..Buckets
        OBVIOUS
      <4> QED
        BY <4>1, HistogramSums
    <3> QED
      BY <1>1, <2>1, <3>1
  <2>4. Counted'
    BY <1>1, <1>4, <2>1, <2>3 DEF HistogramIInv, Counted, BucketSet
  <2> QED
    BY <1>2, <1>3, <2>2, <2>4 DEF HistogramIInv, NothingReset, ReadIsTrue
<1> QED
  BY <1>5, <1>6

LEMMA HistogramStays ==
  HistogramIInv /\ (HistogramNext \/ UNCHANGED histogramVars) => HistogramIInv'
<1> SUFFICES ASSUME HistogramIInv, HistogramNext \/ UNCHANGED histogramVars PROVE HistogramIInv'
  OBVIOUS
<1>1. CASE HistogramNext
  <2>1. CASE \E o \in Observers : \E b \in BucketSet : Observe(o, b)
    BY <2>1, ObserveKeeps
  <2>2. CASE \E o \in Observers : ObserveTotal(o)
    BY <2>2, ObserveTotalKeeps
  <2>3. CASE \E kind \in {"scrape", "percentile"} : Read(kind)
    BY <2>3, ReadKeeps
  <2>4. CASE ReadBucket
    BY <2>4, ReadBucketKeeps
  <2>5. CASE ReadTotal
    BY <2>5, ReadTotalKeeps
  <2>6. CASE Answered
    BY <2>6, AnsweredKeeps
  <2>7. CASE \E all \in BOOLEAN : ResetHistogram(all)
    BY <2>7, ResetHistogramKeeps
  <2>8. CASE ResetNext
    BY <2>8, ResetNextKeeps
  <2> QED
    BY <1>1, <2>1, <2>2, <2>3, <2>4, <2>5, <2>6, <2>7, <2>8 DEF HistogramNext
<1>2. CASE UNCHANGED histogramVars
  <2>1. UNCHANGED <<counts, total, observing, resetting, begun, ended, settled, resets>> /\ reader' = reader
    BY <1>2 DEF histogramVars
  <2>2. ReaderTypes'
    BY <2>1 DEF HistogramIInv, ReaderTypes
  <2>3. ReadIsTrue'
    BY <2>1 DEF HistogramIInv, ReadIsTrue
  <2> QED
    BY <2>1, <2>2, <2>3, OnlyReader
<1> QED
  BY <1>1, <1>2

LEMMA HistogramBegins == HistogramInit => HistogramIInv
<1> SUFFICES ASSUME HistogramInit PROVE HistogramIInv
  OBVIOUS
<1> USE DEF HistogramInit
<1>1. HistogramTypes
  BY DEF HistogramTypes
<1>2. ReaderTypes
  <2>1. "none" \in Kinds /\ 0 \in 0..Buckets /\ <<>> \in Seq(Nat) /\ 0 \in Nat
    BY DEF Kinds
  <2>2. NoReader \in [kind : Kinds, at : 0..Buckets, run : Nat, total : Nat, read : Seq(Nat)]
    BY <2>1 DEF NoReader
  <2>3. Len(NoReader.read) = NoReader.at
    BY DEF NoReader
  <2> QED
    BY <2>2, <2>3 DEF ReaderTypes
<1>3. \A b \in BucketSet : begun[b] = 0 /\ ended[b] = 0 /\ settled[b] = 0 /\ counts[b] = 0
  OBVIOUS
<1>4. /\ SumTo(begun, Buckets) = 0 /\ SumTo(ended, Buckets) = 0
      /\ SumTo(begun, 0) = 0 /\ SumTo(settled, 0) = 0
  BY <1>3, SumNone DEF BucketSet
<1>5. \A b \in BucketSet : Count(Observers, observing, b) = 0
  <2> SUFFICES ASSUME NEW b \in BucketSet PROVE Count(Observers, observing, b) = 0
    OBVIOUS
  <2>1. \A o \in Observers : observing[o] # b
    BY DEF BucketSet
  <2> QED
    BY <2>1, CountZero
<1>6. Cardinality(Busy) = 0
  <2>1. Busy = {}
    BY DEF Busy, InGroup, BucketSet
  <2> QED
    BY <2>1, FS_EmptySet
<1>7. Counted
  BY <1>3, <1>4, <1>5, <1>6 DEF Counted
<1>8. NothingReset
  BY <1>4 DEF NothingReset
<1>9. ReadIsTrue
  <2>1. reader.at = 0 /\ reader.run = 0 /\ reader.kind = "none"
    BY DEF NoReader
  <2>2. \A i \in 1..reader.at : FALSE
    BY <2>1
  <2>3. reader.run \in SumTo(settled, reader.at)..SumTo(begun, reader.at)
    BY <1>4, <2>1
  <2> QED
    BY <2>1, <2>2, <2>3 DEF ReadIsTrue
<1> QED
  BY <1>1, <1>2, <1>7, <1>8, <1>9 DEF HistogramIInv

\* What it means: the histogram's parts of the properties.
LEMMA HistogramMeans ==
  ASSUME HistogramIInv
  PROVE  /\ counts \in [BucketSet -> 0..MaxObserved] /\ total \in 0..MaxObserved
         /\ observing \in [Observers -> 0..Buckets] /\ reader.kind \in Kinds
         /\ resetting \in 0..(Buckets + 1)
         /\ ScrapeInv /\ PercentileInv /\ AtRestInv
<1> USE DEF HistogramIInv
<1>1. Buckets \in 0..Buckets
  OBVIOUS
<1>2. /\ SumTo(begun, Buckets) \in Nat /\ SumTo(ended, Buckets) \in Nat
      /\ SumTo(ended, Buckets) <= SumTo(begun, Buckets)
  BY <1>1, HistogramSums
<1>3. total \in 0..MaxObserved
  BY <1>2 DEF Counted, HistogramTypes
<1>4. counts \in [BucketSet -> 0..MaxObserved]
  <2>1. ASSUME NEW b \in BucketSet PROVE counts[b] \in 0..MaxObserved
    <3>1. begun[b] <= SumTo(begun, Buckets)
      <4>1. \A a \in 1..Buckets : begun[a] \in Nat
        BY DEF HistogramTypes, BucketSet
      <4>2. b \in 1..Buckets
        BY DEF BucketSet
      <4> QED
        BY <4>1, <4>2, SumHas
    <3>2. counts[b] \in Nat /\ begun[b] \in Nat /\ counts[b] <= begun[b]
      BY DEF HistogramTypes, Counted
    <3>3. SumTo(begun, Buckets) <= MaxObserved
      BY DEF Counted
    <3> QED
      BY <1>2, <3>1, <3>2, <3>3
  <2> QED
    BY <2>1 DEF HistogramTypes
<1>5. ScrapeInv
  BY DEF ScrapeInv, ReadIsTrue, BucketSet
<1>6. PercentileInv
  BY DEF PercentileInv, ReadIsTrue
<1>7. AtRestInv
  <2> SUFFICES ASSUME \A o \in Observers : observing[o] = 0, resets = 0
               PROVE  counts = ended /\ total = SumTo(counts, Buckets)
    BY DEF AtRestInv
  <2>1. counts = begun /\ total = SumTo(ended, Buckets)
    BY DEF NothingReset
  <2>2. ASSUME NEW b \in BucketSet PROVE begun[b] = ended[b]
    <3>1. \A o \in Observers : observing[o] # b
      BY DEF BucketSet
    <3>2. Count(Observers, observing, b) = 0
      BY <3>1, CountZero
    <3>3. begun[b] = ended[b] + Count(Observers, observing, b) /\ ended[b] \in Nat
      BY DEF Counted, HistogramTypes
    <3> QED
      BY <3>2, <3>3
  <2>3. begun = ended
    BY <2>2 DEF HistogramTypes
  <2> QED
    BY <2>1, <2>3
<1>8. observing \in [Observers -> 0..Buckets] /\ resetting \in 0..(Buckets + 1)
  BY DEF HistogramTypes
<1>9. reader.kind \in Kinds
  BY DEF ReaderTypes
<1> QED
  BY <1>3, <1>4, <1>5, <1>6, <1>7, <1>8, <1>9

\* The registry: a new series is of its family's type.
RegistryIInv == DOMAIN entries \subseteq Series /\ FamilyInv

LEMMA RegistryStays ==
  RegistryIInv /\ (RegistryNext \/ UNCHANGED registryVars) => RegistryIInv'
<1> SUFFICES ASSUME RegistryIInv, RegistryNext \/ UNCHANGED registryVars PROVE RegistryIInv'
  OBVIOUS
<1>1. CASE UNCHANGED registryVars
  BY <1>1 DEF registryVars, RegistryIInv, FamilyInv
<1>2. CASE RegistryNext
  <2>1. PICK n \in Series, type \in Types, help \in {"", "x", "y"} : Register(n, type, help)
    BY <1>2 DEF RegistryNext
  <2>2. CASE n \in DOMAIN entries
    <3>1. entries' = entries
      BY <2>1, <2>2 DEF Register
    <3> QED
      BY <3>1 DEF RegistryIInv, FamilyInv
  <2>3. CASE n \notin DOMAIN entries
    <3>1. /\ FamilyAgrees(n, type)
          /\ entries' = [s \in DOMAIN entries \cup {n} |-> IF s = n THEN type ELSE entries[s]]
      BY <2>1, <2>3 DEF Register
    <3>2. DOMAIN entries' = DOMAIN entries \cup {n}
      BY <3>1
    <3>3. /\ entries'[n] = type
          /\ \A s \in DOMAIN entries : entries'[s] = entries[s]
      BY <2>3, <3>1
    <3>4. ASSUME NEW r \in DOMAIN entries', NEW s \in DOMAIN entries', Family(r) = Family(s)
          PROVE  entries'[r] = entries'[s]
      <4>1. CASE r = n /\ s = n
        BY <4>1
      <4>2. CASE r = n /\ s # n
        BY <3>1, <3>2, <3>3, <3>4, <4>2 DEF FamilyAgrees
      <4>3. CASE r # n /\ s = n
        BY <3>1, <3>2, <3>3, <3>4, <4>3 DEF FamilyAgrees
      <4>4. CASE r # n /\ s # n
        BY <3>2, <3>3, <3>4, <4>4 DEF RegistryIInv, FamilyInv
      <4> QED
        BY <4>1, <4>2, <4>3, <4>4
    <3>5. DOMAIN entries' \subseteq Series
      BY <3>2 DEF RegistryIInv
    <3>6. FamilyInv'
      BY <3>4 DEF FamilyInv
    <3> QED
      BY <3>5, <3>6 DEF RegistryIInv
  <2> QED
    BY <2>2, <2>3
<1> QED
  BY <1>1, <1>2

\* The tracer.  Each scope remembers the span of the one around it; a child is in
\* its parent's trace; and what is in the ring has ended and is there once.
SpanRecord == [parent : Nat, by : SpanThreads, ended : BOOLEAN, trace : Nat]
NoneOr == {0} \cup Spans
ScopeRecord == [span : NoneOr, prev : NoneOr]

TracerTypes ==
  /\ span \in Seq(SpanRecord) /\ finished_spans \in Seq(Spans)
  /\ scopes \in [SpanThreads -> Seq(ScopeRecord)]
  /\ current \in [SpanThreads -> NoneOr]
  /\ dropped \in Nat /\ ended_since \in Nat

Chain(line, shown) ==
  /\ \A i \in 1..Len(line) : line[i].prev = IF i = 1 THEN 0 ELSE line[i - 1].span
  /\ shown = IF Len(line) = 0 THEN 0 ELSE line[Len(line)].span

Traces == \A s \in Spans : span[s].parent # 0 =>
  span[s].parent \in Spans /\ span[s].trace = span[span[s].parent].trace

Ring ==
  /\ Len(finished_spans) + dropped = ended_since /\ Len(finished_spans) <= MaxFinished
  /\ \A i \in 1..Len(finished_spans) : span[finished_spans[i]].ended
  /\ \A i, j \in 1..Len(finished_spans) : finished_spans[i] = finished_spans[j] => i = j

TracerIInv ==
  /\ TracerTypes /\ Traces /\ Ring
  /\ \A t \in SpanThreads : Chain(scopes[t], current[t])

LEMMA SpansAre == ASSUME TracerTypes PROVE Spans = 1..Len(span) /\ Len(span) \in Nat
BY DEF TracerTypes, Spans

\* A new span is of its parent's trace.
LEMMA StartSpanKeeps ==
  ASSUME TracerIInv, NEW t \in SpanThreads, NEW parent \in NoneOr, StartSpan(t, parent)
  PROVE  TracerIInv'
<1> USE DEF TracerIInv
<1> DEFINE n == Len(span) + 1
           new == [parent |-> parent, by |-> t, ended |-> FALSE,
                   trace |-> IF parent = 0 THEN Len(span) + 1 ELSE span[parent].trace]
<1>1. /\ span' = Append(span, new)
      /\ UNCHANGED <<scopes, current, finished_spans, dropped, ended_since>>
  BY DEF StartSpan
<1>2. Spans = 1..Len(span) /\ Len(span) \in Nat
  BY SpansAre
<1>3. span \in Seq(SpanRecord)
  BY DEF TracerTypes
<1>4. new \in SpanRecord
  <2>1. parent \in Nat
    BY <1>2 DEF NoneOr
  <2>2. parent # 0 => span[parent] \in SpanRecord
    BY <1>2, <1>3 DEF NoneOr
  <2>3. (IF parent = 0 THEN Len(span) + 1 ELSE span[parent].trace) \in Nat
    BY <1>2, <2>2 DEF SpanRecord
  <2> QED
    BY <2>1, <2>3 DEF SpanRecord
<1>5. /\ new.parent = parent
      /\ new.trace = IF parent = 0 THEN Len(span) + 1 ELSE span[parent].trace
  OBVIOUS
<1> HIDE DEF new
<1>6. /\ span' \in Seq(SpanRecord) /\ Len(span') = n
      /\ span'[n] = new /\ \A s \in 1..Len(span) : span'[s] = span[s]
  BY <1>1, <1>3, <1>4
<1>7. Spans' = 1..n /\ Spans \subseteq Spans' /\ NoneOr \subseteq NoneOr'
  <2>1. Spans' = DOMAIN span'
    BY DEF Spans
  <2>2. DOMAIN span' = 1..n
    BY <1>6
  <2> QED
    BY <1>2, <2>1, <2>2 DEF NoneOr
<1>8. TracerTypes'
  <2>1. finished_spans \in Seq(Spans')
    <3>1. finished_spans \in Seq(Spans)
      BY DEF TracerTypes
    <3>2. Spans \subseteq Spans'
      BY <1>7
    <3> QED
      BY ONLY <3>1, <3>2
  <2>2. ScopeRecord \subseteq ScopeRecord'
    BY <1>7 DEF ScopeRecord
  <2>3. scopes \in [SpanThreads -> Seq(ScopeRecord')]
    <3>1. scopes \in [SpanThreads -> Seq(ScopeRecord)]
      BY DEF TracerTypes
    <3>2. ASSUME NEW u \in SpanThreads PROVE scopes[u] \in Seq(ScopeRecord')
      <4>1. scopes[u] \in Seq(ScopeRecord)
        BY <3>1
      <4> QED
        BY ONLY <2>2, <4>1
    <3> QED
      BY <3>1, <3>2
  <2>4. current \in [SpanThreads -> NoneOr']
    BY <1>7 DEF TracerTypes
  <2> QED
    BY <1>1, <1>6, <2>1, <2>3, <2>4 DEF TracerTypes
<1>9. Traces'
  <2> SUFFICES ASSUME NEW s \in Spans', span'[s].parent # 0
               PROVE  /\ span'[s].parent \in Spans'
                      /\ span'[s].trace = span'[span'[s].parent].trace
    BY DEF Traces
  <2>1. CASE s = n
    <3>1. span'[s].parent = parent /\ parent # 0
      BY <1>5, <1>6, <2>1
    <3>2. parent \in Spans
      BY <3>1 DEF NoneOr
    <3>3. span'[parent] = span[parent]
      BY <1>2, <1>6, <3>2
    <3>4. span'[s].trace = span[parent].trace
      BY <1>5, <1>6, <2>1, <3>1
    <3> QED
      BY <1>7, <3>1, <3>2, <3>3, <3>4
  <2>2. CASE s # n
    <3>1. s \in Spans
      BY <1>2, <1>7, <2>2
    <3>2. span'[s] = span[s]
      BY <1>2, <1>6, <3>1
    <3>3. span[s].parent \in Spans /\ span[s].trace = span[span[s].parent].trace
      BY <3>1, <3>2 DEF Traces
    <3>4. span'[span[s].parent] = span[span[s].parent]
      BY <1>2, <1>6, <3>3
    <3> QED
      BY <1>7, <3>2, <3>3, <3>4
  <2> QED
    BY <2>1, <2>2
<1>10. Ring'
  <2>1. ASSUME NEW i \in 1..Len(finished_spans) PROVE span'[finished_spans[i]].ended
    <3>1. finished_spans[i] \in Spans
      BY DEF TracerTypes
    <3>2. span[finished_spans[i]].ended
      BY DEF Ring
    <3>3. span'[finished_spans[i]] = span[finished_spans[i]]
      BY <1>2, <1>6, <3>1
    <3> QED
      BY <3>2, <3>3
  <2> QED
    BY <1>1, <2>1 DEF Ring
<1> QED
  BY <1>1, <1>8, <1>9, <1>10

\* A span ends, or has ended: it enters the ring once, which gives up the oldest.
LEMMA EndsKeeps ==
  ASSUME TracerIInv, NEW s \in NoneOr, Ends(s)
  PROVE  /\ Spans' = Spans /\ span' \in Seq(SpanRecord) /\ finished_spans' \in Seq(Spans)
         /\ dropped' \in Nat /\ ended_since' \in Nat
         /\ Traces' /\ Ring'
<1> USE DEF TracerIInv
<1>1. Spans = 1..Len(span) /\ Len(span) \in Nat
  BY SpansAre
<1>2. CASE UNCHANGED <<span, finished_spans, dropped, ended_since>>
  <2>1. Spans' = Spans
    BY <1>2 DEF Spans
  <2>2. Traces' /\ Ring'
    BY <1>2, <2>1 DEF Traces, Ring
  <2> QED
    BY <1>2, <2>1, <2>2 DEF TracerTypes
<1>3. CASE s # 0 /\ ~span[s].ended
  <2> DEFINE all == Append(finished_spans, s)
             drops == IF Len(all) > MaxFinished THEN 1 ELSE 0
             L == Len(finished_spans)
  <2>1. /\ span' = [span EXCEPT ![s].ended = TRUE]
        /\ finished_spans' = SubSeq(all, 1 + drops, Len(all))
        /\ dropped' = dropped + drops /\ ended_since' = ended_since + 1
    BY <1>3 DEF Ends
  <2>2. s \in Spans
    BY <1>3 DEF NoneOr
  <2>3. finished_spans \in Seq(Spans) /\ L \in Nat /\ span \in Seq(SpanRecord)
    BY DEF TracerTypes
  <2>4. /\ all \in Seq(Spans) /\ Len(all) = L + 1 /\ all[L + 1] = s
        /\ \A i \in 1..L : all[i] = finished_spans[i]
    BY <2>2, <2>3
  <2> HIDE DEF all
  <2>5. drops \in {0, 1} /\ drops \in Nat
    OBVIOUS
  <2>6. L <= MaxFinished /\ L + dropped = ended_since /\ dropped \in Nat /\ ended_since \in Nat
    BY DEF Ring, TracerTypes
  <2>7. (L + 1) - drops <= MaxFinished
    BY <2>3, <2>4, <2>6
  <2>8. /\ finished_spans' \in Seq(Spans) /\ Len(finished_spans') = (L + 1) - drops
        /\ \A i \in 1..Len(finished_spans') : /\ i + drops \in 1..(L + 1)
                                              /\ finished_spans'[i] = all[i + drops]
    <3> DEFINE k == L + 1
               r == SubSeq(all, 1 + drops, k)
    <3>1. k \in Nat /\ Len(all) = k /\ k >= 1
      BY <2>3, <2>4
    <3> HIDE DEF k, drops, L
    <3>2. /\ r \in Seq(Spans) /\ Len(r) = k - drops
          /\ \A i \in 1..(k - drops) : i + drops \in 1..k /\ r[i] = all[i + drops]
      BY <2>4, <2>5, <3>1
    <3>3. finished_spans' = r
      BY <2>1, <3>1
    <3> HIDE DEF r
    <3>4. /\ Len(finished_spans') = k - drops /\ finished_spans' \in Seq(Spans)
          /\ \A i \in 1..(k - drops) : i + drops \in 1..k /\ finished_spans'[i] = all[i + drops]
      BY ONLY <3>2, <3>3
    <3>5. \A i \in 1..Len(finished_spans') : /\ i + drops \in 1..k
                                             /\ finished_spans'[i] = all[i + drops]
      BY ONLY <3>4
    <3> QED
      BY ONLY <3>4, <3>5 DEF k
  <2> HIDE DEF drops, L
  <2>9. /\ span' \in Seq(SpanRecord) /\ Len(span') = Len(span)
        /\ span'[s] = [span[s] EXCEPT !.ended = TRUE]
        /\ \A u \in Spans : u # s => span'[u] = span[u]
    <3>1. span[s] \in SpanRecord
      BY <1>1, <2>2, <2>3
    <3>2. [span[s] EXCEPT !.ended = TRUE] \in SpanRecord
      BY <3>1 DEF SpanRecord
    <3> DEFINE e == [span[s] EXCEPT !.ended = TRUE]
    <3>3. span' = [span EXCEPT ![s] = e]
      BY <2>1
    <3> HIDE DEF e
    <3>4. e \in SpanRecord
      BY <3>2 DEF e
    <3>5. /\ span' \in Seq(SpanRecord) /\ Len(span') = Len(span)
          /\ span'[s] = e /\ \A u \in Spans : u # s => span'[u] = span[u]
      BY <1>1, <2>2, <2>3, <3>3, <3>4
    <3> QED
      BY <3>5 DEF e
  <2>10. Spans' = Spans
    <3>1. DOMAIN span' = 1..Len(span)
      BY <2>9
    <3> QED
      BY <1>1, <3>1 DEF Spans
  <2>11. \A u \in Spans : /\ span'[u].parent = span[u].parent /\ span'[u].trace = span[u].trace
                          /\ span[u].ended => span'[u].ended
    <3> SUFFICES ASSUME NEW u \in Spans
                 PROVE  /\ span'[u].parent = span[u].parent /\ span'[u].trace = span[u].trace
                        /\ span[u].ended => span'[u].ended
      OBVIOUS
    <3>1. span[s] \in SpanRecord
      BY <1>1, <2>2, <2>3
    <3>2. CASE u = s
      BY <1>3, <2>9, <3>1, <3>2 DEF SpanRecord
    <3>3. CASE u # s
      BY <2>9, <3>3
    <3> QED
      BY <3>2, <3>3
  <2>12. span'[s].ended
    <3>1. span[s] \in SpanRecord
      BY <1>1, <2>2, <2>3
    <3> QED
      BY <2>9, <3>1 DEF SpanRecord
  <2>13. Traces'
    <3> SUFFICES ASSUME NEW u \in Spans, span'[u].parent # 0
                 PROVE  /\ span'[u].parent \in Spans
                        /\ span'[u].trace = span'[span'[u].parent].trace
      BY <2>10 DEF Traces
    <3>1. span[u].parent \in Spans /\ span[u].trace = span[span[u].parent].trace
      BY <2>11 DEF Traces
    <3> QED
      BY <2>11, <3>1
  <2>14. \A i \in 1..L : finished_spans[i] \in Spans /\ span[finished_spans[i]].ended /\ finished_spans[i] # s
    BY <1>3, <2>3 DEF Ring, L
  <2>15. ASSUME NEW i \in 1..Len(finished_spans') PROVE span'[finished_spans'[i]].ended
    <3>1. i + drops \in 1..(L + 1) /\ finished_spans'[i] = all[i + drops]
      BY <2>8
    <3>2. CASE i + drops = L + 1
      BY <2>4, <2>12, <3>1, <3>2
    <3>3. CASE i + drops # L + 1
      <4>1. i + drops \in 1..L
        BY <2>3, <3>1, <3>3
      <4>2. finished_spans'[i] = finished_spans[i + drops]
        BY <2>4, <3>1, <4>1
      <4> QED
        BY <2>11, <2>14, <4>1, <4>2
    <3> QED
      BY <3>2, <3>3
  <2>16. ASSUME NEW i \in 1..(L + 1), NEW j \in 1..(L + 1), all[i] = all[j] PROVE i = j
    <3>1. CASE i = L + 1 /\ j = L + 1
      BY <3>1
    <3>2. CASE i = L + 1 /\ j # L + 1
      <4>1. j \in 1..L
        BY <2>3, <3>2
      <4> QED
        BY <2>4, <2>14, <2>16, <3>2, <4>1
    <3>3. CASE i # L + 1 /\ j = L + 1
      <4>1. i \in 1..L
        BY <2>3, <3>3
      <4> QED
        BY <2>4, <2>14, <2>16, <3>3, <4>1
    <3>4. CASE i # L + 1 /\ j # L + 1
      <4>1. i \in 1..L /\ j \in 1..L
        BY <2>3, <3>4
      <4>2. finished_spans[i] = finished_spans[j]
        BY <2>4, <2>16, <4>1
      <4> QED
        BY <4>1, <4>2 DEF Ring, L
    <3> QED
      BY <3>1, <3>2, <3>3, <3>4
  <2>17. ASSUME NEW i \in 1..Len(finished_spans'), NEW j \in 1..Len(finished_spans'),
                finished_spans'[i] = finished_spans'[j]
         PROVE  i = j
    <3>1. /\ i + drops \in 1..(L + 1) /\ finished_spans'[i] = all[i + drops]
          /\ j + drops \in 1..(L + 1) /\ finished_spans'[j] = all[j + drops]
      BY <2>8
    <3>2. i + drops = j + drops
      BY <2>16, <2>17, <3>1
    <3> QED
      BY <2>5, <3>2
  <2>18. Len(finished_spans') + dropped' = ended_since' /\ Len(finished_spans') <= MaxFinished
    <3> DEFINE m == Len(finished_spans')
    <3>1. m = (L + 1) - drops
      BY <2>8
    <3> HIDE DEF m
    <3>2. m + (dropped + drops) = ended_since + 1 /\ m <= MaxFinished
      BY <2>3, <2>5, <2>6, <2>7, <3>1 DEF L
    <3> QED
      BY <2>1, <3>2 DEF m
  <2>19. Ring'
    BY <2>15, <2>17, <2>18 DEF Ring
  <2>20. dropped' \in Nat /\ ended_since' \in Nat
    BY <2>1, <2>5, <2>6
  <2> QED
    BY <2>8, <2>9, <2>10, <2>13, <2>19, <2>20
<1> QED
  BY <1>2, <1>3 DEF Ends

\* The scopes of a thread: one is entered, and the last one is left.
LEMMA ChainGrows ==
  ASSUME NEW line, NEW shown, NEW S, line \in Seq(S), Chain(line, shown),
         NEW e \in S, e.prev = shown
  PROVE  Chain(Append(line, e), e.span)
<1> DEFINE n == Len(line)
           more == Append(line, e)
<1>1. /\ n \in Nat /\ Len(more) = n + 1 /\ more[n + 1] = e
      /\ \A i \in 1..n : more[i] = line[i]
  OBVIOUS
<1>2. /\ \A i \in 1..n : line[i].prev = IF i = 1 THEN 0 ELSE line[i - 1].span
      /\ shown = IF n = 0 THEN 0 ELSE line[n].span
  BY DEF Chain
<1> HIDE DEF n, more
<1>3. ASSUME NEW i \in 1..(n + 1)
      PROVE  more[i].prev = IF i = 1 THEN 0 ELSE more[i - 1].span
  <2>1. CASE i = n + 1
    <3>1. more[i].prev = shown
      BY <1>1, <2>1
    <3>2. CASE n = 0
      BY <1>2, <2>1, <3>1, <3>2
    <3>3. CASE n # 0
      <4>1. i # 1 /\ i - 1 = n /\ n \in 1..n
        BY <1>1, <2>1, <3>3
      <4> QED
        BY <1>1, <1>2, <3>1, <3>3, <4>1
    <3> QED
      BY <3>2, <3>3
  <2>2. CASE i # n + 1
    <3>1. i \in 1..n /\ (i # 1 => i - 1 \in 1..n)
      BY <1>1, <2>2
    <3> QED
      BY <1>1, <1>2, <3>1
  <2> QED
    BY <2>1, <2>2
<1>4. e.span = IF Len(more) = 0 THEN 0 ELSE more[Len(more)].span
  BY <1>1
<1>5. \A i \in 1..Len(more) : more[i].prev = IF i = 1 THEN 0 ELSE more[i - 1].span
  BY <1>1, <1>3
<1>6. Chain(more, e.span)
  BY <1>4, <1>5 DEF Chain
<1> QED
  BY <1>6 DEF more

LEMMA ChainShrinks ==
  ASSUME NEW line, NEW shown, NEW S, line \in Seq(S), line # <<>>, Chain(line, shown)
  PROVE  LET rest == SubSeq(line, 1, Len(line) - 1)
         IN  rest \in Seq(S) /\ line[Len(line)] \in S /\ Chain(rest, line[Len(line)].prev)
<1> DEFINE n == Len(line)
           m == n - 1
           rest == SubSeq(line, 1, m)
<1>1. n \in Nat /\ n # 0 /\ m \in Nat /\ n = m + 1 /\ line[n] \in S
  OBVIOUS
<1>2. /\ \A i \in 1..n : line[i].prev = IF i = 1 THEN 0 ELSE line[i - 1].span
  BY DEF Chain
<1>3. rest \in Seq(S) /\ Len(rest) = m /\ \A i \in 1..m : rest[i] = line[i]
  <2>1. m \in 0..Len(line) /\ line \in Seq(S)
    BY <1>1
  <2> HIDE DEF m, n
  <2> QED
    BY <2>1
<1> HIDE DEF m, rest
<1>4. ASSUME NEW i \in 1..m PROVE rest[i].prev = IF i = 1 THEN 0 ELSE rest[i - 1].span
  <2>1. i \in 1..n /\ (i # 1 => i - 1 \in 1..m)
    BY <1>1
  <2> QED
    BY <1>2, <1>3, <2>1
<1>5. line[n].prev = IF m = 0 THEN 0 ELSE rest[m].span
  <2>1. n \in 1..n /\ n - 1 = m
    BY <1>1
  <2>2. line[n].prev = IF n = 1 THEN 0 ELSE line[m].span
    BY <1>2, <2>1
  <2>3. CASE m = 0
    BY <1>1, <2>2, <2>3
  <2>4. CASE m # 0
    <3>1. n # 1 /\ m \in 1..m
      BY <1>1, <2>4
    <3> QED
      BY <1>3, <2>2, <2>4, <3>1
  <2> QED
    BY <2>3, <2>4
<1>6. Chain(rest, line[n].prev)
  BY <1>3, <1>4, <1>5 DEF Chain
<1> QED
  BY <1>1, <1>3, <1>6 DEF rest, m

LEMMA EnterScopeKeeps ==
  ASSUME TracerIInv, NEW t \in SpanThreads, NEW s \in NoneOr, EnterScope(t, s)
  PROVE  TracerIInv'
<1> USE DEF TracerIInv
<1> DEFINE e == [span |-> s, prev |-> current[t]]
<1>1. /\ scopes' = [scopes EXCEPT ![t] = Append(@, e)]
      /\ current' = [current EXCEPT ![t] = s]
      /\ UNCHANGED <<span, finished_spans, dropped, ended_since>>
  BY DEF EnterScope
<1>2. /\ scopes \in [SpanThreads -> Seq(ScopeRecord)] /\ current \in [SpanThreads -> NoneOr]
  BY DEF TracerTypes
<1>3. e \in ScopeRecord /\ e.prev = current[t] /\ e.span = s
  BY <1>2 DEF ScopeRecord
<1> HIDE DEF e
<1>4. Spans' = Spans /\ NoneOr' = NoneOr /\ ScopeRecord' = ScopeRecord
  BY <1>1 DEF Spans, NoneOr, ScopeRecord
<1>5. scopes' \in [SpanThreads -> Seq(ScopeRecord)] /\ current' \in [SpanThreads -> NoneOr]
  BY <1>1, <1>2, <1>3
<1>6. TracerTypes'
  BY <1>1, <1>4, <1>5 DEF TracerTypes
<1>7. Traces' /\ Ring'
  BY <1>1, <1>4 DEF Traces, Ring
<1>8. ASSUME NEW u \in SpanThreads PROVE Chain(scopes'[u], current'[u])
  <2>1. Chain(scopes[u], current[u])
    OBVIOUS
  <2>2. CASE u = t
    <3>1. scopes'[u] = Append(scopes[t], e) /\ current'[u] = e.span
      BY <1>1, <1>2, <1>3, <2>2
    <3>2. scopes[t] \in Seq(ScopeRecord) /\ Chain(scopes[t], current[t])
      BY <1>2
    <3>3. Chain(Append(scopes[t], e), e.span)
      BY ONLY <1>3, <3>2, ChainGrows
    <3> QED
      BY <3>1, <3>3
  <2>3. CASE u # t
    BY <1>1, <1>2, <2>1, <2>3
  <2> QED
    BY <2>2, <2>3
<1> QED
  BY <1>6, <1>7, <1>8

LEMMA LeaveScopeKeeps ==
  ASSUME TracerIInv, NEW t \in SpanThreads, LeaveScope(t)
  PROVE  TracerIInv'
<1> USE DEF TracerIInv
<1> DEFINE scope == scopes[t][Len(scopes[t])]
           rest == SubSeq(scopes[t], 1, Len(scopes[t]) - 1)
<1>1. /\ scopes[t] # <<>> /\ Ends(scope.span)
      /\ current' = [current EXCEPT ![t] = scope.prev]
      /\ scopes' = [scopes EXCEPT ![t] = rest]
  BY DEF LeaveScope, Restores
<1>2. /\ scopes \in [SpanThreads -> Seq(ScopeRecord)] /\ current \in [SpanThreads -> NoneOr]
  BY DEF TracerTypes
<1>3. rest \in Seq(ScopeRecord) /\ scope \in ScopeRecord /\ Chain(rest, scope.prev)
  <2>1. scopes[t] \in Seq(ScopeRecord) /\ Chain(scopes[t], current[t])
    BY <1>2
  <2> QED
    BY ONLY <1>1, <2>1, ChainShrinks
<1> HIDE DEF scope, rest
<1>4. scope.span \in NoneOr /\ scope.prev \in NoneOr
  BY <1>3 DEF ScopeRecord
<1>5. /\ Spans' = Spans /\ span' \in Seq(SpanRecord) /\ finished_spans' \in Seq(Spans)
      /\ dropped' \in Nat /\ ended_since' \in Nat
      /\ Traces' /\ Ring'
  BY <1>1, <1>4, EndsKeeps
<1>6. NoneOr' = NoneOr /\ ScopeRecord' = ScopeRecord
  BY <1>5 DEF NoneOr, ScopeRecord
<1>7. scopes' \in [SpanThreads -> Seq(ScopeRecord)] /\ current' \in [SpanThreads -> NoneOr]
  BY <1>1, <1>2, <1>3, <1>4
<1>8. TracerTypes'
  BY <1>5, <1>6, <1>7 DEF TracerTypes
<1>9. ASSUME NEW u \in SpanThreads PROVE Chain(scopes'[u], current'[u])
  <2>1. Chain(scopes[u], current[u])
    OBVIOUS
  <2>2. CASE u = t
    BY <1>1, <1>2, <1>3, <2>2
  <2>3. CASE u # t
    BY <1>1, <1>2, <2>1, <2>3
  <2> QED
    BY <2>2, <2>3
<1> QED
  BY <1>5, <1>8, <1>9

LEMMA EndSpanKeeps ==
  ASSUME TracerIInv, NEW t \in SpanThreads, NEW s \in Spans, EndSpan(t, s)
  PROVE  TracerIInv'
<1> USE DEF TracerIInv
<1>1. Ends(s) /\ UNCHANGED <<scopes, current>> /\ s \in NoneOr
  BY DEF EndSpan, NoneOr
<1>2. /\ Spans' = Spans /\ span' \in Seq(SpanRecord) /\ finished_spans' \in Seq(Spans)
      /\ dropped' \in Nat /\ ended_since' \in Nat
      /\ Traces' /\ Ring'
  BY <1>1, EndsKeeps
<1>3. NoneOr' = NoneOr /\ ScopeRecord' = ScopeRecord
  BY <1>2 DEF NoneOr, ScopeRecord
<1>4. TracerTypes'
  BY <1>1, <1>2, <1>3 DEF TracerTypes
<1>5. \A u \in SpanThreads : Chain(scopes[u], current[u])'
  BY <1>1
<1> QED
  BY <1>2, <1>4, <1>5

LEMMA TracerStays ==
  TracerIInv /\ (TracerNext \/ UNCHANGED tracerVars) => TracerIInv'
<1> SUFFICES ASSUME TracerIInv, TracerNext \/ UNCHANGED tracerVars PROVE TracerIInv'
  OBVIOUS
<1>1. CASE UNCHANGED tracerVars
  <2>1. UNCHANGED <<span, scopes, current, finished_spans, dropped, ended_since>>
    BY <1>1 DEF tracerVars
  <2>2. Spans' = Spans /\ NoneOr' = NoneOr /\ ScopeRecord' = ScopeRecord
    BY <2>1 DEF Spans, NoneOr, ScopeRecord
  <2>3. TracerTypes'
    BY <2>1, <2>2 DEF TracerIInv, TracerTypes
  <2>4. Traces' /\ Ring'
    BY <2>1, <2>2 DEF TracerIInv, Traces, Ring
  <2> QED
    BY <2>1, <2>3, <2>4 DEF TracerIInv
<1>2. CASE ClearSpans
  <2>1. /\ finished_spans' = <<>> /\ dropped' = 0 /\ ended_since' = 0
        /\ UNCHANGED <<span, scopes, current>>
    BY <1>2 DEF ClearSpans
  <2>2. Spans' = Spans /\ NoneOr' = NoneOr /\ ScopeRecord' = ScopeRecord
    BY <2>1 DEF Spans, NoneOr, ScopeRecord
  <2>3. TracerTypes'
    BY <2>1, <2>2 DEF TracerIInv, TracerTypes
  <2>4. Traces'
    BY <2>1, <2>2 DEF TracerIInv, Traces
  <2>5. Ring'
    BY <2>1 DEF Ring
  <2> QED
    BY <2>1, <2>3, <2>4, <2>5 DEF TracerIInv
<1>3. ASSUME NEW t \in SpanThreads,
             \/ \E parent \in {0} \cup Spans : StartSpan(t, parent) \/ EnterScope(t, parent)
             \/ StartChildSpan(t)
             \/ \E s \in Spans : EndSpan(t, s)
             \/ LeaveScope(t)
      PROVE  TracerIInv'
  <2>1. ASSUME NEW parent \in {0} \cup Spans, StartSpan(t, parent) PROVE TracerIInv'
    BY <2>1, StartSpanKeeps DEF NoneOr
  <2>2. ASSUME NEW s \in {0} \cup Spans, EnterScope(t, s) PROVE TracerIInv'
    BY <2>2, EnterScopeKeeps DEF NoneOr
  <2>3. CASE StartChildSpan(t)
    <3>1. current[t] \in NoneOr
      BY DEF TracerIInv, TracerTypes
    <3> QED
      BY <2>3, <3>1, StartSpanKeeps DEF StartChildSpan
  <2>4. CASE \E s \in Spans : EndSpan(t, s)
    BY <2>4, EndSpanKeeps
  <2>5. CASE LeaveScope(t)
    BY <2>5, LeaveScopeKeeps
  <2> QED
    BY <1>3, <2>1, <2>2, <2>3, <2>4, <2>5
<1> QED
  BY <1>1, <1>2, <1>3 DEF TracerNext

LEMMA TracerMeans == TracerIInv => TracerInv /\ finished_spans \in Seq(Spans)
<1> SUFFICES ASSUME TracerIInv PROVE TracerInv /\ finished_spans \in Seq(Spans)
  OBVIOUS
<1>1. finished_spans \in Seq(Spans)
  BY DEF TracerIInv, TracerTypes
<1>2. DOMAIN finished_spans = 1..Len(finished_spans)
  BY <1>1
<1>3. ASSUME NEW t \in SpanThreads
      PROVE  current[t] = IF scopes[t] = <<>> THEN 0 ELSE scopes[t][Len(scopes[t])].span
  <2>1. scopes[t] \in Seq(ScopeRecord) /\ Chain(scopes[t], current[t])
    BY DEF TracerIInv, TracerTypes
  <2>2. Len(scopes[t]) = 0 <=> scopes[t] = <<>>
    BY <2>1
  <2> QED
    BY <2>1, <2>2 DEF Chain
<1>4. \A s \in Spans : span[s].parent # 0 => span[s].trace = span[span[s].parent].trace
  BY DEF TracerIInv, Traces
<1>5. Len(finished_spans) + dropped = ended_since /\ Len(finished_spans) <= MaxFinished
  BY DEF TracerIInv, Ring
<1>6. \A i, j \in DOMAIN finished_spans :
        span[finished_spans[i]].ended /\ (i # j => finished_spans[i] # finished_spans[j])
  BY <1>2 DEF TracerIInv, Ring
<1> QED
  BY <1>1, <1>3, <1>4, <1>5, <1>6 DEF TracerInv

LEMMA TracerBegins == TracerInit => TracerIInv
<1> SUFFICES ASSUME TracerInit PROVE TracerIInv
  OBVIOUS
<1> USE DEF TracerInit
<1>1. TracerTypes
  <2>1. 0 \in NoneOr
    BY DEF NoneOr
  <2> QED
    BY <2>1 DEF TracerTypes
<1>2. Spans = {}
  BY DEF Spans
<1>3. Traces /\ Ring
  BY <1>2 DEF Traces, Ring
<1>4. \A t \in SpanThreads : Chain(scopes[t], current[t])
  BY DEF Chain
<1> QED
  BY <1>1, <1>3, <1>4 DEF TracerIInv

\* Whatever instrument is used: what a scrape shows was there, a percentile is found,
\* a family has one type, and the tracer's scopes, traces and ring are in order.
THEOREM TelemetryInvariant == TelemetrySpec => [](TelemetryTypeOK /\ TelemetryInv)
<1> DEFINE I == HistogramIInv /\ RegistryIInv /\ TracerIInv
<1>1. TelemetryInit => I
  <2> SUFFICES ASSUME TelemetryInit PROVE I
    OBVIOUS
  <2>1. HistogramIInv /\ TracerIInv
    BY HistogramBegins, TracerBegins DEF TelemetryInit
  <2>2. DOMAIN entries = {}
    BY DEF TelemetryInit
  <2>3. RegistryIInv
    BY <2>2 DEF RegistryIInv, FamilyInv
  <2> QED
    BY <2>1, <2>3
<1>2. I /\ [TelemetryNext]_telemetryVars => I'
  <2> SUFFICES ASSUME I, [TelemetryNext]_telemetryVars PROVE I'
    OBVIOUS
  <2>1. /\ HistogramNext \/ UNCHANGED histogramVars
        /\ RegistryNext \/ UNCHANGED registryVars
        /\ TracerNext \/ UNCHANGED tracerVars
    BY DEF TelemetryNext, telemetryVars
  <2> QED
    BY <2>1, HistogramStays, RegistryStays, TracerStays
<1>3. I => TelemetryTypeOK /\ TelemetryInv
  <2> SUFFICES ASSUME I PROVE TelemetryTypeOK /\ TelemetryInv
    OBVIOUS
  <2>1. /\ counts \in [BucketSet -> 0..MaxObserved] /\ total \in 0..MaxObserved
        /\ observing \in [Observers -> 0..Buckets] /\ reader.kind \in Kinds
        /\ resetting \in 0..(Buckets + 1)
        /\ ScrapeInv /\ PercentileInv /\ AtRestInv
    BY HistogramMeans
  <2>2. TracerInv /\ finished_spans \in Seq(Spans)
    BY TracerMeans
  <2>3. DOMAIN entries \subseteq Series /\ FamilyInv
    BY DEF RegistryIInv
  <2>4. TelemetryTypeOK
    BY <2>1, <2>2, <2>3 DEF TelemetryTypeOK, Kinds
  <2> QED
    BY <2>1, <2>2, <2>3, <2>4 DEF TelemetryInv
<1> HIDE DEF I
<1> QED
  BY <1>1, <1>2, <1>3, PTL DEF TelemetrySpec

-----------------------------------------------------------------------------
(***************************************************************************)
(* Proofs about the LRU cache of Helpers, for any keys, capacity and calls *)
(* in any order.                                                           *)
(***************************************************************************)

CacheItem == [key : CacheKeys, value : Nat]

LruTypes ==
  /\ capacity \in Nat /\ items \in Seq(CacheItem) /\ index \subseteq CacheKeys
  /\ hits \in Nat /\ lookups \in Nat /\ cache_calls \in Nat
  /\ last_put \in [CacheKeys -> Nat] /\ touched \in [CacheKeys -> Nat]
  /\ evicted \subseteq CacheKeys

\* A list of items says what was put last, in the order of use, of which all that was
\* evicted comes after.
InOrderOfUse(list, used, put, gone) ==
  \A i \in 1..Len(list) :
    /\ list[i].value = put[list[i].key]
    /\ \A j \in 1..Len(list) : i < j => used[list[j].key] < used[list[i].key]
    /\ \A k \in gone : used[k] < used[list[i].key]

KeysIn(list) == {list[i].key : i \in 1..Len(list)}

LruIInv ==
  /\ LruTypes
  /\ index = KeysIn(items) /\ Len(items) <= capacity
  /\ \A k \in CacheKeys : touched[k] <= cache_calls
  /\ InOrderOfUse(items, touched, last_put, evicted)
  /\ \A k \in CacheKeys : last_put[k] # 0 <=> k \in index \cup evicted
  /\ evicted # {} => capacity > 0
  /\ hits <= lookups

\* A list in the order of use has no key twice.
LEMMA UsedOnce ==
  ASSUME LruTypes, NEW list \in Seq(CacheItem),
         InOrderOfUse(list, touched, last_put, evicted),
         NEW i \in 1..Len(list), NEW j \in 1..Len(list), list[i].key = list[j].key
  PROVE  i = j
<1>1. Len(list) \in Nat /\ \A n \in 1..Len(list) : touched[list[n].key] \in Nat
  <2>1. \A n \in 1..Len(list) : list[n] \in CacheItem
    BY ElementOfSeq
  <2>2. touched \in [CacheKeys -> Nat] /\ Len(list) \in Nat
    BY LenProperties DEF LruTypes
  <2> QED
    BY <2>1, <2>2 DEF CacheItem
<1>2. CASE i < j
  BY <1>1, <1>2 DEF InOrderOfUse
<1>3. CASE j < i
  BY <1>1, <1>3 DEF InOrderOfUse
<1> QED
  BY <1>1, <1>2, <1>3

\* What is left of the list without a key that is in it.
LEMMA OthersAre ==
  ASSUME LruIInv, NEW key \in index
  PROVE  /\ Others(key) \in Seq(CacheItem) /\ Len(Others(key)) = Len(items) - 1
         /\ PlaceOf(key) \in 1..Len(items) /\ items[PlaceOf(key)].key = key
         /\ \A i \in 1..Len(items) : items[i].key = key => i = PlaceOf(key)
         /\ \A i \in 1..(Len(items) - 1) :
              Others(key)[i] = items[IF i < PlaceOf(key) THEN i ELSE i + 1]
<1>1. items \in Seq(CacheItem) /\ DOMAIN items = 1..Len(items) /\ LruTypes
  BY LenProperties DEF LruIInv, LruTypes
<1>2. \E i \in DOMAIN items : items[i].key = key
  BY <1>1 DEF LruIInv, KeysIn
<1>3. PlaceOf(key) \in 1..Len(items) /\ items[PlaceOf(key)].key = key
  BY <1>1, <1>2 DEF PlaceOf
<1>4. \A i \in 1..Len(items) : items[i].key = key => i = PlaceOf(key)
  <2> SUFFICES ASSUME NEW i \in 1..Len(items), items[i].key = key PROVE i = PlaceOf(key)
    OBVIOUS
  <2> QED
    BY <1>1, <1>3, UsedOnce DEF LruIInv
<1>5. /\ Others(key) \in Seq(CacheItem) /\ Len(Others(key)) = Len(items) - 1
      /\ \A i \in 1..(Len(items) - 1) :
           Others(key)[i] = items[IF i < PlaceOf(key) THEN i ELSE i + 1]
  BY <1>1, <1>3, RemoveAtProperties DEF Others
<1> QED
  BY <1>3, <1>4, <1>5

\* A key that is put in front of the others, whatever its value becomes.
LEMMA PutInFront ==
  ASSUME LruIInv, NEW key \in index, NEW x \in CacheItem, x.key = key,
         NEW used, used = [touched EXCEPT ![key] = cache_calls + 1],
         NEW put, put = [last_put EXCEPT ![key] = x.value],
         NEW list, list = <<x>> \o Others(key)
  PROVE  /\ list \in Seq(CacheItem) /\ Len(list) = Len(items) /\ KeysIn(list) = index
         /\ InOrderOfUse(list, used, put, evicted)
<1> DEFINE p == PlaceOf(key)
           L == Len(items)
           old(i) == IF i <= p THEN i - 1 ELSE i
<1>1. /\ Others(key) \in Seq(CacheItem) /\ Len(Others(key)) = L - 1
      /\ p \in 1..L /\ items[p].key = key
      /\ \A i \in 1..L : items[i].key = key => i = p
      /\ \A i \in 1..(L - 1) : Others(key)[i] = items[IF i < p THEN i ELSE i + 1]
  BY OthersAre
<1>2. /\ L \in Nat /\ \A i \in 1..L : items[i] \in CacheItem
      /\ LruTypes /\ InOrderOfUse(items, touched, last_put, evicted)
      /\ \A k \in CacheKeys : touched[k] <= cache_calls
      /\ index = KeysIn(items) /\ key \in CacheKeys
  BY ElementOfSeq DEF LruIInv, LruTypes
<1> HIDE DEF p, L
<1>3. /\ list \in Seq(CacheItem) /\ Len(list) = L /\ list[1] = x
      /\ \A i \in 2..L : list[i] = items[old(i)]
  <2>1. /\ <<x>> \in Seq(CacheItem) /\ Len(<<x>>) = 1 /\ <<x>>[1] = x
    OBVIOUS
  <2>2. /\ list \in Seq(CacheItem) /\ Len(list) = 1 + (L - 1)
        /\ \A i \in 1..(1 + (L - 1)) :
             list[i] = IF i <= 1 THEN <<x>>[i] ELSE Others(key)[i - 1]
    <3>1. /\ list \in Seq(CacheItem) /\ Len(list) = Len(<<x>>) + Len(Others(key))
          /\ \A i \in 1..(Len(<<x>>) + Len(Others(key))) :
               list[i] = IF i <= Len(<<x>>) THEN <<x>>[i] ELSE Others(key)[i - Len(<<x>>)]
      BY ONLY <1>1, <2>1, ConcatProperties, list = <<x>> \o Others(key)
    <3> QED
      BY ONLY <1>1, <2>1, <3>1
  <2>3. ASSUME NEW i \in 2..L PROVE list[i] = items[old(i)]
    <3>1. i - 1 \in 1..(L - 1) /\ i \in 1..(1 + (L - 1)) /\ ~(i <= 1)
      BY <1>2
    <3>2. list[i] = items[IF i - 1 < p THEN i - 1 ELSE (i - 1) + 1]
      BY <1>1, <2>2, <3>1
    <3>3. (i - 1 < p <=> i <= p) /\ (i - 1) + 1 = i
      BY <1>1, <1>2, <3>1
    <3> QED
      BY <3>2, <3>3
  <2>4. 1 \in 1..(1 + (L - 1)) /\ 1 + (L - 1) = L
    BY <1>1, <1>2
  <2> QED
    BY <2>1, <2>2, <2>3, <2>4
<1>4. \A i \in 2..L : /\ old(i) \in 1..L /\ old(i) # p /\ list[i] = items[old(i)]
                      /\ \A j \in 2..L : i < j => old(i) < old(j)
  BY <1>1, <1>2, <1>3
<1>5. \A i \in 2..L : list[i].key \in CacheKeys /\ list[i].key # key
  BY <1>1, <1>2, <1>4 DEF CacheItem
<1>6. /\ used[key] = cache_calls + 1 /\ \A k \in CacheKeys : k # key => used[k] = touched[k]
      /\ put[key] = x.value /\ \A k \in CacheKeys : k # key => put[k] = last_put[k]
      /\ \A k \in CacheKeys : touched[k] \in Nat
      /\ cache_calls \in Nat
  BY <1>2 DEF LruTypes
<1>7. KeysIn(list) = index
  <2>1. ASSUME NEW i \in 1..L PROVE items[i].key \in KeysIn(list)
    <3>1. CASE i = p
      BY <1>1, <1>2, <1>3, <3>1 DEF KeysIn
    <3>2. CASE i < p
      <4>1. i + 1 \in 2..L /\ old(i + 1) = i /\ i + 1 \in 1..L
        BY <1>1, <1>2, <3>2
      <4> QED
        BY <1>3, <4>1 DEF KeysIn
    <3>3. CASE i > p
      <4>1. i \in 2..L /\ old(i) = i
        BY <1>1, <1>2, <3>3
      <4> QED
        BY <1>3, <4>1 DEF KeysIn
    <3> QED
      BY <1>1, <1>2, <3>1, <3>2, <3>3
  <2>2. ASSUME NEW i \in 1..L PROVE list[i].key \in KeysIn(items)
    <3>1. CASE i = 1
      BY <1>2, <1>3, <3>1
    <3>2. CASE i \in 2..L
      BY <1>4, <3>2 DEF KeysIn, L
    <3>3. i = 1 \/ i \in 2..L
      BY <1>2
    <3> QED
      BY <3>1, <3>2, <3>3
  <2>3. KeysIn(list) = {list[i].key : i \in 1..L}
    BY <1>3 DEF KeysIn
  <2>4. KeysIn(items) = {items[i].key : i \in 1..L}
    BY DEF KeysIn, L
  <2>5. index \subseteq KeysIn(list) /\ KeysIn(list) \subseteq KeysIn(items) /\ index = KeysIn(items)
    BY <1>2, <2>1, <2>2, <2>3, <2>4
  <2> QED
    BY <2>5
<1>8. ASSUME NEW i \in 1..L
      PROVE  /\ list[i].value = put[list[i].key]
             /\ \A j \in 1..L : i < j => used[list[j].key] < used[list[i].key]
             /\ \A k \in evicted : used[k] < used[list[i].key]
  <2>1. \A k \in evicted : k \in CacheKeys /\ k # key /\ touched[k] <= cache_calls
    <3>1. \A k \in evicted : touched[k] < touched[items[p].key]
      BY <1>1, <1>2 DEF InOrderOfUse, L
    <3> QED
      BY <1>1, <1>2, <1>6, <3>1 DEF LruTypes
  <2>2. CASE i = 1
    <3>1. list[i].key = key /\ list[i].value = x.value
      BY <1>3, <2>2
    <3>2. \A j \in 1..L : i < j => j \in 2..L
      BY <1>2, <2>2
    <3>3. \A j \in 2..L : used[list[j].key] < cache_calls + 1
      <4> SUFFICES ASSUME NEW j \in 2..L PROVE used[list[j].key] < cache_calls + 1
        OBVIOUS
      <4>1. used[list[j].key] = touched[list[j].key] /\ touched[list[j].key] <= cache_calls
        BY <1>2, <1>5, <1>6
      <4>2. touched[list[j].key] \in Nat
        BY <1>5, <1>6
      <4>3. cache_calls \in Nat
        BY <1>6
      <4> QED
        BY ONLY <4>1, <4>2, <4>3
    <3>4. list[i].value = put[list[i].key] /\ used[list[i].key] = cache_calls + 1
      BY <1>6, <3>1
    <3>5. \A k \in evicted : used[k] < cache_calls + 1
      <4> SUFFICES ASSUME NEW k \in evicted PROVE used[k] < cache_calls + 1
        OBVIOUS
      <4>1. used[k] = touched[k] /\ touched[k] <= cache_calls /\ touched[k] \in Nat
            /\ cache_calls \in Nat
        BY <1>6, <2>1
      <4> QED
        BY ONLY <4>1
    <3> QED
      BY <3>2, <3>3, <3>4, <3>5
  <2>3. CASE i \in 2..L
    <3>1. list[i] = items[old(i)] /\ old(i) \in 1..L
      BY <1>4, <2>3
    <3>2. /\ items[old(i)].value = last_put[items[old(i)].key]
          /\ \A j \in 1..L : old(i) < j => touched[items[j].key] < touched[items[old(i)].key]
          /\ \A k \in evicted : touched[k] < touched[items[old(i)].key]
      BY <1>2, <3>1 DEF InOrderOfUse, L
    <3>3. \A j \in 1..L : i < j => j \in 2..L /\ old(j) \in 1..L /\ old(i) < old(j)
      BY <1>2, <1>4, <2>3
    <3>4. list[i].value = put[list[i].key]
      BY <1>5, <1>6, <2>3, <3>1, <3>2
    <3>5. used[list[i].key] = touched[items[old(i)].key]
      BY <1>5, <1>6, <2>3, <3>1
    <3>6. \A j \in 1..L : i < j => used[list[j].key] < used[list[i].key]
      <4> SUFFICES ASSUME NEW j \in 1..L, i < j PROVE used[list[j].key] < used[list[i].key]
        OBVIOUS
      <4>1. j \in 2..L /\ old(j) \in 1..L /\ old(i) < old(j)
        BY <3>3
      <4>2. list[j] = items[old(j)] /\ list[j].key \in CacheKeys /\ list[j].key # key
        BY <1>4, <1>5, <4>1
      <4>3. used[list[j].key] = touched[items[old(j)].key]
        BY <1>6, <4>2
      <4> HIDE DEF old
      <4> QED
        BY <3>2, <3>5, <4>1, <4>3
    <3>7. \A k \in evicted : used[k] < used[list[i].key]
      BY <1>6, <2>1, <3>2, <3>5
    <3> QED
      BY <3>4, <3>6, <3>7
  <2>4. i = 1 \/ i \in 2..L
    BY <1>2
  <2> QED
    BY <2>2, <2>3, <2>4
<1> QED
  BY <1>3, <1>7, <1>8 DEF InOrderOfUse, L

\* The list with a new item in front.
HasNewInFront(list, x, used, put) ==
  /\ list \in Seq(CacheItem) /\ Len(list) = Len(items) + 1
  /\ KeysIn(list) = index \cup {x.key} /\ list[1] = x
  /\ InOrderOfUse(list, used, put, evicted \ {x.key})

LEMMA NewInFront ==
  ASSUME LruIInv, NEW key \in CacheKeys, key \notin index, NEW x \in CacheItem, x.key = key,
         NEW used, used = [touched EXCEPT ![key] = cache_calls + 1],
         NEW put, put = [last_put EXCEPT ![key] = x.value],
         NEW list, list = <<x>> \o items
  PROVE  HasNewInFront(list, x, used, put)
<1> DEFINE L == Len(items)
<1>1. /\ L \in Nat /\ \A i \in 1..L : items[i] \in CacheItem
      /\ items \in Seq(CacheItem)
      /\ LruTypes /\ InOrderOfUse(items, touched, last_put, evicted)
      /\ \A k \in CacheKeys : touched[k] <= cache_calls
      /\ index = KeysIn(items)
  BY ElementOfSeq DEF LruIInv, LruTypes
<1>2. /\ used[key] = cache_calls + 1 /\ \A k \in CacheKeys : k # key => used[k] = touched[k]
      /\ put[key] = x.value /\ \A k \in CacheKeys : k # key => put[k] = last_put[k]
      /\ \A k \in CacheKeys : touched[k] \in Nat
      /\ cache_calls \in Nat
  BY <1>1 DEF LruTypes
<1>3. \A i \in 1..L : items[i].key \in CacheKeys /\ items[i].key # key
  BY <1>1 DEF CacheItem, KeysIn
<1> HIDE DEF L
<1>4. /\ list \in Seq(CacheItem) /\ Len(list) = L + 1 /\ list[1] = x
      /\ \A i \in 2..(L + 1) : list[i] = items[i - 1] /\ i - 1 \in 1..L
  <2>1. /\ <<x>> \in Seq(CacheItem) /\ Len(<<x>>) = 1 /\ <<x>>[1] = x
    OBVIOUS
  <2>2. /\ list \in Seq(CacheItem) /\ Len(list) = Len(<<x>>) + Len(items)
        /\ \A i \in 1..(Len(<<x>>) + Len(items)) :
             list[i] = IF i <= Len(<<x>>) THEN <<x>>[i] ELSE items[i - Len(<<x>>)]
    BY ONLY <1>1, <2>1, ConcatProperties, list = <<x>> \o items
  <2> QED
    BY <1>1, <2>1, <2>2 DEF L
<1>5. KeysIn(list) = index \cup {key}
  <2>1. ASSUME NEW i \in 1..(L + 1) PROVE list[i].key \in index \cup {key}
    <3>1. CASE i = 1
      BY <1>4, <3>1
    <3>2. CASE i \in 2..(L + 1)
      BY <1>1, <1>4, <3>2 DEF KeysIn, L
    <3>3. i = 1 \/ i \in 2..(L + 1)
      BY <1>1
    <3> QED
      BY <3>1, <3>2, <3>3
  <2>2. ASSUME NEW i \in 1..L PROVE items[i].key \in KeysIn(list)
    <3>1. i + 1 \in 2..(L + 1) /\ i + 1 \in 1..(L + 1) /\ (i + 1) - 1 = i
      BY <1>1
    <3> QED
      BY <1>4, <3>1 DEF KeysIn
  <2>3. key \in KeysIn(list)
    <3>1. 1 \in 1..(L + 1)
      BY <1>1
    <3> QED
      BY <1>4, <3>1 DEF KeysIn
  <2> QED
    BY <1>1, <1>4, <2>1, <2>2, <2>3 DEF KeysIn, L
<1>6. \A k \in evicted \ {key} : used[k] = touched[k] /\ touched[k] <= cache_calls
                                  /\ touched[k] \in Nat
  BY <1>1, <1>2 DEF LruTypes
<1>7. \A i \in 2..(L + 1) : used[list[i].key] = touched[items[i - 1].key]
                            /\ touched[items[i - 1].key] <= cache_calls
                            /\ touched[items[i - 1].key] \in Nat
  BY <1>1, <1>2, <1>3, <1>4
<1>8. ASSUME NEW i \in 1..(L + 1)
      PROVE  /\ list[i].value = put[list[i].key]
             /\ \A j \in 1..(L + 1) : i < j => used[list[j].key] < used[list[i].key]
             /\ \A k \in evicted \ {key} : used[k] < used[list[i].key]
  <2>1. CASE i = 1
    <3>1. list[i].key = key /\ list[i].value = x.value
      BY <1>4, <2>1
    <3>2. \A j \in 1..(L + 1) : i < j => j \in 2..(L + 1)
      BY <1>1, <2>1
    <3>3. list[i].value = put[list[i].key] /\ used[list[i].key] = cache_calls + 1
      BY <1>2, <3>1
    <3>4. \A k \in evicted \ {key} : used[k] < cache_calls + 1
      <4> SUFFICES ASSUME NEW k \in evicted \ {key} PROVE used[k] < cache_calls + 1
        OBVIOUS
      <4>1. /\ used[k] = touched[k] /\ touched[k] <= cache_calls /\ touched[k] \in Nat
            /\ cache_calls \in Nat
        BY <1>2, <1>6
      <4> QED
        BY ONLY <4>1
    <3>5. \A j \in 2..(L + 1) : used[list[j].key] < cache_calls + 1
      <4> SUFFICES ASSUME NEW j \in 2..(L + 1) PROVE used[list[j].key] < cache_calls + 1
        OBVIOUS
      <4> DEFINE t == touched[items[j - 1].key]
      <4>1. used[list[j].key] = t /\ t <= cache_calls /\ t \in Nat /\ cache_calls \in Nat
        BY <1>2, <1>7
      <4> QED
        BY ONLY <4>1
    <3> QED
      BY <3>2, <3>3, <3>4, <3>5
  <2>2. CASE i \in 2..(L + 1)
    <3>1. list[i] = items[i - 1] /\ i - 1 \in 1..L
      BY <1>4, <2>2
    <3>2. /\ items[i - 1].value = last_put[items[i - 1].key]
          /\ \A j \in 1..L : i - 1 < j => touched[items[j].key] < touched[items[i - 1].key]
          /\ \A k \in evicted : touched[k] < touched[items[i - 1].key]
      BY <1>1, <3>1 DEF InOrderOfUse, L
    <3>3. list[i].value = put[list[i].key]
      BY <1>2, <1>3, <3>1, <3>2
    <3>4. \A j \in 1..(L + 1) : i < j => used[list[j].key] < used[list[i].key]
      <4> SUFFICES ASSUME NEW j \in 1..(L + 1), i < j PROVE used[list[j].key] < used[list[i].key]
        OBVIOUS
      <4>1. j \in 2..(L + 1) /\ j - 1 \in 1..L /\ i - 1 < j - 1
        BY <1>1, <2>2
      <4> QED
        BY <1>7, <2>2, <3>2, <4>1
    <3>5. \A k \in evicted \ {key} : used[k] < used[list[i].key]
      BY <1>6, <1>7, <2>2, <3>2
    <3> QED
      BY <3>3, <3>4, <3>5
  <2>3. i = 1 \/ i \in 2..(L + 1)
    BY <1>1
  <2> QED
    BY <2>1, <2>2, <2>3
<1>9. InOrderOfUse(list, used, put, evicted \ {key})
  BY <1>4, <1>8 DEF InOrderOfUse
<1> QED
  BY <1>4, <1>5, <1>9 DEF HasNewInFront, L

\* Without its last item a list is still in the order of use, also before that item.
LEMMA LastDropped ==
  ASSUME NEW list \in Seq(CacheItem), Len(list) > 0, NEW used \in [CacheKeys -> Nat], NEW put,
         NEW gone, InOrderOfUse(list, used, put, gone)
  PROVE  /\ Front(list) \in Seq(CacheItem) /\ Len(Front(list)) = Len(list) - 1
         /\ KeysIn(Front(list)) = KeysIn(list) \ {Last(list).key}
         /\ InOrderOfUse(Front(list), used, put, gone \cup {Last(list).key})
<1> DEFINE L == Len(list)
           front == Front(list)
<1>1. L \in Nat /\ L > 0 /\ \A i \in 1..L : list[i] \in CacheItem
  BY ElementOfSeq
<1>3. /\ front \in Seq(CacheItem) /\ Len(front) = L - 1
      /\ \A i \in 1..(L - 1) : front[i] = list[i]
  <2>1. 1 \in Int /\ L - 1 \in Int /\ \A i \in 1..(L - 1) : list[i] \in CacheItem
    BY <1>1
  <2>2. front = SubSeq(list, 1, L - 1)
    BY DEF Front
  <2> HIDE DEF front, L
  <2>3. /\ front \in Seq(CacheItem)
        /\ Len(front) = IF 1 <= L - 1 THEN (L - 1) - 1 + 1 ELSE 0
        /\ \A i \in 1..((L - 1) - 1 + 1) : front[i] = list[1 + i - 1]
    BY ONLY <2>1, <2>2, SubSeqProperties
  <2> QED
    BY <1>1, <2>3
<1>4. Last(list) = list[L]
  BY DEF Last
<1> HIDE DEF L, front
<1>5. \A i \in 1..(L - 1) : i \in 1..L /\ i < L
  BY <1>1
<1>6. L \in 1..L /\ \A i \in 1..L : i = L \/ i \in 1..(L - 1)
  BY <1>1
<1>7. \A i \in 1..(L - 1) : used[list[L].key] < used[list[i].key]
  BY <1>5, <1>6 DEF InOrderOfUse, L
<1>8. \A i \in 1..(L - 1) : list[i].key # list[L].key
  <2>1. \A i \in 1..L : used[list[i].key] \in Nat
    BY <1>1 DEF CacheItem
  <2> QED
    BY <1>6, <1>7, <2>1
<1>9. KeysIn(front) = KeysIn(list) \ {Last(list).key}
  <2>1. KeysIn(front) = {list[i].key : i \in 1..(L - 1)}
    <3>1. KeysIn(front) = {front[i].key : i \in 1..(L - 1)}
      BY <1>3 DEF KeysIn
    <3> QED
      BY <1>3, <3>1
  <2>2. KeysIn(list) = {list[i].key : i \in 1..L}
    BY DEF KeysIn, L
  <2> QED
    BY <1>4, <1>5, <1>6, <1>8, <2>1, <2>2
<1>10. InOrderOfUse(front, used, put, gone \cup {Last(list).key})
  BY <1>3, <1>4, <1>5, <1>7 DEF InOrderOfUse, L
<1> QED
  BY <1>3, <1>9, <1>10 DEF front, L

LEMMA CacheGetKeeps ==
  ASSUME LruIInv, NEW key \in CacheKeys, CacheGet(key)
  PROVE  LruIInv'
<1>1. /\ cache_calls' = cache_calls + 1 /\ lookups' = lookups + 1
      /\ UNCHANGED <<capacity, index, last_put, evicted>>
  BY DEF CacheGet, CacheCall
<1>2. /\ LruTypes /\ cache_calls \in Nat /\ hits <= lookups /\ hits \in Nat /\ lookups \in Nat
      /\ \A k \in CacheKeys : touched[k] \in Nat /\ touched[k] <= cache_calls
  BY DEF LruIInv, LruTypes
<1>3. CASE key \in index
  <2> DEFINE x == items[PlaceOf(key)]
  <2>1. /\ hits' = hits + 1 /\ touched' = [touched EXCEPT ![key] = cache_calls + 1]
        /\ items' = <<x>> \o Others(key)
    BY <1>1, <1>3 DEF CacheGet, Touch
  <2>2. /\ PlaceOf(key) \in 1..Len(items) /\ x.key = key /\ items \in Seq(CacheItem)
    BY <1>2, <1>3, OthersAre DEF LruTypes
  <2>3. x \in CacheItem /\ x.value = last_put[key]
    BY <2>2, ElementOfSeq DEF LruIInv, InOrderOfUse
  <2> HIDE DEF x
  <2>4. last_put = [last_put EXCEPT ![key] = x.value]
    BY <1>2, <2>3 DEF LruTypes
  <2>5. /\ items' \in Seq(CacheItem) /\ Len(items') = Len(items) /\ KeysIn(items') = index
        /\ InOrderOfUse(items', touched', last_put, evicted)
    BY <1>3, <2>1, <2>2, <2>3, <2>4, PutInFront
  <2>6. /\ touched' \in [CacheKeys -> Nat]
        /\ \A k \in CacheKeys : touched'[k] <= cache_calls + 1
    BY <1>2, <2>1 DEF LruTypes
  <2>7. LruTypes'
    BY <1>1, <1>2, <2>1, <2>5, <2>6 DEF LruTypes, CacheItem
  <2>8. hits' <= lookups'
    BY <1>1, <1>2, <2>1
  <2> QED
    BY <1>1, <2>5, <2>6, <2>7, <2>8 DEF LruIInv, KeysIn, InOrderOfUse
<1>4. CASE key \notin index
  <2>1. UNCHANGED <<hits, items, touched>>
    BY <1>4 DEF CacheGet
  <2>2. LruTypes'
    BY <1>1, <1>2, <2>1 DEF LruTypes, CacheItem
  <2>3. hits' <= lookups' /\ \A k \in CacheKeys : touched'[k] <= cache_calls'
    BY <1>1, <1>2, <2>1
  <2> QED
    BY <1>1, <2>1, <2>2, <2>3 DEF LruIInv, KeysIn, InOrderOfUse
<1> QED
  BY <1>3, <1>4

LEMMA CachePutKeeps ==
  ASSUME LruIInv, NEW key \in CacheKeys, CachePut(key)
  PROVE  LruIInv'
<1> DEFINE x == [key |-> key, value |-> cache_calls + 1]
           used == [touched EXCEPT ![key] = cache_calls + 1]
           put == [last_put EXCEPT ![key] = cache_calls + 1]
<1>1. cache_calls' = cache_calls + 1 /\ UNCHANGED <<capacity, hits, lookups>>
  BY DEF CachePut, CacheCall
<1>2. /\ LruTypes /\ cache_calls \in Nat /\ Len(items) <= capacity /\ capacity \in Nat
      /\ evicted \subseteq CacheKeys /\ index \subseteq CacheKeys
      /\ \A k \in CacheKeys : touched[k] \in Nat /\ touched[k] <= cache_calls
      /\ \A k \in CacheKeys : last_put[k] \in Nat
      /\ \A k \in CacheKeys : last_put[k] # 0 <=> k \in index \cup evicted
      /\ hits <= lookups /\ (evicted # {} => capacity > 0)
  BY DEF LruIInv, LruTypes
<1>3. capacity' \in Nat /\ hits' \in Nat /\ lookups' \in Nat /\ cache_calls' \in Nat
  BY <1>1, <1>2 DEF LruTypes
<1>4. KeysIn(items) = index
  BY DEF LruIInv
<1>5. x \in CacheItem /\ x.key = key /\ x.value = cache_calls + 1
  BY <1>2 DEF CacheItem
<1>6. /\ used \in [CacheKeys -> Nat] /\ \A k \in CacheKeys : used[k] <= cache_calls + 1
      /\ put \in [CacheKeys -> Nat]
      /\ \A k \in CacheKeys : put[k] # 0 <=> k = key \/ k \in index \cup evicted
  BY <1>2 DEF LruTypes
<1>7. used = [touched EXCEPT ![key] = cache_calls + 1] /\ put = [last_put EXCEPT ![key] = x.value]
  BY <1>5
<1>8. CASE key \in index
  <2>1. /\ items' = <<x>> \o Others(key) /\ touched' = used /\ last_put' = put
        /\ UNCHANGED <<index, evicted>>
    BY <1>1, <1>8 DEF CachePut, Touch, Updated
  <2> HIDE DEF x, used, put
  <2>2. /\ items' \in Seq(CacheItem) /\ Len(items') = Len(items) /\ KeysIn(items') = index
        /\ InOrderOfUse(items', used, put, evicted)
    BY <1>5, <1>7, <1>8, <2>1, PutInFront
  <2>3. LruTypes'
    <3>1. items' \in Seq([key : CacheKeys, value : Nat])
      BY <2>2 DEF CacheItem
    <3>2. touched' \in [CacheKeys -> Nat] /\ last_put' \in [CacheKeys -> Nat]
      BY <1>6, <2>1
    <3>3. index' \subseteq CacheKeys /\ evicted' \subseteq CacheKeys
      BY <1>2, <2>1
    <3> QED
      BY <1>1, <1>3, <3>1, <3>2, <3>3 DEF LruTypes, CacheItem
  <2>4. \A k \in CacheKeys : last_put'[k] # 0 <=> k \in index' \cup evicted'
    BY <1>6, <1>8, <2>1
  <2>5. \A k \in CacheKeys : touched'[k] <= cache_calls'
    BY <1>1, <1>6, <2>1
  <2>6. InOrderOfUse(items, touched, last_put, evicted)'
    BY <2>1, <2>2 DEF InOrderOfUse
  <2>7. KeysIn(items)' = index'
    BY <1>4, <2>1, <2>2 DEF KeysIn
  <2>8. Len(items') <= capacity' /\ (evicted' # {} => capacity' > 0) /\ hits' <= lookups'
    BY <1>1, <1>2, <2>1, <2>2
  <2> QED
    BY <2>3, <2>4, <2>5, <2>6, <2>7, <2>8 DEF LruIInv
<1>9. CASE key \notin index /\ capacity = 0
  <2>1. UNCHANGED <<items, index, last_put, touched, evicted>>
    BY <1>9 DEF CachePut
  <2>2. LruTypes'
    BY <1>1, <1>2, <2>1 DEF LruTypes, CacheItem
  <2>3. \A k \in CacheKeys : touched'[k] <= cache_calls'
    BY <1>1, <1>2, <2>1
  <2> QED
    BY <1>1, <2>1, <2>2, <2>3 DEF LruIInv, KeysIn, InOrderOfUse
<1>10. CASE key \notin index /\ capacity # 0
  <2> DEFINE longer == <<x>> \o items
             full == Len(longer) > capacity
             oldest == IF full THEN {Last(longer).key} ELSE {}
  <2>1. /\ items' = IF full THEN Front(longer) ELSE longer
        /\ index' = (index \cup {key}) \ oldest
        /\ last_put' = put /\ touched' = used
        /\ evicted' = (evicted \cup oldest) \ {key}
    BY <1>1, <1>10 DEF CachePut, Touch
  <2> HIDE DEF x, used, put
  <2>2. /\ longer \in Seq(CacheItem) /\ Len(longer) = Len(items) + 1
        /\ KeysIn(longer) = index \cup {key} /\ longer[1] = x
        /\ InOrderOfUse(longer, used, put, evicted \ {key})
    <3>1. key \notin index /\ longer = <<x>> \o items
      BY <1>10
    <3> HIDE DEF longer
    <3>2. HasNewInFront(longer, x, used, put)
      BY ONLY LruIInv, key \in CacheKeys, <1>5, <1>7, <3>1, NewInFront
    <3> QED
      BY <1>5, <3>2 DEF HasNewInFront
  <2>3. Len(items) \in Nat /\ Len(longer) > 0
    <3>1. Len(items) \in Nat
      BY <1>2, LenProperties DEF LruTypes
    <3> QED
      BY <2>2, <3>1
  <2> HIDE DEF longer
  <2>4. CASE full
    <3>1. /\ Front(longer) \in Seq(CacheItem) /\ Len(Front(longer)) = Len(items)
          /\ KeysIn(Front(longer)) = (index \cup {key}) \ {Last(longer).key}
          /\ InOrderOfUse(Front(longer), used, put, (evicted \ {key}) \cup {Last(longer).key})
      <4>1. /\ Front(longer) \in Seq(CacheItem) /\ Len(Front(longer)) = Len(longer) - 1
            /\ KeysIn(Front(longer)) = KeysIn(longer) \ {Last(longer).key}
            /\ InOrderOfUse(Front(longer), used, put, (evicted \ {key}) \cup {Last(longer).key})
        BY <1>6, <2>2, <2>3, LastDropped
      <4>2. Len(longer) - 1 = Len(items)
        BY <2>2, <2>3
      <4> QED
        BY <2>2, <4>1, <4>2
    <3>2. Last(longer).key \in index /\ Last(longer).key # key
      <4>1. Len(longer) >= 2 /\ Last(longer) = longer[Len(longer)]
        BY <1>2, <1>10, <2>2, <2>3, <2>4 DEF Last
      <4>2. used[longer[Len(longer)].key] < used[longer[1].key]
        BY <2>2, <2>3, <4>1 DEF InOrderOfUse
      <4>3. longer[Len(longer)].key \in KeysIn(longer)
        BY <2>3, <4>1 DEF KeysIn
      <4>4. used[key] \in Nat /\ longer[1].key = key
        BY <1>5, <1>6, <2>2
      <4> QED
        BY <2>2, <4>1, <4>2, <4>3, <4>4
    <3>3. /\ oldest = {Last(longer).key}
          /\ evicted' = (evicted \ {key}) \cup {Last(longer).key}
          /\ index' = (index \cup {key}) \ {Last(longer).key}
          /\ items' = Front(longer)
      BY <2>1, <2>4, <3>2
    <3>4. evicted' \subseteq CacheKeys /\ index' \subseteq CacheKeys
      BY <1>2, <3>2, <3>3
    <3>5. LruTypes'
      <4>1. items' \in Seq([key : CacheKeys, value : Nat])
        BY <3>1, <3>3 DEF CacheItem
      <4>2. touched' \in [CacheKeys -> Nat] /\ last_put' \in [CacheKeys -> Nat]
        BY <1>6, <2>1
      <4>3. index' \subseteq CacheKeys /\ evicted' \subseteq CacheKeys
        BY <3>4
      <4> QED
        BY <1>3, <4>1, <4>2, <4>3 DEF LruTypes, CacheItem
    <3>6. \A k \in CacheKeys : put[k] # 0 <=> k \in index' \cup evicted'
      BY <1>6, <3>2, <3>3
    <3>7. capacity > 0 /\ Len(items') <= capacity
      BY <1>2, <1>10, <3>1, <3>3
    <3>8. \A k \in CacheKeys : touched'[k] <= cache_calls'
      BY <1>1, <1>6, <2>1
    <3>9. InOrderOfUse(items, touched, last_put, evicted)'
      BY <2>1, <3>1, <3>3 DEF InOrderOfUse
    <3>10. KeysIn(items)' = index'
      BY <3>1, <3>3 DEF KeysIn
    <3>11. \A k \in CacheKeys : last_put'[k] # 0 <=> k \in index' \cup evicted'
      BY <2>1, <3>6
    <3>12. Len(items') <= capacity' /\ capacity' > 0 /\ hits' <= lookups'
      BY <1>1, <1>2, <3>7
    <3> QED
      BY <3>5, <3>8, <3>9, <3>10, <3>11, <3>12 DEF LruIInv
  <2>5. CASE ~full
    <3>1. oldest = {} /\ items' = longer /\ index' = index \cup {key} /\ evicted' = evicted \ {key}
      BY <2>1, <2>5
    <3>2. LruTypes'
      <4>1. items' \in Seq([key : CacheKeys, value : Nat])
        BY <2>2, <3>1 DEF CacheItem
      <4>2. touched' \in [CacheKeys -> Nat] /\ last_put' \in [CacheKeys -> Nat]
        BY <1>6, <2>1
      <4>3. index' \subseteq CacheKeys /\ evicted' \subseteq CacheKeys
        BY <1>2, <3>1
      <4> QED
        BY <1>3, <4>1, <4>2, <4>3 DEF LruTypes, CacheItem
    <3>3. \A k \in CacheKeys : put[k] # 0 <=> k \in index' \cup evicted'
      BY <1>6, <3>1
    <3>4. capacity > 0 /\ Len(items') <= capacity
      BY <1>2, <1>10, <2>2, <2>3, <2>5, <3>1
    <3>5. \A k \in CacheKeys : touched'[k] <= cache_calls'
      BY <1>1, <1>6, <2>1
    <3>6. InOrderOfUse(items, touched, last_put, evicted)'
      BY <2>1, <2>2, <3>1 DEF InOrderOfUse
    <3>7. KeysIn(items)' = index'
      BY <2>2, <3>1 DEF KeysIn
    <3>8. \A k \in CacheKeys : last_put'[k] # 0 <=> k \in index' \cup evicted'
      BY <2>1, <3>3
    <3>9. Len(items') <= capacity' /\ capacity' > 0 /\ hits' <= lookups'
      BY <1>1, <1>2, <3>4
    <3> QED
      BY <3>2, <3>5, <3>6, <3>7, <3>8, <3>9 DEF LruIInv
  <2> QED
    BY <2>4, <2>5
<1> QED
  BY <1>8, <1>9, <1>10

LEMMA CacheEraseKeeps ==
  ASSUME LruIInv, NEW key \in CacheKeys, CacheErase(key)
  PROVE  LruIInv'
<1> DEFINE p == PlaceOf(key)
           L == Len(items)
           old(i) == IF i < p THEN i ELSE i + 1
<1>1. /\ key \in index /\ cache_calls' = cache_calls + 1
      /\ items' = Others(key) /\ index' = index \ {key}
      /\ last_put' = [last_put EXCEPT ![key] = 0]
      /\ UNCHANGED <<capacity, hits, lookups, touched, evicted>>
  BY DEF CacheErase, CacheCall
<1>2. /\ items' \in Seq(CacheItem) /\ Len(items') = L - 1
      /\ p \in 1..L /\ items[p].key = key
      /\ \A i \in 1..L : items[i].key = key => i = p
      /\ \A i \in 1..(L - 1) : items'[i] = items[old(i)]
  BY <1>1, OthersAre
<1>3. /\ L \in Nat /\ L <= capacity /\ capacity \in Nat /\ cache_calls \in Nat
      /\ LruTypes /\ InOrderOfUse(items, touched, last_put, evicted) /\ index = KeysIn(items)
      /\ \A i \in 1..L : items[i] \in CacheItem
      /\ \A k \in CacheKeys : touched[k] \in Nat /\ touched[k] <= cache_calls
  BY ElementOfSeq DEF LruIInv, LruTypes
<1> HIDE DEF p, L
<1>4. \A i \in 1..(L - 1) : /\ old(i) \in 1..L /\ old(i) # p
                            /\ \A j \in 1..(L - 1) : i < j => old(i) < old(j)
  BY <1>2, <1>3
<1>5. \A i \in 1..(L - 1) : items[old(i)].key # key /\ items[old(i)].key \in CacheKeys
  BY <1>2, <1>3, <1>4 DEF CacheItem
<1>6. last_put'[key] = 0 /\ \A k \in CacheKeys : k # key => last_put'[k] = last_put[k]
  BY <1>1, <1>3 DEF LruTypes
<1>7. KeysIn(items') = index \ {key}
  <2>1. ASSUME NEW i \in 1..(L - 1) PROVE items'[i].key \in index \ {key}
    BY <1>2, <1>3, <1>4, <1>5 DEF KeysIn, L
  <2>2. ASSUME NEW i \in 1..L, i # p PROVE items[i].key \in KeysIn(items')
    <3>1. CASE i < p
      <4>1. i \in 1..(L - 1) /\ old(i) = i
        BY <1>2, <1>3, <3>1
      <4> QED
        BY <1>2, <4>1 DEF KeysIn
    <3>2. CASE i > p
      <4>1. i - 1 \in 1..(L - 1) /\ old(i - 1) = i
        BY <1>2, <1>3, <3>2
      <4> QED
        BY <1>2, <4>1 DEF KeysIn
    <3> QED
      BY <1>2, <1>3, <2>2, <3>1, <3>2
  <2>3. KeysIn(items') = {items'[i].key : i \in 1..(L - 1)}
    BY <1>2 DEF KeysIn
  <2>4. index = {items[i].key : i \in 1..L}
    BY <1>3 DEF KeysIn, L
  <2>5. index \ {key} \subseteq KeysIn(items')
    BY <1>2, <2>2, <2>4
  <2> QED
    BY <2>1, <2>3, <2>5
<1>8. InOrderOfUse(items', touched, last_put', evicted)
  <2> SUFFICES ASSUME NEW i \in 1..(L - 1)
               PROVE  /\ items'[i].value = last_put'[items'[i].key]
                      /\ \A j \in 1..(L - 1) : i < j => touched[items'[j].key] < touched[items'[i].key]
                      /\ \A k \in evicted : touched[k] < touched[items'[i].key]
    BY <1>2 DEF InOrderOfUse
  <2>1. /\ items[old(i)].value = last_put[items[old(i)].key]
        /\ \A j \in 1..L : old(i) < j => touched[items[j].key] < touched[items[old(i)].key]
        /\ \A k \in evicted : touched[k] < touched[items[old(i)].key]
    BY <1>3, <1>4 DEF InOrderOfUse, L
  <2>2. items'[i] = items[old(i)] /\ last_put'[items[old(i)].key] = last_put[items[old(i)].key]
    BY <1>2, <1>5, <1>6
  <2>3. ASSUME NEW j \in 1..(L - 1), i < j PROVE touched[items'[j].key] < touched[items'[i].key]
    <3>1. old(j) \in 1..L /\ old(i) < old(j) /\ items'[j] = items[old(j)]
      BY <1>2, <1>4, <2>3
    <3> QED
      BY <2>1, <2>2, <3>1
  <2> QED
    BY <2>1, <2>2, <2>3
<1>9. \A k \in CacheKeys : last_put'[k] # 0 <=> k \in index' \cup evicted'
  <2>1. key \notin evicted
    <3>1. \A k \in evicted : touched[k] < touched[items[p].key]
      BY <1>2, <1>3 DEF InOrderOfUse, L
    <3> QED
      BY <1>2, <1>3, <3>1 DEF LruTypes
  <2>2. \A k \in CacheKeys : last_put[k] # 0 <=> k \in index \cup evicted
    BY DEF LruIInv
  <2> QED
    BY <1>1, <1>6, <2>1, <2>2
<1>10. LruTypes'
  <2>1. last_put' \in [CacheKeys -> Nat]
    BY <1>1, <1>3 DEF LruTypes
  <2> QED
    BY <1>1, <1>2, <1>3, <2>1 DEF LruTypes, CacheItem
<1>11. Len(items') <= capacity' /\ \A k \in CacheKeys : touched'[k] <= cache_calls'
  BY <1>1, <1>2, <1>3
<1> QED
  BY <1>1, <1>7, <1>8, <1>9, <1>10, <1>11 DEF LruIInv, KeysIn, InOrderOfUse

LEMMA CacheClearKeeps ==
  ASSUME LruIInv, NEW clear_stats \in BOOLEAN, CacheClear(clear_stats)
  PROVE  LruIInv'
<1>1. /\ cache_calls' = cache_calls + 1 /\ items' = <<>> /\ index' = {} /\ evicted' = {}
      /\ last_put' = [k \in CacheKeys |-> 0]
      /\ hits' = (IF clear_stats THEN 0 ELSE hits)
      /\ lookups' = (IF clear_stats THEN 0 ELSE lookups)
      /\ UNCHANGED <<capacity, touched>>
  BY DEF CacheClear, CacheCall
<1>2. /\ LruTypes /\ hits <= lookups /\ capacity \in Nat /\ cache_calls \in Nat
      /\ \A k \in CacheKeys : touched[k] \in Nat /\ touched[k] <= cache_calls
  BY DEF LruIInv, LruTypes
<1>3. items' \in Seq(CacheItem) /\ Len(items') = 0
  BY <1>1
<1>4. hits' \in Nat /\ lookups' \in Nat /\ hits' <= lookups'
  BY <1>1, <1>2 DEF LruTypes
<1>5. LruTypes'
  BY <1>1, <1>2, <1>3, <1>4 DEF LruTypes, CacheItem
<1>6. KeysIn(items') = {} /\ InOrderOfUse(items', touched', last_put', evicted')
  BY <1>3 DEF KeysIn, InOrderOfUse
<1>7. \A k \in CacheKeys : touched'[k] <= cache_calls' /\ last_put'[k] = 0
  BY <1>1, <1>2
<1> QED
  BY <1>1, <1>2, <1>3, <1>4, <1>5, <1>6, <1>7 DEF LruIInv, KeysIn, InOrderOfUse

LEMMA LruBegins == HelpersInit => LruIInv
<1> SUFFICES ASSUME HelpersInit PROVE LruIInv
  OBVIOUS
<1>1. /\ items = <<>> /\ index = {} /\ hits = 0 /\ lookups = 0 /\ evicted = {} /\ cache_calls = 0
      /\ last_put = [k \in CacheKeys |-> 0] /\ touched = [k \in CacheKeys |-> 0]
  BY DEF HelpersInit
<1>2. capacity \in Nat
  BY HelpersAssumption DEF HelpersInit
<1>3. items \in Seq(CacheItem) /\ Len(items) = 0
  BY <1>1
<1>4. LruTypes
  BY <1>1, <1>2, <1>3 DEF LruTypes
<1>5. KeysIn(items) = {} /\ InOrderOfUse(items, touched, last_put, evicted)
  BY <1>3 DEF KeysIn, InOrderOfUse
<1> QED
  BY <1>1, <1>2, <1>3, <1>4, <1>5 DEF LruIInv

LEMMA LruStays == LruIInv /\ [HelpersNext]_helperVars => LruIInv'
<1> SUFFICES ASSUME LruIInv, [HelpersNext]_helperVars PROVE LruIInv'
  OBVIOUS
<1>1. CASE LruNext
  BY <1>1, CacheGetKeeps, CachePutKeeps, CacheEraseKeeps, CacheClearKeeps DEF LruNext
<1>2. CASE UNCHANGED lruVars
  BY <1>2 DEF lruVars, LruIInv, LruTypes, KeysIn, InOrderOfUse, CacheItem
<1>3. LruNext \/ UNCHANGED lruVars
  BY DEF HelpersNext, helperVars
<1> QED
  BY <1>1, <1>2, <1>3

\* For any keys, capacity and calls: list and index of the cache agree and fit, what is
\* found is what was put last, and whatever made room was used before all that is kept.
THEOREM CacheKept == HelpersSpec => []LruInv
<1>1. ASSUME LruIInv PROVE LruInv
  <2> DEFINE f == [i \in 1..Len(items) |-> items[i].key]
  <2>1. /\ LruTypes /\ items \in Seq(CacheItem) /\ Len(items) \in Nat
        /\ DOMAIN items = 1..Len(items) /\ index = KeysIn(items)
        /\ InOrderOfUse(items, touched, last_put, evicted)
    BY <1>1, LenProperties DEF LruIInv, LruTypes
  <2>2. f \in Bijection(1..Len(items), index)
    <3>1. \A i, j \in 1..Len(items) : f[i] = f[j] => i = j
      BY <2>1, UsedOnce
    <3>2. f \in [1..Len(items) -> index] /\ \A k \in index : \E i \in 1..Len(items) : f[i] = k
      BY <2>1 DEF KeysIn
    <3> HIDE DEF f
    <3> QED
      BY <3>1, <3>2 DEF Bijection, Injection, Surjection, IsInjective
  <2>3. Cardinality(index) = Len(items)
    BY <2>1, <2>2, FS_NatBijection, FS_CountingElements DEF ExistsBijection
  <2>4. {k \in CacheKeys : last_put[k] # 0} = index \cup evicted
    BY <1>1, <2>1 DEF LruIInv, LruTypes
  <2>5. \A i \in DOMAIN items :
          /\ items[i].value = last_put[items[i].key]
          /\ \A j \in DOMAIN items : i < j => touched[items[j].key] < touched[items[i].key]
          /\ \A k \in evicted : touched[k] < touched[items[i].key]
    BY <2>1 DEF InOrderOfUse
  <2> QED
    BY <1>1, <2>1, <2>3, <2>4, <2>5 DEF LruIInv, LruInv, KeysIn
<1> QED
  BY <1>1, LruBegins, LruStays, PTL DEF HelpersSpec
-----------------------------------------------------------------------------
(***************************************************************************)
(* Proofs about polling without a deadline, whatever the pauses are.       *)
(***************************************************************************)

\* Where the polling stands says how many attempts were made and told of.
PollIInv ==
  ~by_deadline =>
    /\ told_of \in Seq([index : Nat, ok : BOOLEAN]) /\ try_index \in Nat
    /\ \A i \in 1..Len(told_of) : told_of[i].index = i - 1
    /\ \A i \in 1..Len(told_of) :
         told_of[i].ok <=> (i = Len(told_of) /\ poll_at = "true")
    /\ Len(told_of) = IF poll_at = "attempt" \/ PollTries = 0 THEN try_index ELSE try_index + 1
    /\ poll_at \in {"attempt", "pause", "true", "false"}
    /\ poll_at = "attempt" => try_index < PollTries \/ (PollTries = 0 /\ try_index = 0)
    /\ poll_at = "pause" => try_index + 1 < PollTries
    /\ poll_at = "true" => try_index < PollTries
    /\ poll_at = "false" => Len(told_of) = PollTries /\ try_index <= PollTries

LEMMA AttemptKeeps ==
  ASSUME PollIInv, Attempt
  PROVE  PollIInv'
<1> SUFFICES ASSUME ~by_deadline PROVE PollIInv'
  BY DEF Attempt, PollIInv
<1>1. PICK ok \in BOOLEAN :
        /\ told_of' = Append(told_of, [index |-> try_index, ok |-> ok])
        /\ \/ ok /\ poll_at' = "true"
           \/ ~ok /\ try_index + 1 >= PollTries /\ poll_at' = "false"
           \/ ~ok /\ ~(try_index + 1 >= PollTries) /\ poll_at' = "pause"
  BY DEF Attempt
<1>2. /\ poll_at = "attempt" /\ try_index < PollTries
      /\ try_index' = try_index /\ by_deadline' = by_deadline
  BY DEF Attempt
<1> DEFINE L == Len(told_of)
           Told == [index : Nat, ok : BOOLEAN]
           x == [index |-> try_index, ok |-> ok]
<1>3. /\ told_of \in Seq(Told) /\ try_index \in Nat /\ PollTries \in Nat
      /\ \A i \in 1..L : told_of[i].index = i - 1 /\ ~told_of[i].ok
      /\ L = try_index /\ L \in Nat
  BY <1>2, HelpersAssumption DEF PollIInv
<1>4. x \in Told /\ x.index = L /\ (x.ok <=> ok)
  BY <1>3
<1>5. /\ told_of' \in Seq(Told) /\ Len(told_of') = L + 1
      /\ \A i \in 1..L : told_of'[i] = told_of[i]
      /\ told_of'[L + 1] = x
  BY <1>1, <1>3, <1>4, AppendProperties
<1> HIDE DEF L, x
<1>6. ASSUME NEW i \in 1..(L + 1)
      PROVE  /\ told_of'[i].index = i - 1
             /\ told_of'[i].ok <=> (i = L + 1 /\ poll_at' = "true")
  <2>1. CASE i = L + 1
    BY <1>1, <1>3, <1>4, <1>5, <2>1
  <2>2. CASE i \in 1..L
    <3>1. told_of'[i] = told_of[i] /\ told_of[i].index = i - 1 /\ ~told_of[i].ok
      BY <1>3, <1>5, <2>2
    <3>2. i # L + 1
      BY <1>3, <2>2
    <3> QED
      BY ONLY <3>1, <3>2
  <2>3. i = L + 1 \/ i \in 1..L
    BY <1>3
  <2> QED
    BY <2>1, <2>2, <2>3
<1>7. /\ PollTries # 0 /\ poll_at' \in {"true", "false", "pause"}
      /\ poll_at' = "pause" => try_index + 1 < PollTries
      /\ poll_at' = "false" => L + 1 = PollTries
  BY <1>1, <1>2, <1>3
<1> QED
  BY <1>2, <1>3, <1>5, <1>6, <1>7 DEF PollIInv

LEMMA PollStays == PollIInv /\ [HelpersNext]_helperVars => PollIInv'
<1> SUFFICES ASSUME PollIInv, [HelpersNext]_helperVars PROVE PollIInv'
  OBVIOUS
<1>1. CASE Attempt
  BY <1>1, AttemptKeeps
<1>2. CASE Pause
  BY <1>2, HelpersAssumption DEF Pause, PollIInv
<1>3. CASE NoAttempts
  BY <1>3, HelpersAssumption DEF NoAttempts, PollIInv
<1>4. CASE UNCHANGED pollVars
  BY <1>4 DEF pollVars, PollIInv
<1> QED
  BY <1>1, <1>2, <1>3, <1>4 DEF HelpersNext, PollNext, helperVars

\* For any pauses and number of tries: each attempt is told of once and in order, a
\* success is the last, and the polling is given up after the tries, not before.
THEOREM AttemptsTold == HelpersSpec => []ToldInv
<1>1. HelpersInit => PollIInv
  BY HelpersAssumption DEF HelpersInit, PollIInv
<1>2. ASSUME PollIInv PROVE ToldInv
  <2> SUFFICES ASSUME ~by_deadline PROVE ToldInv
    BY DEF ToldInv
  <2>1. DOMAIN told_of = 1..Len(told_of)
    BY <1>2, LenProperties DEF PollIInv
  <2>2. try_index <= PollTries
    BY <1>2, HelpersAssumption DEF PollIInv
  <2> QED
    BY <1>2, <2>1, <2>2 DEF PollIInv, ToldInv
<1> QED
  BY <1>1, <1>2, PollStays, PTL DEF HelpersSpec
=============================================================================
