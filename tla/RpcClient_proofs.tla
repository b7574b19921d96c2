-------------------------- MODULE RpcClient_proofs ---------------------------
(***************************************************************************)
(* Proofs about calls that are on their way at the same time: on the       *)
(* shared connection of Pipeline, in the executor of asynchronous calls    *)
(* (AsyncExecutor), in the retry loops of ClientCalls and on the endpoints *)
(* of LoadBalancer; about the way of a single one, from its request to its *)
(* verdict (RpcEnvelope); and about settings that threads change           *)
(* (Configuring).  None of the six knows of another: at the end they are   *)
(* put together as RpcClient does it, all but Pipeline.                    *)
(***************************************************************************)
EXTENDS RpcClient, Pipeline, Counting, SequenceTheorems, TLAPS

-----------------------------------------------------------------------------
(***************************************************************************)
(* Proofs about the shared connection of Pipeline, for any calls, sessions,*)
(* slots and ids: every call gets its own answer whatever breaks meanwhile,*)
(* a call that waits is in a table, in the reader's hand or about to be    *)
(* woken, tables hold no call that has gone, and slots are exact and never *)
(* lost.  The server returns the ids of the requests (EchoesId); of one    *)
(* that does not, whose calls share the anonymous waiter, they say nothing.*)
(*                                                                         *)
(* The argument has two halves.  The steps of calls touch a session only   *)
(* to enter their own id, to take it out or to have the session replaced;  *)
(* the steps of sessions leave the calls where they are.  Between them     *)
(* stands SessionInv: an id is in at most one place at a time, and an id   *)
(* that nobody has sent is in none.                                        *)
(***************************************************************************)

\* Whatever the parts of session k have of the call with the id i.
Known(k, i) ==
  \/ i \in inflight[k] \/ i \in wake[k] \/ anon[k] = i
  \/ hand[k] # None /\ hand[k].to = i

\* An id that no session has seen yet: not handed out, or not registered.
Unseen(i) == i >= next_id \/ \E c \in Sharers : at[c] = "register" /\ id[c] = i

\* Ids are handed out once.
OwnId ==
  /\ \A c \in Sharers : id[c] < next_id
  /\ \A c, d \in Sharers : id[c] = id[d] /\ id[c] # 0 => c = d

\* A call has an id and a session from the moment it picks them until it is over.
HasSession ==
  \A c \in Sharers :
    /\ at[c] \in {"register", "send", "wait"} => id[c] \in Ids /\ held[c] \in Sessions
    /\ at[c] = "release" /\ answer[c] = "ok" => id[c] \in Ids

\* An id that no call has yet sent with is known nowhere.
UnseenUnknown ==
  \A i \in Ids : Unseen(i) => got[i] = None /\ \A k \in Sessions : ~Known(k, i)

\* An id in a table is in no other place: nothing has come for it yet.
Pending ==
  \A k \in Sessions : \A i \in inflight[k] :
    /\ got[i] = None
    /\ \A j \in Sessions :
         /\ i \notin wake[j] /\ (hand[j] # None => hand[j].to # i)
         /\ j # k => i \notin inflight[j] /\ anon[j] # i

\* The reader hands a call its own response, and that is what it finds.
HandRight == \A k \in Sessions : hand[k] # None => hand[k].to = hand[k].payload
GotRight == \A i \in Ids : got[i] \in {i, None, Broken}

\* A broken session has an empty table and nothing in the reader's hand.
BrokenIsBare == \A k \in broken : inflight[k] = {} /\ hand[k] = None

\* A call with nothing to read yet is in the table, in the reader's hand, or
\* about to be woken.
Watched ==
  \A c \in Sharers :
    at[c] \in {"send", "wait"} /\ got[id[c]] = None =>
      \/ id[c] \in inflight[held[c]] \/ id[c] \in wake[held[c]]
      \/ hand[held[c]] # None /\ hand[held[c]].to = id[c]

\* A call that is on its way to fail has failed.
FailedIsFailed == \A c \in Sharers : at[c] = "fail" => answer[c] = "failed"
\* Only calls that want a slot sleep for one.
SleepersWant == \A c \in queued : at[c] = "slot"

\* The calls that hold a slot.
InSlots == Cardinality(InGroup(Sharers, at, Slotted))

\* The slots that are taken are those of the calls that hold one.
SlotsCounted == taken = InSlots /\ taken <= Limit

\* The inductive invariant: types, slots, ids, tables, and answers.
PipeIInv ==
  /\ PipelineTypeOK /\ SlotsCounted /\ SleepersWant /\ NoLostPipeSlot
  /\ OwnId /\ HasSession
  /\ UnseenUnknown /\ Pending /\ HandRight /\ GotRight /\ BrokenIsBare
  /\ Watched /\ TableClean /\ FailedIsFailed /\ OwnAnswer

USE PipelineAssumption DEF PipelineAssumption

\* A step of a call, and one of a session's reader, its breaking or its death.
CallStep(c) == BeginPipelined(c) \/ PipelinedCall(c) \/ SlotDeadline(c) \/ AwaitTimeout(c)
SessionStep(k) == ReaderStep(k) \/ (InService(k) /\ Break(k)) \/ PeerDies(k)

\* A step of one call leaves the others where they are.
LEMMA OneCallMoves ==
  ASSUME PipelineTypeOK, NEW c \in Sharers, CallStep(c)
  PROVE  \A x \in Sharers : x # c =>
           at'[x] = at[x] /\ held'[x] = held[x] /\ id'[x] = id[x] /\ answer'[x] = answer[x]
BY DEF PipelineTypeOK, CallStep, PipelinedCall, BeginPipelined, Setup, RebuildOk, RebuildFails,
   AcquireSlot, SleepForSlot, SlotDeadline, Pick, Register, Send, SendFails, Await, AwaitTimeout,
   Fail, ReleaseSlot, Move, Answer, pipeCallVars

\* What the steps of a call do to slots, sleepers and places.
LEMMA CallMovesSlots ==
  ASSUME PipelineTypeOK, SleepersWant, NEW c \in Sharers, CallStep(c)
  PROVE  /\ taken' = taken + (IF at'[c] \in Slotted THEN 1 ELSE 0)
                          - (IF at[c] \in Slotted THEN 1 ELSE 0)
         /\ taken' > taken => taken < Limit
         /\ queued' \subseteq Sharers
         /\ \A x \in queued' : at'[x] = "slot"
<1>t. /\ taken \in Nat /\ queued \subseteq Sharers
      /\ \A p : [at EXCEPT ![c] = p][c] = p
      /\ \A x \in Sharers : x # c => at'[x] = at[x]
  BY OneCallMoves DEF PipelineTypeOK
<1> USE DEF SleepersWant, Slotted, Move
<1>1. CASE BeginPipelined(c) \/ Setup(c)
  <2>1. CASE BeginPipelined(c)
    BY <1>t, <2>1 DEF BeginPipelined, channelVars
  <2>2. CASE Setup(c)
    <3>1. /\ at[c] = "setup" /\ taken' = taken /\ queued' = queued
          /\ at' = [at EXCEPT ![c] = "rebuild"] \/ at' = [at EXCEPT ![c] = "slot"]
      BY <2>2 DEF Setup
    <3>2. at'[c] \in {"rebuild", "slot"}
      BY <1>t, <3>1
    <3>3. \A x \in queued : at'[x] = "slot"
      BY <1>t, <3>1, <3>2
    <3> QED
      BY <1>t, <3>1, <3>2, <3>3
  <2> QED
    BY <1>1, <2>1, <2>2
<1>2. CASE RebuildOk(c) \/ RebuildFails(c)
  <2>1. at[c] = "rebuild" /\ taken' = taken /\ at'[c] \in {"slot", "ready"}
    BY <1>t, <1>2 DEF RebuildOk, RebuildFails
  <2>2. queued' \subseteq queued
    BY <1>2 DEF RebuildOk, RebuildFails
  <2> QED
    BY <1>t, <2>1, <2>2
<1>3. CASE AcquireSlot(c) \/ SleepForSlot(c)
  <2>1. CASE AcquireSlot(c)
    BY <1>t, <2>1 DEF AcquireSlot
  <2>2. CASE SleepForSlot(c)
    BY <1>t, <2>2 DEF SleepForSlot, pipeCallVars
  <2> QED
    BY <1>3, <2>1, <2>2
<1>4. CASE SlotDeadline(c)
  <2>1. at[c] = "slot" /\ queued' = queued \ {c}
    BY <1>4 DEF SlotDeadline
  <2>2. \/ taken < Limit /\ taken' = taken + 1 /\ at'[c] = "pick"
        \/ taken' = taken /\ at'[c] = "ready"
    BY <1>t, <1>4 DEF SlotDeadline
  <2> QED
    BY <1>t, <2>1, <2>2
<1>5. CASE Pick(c) \/ Register(c)
  BY <1>t, <1>5 DEF Pick, Register, channelVars
<1>6. CASE Send(c) \/ SendFails(c)
  <2>1. CASE Send(c)
    BY <1>t, <2>1 DEF Send, channelVars
  <2>2. CASE SendFails(c)
    BY <1>t, <2>2 DEF SendFails, channelVars
  <2> QED
    BY <1>6, <2>1, <2>2
<1>7. CASE Await(c) \/ AwaitTimeout(c)
  BY <1>t, <1>7 DEF Await, AwaitTimeout, channelVars
<1>8. CASE Fail(c)
  BY <1>t, <1>8 DEF Fail
<1>9. CASE ReleaseSlot(c)
  <2>1. /\ at[c] = "release" /\ at'[c] = "ready" /\ taken' = taken - 1
        /\ queued' \subseteq queued
    BY <1>t, <1>9 DEF ReleaseSlot
  <2> QED
    BY <1>t, <2>1
<1> QED
  BY <1>1, <1>2, <1>3, <1>4, <1>5, <1>6, <1>7, <1>8, <1>9 DEF CallStep, PipelinedCall

\* What the step of one call does to the number of calls with a slot ...
LEMMA SlotMove ==
  ASSUME NEW c \in Sharers, \A x \in Sharers : x # c => at'[x] = at[x]
  PROVE  InSlots' = InSlots + (IF at'[c] \in Slotted THEN 1 ELSE 0)
                            - (IF at[c] \in Slotted THEN 1 ELSE 0)
<1>1. InSlots \in Nat
  <2>1. InGroup(Sharers, at, Slotted) \in SUBSET Sharers
    BY DEF InGroup
  <2> QED
    BY <2>1, FS_Subset, FS_CardinalityType DEF InSlots
<1>2. CASE at'[c] \in Slotted /\ at[c] \notin Slotted
  <2>1. InSlots' = InSlots + 1
    BY <1>2, GroupEnter DEF InSlots
  <2> QED
    BY <1>1, <1>2, <2>1
<1>3. CASE at'[c] \notin Slotted /\ at[c] \in Slotted
  <2>1. InSlots' = InSlots - 1
    BY <1>3, GroupLeave DEF InSlots
  <2> QED
    BY <1>1, <1>3, <2>1
<1>4. CASE at'[c] \in Slotted <=> at[c] \in Slotted
  <2>1. InSlots' = InSlots
    BY <1>4, GroupSame DEF InSlots
  <2> QED
    BY <1>1, <1>4, <2>1
<1> QED
  BY <1>2, <1>3, <1>4

\* ... and so the number taken stays that of the calls with a slot.
LEMMA SlotsStep ==
  ASSUME PipelineTypeOK, SlotsCounted, SleepersWant, NEW c \in Sharers, CallStep(c)
  PROVE  SlotsCounted' /\ SleepersWant' /\ taken' \in Nat
<1>1. /\ taken' = taken + (IF at'[c] \in Slotted THEN 1 ELSE 0)
                        - (IF at[c] \in Slotted THEN 1 ELSE 0)
      /\ taken' > taken => taken < Limit
  BY CallMovesSlots
<1>2. InSlots' = InSlots + (IF at'[c] \in Slotted THEN 1 ELSE 0)
                         - (IF at[c] \in Slotted THEN 1 ELSE 0)
  <2>1. \A x \in Sharers : x # c => at'[x] = at[x]
    BY OneCallMoves
  <2> QED
    BY <2>1, SlotMove
<1>3. InSlots' \in Nat
  <2>1. InGroup(Sharers, at', Slotted) \in SUBSET Sharers
    BY DEF InGroup
  <2> QED
    BY <2>1, FS_Subset, FS_CardinalityType DEF InSlots
<1>4. taken \in Nat /\ Limit \in Nat /\ taken = InSlots /\ taken <= Limit
  BY DEF PipelineTypeOK, SlotsCounted
<1>5. SlotsCounted' /\ taken' \in Nat
  BY <1>1, <1>2, <1>3, <1>4 DEF SlotsCounted
<1> QED
  BY <1>5, CallMovesSlots DEF SleepersWant

\* The calls in acquire_slot() that are awake.
Wanting == {c \in Sharers : at[c] = "slot"} \ queued

\* Who takes a slot is no longer awake in front of one, and who gives one back
\* wakes a sleeper.
LEMMA CallWakes ==
  ASSUME PipelineTypeOK, SleepersWant, NEW c \in Sharers, CallStep(c)
  PROVE  \/ queued' = {} \/ taken' >= Limit
         \/ queued # {} /\ taken' >= taken /\ Wanting \subseteq Wanting'
         \/ queued # {} /\ taken' = taken + 1 /\ Wanting \ {c} \subseteq Wanting'
         \/ /\ queued # {} /\ taken' = taken - 1
            /\ \E d \in Sharers : d \notin Wanting /\ Wanting \cup {d} \subseteq Wanting'
<1>t. /\ taken \in Nat /\ queued \subseteq Sharers
      /\ \A p : [at EXCEPT ![c] = p][c] = p
      /\ \A x \in Sharers : x # c => at'[x] = at[x]
  BY OneCallMoves DEF PipelineTypeOK
<1>1. ASSUME taken' = taken, queued' = queued, at[c] # "slot"
      PROVE  queued' = {} \/ (queued # {} /\ taken' >= taken /\ Wanting \subseteq Wanting')
  BY <1>t, <1>1 DEF Wanting
<1>2. CASE BeginPipelined(c) \/ Setup(c)
  BY <1>1, <1>2 DEF BeginPipelined, Setup, channelVars
<1>3. CASE RebuildOk(c)
  BY <1>1, <1>3 DEF RebuildOk
<1>4. CASE RebuildFails(c) \/ Fail(c)
  BY <1>4 DEF RebuildFails, Fail
<1>5. CASE AcquireSlot(c)
  BY <1>t, <1>5 DEF AcquireSlot, Wanting
<1>6. CASE SleepForSlot(c)
  BY <1>6 DEF SleepForSlot
<1>7. CASE SlotDeadline(c)
  BY <1>t, <1>7 DEF SlotDeadline, Wanting
<1>8. CASE Pick(c) \/ Register(c)
  BY <1>1, <1>8 DEF Pick, Register, channelVars
<1>9. CASE Send(c) \/ SendFails(c)
  BY <1>1, <1>9 DEF Send, SendFails, channelVars
<1>10. CASE Await(c) \/ AwaitTimeout(c)
  BY <1>1, <1>10 DEF Await, AwaitTimeout, channelVars
<1>11. CASE ReleaseSlot(c)
  <2>1. CASE queued = {}
    BY <1>11, <2>1 DEF ReleaseSlot
  <2>2. CASE queued # {}
    <3>1. PICK d \in queued : queued' = queued \ {d}
      BY <1>11, <2>2 DEF ReleaseSlot
    <3>2. at[c] = "release" /\ taken' = taken - 1
      BY <1>11 DEF ReleaseSlot
    <3>3. d # c /\ at[d] = "slot" /\ d \in Sharers
      BY <1>t, <3>1, <3>2 DEF SleepersWant
    <3>4. d \notin Wanting /\ Wanting \cup {d} \subseteq Wanting'
      BY <1>t, <3>1, <3>2, <3>3 DEF Wanting
    <3> QED
      BY <2>2, <3>2, <3>3, <3>4
  <2> QED
    BY <2>1, <2>2
<1> QED
  BY <1>2, <1>3, <1>4, <1>5, <1>6, <1>7, <1>8, <1>9, <1>10, <1>11 DEF CallStep, PipelinedCall

\* A slot that is given back is offered to a call that wants it.
LEMMA PipeSlotStep ==
  ASSUME PipelineTypeOK, SlotsCounted, SleepersWant, NoLostPipeSlot, NEW c \in Sharers, CallStep(c)
  PROVE  NoLostPipeSlot'
<1>1. /\ taken \in Nat /\ taken' \in Nat /\ Limit \in Nat
      /\ IsFiniteSet(Wanting) /\ IsFiniteSet(Wanting')
  <2>1. Wanting \in SUBSET Sharers /\ Wanting' \in SUBSET Sharers
    BY DEF Wanting
  <2> QED
    BY <2>1, SlotsStep, FS_Subset DEF PipelineTypeOK
<1>2. Cardinality(Wanting) \in Nat /\ Cardinality(Wanting') \in Nat
  BY <1>1, FS_CardinalityType
<1>3. queued # {} => Limit - taken <= Cardinality(Wanting)
  BY DEF NoLostPipeSlot, Wanting
<1>4. queued' # {} => Limit - taken' <= Cardinality(Wanting')
  <2>1. CASE queued' = {} \/ taken' >= Limit
    BY <1>1, <1>2, <2>1
  <2>2. CASE queued # {} /\ taken' >= taken /\ Wanting \subseteq Wanting'
    BY <1>1, <1>2, <1>3, <2>2, SubsetKept
  <2>3. CASE queued # {} /\ taken' = taken + 1 /\ Wanting \ {c} \subseteq Wanting'
    <3>1. Cardinality(Wanting) - 1 <= Cardinality(Wanting')
      BY <1>1, <2>3, SubsetLost
    <3> QED
      BY <1>1, <1>2, <1>3, <2>3, <3>1
  <2>4. ASSUME queued # {}, taken' = taken - 1, NEW d \in Sharers, d \notin Wanting,
               Wanting \cup {d} \subseteq Wanting'
        PROVE  Limit - taken' <= Cardinality(Wanting')
    <3>1. Cardinality(Wanting) + 1 <= Cardinality(Wanting')
      BY <1>1, <2>4, SubsetGained
    <3> QED
      BY <1>1, <1>2, <1>3, <2>4, <3>1
  <2> QED
    BY <2>1, <2>2, <2>3, <2>4, CallWakes
<1> QED
  BY <1>4 DEF NoLostPipeSlot, Wanting

-----------------------------------------------------------------------------
\* What the steps of a call do to its own place, id and connection.
LEMMA CallPath ==
  ASSUME PipelineTypeOK, NEW c \in Sharers, CallStep(c)
  PROVE  \/ /\ at[c] = "pick" /\ at'[c] = "register"
            /\ id'[c] = next_id /\ next_id' = next_id + 1 /\ next_id <= MaxId
            /\ held'[c] = current /\ current \in Sessions
         \/ /\ next_id' = next_id /\ id'[c] = 0 /\ at'[c] = "setup"
         \/ /\ next_id' = next_id /\ id'[c] = id[c] /\ at'[c] # "register"
            /\ at'[c] = "send" => at[c] = "register" /\ held'[c] = held[c] /\ answer'[c] = answer[c]
            /\ at'[c] = "wait" => at[c] = "send" /\ held'[c] = held[c] /\ answer'[c] = answer[c]
            /\ at'[c] = "fail" => answer'[c] = "failed"
            /\ at'[c] = "release" =>
                 \/ answer'[c] \in {"failed", "timeout"}
                 \/ at[c] = "fail" /\ answer'[c] = answer[c]
                 \/ at[c] = "wait" /\ got'[id[c]] = got[id[c]] /\ got[id[c]] \notin {None, Broken}
<1>t. /\ \A p : [at EXCEPT ![c] = p][c] = p
      /\ \A r : [answer EXCEPT ![c] = r][c] = r
      /\ \A k : [held EXCEPT ![c] = k][c] = k
      /\ \A i : [id EXCEPT ![c] = i][c] = i
  BY DEF PipelineTypeOK
<1> USE DEF Move, Answer
<1>1. CASE BeginPipelined(c) \/ Setup(c)
  BY <1>t, <1>1 DEF BeginPipelined, Setup
<1>2. CASE RebuildOk(c) \/ RebuildFails(c)
  BY <1>t, <1>2 DEF RebuildOk, RebuildFails
<1>3. CASE AcquireSlot(c) \/ SlotDeadline(c) \/ Fail(c) \/ ReleaseSlot(c)
  BY <1>t, <1>3 DEF AcquireSlot, SlotDeadline, Fail, ReleaseSlot
<1>4. CASE SleepForSlot(c)
  BY <1>4 DEF SleepForSlot, pipeCallVars
<1>5. CASE Pick(c)
  <2>1. CASE current = None
    BY <1>t, <1>5, <2>1 DEF Pick
  <2>2. CASE current # None
    <3>1. current \in Sessions
      BY <2>2 DEF PipelineTypeOK
    <3> QED
      BY <1>t, <1>5, <2>2, <3>1 DEF Pick
  <2> QED
    BY <2>1, <2>2
<1>6. CASE Register(c) \/ Send(c) \/ SendFails(c)
  <2>1. CASE Register(c)
    BY <1>t, <2>1 DEF Register
  <2>2. CASE Send(c)
    BY <1>t, <2>2 DEF Send
  <2>3. CASE SendFails(c)
    BY <1>t, <2>3 DEF SendFails
  <2> QED
    BY <1>6, <2>1, <2>2, <2>3
<1>7. CASE Await(c) \/ AwaitTimeout(c)
  <2>1. CASE Await(c)
    BY <1>t, <2>1 DEF Await, sessionVars
  <2>2. CASE AwaitTimeout(c)
    BY <1>t, <2>2 DEF AwaitTimeout, sessionVars
  <2> QED
    BY <1>7, <2>1, <2>2
<1> QED
  BY <1>1, <1>2, <1>3, <1>4, <1>5, <1>6, <1>7 DEF CallStep, PipelinedCall

\* Which steps of a call change a session.
LEMMA CallTouches ==
  ASSUME NEW c \in Sharers, CallStep(c)
  PROVE  \/ UNCHANGED sessionVars /\ UNCHANGED got
         \/ RebuildOk(c) \/ Register(c) \/ SendFails(c) \/ AwaitTimeout(c)
BY DEF CallStep, PipelinedCall, BeginPipelined, Setup, RebuildFails, AcquireSlot, SleepForSlot,
   SlotDeadline, Pick, Send, Await, Fail, ReleaseSlot, sessionVars

\* No call changes what the reader has in hand or has already delivered.
LEMMA CallLeaves ==
  ASSUME NEW c \in Sharers, CallStep(c)
  PROVE  UNCHANGED <<hand, wake, got>>
BY CallTouches DEF RebuildOk, Register, SendFails, AwaitTimeout, sessionVars

\* Calls keep ids of their own, and know their session while they have one.
LEMMA OwnIdStep ==
  ASSUME PipelineTypeOK, OwnId, HasSession, FailedIsFailed, NEW c \in Sharers, CallStep(c)
  PROVE  OwnId' /\ HasSession' /\ FailedIsFailed'
<1>1. /\ \A x \in Sharers : id[x] \in 0..MaxId /\ id[x] < next_id
      /\ next_id \in 1..MaxId + 1
  BY DEF PipelineTypeOK, OwnId
<1>2. OwnId'
  BY <1>1, OneCallMoves, CallPath DEF OwnId
<1>3. HasSession'
  <2>1. ASSUME NEW x \in Sharers, x # c
        PROVE  /\ at'[x] \in {"register", "send", "wait"} => id'[x] \in Ids /\ held'[x] \in Sessions
               /\ at'[x] = "release" /\ answer'[x] = "ok" => id'[x] \in Ids
    BY <2>1, OneCallMoves DEF HasSession
  <2>2. at'[c] \in {"register", "send", "wait"} => id'[c] \in Ids /\ held'[c] \in Sessions
    BY <1>1, CallPath DEF HasSession, Ids
  <2>3. at'[c] = "release" /\ answer'[c] = "ok" => id'[c] \in Ids
    BY CallPath DEF HasSession, FailedIsFailed
  <2> QED
    BY <2>1, <2>2, <2>3 DEF HasSession
<1>4. FailedIsFailed'
  BY OneCallMoves, CallPath DEF FailedIsFailed
<1> QED
  BY <1>2, <1>3, <1>4

\* An id that is unseen after a step was unseen before it.
LEMMA UnseenShrinks ==
  ASSUME PipelineTypeOK, OwnId, NEW c \in Sharers, CallStep(c), NEW i \in Ids, Unseen(i)'
  PROVE  Unseen(i)
<1>1. next_id \in Nat /\ i \in Nat
  BY DEF PipelineTypeOK, Ids
<1>2. next_id' \in {next_id, next_id + 1}
  BY <1>1, CallPath
<1>3. CASE i >= next_id'
  BY <1>1, <1>2, <1>3 DEF Unseen
<1>4. CASE \E d \in Sharers : at'[d] = "register" /\ id'[d] = i
  <2>1. PICK d \in Sharers : at'[d] = "register" /\ id'[d] = i
    BY <1>4
  <2>2. CASE d # c
    BY <2>1, <2>2, OneCallMoves DEF Unseen
  <2>3. CASE d = c
    <3>1. id'[c] = next_id
      BY <2>1, <2>3, CallPath
    <3> QED
      BY <1>1, <2>1, <2>3, <3>1 DEF Unseen
  <2> QED
    BY <2>2, <2>3
<1> QED
  BY <1>3, <1>4 DEF Unseen

-----------------------------------------------------------------------------
\* What holds between ids and the tables, the wake lists and the readers' hands.
SessionInv == UnseenUnknown /\ Pending /\ HandRight /\ GotRight /\ BrokenIsBare

\* Dropping entries from the tables, or the mark of a session with an empty
\* table, keeps the sessions in order.
LEMMA ShrinkKeeps ==
  ASSUME PipelineTypeOK, SessionInv, UNCHANGED <<hand, wake, got>>, broken' \subseteq broken,
         \A i \in Ids : Unseen(i)' => Unseen(i),
         \A k \in Sessions : inflight'[k] \subseteq inflight[k] /\ anon'[k] \in {anon[k], None}
  PROVE  SessionInv'
<1>1. \A i \in Ids : i # None
  BY DEF Ids
<1>2. \A k \in Sessions : inflight[k] \subseteq Ids
  BY DEF PipelineTypeOK
<1>3. \A k \in Sessions, i \in Ids : Known(k, i)' => Known(k, i)
  BY <1>1 DEF Known
<1>4. UnseenUnknown'
  BY <1>3 DEF SessionInv, UnseenUnknown
<1>5. Pending'
  <2> SUFFICES ASSUME NEW k \in Sessions, NEW i \in inflight'[k], NEW j \in Sessions
               PROVE  /\ got'[i] = None
                      /\ i \notin wake'[j] /\ (hand'[j] # None => hand'[j].to # i)
                      /\ j # k => i \notin inflight'[j] /\ anon'[j] # i
    BY DEF Pending
  <2>1. i \in inflight[k] /\ i # None
    BY <1>1, <1>2
  <2>2. /\ got[i] = None
        /\ i \notin wake[j] /\ (hand[j] # None => hand[j].to # i)
        /\ j # k => i \notin inflight[j] /\ anon[j] # i
    BY <2>1 DEF SessionInv, Pending
  <2> QED
    BY <2>1, <2>2
<1>6. HandRight' /\ GotRight'
  BY DEF SessionInv, HandRight, GotRight
<1>7. BrokenIsBare'
  BY DEF SessionInv, BrokenIsBare, PipelineTypeOK
<1> QED
  BY <1>4, <1>5, <1>6, <1>7 DEF SessionInv

\* A call enters the table of its session.
Enters(c) ==
  /\ at[c] = "register" /\ at'[c] = "send" /\ held[c] \notin broken
  /\ \A k \in Sessions :
       /\ inflight'[k] = IF k = held[c] THEN inflight[k] \cup {id[c]} ELSE inflight[k]
       /\ anon'[k] = IF k = held[c] THEN id[c] ELSE anon[k]

\* A call leaves the table of its session, and gives up waiting.
Leaves(c) ==
  /\ at[c] \in {"send", "wait"} /\ at'[c] \in {"fail", "release"}
  /\ \A k \in Sessions :
       /\ inflight'[k] = IF k = held[c] THEN inflight[k] \ {id[c]} ELSE inflight[k]
       /\ anon'[k] \in {anon[k], None}

\* A session that no call has any more is put to use again.
Renewed(k) ==
  /\ \A x \in Sharers : held[x] # k
  /\ hand[k] = None /\ wake[k] = {}
  /\ \A j \in Sessions :
       /\ inflight'[j] = IF j = k THEN {} ELSE inflight[j]
       /\ anon'[j] = IF j = k THEN None ELSE anon[j]

\* A step of a call leaves the tables alone, enters its id, takes its id out, or
\* gives it a session that is new.
LEMMA CallTables ==
  ASSUME PipelineTypeOK, HasSession, NEW c \in Sharers, CallStep(c)
  PROVE  \/ UNCHANGED <<inflight, anon, broken>>
         \/ UNCHANGED broken /\ (Enters(c) \/ Leaves(c))
         \/ \E k \in Sessions : at[c] = "rebuild" /\ Renewed(k) /\ broken' \subseteq broken
<1>t. \A p : [at EXCEPT ![c] = p][c] = p
  BY DEF PipelineTypeOK
<1> USE DEF Move
<1>1. CASE RebuildOk(c)
  <2>1. PICK k \in Sessions :
          /\ Unused(k)
          /\ inflight' = [inflight EXCEPT ![k] = {}]
          /\ anon' = [anon EXCEPT ![k] = None]
          /\ broken' = broken \ {k}
    BY <1>1 DEF RebuildOk
  <2>2. Renewed(k)
    BY <2>1 DEF Renewed, Unused, PipelineTypeOK
  <2> QED
    BY <1>1, <2>1, <2>2 DEF RebuildOk
<1>2. CASE Register(c)
  <2>1. CASE held[c] \in broken
    BY <1>2, <2>1 DEF Register
  <2>2. CASE held[c] \notin broken
    <3>1. Enters(c)
      BY <1>t, <1>2, <2>2 DEF Enters, Register, PipelineTypeOK
    <3> QED
      BY <1>2, <3>1 DEF Register
  <2> QED
    BY <2>1, <2>2
<1>3. CASE SendFails(c)
  <2>1. Leaves(c)
    BY <1>t, <1>3 DEF Leaves, SendFails, Unregister, PipelineTypeOK
  <2> QED
    BY <1>3, <2>1 DEF SendFails
<1>4. CASE AwaitTimeout(c)
  <2>1. Leaves(c)
    BY <1>t, <1>4 DEF Leaves, AwaitTimeout, Unregister, PipelineTypeOK
  <2> QED
    BY <1>4, <2>1 DEF AwaitTimeout
<1> QED
  BY <1>1, <1>2, <1>3, <1>4, CallTouches DEF sessionVars

\* An id that enters a table is in no other place.
LEMMA EnterKeeps ==
  ASSUME PipelineTypeOK, OwnId, HasSession, SessionInv,
         NEW c \in Sharers, CallStep(c), Enters(c), UNCHANGED broken
  PROVE  SessionInv'
<1> USE DEF Enters
<1>1. id[c] \in Ids /\ held[c] \in Sessions
  BY DEF HasSession
<1>2. Unseen(id[c])
  BY DEF Unseen
<1>3. got[id[c]] = None /\ \A k \in Sessions : ~Known(k, id[c])
  BY <1>1, <1>2 DEF SessionInv, UnseenUnknown
<1>4. UNCHANGED <<hand, wake, got>>
  BY CallLeaves
<1>5. \A i \in Ids : Unseen(i)' => Unseen(i) /\ i # id[c]
  <2>1. next_id' = next_id /\ id' [c] = id[c] /\ id[c] < next_id /\ id[c] # 0
    BY <1>1, CallPath DEF OwnId, Ids
  <2>2. \A d \in Sharers : at'[d] = "register" => id'[d] # id[c]
    BY <2>1, OneCallMoves DEF OwnId
  <2>3. next_id \in Int /\ id[c] \in Int
    BY DEF PipelineTypeOK
  <2> QED
    BY <2>1, <2>2, <2>3, UnseenShrinks DEF Unseen
<1>g. \A k \in Sessions : inflight'[k] \subseteq inflight[k] \cup {id[c]} /\ anon'[k] \in {anon[k], id[c]}
  OBVIOUS
<1>6. ASSUME NEW k \in Sessions, NEW i \in Ids, Known(k, i)', i # id[c]
      PROVE  Known(k, i)
  <2>1. i \in inflight'[k] => i \in inflight[k]
    BY <1>g, <1>6
  <2>2. anon'[k] = i => anon[k] = i
    BY <1>g, <1>6
  <2> QED
    BY <1>4, <1>6, <2>1, <2>2 DEF Known
<1>7. UnseenUnknown'
  BY <1>4, <1>5, <1>6 DEF SessionInv, UnseenUnknown
<1>8. Pending'
  <2> SUFFICES ASSUME NEW k \in Sessions, NEW i \in inflight'[k], NEW j \in Sessions
               PROVE  /\ got'[i] = None
                      /\ i \notin wake'[j] /\ (hand'[j] # None => hand'[j].to # i)
                      /\ j # k => i \notin inflight'[j] /\ anon'[j] # i
    BY DEF Pending
  <2>1. CASE i = id[c]
    <3>1. k = held[c]
      BY <1>3, <2>1 DEF Known
    <3> QED
      BY <1>3, <1>4, <2>1, <3>1 DEF Known
  <2>2. CASE i # id[c]
    <3>1. i \in inflight[k]
      BY <1>g, <2>2
    <3>2. /\ got[i] = None
          /\ i \notin wake[j] /\ (hand[j] # None => hand[j].to # i)
          /\ j # k => i \notin inflight[j] /\ anon[j] # i
      BY <3>1 DEF SessionInv, Pending
    <3>3. i \notin wake'[j] /\ (hand'[j] # None => hand'[j].to # i) /\ got'[i] = None
      BY <1>4, <3>2
    <3>4. j # k => i \notin inflight'[j] /\ anon'[j] # i
      BY <1>g, <2>2, <3>2
    <3> QED
      BY <3>3, <3>4
  <2> QED
    BY <2>1, <2>2
<1>9. HandRight' /\ GotRight'
  BY <1>4 DEF SessionInv, HandRight, GotRight
<1>10. BrokenIsBare'
  BY <1>4 DEF SessionInv, BrokenIsBare, PipelineTypeOK
<1> QED
  BY <1>7, <1>8, <1>9, <1>10 DEF SessionInv

\* Steps of calls keep what holds of the sessions.
LEMMA CallKeepsSessions ==
  ASSUME PipelineTypeOK, OwnId, HasSession, SessionInv, NEW c \in Sharers, CallStep(c)
  PROVE  SessionInv'
<1>1. CASE Enters(c) /\ UNCHANGED broken
  BY <1>1, EnterKeeps
<1>2. ASSUME broken' \subseteq broken,
             \A k \in Sessions : inflight'[k] \subseteq inflight[k] /\ anon'[k] \in {anon[k], None}
      PROVE  SessionInv'
  <2>1. \A i \in Ids : Unseen(i)' => Unseen(i)
    BY UnseenShrinks
  <2> QED
    BY <1>2, <2>1, CallLeaves, ShrinkKeeps
<1>3. CASE UNCHANGED broken /\ Leaves(c)
  BY <1>2, <1>3 DEF Leaves
<1>4. CASE \E k \in Sessions : Renewed(k) /\ broken' \subseteq broken
  BY <1>2, <1>4 DEF Renewed
<1>5. CASE UNCHANGED <<inflight, anon, broken>>
  BY <1>2, <1>5
<1> QED
  BY <1>1, <1>3, <1>4, <1>5, CallTables

-----------------------------------------------------------------------------
\* A step of a call keeps the calls and the tables together.
LEMMA CallWatched ==
  ASSUME PipelineTypeOK, SleepersWant, OwnId, HasSession, Watched, NEW c \in Sharers, CallStep(c)
  PROVE  Watched'
<1> SUFFICES ASSUME NEW d \in Sharers, at'[d] \in {"send", "wait"}, got'[id'[d]] = None
             PROVE  \/ id'[d] \in inflight'[held'[d]] \/ id'[d] \in wake'[held'[d]]
                    \/ hand'[held'[d]] # None /\ hand'[held'[d]].to = id'[d]
  BY DEF Watched
<1>1. /\ id'[d] = id[d] /\ held'[d] = held[d]
      /\ at[d] \in {"send", "wait"} \/ (d = c /\ at[c] = "register" /\ at'[c] = "send")
  <2>1. at'[c] \in {"send", "wait"} =>
          /\ id'[c] = id[c] /\ held'[c] = held[c]
          /\ at[c] \in {"send", "wait"} \/ (at[c] = "register" /\ at'[c] = "send")
    BY CallPath
  <2>2. d # c => at'[d] = at[d] /\ held'[d] = held[d] /\ id'[d] = id[d]
    BY OneCallMoves
  <2> QED
    BY <2>1, <2>2
<1>2. id[d] \in Ids /\ held[d] \in Sessions /\ 0 \notin Ids
  BY <1>1 DEF HasSession, Ids
<1>3. UNCHANGED <<hand, wake, got>>
  BY CallLeaves
<1>4. ASSUME at[d] \in {"send", "wait"}, id[d] \in inflight[held[d]] => id[d] \in inflight'[held[d]]
      PROVE  \/ id'[d] \in inflight'[held'[d]] \/ id'[d] \in wake'[held'[d]]
             \/ hand'[held'[d]] # None /\ hand'[held'[d]].to = id'[d]
  BY <1>1, <1>3, <1>4 DEF Watched
<1>5. CASE Enters(c)
  <2>0. \A k \in Sessions : inflight'[k] = IF k = held[c] THEN inflight[k] \cup {id[c]} ELSE inflight[k]
    BY <1>5 DEF Enters
  <2>1. CASE at[d] \in {"send", "wait"}
    <3>1. id[d] \in inflight[held[d]] => id[d] \in inflight'[held[d]]
      BY <1>2, <2>0
    <3> QED
      BY <1>4, <2>1, <3>1
  <2>2. CASE d = c
    <3>1. id[d] \in inflight'[held[d]]
      BY <1>2, <2>0, <2>2
    <3> QED
      BY <1>1, <3>1
  <2> QED
    BY <1>1, <2>1, <2>2
<1>6. CASE Leaves(c)
  <2>1. d # c /\ at[d] \in {"send", "wait"}
    BY <1>1, <1>6 DEF Leaves
  <2>2. id[d] # id[c]
    BY <1>2, <2>1 DEF OwnId
  <2> QED
    BY <1>2, <1>4, <1>6, <2>1, <2>2 DEF Leaves
<1>7. CASE \E k \in Sessions : at[c] = "rebuild" /\ Renewed(k)
  BY <1>1, <1>2, <1>4, <1>7 DEF Renewed
<1>8. CASE UNCHANGED <<inflight, anon, broken>>
  <2>1. CASE at[d] \in {"send", "wait"}
    BY <1>4, <1>8, <2>1
  <2>2. CASE d = c /\ at[c] = "register" /\ at'[c] = "send"
    <3>1. Register(c)
      BY <2>2 DEF CallStep, PipelinedCall, BeginPipelined, Setup, RebuildOk, RebuildFails, AcquireSlot,
         SleepForSlot, SlotDeadline, SleepersWant, Pick, Send, SendFails, Await, AwaitTimeout, Fail,
         ReleaseSlot
    <3>2. id[c] \in inflight'[held[c]]
      BY <1>2, <2>2, <3>1 DEF Register, Move, PipelineTypeOK
    <3> QED
      BY <1>1, <2>2, <3>2
  <2> QED
    BY <1>1, <2>1, <2>2
<1> QED
  BY <1>5, <1>6, <1>7, <1>8, CallTables

\* Steps of calls leave no id in a table whose call has gone.
LEMMA CallTableClean ==
  ASSUME PipelineTypeOK, SleepersWant, HasSession, Pending, TableClean, NEW c \in Sharers, CallStep(c)
  PROVE  TableClean'
<1> SUFFICES ASSUME NEW k \in Sessions, NEW i \in inflight'[k]
             PROVE  \E d \in Sharers : id'[d] = i /\ held'[d] = k /\ at'[d] \in {"send", "wait"}
  BY DEF TableClean
<1>1. ASSUME i \in inflight[k], ~ (i = id[c] /\ k = held[c] /\ at'[c] \notin {"send", "wait"})
      PROVE  \E d \in Sharers : id'[d] = i /\ held'[d] = k /\ at'[d] \in {"send", "wait"}
  <2>1. PICK d \in Sharers : id[d] = i /\ held[d] = k /\ at[d] \in {"send", "wait"}
    BY <1>1 DEF TableClean
  <2>2. CASE d # c
    BY <2>1, <2>2, OneCallMoves
  <2>3. CASE d = c
    <3>1. at'[c] \in {"send", "wait"}
      BY <1>1, <2>1, <2>3
    <3> QED
      BY <2>1, <2>3, <3>1, CallPath
  <2> QED
    BY <2>2, <2>3
<1>2. CASE Enters(c)
  <2>1. CASE i = id[c] /\ k = held[c]
    BY <1>2, <2>1, CallPath DEF Enters
  <2>2. CASE ~ (i = id[c] /\ k = held[c])
    <3>1. i \in inflight[k]
      BY <1>2, <2>2 DEF Enters
    <3> QED
      BY <1>1, <2>2, <3>1
  <2> QED
    BY <2>1, <2>2
<1>3. CASE Leaves(c)
  BY <1>1, <1>3 DEF Leaves
<1>4. CASE \E s \in Sessions : at[c] = "rebuild" /\ Renewed(s)
  <2>1. PICK s \in Sessions : at[c] = "rebuild" /\ Renewed(s)
    BY <1>4
  <2>2. i \in inflight[k] /\ k # s
    BY <2>1 DEF Renewed
  <2>3. \E d \in Sharers : id[d] = i /\ held[d] = k /\ at[d] \in {"send", "wait"}
    BY <2>2 DEF TableClean
  <2> QED
    BY <2>1, <2>3, OneCallMoves
<1>5. CASE UNCHANGED <<inflight, anon, broken>>
  <2>1. ASSUME i = id[c], k = held[c], at[c] \in {"send", "wait"}
        PROVE  at'[c] \in {"send", "wait"}
    <3>1. got[id[c]] = None
      BY <1>5, <2>1 DEF Pending
    <3>2. CASE SendFails(c) \/ AwaitTimeout(c)
      BY <1>5, <2>1, <3>2 DEF SendFails, AwaitTimeout, Unregister, PipelineTypeOK
    <3>3. CASE Send(c) \/ SleepForSlot(c)
      BY <2>1, <3>3 DEF Send, SleepForSlot, pipeCallVars, Move, PipelineTypeOK
    <3> QED
      BY <2>1, <3>1, <3>2, <3>3 DEF CallStep, PipelinedCall, BeginPipelined, Setup, RebuildOk,
         RebuildFails, AcquireSlot, SlotDeadline, SleepersWant, Pick, Register, Await, Fail, ReleaseSlot
  <2>2. PICK d \in Sharers : id[d] = i /\ held[d] = k /\ at[d] \in {"send", "wait"}
    BY <1>5 DEF TableClean
  <2>3. CASE d # c
    BY <2>2, <2>3, OneCallMoves
  <2>4. CASE d = c
    <3>1. at'[c] \in {"send", "wait"}
      BY <2>1, <2>2, <2>4
    <3> QED
      BY <2>2, <2>4, <3>1, CallPath
  <2> QED
    BY <2>3, <2>4
<1> QED
  BY <1>2, <1>3, <1>4, <1>5, CallTables

\* A call that ends well has its own answer.
LEMMA CallOwnAnswer ==
  ASSUME PipelineTypeOK, OwnId, HasSession, GotRight, FailedIsFailed, OwnAnswer,
         NEW c \in Sharers, CallStep(c)
  PROVE  OwnAnswer'
<1> SUFFICES ASSUME NEW d \in Sharers, at'[d] = "release", answer'[d] = "ok"
             PROVE  got'[id'[d]] = id'[d]
  BY DEF OwnAnswer
<1>1. got' = got
  BY CallLeaves
<1>2. CASE d # c
  BY <1>1, <1>2, OneCallMoves DEF OwnAnswer
<1>3. CASE d = c
  <2>1. /\ at[c] = "wait" /\ id'[c] = id[c]
        /\ got[id[c]] \notin {None, Broken}
    BY <1>3, CallPath DEF FailedIsFailed
  <2>2. id[c] \in Ids
    BY <2>1 DEF HasSession
  <2> QED
    BY <1>1, <1>3, <2>1, <2>2 DEF GotRight
<1> QED
  BY <1>2, <1>3

-----------------------------------------------------------------------------
\* What a connection has of a call: its tables, the reader's hand, the response.
SessionsRight == SessionInv /\ Watched /\ TableClean /\ OwnAnswer

\* Nothing that a session does moves a call.
LEMMA SessionsLeave ==
  ASSUME NEW k \in Sessions, SessionStep(k)
  PROVE  UNCHANGED <<taken, queued, at, id, held, answer, next_id>>
BY DEF SessionStep, ReaderStep, Receive, HandOver, WakeAll, Break, PeerDies, pipeCallVars, channelVars

\* Receiving: the id leaves the table as the response comes into the reader's hand.
LEMMA ReceiveKeeps ==
  ASSUME EchoesId, PipelineTypeOK, HasSession, SessionsRight, NEW k \in Sessions, NEW i \in Ids, Receive(k, i),
         UNCHANGED <<at, id, held, answer, next_id>>
  PROVE  SessionsRight'
<1>1. /\ k \notin broken /\ hand[k] = None
      /\ UNCHANGED <<anon, broken, wake, got>>
      /\ \A j \in Sessions : j # k => inflight'[j] = inflight[j] /\ hand'[j] = hand[j]
      /\ inflight'[k] = inflight[k] \ {i}
      /\ hand'[k] = IF i \in inflight[k] THEN [to |-> i, payload |-> i] ELSE None
  <2>1. \A j \in Ids : j # None
    BY DEF Ids
  <2>2. Target(k, i) = IF i \in inflight[k] THEN i ELSE None
    BY DEF Target
  <2> QED
    BY <2>1, <2>2 DEF Receive, Reading, PipelineTypeOK
<1>2. \A j \in Sessions :
        /\ inflight'[j] \subseteq inflight[j]
        /\ hand'[j] # None => hand'[j] = hand[j]
             \/ (j = k /\ i \in inflight[k] /\ hand'[j].to = i /\ hand'[j].payload = i)
  BY <1>1
<1>3. UnseenUnknown'
  <2>1. \A j \in Sessions, n \in Ids : Known(j, n)' => Known(j, n)
    BY <1>1, <1>2 DEF Known
  <2>2. \A n \in Ids : Unseen(n)' => Unseen(n)
    BY DEF Unseen
  <2> QED
    BY <1>1, <2>1, <2>2 DEF SessionsRight, SessionInv, UnseenUnknown
<1>4. Pending'
  <2> SUFFICES ASSUME NEW s \in Sessions, NEW n \in inflight'[s], NEW j \in Sessions
               PROVE  /\ got'[n] = None
                      /\ n \notin wake'[j] /\ (hand'[j] # None => hand'[j].to # n)
                      /\ j # s => n \notin inflight'[j] /\ anon'[j] # n
    BY DEF Pending
  <2>1. n \in inflight[s] /\ inflight'[j] \subseteq inflight[j]
    BY <1>2
  <2>2. /\ got[n] = None
        /\ n \notin wake[j] /\ (hand[j] # None => hand[j].to # n)
        /\ j # s => n \notin inflight[j] /\ anon[j] # n
    BY <2>1 DEF SessionsRight, SessionInv, Pending
  <2>3. i \in inflight[k] => n # i
    <3>1. CASE s = k
      BY <1>1, <3>1
    <3>2. CASE s # k
      BY <2>1, <3>2 DEF SessionsRight, SessionInv, Pending
    <3> QED
      BY <3>1, <3>2
  <2>4. hand'[j] # None => hand'[j].to # n
    BY <1>2, <2>2, <2>3
  <2> QED
    BY <1>1, <2>1, <2>2, <2>4
<1>5. HandRight'
  BY <1>2 DEF SessionsRight, SessionInv, HandRight
<1>6. GotRight' /\ OwnAnswer'
  BY <1>1 DEF SessionsRight, SessionInv, GotRight, OwnAnswer
<1>7. BrokenIsBare'
  BY <1>1 DEF SessionsRight, SessionInv, BrokenIsBare, PipelineTypeOK
<1>8. Watched'
  <2> SUFFICES ASSUME NEW d \in Sharers, at[d] \in {"send", "wait"}, got[id[d]] = None
               PROVE  \/ id[d] \in inflight'[held[d]] \/ id[d] \in wake[held[d]]
                      \/ hand'[held[d]] # None /\ hand'[held[d]].to = id[d]
    BY <1>1 DEF Watched
  <2>1. \/ id[d] \in inflight[held[d]] \/ id[d] \in wake[held[d]]
        \/ hand[held[d]] # None /\ hand[held[d]].to = id[d]
    BY DEF SessionsRight, Watched
  <2>2. held[d] \in Sessions
    BY DEF HasSession
  <2>3. ASSUME i \in inflight[k], held[d] = k, id[d] = i
        PROVE  hand'[k] # None /\ hand'[k].to = i
    <3>1. i \in Int /\ hand'[k] = [to |-> i, payload |-> i]
      BY <1>1, <2>3 DEF Ids
    <3> QED
      BY <3>1
  <2>4. CASE held[d] = k
    BY <1>1, <2>1, <2>3, <2>4
  <2>5. CASE held[d] # k
    BY <1>1, <2>1, <2>2, <2>5
  <2> QED
    BY <2>4, <2>5
<1>9. TableClean'
  BY <1>2 DEF SessionsRight, TableClean
<1> QED
  BY <1>3, <1>4, <1>5, <1>6, <1>7, <1>8, <1>9 DEF SessionsRight, SessionInv

\* Handing over: the response reaches the call whose id it carries.
LEMMA HandOverKeeps ==
  ASSUME PipelineTypeOK, HasSession, SessionsRight, NEW k \in Sessions, HandOver(k),
         UNCHANGED <<at, id, held, answer, next_id>>
  PROVE  SessionsRight'
<1> DEFINE t == hand[k].to
<1>1. /\ hand[k] # None /\ t \in Ids /\ hand[k].payload = t
      /\ UNCHANGED <<inflight, anon, broken, wake>>
      /\ \A j \in Sessions : hand'[j] = IF j = k THEN None ELSE hand[j]
      /\ \A n \in Ids : got'[n] = IF n = t THEN t ELSE got[n]
  BY DEF HandOver, PipelineTypeOK, SessionsRight, SessionInv, HandRight
<1>2. \A n \in Ids : n # None /\ n # Broken
  BY DEF Ids, Broken
<1> HIDE DEF t
<1>3. UnseenUnknown'
  <2>1. \A j \in Sessions, n \in Ids : Known(j, n)' => Known(j, n)
    BY <1>1 DEF Known
  <2>2. \A n \in Ids : Unseen(n)' => Unseen(n)
    BY DEF Unseen
  <2>3. Known(k, t)
    BY <1>1 DEF Known, t
  <2> QED
    BY <1>1, <2>1, <2>2, <2>3 DEF SessionsRight, SessionInv, UnseenUnknown
<1>4. Pending'
  <2> SUFFICES ASSUME NEW s \in Sessions, NEW n \in inflight'[s], NEW j \in Sessions
               PROVE  /\ got'[n] = None
                      /\ n \notin wake'[j] /\ (hand'[j] # None => hand'[j].to # n)
                      /\ j # s => n \notin inflight'[j] /\ anon'[j] # n
    BY DEF Pending
  <2>1. n \in inflight[s] /\ n \in Ids
    BY <1>1 DEF PipelineTypeOK
  <2>2. /\ got[n] = None
        /\ n \notin wake[j] /\ (hand[j] # None => hand[j].to # n)
        /\ j # s => n \notin inflight[j] /\ anon[j] # n
    BY <2>1 DEF SessionsRight, SessionInv, Pending
  <2>3. n # t
    BY <1>1, <2>1 DEF SessionsRight, SessionInv, Pending, t
  <2> QED
    BY <1>1, <2>1, <2>2, <2>3
<1>5. HandRight' /\ GotRight'
  BY <1>1 DEF SessionsRight, SessionInv, HandRight, GotRight
<1>6. BrokenIsBare'
  BY <1>1 DEF SessionsRight, SessionInv, BrokenIsBare, PipelineTypeOK
<1>7. Watched'
  <2> SUFFICES ASSUME NEW d \in Sharers, at[d] \in {"send", "wait"}, got'[id[d]] = None
               PROVE  \/ id[d] \in inflight[held[d]] \/ id[d] \in wake[held[d]]
                      \/ hand'[held[d]] # None /\ hand'[held[d]].to = id[d]
    BY <1>1 DEF Watched
  <2>1. held[d] \in Sessions /\ id[d] \in Ids
    BY DEF HasSession
  <2>2. id[d] # t /\ got[id[d]] = None
    BY <1>1, <1>2, <2>1
  <2>3. \/ id[d] \in inflight[held[d]] \/ id[d] \in wake[held[d]]
        \/ hand[held[d]] # None /\ hand[held[d]].to = id[d]
    BY <2>2 DEF SessionsRight, Watched
  <2> QED
    BY <1>1, <2>1, <2>2, <2>3 DEF t
<1>8. TableClean'
  BY <1>1 DEF SessionsRight, TableClean
<1>9. OwnAnswer'
  BY <1>1 DEF HasSession, SessionsRight, OwnAnswer
<1> QED
  BY <1>3, <1>4, <1>5, <1>6, <1>7, <1>8, <1>9 DEF SessionsRight, SessionInv

\* Breaking: all that is in the table is to be woken.
LEMMA BreakKeeps ==
  ASSUME PipelineTypeOK, HasSession, SessionsRight, NEW k \in Sessions, Break(k),
         UNCHANGED <<at, id, held, answer, next_id>>
  PROVE  SessionsRight'
<1>1. /\ k \notin broken /\ hand[k] = None /\ wake[k] = {}
      /\ UNCHANGED <<hand, got>> /\ broken' = broken \cup {k}
      /\ \A j \in Sessions :
           /\ inflight'[j] = IF j = k THEN {} ELSE inflight[j]
           /\ wake'[j] = IF j = k THEN inflight[k] \cup ({anon[k]} \ {None}) ELSE wake[j]
           /\ anon'[j] = IF j = k THEN None ELSE anon[j]
  BY DEF Break, Reading, PipelineTypeOK
<1>2. \A n \in Ids : n # None
  BY DEF Ids
<1>3. UnseenUnknown'
  <2>1. \A j \in Sessions, n \in Ids : Known(j, n)' => Known(j, n)
    BY <1>1, <1>2 DEF Known
  <2>2. \A n \in Ids : Unseen(n)' => Unseen(n)
    BY DEF Unseen
  <2> QED
    BY <1>1, <2>1, <2>2 DEF SessionsRight, SessionInv, UnseenUnknown
<1>4. Pending'
  <2> SUFFICES ASSUME NEW s \in Sessions, NEW n \in inflight'[s], NEW j \in Sessions
               PROVE  /\ got'[n] = None
                      /\ n \notin wake'[j] /\ (hand'[j] # None => hand'[j].to # n)
                      /\ j # s => n \notin inflight'[j] /\ anon'[j] # n
    BY DEF Pending
  <2>1. n \in inflight[s] /\ s # k /\ n \in Ids
    BY <1>1 DEF PipelineTypeOK
  <2>2. /\ got[n] = None
        /\ n \notin wake[j] /\ (hand[j] # None => hand[j].to # n)
        /\ j # s => n \notin inflight[j] /\ anon[j] # n
    BY <2>1 DEF SessionsRight, SessionInv, Pending
  <2> QED
    BY <1>1, <1>2, <2>1, <2>2
<1>5. HandRight' /\ GotRight'
  BY <1>1 DEF SessionsRight, SessionInv, HandRight, GotRight
<1>6. BrokenIsBare'
  BY <1>1 DEF SessionsRight, SessionInv, BrokenIsBare, PipelineTypeOK
<1>7. Watched'
  <2> SUFFICES ASSUME NEW d \in Sharers, at[d] \in {"send", "wait"}, got[id[d]] = None
               PROVE  \/ id[d] \in inflight'[held[d]] \/ id[d] \in wake'[held[d]]
                      \/ hand[held[d]] # None /\ hand[held[d]].to = id[d]
    BY <1>1 DEF Watched
  <2>1. held[d] \in Sessions
    BY DEF HasSession
  <2>2. \/ id[d] \in inflight[held[d]] \/ id[d] \in wake[held[d]]
        \/ hand[held[d]] # None /\ hand[held[d]].to = id[d]
    BY DEF SessionsRight, Watched
  <2> QED
    BY <1>1, <2>1, <2>2
<1>8. TableClean'
  BY <1>1 DEF SessionsRight, TableClean
<1>9. OwnAnswer'
  BY <1>1 DEF SessionsRight, OwnAnswer
<1> QED
  BY <1>3, <1>4, <1>5, <1>6, <1>7, <1>8, <1>9 DEF SessionsRight, SessionInv

\* Waking: who has no answer learns that the session is broken.
LEMMA WakeAllKeeps ==
  ASSUME PipelineTypeOK, HasSession, SessionsRight, NEW k \in Sessions, WakeAll(k),
         UNCHANGED <<at, id, held, answer, next_id>>
  PROVE  SessionsRight'
<1>1. /\ UNCHANGED <<inflight, anon, broken, hand>>
      /\ \A j \in Sessions : wake'[j] = IF j = k THEN {} ELSE wake[j]
      /\ \A n \in Ids : got'[n] = IF n \in wake[k] /\ got[n] = None THEN Broken ELSE got[n]
  BY DEF WakeAll, PipelineTypeOK
<1>2. \A n \in Ids : n # None /\ n # Broken
  BY DEF Ids, Broken
<1>3. Broken # None
  BY DEF Broken
<1>4. UnseenUnknown'
  <2>1. \A j \in Sessions, n \in Ids : Known(j, n)' => Known(j, n)
    BY <1>1 DEF Known
  <2>2. \A n \in Ids : Unseen(n)' => Unseen(n)
    BY DEF Unseen
  <2>3. \A n \in wake[k] : Known(k, n)
    BY DEF Known
  <2> QED
    BY <1>1, <2>1, <2>2, <2>3 DEF SessionsRight, SessionInv, UnseenUnknown
<1>5. Pending'
  <2> SUFFICES ASSUME NEW s \in Sessions, NEW n \in inflight'[s], NEW j \in Sessions
               PROVE  /\ got'[n] = None
                      /\ n \notin wake'[j] /\ (hand'[j] # None => hand'[j].to # n)
                      /\ j # s => n \notin inflight'[j] /\ anon'[j] # n
    BY DEF Pending
  <2>1. n \in inflight[s] /\ n \in Ids
    BY <1>1 DEF PipelineTypeOK
  <2>2. /\ got[n] = None /\ n \notin wake[k]
        /\ n \notin wake[j] /\ (hand[j] # None => hand[j].to # n)
        /\ j # s => n \notin inflight[j] /\ anon[j] # n
    BY <2>1 DEF SessionsRight, SessionInv, Pending
  <2> QED
    BY <1>1, <2>1, <2>2
<1>6. HandRight' /\ GotRight'
  BY <1>1 DEF SessionsRight, SessionInv, HandRight, GotRight
<1>7. BrokenIsBare'
  BY <1>1 DEF SessionsRight, SessionInv, BrokenIsBare, PipelineTypeOK
<1>8. Watched'
  <2> SUFFICES ASSUME NEW d \in Sharers, at[d] \in {"send", "wait"}, got'[id[d]] = None
               PROVE  \/ id[d] \in inflight[held[d]] \/ id[d] \in wake'[held[d]]
                      \/ hand[held[d]] # None /\ hand[held[d]].to = id[d]
    BY <1>1 DEF Watched
  <2>1. held[d] \in Sessions /\ id[d] \in Ids
    BY DEF HasSession
  <2>2. id[d] \notin wake[k] /\ got[id[d]] = None
    BY <1>1, <1>3, <2>1
  <2>3. \/ id[d] \in inflight[held[d]] \/ id[d] \in wake[held[d]]
        \/ hand[held[d]] # None /\ hand[held[d]].to = id[d]
    BY <2>2 DEF SessionsRight, Watched
  <2> QED
    BY <1>1, <2>1, <2>2, <2>3
<1>9. TableClean'
  BY <1>1 DEF SessionsRight, TableClean
<1>10. OwnAnswer'
  BY <1>1, <1>2 DEF HasSession, SessionsRight, OwnAnswer
<1> QED
  BY <1>4, <1>5, <1>6, <1>7, <1>8, <1>9, <1>10 DEF SessionsRight, SessionInv

\* Steps of sessions, all together.
LEMMA SessionKeeps ==
  ASSUME EchoesId, PipelineTypeOK, HasSession, SessionsRight, NEW k \in Sessions, SessionStep(k)
  PROVE  SessionsRight'
<1>1. UNCHANGED <<at, id, held, answer, next_id>>
  BY SessionsLeave
<1>2. CASE \E i \in Ids : Receive(k, i)
  BY <1>1, <1>2, ReceiveKeeps
<1>3. CASE HandOver(k)
  BY <1>1, <1>3, HandOverKeeps
<1>4. CASE WakeAll(k)
  BY <1>1, <1>4, WakeAllKeeps
<1>5. CASE Break(k)
  BY <1>1, <1>5, BreakKeeps
<1>6. CASE PeerDies(k)
  <2>1. UNCHANGED <<inflight, anon, broken, hand, wake, got>>
    BY <1>6 DEF PeerDies, sessionVars
  <2> QED
    BY <1>1, <2>1 DEF SessionsRight, SessionInv, UnseenUnknown, Unseen, Known, Pending, HandRight,
       GotRight, BrokenIsBare, Watched, TableClean, OwnAnswer
<1> QED
  BY <1>2, <1>3, <1>4, <1>5, <1>6 DEF SessionStep, ReaderStep

\* Calls and sessions keep to their types.
LEMMA CallTypes ==
  ASSUME PipelineTypeOK, HasSession, NEW c \in Sharers, CallStep(c), taken' \in Nat
  PROVE  PipelineTypeOK'
<1>t. /\ \A p : [at EXCEPT ![c] = p][c] = p
      /\ queued \subseteq Sharers /\ next_id \in 1..MaxId + 1
      /\ broken \subseteq Sessions /\ dead \subseteq Sessions
  BY DEF PipelineTypeOK
<1> USE DEF PipelineTypeOK, Slotted, Move, Answer
<1>1. CASE BeginPipelined(c)
  BY <1>1 DEF BeginPipelined, channelVars, sessionVars, serverVars
<1>2. CASE Setup(c)
  BY <1>2 DEF Setup, sessionVars, serverVars
<1>3. CASE RebuildOk(c)
  BY <1>3 DEF RebuildOk
<1>4. CASE RebuildFails(c)
  BY <1>4 DEF RebuildFails, sessionVars, serverVars
<1>5. CASE AcquireSlot(c)
  BY <1>5 DEF AcquireSlot, sessionVars, serverVars
<1>6. CASE SleepForSlot(c)
  BY <1>6 DEF SleepForSlot, sessionVars, pipeCallVars, serverVars
<1>7. CASE SlotDeadline(c)
  BY <1>7 DEF SlotDeadline, sessionVars, serverVars
<1>8. CASE Pick(c)
  BY <1>8 DEF Pick, channelVars, sessionVars, serverVars
<1>9. CASE Register(c)
  BY <1>9 DEF Register, HasSession, channelVars, serverVars
<1>10. CASE Send(c)
  BY <1>10 DEF Send, HasSession, channelVars, sessionVars
<1>11. CASE SendFails(c)
  BY <1>11 DEF SendFails, Unregister, channelVars, serverVars
<1>12. CASE Await(c)
  BY <1>12 DEF Await, channelVars, sessionVars, serverVars
<1>13. CASE AwaitTimeout(c)
  BY <1>13 DEF AwaitTimeout, Unregister, channelVars, serverVars
<1>14. CASE Fail(c)
  BY <1>14 DEF Fail, sessionVars, serverVars
<1>15. CASE ReleaseSlot(c)
  BY <1>15 DEF ReleaseSlot, sessionVars, serverVars
<1> QED
  BY <1>1, <1>2, <1>3, <1>4, <1>5, <1>6, <1>7, <1>8, <1>9, <1>10, <1>11, <1>12, <1>13, <1>14, <1>15
     DEF CallStep, PipelinedCall

\* Steps of sessions keep the types.
LEMMA SessionTypes ==
  ASSUME PipelineTypeOK, NEW k \in Sessions, SessionStep(k)
  PROVE  PipelineTypeOK'
<1> USE DEF PipelineTypeOK
<1>1. CASE \E i \in Ids : Receive(k, i)
  <2>1. PICK i \in Ids : Receive(k, i)
    BY <1>1
  <2>2. Target(k, i) \in Ids \cup {None}
    BY DEF Target
  <2>3. hand' \in [Sessions -> {None} \cup [to : Ids, payload : Ids]]
    BY <2>1, <2>2 DEF Receive
  <2>4. wire' \in [Sessions -> SUBSET Ids]
    BY <2>1 DEF Receive
  <2>5. inflight' \in [Sessions -> SUBSET Ids] /\ anon' \in [Sessions -> Ids \cup {None}]
    BY <2>1 DEF Receive
  <2> QED
    BY <2>1, <2>3, <2>4, <2>5 DEF Receive, channelVars, pipeCallVars
<1>2. CASE HandOver(k)
  BY <1>2 DEF HandOver, channelVars, pipeCallVars, serverVars
<1>3. CASE WakeAll(k)
  BY <1>3 DEF WakeAll, channelVars, pipeCallVars, serverVars
<1>4. CASE Break(k)
  BY <1>4 DEF Break, channelVars, pipeCallVars, serverVars
<1>5. CASE PeerDies(k)
  BY <1>5 DEF PeerDies, channelVars, sessionVars, pipeCallVars
<1> QED
  BY <1>1, <1>2, <1>3, <1>4, <1>5 DEF SessionStep, ReaderStep

-----------------------------------------------------------------------------
\* The invariant holds at first ...
LEMMA PipelineStarts ==
  ASSUME PipelineInit
  PROVE  PipeIInv
<1> USE DEF PipelineInit
<1>0. \A i \in Ids : i # None /\ i # 0
  BY DEF Ids
<1>1. PipelineTypeOK
  <2>1. /\ next_id \in 1..MaxId + 1 /\ taken \in Nat
        /\ id \in [Sharers -> 0..MaxId]
    OBVIOUS
  <2>2. /\ inflight \in [Sessions -> SUBSET Ids] /\ anon \in [Sessions -> Ids \cup {None}]
        /\ hand \in [Sessions -> {None} \cup [to : Ids, payload : Ids]]
        /\ wake \in [Sessions -> SUBSET Ids] /\ wire \in [Sessions -> SUBSET Ids]
        /\ got \in [Ids -> Ids \cup {None, Broken}]
    OBVIOUS
  <2>3. /\ at \in [Sharers -> {"ready", "setup", "rebuild", "slot"} \cup Slotted]
        /\ held \in [Sharers -> Sessions \cup {None}]
        /\ answer \in [Sharers -> {"none", "ok", "failed", "timeout"}]
    OBVIOUS
  <2> QED
    BY <2>1, <2>2, <2>3 DEF PipelineTypeOK
<1>2. SlotsCounted
  <2>1. InGroup(Sharers, at, Slotted) = {} /\ IsFiniteSet({})
    BY FS_EmptySet DEF InGroup, Slotted
  <2>2. InSlots = 0
    BY <2>1, FS_EmptySet DEF InSlots
  <2> QED
    BY <2>2 DEF SlotsCounted
<1>3. SleepersWant /\ NoLostPipeSlot
  BY DEF SleepersWant, NoLostPipeSlot
<1>4. OwnId /\ HasSession /\ FailedIsFailed
  BY DEF OwnId, HasSession, FailedIsFailed
<1>5. UnseenUnknown /\ Pending /\ HandRight /\ GotRight /\ BrokenIsBare
  BY <1>0 DEF UnseenUnknown, Known, Pending, HandRight, GotRight, BrokenIsBare
<1>6. Watched /\ TableClean /\ OwnAnswer
  BY DEF Watched, TableClean, OwnAnswer
<1> QED
  BY <1>1, <1>2, <1>3, <1>4, <1>5, <1>6 DEF PipeIInv

\* ... and every step keeps it.
LEMMA PipelineKeeps ==
  ASSUME EchoesId, PipeIInv, [PipelineNext]_pipelineVars
  PROVE  PipeIInv'
<1> USE DEF PipeIInv
<1>1. SessionInv /\ SessionsRight
  BY DEF SessionInv, SessionsRight
<1>2. ASSUME NEW c \in Sharers, CallStep(c)
      PROVE  PipeIInv'
  <2>1. SlotsCounted' /\ SleepersWant' /\ NoLostPipeSlot' /\ PipelineTypeOK'
    BY <1>2, SlotsStep, PipeSlotStep, CallTypes
  <2>2. OwnId' /\ HasSession' /\ FailedIsFailed'
    BY <1>2, OwnIdStep
  <2>3. SessionInv'
    BY <1>1, <1>2, CallKeepsSessions
  <2>4. Watched' /\ TableClean' /\ OwnAnswer'
    BY <1>2, CallWatched, CallTableClean, CallOwnAnswer
  <2> QED
    BY <2>1, <2>2, <2>3, <2>4 DEF SessionInv
<1>3. ASSUME NEW k \in Sessions, SessionStep(k)
      PROVE  PipeIInv'
  <2>1. UNCHANGED <<taken, queued, at, id, held, answer, next_id>>
    BY <1>3, SessionsLeave
  <2>2. SlotsCounted' /\ SleepersWant' /\ NoLostPipeSlot'
    BY <2>1 DEF SlotsCounted, InSlots, SleepersWant, NoLostPipeSlot
  <2>3. OwnId' /\ HasSession' /\ FailedIsFailed'
    BY <2>1 DEF OwnId, HasSession, FailedIsFailed
  <2>4. PipelineTypeOK' /\ SessionsRight'
    BY <1>1, <1>3, SessionTypes, SessionKeeps
  <2> QED
    BY <2>2, <2>3, <2>4 DEF SessionsRight, SessionInv
<1>4. CASE UNCHANGED pipelineVars
  BY <1>4 DEF pipelineVars, channelVars, sessionVars, pipeCallVars, serverVars, PipelineTypeOK,
     SlotsCounted, InSlots, SleepersWant, NoLostPipeSlot, OwnId, HasSession, UnseenUnknown, Unseen, Known,
     Pending, HandRight, GotRight, BrokenIsBare, Watched, TableClean, FailedIsFailed, OwnAnswer
<1> QED
  BY <1>2, <1>3, <1>4 DEF PipelineNext, CallStep, SessionStep

\* The inductive invariant of the pipeline (RpcPipeline, rpc.cpp), for any number
\* of calls, sessions, slots and ids, with a server that returns the ids.
THEOREM PipelineInvariant == EchoesId => (PipelineSpec => []PipeIInv)
<1> SUFFICES ASSUME EchoesId PROVE PipelineSpec => []PipeIInv
  OBVIOUS
<1> QED
  BY PipelineStarts, PipelineKeeps, PTL DEF PipelineSpec

\* The table of a session has an entry for a call in a slot at most.
LEMMA TableBounded ==
  ASSUME PipeIInv, NEW k \in Sessions
  PROVE  Cardinality(inflight[k]) <= Limit
<1> DEFINE S == {c \in Sharers : at[c] \in Slotted /\ id[c] \in inflight[k]}
           f == [c \in S |-> id[c]]
<1>1. IsFiniteSet(InGroup(Sharers, at, Slotted)) /\ InSlots <= Limit
  <2>1. InGroup(Sharers, at, Slotted) \in SUBSET Sharers
    BY DEF InGroup
  <2> QED
    BY <2>1, FS_Subset DEF PipeIInv, SlotsCounted
<1>2. S \in SUBSET InGroup(Sharers, at, Slotted)
  BY DEF InGroup
<1>3. IsFiniteSet(S) /\ Cardinality(S) <= InSlots
  BY <1>1, <1>2, FS_Subset DEF InSlots
<1>4. f \in Surjection(S, inflight[k])
  <2>1. f \in [S -> inflight[k]]
    OBVIOUS
  <2>2. \A i \in inflight[k] : \E c \in S : f[c] = i
    BY DEF PipeIInv, TableClean, Slotted
  <2> QED
    BY <2>1, <2>2 DEF Surjection
<1> HIDE DEF S, f
<1>5. Cardinality(inflight[k]) <= Cardinality(S) /\ IsFiniteSet(inflight[k])
  BY <1>3, <1>4, FS_Surjection
<1>6. /\ Cardinality(inflight[k]) \in Nat /\ Cardinality(S) \in Nat
      /\ InSlots \in Nat /\ Limit \in Nat
  BY <1>1, <1>3, <1>5, FS_CardinalityType DEF InSlots
<1> QED
  BY <1>1, <1>3, <1>5, <1>6

\* A call that returns a response returns the response to its own request,
\* when the server returns the id with it.
THEOREM PipelineOwnAnswer == EchoesId => (PipelineSpec => []OwnAnswer)
<1>1. PipeIInv => OwnAnswer
  BY DEF PipeIInv
<1> QED
  BY <1>1, PipelineInvariant, PTL

\* Slots, tables and sleepers are as they should be.
THEOREM PipelineChannelInv == EchoesId => (PipelineSpec => []ChannelInv)
<1>1. PipeIInv => ChannelInv
  <2> SUFFICES ASSUME PipeIInv PROVE ChannelInv
    OBVIOUS
  <2> USE DEF PipeIInv
  <2>1. SlotsExact
    <3>1. InSlots = Cardinality({c \in Sharers : at[c] \in Slotted})
      BY DEF InSlots, InGroup
    <3> QED
      BY <3>1, TableBounded DEF SlotsExact, SlotsCounted
  <2>2. NoStrandedCall
    BY DEF NoStrandedCall, Watched, BrokenIsBare
  <2> QED
    BY <2>1, <2>2 DEF ChannelInv
<1> QED
  BY <1>1, PipelineInvariant, PTL

HIDE PipelineAssumption DEF PipelineAssumption
-----------------------------------------------------------------------------
(***************************************************************************)
(* Proofs about the executor of asynchronous calls, for any number of      *)
(* workers, callers, calls and pools: in_flight is exact, no queued call   *)
(* is left to sleeping workers, and the client is freed after its calls.   *)
(*                                                                         *)
(* Most steps are those of one pool, and most of the invariant says of     *)
(* each pool what holds of it alone (PoolAlone, Staffed).  What ties the   *)
(* pools together is which of them is in use and who waits for the others  *)
(* (Detached, PostsToCurrent, FreedByOwner).                               *)
(***************************************************************************)

-----------------------------------------------------------------------------
(* What holds of one pool, whatever the others do. *)

\* in_flight is exact.
InFlightCounts(p) == inFlight[p] = Len(tasks[p]) + Cardinality(Running(p))

\* A worker will look at the queue again.
SomeoneAwake(p) == \E w \in Workers : worker[p][w] \in {"loop", "runs", "notify"}

\* A pool by itself: its count, its stopping, and its sleepers, be they workers
\* or the thread that waits.
PoolAlone(p) ==
  /\ InFlightCounts(p) /\ inFlight[p] <= submitted
  /\ \A w \in Workers : worker[p][w] = "runs" => task[p][w] \in Tasks
  /\ stopping[p] => inFlight[p] = 0
  /\ Asleep(waiter[p]) => inFlight[p] > 0 \/ \E w \in Workers : worker[p][w] = "notify"
  /\ tasks[p] # <<>> => SomeoneAwake(p)

\* A pool that is not stopping has all its workers; one that is yet to be
\* created has nothing.
Staffed(p) ==
  IF p <= pools THEN stopping[p] \/ \A w \in Workers : worker[p][w] # "gone"
  ELSE /\ tasks[p] = <<>> /\ inFlight[p] = 0 /\ ~stopping[p] /\ waiter[p] = "none"
       /\ \A w \in Workers : worker[p][w] = "gone"

\* Somebody who makes a call has the pool in use, and the owner lets him.
PostsToCurrent == \A s \in Submitters : posting[s] # 0 => posting[s] = async_exec /\ owner = "out"

\* A pool that is waited for or stops is in use only while the client is
\* destroyed; a pool with calls is in use or waited for.
Detached(p) ==
  /\ waiter[p] # "none" \/ stopping[p] => p # async_exec \/ owner = "destroy"
  /\ Retiring(p) => p # async_exec
  /\ inFlight[p] > 0 => waiter[p] # "none" \/ (p = async_exec /\ owner # "destroy")

\* Only the destructor frees the client, when it waits for no pool.
FreedByOwner ==
  freed => owner = "destroy" /\ \A p \in Pool : waiter[p] \notin {"owner", "asleep owner"}

\* The inductive invariant.
ExecutorIInv ==
  /\ ExecutorTypeOK /\ PostsToCurrent /\ FreedByOwner
  /\ \A p \in Pool : PoolAlone(p) /\ Staffed(p) /\ Detached(p)

USE ExecutorAssumption DEF ExecutorAssumption

\* The places of the thread that waits.
WaiterPlaces == {"none", "owner", "retire", "asleep owner", "asleep retire"}

\* Whom a notification to all moves, and where.
LEMMA WokenPlaces ==
  /\ \A x \in Places : Woken(x) = IF x = "asleep" THEN "loop" ELSE x
  /\ Woken("asleep owner") = "owner" /\ Woken("asleep retire") = "retire"
  /\ \A x \in {"none", "owner", "retire"} : Woken(x) = x
  /\ \A x \in WaiterPlaces : ~Asleep(Woken(x))
BY DEF Woken, Asleep, Places, WaiterPlaces

\* The types, pool by pool.
LEMMA PoolTypes ==
  ASSUME ExecutorTypeOK
  PROVE  /\ submitted \in Nat /\ submitted <= MaxTasks /\ pools \in Nat /\ pools <= MaxPools
         /\ async_exec \in Nat /\ async_exec <= pools /\ \A p \in Pool : p \in Nat /\ p > 0
         /\ \A p \in Pool :
              /\ tasks[p] \in Seq(Tasks) /\ inFlight[p] \in Nat /\ stopping[p] \in BOOLEAN
              /\ waiter[p] \in WaiterPlaces
              /\ worker[p] \in [Workers -> Places] /\ task[p] \in [Workers -> 0..MaxTasks]
<1>1. /\ submitted \in 0..MaxTasks /\ pools \in 0..MaxPools /\ async_exec \in 0..pools
      /\ tasks \in [Pool -> Seq(Tasks)]
      /\ inFlight \in [Pool -> 0..MaxTasks]
      /\ stopping \in [Pool -> BOOLEAN]
      /\ worker \in [Pool -> [Workers -> Places]]
      /\ task \in [Pool -> [Workers -> 0..MaxTasks]]
      /\ waiter \in [Pool -> WaiterPlaces]
  BY DEF ExecutorTypeOK, WaiterPlaces
<1>2. submitted \in Nat /\ submitted <= MaxTasks
  BY <1>1
<1>3. pools \in Nat /\ pools <= MaxPools /\ async_exec \in Nat /\ async_exec <= pools
  BY <1>1
<1>4. \A p \in Pool : p \in Nat /\ p > 0
  BY DEF Pool
<1>5. \A p \in Pool : inFlight[p] \in Nat
  BY <1>1
<1> QED
  BY <1>1, <1>2, <1>3, <1>4, <1>5

\* Nothing of pool q changes.
Untouched(q) ==
  /\ tasks'[q] = tasks[q] /\ inFlight'[q] = inFlight[q] /\ stopping'[q] = stopping[q]
  /\ worker'[q] = worker[q] /\ task'[q] = task[q] /\ waiter'[q] = waiter[q]

\* Who waits for pool p is the same, asleep or not.
SameWaiter(p) ==
  /\ (waiter'[p] = "none") <=> (waiter[p] = "none")
  /\ Retiring(p)' <=> Retiring(p)
  /\ waiter'[p] \in {"owner", "asleep owner"} <=> waiter[p] \in {"owner", "asleep owner"}

\* A pool of which nothing changes stays as it should be, ...
LEMMA UntouchedKeeps ==
  ASSUME ExecutorTypeOK, NEW q \in Pool, Untouched(q), PoolAlone(q), submitted' \in Nat,
         submitted <= submitted'
  PROVE  PoolAlone(q)'
<1>1. Running(q)' = Running(q) /\ SomeoneAwake(q)' = SomeoneAwake(q)
  BY DEF Untouched, Running, SomeoneAwake
<1>2. inFlight[q] \in Nat /\ submitted \in Nat
  BY PoolTypes
<1>3. InFlightCounts(q)' /\ inFlight'[q] <= submitted'
  BY <1>1, <1>2 DEF Untouched, PoolAlone, InFlightCounts
<1> QED
  BY <1>1, <1>3 DEF Untouched, PoolAlone, Asleep

\* A step inside a pool: of one of its workers, or of the thread that waits for it.
Inside(p) ==
  /\ p <= pools /\ UNCHANGED <<async_exec, pools, posting, owner, submitted, freed>>
  /\ \A q \in Pool : q # p => Untouched(q)
  /\ SameWaiter(p)
  /\ stopping'[p] => stopping[p] \/ waiter[p] # "none"
  /\ inFlight'[p] > 0 => inFlight[p] > 0

\* ... and so a step inside one pool is a matter of that pool.
LEMMA InsideKeeps ==
  ASSUME ExecutorIInv, NEW p \in Pool, Inside(p), PoolAlone(p)', Staffed(p)', ExecutorTypeOK'
  PROVE  ExecutorIInv'
<1>t. ExecutorTypeOK
  BY DEF ExecutorIInv
<1>1. /\ UNCHANGED <<async_exec, pools, posting, owner, submitted, freed>>
      /\ submitted' \in Nat /\ submitted <= submitted'
  BY <1>t, PoolTypes DEF Inside
<1>2. ASSUME NEW q \in Pool
      PROVE  PoolAlone(q)' /\ Staffed(q)' /\ Detached(q)'
  <2>1. PoolAlone(q) /\ Staffed(q) /\ Detached(q)
    BY DEF ExecutorIInv
  <2>2. CASE q = p
    <3>1. Detached(p)'
      BY <1>1, <2>1, <2>2 DEF Inside, SameWaiter, Detached
    <3> QED
      BY <2>2, <3>1
  <2>3. CASE q # p
    <3>1. Untouched(q)
      BY <2>3 DEF Inside
    <3>2. PoolAlone(q)'
      BY <1>t, <1>1, <2>1, <3>1, UntouchedKeeps
    <3>3. Staffed(q)'
      BY <1>1, <2>1, <3>1 DEF Untouched, Staffed
    <3>4. Detached(q)'
      BY <1>1, <2>1, <3>1 DEF Untouched, Detached, Retiring
    <3> QED
      BY <3>2, <3>3, <3>4
  <2> QED
    BY <2>2, <2>3
<1>3. PostsToCurrent'
  BY <1>1 DEF ExecutorIInv, PostsToCurrent
<1>4. FreedByOwner'
  <2>1. \A q \in Pool : waiter'[q] \in {"owner", "asleep owner"} => waiter[q] \in {"owner", "asleep owner"}
    BY DEF Inside, SameWaiter, Untouched
  <2> QED
    BY <1>1, <2>1 DEF ExecutorIInv, FreedByOwner
<1> QED
  BY <1>2, <1>3, <1>4 DEF ExecutorIInv

-----------------------------------------------------------------------------
\* The number of workers that run a call.
Runs(p) == Count(Workers, worker[p], "runs")

\* The number is that of the set, before and after a step.
LEMMA RunsType ==
  ASSUME NEW p
  PROVE  /\ Runs(p) \in Nat /\ (InFlightCounts(p) <=> inFlight[p] = Len(tasks[p]) + Runs(p))
         /\ InFlightCounts(p)' <=> inFlight'[p] = Len(tasks'[p]) + Runs(p)'
<1>1. Runs(p) \in Nat
  BY CountType DEF Runs
<1>2. Runs(p) = Cardinality(Running(p)) /\ Runs(p)' = Cardinality(Running(p)')
  BY DEF Runs, Running, Count, In
<1> QED
  BY <1>1, <1>2 DEF InFlightCounts

\* One worker of a pool changes its place.
Moves(p, w, x) == worker' = [worker EXCEPT ![p][w] = x]

\* The move, place by place, ...
LEMMA MoveType ==
  ASSUME ExecutorTypeOK, NEW p \in Pool, NEW w \in Workers, NEW x \in Places, Moves(p, w, x)
  PROVE  /\ worker' \in [Pool -> [Workers -> Places]]
         /\ \A q \in Pool : q # p => worker'[q] = worker[q]
         /\ worker'[p][w] = x
         /\ \A v \in Workers : v # w => worker'[p][v] = worker[p][v]
<1>1. worker \in [Pool -> [Workers -> Places]]
  BY DEF ExecutorTypeOK
<1> QED
  BY <1>1 DEF Moves

\* ... and what it does to the number of running calls.
LEMMA MoveRuns ==
  ASSUME ExecutorTypeOK, NEW p \in Pool, NEW w \in Workers, NEW x \in Places, Moves(p, w, x)
  PROVE  /\ x = "runs" /\ worker[p][w] # "runs" => Runs(p)' = Runs(p) + 1
         /\ x # "runs" /\ worker[p][w] = "runs" => Runs(p)' = Runs(p) - 1
         /\ x # "runs" /\ worker[p][w] # "runs" => Runs(p)' = Runs(p)
<1> DEFINE f == worker[p]
           g == worker'[p]
<1>1. g[w] = x /\ \A v \in Workers : v # w => g[v] = f[v]
  BY MoveType
<1>2. Runs(p) = Count(Workers, f, "runs") /\ Runs(p)' = Count(Workers, g, "runs")
  BY DEF Runs
<1> HIDE DEF f, g
<1>3. x = "runs" /\ f[w] # "runs" => Count(Workers, g, "runs") = Count(Workers, f, "runs") + 1
  BY <1>1, CountEnter
<1>4. x # "runs" /\ f[w] = "runs" => Count(Workers, g, "runs") = Count(Workers, f, "runs") - 1
  BY <1>1, CountLeave
<1>5. x # "runs" /\ f[w] # "runs" => Count(Workers, g, "runs") = Count(Workers, f, "runs")
  BY <1>1, CountSame
<1> QED
  BY <1>2, <1>3, <1>4, <1>5 DEF f

\* What a worker that runs a call tells of its pool.
LEMMA RunsCounted ==
  ASSUME ExecutorIInv, NEW p \in Pool, NEW w \in Workers, worker[p][w] = "runs"
  PROVE  inFlight[p] > 0 /\ p <= pools /\ ~stopping[p] /\ task[p][w] \in Tasks
<1>1. PoolAlone(p) /\ Staffed(p) /\ ExecutorTypeOK
  BY DEF ExecutorIInv
<1>2. Runs(p) > 0
  BY CountPositive DEF Runs
<1>3. tasks[p] \in Seq(Tasks) /\ Len(tasks[p]) \in Nat
  BY <1>1, PoolTypes, LenProperties
<1>4. inFlight[p] > 0
  BY <1>1, <1>2, <1>3, RunsType DEF PoolAlone
<1>5. p <= pools
  BY <1>1, PoolTypes DEF Staffed
<1> QED
  BY <1>1, <1>4, <1>5 DEF PoolAlone

\* A worker goes to sleep or leaves.
LEMMA SleepKeeps ==
  ASSUME ExecutorIInv, NEW p \in Pool, NEW w \in Workers, p <= pools, Sleep(p, w) \/ Leave(p, w)
  PROVE  ExecutorIInv'
<1>t. ExecutorTypeOK /\ PoolAlone(p) /\ Staffed(p)
  BY DEF ExecutorIInv
<1>1. PICK x \in {"asleep", "gone"} :
        /\ worker[p][w] = "loop" /\ tasks[p] = <<>> /\ Moves(p, w, x)
        /\ x = "gone" => stopping[p]
        /\ UNCHANGED <<async_exec, pools, tasks, inFlight, stopping, task, posting, owner, waiter,
                       submitted, done, freed>>
  BY DEF Sleep, Leave, Moves
<1>2. /\ worker' \in [Pool -> [Workers -> Places]]
      /\ \A q \in Pool : q # p => worker'[q] = worker[q]
      /\ worker'[p][w] = x /\ x \in Places
      /\ \A v \in Workers : v # w => worker'[p][v] = worker[p][v]
  BY <1>t, <1>1, MoveType DEF Places
<1>3. ExecutorTypeOK'
  BY <1>t, <1>1, <1>2 DEF ExecutorTypeOK
<1>4. PoolAlone(p)'
  <2>0. x # "runs" /\ worker[p][w] # "runs"
    BY <1>1
  <2>1. Runs(p)' = Runs(p)
    BY <1>t, <1>1, <1>2, <2>0, MoveRuns
  <2>2. InFlightCounts(p)'
    BY <1>t, <1>1, <2>1, RunsType DEF PoolAlone
  <2> QED
    BY <1>t, <1>1, <1>2, <2>2 DEF PoolAlone, Asleep
<1>5. Staffed(p)'
  BY <1>t, <1>1, <1>2 DEF Staffed
<1>6. Inside(p)
  BY <1>1, <1>2 DEF Inside, Untouched, SameWaiter, Retiring, ExecutorIInv
<1> QED
  BY <1>3, <1>4, <1>5, <1>6, InsideKeeps

\* A call goes from the queue to a worker.
LEMMA TakeKeeps ==
  ASSUME ExecutorIInv, NEW p \in Pool, NEW w \in Workers, p <= pools, Take(p, w)
  PROVE  ExecutorIInv'
<1>t. ExecutorTypeOK /\ PoolAlone(p) /\ Staffed(p)
  BY DEF ExecutorIInv
<1>s. tasks[p] \in Seq(Tasks) /\ tasks[p] # <<>>
  BY <1>t, PoolTypes DEF Take
<1>h. /\ Head(tasks[p]) \in Tasks /\ Tail(tasks[p]) \in Seq(Tasks)
      /\ Len(Tail(tasks[p])) = Len(tasks[p]) - 1 /\ Len(tasks[p]) \in Nat
  BY <1>s, HeadTailProperties, LenProperties
<1>1. worker[p][w] = "loop" /\ Moves(p, w, "runs") /\ "runs" \in Places
  BY DEF Take, Moves, Places
<1>2. /\ worker' \in [Pool -> [Workers -> Places]]
      /\ \A q \in Pool : q # p => worker'[q] = worker[q]
      /\ worker'[p][w] = "runs"
      /\ \A v \in Workers : v # w => worker'[p][v] = worker[p][v]
  BY <1>t, <1>1, MoveType
<1>3. /\ tasks' \in [Pool -> Seq(Tasks)] /\ tasks'[p] = Tail(tasks[p])
      /\ \A q \in Pool : q # p => tasks'[q] = tasks[q]
  BY <1>t, <1>h DEF Take, ExecutorTypeOK
<1>4. /\ task' \in [Pool -> [Workers -> 0..MaxTasks]] /\ task'[p][w] = Head(tasks[p])
      /\ \A v \in Workers : v # w => task'[p][v] = task[p][v]
      /\ \A q \in Pool : q # p => task'[q] = task[q]
  <2>1. task \in [Pool -> [Workers -> 0..MaxTasks]]
    BY <1>t DEF ExecutorTypeOK
  <2>2. Head(tasks[p]) \in 0..MaxTasks
    BY <1>h DEF Tasks
  <2> QED
    BY <2>1, <2>2 DEF Take
<1>5. UNCHANGED <<async_exec, pools, inFlight, stopping, posting, owner, waiter, submitted, done, freed>>
  BY DEF Take
<1>6. ExecutorTypeOK'
  BY <1>t, <1>2, <1>3, <1>4, <1>5 DEF ExecutorTypeOK
<1>7. PoolAlone(p)'
  <2>1. Runs(p)' = Runs(p) + 1
    BY <1>t, <1>1, MoveRuns
  <2>2. InFlightCounts(p)'
    <3>1. inFlight[p] = Len(tasks[p]) + Runs(p) /\ Runs(p) \in Nat
      BY <1>t, RunsType DEF PoolAlone
    <3>2. inFlight'[p] = Len(tasks'[p]) + Runs(p)'
      BY <1>h, <1>3, <1>5, <2>1, <3>1
    <3> QED
      BY <3>2, RunsType
  <2> QED
    BY <1>t, <1>h, <1>2, <1>4, <1>5, <2>2, <1>1 DEF PoolAlone, Asleep, SomeoneAwake
<1>8. Staffed(p)'
  BY <1>t, <1>2, <1>3, <1>5 DEF Staffed
<1>9. Inside(p)
  BY <1>2, <1>3, <1>4, <1>5 DEF Inside, Untouched, SameWaiter, Retiring
<1> QED
  BY <1>6, <1>7, <1>8, <1>9, InsideKeeps

\* A call is over: the count is taken down and a notification owed.
LEMMA FinishKeeps ==
  ASSUME ExecutorIInv, NEW p \in Pool, NEW w \in Workers, p <= pools, Finish(p, w)
  PROVE  ExecutorIInv'
<1>t. ExecutorTypeOK /\ PoolAlone(p) /\ Staffed(p)
  BY DEF ExecutorIInv
<1>1. worker[p][w] = "runs" /\ Moves(p, w, "notify") /\ "notify" \in Places
  BY DEF Finish, Moves, Places
<1>r. inFlight[p] > 0 /\ ~stopping[p] /\ task[p][w] \in Tasks /\ inFlight[p] \in 0..MaxTasks
  BY <1>1, <1>t, RunsCounted DEF ExecutorTypeOK
<1>2. /\ worker' \in [Pool -> [Workers -> Places]]
      /\ \A q \in Pool : q # p => worker'[q] = worker[q]
      /\ worker'[p][w] = "notify"
      /\ \A v \in Workers : v # w => worker'[p][v] = worker[p][v]
  BY <1>t, <1>1, MoveType
<1>3. /\ inFlight' \in [Pool -> 0..MaxTasks] /\ inFlight'[p] = inFlight[p] - 1
      /\ \A q \in Pool : q # p => inFlight'[q] = inFlight[q]
  <2>1. inFlight[p] - 1 \in 0..MaxTasks
    BY <1>r
  <2> QED
    BY <1>t, <2>1 DEF Finish, ExecutorTypeOK
<1>4. UNCHANGED <<async_exec, pools, tasks, task, stopping, posting, owner, waiter, submitted, freed>>
  BY DEF Finish
<1>5. done' \subseteq Tasks
  BY <1>t, <1>r DEF Finish, ExecutorTypeOK
<1>6. ExecutorTypeOK'
  BY <1>t, <1>2, <1>3, <1>4, <1>5 DEF ExecutorTypeOK
<1>7. PoolAlone(p)'
  <2>0. tasks[p] \in Seq(Tasks) /\ Len(tasks[p]) \in Nat /\ submitted \in Nat
    BY <1>t, PoolTypes, LenProperties
  <2>1. Runs(p)' = Runs(p) - 1 /\ Runs(p) \in Nat
    BY <1>t, <1>1, MoveRuns, RunsType
  <2>2. InFlightCounts(p)'
    <3>1. inFlight[p] = Len(tasks[p]) + Runs(p) /\ inFlight[p] \in Nat
      BY <1>t, <1>r, RunsType DEF PoolAlone
    <3>2. inFlight'[p] = inFlight[p] - 1 /\ tasks'[p] = tasks[p]
      BY <1>3, <1>4
    <3>3. inFlight'[p] = Len(tasks'[p]) + Runs(p)'
      BY ONLY <2>0, <2>1, <3>1, <3>2
    <3> QED
      BY <3>3, RunsType
  <2>3. inFlight'[p] <= submitted'
    BY <1>t, <1>r, <1>3, <1>4, <2>0 DEF PoolAlone
  <2> QED
    BY <1>t, <1>r, <1>2, <1>4, <2>2, <2>3 DEF PoolAlone, SomeoneAwake
<1>8. Staffed(p)'
  BY <1>t, <1>2, <1>4 DEF Staffed, Inside
<1>9. Inside(p)
  BY <1>r, <1>2, <1>3, <1>4 DEF Inside, Untouched, SameWaiter, Retiring
<1> QED
  BY <1>6, <1>7, <1>8, <1>9, InsideKeeps

\* Waking all workers of a pool leaves those that run a call alone.
WakesWorkers(p, w) ==
  /\ worker' \in [Pool -> [Workers -> Places]]
  /\ \A q \in Pool : q # p => worker'[q] = worker[q]
  /\ \A v \in Workers :
       /\ worker'[p][v] = "runs" <=> worker[p][v] = "runs"
       /\ worker'[p][v] = "gone" <=> worker[p][v] = "gone"
       /\ worker[p][v] = "loop" => worker'[p][v] = "loop"
       /\ worker[p][v] = "notify" => worker'[p][v] \in {"loop", "notify"}
       /\ worker[p][v] = "notify" /\ v # w => worker'[p][v] = "notify"

\* The notification wakes everybody.
LEMMA NotifyKeeps ==
  ASSUME ExecutorIInv, NEW p \in Pool, NEW w \in Workers, p <= pools, Notify(p, w)
  PROVE  ExecutorIInv'
<1>t. ExecutorTypeOK /\ PoolAlone(p) /\ Staffed(p)
  BY DEF ExecutorIInv
<1>1. \A v \in Workers : worker[p][v] \in Places /\ worker[p][w] = "notify"
  BY <1>t DEF ExecutorTypeOK, Notify
<1>2. WakesWorkers(p, w)
  <2>1. /\ worker'[p] = [v \in Workers |-> IF v = w THEN "loop" ELSE Woken(worker[p][v])]
        /\ \A q \in Pool : q # p => worker'[q] = worker[q]
    BY <1>t DEF ExecutorTypeOK, Notify
  <2>2. \A v \in Workers : Woken(worker[p][v]) = IF worker[p][v] = "asleep" THEN "loop" ELSE worker[p][v]
    BY <1>1, WokenPlaces
  <2>3. worker'[p] \in [Workers -> Places]
    BY <1>1, <2>1, <2>2 DEF Places
  <2>4. worker' \in [Pool -> [Workers -> Places]]
    BY <1>t, <2>3, <2>1 DEF ExecutorTypeOK, Notify
  <2> QED
    BY <1>1, <2>1, <2>2, <2>4 DEF WakesWorkers
<1>3. /\ waiter' \in [Pool -> WaiterPlaces] /\ waiter'[p] = Woken(waiter[p])
      /\ \A q \in Pool : q # p => waiter'[q] = waiter[q]
      /\ SameWaiter(p) /\ ~Asleep(waiter'[p])
  <2>1. waiter \in [Pool -> WaiterPlaces] /\ waiter[p] \in WaiterPlaces
    BY <1>t DEF ExecutorTypeOK, WaiterPlaces
  <2>2. Woken(waiter[p]) \in WaiterPlaces
    BY <2>1, WokenPlaces DEF WaiterPlaces
  <2>3. /\ waiter' \in [Pool -> WaiterPlaces] /\ waiter'[p] = Woken(waiter[p])
        /\ \A q \in Pool : q # p => waiter'[q] = waiter[q]
    BY <2>1, <2>2 DEF Notify
  <2>4. ~Asleep(waiter'[p])
    BY <2>1, <2>3, WokenPlaces
  <2>5. SameWaiter(p)
    BY <2>1, <2>3 DEF SameWaiter, Retiring, WaiterPlaces, Woken
  <2> QED
    BY <2>3, <2>4, <2>5
<1>4. UNCHANGED <<async_exec, pools, tasks, inFlight, stopping, task, posting, owner, submitted, done, freed>>
  BY DEF Notify
<1>5. ExecutorTypeOK'
  BY <1>t, <1>2, <1>3, <1>4 DEF ExecutorTypeOK, WakesWorkers, WaiterPlaces
<1>6. PoolAlone(p)'
  <2>1. Running(p)' = Running(p)
    BY <1>2 DEF Running, WakesWorkers
  <2>2. InFlightCounts(p)'
    BY <1>t, <1>4, <2>1 DEF PoolAlone, InFlightCounts
  <2>3. SomeoneAwake(p)'
    BY <1>t DEF Notify, ExecutorTypeOK, SomeoneAwake
  <2> QED
    BY <1>t, <1>2, <1>3, <1>4, <2>2, <2>3 DEF PoolAlone, WakesWorkers
<1>7. Staffed(p)'
  BY <1>t, <1>2, <1>4 DEF Staffed, WakesWorkers, Inside
<1>8. Inside(p)
  BY <1>2, <1>3, <1>4 DEF Inside, Untouched, WakesWorkers
<1> QED
  BY <1>5, <1>6, <1>7, <1>8, InsideKeeps

\* The waiting thread goes to sleep while calls are in flight.
LEMMA WaitIdleKeeps ==
  ASSUME ExecutorIInv, NEW p \in Pool, p <= pools, WaitIdle(p)
  PROVE  ExecutorIInv'
<1>t. ExecutorTypeOK /\ PoolAlone(p) /\ Staffed(p)
  BY DEF ExecutorIInv
<1>1. /\ waiter' \in [Pool -> WaiterPlaces]
      /\ \/ waiter[p] = "owner" /\ waiter'[p] = "asleep owner"
         \/ waiter[p] = "retire" /\ waiter'[p] = "asleep retire"
      /\ \A q \in Pool : q # p => waiter'[q] = waiter[q]
      /\ inFlight[p] > 0
  <2>1. waiter \in [Pool -> WaiterPlaces]
    BY <1>t DEF ExecutorTypeOK, WaiterPlaces
  <2>2. waiter[p] \in {"owner", "retire"} /\ inFlight[p] > 0
    BY DEF WaitIdle, MustWait
  <2>3. \/ waiter[p] = "owner" /\ waiter' = [waiter EXCEPT ![p] = "asleep owner"]
        \/ waiter[p] = "retire" /\ waiter' = [waiter EXCEPT ![p] = "asleep retire"]
    BY <2>2 DEF WaitIdle
  <2>4. "asleep owner" \in WaiterPlaces /\ "asleep retire" \in WaiterPlaces
    BY DEF WaiterPlaces
  <2> QED
    BY <2>1, <2>2, <2>3, <2>4
<1>2. UNCHANGED <<async_exec, pools, tasks, inFlight, stopping, worker, task, posting, owner,
                  submitted, done, freed>>
  BY DEF WaitIdle
<1>3. ExecutorTypeOK'
  BY <1>t, <1>1, <1>2 DEF ExecutorTypeOK, WaiterPlaces
<1>4. PoolAlone(p)'
  BY <1>t, <1>1, <1>2 DEF PoolAlone, InFlightCounts, Running, SomeoneAwake
<1>5. Staffed(p)'
  BY <1>t, <1>1, <1>2 DEF Staffed
<1>6. Inside(p)
  BY <1>1, <1>2 DEF Inside, Untouched, SameWaiter, Retiring
<1> QED
  BY <1>3, <1>4, <1>5, <1>6, InsideKeeps

\* Without calls in flight, the pool stops and wakes its workers.
LEMMA StopPoolKeeps ==
  ASSUME ExecutorIInv, NEW p \in Pool, p <= pools, StopPool(p)
  PROVE  ExecutorIInv'
<1>t. ExecutorTypeOK /\ PoolAlone(p) /\ Staffed(p)
  BY DEF ExecutorIInv
<1>0. /\ inFlight[p] = 0 /\ tasks[p] = <<>> /\ ~Asleep(waiter[p]) /\ waiter[p] # "none"
      /\ tasks[p] \in Seq(Tasks)
  <2>1. /\ inFlight[p] \in Nat /\ tasks[p] \in Seq(Tasks) /\ Len(tasks[p]) \in Nat
        /\ waiter[p] \in {"owner", "retire"}
    BY <1>t, PoolTypes, LenProperties DEF StopPool
  <2>2. inFlight[p] = 0
    BY <2>1 DEF StopPool, MustWait
  <2>3. Len(tasks[p]) = 0
    BY <1>t, <2>1, <2>2, RunsType DEF PoolAlone
  <2> QED
    BY <2>1, <2>2, <2>3, EmptySeq DEF Asleep
<1>1. \A v \in Workers : worker[p][v] \in Places
  BY <1>t DEF ExecutorTypeOK
<1>2. /\ worker' \in [Pool -> [Workers -> Places]]
      /\ \A q \in Pool : q # p => worker'[q] = worker[q]
      /\ \A v \in Workers : worker'[p][v] = "runs" <=> worker[p][v] = "runs"
  <2>1. /\ worker'[p] = [v \in Workers |-> Woken(worker[p][v])]
        /\ \A q \in Pool : q # p => worker'[q] = worker[q]
    BY <1>t DEF ExecutorTypeOK, StopPool
  <2>2. \A v \in Workers : Woken(worker[p][v]) = IF worker[p][v] = "asleep" THEN "loop" ELSE worker[p][v]
    BY <1>1, WokenPlaces
  <2>3. worker'[p] \in [Workers -> Places]
    BY <1>1, <2>1, <2>2 DEF Places
  <2>4. worker' \in [Pool -> [Workers -> Places]]
    BY <1>t, <2>3, <2>1 DEF ExecutorTypeOK, StopPool
  <2> QED
    BY <1>1, <2>1, <2>2, <2>4
<1>3. /\ stopping' \in [Pool -> BOOLEAN] /\ stopping'[p]
      /\ \A q \in Pool : q # p => stopping'[q] = stopping[q]
  BY <1>t DEF StopPool, ExecutorTypeOK
<1>4. UNCHANGED <<async_exec, pools, tasks, inFlight, task, posting, owner, waiter, submitted, done, freed>>
  BY DEF StopPool
<1>5. ExecutorTypeOK'
  BY <1>t, <1>2, <1>3, <1>4 DEF ExecutorTypeOK
<1>6. PoolAlone(p)'
  <2>1. Running(p)' = Running(p)
    BY <1>2 DEF Running
  <2>2. InFlightCounts(p)'
    BY <1>t, <1>4, <2>1 DEF PoolAlone, InFlightCounts
  <2> QED
    BY <1>t, <1>0, <1>2, <1>3, <1>4, <2>2 DEF PoolAlone
<1>7. Staffed(p)'
  BY <1>3, <1>4 DEF Staffed
<1>8. Inside(p)
  BY <1>0, <1>2, <1>3, <1>4 DEF Inside, Untouched, SameWaiter, Retiring
<1> QED
  BY <1>5, <1>6, <1>7, <1>8, InsideKeeps

\* A pool that is gone had no calls.
LEMMA JoinKeeps ==
  ASSUME ExecutorIInv, NEW p \in Pool, p <= pools, Join(p)
  PROVE  ExecutorIInv'
<1>t. ExecutorTypeOK /\ PostsToCurrent /\ FreedByOwner
  BY DEF ExecutorIInv
<1>1. /\ waiter' \in [Pool -> WaiterPlaces] /\ waiter'[p] = "none"
      /\ \A q \in Pool : q # p => waiter'[q] = waiter[q]
      /\ stopping[p] /\ waiter[p] \in {"owner", "retire"}
  BY <1>t DEF Join, ExecutorTypeOK, WaiterPlaces
<1>2. owner' = owner \/ (owner = "swap" /\ owner' = "out")
  BY DEF Join
<1>3. UNCHANGED <<async_exec, pools, tasks, inFlight, stopping, worker, task, posting, submitted,
                  done, freed>>
  BY DEF Join
<1>4. ExecutorTypeOK'
  <2>1. owner' \in {"out", "swap", "destroy"}
    BY <1>t, <1>2 DEF ExecutorTypeOK
  <2> QED
    BY <1>t, <1>1, <1>3, <2>1 DEF ExecutorTypeOK, WaiterPlaces
<1>5. PostsToCurrent' /\ FreedByOwner'
  BY <1>t, <1>1, <1>2, <1>3 DEF PostsToCurrent, FreedByOwner
<1>6. ASSUME NEW q \in Pool
      PROVE  PoolAlone(q)' /\ Staffed(q)' /\ Detached(q)'
  <2>1. PoolAlone(q) /\ Staffed(q) /\ Detached(q)
    BY DEF ExecutorIInv
  <2>2. PoolAlone(q)'
    <3>1. Asleep(waiter'[q]) => Asleep(waiter[q])
      BY <1>1 DEF Asleep
    <3> QED
      BY <1>3, <2>1, <3>1 DEF PoolAlone, InFlightCounts, Running, SomeoneAwake
  <2>3. Staffed(q)'
    BY <1>1, <1>3, <2>1 DEF Staffed
  <2>4. inFlight[q] > 0 => q # p
    <3>1. stopping[q] => inFlight[q] = 0
      BY <2>1 DEF PoolAlone
    <3> QED
      BY <1>1, <3>1
  <2>5. Detached(q)'
    BY <1>1, <1>2, <1>3, <2>1, <2>4 DEF Detached, Retiring
  <2> QED
    BY <2>2, <2>3, <2>5
<1> QED
  BY <1>4, <1>5, <1>6 DEF ExecutorIInv

\* The steps of one pool, all together.
LEMMA PoolStepKeeps ==
  ASSUME ExecutorIInv, NEW p \in Pool, p <= pools, PoolStep(p)
  PROVE  ExecutorIInv'
<1>1. CASE \E w \in Workers : Worker(p, w)
  BY <1>1, SleepKeeps, TakeKeeps, FinishKeeps, NotifyKeeps DEF Worker
<1> QED
  BY <1>1, WaitIdleKeeps, StopPoolKeeps, JoinKeeps DEF PoolStep

-----------------------------------------------------------------------------
(* Swapping, destroying and freeing. *)

\* The pool in use gets its waiter, and may cease to be in use.
HandsOver(x) ==
  /\ \A s \in Submitters : posting[s] = 0
  /\ waiter' = IF async_exec = 0 THEN waiter ELSE [waiter EXCEPT ![async_exec] = x]
  /\ UNCHANGED <<pools, tasks, inFlight, stopping, worker, task, posting, submitted, done>>

\* The new waiter, pool by pool.
LEMMA HandOverTypes ==
  ASSUME ExecutorTypeOK, NEW x \in WaiterPlaces, HandsOver(x)
  PROVE  /\ waiter' \in [Pool -> WaiterPlaces]
         /\ \A q \in Pool : waiter'[q] = IF q = async_exec THEN x ELSE waiter[q]
<1>0. \A q \in Pool : q # 0
  BY PoolTypes
<1>1. waiter \in [Pool -> WaiterPlaces] /\ \A q \in Pool : q # 0
  BY <1>0 DEF ExecutorTypeOK, WaiterPlaces
<1>2. CASE async_exec = 0
  BY <1>1, <1>2 DEF HandsOver
<1>3. CASE async_exec # 0
  <2>1. waiter' = [waiter EXCEPT ![async_exec] = x]
    BY <1>3 DEF HandsOver
  <2> QED
    BY <1>1, <2>1
<1> QED
  BY <1>2, <1>3

\* A pool gets its waiter when it ceases to be in use, or with the destructor.
LEMMA RetireKeeps ==
  ASSUME ExecutorIInv, NEW x \in {"owner", "retire"}, HandsOver(x),
         ~freed, freed' = freed, owner # "destroy",
         owner' \in {"out", "swap", "destroy"},
         async_exec' \in {0, async_exec}, async_exec' = async_exec => x = "owner" /\ owner' = "destroy",
         async_exec' # async_exec => async_exec # 0 /\ owner' # "destroy"
  PROVE  ExecutorIInv'
<1>t. ExecutorTypeOK
  BY DEF ExecutorIInv
<1>1. /\ waiter' \in [Pool -> WaiterPlaces]
      /\ \A q \in Pool : waiter'[q] = IF q = async_exec THEN x ELSE waiter[q]
  BY <1>t, HandOverTypes DEF WaiterPlaces
<1>2. UNCHANGED <<pools, tasks, inFlight, stopping, worker, task, posting, submitted, done>>
  BY DEF HandsOver
<1>3. \A q \in Pool : q # 0
  BY <1>t, PoolTypes
<1>4. ExecutorTypeOK'
  <2>1. async_exec' \in 0..pools'
    BY <1>t, <1>2, PoolTypes
  <2> QED
    BY <1>t, <1>1, <1>2, <2>1 DEF ExecutorTypeOK, WaiterPlaces
<1>5. PostsToCurrent' /\ FreedByOwner'
  BY <1>2 DEF PostsToCurrent, FreedByOwner, HandsOver
<1>6. ASSUME NEW q \in Pool
      PROVE  PoolAlone(q)' /\ Staffed(q)' /\ Detached(q)'
  <2>1. PoolAlone(q) /\ Staffed(q) /\ Detached(q)
    BY DEF ExecutorIInv
  <2>2. PoolAlone(q)'
    <3>1. Asleep(waiter'[q]) => Asleep(waiter[q])
      BY <1>1 DEF Asleep
    <3> QED
      BY <1>2, <2>1, <3>1 DEF PoolAlone, InFlightCounts, Running, SomeoneAwake
  <2>3. Staffed(q)'
    <3>1. q = async_exec => q <= pools
      BY <1>t, PoolTypes
    <3> QED
      BY <1>1, <1>2, <2>1, <3>1 DEF Staffed
  <2>4. Detached(q)'
    <3>1. CASE q = async_exec
      BY <1>1, <1>2, <1>3, <2>1, <3>1 DEF Detached, Retiring
    <3>2. CASE q # async_exec
      BY <1>1, <1>2, <1>3, <2>1, <3>2 DEF Detached, Retiring
    <3> QED
      BY <3>1, <3>2
  <2> QED
    BY <2>2, <2>3, <2>4
<1> QED
  BY <1>4, <1>5, <1>6 DEF ExecutorIInv

\* set_async_workers() on a thread of its own, ...
LEMMA SwapKeeps ==
  ASSUME ExecutorIInv, Swap
  PROVE  ExecutorIInv'
<1>1. HandsOver("owner") /\ async_exec # 0 /\ async_exec' = 0 /\ owner = "out" /\ owner' = "swap"
  BY DEF Swap, HandsOver
<1> QED
  BY <1>1, RetireKeeps DEF Swap

\* ... and in a callback.
LEMMA SwapFromCallbackKeeps ==
  ASSUME ExecutorIInv, NEW p \in Pool, NEW w \in Workers, SwapFromCallback(p, w)
  PROVE  ExecutorIInv'
<1>t. ExecutorTypeOK /\ FreedByOwner /\ p # 0
  BY PoolTypes DEF ExecutorIInv
<1>1. HandsOver("retire") /\ async_exec # 0 /\ async_exec' = 0 /\ owner # "destroy" /\ owner' = owner
  BY <1>t DEF SwapFromCallback, HandsOver
<1>2. ~freed /\ freed' = freed /\ owner' \in {"out", "swap", "destroy"}
  BY <1>t, <1>1 DEF SwapFromCallback, FreedByOwner, ExecutorTypeOK
<1> QED
  BY <1>1, <1>2, RetireKeeps

\* ~RpcClient() begins ...
LEMMA DestroyKeeps ==
  ASSUME ExecutorIInv, Destroy
  PROVE  ExecutorIInv'
<1>1. HandsOver("owner") /\ async_exec' = async_exec /\ owner = "out" /\ owner' = "destroy"
  BY DEF Destroy, HandsOver
<1> QED
  BY <1>1, RetireKeeps DEF Destroy

\* ... and ends.
LEMMA FreeKeeps ==
  ASSUME ExecutorIInv, Free
  PROVE  ExecutorIInv'
<1>1. /\ UNCHANGED <<async_exec, pools, tasks, inFlight, stopping, worker, task, posting, owner,
                     waiter, submitted, done>>
      /\ freed' = TRUE /\ owner = "destroy"
      /\ \A p \in Pool : waiter[p] \notin {"owner", "asleep owner"}
  BY DEF Free
<1>2. ExecutorTypeOK' /\ PostsToCurrent' /\ FreedByOwner'
  BY <1>1 DEF ExecutorIInv, ExecutorTypeOK, PostsToCurrent, FreedByOwner
<1>3. ASSUME NEW p \in Pool
      PROVE  PoolAlone(p)' /\ Staffed(p)' /\ Detached(p)'
  <2>1. PoolAlone(p) /\ Staffed(p) /\ Detached(p)
    BY DEF ExecutorIInv
  <2>2. PoolAlone(p)'
    BY <1>1, <2>1 DEF PoolAlone, InFlightCounts, Running, SomeoneAwake
  <2>3. Staffed(p)' /\ Detached(p)'
    BY <1>1, <2>1 DEF Staffed, Detached, Retiring
  <2> QED
    BY <2>2, <2>3
<1> QED
  BY <1>2, <1>3 DEF ExecutorIInv

-----------------------------------------------------------------------------
(* Making a call. *)

\* A notification reaches one sleeper of the pool and nobody else.
LEMMA WakeOneMoves ==
  ASSUME ExecutorTypeOK, NEW p \in Pool, WakeOne(p)
  PROVE  /\ worker' \in [Pool -> [Workers -> Places]] /\ waiter' \in [Pool -> WaiterPlaces]
         /\ \A q \in Pool : q # p => worker'[q] = worker[q] /\ waiter'[q] = waiter[q]
         /\ \A v \in Workers :
              \/ worker'[p][v] = worker[p][v]
              \/ worker[p][v] = "asleep" /\ worker'[p][v] = "loop"
         /\ SameWaiter(p)
         /\ Asleep(waiter'[p]) => Asleep(waiter[p])
         /\ \/ Asleep(waiter[p])
            \/ \E v \in Workers : worker'[p][v] = "loop"
            \/ \A v \in Workers : worker'[p][v] = worker[p][v] /\ worker[p][v] # "asleep"
<1>t. /\ worker \in [Pool -> [Workers -> Places]] /\ waiter \in [Pool -> WaiterPlaces]
      /\ waiter[p] \in WaiterPlaces
  BY DEF ExecutorTypeOK, WaiterPlaces
<1>1. CASE /\ ~Asleep(waiter[p]) /\ In(Workers, worker[p], "asleep") = {}
           /\ UNCHANGED <<worker, waiter>>
  <2>1. \A v \in Workers : worker[p][v] # "asleep"
    BY <1>1 DEF In
  <2> QED
    BY <1>t, <1>1, <2>1 DEF SameWaiter, Retiring
<1>2. CASE /\ Asleep(waiter[p]) /\ UNCHANGED worker
           /\ waiter' = [waiter EXCEPT ![p] = Woken(waiter[p])]
  <2>1. Woken(waiter[p]) \in WaiterPlaces
    BY <1>t, WokenPlaces DEF WaiterPlaces
  <2>2. /\ waiter' \in [Pool -> WaiterPlaces] /\ waiter'[p] = Woken(waiter[p])
        /\ \A q \in Pool : q # p => waiter'[q] = waiter[q]
    BY <1>t, <1>2, <2>1
  <2>3. SameWaiter(p)
    BY <1>t, <2>2 DEF SameWaiter, Retiring, WaiterPlaces, Woken
  <2> QED
    BY <1>t, <1>2, <2>2, <2>3
<1>3. ASSUME NEW w \in In(Workers, worker[p], "asleep"), UNCHANGED waiter, Moves(p, w, "loop")
      PROVE  /\ worker' \in [Pool -> [Workers -> Places]]
             /\ \A q \in Pool : q # p => worker'[q] = worker[q]
             /\ w \in Workers /\ worker'[p][w] = "loop" /\ worker[p][w] = "asleep"
             /\ \A v \in Workers : v # w => worker'[p][v] = worker[p][v]
  <2>1. w \in Workers /\ worker[p][w] = "asleep" /\ "loop" \in Places
    BY DEF In, Places
  <2> QED
    BY <1>3, <2>1, MoveType
<1>4. CASE UNCHANGED waiter /\ \E w \in In(Workers, worker[p], "asleep") : Moves(p, w, "loop")
  BY <1>t, <1>3, <1>4 DEF SameWaiter, Retiring
<1> QED
  BY <1>1, <1>2, <1>4 DEF WakeOne, Moves

\* A call is queued in the pool in use.  If the notification goes to the thread
\* that waits, a call was in flight, and its worker is awake or owes one.
LEMMA PostToKeeps ==
  ASSUME ExecutorIInv, NEW p \in Pool, p = async_exec, PostTo(p), submitted < MaxTasks,
         ~stopping[p], owner # "destroy" \/ waiter[p] # "none",
         UNCHANGED <<async_exec, pools, stopping, task, owner, done, freed>>,
         posting' \in [Submitters -> 0..MaxPools],
         \A s \in Submitters : posting'[s] # 0 => posting[s] = posting'[s]
  PROVE  ExecutorIInv'
<1>t. ExecutorTypeOK /\ PostsToCurrent /\ FreedByOwner
  BY DEF ExecutorIInv
<1>p. p \in Pool /\ p <= pools
  BY <1>t, PoolTypes
<1>s. PoolAlone(p) /\ Staffed(p) /\ Detached(p)
  BY <1>p DEF ExecutorIInv
<1>y. /\ tasks[p] \in Seq(Tasks) /\ Len(tasks[p]) \in Nat /\ inFlight[p] \in Nat /\ submitted \in Nat
      /\ submitted + 1 \in Tasks /\ submitted + 1 \in 0..MaxTasks
  BY <1>t, <1>p, PoolTypes, LenProperties DEF Tasks
<1>1. /\ tasks' \in [Pool -> Seq(Tasks)] /\ tasks'[p] = Append(tasks[p], submitted + 1)
      /\ \A q \in Pool : q # p => tasks'[q] = tasks[q]
      /\ Len(tasks'[p]) = Len(tasks[p]) + 1
  <2>1. /\ Append(tasks[p], submitted + 1) \in Seq(Tasks)
        /\ Len(Append(tasks[p], submitted + 1)) = Len(tasks[p]) + 1
    BY <1>y, AppendProperties
  <2>2. tasks' = [tasks EXCEPT ![p] = Append(tasks[p], submitted + 1)]
    BY DEF PostTo
  <2>3. tasks \in [Pool -> Seq(Tasks)]
    BY <1>t DEF ExecutorTypeOK
  <2> QED
    BY <1>p, <2>1, <2>2, <2>3
<1>2. /\ inFlight' \in [Pool -> 0..MaxTasks] /\ inFlight'[p] = inFlight[p] + 1
      /\ \A q \in Pool : q # p => inFlight'[q] = inFlight[q]
      /\ submitted' = submitted + 1
  <2>1. inFlight \in [Pool -> 0..MaxTasks]
    BY <1>t DEF ExecutorTypeOK
  <2>2. inFlight[p] + 1 \in 0..MaxTasks
    BY <1>s, <1>y DEF PoolAlone
  <2> QED
    BY <1>p, <2>1, <2>2 DEF PostTo
<1>3. /\ worker' \in [Pool -> [Workers -> Places]] /\ waiter' \in [Pool -> WaiterPlaces]
      /\ \A q \in Pool : q # p => worker'[q] = worker[q] /\ waiter'[q] = waiter[q]
      /\ \A v \in Workers :
           \/ worker'[p][v] = worker[p][v]
           \/ worker[p][v] = "asleep" /\ worker'[p][v] = "loop"
      /\ SameWaiter(p)
      /\ Asleep(waiter'[p]) => Asleep(waiter[p])
      /\ \/ Asleep(waiter[p])
         \/ \E v \in Workers : worker'[p][v] = "loop"
         \/ \A v \in Workers : worker'[p][v] = worker[p][v] /\ worker[p][v] # "asleep"
  BY <1>t, <1>p, WakeOneMoves DEF PostTo
<1>4. UNCHANGED <<async_exec, pools, stopping, task, owner, done, freed>>
  OBVIOUS
<1>5. ExecutorTypeOK'
  BY <1>t, <1>y, <1>1, <1>2, <1>3, <1>4 DEF ExecutorTypeOK, WaiterPlaces
<1>6. Running(p)' = Running(p)
  BY <1>3 DEF Running
<1>7. SomeoneAwake(p) => SomeoneAwake(p)'
  BY <1>3 DEF SomeoneAwake
<1>8. SomeoneAwake(p)'
  <2>1. CASE Asleep(waiter[p])
    <3>1. CASE \E w \in Workers : worker[p][w] = "notify"
      BY <1>7, <3>1 DEF SomeoneAwake
    <3>2. CASE tasks[p] # <<>>
      BY <1>7, <1>s, <3>2 DEF PoolAlone
    <3>3. CASE tasks[p] = <<>> /\ inFlight[p] > 0
      <4>1. Runs(p) > 0
        BY <1>s, <1>y, <3>3, RunsType, EmptySeq DEF PoolAlone
      <4>2. \E w \in Workers : worker[p][w] = "runs"
        BY <4>1, CountZero DEF Runs
      <4> QED
        BY <1>7, <4>2 DEF SomeoneAwake
    <3> QED
      BY <1>s, <2>1, <3>1, <3>2, <3>3 DEF PoolAlone
  <2>2. CASE \E v \in Workers : worker'[p][v] = "loop"
    BY <2>2 DEF SomeoneAwake
  <2>3. CASE \A v \in Workers : worker'[p][v] = worker[p][v] /\ worker[p][v] # "asleep"
    <3>1. \A v \in Workers : worker[p][v] # "gone" /\ worker[p][v] \in Places
      BY <1>t, <1>p, <1>s DEF Staffed, ExecutorTypeOK
    <3> QED
      BY <2>3, <3>1 DEF SomeoneAwake, Places
  <2> QED
    BY <1>3, <2>1, <2>2, <2>3
<1>9. ASSUME NEW q \in Pool
      PROVE  PoolAlone(q)' /\ Staffed(q)' /\ Detached(q)'
  <2>1. CASE q = p
    <3>0. Cardinality(Running(p)) \in Nat
      <4>1. Runs(p) = Cardinality(Running(p))
        BY DEF Runs, Running, Count, In
      <4> QED
        BY <4>1, RunsType
    <3>a. inFlight[p] = Len(tasks[p]) + Cardinality(Running(p)) /\ inFlight[p] <= submitted
      BY <1>s DEF PoolAlone, InFlightCounts
    <3>b. inFlight'[p] = Len(tasks'[p]) + Cardinality(Running(p))
      BY <1>y, <1>1, <1>2, <3>0, <3>a
    <3>1. InFlightCounts(p)' /\ inFlight'[p] <= submitted'
      BY <1>y, <1>2, <1>6, <3>a, <3>b DEF InFlightCounts
    <3>2. \A v \in Workers : worker'[p][v] = "runs" => task'[p][v] \in Tasks
      BY <1>s, <1>3, <1>4 DEF PoolAlone
    <3>3. ~stopping'[p] /\ inFlight'[p] > 0
      BY <1>y, <1>2, <1>4
    <3>4. PoolAlone(p)'
      BY <1>8, <3>1, <3>2, <3>3 DEF PoolAlone
    <3>5. Staffed(p)'
      BY <1>p, <1>s, <1>3, <1>4 DEF Staffed
    <3>6. Detached(p)'
      BY <1>s, <1>3, <1>4, <3>3 DEF Detached, SameWaiter
    <3> QED
      BY <2>1, <3>4, <3>5, <3>6
  <2>2. CASE q # p
    <3>1. Untouched(q)
      BY <1>1, <1>2, <1>3, <1>4, <2>2 DEF Untouched
    <3>2. PoolAlone(q) /\ Staffed(q) /\ Detached(q)
      BY DEF ExecutorIInv
    <3>3. PoolAlone(q)'
      BY <1>t, <1>y, <1>2, <3>1, <3>2, UntouchedKeeps
    <3>4. Staffed(q)' /\ Detached(q)'
      BY <1>4, <3>1, <3>2 DEF Untouched, Staffed, Detached, Retiring
    <3> QED
      BY <3>3, <3>4
  <2> QED
    BY <2>1, <2>2
<1>10. PostsToCurrent'
  BY <1>t, <1>4 DEF PostsToCurrent
<1>11. FreedByOwner'
  <2>1. SUFFICES ASSUME freed', NEW q \in Pool
                 PROVE  owner' = "destroy" /\ waiter'[q] \notin {"owner", "asleep owner"}
    BY DEF FreedByOwner
  <2>2. owner = "destroy" /\ waiter[q] \notin {"owner", "asleep owner"}
    BY <1>t, <1>4, <2>1 DEF FreedByOwner
  <2>3. waiter'[q] \notin {"owner", "asleep owner"}
    BY <1>3, <2>2 DEF SameWaiter
  <2> QED
    BY <1>4, <2>2, <2>3
<1> QED
  BY <1>5, <1>9, <1>10, <1>11 DEF ExecutorIInv

\* A new pool n is made and put in use: all its workers look for a task, and
\* its queue holds at most the call it was made for.
NewPool(n) ==
  /\ async_exec' = n /\ pools' = n
  /\ worker' = [worker EXCEPT ![n] = [w \in Workers |-> "loop"]]
  /\ UNCHANGED <<stopping, task, owner, waiter, done, freed>>

\* The new pool is as it should be, and the others do not notice.
LEMMA NewPoolKeeps ==
  ASSUME ExecutorIInv, NEW n \in Pool, n = pools + 1, async_exec = 0, NewPool(n), owner # "destroy",
         submitted' \in 0..MaxTasks, submitted <= submitted',
         tasks' \in [Pool -> Seq(Tasks)], inFlight' \in [Pool -> 0..MaxTasks],
         \A q \in Pool : q # n => tasks'[q] = tasks[q] /\ inFlight'[q] = inFlight[q],
         inFlight'[n] = Len(tasks'[n]), inFlight'[n] <= submitted',
         posting' \in [Submitters -> 0..MaxPools],
         \A s \in Submitters : posting'[s] # 0 => posting'[s] = n /\ owner = "out"
  PROVE  ExecutorIInv'
<1>t. ExecutorTypeOK /\ FreedByOwner
  BY DEF ExecutorIInv
<1>s. /\ PoolAlone(n) /\ Staffed(n) /\ Detached(n)
      /\ waiter[n] = "none" /\ ~stopping[n] /\ n \in Nat /\ n <= MaxPools
  BY <1>t, PoolTypes DEF ExecutorIInv, Staffed, Pool
<1>1. /\ worker' \in [Pool -> [Workers -> Places]]
      /\ \A v \in Workers : worker'[n][v] = "loop"
      /\ \A q \in Pool : q # n => worker'[q] = worker[q]
  <2>1. worker \in [Pool -> [Workers -> Places]]
    BY <1>t DEF ExecutorTypeOK
  <2>2. [w \in Workers |-> "loop"] \in [Workers -> Places]
    BY DEF Places
  <2> QED
    BY <2>1, <2>2 DEF NewPool
<1>2. UNCHANGED <<stopping, task, owner, waiter, done, freed>> /\ async_exec' = n /\ pools' = n
  BY DEF NewPool
<1>3. ExecutorTypeOK'
  <2>1. pools' \in 0..MaxPools /\ async_exec' \in 0..pools'
    BY <1>s, <1>2
  <2> QED
    BY <1>t, <1>1, <1>2, <2>1 DEF ExecutorTypeOK
<1>4. PostsToCurrent' /\ FreedByOwner'
  BY <1>t, <1>2 DEF PostsToCurrent, FreedByOwner
<1>5. PoolAlone(n)' /\ Staffed(n)' /\ Detached(n)'
  <2>1. Runs(n)' = 0
    <3> DEFINE g == worker'[n]
    <3>1. \A v \in Workers : g[v] # "runs"
      BY <1>1
    <3>2. Runs(n)' = Count(Workers, g, "runs")
      BY DEF Runs
    <3> HIDE DEF g
    <3> QED
      BY <3>1, <3>2, CountZero
  <2>2. InFlightCounts(n)'
    <3>1. inFlight'[n] \in Nat
      OBVIOUS
    <3> QED
      BY <2>1, <3>1, RunsType
  <2>3. PoolAlone(n)'
    BY <1>s, <1>1, <1>2, <2>2 DEF PoolAlone, Asleep, SomeoneAwake
  <2>4. Staffed(n)'
    BY <1>s, <1>1, <1>2 DEF Staffed
  <2>5. Detached(n)'
    BY <1>s, <1>2 DEF Detached, Retiring
  <2> QED
    BY <2>3, <2>4, <2>5
<1>6. ASSUME NEW q \in Pool, q # n
      PROVE  PoolAlone(q)' /\ Staffed(q)' /\ Detached(q)'
  <2>1. PoolAlone(q) /\ Staffed(q) /\ Detached(q) /\ q \in Nat /\ q > 0 /\ pools \in Nat
    BY <1>t, PoolTypes DEF ExecutorIInv
  <2>2. Untouched(q)
    BY <1>1, <1>2, <1>6 DEF Untouched
  <2>3. PoolAlone(q)'
    BY <1>t, <2>1, <2>2, UntouchedKeeps
  <2>4. q <= n <=> q <= pools
    BY <2>1, <1>6
  <2>5. Staffed(q)'
    BY <1>2, <1>6, <2>1, <2>2, <2>4 DEF Staffed, Untouched
  <2>6. Detached(q)'
    <3>1. q # async_exec' /\ q # async_exec /\ inFlight'[q] = inFlight[q] /\ waiter'[q] = waiter[q]
      BY <1>2, <1>6, <2>1, <2>2 DEF Untouched
    <3> QED
      BY <2>1, <3>1 DEF Detached, Retiring
  <2> QED
    BY <2>3, <2>5, <2>6
<1> QED
  BY <1>3, <1>4, <1>5, <1>6 DEF ExecutorIInv

\* The pool to come is a pool, and nothing is known of it yet.
LEMMA PoolToCome ==
  ASSUME ExecutorIInv, CreatePool
  PROVE  /\ pools + 1 \in Pool /\ async_exec = 0 /\ pools' = pools + 1 /\ async_exec' = pools'
         /\ worker' = [worker EXCEPT ![pools'] = [w \in Workers |-> "loop"]]
         /\ tasks[pools + 1] = <<>> /\ inFlight[pools + 1] = 0
<1>1. /\ pools \in Nat /\ pools < MaxPools /\ async_exec = 0 /\ pools' = pools + 1 /\ async_exec' = pools'
      /\ worker' = [worker EXCEPT ![pools'] = [w \in Workers |-> "loop"]]
  BY PoolTypes DEF ExecutorIInv, CreatePool
<1>2. pools + 1 \in Pool
  BY <1>1 DEF Pool
<1>3. Staffed(pools + 1)
  BY <1>2 DEF ExecutorIInv
<1> QED
  BY <1>1, <1>2, <1>3 DEF Staffed

\* call_async() gets hold of the pool, or of a new one, ...
LEMMA EnsureKeeps ==
  ASSUME ExecutorIInv, NEW s \in Submitters, Ensure(s)
  PROVE  ExecutorIInv'
<1>t. ExecutorTypeOK /\ PostsToCurrent
  BY DEF ExecutorIInv
<1>c. posting \in [Submitters -> 0..MaxPools] /\ async_exec \in 0..MaxPools
  <2>1. async_exec \in Nat /\ async_exec <= pools /\ pools \in Nat /\ pools <= MaxPools
    BY <1>t, PoolTypes
  <2>2. posting \in [Submitters -> 0..MaxPools]
    BY <1>t DEF ExecutorTypeOK
  <2> QED
    BY <2>1, <2>2
<1>1. /\ posting' = [posting EXCEPT ![s] = async_exec'] /\ owner = "out" /\ ~freed
      /\ UNCHANGED <<tasks, inFlight, stopping, task, owner, waiter, submitted, done, freed>>
  BY DEF Ensure
<1>2. CASE CreatePool
  <2>1. PICK n \in Pool : n = pools + 1
    BY <1>2, PoolToCome
  <2>2. NewPool(n) /\ async_exec = 0 /\ async_exec' = n /\ tasks[n] = <<>> /\ inFlight[n] = 0
    BY <1>1, <1>2, <2>1, PoolToCome DEF NewPool
  <2>3. /\ posting' \in [Submitters -> 0..MaxPools]
        /\ \A r \in Submitters : posting'[r] # 0 => posting'[r] = n
    BY <1>t, <1>c, <1>1, <2>2 DEF PostsToCurrent, Pool
  <2>4. /\ tasks' \in [Pool -> Seq(Tasks)] /\ inFlight' \in [Pool -> 0..MaxTasks]
        /\ submitted' \in 0..MaxTasks /\ submitted <= submitted'
        /\ tasks' = tasks /\ inFlight' = inFlight
    <3>1. submitted \in 0..MaxTasks /\ submitted' = submitted
      BY <1>t, <1>1 DEF ExecutorTypeOK
    <3>2. tasks \in [Pool -> Seq(Tasks)] /\ inFlight \in [Pool -> 0..MaxTasks]
      BY <1>t DEF ExecutorTypeOK
    <3> QED
      BY <1>1, <3>1, <3>2
  <2>5. inFlight'[n] = Len(tasks'[n]) /\ inFlight'[n] <= submitted'
    BY <2>2, <2>4, EmptySeq
  <2> QED
    BY <1>1, <2>1, <2>2, <2>3, <2>4, <2>5, NewPoolKeeps
<1>3. CASE async_exec # 0 /\ UNCHANGED <<async_exec, pools, worker>>
  <2>1. /\ posting' \in [Submitters -> 0..MaxPools]
        /\ \A r \in Submitters : posting'[r] # 0 => posting'[r] = async_exec
    BY <1>t, <1>c, <1>1, <1>3 DEF PostsToCurrent
  <2>2. ExecutorTypeOK' /\ PostsToCurrent' /\ FreedByOwner'
    BY <1>1, <1>3, <2>1 DEF ExecutorIInv, ExecutorTypeOK, PostsToCurrent, FreedByOwner
  <2>3. ASSUME NEW q \in Pool
        PROVE  PoolAlone(q)' /\ Staffed(q)' /\ Detached(q)'
    <3>1. PoolAlone(q) /\ Staffed(q) /\ Detached(q)
      BY DEF ExecutorIInv
    <3>2. PoolAlone(q)'
      BY <1>1, <1>3, <3>1 DEF PoolAlone, InFlightCounts, Running, SomeoneAwake
    <3>3. Staffed(q)' /\ Detached(q)'
      BY <1>1, <1>3, <3>1 DEF Staffed, Detached, Retiring
    <3> QED
      BY <3>2, <3>3
  <2> QED
    BY <2>2, <2>3 DEF ExecutorIInv
<1> QED
  BY <1>2, <1>3 DEF Ensure

\* ... and queues its call.
LEMMA PostKeeps ==
  ASSUME ExecutorIInv, NEW s \in Submitters, Post(s)
  PROVE  ExecutorIInv'
<1>t. /\ ExecutorTypeOK /\ PostsToCurrent /\ posting \in [Submitters -> 0..MaxPools]
      /\ posting[s] = async_exec /\ async_exec # 0 /\ owner = "out"
  BY DEF ExecutorIInv, ExecutorTypeOK, PostsToCurrent, Post
<1>1. PICK p \in Pool : p = async_exec
  BY <1>t, PoolTypes DEF Pool
<1>2. ~stopping[p]
  BY <1>t, <1>1 DEF ExecutorIInv, Detached
<1>3. /\ PostTo(p) /\ submitted < MaxTasks /\ posting' = [posting EXCEPT ![s] = 0]
      /\ UNCHANGED <<async_exec, pools, stopping, task, owner, done, freed>>
  BY <1>t, <1>1 DEF Post
<1>4. /\ posting' \in [Submitters -> 0..MaxPools]
      /\ \A r \in Submitters : posting'[r] # 0 => posting[r] = posting'[r]
  BY <1>t, <1>3
<1> QED
  BY <1>t, <1>1, <1>2, <1>3, <1>4, PostToKeeps

\* A callback does both at once.
LEMMA PostFromCallbackKeeps ==
  ASSUME ExecutorIInv, NEW p \in Pool, NEW w \in Workers, PostFromCallback(p, w)
  PROVE  ExecutorIInv'
<1>t. /\ ExecutorTypeOK /\ PostsToCurrent /\ submitted \in Nat /\ p # 0
      /\ submitted < MaxTasks /\ worker[p][w] = "runs"
  BY PoolTypes DEF ExecutorIInv, PostFromCallback
<1>c. posting \in [Submitters -> 0..MaxPools]
  BY <1>t DEF ExecutorTypeOK
<1>1. /\ UNCHANGED <<stopping, task, posting, owner, done, freed>>
      /\ owner = "destroy" => async_exec = p
  BY DEF PostFromCallback
<1>2. CASE async_exec # 0 /\ PostTo(async_exec) /\ UNCHANGED <<async_exec, pools>>
  <2>1. PICK c \in Pool : c = async_exec
    BY <1>t, <1>2, PoolTypes DEF Pool
  <2>2. Detached(c)
    BY DEF ExecutorIInv
  <2>3. CASE owner = "destroy"
    <3>1. c = p /\ ~stopping[c] /\ inFlight[c] > 0
      BY <1>t, <1>1, <2>1, <2>3, RunsCounted
    <3>2. waiter[c] # "none"
      BY <2>2, <2>3, <3>1 DEF Detached
    <3> QED
      BY <1>t, <1>c, <1>1, <1>2, <2>1, <3>1, <3>2, PostToKeeps
  <2>4. CASE owner # "destroy"
    <3>1. ~stopping[c]
      BY <2>1, <2>2, <2>4 DEF Detached
    <3> QED
      BY <1>t, <1>c, <1>1, <1>2, <2>1, <2>4, <3>1, PostToKeeps
  <2> QED
    BY <2>3, <2>4
<1>3. CASE /\ CreatePool /\ UNCHANGED waiter
           /\ submitted' = submitted + 1
           /\ tasks' = [tasks EXCEPT ![pools'] = <<submitted'>>]
           /\ inFlight' = [inFlight EXCEPT ![pools'] = 1]
  <2>1. PICK n \in Pool : n = pools + 1
    BY <1>3, PoolToCome
  <2>2. NewPool(n) /\ async_exec = 0 /\ pools' = n
    BY <1>1, <1>3, <2>1, PoolToCome DEF NewPool
  <2>3. owner # "destroy"
    BY <1>t, <1>1, <2>2
  <2>4. \A r \in Submitters : posting'[r] = 0
    BY <1>t, <1>1, <2>2 DEF PostsToCurrent
  <2>5. submitted' \in Tasks /\ submitted' \in 0..MaxTasks /\ submitted <= submitted' /\ 1 <= submitted'
    BY <1>t, <1>3 DEF Tasks
  <2>6. <<submitted'>> \in Seq(Tasks) /\ Len(<<submitted'>>) = 1
    BY <2>5
  <2>7. /\ tasks' \in [Pool -> Seq(Tasks)] /\ tasks'[n] = <<submitted'>>
        /\ \A q \in Pool : q # n => tasks'[q] = tasks[q]
    <3>1. tasks \in [Pool -> Seq(Tasks)] /\ tasks' = [tasks EXCEPT ![n] = <<submitted'>>]
      BY <1>t, <1>3, <2>2 DEF ExecutorTypeOK
    <3> QED
      BY <2>6, <3>1
  <2>8. /\ inFlight' \in [Pool -> 0..MaxTasks] /\ inFlight'[n] = 1
        /\ \A q \in Pool : q # n => inFlight'[q] = inFlight[q]
    <3>1. inFlight \in [Pool -> 0..MaxTasks] /\ inFlight' = [inFlight EXCEPT ![n] = 1]
      BY <1>t, <1>3, <2>2 DEF ExecutorTypeOK
    <3>2. 1 \in 0..MaxTasks
      BY <2>5 DEF Tasks
    <3> QED
      BY <3>1, <3>2
  <2>9. inFlight'[n] = Len(tasks'[n]) /\ inFlight'[n] <= submitted'
    BY <2>5, <2>6, <2>7, <2>8
  <2> QED
    BY <1>t, <1>c, <1>1, <2>1, <2>2, <2>3, <2>4, <2>5, <2>7, <2>8, <2>9, NewPoolKeeps
<1> QED
  BY <1>2, <1>3 DEF PostFromCallback

-----------------------------------------------------------------------------
\* The invariant holds at first, ...
LEMMA ExecutorStarts == ExecutorInit => ExecutorIInv
<1> SUFFICES ASSUME ExecutorInit
             PROVE  ExecutorIInv
  OBVIOUS
<1>1. /\ async_exec = 0 /\ pools = 0 /\ tasks = [p \in Pool |-> <<>>] /\ inFlight = [p \in Pool |-> 0]
      /\ stopping = [p \in Pool |-> FALSE] /\ worker = [p \in Pool |-> [w \in Workers |-> "gone"]]
      /\ task = [p \in Pool |-> [w \in Workers |-> 0]] /\ posting = [s \in Submitters |-> 0]
      /\ owner = "out" /\ waiter = [p \in Pool |-> "none"] /\ submitted = 0 /\ done = {} /\ freed = FALSE
  BY DEF ExecutorInit
<1>2. ExecutorTypeOK
  <2>1. tasks \in [Pool -> Seq(Tasks)]
    BY <1>1, EmptySeq
  <2>2. worker \in [Pool -> [Workers -> Places]]
    BY <1>1 DEF Places
  <2>3. /\ inFlight \in [Pool -> 0..MaxTasks] /\ task \in [Pool -> [Workers -> 0..MaxTasks]]
        /\ posting \in [Submitters -> 0..MaxPools]
    BY <1>1
  <2>4. /\ stopping \in [Pool -> BOOLEAN]
        /\ waiter \in [Pool -> {"none", "owner", "retire", "asleep owner", "asleep retire"}]
    BY <1>1
  <2>5. pools \in 0..MaxPools /\ async_exec \in 0..pools /\ submitted \in 0..MaxTasks
    BY <1>1
  <2> QED
    BY <1>1, <2>1, <2>2, <2>3, <2>4, <2>5 DEF ExecutorTypeOK
<1>3. PostsToCurrent /\ FreedByOwner
  BY <1>1 DEF PostsToCurrent, FreedByOwner
<1>4. ASSUME NEW p \in Pool
      PROVE  PoolAlone(p) /\ Staffed(p) /\ Detached(p)
  <2>1. Runs(p) = 0
    <3> DEFINE f == worker[p]
    <3>1. \A v \in Workers : f[v] # "runs"
      BY <1>1
    <3>2. Runs(p) = Count(Workers, f, "runs")
      BY DEF Runs
    <3> HIDE DEF f
    <3> QED
      BY <3>1, <3>2, CountZero
  <2>2. Len(tasks[p]) = 0 /\ tasks[p] = <<>>
    BY <1>1, EmptySeq
  <2>3. InFlightCounts(p)
    BY <1>1, <2>1, <2>2, RunsType
  <2>4. PoolAlone(p)
    BY <1>1, <2>2, <2>3 DEF PoolAlone, Asleep
  <2>5. Staffed(p)
    BY <1>1 DEF Staffed, Pool
  <2>6. Detached(p)
    BY <1>1 DEF Detached, Retiring
  <2> QED
    BY <2>4, <2>5, <2>6
<1> QED
  BY <1>2, <1>3, <1>4 DEF ExecutorIInv

\* ... every step keeps it, ...
LEMMA ExecutorKeeps == ExecutorIInv /\ [ExecutorNext]_executorVars => ExecutorIInv'
<1> SUFFICES ASSUME ExecutorIInv, [ExecutorNext]_executorVars
             PROVE  ExecutorIInv'
  OBVIOUS
<1>0. \A p \in 1..pools : p \in Pool /\ p <= pools
  BY PoolTypes DEF ExecutorIInv, Pool
<1>1. CASE \E s \in Submitters : Ensure(s) \/ Post(s)
  BY <1>1, EnsureKeeps, PostKeeps
<1>2. CASE Swap \/ Destroy \/ Free
  BY <1>2, SwapKeeps, DestroyKeeps, FreeKeeps
<1>3. CASE \E p \in 1..pools : PoolStep(p)
  BY <1>0, <1>3, PoolStepKeeps
<1>4. CASE \E p \in 1..pools : \E w \in Workers : PostFromCallback(p, w) \/ SwapFromCallback(p, w)
  BY <1>0, <1>4, PostFromCallbackKeeps, SwapFromCallbackKeeps
<1>5. CASE UNCHANGED executorVars
  <2>1. UNCHANGED <<async_exec, pools, tasks, inFlight, stopping, worker, task, posting, owner, waiter,
                    submitted, done, freed>>
    BY <1>5 DEF executorVars
  <2>2. ExecutorTypeOK' /\ PostsToCurrent' /\ FreedByOwner'
    BY <2>1 DEF ExecutorIInv, ExecutorTypeOK, PostsToCurrent, FreedByOwner
  <2>3. ASSUME NEW p \in Pool
        PROVE  PoolAlone(p)' /\ Staffed(p)' /\ Detached(p)'
    <3>1. PoolAlone(p) /\ Staffed(p) /\ Detached(p)
      BY DEF ExecutorIInv
    <3>2. PoolAlone(p)'
      BY <2>1, <3>1 DEF PoolAlone, InFlightCounts, Running, SomeoneAwake
    <3>3. Staffed(p)' /\ Detached(p)'
      BY <2>1, <3>1 DEF Staffed, Detached, Retiring
    <3> QED
      BY <3>2, <3>3
  <2> QED
    BY <2>2, <2>3 DEF ExecutorIInv
<1> QED
  BY <1>1, <1>2, <1>3, <1>4, <1>5 DEF ExecutorNext

\* ... and it is strong enough.
LEMMA ExecutorIInvImplies == ExecutorIInv => ExecutorInv
<1> SUFFICES ASSUME ExecutorIInv
             PROVE  ExecutorInv
  OBVIOUS
<1>0. ExecutorTypeOK /\ FreedByOwner /\ \A p \in Pool : PoolAlone(p) /\ Staffed(p) /\ Detached(p)
  BY DEF ExecutorIInv
<1>1. InFlightExact
  BY <1>0 DEF InFlightExact, PoolAlone, InFlightCounts
<1>2. NoStranded
  <2>1. \A p \in 1..pools : p \in Pool
    BY <1>0, PoolTypes DEF Pool
  <2> QED
    BY <1>0, <2>1 DEF NoStranded, PoolAlone, SomeoneAwake
<1>3. FreedAfterCalls
  <2>1. SUFFICES ASSUME freed, NEW p \in Pool, ~Retiring(p)
                 PROVE  inFlight[p] = 0
    BY DEF FreedAfterCalls
  <2>2. waiter[p] = "none" /\ owner = "destroy" /\ inFlight[p] \in Nat
    BY <1>0, <2>1, PoolTypes DEF FreedByOwner, Retiring, WaiterPlaces
  <2> QED
    BY <1>0, <2>2 DEF Detached
<1> QED
  BY <1>0, <1>1, <1>2, <1>3 DEF ExecutorInv

\* For any number of workers, callers, calls and pools: a pool's in_flight is
\* the number of its queued and running calls, a queued call always has a
\* worker awake although workers and the thread in wait_idle() share one
\* condition variable, and ~RpcClient() returns only after the calls of every
\* pool that no detached thread drains (RpcAsyncExecutor, rpc.cpp).
THEOREM ExecutorInvariant == ExecutorSpec => []ExecutorInv
<1>1. ExecutorInit => ExecutorIInv
  BY ExecutorStarts
<1>2. ExecutorIInv /\ [ExecutorNext]_executorVars => ExecutorIInv'
  BY ExecutorKeeps
<1>3. ExecutorIInv => ExecutorInv
  BY ExecutorIInvImplies
<1> QED
  BY <1>1, <1>2, <1>3, PTL DEF ExecutorSpec

-----------------------------------------------------------------------------
(***************************************************************************)
(* The retry loop of ClientCalls, for any calls, delays and budget.  Calls *)
(* share the place in which a server's advice is kept, and may read that   *)
(* of another: where all servers give the same advice (one value in        *)
(* RetryAfters) every pause is the documented one.                         *)
(***************************************************************************)

CallsIInv ==
  /\ CallsTypeOK
  /\ \A c \in Calls : failure[c] = "OVERLOADED" => {advice[c], retryAfter} \subseteq RetryAfters
  /\ \A c \in Calls : pc[c] # "done" => attempt[c] <= MaxRetries

\* A power of two is a number.
LEMMA PowerType ==
  ASSUME NEW n \in Nat
  PROVE  2 ^ n \in Nat
<1>1. IsFiniteSet(1..n) /\ Cardinality(1..n) = IF 1 > n THEN 0 ELSE n - 1 + 1
  BY FS_Interval
<1>2. Cardinality(1..n) = n
  BY <1>1
<1>3. IsFiniteSet(SUBSET (1..n)) /\ Cardinality(SUBSET (1..n)) = 2 ^ n
  BY <1>1, <1>2, FS_SUBSET
<1> QED
  BY <1>3, FS_CardinalityType

\* A call that ends says so, and what it reports is an error.
LEMMA ReportTypes ==
  ASSUME CallsIInv, NEW c \in Calls, NEW e \in Errors, Report(c, e)
  PROVE  /\ lastError' \in Errors /\ error' \in [Calls -> Errors]
         /\ pc' \in [Calls -> {"idle", "try", "decide", "done"}]
         /\ \A d \in Calls : pc'[d] # "done" => d # c /\ pc[d] # "done"
BY DEF Report, CallsIInv, CallsTypeOK

\* The request is built, or cannot be.
LEMMA StartKeeps ==
  ASSUME CallsIInv, NEW c \in Calls, Start(c)
  PROVE  CallsIInv'
<1>1. UNCHANGED <<retryAfter, attempt, failure, elapsed, waited, advice>>
  BY DEF Start
<1>2. /\ lastError' \in Errors /\ error' \in [Calls -> Errors]
      /\ pc' \in [Calls -> {"idle", "try", "decide", "done"}]
      /\ \A d \in Calls : pc'[d] # "done" => pc[d] # "done"
  <2>1. CASE Report(c, "PROTOCOL")
    BY <2>1, ReportTypes DEF Errors
  <2>2. CASE pc' = [pc EXCEPT ![c] = "try"] /\ UNCHANGED <<lastError, error>>
    <3>1. pc[c] = "idle"
      BY DEF Start
    <3> QED
      BY <2>2, <3>1 DEF CallsIInv, CallsTypeOK
  <2> QED
    BY <2>1, <2>2 DEF Start
<1> QED
  BY <1>1, <1>2 DEF CallsIInv, CallsTypeOK

\* An attempt, whatever comes of it: advice is written to both places at once.
LEMMA TryKeeps ==
  ASSUME CallsIInv, NEW c \in Calls, Try(c)
  PROVE  CallsIInv'
<1>1. UNCHANGED <<attempt, waited>>
  BY DEF Try
<1>2. elapsed' \in [Calls -> Nat]
  <2>1. PICK d \in Durations : elapsed' = [elapsed EXCEPT ![c] = @ + d]
    BY DEF Try
  <2>2. elapsed \in [Calls -> Nat] /\ d \in Nat
    BY CallsAssumption DEF CallsAssumption, CallsIInv, CallsTypeOK
  <2> QED
    BY <2>1, <2>2
<1>3. CASE \E e \in {"OK", "SERVER", "PROTOCOL"} :
             Report(c, e) /\ UNCHANGED <<failure, retryAfter, advice>>
  <2>1. PICK e \in {"OK", "SERVER", "PROTOCOL"} :
          Report(c, e) /\ UNCHANGED <<failure, retryAfter, advice>>
    BY <1>3
  <2>2. e \in Errors
    BY DEF Errors
  <2>3. /\ lastError' \in Errors /\ error' \in [Calls -> Errors]
        /\ pc' \in [Calls -> {"idle", "try", "decide", "done"}]
        /\ \A d \in Calls : pc'[d] # "done" => pc[d] # "done"
    BY <2>1, <2>2, ReportTypes
  <2> QED
    BY <1>1, <1>2, <2>1, <2>3 DEF CallsIInv, CallsTypeOK
<1>4. CASE Fails(c) /\ pc' = [pc EXCEPT ![c] = "decide"] /\ UNCHANGED <<lastError, error>>
  <2>1. /\ pc' \in [Calls -> {"idle", "try", "decide", "done"}]
        /\ \A d \in Calls : pc'[d] # "done" => pc[d] # "done"
    <3>1. pc[c] = "try"
      BY DEF Try
    <3> QED
      BY <1>4, <3>1 DEF CallsIInv, CallsTypeOK
  <2>2. /\ retryAfter' \in RetryAfters \cup {0}
        /\ failure' \in [Calls -> Retryable \cup {"UNKNOWN"}]
        /\ advice' \in [Calls -> RetryAfters \cup {0}]
        /\ \A d \in Calls : failure'[d] = "OVERLOADED" => {advice'[d], retryAfter'} \subseteq RetryAfters
    <3>1. CASE failure' = [failure EXCEPT ![c] = "TIMEOUT"] /\ UNCHANGED <<retryAfter, advice>>
      BY <3>1 DEF CallsIInv, CallsTypeOK, Retryable
    <3>2. CASE \E ra \in RetryAfters :
                 /\ failure' = [failure EXCEPT ![c] = "OVERLOADED"]
                 /\ retryAfter' = ra
                 /\ advice' = [advice EXCEPT ![c] = ra]
      BY <3>2 DEF CallsIInv, CallsTypeOK, Retryable
    <3> QED
      BY <1>4, <3>1, <3>2 DEF Fails
  <2> QED
    BY <1>1, <1>2, <1>4, <2>1, <2>2 DEF CallsIInv, CallsTypeOK
<1> QED
  BY <1>3, <1>4 DEF Try

\* What a pause may be, and that it is a number.
LEMMA PausesAre ==
  ASSUME CallsIInv, NEW c \in Calls, NEW wait \in Waits(c, attempt[c] + 1)
  PROVE  LET full == IF BaseDelay * 2 ^ attempt[c] <= MaxDelay
                       THEN BaseDelay * 2 ^ attempt[c] ELSE MaxDelay
         IN  /\ wait \in Nat
             /\ IF failure[c] = "OVERLOADED" /\ retryAfter > 0 THEN wait = retryAfter
                ELSE wait <= full /\ 2 * wait >= full - 1
<1> DEFINE a == attempt[c]
           power == 2 ^ a
           delay == BaseDelay * power
           full == IF delay <= MaxDelay THEN delay ELSE MaxDelay
<1>1. BaseDelay \in Nat /\ MaxDelay \in Nat /\ BaseDelay <= MaxDelay /\ MaxRetries \in Nat
  BY CallsAssumption DEF CallsAssumption
<1>2. a \in Nat
  <2>1. a \in 0..MaxRetries + 1
    BY DEF CallsIInv, CallsTypeOK
  <2> QED
    BY <1>1, <2>1
<1>3. retryAfter \in Nat
  <2>1. RetryAfters \cup {0} \subseteq Nat
    BY CallsAssumption DEF CallsAssumption
  <2>2. retryAfter \in RetryAfters \cup {0}
    BY DEF CallsIInv, CallsTypeOK
  <2> QED
    BY <2>1, <2>2
<1>4. power \in Nat /\ (a = 0 => power = 1)
  <2>1. power \in Nat
    BY <1>2, PowerType
  <2>2. 2 ^ 0 = 1
    OBVIOUS
  <2>3. a = 0 => power = 2 ^ 0
    OBVIOUS
  <2> QED
    BY <2>1, <2>2, <2>3
<1>5. (a + 1) - 1 = a
  BY <1>2
<1>6. Backoff(a + 1) = IF a + 1 > 1 /\ delay >= MaxDelay THEN MaxDelay ELSE delay
  BY <1>5 DEF Backoff
<1> HIDE DEF power
<1>7. delay \in Nat /\ (a = 0 => delay = BaseDelay)
  <2>1. BaseDelay * power \in Nat
    BY <1>1, <1>4
  <2>2. BaseDelay * 1 = BaseDelay
    BY <1>1
  <2> QED
    BY <1>4, <2>1, <2>2
<1> HIDE DEF delay
<1>8. Backoff(a + 1) = full /\ full \in Nat
  <2>1. a + 1 > 1 <=> a # 0
    BY <1>2
  <2> QED
    BY <1>1, <1>6, <1>7, <2>1
<1> HIDE DEF full
<1>9. wait \in IF failure[c] = "OVERLOADED" /\ retryAfter > 0 THEN {retryAfter} ELSE Jittered(full)
  BY <1>8 DEF Waits
<1>10. ASSUME wait \in Jittered(full)
       PROVE  wait \in Nat /\ wait <= full /\ 2 * wait >= full - 1
  <2>1. CASE wait \in {full}
    BY <1>8, <2>1
  <2>2. CASE wait \in (full \div 2)..(2 * (full \div 2) - 1)
    <3> DEFINE half == full \div 2
    <3>1. half \in Nat /\ 2 * half <= full /\ 2 * half >= full - 1
      BY <1>8
    <3>2. wait \in half..(2 * half - 1)
      BY <2>2
    <3> HIDE DEF half
    <3> QED
      BY <1>8, <3>1, <3>2
  <2> QED
    BY <1>10, <2>1, <2>2 DEF Jittered
<1>11. wait \in Nat /\ IF failure[c] = "OVERLOADED" /\ retryAfter > 0 THEN wait = retryAfter
                       ELSE wait <= full /\ 2 * wait >= full - 1
  BY <1>3, <1>9, <1>10
<1> QED
  BY <1>11 DEF full, delay, power

\* The loop comes round: it ends, or pauses within the budget.
LEMMA DecideKeeps ==
  ASSUME CallsIInv, NEW c \in Calls, Decide(c)
  PROVE  CallsIInv'
<1>1. UNCHANGED <<retryAfter, failure, advice>> /\ pc[c] = "decide" /\ failure[c] \in Errors
      /\ attempt' = [attempt EXCEPT ![c] = @ + 1]
  BY DEF Decide, CallsIInv, CallsTypeOK, Errors
<1>2. MaxRetries \in Nat /\ attempt \in [Calls -> 0..MaxRetries + 1]
      /\ elapsed \in [Calls -> Nat] /\ waited \in [Calls -> Nat]
  BY CallsAssumption DEF CallsAssumption, CallsIInv, CallsTypeOK
<1>3. \A d \in Calls : pc[d] # "done" => attempt[d] <= MaxRetries
  BY DEF CallsIInv
<1>4. /\ attempt' \in [Calls -> 0..MaxRetries + 1] /\ attempt'[c] = attempt[c] + 1
      /\ \A d \in Calls : d # c => attempt'[d] = attempt[d]
  <2>1. attempt[c] \in 0..MaxRetries
    BY <1>1, <1>2, <1>3
  <2>2. attempt[c] + 1 \in 0..MaxRetries + 1
    BY <1>2, <2>1
  <2> QED
    BY <1>1, <1>2, <2>2
<1>5. CASE Report(c, failure[c]) /\ UNCHANGED <<elapsed, waited>>
  <2>1. /\ lastError' \in Errors /\ error' \in [Calls -> Errors]
        /\ pc' \in [Calls -> {"idle", "try", "decide", "done"}]
        /\ \A d \in Calls : pc'[d] # "done" => d # c /\ pc[d] # "done"
    BY <1>1, <1>5, ReportTypes
  <2>2. \A d \in Calls : pc'[d] # "done" => attempt'[d] <= MaxRetries
    BY <1>3, <1>4, <2>1
  <2> QED
    BY <1>1, <1>4, <1>5, <2>1, <2>2 DEF CallsIInv, CallsTypeOK
<1>6. CASE ~Spent(c) /\ \E wait \in Waits(c, attempt[c] + 1) :
                          /\ elapsed' = [elapsed EXCEPT ![c] = @ + wait]
                          /\ waited' = [waited EXCEPT ![c] = @ + wait]
                          /\ pc' = [pc EXCEPT ![c] = "try"]
                          /\ UNCHANGED <<lastError, error>>
  <2>1. PICK wait \in Waits(c, attempt[c] + 1) :
          /\ elapsed' = [elapsed EXCEPT ![c] = @ + wait]
          /\ waited' = [waited EXCEPT ![c] = @ + wait]
          /\ pc' = [pc EXCEPT ![c] = "try"]
          /\ UNCHANGED <<lastError, error>>
    BY <1>6
  <2>2. wait \in Nat
    BY PausesAre
  <2>3. elapsed' \in [Calls -> Nat] /\ waited' \in [Calls -> Nat]
    BY <1>2, <2>1, <2>2
  <2>4. attempt'[c] <= MaxRetries
    BY <1>2, <1>4, <1>6 DEF Spent
  <2>5. pc' \in [Calls -> {"idle", "try", "decide", "done"}]
        /\ \A d \in Calls : d # c => pc'[d] = pc[d]
    BY <2>1 DEF CallsIInv, CallsTypeOK
  <2>6. \A d \in Calls : pc'[d] # "done" => attempt'[d] <= MaxRetries
    BY <1>3, <1>4, <2>4, <2>5
  <2> QED
    BY <1>1, <1>4, <2>1, <2>3, <2>5, <2>6 DEF CallsIInv, CallsTypeOK
<1> QED
  BY <1>5, <1>6 DEF Decide

\* The client keeps to its types, and where a call was told to wait the advice is
\* some server's, in both places.
LEMMA CallsInvariant == CallsSpec => []CallsIInv
<1>1. ASSUME CallsInit PROVE CallsIInv
  <2>1. MaxRetries \in Nat
    BY CallsAssumption DEF CallsAssumption
  <2> QED
    BY <1>1, <2>1 DEF CallsInit, CallsIInv, CallsTypeOK, Errors, Retryable
<1>2. ASSUME CallsIInv, [CallsNext]_callsVars PROVE CallsIInv'
  <2>1. CASE UNCHANGED callsVars
    BY <1>2, <2>1 DEF callsVars, CallsIInv, CallsTypeOK
  <2> QED
    BY <1>2, <2>1, StartKeeps, TryKeeps, DecideKeeps DEF CallsNext, Step
<1> QED
  BY <1>1, <1>2, PTL DEF CallsSpec

\* The types of the retry loop.
THEOREM CallsTypes == CallsSpec => []CallsTypeOK
<1>1. CallsIInv => CallsTypeOK
  BY DEF CallsIInv
<1> QED
  BY <1>1, CallsInvariant, PTL

\* Where all servers give the same advice, what an overloaded server advises is followed
\* to the letter, every other failure is followed by the limited backoff, and no pause
\* ends later than the budget after the call began.
THEOREM PausesKept ==
  ASSUME \A a, b \in RetryAfters : a = b
  PROVE  CallsSpec => PausesAsDocumented
<1> DEFINE Documented ==
      \A c \in Calls : Sleeps(c) =>
        LET pause == elapsed'[c] - elapsed[c]
            full == IF BaseDelay * 2 ^ attempt[c] <= MaxDelay
                      THEN BaseDelay * 2 ^ attempt[c] ELSE MaxDelay
        IN  /\ elapsed'[c] <= Budget
            /\ IF failure[c] = "OVERLOADED" /\ advice[c] > 0 THEN pause = advice[c]
               ELSE pause <= full /\ 2 * pause >= full - 1
<1>1. ASSUME CallsIInv, CallsNext PROVE Documented
  <2> SUFFICES ASSUME NEW c \in Calls, Sleeps(c)
               PROVE  LET pause == elapsed'[c] - elapsed[c]
                          full == IF BaseDelay * 2 ^ attempt[c] <= MaxDelay
                                    THEN BaseDelay * 2 ^ attempt[c] ELSE MaxDelay
                      IN  /\ elapsed'[c] <= Budget
                          /\ IF failure[c] = "OVERLOADED" /\ advice[c] > 0 THEN pause = advice[c]
                             ELSE pause <= full /\ 2 * pause >= full - 1
    OBVIOUS
  <2>1. pc[c] = "decide" /\ pc'[c] = "try"
    BY DEF Sleeps
  <2>2. /\ pc \in [Calls -> {"idle", "try", "decide", "done"}] /\ elapsed \in [Calls -> Nat]
        /\ advice \in [Calls -> RetryAfters \cup {0}]
    BY <1>1 DEF CallsIInv, CallsTypeOK
  <2>3. PICK d \in Calls : Start(d) \/ Try(d) \/ Decide(d)
    BY <1>1 DEF CallsNext, Step
  <2>4. c = d
    <3>1. \E q \in {"try", "decide", "done"} : pc' = [pc EXCEPT ![d] = q]
      BY <2>3 DEF Start, Try, Decide, Report
    <3> QED
      BY <2>1, <2>2, <3>1
  <2>5. Decide(c)
    BY <2>1, <2>3, <2>4 DEF Start, Try
  <2>6. \A e : Report(c, e) => pc'[c] = "done"
    BY <2>2 DEF Report
  <2>7. PICK wait \in Waits(c, attempt[c] + 1) :
          ~TooLong(c, wait) /\ elapsed' = [elapsed EXCEPT ![c] = @ + wait]
    BY <2>1, <2>5, <2>6 DEF Decide
  <2> DEFINE full == IF BaseDelay * 2 ^ attempt[c] <= MaxDelay
                       THEN BaseDelay * 2 ^ attempt[c] ELSE MaxDelay
  <2>8. /\ wait \in Nat
        /\ IF failure[c] = "OVERLOADED" /\ retryAfter > 0 THEN wait = retryAfter
           ELSE wait <= full /\ 2 * wait >= full - 1
    BY <1>1, PausesAre
  <2> HIDE DEF full
  <2>9. elapsed[c] \in Nat /\ elapsed'[c] = elapsed[c] + wait /\ Budget \in Nat
    BY <2>2, <2>7, CallsAssumption DEF CallsAssumption
  <2>10. elapsed'[c] - elapsed[c] = wait
    BY <2>8, <2>9
  <2>11. elapsed'[c] <= Budget
    BY <2>7, <2>8, <2>9 DEF TooLong
  <2>12. failure[c] = "OVERLOADED" => advice[c] = retryAfter
    BY <1>1 DEF CallsIInv
  <2>13. IF failure[c] = "OVERLOADED" /\ advice[c] > 0 THEN elapsed'[c] - elapsed[c] = advice[c]
         ELSE elapsed'[c] - elapsed[c] <= full /\ 2 * (elapsed'[c] - elapsed[c]) >= full - 1
    BY <2>8, <2>10, <2>12
  <2> QED
    BY <2>11, <2>13 DEF full
<1>2. CallsIInv /\ [CallsNext]_callsVars => [Documented]_callsVars
  BY <1>1
<1>3. CallsSpec => [][Documented]_callsVars
  BY <1>2, CallsInvariant, PTL DEF CallsSpec
<1> QED
  BY <1>3 DEF PausesAsDocumented

-----------------------------------------------------------------------------
(***************************************************************************)
(* The balancer of LoadBalancer, for any calls, endpoints, strategies and  *)
(* thresholds, where failover stays on (Failovers).  The argument follows  *)
(* one call at a time: it is on one endpoint or on none, switches are      *)
(* counted when they are decided and again as attempts when they are made, *)
(* and an asynchronous call is counted among the chains while it may still *)
(* run its callback.                                                       *)
(***************************************************************************)

EndpointRecord ==
  [selected : Nat, attempts : Nat, failures : Nat, inFlight : Nat, consecutive : Nat,
   healthy : BOOLEAN, lastError : {"OK", "TIMEOUT", "SERVER"}]

\* Where an asynchronous call is counted in pending_async.
Chained == {"begin", "net", "answered", "finalize", "callback", "uncount"}

\* The calls that are about to try a candidate that is not their first.
Again == {c \in BalancedCalls : stage[c] = "begin" /\ index[c] > 1}

BalancerTypes ==
  /\ ep \in Seq(EndpointRecord) /\ Len(ep) \in First..MaxEndpoints
  /\ rr \in Nat
  /\ config \in [strategy : Strategies, failover : Failovers, threshold : Thresholds]
  /\ totals \in [calls : Nat, failures : Nat, failovers : Nat]
  /\ chains \in Nat /\ deleted \in BOOLEAN
  /\ stage \in [BalancedCalls -> Steps]
  /\ order \in [BalancedCalls -> Seq(Nat)]
  /\ index \in [BalancedCalls -> 1..MaxEndpoints + 1]
  /\ bound \in [BalancedCalls -> 0..MaxEndpoints]
  /\ outcome \in [BalancedCalls -> Answers \cup {"value"}]

\* A call has candidates from the moment it picks them, is at one of them until it is
\* over, and goes the way of its kind; a synchronous one may try all of them.
Candidates(c) ==
  /\ Len(order[c]) <= MaxEndpoints /\ \A i \in 1..Len(order[c]) : order[c][i] \in Endpoint
  /\ stage[c] \in {"idle", "bound", "count"} => index[c] = 1
  /\ stage[c] \notin {"idle", "done"} => index[c] <= Len(order[c])
  /\ c \in AsyncCalls => stage[c] \notin {"bound", "fail"}
  /\ c \notin AsyncCalls => stage[c] \notin {"count", "finalize", "callback", "uncount", "notify"}
  /\ c \notin AsyncCalls /\ stage[c] \in {"begin", "net", "answered"} => bound[c] = Len(order[c])
  /\ stage[c] = "finalize" /\ outcome[c] = "timeout" => index[c] = Len(order[c])

Accounts ==
  /\ \A e \in Endpoint : ep[e].selected <= ep[e].attempts
  /\ LoadExact /\ HealthExact /\ FailoversExact

Drains ==
  /\ chains = Cardinality(InGroup(AsyncCalls, stage, Chained))
  /\ DrainedBeforeFree

BalancerIInv ==
  BalancerTypes /\ (\A c \in BalancedCalls : Candidates(c)) /\ Accounts /\ Drains

\* The constants, and what an endpoint's record and a call's candidates are.
LEMMA BalancerSizes ==
  ASSUME BalancerTypes
  PROVE  /\ IsFiniteSet(BalancedCalls) /\ AsyncCalls \subseteq BalancedCalls /\ IsFiniteSet(AsyncCalls)
         /\ First \in Nat /\ MaxEndpoints \in Nat /\ Len(ep) \in Nat /\ Len(ep) <= MaxEndpoints
         /\ config.threshold \in Nat
         /\ \A e \in Endpoint : ep[e] \in EndpointRecord
         /\ \A c \in BalancedCalls : order[c] \in Seq(Nat) /\ Len(order[c]) \in Nat
         /\ \A c \in BalancedCalls : index[c] \in Nat \ {0} /\ index[c] <= MaxEndpoints + 1
<1>1. /\ IsFiniteSet(BalancedCalls) /\ AsyncCalls \subseteq BalancedCalls
      /\ First \in Nat /\ MaxEndpoints \in Nat /\ Thresholds \subseteq Nat
  BY BalancerAssumption DEF BalancerAssumption
<1>2. IsFiniteSet(AsyncCalls)
  BY <1>1, FS_Subset
<1>3. ep \in Seq(EndpointRecord) /\ Len(ep) \in Nat /\ Len(ep) <= MaxEndpoints
  BY <1>1, LenProperties DEF BalancerTypes
<1>4. \A e \in Endpoint : ep[e] \in EndpointRecord
  BY <1>3, ElementOfSeq DEF Endpoint
<1>5. config.threshold \in Thresholds
  BY DEF BalancerTypes
<1>6. \A c \in BalancedCalls : order[c] \in Seq(Nat)
  BY DEF BalancerTypes
<1>7. \A c \in BalancedCalls : Len(order[c]) \in Nat
  BY <1>6, LenProperties
<1>8. \A c \in BalancedCalls : index[c] \in Nat \ {0} /\ index[c] <= MaxEndpoints + 1
  <2>1. \A c \in BalancedCalls : index[c] \in 1..MaxEndpoints + 1
    BY DEF BalancerTypes
  <2> QED
    BY <1>1, <2>1
<1> QED
  BY <1>1, <1>2, <1>3, <1>4, <1>5, <1>6, <1>7, <1>8

\* One endpoint's record is replaced.
LEMMA OneEndpoint ==
  ASSUME BalancerTypes, NEW x \in Endpoint, NEW r \in EndpointRecord, ep' = [ep EXCEPT ![x] = r]
  PROVE  /\ ep' \in Seq(EndpointRecord) /\ Len(ep') = Len(ep) /\ ep'[x] = r
         /\ \A e \in Endpoint : e # x => ep'[e] = ep[e]
<1>1. ep \in Seq(EndpointRecord) /\ x \in 1..Len(ep)
  BY DEF BalancerTypes, Endpoint
<1>2. /\ [ep EXCEPT ![x] = r] \in Seq(EndpointRecord)
      /\ Len([ep EXCEPT ![x] = r]) = Len(ep)
      /\ \A j \in 1..Len(ep) : [ep EXCEPT ![x] = r][j] = IF j = x THEN r ELSE ep[j]
  BY ONLY <1>1, r \in EndpointRecord, ExceptSeq
<1> QED
  BY <1>1, <1>2 DEF Endpoint

\* One call comes to an endpoint, or leaves it.
LEMMA LoadChange ==
  ASSUME BalancerTypes, NEW c \in BalancedCalls, NEW e,
         \A d \in BalancedCalls : d # c =>
           stage'[d] = stage[d] /\ index'[d] = index[d] /\ order'[d] = order[d]
  PROVE  /\ Cardinality(OnEndpoint(e)) \in Nat
         /\ c \in OnEndpoint(e) => Cardinality(OnEndpoint(e)) > 0
         /\ Cardinality(OnEndpoint(e)') = Cardinality(OnEndpoint(e))
              + (IF c \in OnEndpoint(e)' THEN 1 ELSE 0) - (IF c \in OnEndpoint(e) THEN 1 ELSE 0)
<1> DEFINE A == OnEndpoint(e)
           B == OnEndpoint(e)'
<1>1. A \subseteq BalancedCalls /\ B \subseteq BalancedCalls
  BY DEF OnEndpoint
<1>2. \A d : d # c => (d \in B <=> d \in A)
  BY DEF OnEndpoint, At
<1>3. IsFiniteSet(A) /\ IsFiniteSet(B)
  BY <1>1, BalancerSizes, FS_Subset
<1> HIDE DEF A, B
<1>4. Cardinality(A) \in Nat
  BY <1>3, FS_CardinalityType
<1>5. c \in A => Cardinality(A) > 0
  BY <1>3, <1>4, FS_EmptySet
<1>6. CASE c \in A /\ c \notin B
  <2>1. B = A \ {c}
    BY <1>2, <1>6
  <2>2. Cardinality(A \ {c}) = Cardinality(A) - 1
    BY <1>3, <1>6, FS_RemoveElement
  <2> QED
    BY <1>4, <1>5, <1>6, <2>1, <2>2 DEF A, B
<1>7. CASE c \notin A /\ c \in B
  <2>1. B = A \cup {c}
    BY <1>2, <1>7
  <2>2. Cardinality(A \cup {c}) = Cardinality(A) + 1
    BY <1>3, <1>7, FS_AddElement
  <2> QED
    BY <1>4, <1>5, <1>7, <2>1, <2>2 DEF A, B
<1>8. CASE c \in A <=> c \in B
  <2>1. A = B
    BY <1>2, <1>8
  <2> QED
    BY <1>4, <1>5, <1>8, <2>1 DEF A, B
<1> QED
  BY <1>6, <1>7, <1>8

\* One call is about to try again, or no longer is.
LEMMA AgainChange ==
  ASSUME BalancerTypes, NEW c \in BalancedCalls,
         \A d \in BalancedCalls : d # c => stage'[d] = stage[d] /\ index'[d] = index[d]
  PROVE  /\ Cardinality(Again) \in Nat
         /\ c \in Again => Cardinality(Again) > 0
         /\ Cardinality(Again') = Cardinality(Again)
              + (IF c \in Again' THEN 1 ELSE 0) - (IF c \in Again THEN 1 ELSE 0)
<1> DEFINE A == Again
           B == Again'
<1>1. A \subseteq BalancedCalls /\ B \subseteq BalancedCalls
  BY DEF Again
<1>2. \A d : d # c => (d \in B <=> d \in A)
  BY DEF Again
<1>3. IsFiniteSet(A) /\ IsFiniteSet(B)
  BY <1>1, BalancerSizes, FS_Subset
<1> HIDE DEF A, B
<1>4. Cardinality(A) \in Nat
  BY <1>3, FS_CardinalityType
<1>5. c \in A => Cardinality(A) > 0
  BY <1>3, <1>4, FS_EmptySet
<1>6. CASE c \in A /\ c \notin B
  <2>1. B = A \ {c}
    BY <1>2, <1>6
  <2>2. Cardinality(A \ {c}) = Cardinality(A) - 1
    BY <1>3, <1>6, FS_RemoveElement
  <2> QED
    BY <1>4, <1>5, <1>6, <2>1, <2>2 DEF A, B
<1>7. CASE c \notin A /\ c \in B
  <2>1. B = A \cup {c}
    BY <1>2, <1>7
  <2>2. Cardinality(A \cup {c}) = Cardinality(A) + 1
    BY <1>3, <1>7, FS_AddElement
  <2> QED
    BY <1>4, <1>5, <1>7, <2>1, <2>2 DEF A, B
<1>8. CASE c \in A <=> c \in B
  <2>1. A = B
    BY <1>2, <1>8
  <2> QED
    BY <1>4, <1>5, <1>8, <2>1 DEF A, B
<1> QED
  BY <1>6, <1>7, <1>8

\* The attempts at an endpoint that were nobody's first, one by one.
LEMMA SwitchesAre ==
  ASSUME BalancerTypes
  PROVE  /\ IsFiniteSet(Switches) /\ Cardinality(Switches) \in Nat
         /\ \A p : p \in Switches <=>
              \E e \in Endpoint : \E n \in 1..(ep[e].attempts - ep[e].selected) : p = <<e, n>>
<1> DEFINE K(e) == {e} \X (1..(ep[e].attempts - ep[e].selected))
<1>1. Switches = UNION {K(e) : e \in Endpoint}
  BY DEF Switches
<1>2. ASSUME NEW e \in Endpoint PROVE IsFiniteSet(K(e))
  <2> DEFINE k == ep[e].attempts - ep[e].selected
  <2>0. ep[e] \in EndpointRecord
    BY <1>2, BalancerSizes
  <2>1. k \in Int
    BY <2>0 DEF EndpointRecord
  <2> HIDE DEF k
  <2>2. IsFiniteSet(1..k)
    BY <2>1, FS_Interval
  <2>3. IsFiniteSet({e})
    BY FS_Singleton
  <2>4. IsFiniteSet({e} \X (1..k))
    BY ONLY <2>2, <2>3, FS_Product
  <2> QED
    BY <2>4 DEF k
<1>3. IsFiniteSet(Endpoint)
  BY BalancerSizes, FS_Interval DEF Endpoint
<1> DEFINE F == {K(e) : e \in Endpoint}
<1>4. IsFiniteSet(F)
  <2> DEFINE f == [e \in Endpoint |-> K(e)]
  <2>1. f \in Surjection(Endpoint, F)
    BY DEF Surjection
  <2> HIDE DEF f, F
  <2> QED
    BY ONLY <1>3, <2>1, FS_Surjection
<1>5. \A T \in F : IsFiniteSet(T)
  BY <1>2
<1>6. \A p : p \in Switches <=> \E e \in Endpoint : p \in K(e)
  BY <1>1
<1>7. \A p : p \in Switches <=>
        \E e \in Endpoint : \E n \in 1..(ep[e].attempts - ep[e].selected) : p = <<e, n>>
  BY <1>6
<1> HIDE DEF F
<1>8. IsFiniteSet(UNION F)
  BY <1>4, <1>5, FS_UNION
<1>9. IsFiniteSet(Switches)
  BY <1>1, <1>8 DEF F
<1> QED
  BY <1>7, <1>9, FS_CardinalityType

\* Nothing is tried at an endpoint: the switches made are the same.
LEMMA SwitchesStay ==
  ASSUME Endpoint' = Endpoint,
         \A e \in Endpoint : ep'[e].attempts = ep[e].attempts /\ ep'[e].selected = ep[e].selected
  PROVE  Switches' = Switches
BY DEF Switches

\* What the others have stays as it is when one call moves, and endpoints only come.
LEMMA OthersAtTheirs ==
  ASSUME BalancerIInv, NEW c \in BalancedCalls, Endpoint \subseteq Endpoint',
         \A d \in BalancedCalls : d # c =>
           /\ stage'[d] = stage[d] /\ order'[d] = order[d] /\ index'[d] = index[d]
           /\ bound'[d] = bound[d] /\ outcome'[d] = outcome[d]
  PROVE  \A d \in BalancedCalls : d # c => Candidates(d)'
<1> SUFFICES ASSUME NEW d \in BalancedCalls, d # c PROVE Candidates(d)'
  OBVIOUS
<1>1. Candidates(d)
  BY DEF BalancerIInv
<1>2. /\ stage'[d] = stage[d] /\ order'[d] = order[d] /\ index'[d] = index[d]
      /\ bound'[d] = bound[d] /\ outcome'[d] = outcome[d]
  OBVIOUS
<1> QED
  BY <1>1, <1>2 DEF Candidates

\* The chains that are counted, when one call moves.
LEMMA ChainsCounted ==
  ASSUME BalancerIInv, NEW c \in BalancedCalls,
         \A d \in BalancedCalls : d # c => stage'[d] = stage[d],
         chains' = IF c \notin AsyncCalls THEN chains
                   ELSE IF stage[c] \notin Chained /\ stage'[c] \in Chained THEN chains + 1
                   ELSE IF stage[c] \in Chained /\ stage'[c] \notin Chained THEN Less(chains)
                   ELSE chains
  PROVE  chains' \in Nat /\ chains' = Cardinality(InGroup(AsyncCalls, stage', Chained))
<1>1. /\ IsFiniteSet(AsyncCalls) /\ AsyncCalls \subseteq BalancedCalls
      /\ chains \in Nat /\ chains = Cardinality(InGroup(AsyncCalls, stage, Chained))
  BY BalancerSizes DEF BalancerIInv, BalancerTypes, Drains
<1>2. \A d \in AsyncCalls : d # c => stage'[d] = stage[d]
  BY <1>1
<1>3. CASE c \notin AsyncCalls
  <2>1. InGroup(AsyncCalls, stage', Chained) = InGroup(AsyncCalls, stage, Chained)
    BY <1>2, <1>3 DEF InGroup
  <2> QED
    BY <1>1, <1>3, <2>1
<1>4. CASE c \in AsyncCalls /\ stage[c] \notin Chained /\ stage'[c] \in Chained
  <2>a. IsFiniteSet(AsyncCalls)
    BY <1>1
  <2>b. c \in AsyncCalls
    BY <1>4
  <2>c. stage[c] \notin Chained
    BY <1>4
  <2>d. stage'[c] \in Chained
    BY <1>4
  <2>1. Cardinality(InGroup(AsyncCalls, stage', Chained))
          = Cardinality(InGroup(AsyncCalls, stage, Chained)) + 1
    BY ONLY <1>2, <2>a, <2>b, <2>c, <2>d, GroupEnter
  <2>2. chains' = chains + 1
    BY <1>4
  <2> QED
    BY <1>1, <2>1, <2>2
<1>5. CASE c \in AsyncCalls /\ stage[c] \in Chained /\ stage'[c] \notin Chained
  <2>a. IsFiniteSet(AsyncCalls)
    BY <1>1
  <2>b. c \in AsyncCalls
    BY <1>5
  <2>c. stage[c] \in Chained
    BY <1>5
  <2>d. stage'[c] \notin Chained
    BY <1>5
  <2>1. Cardinality(InGroup(AsyncCalls, stage', Chained))
          = Cardinality(InGroup(AsyncCalls, stage, Chained)) - 1
    BY ONLY <1>2, <2>a, <2>b, <2>c, <2>d, GroupLeave
  <2>2. Cardinality(InGroup(AsyncCalls, stage', Chained)) \in Nat
    <3>1. InGroup(AsyncCalls, stage', Chained) \subseteq AsyncCalls
      BY DEF InGroup
    <3>2. IsFiniteSet(InGroup(AsyncCalls, stage', Chained))
      BY <1>1, <3>1, FS_Subset
    <3> QED
      BY <3>2, FS_CardinalityType
  <2>3. chains' = Less(chains)
    BY <1>5
  <2> QED
    BY <1>1, <2>1, <2>2, <2>3 DEF Less
<1>6. CASE c \in AsyncCalls /\ (stage[c] \in Chained <=> stage'[c] \in Chained)
  <2>1. InGroup(AsyncCalls, stage', Chained) = InGroup(AsyncCalls, stage, Chained)
    BY <1>2, <1>6, GroupSame
  <2> QED
    BY <1>1, <1>6, <2>1
<1> QED
  BY <1>3, <1>4, <1>5, <1>6

\* Nobody tries an endpoint, comes to one or leaves it: the accounts stay.
LEMMA AccountsStay ==
  ASSUME BalancerIInv, NEW c \in BalancedCalls, BalancerTypes', UNCHANGED <<ep, index>>,
         config'.threshold = config.threshold, totals'.failovers = totals.failovers,
         \A d \in BalancedCalls : d # c => stage'[d] = stage[d] /\ order'[d] = order[d],
         \/ stage'[c] = stage[c] /\ order'[c] = order[c]
         \/ /\ stage[c] \notin {"begin", "net", "answered"} /\ stage'[c] \notin {"net", "answered"}
            /\ stage'[c] = "begin" => index[c] = 1
  PROVE  Accounts'
<1>1. BalancerTypes /\ Accounts /\ Endpoint' = Endpoint
  BY DEF BalancerIInv, Endpoint
<1>2. \A e \in Endpoint : OnEndpoint(e)' = OnEndpoint(e)
  <2> SUFFICES ASSUME NEW e \in Endpoint, NEW d \in BalancedCalls
               PROVE  d \in OnEndpoint(e)' <=> d \in OnEndpoint(e)
    BY DEF OnEndpoint
  <2>1. CASE d # c
    BY <2>1 DEF OnEndpoint, At
  <2>2. CASE d = c
    BY <2>2 DEF OnEndpoint, At
  <2> QED
    BY <2>1, <2>2
<1>3. LoadExact'
  BY <1>1, <1>2 DEF Accounts, LoadExact
<1>4. HealthExact'
  BY <1>1 DEF Accounts, HealthExact
<1>5. Again' = Again
  <2>1. index[c] \in Nat
    BY <1>1, BalancerSizes
  <2> SUFFICES ASSUME NEW d \in BalancedCalls PROVE d \in Again' <=> d \in Again
    BY DEF Again
  <2>2. CASE d # c
    BY <2>2 DEF Again
  <2>3. CASE d = c
    BY <2>1, <2>3 DEF Again
  <2> QED
    BY <2>2, <2>3
<1>6. FailoversExact'
  <2>1. Switches' = Switches
    BY <1>1, SwitchesStay
  <2> QED
    BY <1>1, <1>5, <2>1 DEF Accounts, FailoversExact, Again
<1> QED
  BY <1>1, <1>3, <1>4, <1>6 DEF Accounts

\* The destructor's promise, when a call moves that is not the destructor's business.
LEMMA StillDrained ==
  ASSUME BalancerIInv, NEW c \in BalancedCalls, UNCHANGED deleted,
         \A d \in BalancedCalls : d # c => stage'[d] = stage[d],
         deleted /\ c \in AsyncCalls => stage'[c] \in {"idle", "notify", "done"}
  PROVE  DrainedBeforeFree'
<1>1. DrainedBeforeFree /\ AsyncCalls \subseteq BalancedCalls
  BY BalancerSizes DEF BalancerIInv, Drains
<1> QED
  BY <1>1 DEF DrainedBeforeFree

\* The order that is picked: every candidate an endpoint, and one of them at least.
LEMMA PickOrderKeeps ==
  ASSUME BalancerIInv, NEW c \in BalancedCalls, PickOrder(c)
  PROVE  BalancerIInv'
<1>0. BalancerTypes /\ Candidates(c)
  BY DEF BalancerIInv
<1>1. /\ UNCHANGED <<ep, config, chains, deleted, index, bound, outcome>>
      /\ stage[c] = "idle" /\ ~deleted /\ index[c] = 1 /\ Endpoint' = Endpoint
  BY <1>0 DEF PickOrder, Candidates, Endpoint
<1>2. /\ rr' \in Nat /\ totals' \in [calls : Nat, failures : Nat, failovers : Nat]
      /\ totals'.failovers = totals.failovers
  <2>1. rr \in Nat /\ totals \in [calls : Nat, failures : Nat, failovers : Nat]
    BY <1>0 DEF BalancerTypes
  <2>2. rr' \in {rr, rr + 1}
    BY DEF PickOrder
  <2>3. totals' \in {totals, [totals EXCEPT !.calls = @ + 1, !.failures = @ + 1]}
    BY DEF PickOrder
  <2>4. rr' \in Nat
    BY <2>1, <2>2
  <2>5. totals' \in [calls : Nat, failures : Nat, failovers : Nat] /\ totals'.failovers = totals.failovers
    <3>1. totals.calls + 1 \in Nat /\ totals.failures + 1 \in Nat
      BY <2>1
    <3> QED
      BY <2>1, <2>3, <3>1
  <2> QED
    BY <2>4, <2>5
<1>3. /\ stage' \in [BalancedCalls -> Steps]
      /\ \A d \in BalancedCalls : d # c => stage'[d] = stage[d]
      /\ stage'[c] \in {"done", "count", "bound"}
      /\ c \in AsyncCalls => stage'[c] # "bound"
      /\ c \notin AsyncCalls => stage'[c] # "count"
  BY <1>0 DEF PickOrder, BalancerTypes, Steps
<1>4. /\ order' \in [BalancedCalls -> Seq(Nat)]
      /\ \A d \in BalancedCalls : d # c => order'[d] = order[d]
      /\ Len(order'[c]) <= MaxEndpoints /\ \A i \in 1..Len(order'[c]) : order'[c][i] \in Endpoint
      /\ stage'[c] # "done" => 1 <= Len(order'[c])
  <2>1. CASE ep = <<>>
    <3>1. order' = order /\ stage'[c] = "done"
      BY <1>0, <2>1 DEF PickOrder, BalancerTypes
    <3> QED
      BY <1>0, <3>1 DEF Candidates, BalancerTypes
  <2>2. CASE ep # <<>>
    <3>1. PICK s \in Starts : \E o \in Orders(s) : order' = [order EXCEPT ![c] = o]
      BY <2>2 DEF PickOrder
    <3>2. PICK o \in Orders(s) : order' = [order EXCEPT ![c] = o]
      BY <3>1
    <3>3. o \in [1..Len(ep) -> 1..Len(ep)]
      BY DEF Orders, Endpoint
    <3>4. Len(ep) \in Nat /\ Len(ep) <= MaxEndpoints
      BY <1>0, BalancerSizes
    <3>5. Len(ep) # 0
      BY <1>0, <2>2, EmptySeq DEF BalancerTypes
    <3>6. o \in [1..Len(ep) -> Nat]
      BY <3>3, <3>4
    <3>7. o \in Seq(Nat) /\ Len(o) = Len(ep)
      BY <3>4, <3>6, LenProperties
    <3>8. order'[c] = o /\ order' \in [BalancedCalls -> Seq(Nat)]
          /\ \A d \in BalancedCalls : d # c => order'[d] = order[d]
      BY <1>0, <3>2, <3>7 DEF BalancerTypes
    <3> QED
      BY <3>3, <3>4, <3>5, <3>7, <3>8 DEF Endpoint
  <2> QED
    BY <2>1, <2>2
<1>5. BalancerTypes'
  BY <1>0, <1>1, <1>2, <1>3, <1>4 DEF BalancerTypes
<1>6. Candidates(c)'
  BY <1>1, <1>3, <1>4 DEF Candidates
<1>7. \A d \in BalancedCalls : d # c => Candidates(d)'
  BY <1>1, <1>3, <1>4, OthersAtTheirs
<1>8. Accounts'
  BY <1>1, <1>2, <1>3, <1>4, <1>5, AccountsStay
<1>9. Drains'
  <2>1. chains' = Cardinality(InGroup(AsyncCalls, stage', Chained))
    <3>1. stage[c] \notin Chained /\ stage'[c] \notin Chained
      BY <1>1, <1>3 DEF Chained
    <3> QED
      BY <1>1, <1>3, <3>1, ChainsCounted
  <2>2. DrainedBeforeFree'
    BY <1>1, <1>3, StillDrained
  <2> QED
    BY <2>1, <2>2 DEF Drains
<1> QED
  BY <1>5, <1>6, <1>7, <1>8, <1>9 DEF BalancerIInv

\* A step of one call that leaves the endpoints alone: what is to be shown of it.
LEMMA QuietStep ==
  ASSUME BalancerIInv, NEW c \in BalancedCalls, NEW q \in Steps,
         UNCHANGED <<ep, rr, config, deleted, order, index, outcome>>,
         stage' = [stage EXCEPT ![c] = q],
         stage[c] \notin {"begin", "net", "answered"}, q \notin {"net", "answered"},
         q = "begin" => index[c] = 1,
         totals' \in [calls : Nat, failures : Nat, failovers : Nat],
         totals'.failovers = totals.failovers,
         bound' \in [BalancedCalls -> 0..MaxEndpoints],
         \A d \in BalancedCalls : d # c => bound'[d] = bound[d],
         chains' \in Nat, chains' = Cardinality(InGroup(AsyncCalls, stage', Chained)),
         deleted /\ c \in AsyncCalls => q \in {"idle", "notify", "done"},
         Candidates(c)'
  PROVE  BalancerIInv'
<1>1. BalancerTypes /\ Endpoint' = Endpoint
  BY DEF BalancerIInv, Endpoint
<1>2. /\ stage' \in [BalancedCalls -> Steps] /\ stage'[c] = q
      /\ \A d \in BalancedCalls : d # c => stage'[d] = stage[d]
  BY <1>1 DEF BalancerTypes
<1>3. BalancerTypes'
  BY <1>1, <1>2 DEF BalancerTypes
<1>4. \A d \in BalancedCalls : d # c => Candidates(d)'
  BY <1>1, <1>2, OthersAtTheirs
<1>5. Accounts'
  BY <1>2, <1>3, AccountsStay
<1>6. DrainedBeforeFree'
  BY <1>2, StillDrained
<1> QED
  BY <1>3, <1>4, <1>5, <1>6 DEF BalancerIInv, Drains

\* call_core() fixes how many candidates a call may try: with failover on, all.
LEMMA BoundKeeps ==
  ASSUME Failovers \subseteq {TRUE}, BalancerIInv, NEW c \in BalancedCalls, Bound(c)
  PROVE  BalancerIInv'
<1>1. /\ BalancerTypes /\ Candidates(c)
  BY DEF BalancerIInv
<1>2. /\ stage[c] = "bound" /\ stage' = [stage EXCEPT ![c] = "begin"]
      /\ UNCHANGED <<ep, rr, config, totals, chains, deleted, order, index, outcome>>
      /\ Endpoint' = Endpoint
  BY DEF Bound, Endpoint
<1>3. config.failover = TRUE
  BY <1>1 DEF BalancerTypes
<1>4. bound' = [bound EXCEPT ![c] = Len(order[c])]
  BY <1>3 DEF Bound
<1>5. /\ index[c] = 1 /\ index[c] <= Len(order[c]) /\ c \notin AsyncCalls
      /\ Len(order[c]) \in 0..MaxEndpoints
  <2>1. Len(order[c]) \in Nat /\ MaxEndpoints \in Nat
    BY <1>1, BalancerSizes
  <2> QED
    BY <1>1, <1>2, <2>1 DEF Candidates
<1>6. /\ bound' \in [BalancedCalls -> 0..MaxEndpoints] /\ bound'[c] = Len(order[c])
      /\ \A d \in BalancedCalls : d # c => bound'[d] = bound[d]
  BY <1>1, <1>4, <1>5 DEF BalancerTypes
<1>7. stage'[c] = "begin" /\ \A d \in BalancedCalls : d # c => stage'[d] = stage[d]
  BY <1>1, <1>2 DEF BalancerTypes
<1>8. chains' \in Nat /\ chains' = Cardinality(InGroup(AsyncCalls, stage', Chained))
  BY <1>2, <1>5, <1>7, ChainsCounted
<1>9. Candidates(c)'
  BY <1>1, <1>2, <1>5, <1>6, <1>7 DEF Candidates
<1>10. totals' \in [calls : Nat, failures : Nat, failovers : Nat] /\ "begin" \in Steps
  BY <1>1, <1>2 DEF BalancerTypes, Steps
<1> QED
  BY <1>2, <1>5, <1>6, <1>8, <1>9, <1>10, QuietStep

\* call_async() counts the chain.
LEMMA CountInKeeps ==
  ASSUME BalancerIInv, NEW c \in BalancedCalls, CountIn(c)
  PROVE  BalancerIInv'
<1>1. /\ BalancerTypes /\ Candidates(c)
  BY DEF BalancerIInv
<1>2. /\ stage[c] = "count" /\ stage' = [stage EXCEPT ![c] = "begin"] /\ chains' = chains + 1
      /\ UNCHANGED <<ep, rr, config, totals, deleted, order, index, bound, outcome>>
      /\ Endpoint' = Endpoint
  BY DEF CountIn, Endpoint
<1>3. index[c] = 1 /\ index[c] <= Len(order[c]) /\ c \in AsyncCalls /\ ~deleted
  <2>1. deleted => stage[c] \in {"idle", "notify", "done"} \/ c \notin AsyncCalls
    BY DEF BalancerIInv, Drains, DrainedBeforeFree
  <2> QED
    BY <1>1, <1>2, <2>1 DEF Candidates
<1>4. stage'[c] = "begin" /\ \A d \in BalancedCalls : d # c => stage'[d] = stage[d]
  BY <1>1, <1>2 DEF BalancerTypes
<1>5. chains' \in Nat /\ chains' = Cardinality(InGroup(AsyncCalls, stage', Chained))
  <2>1. stage[c] \notin Chained /\ stage'[c] \in Chained
    BY <1>2, <1>4 DEF Chained
  <2> QED
    BY <1>2, <1>3, <1>4, <2>1, ChainsCounted
<1>6. Candidates(c)'
  BY <1>1, <1>2, <1>3, <1>4 DEF Candidates
<1>7. /\ totals' \in [calls : Nat, failures : Nat, failovers : Nat] /\ "begin" \in Steps
      /\ totals'.failovers = totals.failovers
  BY <1>1, <1>2 DEF BalancerTypes, Steps
<1>8. bound' \in [BalancedCalls -> 0..MaxEndpoints] /\ \A d \in BalancedCalls : d # c => bound'[d] = bound[d]
  BY <1>1, <1>2 DEF BalancerTypes
<1> QED
  BY <1>2, <1>3, <1>5, <1>6, <1>7, <1>8, QuietStep

\* The ends of a call: the totals, the callback, the count of chains, the notification.
LEMMA EndsKeep ==
  ASSUME BalancerIInv, NEW c \in BalancedCalls,
         FailCall(c) \/ Finalize(c) \/ Callback(c) \/ Uncount(c) \/ NotifyDrain(c)
  PROVE  BalancerIInv'
<1>1. /\ BalancerTypes /\ Candidates(c)
  BY DEF BalancerIInv
<1>2. PICK q \in Steps :
        /\ stage' = [stage EXCEPT ![c] = q]
        /\ \/ stage[c] = "fail" /\ q = "done" /\ UNCHANGED chains
           \/ stage[c] = "finalize" /\ q = "callback" /\ UNCHANGED chains
           \/ stage[c] = "callback" /\ q = "uncount" /\ UNCHANGED chains
           \/ stage[c] = "uncount" /\ q = "notify" /\ chains' = Less(chains)
           \/ stage[c] = "notify" /\ q = "done" /\ UNCHANGED chains
  BY DEF FailCall, Finalize, Callback, Uncount, NotifyDrain, Steps
<1>3. /\ UNCHANGED <<ep, rr, config, deleted, order, index, bound, outcome>>
      /\ Endpoint' = Endpoint
  BY DEF FailCall, Finalize, Callback, Uncount, NotifyDrain, Endpoint
<1>4. /\ totals' \in [calls : Nat, failures : Nat, failovers : Nat]
      /\ totals'.failovers = totals.failovers
  <2>1. totals \in [calls : Nat, failures : Nat, failovers : Nat]
    BY <1>1 DEF BalancerTypes
  <2>2. totals.calls + 1 \in Nat /\ totals.failures + 1 \in Nat
    BY <2>1
  <2>3. \/ UNCHANGED totals
        \/ totals' = [totals EXCEPT !.calls = @ + 1, !.failures = @ + 1]
        \/ totals' = [totals EXCEPT !.calls = @ + 1, !.failures = IF outcome[c] = "value" THEN @ ELSE @ + 1]
    BY DEF FailCall, Finalize, Callback, Uncount, NotifyDrain
  <2>4. \/ UNCHANGED totals
        \/ totals' = [totals EXCEPT !.calls = totals.calls + 1, !.failures = totals.failures + 1]
        \/ totals' = [totals EXCEPT !.calls = totals.calls + 1, !.failures = totals.failures]
    BY <2>3
  <2> QED
    BY <2>1, <2>2, <2>4
<1>5. stage'[c] = q /\ \A d \in BalancedCalls : d # c => stage'[d] = stage[d]
  BY <1>1, <1>2 DEF BalancerTypes
<1>6. c \in AsyncCalls <=> stage[c] # "fail"
  BY <1>1, <1>2 DEF Candidates
<1>7. chains' \in Nat /\ chains' = Cardinality(InGroup(AsyncCalls, stage', Chained))
  <2>1. CASE stage[c] = "fail"
    BY <1>2, <1>5, <1>6, <2>1, ChainsCounted
  <2>2. CASE stage[c] = "uncount"
    <3>1. c \in AsyncCalls /\ stage[c] \in Chained /\ stage'[c] \notin Chained /\ chains' = Less(chains)
      BY <1>2, <1>5, <1>6, <2>2 DEF Chained
    <3> QED
      BY <1>5, <3>1, ChainsCounted
  <2>3. CASE stage[c] \notin {"fail", "uncount"}
    <3>1. (stage[c] \in Chained <=> stage'[c] \in Chained) /\ chains' = chains
      BY <1>2, <1>5, <2>3 DEF Chained
    <3> QED
      BY <1>5, <3>1, ChainsCounted
  <2> QED
    BY <2>1, <2>2, <2>3
<1>8. Candidates(c)'
  BY <1>1, <1>2, <1>3, <1>5, <1>6 DEF Candidates
<1>9. deleted /\ c \in AsyncCalls => q \in {"idle", "notify", "done"}
  <2>1. deleted /\ c \in AsyncCalls => stage[c] \in {"idle", "notify", "done"}
    BY DEF BalancerIInv, Drains, DrainedBeforeFree
  <2> QED
    BY <1>2, <2>1
<1>10. bound' \in [BalancedCalls -> 0..MaxEndpoints] /\ \A d \in BalancedCalls : d # c => bound'[d] = bound[d]
  BY <1>1, <1>3 DEF BalancerTypes
<1>11. stage[c] \notin {"begin", "net", "answered"} /\ q \notin {"net", "answered"} /\ q # "begin"
  BY <1>2
<1> QED
  BY <1>2, <1>3, <1>4, <1>7, <1>8, <1>9, <1>10, <1>11, QuietStep

\* A call that is not over is at one of the endpoints.
LEMMA AtAnEndpoint ==
  ASSUME BalancerIInv, NEW c \in BalancedCalls, stage[c] \notin {"idle", "done"}
  PROVE  /\ index[c] \in Nat \ {0} /\ index[c] <= Len(order[c]) /\ Len(order[c]) \in Nat
         /\ Len(order[c]) <= MaxEndpoints /\ MaxEndpoints \in Nat
         /\ At(c) \in Endpoint /\ ep[At(c)] \in EndpointRecord
<1>1. BalancerTypes /\ Candidates(c)
  BY DEF BalancerIInv
<1>2. /\ index[c] \in Nat \ {0} /\ Len(order[c]) \in Nat /\ MaxEndpoints \in Nat
      /\ index[c] <= Len(order[c]) /\ Len(order[c]) <= MaxEndpoints
  BY <1>1, BalancerSizes DEF Candidates
<1>3. At(c) \in Endpoint
  BY <1>1, <1>2 DEF Candidates, At
<1>4. ep[At(c)] \in EndpointRecord
  BY <1>1, <1>3, BalancerSizes
<1> QED
  BY <1>2, <1>3, <1>4

\* A step of one call at its endpoint: what is to be shown of it.
LEMMA AttemptStep ==
  ASSUME BalancerIInv, NEW c \in BalancedCalls, NEW q \in Steps, NEW r \in EndpointRecord,
         stage[c] \in {"begin", "net", "answered"}, stage' = [stage EXCEPT ![c] = q],
         ep' = [ep EXCEPT ![At(c)] = r],
         UNCHANGED <<rr, config, chains, deleted, order, bound>>,
         index' \in [BalancedCalls -> 1..MaxEndpoints + 1],
         outcome' \in [BalancedCalls -> Answers \cup {"value"}],
         \A d \in BalancedCalls : d # c => index'[d] = index[d] /\ outcome'[d] = outcome[d],
         totals' \in [calls : Nat, failures : Nat, failovers : Nat],
         c \in AsyncCalls => q \in Chained,
         q \in {"net", "answered"} => index'[c] = index[c],
         r.healthy = (config.threshold = 0 \/ r.consecutive < config.threshold),
         r.selected <= r.attempts,
         r.inFlight = ep[At(c)].inFlight + (IF q \in {"net", "answered"} THEN 1 ELSE 0)
                                         - (IF stage[c] \in {"net", "answered"} THEN 1 ELSE 0),
         FailoversExact', Candidates(c)'
  PROVE  BalancerIInv'
<1> DEFINE x == At(c)
<1>1. BalancerTypes /\ Accounts /\ x \in Endpoint
  BY AtAnEndpoint DEF BalancerIInv
<1>2. /\ stage' \in [BalancedCalls -> Steps] /\ stage'[c] = q
      /\ \A d \in BalancedCalls : d # c => stage'[d] = stage[d]
  BY <1>1 DEF BalancerTypes
<1>3. At(c)' = At(c) \/ q \notin {"net", "answered"}
  BY DEF At
<1> HIDE DEF x
<1>4. /\ ep' \in Seq(EndpointRecord) /\ Len(ep') = Len(ep) /\ ep'[x] = r
      /\ \A e \in Endpoint : e # x => ep'[e] = ep[e]
  <2>1. ep' = [ep EXCEPT ![x] = r]
    BY DEF x
  <2> QED
    BY ONLY <1>1, <2>1, r \in EndpointRecord, OneEndpoint
<1>5. Endpoint' = Endpoint
  BY <1>4 DEF Endpoint
<1>6. BalancerTypes'
  BY <1>1, <1>2, <1>4 DEF BalancerTypes
<1>7. \A d \in BalancedCalls : d # c => Candidates(d)'
  BY <1>2, <1>5, OthersAtTheirs
<1>8. LoadExact'
  <2> SUFFICES ASSUME NEW e \in Endpoint PROVE ep'[e].inFlight = Cardinality(OnEndpoint(e)')
    BY <1>5 DEF LoadExact
  <2>1. /\ Cardinality(OnEndpoint(e)) \in Nat
        /\ Cardinality(OnEndpoint(e)') = Cardinality(OnEndpoint(e))
              + (IF c \in OnEndpoint(e)' THEN 1 ELSE 0) - (IF c \in OnEndpoint(e) THEN 1 ELSE 0)
    BY <1>1, <1>2, LoadChange
  <2>2. ep[e].inFlight = Cardinality(OnEndpoint(e))
    BY <1>1 DEF Accounts, LoadExact
  <2>3. c \in OnEndpoint(e) <=> stage[c] \in {"net", "answered"} /\ e = x
    BY DEF OnEndpoint, x
  <2>4. c \in OnEndpoint(e)' <=> q \in {"net", "answered"} /\ e = x
    BY <1>2, <1>3 DEF OnEndpoint, x
  <2>5. CASE e = x
    <3>1. r.inFlight = ep[x].inFlight + (IF q \in {"net", "answered"} THEN 1 ELSE 0)
                                      - (IF stage[c] \in {"net", "answered"} THEN 1 ELSE 0)
      BY DEF x
    <3> QED
      BY <1>4, <2>1, <2>2, <2>3, <2>4, <2>5, <3>1
  <2>6. CASE e # x
    BY <1>4, <2>1, <2>2, <2>3, <2>4, <2>6
  <2> QED
    BY <2>5, <2>6
<1>9. HealthExact'
  <2> SUFFICES ASSUME NEW e \in Endpoint
               PROVE  ep'[e].healthy = (config.threshold = 0 \/ ep'[e].consecutive < config.threshold)
    BY <1>5 DEF HealthExact
  <2>1. ep[e].healthy = (config.threshold = 0 \/ ep[e].consecutive < config.threshold)
    BY <1>1 DEF Accounts, HealthExact
  <2> QED
    BY <1>4, <2>1
<1>10. \A e \in Endpoint' : ep'[e].selected <= ep'[e].attempts
  BY <1>1, <1>4, <1>5 DEF Accounts
<1>11. chains' = Cardinality(InGroup(AsyncCalls, stage', Chained))
  <2>1. stage[c] \in Chained
    BY DEF Chained
  <2> QED
    BY <1>2, <2>1, ChainsCounted
<1>12. DrainedBeforeFree'
  <2>1. ~(deleted /\ c \in AsyncCalls)
    BY DEF BalancerIInv, Drains, DrainedBeforeFree
  <2> QED
    BY <1>2, <2>1, StillDrained
<1> QED
  BY <1>6, <1>7, <1>8, <1>9, <1>10, <1>11, <1>12 DEF BalancerIInv, Accounts, Drains

\* An attempt begins: one more at the endpoint, and a switch has become an attempt.
LEMMA BeginAttemptKeeps ==
  ASSUME BalancerIInv, NEW c \in BalancedCalls, BeginAttempt(c)
  PROVE  BalancerIInv'
<1> DEFINE x == At(c)
           r == Begun(ep[x], index[c] = 1)
<1>1. /\ stage[c] = "begin" /\ stage' = [stage EXCEPT ![c] = "net"]
      /\ UNCHANGED <<rr, config, totals, chains, deleted, order, index, bound, outcome>>
  BY DEF BeginAttempt
<1>2. /\ BalancerTypes /\ Candidates(c) /\ Accounts /\ x \in Endpoint /\ ep[x] \in EndpointRecord
      /\ index[c] \in Nat \ {0}
  <2>1. stage[c] \notin {"idle", "done"}
    BY <1>1
  <2>2. At(c) \in Endpoint /\ ep[At(c)] \in EndpointRecord /\ index[c] \in Nat \ {0}
    BY <2>1, AtAnEndpoint
  <2> QED
    BY <2>2 DEF BalancerIInv
<1>3. ep' = [ep EXCEPT ![x] = r]
  BY DEF BeginAttempt
<1>4. /\ r \in EndpointRecord
      /\ r.attempts = ep[x].attempts + 1 /\ r.inFlight = ep[x].inFlight + 1
      /\ r.selected = IF index[c] = 1 THEN ep[x].selected + 1 ELSE ep[x].selected
      /\ r.healthy = ep[x].healthy /\ r.consecutive = ep[x].consecutive
  <2> DEFINE y == ep[x]
             s == IF index[c] = 1 THEN y.selected + 1 ELSE y.selected
  <2>1. y \in EndpointRecord
    BY <1>2
  <2>2. r = [y EXCEPT !.attempts = y.attempts + 1, !.selected = s, !.inFlight = y.inFlight + 1]
    BY DEF Begun
  <2> HIDE DEF y, r
  <2>3. s \in Nat /\ y.attempts + 1 \in Nat /\ y.inFlight + 1 \in Nat
    BY <2>1 DEF EndpointRecord
  <2> HIDE DEF s
  <2>4. /\ r \in EndpointRecord /\ r.attempts = y.attempts + 1 /\ r.inFlight = y.inFlight + 1
        /\ r.selected = s /\ r.healthy = y.healthy /\ r.consecutive = y.consecutive
    BY <2>1, <2>2, <2>3 DEF EndpointRecord
  <2> QED
    BY <2>4 DEF y, s
<1> HIDE DEF r
<1>5. /\ ep' \in Seq(EndpointRecord) /\ Len(ep') = Len(ep) /\ ep'[x] = r
      /\ \A e \in Endpoint : e # x => ep'[e] = ep[e]
  BY ONLY <1>2, <1>3, <1>4, OneEndpoint
<1> HIDE DEF x
<1>6. /\ Endpoint' = Endpoint /\ stage'[c] = "net"
      /\ stage' \in [BalancedCalls -> Steps]
      /\ \A d \in BalancedCalls : d # c => stage'[d] = stage[d]
  BY <1>1, <1>2, <1>5 DEF Endpoint, BalancerTypes, Steps
<1>7. BalancerTypes'
  BY <1>1, <1>2, <1>5, <1>6 DEF BalancerTypes
<1>8. /\ Cardinality(Again) \in Nat
      /\ Cardinality(Again') = IF index[c] = 1 THEN Cardinality(Again) ELSE Cardinality(Again) - 1
  <2>1. c \in Again <=> index[c] # 1
    BY <1>1, <1>2 DEF Again
  <2>2. c \notin Again'
    BY <1>6 DEF Again
  <2>3. /\ Cardinality(Again) \in Nat
        /\ Cardinality(Again') = Cardinality(Again)
              + (IF c \in Again' THEN 1 ELSE 0) - (IF c \in Again THEN 1 ELSE 0)
    BY <1>1, <1>2, <1>6, AgainChange
  <2> QED
    BY <2>1, <2>2, <2>3
<1>9. /\ Cardinality(Switches) \in Nat
      /\ Cardinality(Switches') = IF index[c] = 1 THEN Cardinality(Switches) ELSE Cardinality(Switches) + 1
  <2> DEFINE k == ep[x].attempts - ep[x].selected
             l == ep'[x].attempts - ep'[x].selected
  <2>1. k \in Nat /\ l = IF index[c] = 1 THEN k ELSE k + 1
    <3>1. ep[x].attempts \in Nat /\ ep[x].selected \in Nat /\ ep[x].selected <= ep[x].attempts
      BY <1>2 DEF EndpointRecord, Accounts
    <3>2. /\ ep'[x].attempts = ep[x].attempts + 1
          /\ ep'[x].selected = IF index[c] = 1 THEN ep[x].selected + 1 ELSE ep[x].selected
      BY <1>4, <1>5
    <3> QED
      BY ONLY <3>1, <3>2
  <2>2. /\ IsFiniteSet(Switches) /\ Cardinality(Switches) \in Nat
        /\ \A p : p \in Switches <=>
              \E e \in Endpoint : \E n \in 1..(ep[e].attempts - ep[e].selected) : p = <<e, n>>
    BY <1>2, SwitchesAre
  <2>3. \A p : p \in Switches' <=>
          \E e \in Endpoint' : \E n \in 1..(ep'[e].attempts - ep'[e].selected) : p = <<e, n>>
    <3>1. Switches' = UNION {{e} \X (1..ep'[e].attempts - ep'[e].selected) : e \in Endpoint'}
      BY DEF Switches
    <3> QED
      BY <3>1
  <2> HIDE DEF k, l
  <2>4. \A e \in Endpoint : \A n : n \in 1..(ep[e].attempts - ep[e].selected) <=>
          IF e = x THEN n \in 1..k ELSE n \in 1..(ep'[e].attempts - ep'[e].selected)
    BY <1>5 DEF k
  <2>5. \A n : n \in 1..(ep'[x].attempts - ep'[x].selected) <=> n \in 1..l
    BY DEF l
  <2>6. CASE index[c] = 1
    <3>1. \A p : p \in Switches' <=> p \in Switches
      BY <1>6, <2>1, <2>2, <2>3, <2>4, <2>5, <2>6
    <3>2. Switches' = Switches
      BY <3>1
    <3> QED
      BY <2>2, <2>6, <3>2
  <2>7. CASE index[c] # 1
    <3>1. \A n : n \in 1..l <=> n \in 1..k \/ n = k + 1
      BY <2>1, <2>7
    <3>2. <<x, k + 1>> \notin Switches
      <4> SUFFICES ASSUME <<x, k + 1>> \in Switches PROVE FALSE
        OBVIOUS
      <4>1. k + 1 \in 1..k
        BY <2>2, <2>4
      <4> QED
        BY <2>1, <4>1
    <3>3. \A p : p \in Switches' <=> p \in Switches \/ p = <<x, k + 1>>
      BY <1>2, <1>6, <2>2, <2>3, <2>4, <2>5, <3>1
    <3>4. Switches' = Switches \cup {<<x, k + 1>>}
      BY <3>3
    <3>5. Cardinality(Switches \cup {<<x, k + 1>>}) = Cardinality(Switches) + 1
      BY <2>2, <3>2, FS_AddElement
    <3> QED
      BY <2>2, <2>7, <3>4, <3>5
  <2> QED
    BY <2>6, <2>7
<1>10. FailoversExact'
  <2>1. totals.failovers = Cardinality(Switches) + Cardinality(Again)
    BY <1>2 DEF Accounts, FailoversExact, Again
  <2>2. totals'.failovers = Cardinality(Switches') + Cardinality(Again')
    BY <1>1, <1>8, <1>9, <2>1
  <2> QED
    BY <2>2 DEF FailoversExact, Again
<1>11. Candidates(c)'
  BY <1>1, <1>2, <1>6 DEF Candidates
<1>12. r.healthy = (config.threshold = 0 \/ r.consecutive < config.threshold)
  BY <1>2, <1>4 DEF Accounts, HealthExact
<1>13. r.selected <= r.attempts
  <2>1. ep[x].attempts \in Nat /\ ep[x].selected \in Nat /\ ep[x].selected <= ep[x].attempts
    BY <1>2 DEF EndpointRecord, Accounts
  <2> QED
    BY <1>4, <2>1
<1>14. "net" \in Steps /\ "net" \in Chained
  BY DEF Steps, Chained
<1>15. /\ index' \in [BalancedCalls -> 1..MaxEndpoints + 1]
       /\ outcome' \in [BalancedCalls -> Answers \cup {"value"}]
       /\ totals' \in [calls : Nat, failures : Nat, failovers : Nat]
  BY <1>7 DEF BalancerTypes
<1>16. r.inFlight = ep[x].inFlight + 1 - 0
  <2>1. ep[x].inFlight \in Nat
    BY <1>2 DEF EndpointRecord
  <2> QED
    BY <1>4, <2>1
<1>17. r.inFlight = ep[x].inFlight + (IF "net" \in {"net", "answered"} THEN 1 ELSE 0)
                                   - (IF stage[c] \in {"net", "answered"} THEN 1 ELSE 0)
  BY <1>1, <1>16
<1> QED
  BY <1>1, <1>3, <1>4, <1>10, <1>11, <1>12, <1>13, <1>14, <1>15, <1>17, AttemptStep DEF x

\* An attempt at an endpoint that is under way is not made once more.
LEMMA AttemptsSame ==
  ASSUME BalancerTypes, NEW x \in Endpoint, NEW r \in EndpointRecord, ep' = [ep EXCEPT ![x] = r],
         r.attempts = ep[x].attempts, r.selected = ep[x].selected
  PROVE  Switches' = Switches /\ Endpoint' = Endpoint
<1>1. /\ Len(ep') = Len(ep) /\ ep'[x] = r
      /\ \A e \in Endpoint : e # x => ep'[e] = ep[e]
  BY OneEndpoint
<1>2. Endpoint' = Endpoint
  BY <1>1 DEF Endpoint
<1>3. \A e \in Endpoint : ep'[e].attempts = ep[e].attempts /\ ep'[e].selected = ep[e].selected
  BY <1>1
<1> QED
  BY <1>2, <1>3, SwitchesStay

\* A call that is on its endpoint is counted there.
LEMMA CountedThere ==
  ASSUME BalancerIInv, NEW c \in BalancedCalls, stage[c] \in {"net", "answered"}
  PROVE  ep[At(c)].inFlight \in Nat \ {0}
<1>1. At(c) \in Endpoint /\ ep[At(c)] \in EndpointRecord
  BY AtAnEndpoint
<1>2. ep[At(c)].inFlight = Cardinality(OnEndpoint(At(c)))
  BY <1>1 DEF BalancerIInv, Accounts, LoadExact
<1>3. c \in OnEndpoint(At(c))
  BY DEF OnEndpoint
<1>4. IsFiniteSet(OnEndpoint(At(c)))
  <2>1. OnEndpoint(At(c)) \subseteq BalancedCalls /\ IsFiniteSet(BalancedCalls)
    BY BalancerSizes DEF OnEndpoint, BalancerIInv
  <2> QED
    BY <2>1, FS_Subset
<1>5. Cardinality(OnEndpoint(At(c))) \in Nat /\ Cardinality(OnEndpoint(At(c))) # 0
  BY <1>3, <1>4, FS_CardinalityType, FS_EmptySet
<1> QED
  BY <1>2, <1>5

\* What the end of an attempt makes of the record: one call fewer, and the judgement
\* that its failures in a row deserve.
LEMMA FinishedIs ==
  ASSUME NEW y \in EndpointRecord, NEW err, config.threshold \in Nat, y.inFlight \in Nat \ {0},
         y.healthy = (config.threshold = 0 \/ y.consecutive < config.threshold)
  PROVE  /\ Finished(y, err) \in EndpointRecord
         /\ Finished(y, err).inFlight = y.inFlight - 1
         /\ Finished(y, err).attempts = y.attempts /\ Finished(y, err).selected = y.selected
         /\ Finished(y, err).healthy
              = (config.threshold = 0 \/ Finished(y, err).consecutive < config.threshold)
<1> DEFINE r == Finished(y, err)
           t == config.threshold
           well == y.healthy /\ (t = 0 \/ y.consecutive + 1 < t)
<1>1. Less(y.inFlight) = y.inFlight - 1 /\ y.inFlight - 1 \in Nat
  BY DEF Less
<1>2. y.failures + 1 \in Nat /\ y.consecutive + 1 \in Nat /\ y.consecutive \in Nat /\ t \in Nat
  BY DEF EndpointRecord
<1>3. CASE err = "OK"
  <2>1. r = [y EXCEPT !.inFlight = y.inFlight - 1, !.consecutive = 0, !.healthy = TRUE]
    BY <1>1, <1>3 DEF Finished
  <2> HIDE DEF r
  <2>2. /\ r \in EndpointRecord /\ r.inFlight = y.inFlight - 1 /\ r.attempts = y.attempts
        /\ r.selected = y.selected /\ r.healthy = TRUE /\ r.consecutive = 0
    BY <1>1, <2>1 DEF EndpointRecord
  <2>3. t = 0 \/ 0 < t
    BY <1>2
  <2>4. r.healthy = (t = 0 \/ r.consecutive < t)
    BY <2>2, <2>3
  <2> QED
    BY <2>2, <2>4 DEF r
<1>4. CASE err # "OK"
  <2>1. r = [y EXCEPT !.inFlight = y.inFlight - 1, !.failures = y.failures + 1,
                      !.consecutive = y.consecutive + 1, !.healthy = well]
    BY <1>1, <1>4 DEF Finished
  <2>2. well \in BOOLEAN /\ y.healthy \in BOOLEAN
    BY DEF EndpointRecord
  <2>3. well <=> t = 0 \/ y.consecutive + 1 < t
    <3>1. t = 0 \/ y.consecutive + 1 < t => t = 0 \/ y.consecutive < t
      BY <1>2
    <3>2. y.healthy = (t = 0 \/ y.consecutive < t)
      OBVIOUS
    <3> QED
      BY ONLY <3>1, <3>2
  <2> HIDE DEF r, well
  <2>4. /\ r \in EndpointRecord /\ r.inFlight = y.inFlight - 1 /\ r.attempts = y.attempts
        /\ r.selected = y.selected /\ r.healthy = well /\ r.consecutive = y.consecutive + 1
    BY <1>1, <1>2, <2>1, <2>2 DEF EndpointRecord
  <2>5. r.healthy = (t = 0 \/ r.consecutive < t)
    BY <2>2, <2>3, <2>4
  <2> QED
    BY <2>4, <2>5 DEF r
<1> QED
  BY <1>3, <1>4

\* An endpoint answers: its client remembers the error, the call its answer.
LEMMA AnswerAttemptKeeps ==
  ASSUME BalancerIInv, NEW c \in BalancedCalls, AnswerAttempt(c)
  PROVE  BalancerIInv'
<1> DEFINE x == At(c)
<1>1. PICK a \in Answers : /\ outcome' = [outcome EXCEPT ![c] = a]
                           /\ ep' = [ep EXCEPT ![x] = [@ EXCEPT !.lastError = ErrorOf(a)]]
  BY DEF AnswerAttempt
<1>2. /\ stage[c] = "net" /\ stage' = [stage EXCEPT ![c] = "answered"]
      /\ UNCHANGED <<rr, config, totals, chains, deleted, order, index, bound>>
  BY DEF AnswerAttempt
<1>3. /\ x \in Endpoint /\ ep[x] \in EndpointRecord
      /\ index[c] \in Nat \ {0} /\ index[c] <= Len(order[c])
  <2>1. stage[c] \notin {"idle", "done"}
    BY <1>2
  <2> QED
    BY <2>1, AtAnEndpoint
<1>4. BalancerTypes /\ Candidates(c) /\ Accounts
  BY DEF BalancerIInv
<1> DEFINE r == [ep[x] EXCEPT !.lastError = ErrorOf(a)]
<1>5. /\ r \in EndpointRecord /\ r.attempts = ep[x].attempts /\ r.selected = ep[x].selected
      /\ r.inFlight = ep[x].inFlight /\ r.healthy = ep[x].healthy
      /\ r.consecutive = ep[x].consecutive
  <2>1. ErrorOf(a) \in {"OK", "TIMEOUT", "SERVER"}
    BY BalancerAssumption DEF BalancerAssumption, ErrorOf
  <2> QED
    BY <1>3, <2>1 DEF EndpointRecord
<1>6. ep' = [ep EXCEPT ![x] = r]
  BY <1>1
<1> HIDE DEF r
<1>7. Switches' = Switches /\ Endpoint' = Endpoint
  BY ONLY <1>3, <1>4, <1>5, <1>6, AttemptsSame
<1> HIDE DEF x
<1>8. stage'[c] = "answered" /\ \A d \in BalancedCalls : d # c => stage'[d] = stage[d]
  BY <1>2, <1>4 DEF BalancerTypes
<1>9. FailoversExact'
  <2>1. Again' = Again
    BY <1>2, <1>8 DEF Again
  <2> QED
    BY <1>2, <1>4, <1>7, <2>1 DEF Accounts, FailoversExact, Again
<1>10. Candidates(c)'
  BY <1>2, <1>3, <1>4, <1>7, <1>8 DEF Candidates
<1>11. /\ index' \in [BalancedCalls -> 1..MaxEndpoints + 1]
       /\ outcome' \in [BalancedCalls -> Answers \cup {"value"}]
       /\ totals' \in [calls : Nat, failures : Nat, failovers : Nat]
       /\ \A d \in BalancedCalls : d # c => outcome'[d] = outcome[d]
  BY <1>1, <1>2, <1>4 DEF BalancerTypes
<1>12. "answered" \in Steps /\ "answered" \in Chained
  BY DEF Steps, Chained
<1>13. r.healthy = (config.threshold = 0 \/ r.consecutive < config.threshold)
  BY <1>3, <1>4, <1>5 DEF Accounts, HealthExact
<1>14. r.selected <= r.attempts
  BY <1>3, <1>4, <1>5 DEF Accounts
<1>15. r.inFlight = ep[x].inFlight + (IF "answered" \in {"net", "answered"} THEN 1 ELSE 0)
                                   - (IF stage[c] \in {"net", "answered"} THEN 1 ELSE 0)
  <2>1. ep[x].inFlight \in Nat
    BY <1>3 DEF EndpointRecord
  <2> QED
    BY <1>2, <1>5, <2>1
<1> QED
  BY <1>2, <1>5, <1>6, <1>9, <1>10, <1>11, <1>12, <1>13, <1>14, <1>15, AttemptStep DEF x

\* An attempt failed, and the call goes on with its next candidate: with failover on
\* a synchronous one may as well.
LEMMA SwitchKeeps ==
  ASSUME Failovers \subseteq {TRUE}, BalancerIInv, NEW c \in BalancedCalls, Switch(c)
  PROVE  BalancerIInv'
<1> DEFINE x == At(c)
           r == Finished(ep[x], Error(c))
<1>1. /\ stage[c] = "answered" /\ Switchable(c)
      /\ ep' = [ep EXCEPT ![x] = r]
      /\ totals' = [totals EXCEPT !.failovers = @ + 1]
      /\ UNCHANGED <<rr, config, chains, deleted, order, bound, outcome>>
  BY DEF Switch
<1>2. BalancerTypes /\ Candidates(c) /\ Accounts
  BY DEF BalancerIInv
<1>3. /\ x \in Endpoint /\ ep[x] \in EndpointRecord
      /\ index[c] \in Nat \ {0} /\ index[c] <= Len(order[c]) /\ Len(order[c]) \in Nat
      /\ Len(order[c]) <= MaxEndpoints /\ MaxEndpoints \in Nat
  <2>1. stage[c] \notin {"idle", "done"}
    BY <1>1
  <2> QED
    BY <2>1, AtAnEndpoint
<1>4. index[c] < Len(order[c])
  BY <1>1 DEF Switchable
<1>5. c \in AsyncCalls \/ index[c] < bound[c]
  BY <1>1, <1>2, <1>4 DEF Candidates
<1>6. index' = [index EXCEPT ![c] = @ + 1] /\ stage' = [stage EXCEPT ![c] = "begin"]
  BY <1>5 DEF Switch
<1>7. /\ config.threshold \in Nat /\ ep[x].inFlight \in Nat \ {0}
      /\ ep[x].healthy = (config.threshold = 0 \/ ep[x].consecutive < config.threshold)
      /\ ep[x].selected <= ep[x].attempts
  <2>1. stage[c] \in {"net", "answered"}
    BY <1>1
  <2>2. config.threshold \in Nat /\ ep[x].inFlight \in Nat \ {0}
    BY <1>2, <2>1, CountedThere, BalancerSizes
  <2> QED
    BY <1>2, <1>3, <2>2 DEF Accounts, HealthExact
<1> HIDE DEF x
<1>8. /\ r \in EndpointRecord /\ r.inFlight = ep[x].inFlight - 1
      /\ r.attempts = ep[x].attempts /\ r.selected = ep[x].selected
      /\ r.healthy = (config.threshold = 0 \/ r.consecutive < config.threshold)
  BY ONLY <1>3, <1>7, FinishedIs
<1> HIDE DEF r
<1>9. Switches' = Switches /\ Endpoint' = Endpoint
  BY ONLY <1>1, <1>2, <1>3, <1>8, AttemptsSame
<1>10. /\ stage'[c] = "begin" /\ index'[c] = index[c] + 1
       /\ \A d \in BalancedCalls : d # c => stage'[d] = stage[d] /\ index'[d] = index[d]
  BY <1>2, <1>6 DEF BalancerTypes
<1>11. index' \in [BalancedCalls -> 1..MaxEndpoints + 1]
  <2>1. index[c] + 1 \in 1..MaxEndpoints + 1
    BY <1>3, <1>4
  <2> QED
    BY <1>2, <1>6, <2>1 DEF BalancerTypes
<1>12. totals' \in [calls : Nat, failures : Nat, failovers : Nat] /\ totals.failovers \in Nat
       /\ totals'.failovers = totals.failovers + 1
  <2>1. totals \in [calls : Nat, failures : Nat, failovers : Nat]
    BY <1>2 DEF BalancerTypes
  <2>2. totals.failovers \in Nat /\ totals.failovers + 1 \in Nat
    BY <2>1
  <2>3. totals' = [totals EXCEPT !.failovers = totals.failovers + 1]
    BY <1>1
  <2> QED
    BY <2>1, <2>2, <2>3
<1>13. Cardinality(Again) \in Nat /\ Cardinality(Again') = Cardinality(Again) + 1
  <2>1. c \notin Again
    BY <1>1 DEF Again
  <2>2. c \in Again'
    BY <1>3, <1>10 DEF Again
  <2>3. /\ Cardinality(Again) \in Nat
        /\ Cardinality(Again') = Cardinality(Again)
              + (IF c \in Again' THEN 1 ELSE 0) - (IF c \in Again THEN 1 ELSE 0)
    BY <1>2, <1>10, AgainChange
  <2> QED
    BY <2>1, <2>2, <2>3
<1>14. FailoversExact'
  <2>1. totals.failovers = Cardinality(Switches) + Cardinality(Again) /\ Cardinality(Switches) \in Nat
    BY <1>2, SwitchesAre DEF Accounts, FailoversExact, Again
  <2>2. totals'.failovers = Cardinality(Switches') + Cardinality(Again')
    BY <1>9, <1>12, <1>13, <2>1
  <2> QED
    BY <2>2 DEF FailoversExact, Again
<1>15. Candidates(c)'
  <2>1. index'[c] <= Len(order[c])
    BY <1>3, <1>4, <1>10
  <2> QED
    BY <1>1, <1>2, <1>9, <1>10, <2>1 DEF Candidates
<1>16. "begin" \in Steps /\ "begin" \in Chained
  BY DEF Steps, Chained
<1>17. r.selected <= r.attempts
  BY <1>7, <1>8
<1>18. r.inFlight = ep[x].inFlight + (IF "begin" \in {"net", "answered"} THEN 1 ELSE 0)
                                   - (IF stage[c] \in {"net", "answered"} THEN 1 ELSE 0)
  BY <1>1, <1>7, <1>8
<1>19. outcome' \in [BalancedCalls -> Answers \cup {"value"}]
       /\ \A d \in BalancedCalls : d # c => outcome'[d] = outcome[d]
  BY <1>1, <1>2 DEF BalancerTypes
<1> QED
  BY <1>1, <1>6, <1>8, <1>10, <1>11, <1>12, <1>14, <1>15, <1>16, <1>17, <1>18, <1>19, AttemptStep DEF x

\* An attempt ends the call: an asynchronous one whose endpoint did not answer in time
\* was at its last candidate.
LEMMA EndKeeps ==
  ASSUME Failovers \subseteq {TRUE}, BalancerIInv, NEW c \in BalancedCalls, End(c)
  PROVE  BalancerIInv'
<1> DEFINE x == At(c)
           r == Finished(ep[x], Error(c))
<1>1. /\ stage[c] = "answered" /\ (Error(c) = "OK" \/ ~Switchable(c))
      /\ ep' = [ep EXCEPT ![x] = r]
      /\ UNCHANGED <<rr, config, chains, deleted, order, index, bound, outcome>>
  BY DEF End
<1>2. BalancerTypes /\ Candidates(c) /\ Accounts
  BY DEF BalancerIInv
<1>3. /\ x \in Endpoint /\ ep[x] \in EndpointRecord
      /\ index[c] \in Nat \ {0} /\ index[c] <= Len(order[c]) /\ Len(order[c]) \in Nat
  <2>1. stage[c] \notin {"idle", "done"}
    BY <1>1
  <2> QED
    BY <2>1, AtAnEndpoint
<1>4. PICK q \in Steps : /\ stage' = [stage EXCEPT ![c] = q]
                         /\ c \in AsyncCalls => q = "finalize"
                         /\ c \notin AsyncCalls => q \in {"done", "fail"}
  BY DEF End, Steps
<1>5. c \in AsyncCalls /\ outcome[c] = "timeout" => index[c] = Len(order[c])
  <2> SUFFICES ASSUME c \in AsyncCalls, outcome[c] = "timeout" PROVE index[c] = Len(order[c])
    OBVIOUS
  <2>1. Error(c) = "TIMEOUT"
    BY DEF Error, ErrorOf
  <2>2. config.failover = TRUE
    BY <1>2 DEF BalancerTypes
  <2>3. ~(index[c] < Len(order[c]))
    BY <1>1, <2>1, <2>2 DEF Switchable
  <2> QED
    BY <1>3, <2>3
<1>6. /\ config.threshold \in Nat /\ ep[x].inFlight \in Nat \ {0}
      /\ ep[x].healthy = (config.threshold = 0 \/ ep[x].consecutive < config.threshold)
      /\ ep[x].selected <= ep[x].attempts
  <2>1. stage[c] \in {"net", "answered"}
    BY <1>1
  <2>2. config.threshold \in Nat /\ ep[x].inFlight \in Nat \ {0}
    BY <1>2, <2>1, CountedThere, BalancerSizes
  <2> QED
    BY <1>2, <1>3, <2>2 DEF Accounts, HealthExact
<1>7. /\ totals' \in [calls : Nat, failures : Nat, failovers : Nat]
      /\ totals'.failovers = totals.failovers
  <2>1. totals \in [calls : Nat, failures : Nat, failovers : Nat]
    BY <1>2 DEF BalancerTypes
  <2>2. totals.calls + 1 \in Nat
    BY <2>1
  <2>3. totals' \in {totals, [totals EXCEPT !.calls = totals.calls + 1]}
    BY DEF End
  <2> QED
    BY <2>1, <2>2, <2>3
<1> HIDE DEF x
<1>8. /\ r \in EndpointRecord /\ r.inFlight = ep[x].inFlight - 1
      /\ r.attempts = ep[x].attempts /\ r.selected = ep[x].selected
      /\ r.healthy = (config.threshold = 0 \/ r.consecutive < config.threshold)
  BY ONLY <1>3, <1>6, FinishedIs
<1> HIDE DEF r
<1>9. Switches' = Switches /\ Endpoint' = Endpoint
  BY ONLY <1>1, <1>2, <1>3, <1>8, AttemptsSame
<1>10. /\ stage'[c] = q /\ \A d \in BalancedCalls : d # c => stage'[d] = stage[d]
       /\ q \in {"finalize", "done", "fail"}
  BY <1>2, <1>4 DEF BalancerTypes
<1>11. FailoversExact'
  <2>1. Again' = Again
    BY <1>1, <1>10 DEF Again
  <2> QED
    BY <1>2, <1>7, <1>9, <2>1 DEF Accounts, FailoversExact, Again
<1>12. Candidates(c)'
  BY <1>1, <1>2, <1>3, <1>4, <1>5, <1>9, <1>10 DEF Candidates
<1>13. c \in AsyncCalls => q \in Chained
  BY <1>4 DEF Chained
<1>14. r.selected <= r.attempts
  BY <1>6, <1>8
<1>15. r.inFlight = ep[x].inFlight + (IF q \in {"net", "answered"} THEN 1 ELSE 0)
                                   - (IF stage[c] \in {"net", "answered"} THEN 1 ELSE 0)
  BY <1>1, <1>6, <1>8, <1>10
<1>16. /\ index' \in [BalancedCalls -> 1..MaxEndpoints + 1]
       /\ outcome' \in [BalancedCalls -> Answers \cup {"value"}]
       /\ q \notin {"net", "answered"}
  BY <1>1, <1>2, <1>10 DEF BalancerTypes
<1> QED
  BY <1>1, <1>4, <1>7, <1>8, <1>11, <1>12, <1>13, <1>14, <1>15, <1>16, AttemptStep DEF x

\* Only the settings or the end of the balancer: calls and endpoints stay as they are.
LEMMA SettingsKeep ==
  ASSUME Failovers \subseteq {TRUE}, BalancerIInv,
         DestroyBalancer \/ \E on \in Failovers : SetFailover(on)
  PROVE  BalancerIInv'
<1>1. BalancerTypes /\ Accounts /\ Drains
  BY DEF BalancerIInv
<1>2. /\ UNCHANGED <<ep, rr, totals, chains, stage, order, index, bound, outcome>>
      /\ Endpoint' = Endpoint
  BY DEF DestroyBalancer, SetFailover, Endpoint
<1>3. /\ config' \in [strategy : Strategies, failover : Failovers, threshold : Thresholds]
      /\ config'.threshold = config.threshold
  BY <1>1 DEF DestroyBalancer, SetFailover, BalancerTypes
<1>4. deleted' \in BOOLEAN
  BY <1>1 DEF DestroyBalancer, SetFailover, BalancerTypes
<1>5. BalancerTypes'
  BY <1>1, <1>2, <1>3, <1>4 DEF BalancerTypes
<1>6. \A c \in BalancedCalls : Candidates(c)'
  <2> SUFFICES ASSUME NEW c \in BalancedCalls PROVE Candidates(c)'
    OBVIOUS
  <2>1. Candidates(c)
    BY DEF BalancerIInv
  <2> QED
    BY <1>2, <2>1 DEF Candidates
<1>7. Accounts'
  <2>1. LoadExact'
    BY <1>1, <1>2 DEF Accounts, LoadExact, OnEndpoint, At
  <2>2. HealthExact'
    BY <1>1, <1>2, <1>3 DEF Accounts, HealthExact
  <2>3. FailoversExact'
    BY <1>1, <1>2 DEF Accounts, FailoversExact, Switches
  <2> QED
    BY <1>1, <1>2, <2>1, <2>2, <2>3 DEF Accounts
<1>8. Drains'
  <2>1. chains' = Cardinality(InGroup(AsyncCalls, stage', Chained))
    BY <1>1, <1>2 DEF Drains
  <2>2. CASE UNCHANGED deleted
    BY <1>1, <1>2, <2>1, <2>2 DEF Drains, DrainedBeforeFree
  <2>3. CASE DestroyBalancer
    <3>1. InGroup(AsyncCalls, stage, Chained) = {}
      <4>1. chains = 0 /\ chains = Cardinality(InGroup(AsyncCalls, stage, Chained))
        BY <1>1, <2>3 DEF DestroyBalancer, Drains
      <4>2. InGroup(AsyncCalls, stage, Chained) \subseteq AsyncCalls /\ IsFiniteSet(AsyncCalls)
        BY <1>1, BalancerSizes DEF InGroup
      <4>3. IsFiniteSet(InGroup(AsyncCalls, stage, Chained))
        BY <4>2, FS_Subset
      <4> QED
        BY <4>1, <4>3, FS_EmptySet
    <3>2. ASSUME NEW c \in AsyncCalls PROVE stage[c] \in {"idle", "notify", "done"}
      <4>1. c \in BalancedCalls /\ stage[c] \in Steps /\ Candidates(c)
        BY <1>1, BalancerSizes DEF BalancerTypes, BalancerIInv
      <4>2. stage[c] \notin Chained
        BY <3>1 DEF InGroup
      <4>3. stage[c] \notin {"bound", "fail"}
        BY <4>1 DEF Candidates
      <4>4. stage[c] # "count"
        BY <2>3, <4>1 DEF DestroyBalancer, Quiet
      <4> QED
        BY <4>1, <4>2, <4>3, <4>4 DEF Steps, Chained
    <3> QED
      BY <1>2, <2>1, <3>2 DEF Drains, DrainedBeforeFree
  <2> QED
    BY <2>1, <2>2, <2>3 DEF SetFailover
<1> QED
  BY <1>5, <1>6, <1>7, <1>8 DEF BalancerIInv

\* The threshold changes, and every endpoint is judged again.
LEMMA SetThresholdKeeps ==
  ASSUME BalancerIInv, NEW n \in Thresholds, SetThreshold(n)
  PROVE  BalancerIInv'
<1>1. BalancerTypes /\ Accounts /\ Drains
  BY DEF BalancerIInv
<1>2. /\ UNCHANGED <<rr, totals, chains, deleted, stage, order, index, bound, outcome>>
      /\ config' = [config EXCEPT !.threshold = n]
      /\ ep' = [e \in Endpoint |->
                  [ep[e] EXCEPT !.healthy = (n = 0 \/ ep[e].consecutive < n)]]
  BY DEF SetThreshold
<1>3. /\ config' \in [strategy : Strategies, failover : Failovers, threshold : Thresholds]
      /\ config'.threshold = n
  BY <1>1, <1>2 DEF BalancerTypes
<1>4. Len(ep) \in Nat /\ \A e \in Endpoint : ep[e] \in EndpointRecord
  BY <1>1, BalancerSizes
<1>5. \A e \in Endpoint :
        /\ ep'[e] \in EndpointRecord
        /\ ep'[e].attempts = ep[e].attempts /\ ep'[e].selected = ep[e].selected
        /\ ep'[e].inFlight = ep[e].inFlight
        /\ ep'[e].healthy = (n = 0 \/ ep'[e].consecutive < n)
  <2> SUFFICES ASSUME NEW e \in Endpoint
               PROVE  /\ ep'[e] \in EndpointRecord
                      /\ ep'[e].attempts = ep[e].attempts /\ ep'[e].selected = ep[e].selected
                      /\ ep'[e].inFlight = ep[e].inFlight
                      /\ ep'[e].healthy = (n = 0 \/ ep'[e].consecutive < n)
    OBVIOUS
  <2> DEFINE judged == n = 0 \/ ep[e].consecutive < n
  <2>1. ep'[e] = [ep[e] EXCEPT !.healthy = judged] /\ ep[e] \in EndpointRecord /\ judged \in BOOLEAN
    BY <1>2, <1>4
  <2> HIDE DEF judged
  <2>2. /\ ep'[e] \in EndpointRecord
        /\ ep'[e].attempts = ep[e].attempts /\ ep'[e].selected = ep[e].selected
        /\ ep'[e].inFlight = ep[e].inFlight /\ ep'[e].consecutive = ep[e].consecutive
        /\ ep'[e].healthy = judged
    BY <2>1 DEF EndpointRecord
  <2> QED
    BY <2>2 DEF judged
<1>6. ep' \in Seq(EndpointRecord) /\ Len(ep') = Len(ep)
  <2>1. ep' \in [1..Len(ep) -> EndpointRecord]
    BY <1>2, <1>5 DEF Endpoint
  <2> QED
    BY <1>4, <2>1, LenProperties
<1>7. Endpoint' = Endpoint
  BY <1>6 DEF Endpoint
<1>8. BalancerTypes'
  BY <1>1, <1>2, <1>3, <1>6 DEF BalancerTypes
<1>9. \A c \in BalancedCalls : Candidates(c)'
  <2> SUFFICES ASSUME NEW c \in BalancedCalls PROVE Candidates(c)'
    OBVIOUS
  <2>1. Candidates(c)
    BY DEF BalancerIInv
  <2> QED
    BY <1>2, <1>7, <2>1 DEF Candidates
<1>10. Accounts'
  <2>1. LoadExact'
    BY <1>1, <1>2, <1>5, <1>7 DEF Accounts, LoadExact, OnEndpoint, At
  <2>2. HealthExact'
    BY <1>3, <1>5, <1>7 DEF HealthExact
  <2>3. Switches' = Switches
    BY <1>5, <1>7, SwitchesStay
  <2>4. FailoversExact'
    BY <1>1, <1>2, <2>3 DEF Accounts, FailoversExact
  <2> QED
    BY <1>1, <1>5, <1>7, <2>1, <2>2, <2>4 DEF Accounts
<1>11. Drains'
  BY <1>1, <1>2 DEF Drains, DrainedBeforeFree
<1> QED
  BY <1>8, <1>9, <1>10, <1>11 DEF BalancerIInv

\* An endpoint comes: nobody is on it, and nothing was tried there.
LEMMA AddEndpointKeeps ==
  ASSUME BalancerIInv, AddEndpoint
  PROVE  BalancerIInv'
<1> DEFINE n == Len(ep) + 1
<1>1. BalancerTypes /\ Accounts /\ Drains
  BY DEF BalancerIInv
<1>2. /\ UNCHANGED <<rr, config, totals, chains, deleted, stage, order, index, bound, outcome>>
      /\ Len(ep) < MaxEndpoints /\ ep' = Append(ep, NewEndpoint)
  BY DEF AddEndpoint
<1>3. /\ Len(ep) \in Nat /\ First \in Nat /\ MaxEndpoints \in Nat /\ config.threshold \in Nat
      /\ ep \in Seq(EndpointRecord) /\ Len(ep) >= First
  BY <1>1, BalancerSizes DEF BalancerTypes
<1>4. NewEndpoint \in EndpointRecord
  BY DEF NewEndpoint, EndpointRecord
<1>5. /\ Append(ep, NewEndpoint) \in Seq(EndpointRecord)
      /\ Len(Append(ep, NewEndpoint)) = Len(ep) + 1
      /\ \A i \in 1..Len(ep) : Append(ep, NewEndpoint)[i] = ep[i]
      /\ Append(ep, NewEndpoint)[Len(ep) + 1] = NewEndpoint
  BY ONLY <1>3, <1>4, AppendProperties
<1>6. /\ ep' \in Seq(EndpointRecord) /\ Len(ep') = Len(ep) + 1 /\ ep'[n] = NewEndpoint
      /\ \A e \in Endpoint : ep'[e] = ep[e]
  BY <1>2, <1>5 DEF Endpoint
<1>7. Endpoint' = Endpoint \cup {n} /\ n \notin Endpoint
  BY <1>3, <1>6 DEF Endpoint
<1> HIDE DEF n
<1>8. BalancerTypes'
  <2>1. Len(ep') \in First..MaxEndpoints
    BY <1>2, <1>3, <1>6
  <2> QED
    BY <1>1, <1>2, <1>6, <2>1 DEF BalancerTypes
<1>9. \A c \in BalancedCalls : Candidates(c)'
  <2> SUFFICES ASSUME NEW c \in BalancedCalls PROVE Candidates(c)'
    OBVIOUS
  <2>1. Candidates(c)
    BY DEF BalancerIInv
  <2> QED
    BY <1>2, <1>7, <2>1 DEF Candidates
<1>10. LoadExact'
  <2>1. \A e : OnEndpoint(e)' = OnEndpoint(e)
    BY <1>2 DEF OnEndpoint, At
  <2>2. OnEndpoint(n) = {}
    <3> SUFFICES ASSUME NEW c \in BalancedCalls, c \in OnEndpoint(n) PROVE FALSE
      BY DEF OnEndpoint
    <3>1. stage[c] \in {"net", "answered"} /\ At(c) = n
      BY DEF OnEndpoint
    <3>2. stage[c] \notin {"idle", "done"}
      BY <3>1
    <3>3. At(c) \in Endpoint
      BY <3>2, AtAnEndpoint
    <3> QED
      BY <1>7, <3>1, <3>3
  <2>3. Cardinality(OnEndpoint(n)) = 0
    BY <2>2, FS_EmptySet
  <2>4. NewEndpoint.inFlight = 0
    BY DEF NewEndpoint
  <2> QED
    BY <1>1, <1>6, <1>7, <2>1, <2>3, <2>4 DEF Accounts, LoadExact
<1>11. HealthExact'
  <2>1. NewEndpoint.healthy = TRUE /\ NewEndpoint.consecutive = 0
    BY DEF NewEndpoint
  <2>2. config.threshold = 0 \/ 0 < config.threshold
    BY <1>3
  <2> QED
    BY <1>1, <1>2, <1>6, <1>7, <2>1, <2>2 DEF Accounts, HealthExact
<1>12. FailoversExact'
  <2>1. 1..ep'[n].attempts - ep'[n].selected = {}
    <3>1. ep'[n].attempts - ep'[n].selected = 0
      BY <1>6 DEF NewEndpoint
    <3> QED
      BY <3>1
  <2>2. Switches' = Switches
    <3>1. Switches' = UNION {{e} \X (1..ep'[e].attempts - ep'[e].selected) : e \in Endpoint'}
      BY DEF Switches
    <3>2. \A p : p \in Switches' <=> p \in Switches
      BY <1>6, <1>7, <2>1, <3>1 DEF Switches
    <3> QED
      BY <3>2
  <2> QED
    BY <1>1, <1>2, <2>2 DEF Accounts, FailoversExact
<1>13. \A e \in Endpoint' : ep'[e].selected <= ep'[e].attempts
  <2>1. NewEndpoint.selected = 0 /\ NewEndpoint.attempts = 0
    BY DEF NewEndpoint
  <2> QED
    BY <1>1, <1>6, <1>7, <2>1 DEF Accounts
<1>14. Drains'
  BY <1>1, <1>2 DEF Drains, DrainedBeforeFree
<1> QED
  BY <1>8, <1>9, <1>10, <1>11, <1>12, <1>13, <1>14 DEF BalancerIInv, Accounts

\* Every step keeps it.
LEMMA BalancerStays ==
  ASSUME Failovers \subseteq {TRUE}, BalancerIInv, [BalancerNext]_balancerVars
  PROVE  BalancerIInv'
<1>1. CASE UNCHANGED balancerVars
  <2>1. UNCHANGED <<ep, rr, config, totals, chains, deleted, stage, order, index, bound, outcome>>
    BY <1>1 DEF balancerVars
  <2>2. BalancerTypes' /\ Endpoint' = Endpoint
    BY <2>1 DEF BalancerIInv, BalancerTypes, Endpoint
  <2>3. \A c \in BalancedCalls : Candidates(c)'
    BY <2>1, <2>2 DEF BalancerIInv, Candidates
  <2>4. LoadExact' /\ HealthExact'
    BY <2>1, <2>2 DEF BalancerIInv, Accounts, LoadExact, HealthExact, OnEndpoint, At
  <2>5. FailoversExact'
    BY <2>1, <2>2 DEF BalancerIInv, Accounts, FailoversExact, Switches
  <2>6. Accounts'
    BY <2>1, <2>2, <2>4, <2>5 DEF BalancerIInv, Accounts
  <2>7. Drains'
    BY <2>1 DEF BalancerIInv, Drains, DrainedBeforeFree
  <2> QED
    BY <2>2, <2>3, <2>6, <2>7 DEF BalancerIInv
<1>2. ASSUME NEW c \in BalancedCalls, Call(c) PROVE BalancerIInv'
  BY <1>2, PickOrderKeeps, BoundKeeps, CountInKeeps, BeginAttemptKeeps, AnswerAttemptKeeps,
     SwitchKeeps, EndKeeps, EndsKeep DEF Call
<1>3. ASSUME NEW n \in Thresholds, SetThreshold(n) PROVE BalancerIInv'
  BY <1>3, SetThresholdKeeps
<1>4. ASSUME DestroyBalancer \/ \E on \in Failovers : SetFailover(on) PROVE BalancerIInv'
  BY <1>4, SettingsKeep
<1> QED
  BY <1>1, <1>2, <1>3, <1>4, AddEndpointKeeps DEF BalancerNext

\* The endpoints it begins with have been given nothing yet.
LEMMA BalancerBegins == BalancerInit => BalancerIInv
<1> SUFFICES ASSUME BalancerInit PROVE BalancerIInv
  OBVIOUS
<1>1. First \in Nat /\ MaxEndpoints \in Nat /\ First <= MaxEndpoints /\ Thresholds \subseteq Nat
      /\ IsFiniteSet(BalancedCalls) /\ AsyncCalls \subseteq BalancedCalls
  BY BalancerAssumption DEF BalancerAssumption
<1>2. NewEndpoint \in EndpointRecord
  BY DEF NewEndpoint, EndpointRecord
<1>3. /\ ep = [e \in 1..First |-> NewEndpoint] /\ rr = 0
      /\ config \in [strategy : Strategies, failover : Failovers, threshold : Thresholds]
      /\ totals = [calls |-> 0, failures |-> 0, failovers |-> 0]
      /\ chains = 0 /\ deleted = FALSE
      /\ stage = [c \in BalancedCalls |-> "idle"] /\ order = [c \in BalancedCalls |-> <<>>]
      /\ index = [c \in BalancedCalls |-> 1] /\ bound = [c \in BalancedCalls |-> 0]
      /\ outcome = [c \in BalancedCalls |-> "value"]
  BY DEF BalancerInit
<1>4. ep \in Seq(EndpointRecord) /\ Len(ep) = First
  <2>1. ep \in [1..First -> EndpointRecord]
    BY <1>2, <1>3
  <2> QED
    BY <1>1, <2>1, LenProperties
<1>5. Endpoint = 1..First /\ \A e \in Endpoint : ep[e] = NewEndpoint
  BY <1>3, <1>4 DEF Endpoint
<1>6. BalancerTypes
  <2>1. Len(ep) \in First..MaxEndpoints
    BY <1>1, <1>4
  <2>2. totals \in [calls : Nat, failures : Nat, failovers : Nat] /\ rr \in Nat /\ chains \in Nat
        /\ deleted \in BOOLEAN
    BY <1>3
  <2>3. stage \in [BalancedCalls -> Steps]
    BY <1>3 DEF Steps
  <2>4. /\ order \in [BalancedCalls -> Seq(Nat)]
        /\ outcome \in [BalancedCalls -> Answers \cup {"value"}]
    BY <1>3, EmptySeq
  <2>5. index \in [BalancedCalls -> 1..MaxEndpoints + 1] /\ bound \in [BalancedCalls -> 0..MaxEndpoints]
    BY <1>1, <1>3
  <2> QED
    BY <1>3, <1>4, <2>1, <2>2, <2>3, <2>4, <2>5 DEF BalancerTypes
<1>7. \A c \in BalancedCalls : Candidates(c)
  <2> SUFFICES ASSUME NEW c \in BalancedCalls PROVE Candidates(c)
    OBVIOUS
  <2>1. order[c] = <<>> /\ stage[c] = "idle" /\ index[c] = 1
    BY <1>3
  <2>2. Len(order[c]) = 0
    BY <2>1, EmptySeq
  <2> QED
    BY <1>1, <2>1, <2>2 DEF Candidates
<1>8. Accounts
  <2>1. /\ NewEndpoint.selected = 0 /\ NewEndpoint.attempts = 0 /\ NewEndpoint.inFlight = 0
        /\ NewEndpoint.healthy = TRUE /\ NewEndpoint.consecutive = 0
    BY DEF NewEndpoint
  <2>2. \A e : OnEndpoint(e) = {}
    BY <1>3 DEF OnEndpoint
  <2>3. LoadExact
    BY <1>5, <2>1, <2>2, FS_EmptySet DEF LoadExact
  <2>4. HealthExact
    <3>1. config.threshold \in Nat
      BY <1>1, <1>3
    <3>2. config.threshold = 0 \/ 0 < config.threshold
      BY <3>1
    <3> QED
      BY <1>5, <2>1, <3>2 DEF HealthExact
  <2>5. Switches = {}
    <3>1. \A e \in Endpoint : 1..ep[e].attempts - ep[e].selected = {}
      BY <1>5, <2>1
    <3> QED
      BY <3>1 DEF Switches
  <2>6. {c \in BalancedCalls : stage[c] = "begin" /\ index[c] > 1} = {}
    BY <1>3
  <2>7. totals.failovers = 0
    BY <1>3
  <2>8. FailoversExact
    <3> DEFINE Waiting == {c \in BalancedCalls : stage[c] = "begin" /\ index[c] > 1}
    <3>1. Cardinality(Switches) = 0 /\ Cardinality(Waiting) = 0
      BY <2>5, <2>6, FS_EmptySet
    <3> HIDE DEF Waiting
    <3>2. totals.failovers = Cardinality(Switches) + Cardinality(Waiting)
      BY <2>7, <3>1
    <3> QED
      BY <3>2 DEF FailoversExact, Waiting
  <2> QED
    BY <1>5, <2>1, <2>3, <2>4, <2>8 DEF Accounts
<1>9. Drains
  <2>1. InGroup(AsyncCalls, stage, Chained) = {}
    BY <1>1, <1>3 DEF InGroup, Chained
  <2>2. chains = Cardinality(InGroup(AsyncCalls, stage, Chained))
    BY <1>3, <2>1, FS_EmptySet
  <2> QED
    BY <1>3, <2>2 DEF Drains, DrainedBeforeFree
<1> QED
  BY <1>6, <1>7, <1>8, <1>9 DEF BalancerIInv

\* What holds in every state of the balancer.
LEMMA BalancerAlways ==
  ASSUME Failovers \subseteq {TRUE}
  PROVE  BalancerSpec => []BalancerIInv
<1>1. BalancerIInv /\ [BalancerNext]_balancerVars => BalancerIInv'
  BY BalancerStays
<1> QED
  BY <1>1, BalancerBegins, PTL DEF BalancerSpec

\* Where failover stays on: the load of each endpoint, its health and the switches are
\* exact, the balancer is freed only when no chain will run a callback any more, and no
\* asynchronous call gives up before its last candidate.
THEOREM BalancerKept ==
  ASSUME Failovers \subseteq {TRUE}
  PROVE  BalancerSpec => []BalancerInv
<1>1. ASSUME BalancerIInv PROVE BalancerInv
  <2>1. BalancerTypes /\ Accounts /\ Drains /\ \A c \in BalancedCalls : Candidates(c)
    BY <1>1 DEF BalancerIInv
  <2>2. BalancerTypeOK
    <3>1. \A e \in Endpoint : ep[e] \in EndpointRecord
      BY <2>1, BalancerSizes
    <3>2. \A e \in Endpoint :
            /\ {ep[e].selected, ep[e].attempts, ep[e].failures, ep[e].inFlight,
                ep[e].consecutive} \subseteq Nat
            /\ ep[e].healthy \in BOOLEAN
            /\ ep[e].lastError \in {"OK", "TIMEOUT", "SERVER"}
      BY <3>1 DEF EndpointRecord
    <3>3. chains \in 0..Cardinality(AsyncCalls)
      <4>1. InGroup(AsyncCalls, stage, Chained) \subseteq AsyncCalls /\ IsFiniteSet(AsyncCalls)
        BY <2>1, BalancerSizes DEF InGroup
      <4>2. /\ Cardinality(InGroup(AsyncCalls, stage, Chained)) <= Cardinality(AsyncCalls)
            /\ Cardinality(InGroup(AsyncCalls, stage, Chained)) \in Nat
            /\ Cardinality(AsyncCalls) \in Nat
        BY <4>1, FS_Subset, FS_CardinalityType
      <4> QED
        BY <2>1, <4>2 DEF Drains
    <3>4. \A c \in BalancedCalls : order[c] \in Seq(Endpoint) /\ index[c] \in 1..MaxEndpoints + 1
      <4> SUFFICES ASSUME NEW c \in BalancedCalls
                   PROVE  order[c] \in Seq(Endpoint) /\ index[c] \in 1..MaxEndpoints + 1
        OBVIOUS
      <4>1. order[c] \in Seq(Nat) /\ Len(order[c]) \in Nat
        BY <2>1, BalancerSizes
      <4>2. order[c] \in [1..Len(order[c]) -> Nat]
        BY <4>1, LenProperties
      <4>3. \A i \in 1..Len(order[c]) : order[c][i] \in Endpoint
        BY <2>1 DEF Candidates
      <4> DEFINE o == order[c]
                 n == Len(order[c])
      <4>4. o \in [1..n -> Nat] /\ n \in Nat /\ \A i \in 1..n : o[i] \in Endpoint
        BY <4>1, <4>2, <4>3
      <4> HIDE DEF o, n
      <4>6. o = [i \in 1..n |-> o[i]]
        BY ONLY <4>4
      <4>7. o \in Seq(Endpoint)
        <5>1. o \in [1..n -> Endpoint]
          BY ONLY <4>4, <4>6
        <5> QED
          BY ONLY <4>4, <5>1, SeqDef
      <4>5. order[c] \in Seq(Endpoint)
        BY <4>7 DEF o
      <4> QED
        BY <2>1, <4>5 DEF BalancerTypes
    <3> QED
      BY <2>1, <3>2, <3>3, <3>4 DEF BalancerTypeOK, BalancerTypes
  <2>3. GivesUpLast
    <3>1. AsyncCalls \subseteq BalancedCalls
      BY <2>1, BalancerSizes
    <3> QED
      BY <2>1, <3>1 DEF GivesUpLast, Candidates
  <2> QED
    BY <2>1, <2>2, <2>3 DEF BalancerInv, Accounts, Drains
<1> QED
  BY <1>1, BalancerAlways, PTL

\* Where failover stays on and no result is null, an asynchronous call that a server has
\* answered is not sent to another one, whatever the other calls of that endpoint meet with.
THEOREM ServedKept ==
  ASSUME Failovers \subseteq {TRUE}, "null" \notin Answers
  PROVE  BalancerSpec => ServedOnce
<1> DEFINE Once == \A c \in AsyncCalls : outcome[c] \in {"value", "null", "server"} => ~Switch(c)
<1>1. ASSUME BalancerIInv PROVE Once
  <2> SUFFICES ASSUME NEW c \in AsyncCalls, outcome[c] \in {"value", "null", "server"}, Switch(c)
               PROVE  FALSE
    OBVIOUS
  <2>1. c \in BalancedCalls /\ outcome[c] \in Answers \cup {"value"}
    BY <1>1, BalancerSizes DEF BalancerIInv, BalancerTypes
  <2>2. outcome[c] \in {"value", "server"}
    BY <2>1
  <2>3. Error(c) \in {"OK", "SERVER"}
    BY <2>2 DEF Error, ErrorOf
  <2>4. Error(c) = "TIMEOUT"
    BY DEF Switch, Switchable
  <2> QED
    BY <2>3, <2>4
<1>2. BalancerIInv /\ [BalancerNext]_balancerVars => [Once]_balancerVars
  BY <1>1
<1>3. BalancerSpec => [][Once]_balancerVars
  BY <1>2, BalancerAlways, PTL DEF BalancerSpec
<1> QED
  BY <1>3 DEF ServedOnce

-----------------------------------------------------------------------------
(***************************************************************************)
(* One call of RpcEnvelope, for any hints, gateways and number of tries:   *)
(* what the caller is told is what the server meant, over either kind of   *)
(* transport.  The argument follows the reply of one attempt: what travels *)
(* back says the same as the server's reply, what the client reads in it   *)
(* says the same again, and an attempt leaves more handler runs than lost  *)
(* answers only while its answer is on the way or after it was read.       *)
(***************************************************************************)

\* The wait that a refusal asks for, as a transport says it.
WaitMeant(c) ==
  IF c.after > 0 THEN <<c.after, "s">> ELSE IF carrier = "http" THEN Nothing ELSE <<1, "s">>

\* A text that was carried: httplib's own answer has none.
SameText(c, text) ==
  \/ text = c.text /\ text # "not JSON"
  \/ text = "not JSON" /\ c.text = "http status 500" /\ c.code = 500

\* A packet says what the reply c says.
Carries(c, p) ==
  /\ p.value = c.value /\ SameText(c, p.text)
  /\ IF carrier = "http"
       THEN /\ p.kind = "http" /\ p.status = c.code
            /\ p.after = IF c.code = 429 THEN Seconds(c.after) ELSE Unsaid
       ELSE p.kind = "frame" /\ p.status = Word(c.code) /\ p.after = Seconds(c.after)

\* What the client has read says what the reply c says.
Tells(c, r) ==
  /\ r.ok = TRUE /\ r.code = c.code /\ r.value = c.value /\ SameText(c, r.text)
  /\ c.code = 429 => r.after = WaitMeant(c)

\* Runs of handlers, while the server's reply is c and has not got lost.
RanFor(c) ==
  /\ c.code \in {404, 429} => ran <= unseen
  /\ c.code = 200 => ran > 0
  /\ ran <= 1 + unseen

AnswerIs(p) ==
  \/ core \in CoreReplies /\ Carries(core, p) /\ RanFor(core)
  \/ /\ core \in GatewaySays /\ ran <= unseen
     /\ p.kind = "http" /\ p.status = 429
  \/ /\ core = Nothing /\ ran <= unseen
     /\ \/ p.kind = "noise" /\ carrier = "frames"
        \/ p.kind = "http" /\ p.status = 200 /\ p.text = "not JSON"

FailedWith(r) ==
  /\ r.ok = FALSE /\ core = Nothing /\ ran <= unseen
  /\ r.error \in {"CONNECTION_FAILED", "TIMEOUT", "PROTOCOL_ERROR"}
  /\ r.error = "PROTOCOL_ERROR" => carrier = "frames"

ResultIs(r) ==
  \/ core \in CoreReplies /\ Tells(core, r) /\ RanFor(core)
  \/ core \in GatewaySays /\ ran <= unseen /\ r.ok = TRUE /\ r.code = 429
  \/ /\ core = Nothing /\ ran <= unseen
     /\ r.ok = TRUE /\ r.code = 200 /\ r.text = "not JSON"
  \/ FailedWith(r)

\* What is tried again, or given up.
AgainAfter(r) ==
  /\ ran <= unseen
  /\ \/ FailedWith(r) /\ last_fail_error = r.error
     \/ /\ r.ok = TRUE /\ r.code = 429 /\ last_fail_error = "OVERLOADED"
        /\ \/ core \in GatewaySays
           \/ /\ core \in CoreReplies /\ core.code = 429 /\ SameText(core, r.text)
              /\ retry_advice = WaitMeant(core)

EnvelopeTypes ==
  /\ carrier \in {"http", "frames"} /\ hint \in Hints /\ ran \in Nat /\ unseen \in Nat
  /\ leg \in {"idle", "sent", "answered", "got", "retry", "over"}

EnvelopeIInv ==
  /\ EnvelopeTypes /\ ran <= 1 + unseen
  /\ leg \in {"idle", "sent"} => core = Nothing /\ ran <= unseen
  /\ leg = "answered" => AnswerIs(packet)
  /\ leg = "got" => ResultIs(result)
  /\ leg = "retry" => AgainAfter(result)
  /\ leg = "over" => /\ core \in {Nothing} \cup CoreReplies \cup GatewaySays
                     /\ SaysWhatWasMeant /\ NothingFromNowhere

\* A reply of the server is none of the other things, and has a code.
LEMMA RepliesDiffer ==
  /\ \A c \in CoreReplies : c # Nothing /\ "code" \in DOMAIN c
  /\ \A c \in GatewaySays : c # Nothing /\ "code" \notin DOMAIN c
  /\ \A v \in Verdicts : v # Nothing
  /\ \A s \in Sayings : s # Nothing
<1>1. \A c \in CoreReplies : "code" \in DOMAIN c
  BY DEF CoreReplies
<1>2. \A c \in GatewaySays : "code" \notin DOMAIN c
  BY DEF GatewaySays
<1> QED
  BY <1>1, <1>2, EnvelopeAssumption DEF EnvelopeAssumption

\* The word for a status is read as that status.
LEMMA WordsRead ==
  ASSUME NEW n \in {200, 404, 429, 500}
  PROVE  Code(Word(n)) = n
<1>1. CASE n = 200
  BY <1>1 DEF Word, Code
<1>2. CASE n = 404
  BY <1>2 DEF Word, Code
<1>3. CASE n = 429
  BY <1>3 DEF Word, Code
<1>4. CASE n = 500
  BY <1>4 DEF Word, Code
<1> QED
  BY <1>1, <1>2, <1>3, <1>4

\* What a server makes of its reply carries it.
LEMMA PackedCarries ==
  ASSUME NEW c, c.text # "not JSON"
  PROVE  Carries(c, Packed(c))
BY DEF Carries, Packed, SameText

\* The client reads of a refusal how long it is to wait.
LEMMA WaitRead ==
  ASSUME NEW c, NEW p, c.after \in Nat, Carries(c, p), c.code = 429
  PROVE  /\ carrier = "http" => Header(p.after) = WaitMeant(c)
         /\ carrier # "http" =>
              (IF p.after = Unsaid THEN <<1, "s">> ELSE Header(p.after)) = WaitMeant(c)
<1>1. p.after = Seconds(c.after)
  BY DEF Carries
<1>2. CASE c.after > 0
  <2>1. p.after = [form |-> "seconds", n |-> c.after]
    BY <1>1, <1>2 DEF Seconds
  <2>2. p.after.form = "seconds" /\ p.after.n = c.after
    BY <2>1
  <2>3. p.after # Unsaid
    BY <2>2 DEF Unsaid
  <2>4. Header(p.after) = <<c.after, "s">>
    BY <2>2 DEF Header, WaitAsked
  <2> QED
    BY <1>2, <2>3, <2>4 DEF WaitMeant
<1>3. CASE c.after = 0
  <2>1. p.after = Unsaid
    BY <1>1, <1>3 DEF Seconds
  <2>2. Header(p.after) = Nothing
    BY <2>1 DEF Header, Unsaid
  <2> QED
    BY <1>3, <2>1, <2>2 DEF WaitMeant
<1> QED
  BY <1>2, <1>3

\* The client reads what was carried.
LEMMA ReadTells ==
  ASSUME carrier \in {"http", "frames"}, NEW c \in CoreReplies, Carries(c, packet)
  PROVE  Tells(c, Read(packet))
<1>1. c.after \in Nat /\ c.code \in {200, 404, 429, 500}
  BY EnvelopeAssumption DEF EnvelopeAssumption, CoreReplies
<1>2. CASE carrier = "http"
  <2>1. packet.kind = "http" /\ packet.status = c.code
    BY <1>2 DEF Carries
  <2>2. Read(packet) = Received(c.code, Header(packet.after))
    BY <2>1 DEF Read
  <2>3. c.code = 429 => Header(packet.after) = WaitMeant(c)
    BY <1>1, <1>2, WaitRead
  <2> QED
    BY <2>2, <2>3 DEF Tells, Received, Carries
<1>3. CASE carrier = "frames"
  <2>1. packet.kind = "frame" /\ Code(packet.status) = c.code
    BY <1>1, <1>3, WordsRead DEF Carries
  <2> DEFINE w == IF c.code # 429 THEN Nothing
                  ELSE IF packet.after = Unsaid THEN <<1, "s">> ELSE Header(packet.after)
  <2>2. Read(packet) = Received(c.code, w)
    BY <2>1 DEF Read
  <2>3. c.code = 429 => w = WaitMeant(c)
    BY <1>1, <1>3, WaitRead
  <2> HIDE DEF w
  <2> QED
    BY <2>2, <2>3 DEF Tells, Received, Carries
<1> QED
  BY <1>2, <1>3

\* A reply of the server is on its way.
LEMMA ServerAnswers ==
  ASSUME EnvelopeIInv, leg = "sent", NEW c \in CoreReplies, c.text # "not JSON", AnswerWith(c),
         \/ c.code \in {404, 429} /\ ran' = ran
         \/ c.code \in {200, 500} /\ ran' = ran + 1
  PROVE  EnvelopeIInv'
<1>1. c.code \in {404, 429} \/ c.code \in {200, 500}
  OBVIOUS
<1>2. /\ core' = c /\ packet' = Packed(c) /\ leg' = "answered"
      /\ UNCHANGED <<carrier, hint, unseen>>
  BY DEF AnswerWith
<1>3. Carries(c, Packed(c))
  <2>1. c.text # "not JSON"
    OBVIOUS
  <2> QED
    BY ONLY <2>1, PackedCarries
<1>4. Carries(core, packet)'
  BY <1>2, <1>3 DEF Carries
<1>5. ran \in Nat /\ unseen \in Nat /\ ran <= unseen
  BY DEF EnvelopeIInv, EnvelopeTypes
<1>6. /\ ran' \in Nat /\ ran' <= 1 + unseen' /\ (c.code \in {404, 429} => ran' <= unseen')
      /\ (c.code = 200 => ran' > 0)
  <2>1. unseen' = unseen
    BY <1>2
  <2>2. \/ c.code \in {404, 429} /\ ran' = ran
        \/ c.code \in {200, 500} /\ ran' = ran + 1
    OBVIOUS
  <2>3. CASE c.code \in {404, 429} /\ ran' = ran
    BY ONLY <1>5, <2>1, <2>3
  <2>4. CASE c.code \in {200, 500} /\ ran' = ran + 1
    BY ONLY <1>5, <2>1, <2>4
  <2> QED
    BY ONLY <2>2, <2>3, <2>4
<1>7. AnswerIs(packet)'
  <2>1. RanFor(core)'
    BY <1>2, <1>6 DEF RanFor
  <2> QED
    BY <1>2, <1>4, <2>1 DEF AnswerIs
<1>8. EnvelopeTypes'
  BY <1>2, <1>6 DEF EnvelopeIInv, EnvelopeTypes
<1> QED
  BY <1>2, <1>6, <1>7, <1>8 DEF EnvelopeIInv

\* What the server makes of a request: it refuses it, knows no such method, or runs
\* the handler.
LEMMA ServerKeeps ==
  ASSUME EnvelopeIInv, Refuse \/ NotFound \/ RunHandler \/ HandlerFails
  PROVE  EnvelopeIInv'
<1>1. hint \in Hints
  BY DEF EnvelopeIInv, EnvelopeTypes
<1>2. Nothing # "not JSON"
  BY RepliesDiffer DEF Sayings
<1>3. CASE Refuse
  <2>1. PICK text \in {"server shutting down", "overloaded"} :
          AnswerWith(Reply(429, text, Nothing, hint))
    BY <1>3 DEF Refuse
  <2> DEFINE c == Reply(429, text, Nothing, hint)
  <2>2. c \in CoreReplies
    BY <1>1 DEF Reply, CoreReplies, Sayings, Values
  <2>3. c.code = 429 /\ c.text = text
    BY DEF Reply
  <2>4. leg = "sent" /\ ran' = ran
    BY <1>3 DEF Refuse
  <2>5. AnswerWith(c)
    BY <2>1
  <2> HIDE DEF c
  <2> QED
    BY <2>2, <2>3, <2>4, <2>5, ServerAnswers
<1>4. CASE NotFound
  <2> DEFINE c == Reply(404, "method not found", Nothing, 0)
  <2>2. c \in CoreReplies
    BY DEF Reply, CoreReplies, Sayings, Values
  <2>3. c.code = 404 /\ c.text = "method not found"
    BY DEF Reply
  <2>4. leg = "sent" /\ ran' = ran /\ AnswerWith(c)
    BY <1>4 DEF NotFound
  <2> HIDE DEF c
  <2> QED
    BY <2>2, <2>3, <2>4, ServerAnswers
<1>5. CASE RunHandler
  <2>1. PICK value \in {"something", Nothing} : AnswerWith(Reply(200, Nothing, value, 0))
    BY <1>5 DEF RunHandler
  <2> DEFINE c == Reply(200, Nothing, value, 0)
  <2>2. c \in CoreReplies
    BY DEF Reply, CoreReplies, Values
  <2>3. c.code = 200 /\ c.text = Nothing
    BY DEF Reply
  <2>4. leg = "sent" /\ ran' = ran + 1
    BY <1>5 DEF RunHandler
  <2>5. AnswerWith(c)
    BY <2>1
  <2> HIDE DEF c
  <2> QED
    BY <1>2, <2>2, <2>3, <2>4, <2>5, ServerAnswers
<1>6. CASE HandlerFails
  <2> DEFINE c == Reply(500, "exception", Nothing, 0)
  <2>2. c \in CoreReplies
    BY DEF Reply, CoreReplies, Sayings, Values
  <2>3. c.code = 500 /\ c.text = "exception"
    BY DEF Reply
  <2>4. leg = "sent" /\ ran' = ran + 1 /\ AnswerWith(c)
    BY <1>6 DEF HandlerFails
  <2> HIDE DEF c
  <2> QED
    BY <2>2, <2>3, <2>4, ServerAnswers
<1> QED
  BY <1>3, <1>4, <1>5, <1>6

\* What a handler throws escapes: over HTTP the reply says so without a text, elsewhere
\* the answer is lost with its server.
LEMMA EscapeKeeps ==
  ASSUME EnvelopeIInv, HandlerEscapes
  PROVE  EnvelopeIInv'
<1>1. /\ leg = "sent" /\ ran' = ran + 1 /\ UNCHANGED <<carrier, hint>>
      /\ ran \in Nat /\ unseen \in Nat /\ ran <= unseen /\ carrier \in {"http", "frames"}
  BY DEF EnvelopeIInv, EnvelopeTypes, HandlerEscapes
<1>2. CASE carrier = "http"
  <2> DEFINE c == Reply(500, "http status 500", Nothing, 0)
  <2>1. /\ core' = c /\ leg' = "answered" /\ unseen' = unseen
        /\ packet' = [kind |-> "http", status |-> 500, text |-> "not JSON",
                      value |-> Nothing, after |-> Unsaid]
    BY <1>2 DEF HandlerEscapes
  <2>2. c \in CoreReplies
    BY DEF Reply, CoreReplies, Sayings, Values
  <2>a. c.code = 500
    BY DEF Reply
  <2>b. c.text = "http status 500"
    BY DEF Reply
  <2>c. c.value = Nothing
    BY DEF Reply
  <2> HIDE DEF c
  <2>7. c.code = 500 /\ c.text = "http status 500" /\ c.value = Nothing
    BY ONLY <2>a, <2>b, <2>c
  <2>d. c.code \notin {404, 429}
    BY ONLY <2>a
  <2>8. carrier' = "http" /\ ran' = ran + 1 /\ unseen' = unseen /\ core' = c
    BY <1>1, <1>2, <2>1
  <2>3. Carries(core, packet)'
    <3> DEFINE p == packet'
    <3>1. p.kind = "http" /\ p.text = "not JSON"
      BY <2>1
    <3>2. p.status = 500
      BY <2>1
    <3>3. p.value = Nothing /\ p.after = Unsaid
      BY <2>1
    <3> HIDE DEF p
    <3>4. Carries(c, p)
      <4>1. SameText(c, p.text)
        BY ONLY <2>a, <2>b, <3>1 DEF SameText
      <4>2. p.status = c.code
        BY ONLY <2>a, <3>2
      <4>3. p.value = c.value /\ (c.code = 429 => FALSE)
        BY ONLY <2>c, <2>d, <3>3
      <4> QED
        BY ONLY <1>2, <3>1, <3>3, <4>1, <4>2, <4>3 DEF Carries
    <3> QED
      BY <1>1, <2>1, <3>4 DEF Carries, p
  <2>4. RanFor(core)'
    <3>1. /\ ran' <= 1 + unseen' /\ (c.code \in {404, 429} => ran' <= unseen')
          /\ (c.code = 200 => ran' > 0)
      <4>1. ran' <= 1 + unseen' /\ ran' > 0
        BY ONLY <1>1, <2>8
      <4> QED
        BY <4>1, <2>d
    <3> QED
      BY <2>1, <3>1 DEF RanFor
  <2>5. AnswerIs(packet)'
    BY <2>1, <2>2, <2>3, <2>4 DEF AnswerIs
  <2>6. EnvelopeTypes'
    <3>1. ran' \in Nat
      BY ONLY <1>1, <2>8
    <3> QED
      BY <1>1, <2>1, <2>8, <3>1 DEF EnvelopeIInv, EnvelopeTypes
  <2>9. ran' <= 1 + unseen'
    BY ONLY <1>1, <2>8
  <2> QED
    BY <2>1, <2>5, <2>6, <2>9 DEF EnvelopeIInv
<1>3. CASE carrier # "http"
  <2>1. PICK err \in {"CONNECTION_FAILED", "TIMEOUT"} : result' = [ok |-> FALSE, error |-> err]
    BY <1>3 DEF HandlerEscapes
  <2>2. core' = Nothing /\ leg' = "got" /\ unseen' = unseen + 1
    BY <1>3 DEF HandlerEscapes
  <2>3. FailedWith(result)'
    BY <1>1, <2>1, <2>2 DEF FailedWith
  <2>4. EnvelopeTypes'
    BY <1>1, <2>2 DEF EnvelopeIInv, EnvelopeTypes
  <2> QED
    BY <1>1, <2>2, <2>3, <2>4 DEF EnvelopeIInv, ResultIs
<1> QED
  BY <1>2, <1>3

\* An attempt that fails on its way leaves no answer.
LEMMA LossKeeps ==
  ASSUME EnvelopeIInv, Unreachable \/ AnswerLost
  PROVE  EnvelopeIInv'
<1>1. /\ UNCHANGED <<carrier, hint, ran>> /\ core' = Nothing /\ leg' = "got"
      /\ \E err \in {"CONNECTION_FAILED", "TIMEOUT"} : result' = [ok |-> FALSE, error |-> err]
  BY DEF Unreachable, AnswerLost, Breaks
<1>2. ran' <= unseen' /\ unseen' \in Nat /\ ran \in Nat
  <2>1. ran \in Nat /\ unseen \in Nat /\ ran <= 1 + unseen /\ (leg = "sent" => ran <= unseen)
    BY DEF EnvelopeIInv, EnvelopeTypes
  <2>2. (leg = "sent" /\ unseen' = unseen) \/ unseen' = unseen + 1
    BY DEF Unreachable, AnswerLost
  <2> QED
    BY <1>1, <2>1, <2>2
<1>3. FailedWith(result)'
  BY <1>1, <1>2 DEF FailedWith
<1>4. EnvelopeTypes'
  BY <1>1, <1>2 DEF EnvelopeIInv, EnvelopeTypes
<1>5. ran' <= 1 + unseen'
  <2> DEFINE r == ran'
             u == unseen'
  <2>1. r \in Nat /\ u \in Nat /\ r <= u
    BY <1>1, <1>2
  <2> HIDE DEF r, u
  <2>2. r <= 1 + u
    BY ONLY <2>1
  <2> QED
    BY <2>2 DEF r, u
<1> QED
  BY <1>1, <1>3, <1>4, <1>5 DEF EnvelopeIInv, ResultIs

\* Somebody else answers.
LEMMA OthersKeep ==
  ASSUME EnvelopeIInv, Stranger \/ Gateway
  PROVE  EnvelopeIInv'
<1>1. /\ leg = "sent" /\ leg' = "answered" /\ UNCHANGED <<carrier, hint, ran, unseen>>
  BY DEF Stranger, Gateway
<1>2. ran \in Nat /\ unseen \in Nat /\ ran <= unseen /\ carrier \in {"http", "frames"}
  BY <1>1 DEF EnvelopeIInv, EnvelopeTypes
<1>3. AnswerIs(packet)'
  <2>1. CASE Stranger
    <3>1. core' = Nothing
      BY <2>1 DEF Stranger
    <3>2. \/ packet'.kind = "noise" /\ carrier = "frames"
          \/ packet'.kind = "http" /\ packet'.status = 200 /\ packet'.text = "not JSON"
      BY <1>2, <2>1 DEF Stranger
    <3> QED
      BY <1>1, <1>2, <3>1, <3>2 DEF AnswerIs
  <2>2. CASE Gateway
    <3>1. PICK m \in Months, n \in Later :
            /\ packet' = [kind |-> "http", status |-> 429, text |-> "busy", value |-> Nothing,
                          after |-> Date([month |-> m, day |-> 15, hour |-> 12],
                                         [month |-> m, day |-> 15 + ((12 + n) \div 24),
                                          hour |-> (12 + n) % 24])]
            /\ core' = [gateway |-> n]
      BY <2>2 DEF Gateway
    <3>2. core' \in GatewaySays
      BY <3>1 DEF GatewaySays
    <3>3. packet'.kind = "http" /\ packet'.status = 429
      BY <3>1
    <3> QED
      BY <1>1, <1>2, <3>2, <3>3 DEF AnswerIs
  <2> QED
    BY <2>1, <2>2
<1>4. EnvelopeTypes'
  BY <1>1 DEF EnvelopeIInv, EnvelopeTypes
<1>5. ran' <= 1 + unseen'
  BY <1>1, <1>2
<1> QED
  BY <1>1, <1>3, <1>4, <1>5 DEF EnvelopeIInv

\* The client reads what is in the packet.
LEMMA ReadKeeps ==
  ASSUME EnvelopeIInv, ReadReply
  PROVE  EnvelopeIInv'
<1>1. /\ leg = "answered" /\ result' = Read(packet) /\ leg' = "got"
      /\ UNCHANGED <<carrier, hint, core, ran, unseen>>
  BY DEF ReadReply
<1>2. EnvelopeTypes /\ ran <= 1 + unseen /\ AnswerIs(packet)
  BY <1>1 DEF EnvelopeIInv
<1> DEFINE r == Read(packet)
<1>3. ResultIs(r)
  <2>1. CASE core \in CoreReplies /\ Carries(core, packet) /\ RanFor(core)
    <3>1. carrier \in {"http", "frames"}
      BY <1>2 DEF EnvelopeTypes
    <3>2. Tells(core, r)
      BY <2>1, <3>1, ReadTells
    <3> HIDE DEF r
    <3> QED
      BY <2>1, <3>2 DEF ResultIs
  <2>2. CASE core \in GatewaySays /\ ran <= unseen /\ packet.kind = "http" /\ packet.status = 429
    <3>1. r = Received(429, Header(packet.after))
      BY <2>2 DEF Read
    <3>2. r.ok = TRUE
      BY <3>1 DEF Received
    <3>3. r.code = 429
      BY <3>1 DEF Received
    <3> HIDE DEF r
    <3> QED
      BY <2>2, <3>2, <3>3 DEF ResultIs
  <2>3. CASE core = Nothing /\ ran <= unseen /\ packet.kind = "noise" /\ carrier = "frames"
    <3>1. r = [ok |-> FALSE, error |-> "PROTOCOL_ERROR"]
      BY <2>3 DEF Read
    <3>2. r.ok = FALSE
      BY <3>1
    <3>3. r.error = "PROTOCOL_ERROR"
      BY <3>1
    <3> HIDE DEF r
    <3> QED
      BY <2>3, <3>2, <3>3 DEF ResultIs, FailedWith
  <2>4. CASE /\ core = Nothing /\ ran <= unseen
             /\ packet.kind = "http" /\ packet.status = 200 /\ packet.text = "not JSON"
    <3>1. r = Received(200, Header(packet.after))
      BY <2>4 DEF Read
    <3>2. r.ok = TRUE
      BY <3>1 DEF Received
    <3>3. r.code = 200
      BY <3>1 DEF Received
    <3>4. r.text = "not JSON"
      <4>1. r.text = packet.text
        BY <3>1 DEF Received
      <4>2. packet.text = "not JSON"
        BY <2>4
      <4> QED
        BY ONLY <4>1, <4>2
    <3> HIDE DEF r
    <3> QED
      BY <2>4, <3>2, <3>3, <3>4 DEF ResultIs
  <2> QED
    BY <1>2, <2>1, <2>2, <2>3, <2>4 DEF AnswerIs
<1> HIDE DEF r
<1>4. ResultIs(result)'
  <2>0. result' = r
    BY <1>1 DEF r
  <2>1. Tells(core, r) => Tells(core, result)'
    BY <1>1, <2>0 DEF Tells, WaitMeant
  <2>2. RanFor(core) => RanFor(core)'
    BY <1>1 DEF RanFor
  <2>3. CASE core \in CoreReplies /\ Tells(core, r) /\ RanFor(core)
    BY <1>1, <2>1, <2>2, <2>3 DEF ResultIs
  <2>4. CASE core \in GatewaySays /\ ran <= unseen /\ r.ok = TRUE /\ r.code = 429
    BY <1>1, <2>0, <2>4 DEF ResultIs
  <2>5. CASE /\ core = Nothing /\ ran <= unseen
             /\ r.ok = TRUE /\ r.code = 200 /\ r.text = "not JSON"
    <3>1. core' = Nothing /\ ran' <= unseen'
      BY <1>1, <2>5
    <3>2. result'.ok = TRUE
      BY <2>0, <2>5
    <3>3. result'.code = 200
      BY <2>0, <2>5
    <3>4. result'.text = "not JSON"
      BY <2>0, <2>5
    <3> QED
      BY ONLY <3>1, <3>2, <3>3, <3>4, Zenon DEF ResultIs
  <2>6. CASE FailedWith(r)
    <3>1. FailedWith(result)'
      BY <1>1, <2>0, <2>6 DEF FailedWith
    <3> QED
      BY <3>1 DEF ResultIs
  <2> QED
    BY <1>3, <2>3, <2>4, <2>5, <2>6 DEF ResultIs
<1>5. EnvelopeTypes' /\ ran' <= 1 + unseen'
  BY <1>1, <1>2 DEF EnvelopeTypes
<1> QED
  BY <1>1, <1>4, <1>5 DEF EnvelopeIInv

\* The error of a verdict is the one it was given.
LEMMA VerdictError ==
  ASSUME NEW e, NEW t, NEW v
  PROVE  Verdict(e, t, v).error = e
BY DEF Verdict

\* What is over is over well: the verdict v fits the reply.
LEMMA OverKeeps ==
  ASSUME EnvelopeIInv, leg' = "over", NEW v, verdict' = v,
         UNCHANGED <<carrier, hint, core, ran, unseen>>,
         core \in {Nothing} \cup CoreReplies \cup GatewaySays,
         core \in CoreReplies =>
           \/ core.code = 200 /\ v = Verdict("OK", Nothing, core.value)
           \/ core.code \in {404, 500} /\ v = Verdict("SERVER_ERROR", core.text, Nothing)
           \/ core.code = 429 /\ v = Verdict("OVERLOADED", core.text, Nothing),
         v.error = "OK" => ran > 0,
         v.error = "OVERLOADED" => core # Nothing
  PROVE  EnvelopeIInv'
<1>1. EnvelopeTypes' /\ ran' <= 1 + unseen'
  BY DEF EnvelopeIInv, EnvelopeTypes
<1>2. SaysWhatWasMeant'
  <2> SUFFICES ASSUME core # Nothing, "code" \in DOMAIN core
               PROVE  \/ core.code = 200 /\ v = Verdict("OK", Nothing, core.value)
                      \/ core.code \in {404, 500} /\ v = Verdict("SERVER_ERROR", core.text, Nothing)
                      \/ core.code = 429 /\ v = Verdict("OVERLOADED", core.text, Nothing)
    BY DEF SaysWhatWasMeant
  <2>1. core \in CoreReplies
    BY RepliesDiffer
  <2> QED
    BY <2>1
<1>3. NothingFromNowhere'
  BY DEF NothingFromNowhere
<1> QED
  BY <1>1, <1>2, <1>3 DEF EnvelopeIInv

\* A failure is tried again.
LEMMA FailureAgain ==
  ASSUME EnvelopeIInv, Judge, FailedWith(result)
  PROVE  EnvelopeIInv'
<1>1. result.ok = FALSE /\ ran <= unseen
  BY DEF FailedWith
<1>2. Judged(result) = Nothing
  BY <1>1 DEF Judged
<1>3. /\ leg' = "retry" /\ last_fail_error' = result.error
      /\ UNCHANGED <<carrier, hint, core, result, ran, unseen>>
  BY <1>1, <1>2 DEF Judge
<1>4. FailedWith(result)'
  BY <1>3 DEF FailedWith
<1>5. AgainAfter(result)'
  BY <1>1, <1>3, <1>4 DEF AgainAfter
<1>6. EnvelopeTypes' /\ ran' <= 1 + unseen'
  BY <1>3 DEF EnvelopeIInv, EnvelopeTypes
<1> QED
  BY <1>3, <1>5, <1>6 DEF EnvelopeIInv

\* So is a refusal, of the server or of a gateway before it.
LEMMA RefusalAgain ==
  ASSUME EnvelopeIInv, Judge, result.ok = TRUE, result.code = 429,
         \/ core \in CoreReplies /\ Tells(core, result) /\ RanFor(core)
         \/ core \in GatewaySays /\ ran <= unseen
  PROVE  EnvelopeIInv'
<1>2. Judged(result) = Nothing
  BY DEF Judged
<1>3. /\ leg' = "retry" /\ last_fail_error' = "OVERLOADED" /\ retry_advice' = result.after
      /\ UNCHANGED <<carrier, hint, core, result, ran, unseen>>
  BY <1>2 DEF Judge
<1>4. AgainAfter(result)'
  <2>1. CASE core \in CoreReplies /\ Tells(core, result) /\ RanFor(core)
    <3>1. core.code = 429
      BY <2>1 DEF Tells
    <3>2. SameText(core, result.text) /\ result.after = WaitMeant(core) /\ ran <= unseen
      BY <2>1, <3>1 DEF Tells, RanFor
    <3> QED
      BY <1>3, <2>1, <3>1, <3>2 DEF AgainAfter, WaitMeant
  <2>2. CASE core \in GatewaySays /\ ran <= unseen
    BY <1>3, <2>2 DEF AgainAfter
  <2> QED
    BY <2>1, <2>2
<1>6. EnvelopeTypes' /\ ran' <= 1 + unseen'
  BY <1>3 DEF EnvelopeIInv, EnvelopeTypes
<1> QED
  BY <1>3, <1>4, <1>6 DEF EnvelopeIInv

\* The end of an attempt says something of the call, or another one is to follow.
LEMMA JudgeKeeps ==
  ASSUME EnvelopeIInv, Judge
  PROVE  EnvelopeIInv'
<1>1. leg = "got" /\ UNCHANGED <<carrier, hint, core, ran, unseen>>
  BY DEF Judge
<1>2. ResultIs(result)
  BY <1>1 DEF EnvelopeIInv
<1>3. CASE FailedWith(result)
  BY <1>3, FailureAgain
<1>4. CASE core \in GatewaySays /\ ran <= unseen /\ result.ok = TRUE /\ result.code = 429
  BY <1>4, RefusalAgain
<1>5. CASE core \in CoreReplies /\ Tells(core, result) /\ RanFor(core)
  <2>1. result.ok = TRUE
    BY <1>5 DEF Tells
  <2>2. result.code = core.code /\ core.code \in {200, 404, 429, 500}
    BY <1>5 DEF Tells, CoreReplies
  <2>3. SameText(core, result.text) /\ result.value = core.value
    BY <1>5 DEF Tells
  <2>4. core.value \in Values /\ core.text \in Sayings \cup {Nothing}
    BY <1>5 DEF CoreReplies
  <2>5. CASE core.code = 429
    <3>1. result.code = 429
      BY <2>2, <2>5
    <3> QED
      BY <1>5, <2>1, <3>1, RefusalAgain
  <2>6. CASE core.code = 200
    <3> DEFINE v == Verdict("OK", Nothing, core.value)
    <3>a. core.code # 500
      BY ONLY <2>6
    <3>1. result.text # "not JSON"
      BY <2>3, <3>a, Zenon DEF SameText
    <3>b. result.code = 200 /\ result.code # 429
      BY ONLY <2>2, <2>6
    <3>2. Judged(result) = v
      <4>1. ~(~result.ok \/ result.code = 429)
        BY <2>1, <3>b
      <4>2. Judged(result) = Verdict("OK", Nothing, result.value)
        BY <3>1, <3>b, <4>1, Zenon DEF Judged
      <4> QED
        BY <2>3, <4>2
    <3>3. v \in Verdicts
      BY <2>4 DEF Verdict, Verdicts, ErrorWords
    <3>4. v.error = "OK"
      BY VerdictError
    <3> HIDE DEF v
    <3>5. Judged(result) # Nothing
      BY <3>2, <3>3, RepliesDiffer
    <3>6. leg' = "over" /\ verdict' = v
      BY <3>2, <3>5 DEF Judge
    <3>7. ran > 0
      BY <1>5, <2>6 DEF RanFor
    <3>8. core.code = 200 /\ v = Verdict("OK", Nothing, core.value)
      BY <2>6 DEF v
    <3>9. core # Nothing
      BY <1>5, RepliesDiffer
    <3> QED
      BY <1>1, <1>5, <3>6, <3>7, <3>8, <3>9, OverKeeps
  <2>7. CASE core.code \in {404, 500}
    <3> DEFINE v == Verdict("SERVER_ERROR", core.text, Nothing)
    <3>1. core.text = IF result.text = "not JSON" THEN "http status 500" ELSE result.text
      BY <2>3 DEF SameText
    <3>0. result.code # 429 /\ result.code # 200
      BY <2>2, <2>7
    <3>2. Judged(result) = v
      <4>1. ~(~result.ok \/ result.code = 429)
        BY <2>1, <3>0
      <4>2. Judged(result) = Verdict("SERVER_ERROR",
                               IF result.text = "not JSON" THEN "http status 500" ELSE result.text,
                               Nothing)
        BY <3>0, <4>1, Zenon DEF Judged
      <4> QED
        BY <3>1, <4>2
    <3>3. v \in Verdicts
      BY <2>4 DEF Verdict, Verdicts, ErrorWords, Values
    <3>4. v.error = "SERVER_ERROR"
      BY VerdictError
    <3> HIDE DEF v
    <3>5. Judged(result) # Nothing
      BY <3>2, <3>3, RepliesDiffer
    <3>6. leg' = "over" /\ verdict' = v
      BY <3>2, <3>5 DEF Judge
    <3>8. core.code \in {404, 500} /\ v = Verdict("SERVER_ERROR", core.text, Nothing)
      BY <2>7 DEF v
    <3> QED
      BY <1>1, <1>5, <3>4, <3>6, <3>8, OverKeeps
  <2> QED
    BY <2>2, <2>5, <2>6, <2>7
<1>6. CASE /\ core = Nothing /\ result.ok = TRUE
           /\ result.code = 200 /\ result.text = "not JSON"
  <2> DEFINE v == Verdict("PROTOCOL_ERROR", "response", Nothing)
  <2>1. result.ok = TRUE
    BY <1>6
  <2>2. result.code = 200
    BY <1>6
  <2>3. result.text = "not JSON"
    BY <1>6
  <2>a. result.code # 429
    BY ONLY <2>2
  <2>4. Judged(result) = v
    <3>1. ~(~result.ok \/ result.code = 429)
      BY <2>1, <2>a
    <3> QED
      BY <2>2, <2>3, <3>1, Zenon DEF Judged
  <2>5. v \in Verdicts
    BY DEF Verdict, Verdicts, ErrorWords, Values, Sayings
  <2>6. v.error = "PROTOCOL_ERROR"
    BY VerdictError
  <2> HIDE DEF v
  <2>7. Judged(result) # Nothing
    BY <2>4, <2>5, RepliesDiffer
  <2>8. leg' = "over" /\ verdict' = v
    BY <2>4, <2>7 DEF Judge
  <2>9. core \notin CoreReplies
    BY <1>6, RepliesDiffer
  <2> QED
    BY <1>1, <1>6, <2>6, <2>8, <2>9, OverKeeps
<1> QED
  BY <1>2, <1>3, <1>4, <1>5, <1>6 DEF ResultIs

\* No further attempt is made.
LEMMA GiveUpKeeps ==
  ASSUME EnvelopeIInv, GiveUp
  PROVE  EnvelopeIInv'
<1>1. /\ leg = "retry" /\ leg' = "over" /\ UNCHANGED <<carrier, hint, core, ran, unseen>>
      /\ verdict' = Verdict(last_fail_error, IF result.ok THEN result.text ELSE "transport", Nothing)
  BY DEF GiveUp
<1>2. AgainAfter(result)
  BY <1>1 DEF EnvelopeIInv
<1> DEFINE t == IF result.ok THEN result.text ELSE "transport"
           v == Verdict(last_fail_error, t, Nothing)
<1>3. v.error = last_fail_error /\ verdict' = v
  BY <1>1, VerdictError
<1>4. CASE FailedWith(result) /\ last_fail_error = result.error
  <2>1. core = Nothing /\ last_fail_error \in {"CONNECTION_FAILED", "TIMEOUT", "PROTOCOL_ERROR"}
    BY <1>4 DEF FailedWith
  <2>2. core \notin CoreReplies
    BY <2>1, RepliesDiffer
  <2> HIDE DEF v
  <2>3. v.error # "OK" /\ v.error # "OVERLOADED"
    BY <1>3, <2>1
  <2> QED
    BY <1>1, <1>3, <2>1, <2>2, <2>3, OverKeeps
<1>5. CASE result.ok = TRUE /\ last_fail_error = "OVERLOADED" /\ core \in GatewaySays
  <2>1. core \notin CoreReplies /\ core # Nothing
    BY <1>5, RepliesDiffer
  <2> HIDE DEF v
  <2>2. v.error = "OVERLOADED"
    BY <1>3, <1>5
  <2> QED
    BY <1>1, <1>3, <1>5, <2>1, <2>2, OverKeeps
<1>6. CASE /\ result.ok = TRUE /\ last_fail_error = "OVERLOADED"
           /\ core \in CoreReplies /\ core.code = 429 /\ SameText(core, result.text)
  <2>1. core # Nothing
    BY <1>6, RepliesDiffer
  <2>2. core.code = 429
    BY <1>6
  <2>a. core.code # 500
    BY ONLY <2>2
  <2>b. SameText(core, result.text)
    BY <1>6
  <2>3. result.text = core.text
    BY <2>a, <2>b, Zenon DEF SameText
  <2>4. v = Verdict("OVERLOADED", core.text, Nothing)
    BY <1>6, <2>3
  <2> HIDE DEF v
  <2>5. v.error = "OVERLOADED"
    BY <1>3, <1>6
  <2> QED
    BY <1>1, <1>3, <1>6, <2>1, <2>2, <2>4, <2>5, OverKeeps
<1> QED
  BY <1>2, <1>4, <1>5, <1>6 DEF AgainAfter

\* Nothing that matters changes.
LEMMA NothingMoves ==
  ASSUME EnvelopeIInv, UNCHANGED <<carrier, hint, leg, core, packet, result, retry_advice,
                                   last_fail_error, verdict, ran, unseen>>
  PROVE  EnvelopeIInv'
<1>1. EnvelopeTypes' /\ ran' <= 1 + unseen'
  BY DEF EnvelopeIInv, EnvelopeTypes
<1>2. leg' \in {"idle", "sent"} => core' = Nothing /\ ran' <= unseen'
  BY DEF EnvelopeIInv
<1>3. leg' = "answered" => AnswerIs(packet)'
  <2>1. leg = "answered" => AnswerIs(packet)
    BY DEF EnvelopeIInv
  <2>2. Carries(core, packet) => Carries(core, packet)'
    BY DEF Carries
  <2>3. RanFor(core) => RanFor(core)'
    BY DEF RanFor
  <2> QED
    <3> SUFFICES ASSUME leg = "answered" PROVE AnswerIs(packet)'
      OBVIOUS
    <3>1. CASE core \in CoreReplies /\ Carries(core, packet) /\ RanFor(core)
      BY <3>1, <2>2, <2>3 DEF AnswerIs
    <3>2. CASE core \in GatewaySays /\ ran <= unseen /\ packet.kind = "http" /\ packet.status = 429
      BY <3>2 DEF AnswerIs
    <3>3. CASE /\ core = Nothing /\ ran <= unseen
               /\ \/ packet.kind = "noise" /\ carrier = "frames"
                  \/ packet.kind = "http" /\ packet.status = 200 /\ packet.text = "not JSON"
      BY <3>3 DEF AnswerIs
    <3> QED
      BY <2>1, <3>1, <3>2, <3>3 DEF AnswerIs
<1>4. leg' = "got" => ResultIs(result)'
  <2>1. leg = "got" => ResultIs(result)
    BY DEF EnvelopeIInv
  <2>2. Tells(core, result) => Tells(core, result)'
    BY DEF Tells, WaitMeant
  <2>3. RanFor(core) => RanFor(core)'
    BY DEF RanFor
  <2>4. FailedWith(result) => FailedWith(result)'
    BY DEF FailedWith
  <2> SUFFICES ASSUME leg = "got" PROVE ResultIs(result)'
    OBVIOUS
  <2>5. CASE core \in CoreReplies /\ Tells(core, result) /\ RanFor(core)
    BY <2>2, <2>3, <2>5 DEF ResultIs
  <2>6. CASE core \in GatewaySays /\ ran <= unseen /\ result.ok = TRUE /\ result.code = 429
    BY <2>6 DEF ResultIs
  <2>7. CASE /\ core = Nothing /\ ran <= unseen
             /\ result.ok = TRUE /\ result.code = 200 /\ result.text = "not JSON"
    BY <2>7 DEF ResultIs
  <2>8. CASE FailedWith(result)
    BY <2>4, <2>8 DEF ResultIs
  <2> QED
    BY <2>1, <2>5, <2>6, <2>7, <2>8 DEF ResultIs
<1>5. leg' = "retry" => AgainAfter(result)'
  BY DEF EnvelopeIInv, AgainAfter, FailedWith, WaitMeant
<1>6. leg' = "over" => /\ core' \in {Nothing} \cup CoreReplies \cup GatewaySays
                      /\ SaysWhatWasMeant' /\ NothingFromNowhere'
  BY DEF EnvelopeIInv, SaysWhatWasMeant, NothingFromNowhere
<1> QED
  BY <1>1, <1>2, <1>3, <1>4, <1>5, <1>6 DEF EnvelopeIInv

\* The other steps of the client, and the server's decision to stop.
LEMMA AskKeeps ==
  ASSUME EnvelopeIInv, (\E what \in {"known", "unknown", "bad params"} : Ask(what))
                       \/ TryAgain \/ Shutdown
  PROVE  EnvelopeIInv'
<1>1. CASE \E what \in {"known", "unknown", "bad params"} : Ask(what)
  <2>1. leg = "idle" /\ UNCHANGED <<carrier, hint, core, ran, unseen>>
    BY <1>1 DEF Ask
  <2>2. EnvelopeTypes /\ core = Nothing /\ ran <= unseen /\ ran <= 1 + unseen
    BY <2>1 DEF EnvelopeIInv
  <2>3. CASE leg' = "over" /\ verdict' = Verdict("PROTOCOL_ERROR", "params", Nothing)
    <3> DEFINE v == Verdict("PROTOCOL_ERROR", "params", Nothing)
    <3>1. v.error = "PROTOCOL_ERROR" /\ verdict' = v
      BY <2>3, VerdictError
    <3>2. core \notin CoreReplies
      BY <2>2, RepliesDiffer
    <3> HIDE DEF v
    <3> QED
      BY <2>1, <2>2, <2>3, <3>1, <3>2, OverKeeps
  <2>4. CASE leg' = "sent"
    BY <2>1, <2>2, <2>4 DEF EnvelopeIInv, EnvelopeTypes
  <2> QED
    BY <1>1, <2>3, <2>4 DEF Ask
<1>2. CASE TryAgain
  <2>1. /\ leg = "retry" /\ leg' = "sent" /\ core' = Nothing
        /\ UNCHANGED <<carrier, hint, ran, unseen>>
    BY <1>2 DEF TryAgain
  <2>2. EnvelopeTypes /\ ran <= unseen /\ ran <= 1 + unseen
    BY <2>1 DEF EnvelopeIInv, AgainAfter
  <2> QED
    BY <2>1, <2>2 DEF EnvelopeIInv, EnvelopeTypes
<1>3. CASE Shutdown
  <2>1. UNCHANGED <<carrier, hint, leg, core, packet, result, retry_advice, last_fail_error,
                    verdict, ran, unseen>>
    BY <1>3 DEF Shutdown
  <2> QED
    BY <2>1, NothingMoves
<1> QED
  BY <1>1, <1>2, <1>3

LEMMA EnvelopeStays == EnvelopeIInv /\ [EnvelopeNext]_envelopeVars => EnvelopeIInv'
<1> SUFFICES ASSUME EnvelopeIInv, [EnvelopeNext]_envelopeVars PROVE EnvelopeIInv'
  OBVIOUS
<1>1. CASE UNCHANGED envelopeVars
  <2>1. UNCHANGED <<carrier, hint, leg, core, packet, result, retry_advice, last_fail_error,
                    verdict, ran, unseen>>
    BY <1>1 DEF envelopeVars
  <2> QED
    BY <2>1, NothingMoves
<1>2. CASE EnvelopeNext
  BY <1>2, ServerKeeps, EscapeKeeps, LossKeeps, OthersKeep, ReadKeeps, JudgeKeeps, GiveUpKeeps,
     AskKeeps DEF EnvelopeNext
<1> QED
  BY <1>1, <1>2

\* What the caller of one RPC call is told is what the server meant, a handler runs again
\* only for an answer that got lost, a refusal is waited for as long as it asks, and
\* nothing else is tried again: for any hints, any gateway and any number of tries.
THEOREM EnvelopeInvariant == EnvelopeSpec => []EnvelopeInv
<1>1. EnvelopeInit => EnvelopeIInv
  BY DEF EnvelopeInit, EnvelopeIInv, EnvelopeTypes
<1>2. EnvelopeIInv /\ [EnvelopeNext]_envelopeVars => EnvelopeIInv'
  BY EnvelopeStays
<1>3. EnvelopeIInv => EnvelopeInv
  <2> SUFFICES ASSUME EnvelopeIInv PROVE EnvelopeInv
    OBVIOUS
  <2>1. SaysWhatWasMeant /\ NothingFromNowhere
    BY DEF EnvelopeIInv, SaysWhatWasMeant, NothingFromNowhere
  <2>2. RunsOncePerLoss
    BY DEF EnvelopeIInv, RunsOncePerLoss
  <2>3. leg = "retry" => AgainAfter(result)
    BY DEF EnvelopeIInv
  <2>4. WaitsAsAsked
    <3> SUFFICES ASSUME leg = "retry", result.ok, core # Nothing, "code" \in DOMAIN core
                 PROVE  IF core.after > 0 THEN retry_advice = <<core.after, "s">>
                        ELSE retry_advice = IF carrier = "http" THEN Nothing ELSE <<1, "s">>
      BY DEF WaitsAsAsked
    <3>1. core \notin GatewaySays
      BY RepliesDiffer
    <3>2. retry_advice = WaitMeant(core)
      BY <2>3, <3>1 DEF AgainAfter, FailedWith
    <3> QED
      BY <3>2 DEF WaitMeant
  <2>5. OnlyRefusalsAgain
    BY <2>3 DEF OnlyRefusalsAgain, AgainAfter, FailedWith
  <2> QED
    BY <2>1, <2>2, <2>4, <2>5 DEF EnvelopeInv
<1> QED
  BY <1>1, <1>2, <1>3, PTL DEF EnvelopeSpec

-----------------------------------------------------------------------------
(***************************************************************************)
(* Proofs about the settings of clients and servers (Configuring), for any *)
(* threads, numbers and clients.                                           *)
(***************************************************************************)

ClientSettings == [ClientKeys -> Int]

Changing ==
  {Resting} \cup [op : {"add"}, taken : ClientSettings]
    \cup [op : {"merge"}, keys : SUBSET ClientKeys, taken : ClientSettings]
    \cup [op : {"limit"}, taken : Given]

SettingsTypes ==
  /\ shared \in ClientSettings /\ clients \in Seq(ClientSettings)
  /\ doing \in [Setters -> Changing]
  /\ disturbed \in BOOLEAN /\ crossed \in BOOLEAN

\* Who is in the midst of something and not outdated holds the settings in force.
Copies ==
  \A t \in Setters \ outdated :
    /\ doing[t].op = "add" => doing[t].taken = shared
    /\ doing[t].op = "merge" =>
         \A k \in ClientKeys \ doing[t].keys : doing[t].taken[k] = shared[k]

\* Unless two threads met in set_max_in_flight(), one at a time is in it, and has set
\* the gate to what it is about to set the queue's bound to.
LimitsInTurn ==
  ~crossed => \A t \in Busy("limit") :
                doing[t].taken = gateLimit /\ \A u \in Busy("limit") : u = t

SettingsIInv ==
  /\ SettingsTypes /\ Copies /\ LimitsInTurn
  /\ AllConfigured /\ NothingForgotten /\ LimitsAgree /\ ServerValid
  /\ \A i \in DOMAIN clients : clients[i].retries >= 0

\* What the settings of a client are once they are clamped.
LEMMA ClampedSettings ==
  ASSUME NEW s \in ClientSettings
  PROVE  Clamped(s) \in ClientSettings /\ Clamped(s).retries >= 0
<1>1. /\ "retries" \in ClientKeys
      /\ \A k \in ClientKeys : s[k] \in Int
  BY DEF ClientKeys, ClientSettings
<1>2. \A n \in Int : NonNegative(n) \in Int /\ NonNegative(n) >= 0
  BY DEF NonNegative
<1> QED
  BY <1>1, <1>2 DEF Clamped, ClientSettings

LEMMA NumbersInt == Numbers \subseteq Int
<1>1. Given \subseteq Int /\ \A n \in Given : 0 - n \in Int
  BY SettingsAssumption
<1> QED
  BY <1>1 DEF Numbers

\* What a thread in the midst of something holds.
LEMMA ChangeHeld ==
  ASSUME NEW d \in Changing
  PROVE  /\ d.op \in {"none", "add", "merge", "limit"}
         /\ d.op = "none" => d = Resting
         /\ d.op \in {"add", "merge"} => d.taken \in ClientSettings
         /\ d.op = "merge" => d.keys \subseteq ClientKeys
         /\ d.op = "limit" => d.taken \in Given
BY DEF Changing, Resting

LEMMA SettingsBegin == SettingsInit => SettingsIInv
<1> SUFFICES ASSUME SettingsInit PROVE SettingsIInv
  OBVIOUS
<1>1. SettingsTypes
  <2>1. shared \in ClientSettings
    BY DEF SettingsInit, ClientSettings
  <2>2. Resting \in Changing /\ clients = <<>>
    BY DEF SettingsInit, Changing
  <2>3. doing \in [Setters -> Changing]
    BY <2>2 DEF SettingsInit
  <2>4. <<>> \in Seq(ClientSettings)
    OBVIOUS
  <2>5. disturbed \in BOOLEAN /\ crossed \in BOOLEAN
    BY DEF SettingsInit
  <2> QED
    BY <2>1, <2>2, <2>3, <2>4, <2>5 DEF SettingsTypes
<1>2. Busy("limit") = {}
  BY DEF SettingsInit, Busy, Resting
<1>3. Copies
  BY DEF SettingsInit, Copies, Resting
<1>4. LimitsInTurn /\ LimitsAgree
  BY <1>2 DEF SettingsInit, LimitsInTurn, LimitsAgree
<1>5. DOMAIN clients = {}
  BY DEF SettingsInit
<1>6. AllConfigured /\ NothingForgotten
  BY <1>5 DEF SettingsInit, AllConfigured, NothingForgotten
<1>7. ServerValid
  <2>1. server.port = 0 /\ server.wait = 3 /\ server.mode = "reject"
    BY DEF SettingsInit
  <2>2. 0 \in Ports /\ "reject" \in Modes
    BY DEF Ports, Modes
  <2> QED
    BY <2>1, <2>2 DEF ServerValid
<1> QED
  BY <1>1, <1>3, <1>4, <1>5, <1>6, <1>7 DEF SettingsIInv

\* What is handed down is in force everywhere, and makes the copies of the others old.
LEMMA HandedDown ==
  ASSUME SettingsIInv, NEW t \in Setters, NEW s \in ClientSettings, HandDown(t, s)
  PROVE  /\ shared' \in ClientSettings /\ clients' \in Seq(ClientSettings)
         /\ AllConfigured'
         /\ (\A i \in DOMAIN clients : clients[i].retries >= 0)'
         /\ \A u \in Setters \ {t} : doing[u].op \in {"add", "merge"} => u \in outdated'
<1>1. shared' = s /\ clients' = [i \in DOMAIN clients |-> Clamped(s)]
  BY DEF HandDown
<1>2. Clamped(s) \in ClientSettings /\ Clamped(s).retries >= 0
  BY ClampedSettings
<1>3. clients \in Seq(ClientSettings)
  BY DEF SettingsIInv, SettingsTypes
<1>4. clients' \in Seq(ClientSettings) /\ DOMAIN clients' = DOMAIN clients
  BY <1>1, <1>2, <1>3
<1>5. \A i \in DOMAIN clients' : clients'[i] = Clamped(s)
  BY <1>1, <1>4
<1>6. Clamped(shared)' = Clamped(s)
  BY <1>1 DEF Clamped
<1>7. AllConfigured'
  BY <1>5, <1>6 DEF AllConfigured
<1>8. \A u \in Setters \ {t} : doing[u].op \in {"add", "merge"} => u \in outdated'
  BY DEF HandDown, Holding
<1> QED
  BY <1>1, <1>2, <1>4, <1>5, <1>7, <1>8

\* Who sets limits, where only the setting thread moves, and not to or from there.
LEMMA LimitsUntouched ==
  ASSUME SettingsIInv, NEW t \in Setters, NEW d \in Changing,
         doing' = [doing EXCEPT ![t] = d], doing[t].op # "limit", d.op # "limit",
         UNCHANGED <<gateLimit, queueLimit, crossed>>
  PROVE  LimitsInTurn' /\ LimitsAgree'
<1>1. doing \in [Setters -> Changing]
  BY DEF SettingsIInv, SettingsTypes
<1>2. \A u \in Setters : doing'[u] = IF u = t THEN d ELSE doing[u]
  BY <1>1
<1>3. Busy("limit")' = Busy("limit") /\ \A u \in Busy("limit") : doing'[u] = doing[u]
  BY <1>2 DEF Busy
<1> QED
  BY <1>3 DEF SettingsIInv, LimitsInTurn, LimitsAgree

\* Copying, reading and the limits leave the settings themselves alone.
LEMMA SettingsUntouched ==
  ASSUME SettingsIInv, UNCHANGED <<shared, clients, latest, late, disturbed>>
  PROVE  /\ AllConfigured' /\ NothingForgotten'
         /\ (\A i \in DOMAIN clients : clients[i].retries >= 0)'
<1>1. Clamped(shared)' = Clamped(shared)
  BY DEF Clamped
<1>2. AllConfigured' /\ (\A i \in DOMAIN clients : clients[i].retries >= 0)'
  BY <1>1 DEF SettingsIInv, AllConfigured
<1>3. NothingForgotten'
  BY DEF SettingsIInv, NothingForgotten
<1> QED
  BY <1>2, <1>3

LEMMA ServerUntouched ==
  ASSUME SettingsIInv, server' = server
  PROVE  ServerValid'
BY DEF SettingsIInv, ServerValid

LEMMA ApplyStructKeeps ==
  ASSUME SettingsIInv, NEW t \in Setters, NEW s \in Structs, ApplyStruct(t, s)
  PROVE  SettingsIInv'
<1>1. s \in ClientSettings
  BY NumbersInt DEF Structs, ClientSettings
<1>2. HandDown(t, s) /\ UNCHANGED <<doing, server, gateLimit, queueLimit, crossed>>
  BY DEF ApplyStruct
<1>3. /\ shared' \in ClientSettings /\ clients' \in Seq(ClientSettings) /\ AllConfigured'
      /\ (\A i \in DOMAIN clients : clients[i].retries >= 0)'
      /\ \A u \in Setters \ {t} : doing[u].op \in {"add", "merge"} => u \in outdated'
  BY <1>1, <1>2, HandedDown
<1>4. SettingsTypes'
  BY <1>2, <1>3 DEF ApplyStruct, SettingsIInv, SettingsTypes
<1>5. Copies'
  BY <1>2, <1>3 DEF ApplyStruct, Copies, Resting
<1>6. NothingForgotten'
  BY DEF ApplyStruct, HandDown, NothingForgotten
<1>7. LimitsInTurn' /\ LimitsAgree'
  BY <1>2 DEF SettingsIInv, LimitsInTurn, LimitsAgree, Busy
<1>8. ServerValid'
  BY <1>2, ServerUntouched
<1> QED
  BY <1>3, <1>4, <1>5, <1>6, <1>7, <1>8 DEF SettingsIInv

LEMMA ReadFileKeeps ==
  ASSUME SettingsIInv, NEW t \in Setters, NEW f \in Files, ReadFile(t, f)
  PROVE  SettingsIInv'
<1> DEFINE d == [op |-> "merge", keys |-> DOMAIN f,
                 taken |-> [k \in ClientKeys |-> IF k \in DOMAIN f THEN f[k] ELSE shared[k]]]
<1>1. /\ doing[t] = Resting /\ doing' = [doing EXCEPT ![t] = d]
      /\ UNCHANGED <<shared, clients, server, gateLimit, queueLimit, latest, outdated, late,
                     disturbed, crossed>>
  BY DEF ReadFile
<1>2. DOMAIN f \subseteq ClientKeys /\ \A k \in DOMAIN f : f[k] \in Int
  BY NumbersInt DEF Files
<1>3. shared \in ClientSettings /\ doing \in [Setters -> Changing]
  BY DEF SettingsIInv, SettingsTypes
<1>4. d.taken \in ClientSettings
  BY <1>2, <1>3 DEF ClientSettings
<1>5. d \in Changing /\ d.op = "merge" /\ d.keys = DOMAIN f
  BY <1>2, <1>4 DEF Changing
<1>6. \A k \in ClientKeys \ d.keys : d.taken[k] = shared[k]
  BY <1>5
<1> HIDE DEF d
<1>7. \A u \in Setters : doing'[u] = IF u = t THEN d ELSE doing[u]
  BY <1>1, <1>3
<1>8. SettingsTypes'
  BY <1>1, <1>3, <1>5 DEF SettingsIInv, SettingsTypes
<1>9. Copies'
  BY <1>1, <1>5, <1>6, <1>7 DEF SettingsIInv, Copies
<1>10. LimitsInTurn' /\ LimitsAgree'
  <2>1. doing[t].op # "limit" /\ d.op # "limit"
    BY <1>1, <1>5 DEF Resting
  <2> QED
    BY <1>1, <1>5, <2>1, LimitsUntouched
<1>11. /\ AllConfigured' /\ NothingForgotten' /\ ServerValid'
       /\ (\A i \in DOMAIN clients : clients[i].retries >= 0)'
  BY <1>1, SettingsUntouched, ServerUntouched
<1> QED
  BY <1>8, <1>9, <1>10, <1>11 DEF SettingsIInv

LEMMA ApplyFileKeeps ==
  ASSUME SettingsIInv, NEW t \in Setters, ApplyFile(t)
  PROVE  SettingsIInv'
<1>1. /\ doing[t].op = "merge" /\ HandDown(t, doing[t].taken)
      /\ latest' = [k \in ClientKeys |-> IF k \in doing[t].keys THEN doing[t].taken[k] ELSE latest[k]]
      /\ disturbed' = (disturbed \/ t \in outdated)
      /\ doing' = [doing EXCEPT ![t] = Resting]
      /\ UNCHANGED <<server, gateLimit, queueLimit, crossed>>
  BY DEF ApplyFile
<1>2. doing \in [Setters -> Changing] /\ doing[t] \in Changing
  BY DEF SettingsIInv, SettingsTypes
<1>3. doing[t].taken \in ClientSettings /\ doing[t].keys \subseteq ClientKeys
  BY <1>1, <1>2, ChangeHeld
<1>4. /\ shared' \in ClientSettings /\ clients' \in Seq(ClientSettings) /\ AllConfigured'
      /\ (\A i \in DOMAIN clients : clients[i].retries >= 0)'
      /\ \A u \in Setters \ {t} : doing[u].op \in {"add", "merge"} => u \in outdated'
  BY <1>1, <1>3, HandedDown
<1>5. Resting \in Changing /\ Resting.op = "none"
  BY DEF Changing, Resting
<1>6. \A u \in Setters : doing'[u] = IF u = t THEN Resting ELSE doing[u]
  BY <1>1, <1>2
<1>7. SettingsTypes'
  <2>1. disturbed' \in BOOLEAN /\ crossed' \in BOOLEAN
    BY <1>1 DEF SettingsIInv, SettingsTypes
  <2> QED
    BY <1>1, <1>2, <1>4, <1>5, <2>1 DEF SettingsTypes
<1>8. Copies'
  BY <1>4, <1>5, <1>6 DEF Copies
<1>9. NothingForgotten'
  <2> SUFFICES ASSUME ~disturbed' PROVE shared' = latest'
    BY DEF NothingForgotten
  <2>1. ~disturbed /\ t \notin outdated
    BY <1>1
  <2>2. shared = latest /\ \A k \in ClientKeys \ doing[t].keys : doing[t].taken[k] = shared[k]
    BY <1>1, <2>1 DEF SettingsIInv, NothingForgotten, Copies
  <2>3. shared' = [k \in ClientKeys |-> doing[t].taken[k]]
    BY <1>1, <1>3 DEF HandDown, ClientSettings
  <2> QED
    BY <1>1, <2>2, <2>3
<1>10. LimitsInTurn' /\ LimitsAgree'
  BY <1>1, <1>5, LimitsUntouched
<1>11. ServerValid'
  BY <1>1, ServerUntouched
<1> QED
  BY <1>4, <1>7, <1>8, <1>9, <1>10, <1>11 DEF SettingsIInv

LEMMA CopySettingsKeeps ==
  ASSUME SettingsIInv, NEW t \in Setters, CopySettings(t)
  PROVE  SettingsIInv'
<1> DEFINE d == [op |-> "add", taken |-> shared]
<1>1. /\ doing[t] = Resting /\ doing' = [doing EXCEPT ![t] = d]
      /\ UNCHANGED <<shared, clients, server, gateLimit, queueLimit, latest, outdated, late,
                     disturbed, crossed>>
  BY DEF CopySettings
<1>2. shared \in ClientSettings /\ doing \in [Setters -> Changing]
  BY DEF SettingsIInv, SettingsTypes
<1>3. d \in Changing /\ d.op = "add" /\ d.taken = shared
  BY <1>2 DEF Changing
<1> HIDE DEF d
<1>4. \A u \in Setters : doing'[u] = IF u = t THEN d ELSE doing[u]
  BY <1>1, <1>2
<1>5. SettingsTypes'
  BY <1>1, <1>2, <1>3 DEF SettingsIInv, SettingsTypes
<1>6. Copies'
  BY <1>1, <1>3, <1>4 DEF SettingsIInv, Copies
<1>7. LimitsInTurn' /\ LimitsAgree'
  <2>1. doing[t].op # "limit" /\ d.op # "limit"
    BY <1>1, <1>3 DEF Resting
  <2> QED
    BY <1>1, <1>3, <2>1, LimitsUntouched
<1>8. /\ AllConfigured' /\ NothingForgotten' /\ ServerValid'
      /\ (\A i \in DOMAIN clients : clients[i].retries >= 0)'
  BY <1>1, SettingsUntouched, ServerUntouched
<1> QED
  BY <1>5, <1>6, <1>7, <1>8 DEF SettingsIInv

LEMMA InsertKeeps ==
  ASSUME SettingsIInv, NEW t \in Setters, Insert(t)
  PROVE  SettingsIInv'
<1> DEFINE new == Clamped(doing[t].taken)
<1>1. /\ doing[t].op = "add" /\ clients' = Append(clients, new)
      /\ late' = IF t \in outdated THEN late \cup {Len(clients) + 1} ELSE late
      /\ outdated' = outdated \ {t}
      /\ doing' = [doing EXCEPT ![t] = Resting]
      /\ UNCHANGED <<shared, server, gateLimit, queueLimit, latest, disturbed, crossed>>
  BY DEF Insert
<1>2. /\ doing \in [Setters -> Changing] /\ doing[t] \in Changing
      /\ clients \in Seq(ClientSettings)
  BY DEF SettingsIInv, SettingsTypes
<1>3. new \in ClientSettings /\ new.retries >= 0
  BY <1>1, <1>2, ChangeHeld, ClampedSettings
<1>4. t \notin outdated => new = Clamped(shared)
  BY <1>1 DEF SettingsIInv, Copies
<1> HIDE DEF new
<1>5. /\ clients' \in Seq(ClientSettings) /\ DOMAIN clients' = 1..Len(clients) + 1
      /\ DOMAIN clients = 1..Len(clients) /\ Len(clients) \in Nat
      /\ clients'[Len(clients) + 1] = new
      /\ \A i \in 1..Len(clients) : clients'[i] = clients[i]
  BY <1>1, <1>2, <1>3
<1>6. Clamped(shared)' = Clamped(shared)
  BY <1>1 DEF Clamped
<1>7. AllConfigured'
  <2> SUFFICES ASSUME NEW i \in DOMAIN clients', i \notin late' PROVE clients'[i] = Clamped(shared)
    BY <1>6 DEF AllConfigured
  <2>1. CASE i \in 1..Len(clients)
    BY <1>1, <1>5, <2>1 DEF SettingsIInv, AllConfigured
  <2>2. CASE i = Len(clients) + 1
    BY <1>1, <1>4, <1>5, <2>2
  <2> QED
    BY <1>5, <2>1, <2>2
<1>8. (\A i \in DOMAIN clients : clients[i].retries >= 0)'
  <2> SUFFICES ASSUME NEW i \in DOMAIN clients' PROVE clients'[i].retries >= 0
    OBVIOUS
  <2>1. CASE i \in 1..Len(clients)
    BY <1>5, <2>1 DEF SettingsIInv
  <2>2. CASE i = Len(clients) + 1
    BY <1>3, <1>5, <2>2
  <2> QED
    BY <1>5, <2>1, <2>2
<1>9. Resting \in Changing /\ Resting.op = "none"
  BY DEF Changing, Resting
<1>10. \A u \in Setters : doing'[u] = IF u = t THEN Resting ELSE doing[u]
  BY <1>1, <1>2
<1>11. SettingsTypes'
  BY <1>1, <1>2, <1>5, <1>9 DEF SettingsIInv, SettingsTypes
<1>12. Copies'
  BY <1>1, <1>9, <1>10 DEF SettingsIInv, Copies
<1>13. LimitsInTurn' /\ LimitsAgree'
  BY <1>1, <1>9, LimitsUntouched
<1>14. NothingForgotten'
  BY <1>1 DEF SettingsIInv, NothingForgotten
<1>15. ServerValid'
  BY <1>1, ServerUntouched
<1> QED
  BY <1>7, <1>8, <1>11, <1>12, <1>13, <1>14, <1>15 DEF SettingsIInv

LEMMA ApplyServerKeeps ==
  ASSUME SettingsIInv, NEW port \in Int, NEW wait \in Numbers, NEW mode,
         ApplyServer(port, wait, mode)
  PROVE  SettingsIInv'
<1>1. /\ server' = [port |-> IF port \in Ports THEN port ELSE server.port,
                     wait |-> NonNegative(wait),
                     mode |-> IF mode \in Modes THEN mode ELSE server.mode]
      /\ UNCHANGED <<shared, clients, doing, gateLimit, queueLimit, latest, outdated, late,
                     disturbed, crossed>>
  BY DEF ApplyServer
<1>2. NonNegative(wait) >= 0
  BY NumbersInt DEF NonNegative
<1>3. /\ server'.port = IF port \in Ports THEN port ELSE server.port
      /\ server'.wait = NonNegative(wait)
      /\ server'.mode = IF mode \in Modes THEN mode ELSE server.mode
  BY <1>1
<1>4. ServerValid'
  <2>1. server.port \in Ports /\ server.mode \in Modes
    BY DEF SettingsIInv, ServerValid
  <2>2. server'.port \in Ports
    BY <1>3, <2>1
  <2>3. server'.mode \in Modes
    BY <1>3, <2>1
  <2>4. server'.wait >= 0
    BY <1>2, <1>3
  <2> QED
    BY <2>2, <2>3, <2>4 DEF ServerValid, Modes
<1>5. SettingsTypes' /\ Copies'
  BY <1>1 DEF SettingsIInv, SettingsTypes, Copies
<1>6. LimitsInTurn' /\ LimitsAgree'
  BY <1>1 DEF SettingsIInv, LimitsInTurn, LimitsAgree, Busy
<1> QED
  BY <1>1, <1>4, <1>5, <1>6, SettingsUntouched DEF SettingsIInv

LEMMA SetGateKeeps ==
  ASSUME SettingsIInv, NEW t \in Setters, NEW n \in Given, SetGate(t, n)
  PROVE  SettingsIInv'
<1> DEFINE d == [op |-> "limit", taken |-> n]
<1>1. /\ doing[t] = Resting /\ doing' = [doing EXCEPT ![t] = d] /\ gateLimit' = n
      /\ crossed' = (crossed \/ Busy("limit") # {})
      /\ UNCHANGED <<shared, clients, server, queueLimit, latest, outdated, late, disturbed>>
  BY DEF SetGate
<1>2. doing \in [Setters -> Changing]
  BY DEF SettingsIInv, SettingsTypes
<1>3. d \in Changing /\ d.op = "limit" /\ d.taken = n
  BY DEF Changing
<1> HIDE DEF d
<1>4. \A u \in Setters : doing'[u] = IF u = t THEN d ELSE doing[u]
  BY <1>1, <1>2
<1>5. SettingsTypes'
  <2>1. crossed' \in BOOLEAN
    BY <1>1 DEF SettingsIInv, SettingsTypes
  <2> QED
    BY <1>1, <1>2, <1>3, <2>1 DEF SettingsIInv, SettingsTypes
<1>6. Copies'
  BY <1>1, <1>3, <1>4 DEF SettingsIInv, Copies
<1>7. Busy("limit")' = Busy("limit") \cup {t}
  BY <1>1, <1>3, <1>4 DEF Busy, Resting
<1>8. LimitsInTurn' /\ LimitsAgree'
  BY <1>1, <1>3, <1>4, <1>7 DEF LimitsInTurn, LimitsAgree
<1>9. /\ AllConfigured' /\ NothingForgotten' /\ ServerValid'
      /\ (\A i \in DOMAIN clients : clients[i].retries >= 0)'
  BY <1>1, SettingsUntouched, ServerUntouched
<1> QED
  BY <1>5, <1>6, <1>8, <1>9 DEF SettingsIInv

LEMMA SetQueueKeeps ==
  ASSUME SettingsIInv, NEW t \in Setters, SetQueue(t)
  PROVE  SettingsIInv'
<1>1. /\ doing[t].op = "limit" /\ queueLimit' = doing[t].taken
      /\ doing' = [doing EXCEPT ![t] = Resting]
      /\ UNCHANGED <<shared, clients, server, gateLimit, latest, outdated, late, disturbed, crossed>>
  BY DEF SetQueue
<1>2. doing \in [Setters -> Changing]
  BY DEF SettingsIInv, SettingsTypes
<1>3. Resting \in Changing /\ Resting.op = "none"
  BY DEF Changing, Resting
<1>4. \A u \in Setters : doing'[u] = IF u = t THEN Resting ELSE doing[u]
  BY <1>1, <1>2
<1>5. SettingsTypes'
  BY <1>1, <1>2, <1>3 DEF SettingsIInv, SettingsTypes
<1>6. Copies'
  BY <1>1, <1>3, <1>4 DEF SettingsIInv, Copies
<1>7. Busy("limit")' = Busy("limit") \ {t} /\ t \in Busy("limit")
  BY <1>1, <1>3, <1>4 DEF Busy
<1>8. ~crossed => queueLimit' = gateLimit' /\ Busy("limit")' = {}
  BY <1>1, <1>7 DEF SettingsIInv, LimitsInTurn
<1>9. LimitsInTurn' /\ LimitsAgree'
  BY <1>1, <1>8 DEF LimitsInTurn, LimitsAgree
<1>10. /\ AllConfigured' /\ NothingForgotten' /\ ServerValid'
      /\ (\A i \in DOMAIN clients : clients[i].retries >= 0)'
  BY <1>1, SettingsUntouched, ServerUntouched
<1> QED
  BY <1>5, <1>6, <1>9, <1>10 DEF SettingsIInv

LEMMA SettingsStay == SettingsIInv /\ [SettingsNext]_settingsVars => SettingsIInv'
<1> SUFFICES ASSUME SettingsIInv, [SettingsNext]_settingsVars PROVE SettingsIInv'
  OBVIOUS
<1>1. CASE UNCHANGED settingsVars
  BY <1>1 DEF settingsVars, SettingsIInv, SettingsTypes, Copies, LimitsInTurn, AllConfigured,
     NothingForgotten, LimitsAgree, ServerValid, Busy, Clamped
<1>2. CASE SettingsNext
  BY <1>2, ApplyStructKeeps, ReadFileKeeps, ApplyFileKeeps, CopySettingsKeeps, InsertKeeps,
     SetQueueKeeps, SetGateKeeps, ApplyServerKeeps DEF SettingsNext
<1> QED
  BY <1>1, <1>2

\* Whatever threads set, load and add at once, every client has the settings in force,
\* a setting is the one given last, calls make an attempt, the queue's bound is the
\* gate's, and the server could start; but for the threads that worked on old copies.
THEOREM SettingsKept == SettingsSpec => []SettingsInv
<1>1. ASSUME SettingsIInv PROVE SettingsInv
  <2>1. \A i \in DOMAIN clients : clients[i].retries \in Int
    BY <1>1 DEF SettingsIInv, SettingsTypes, ClientSettings, ClientKeys
  <2>2. AtLeastOneAttempt
    BY <1>1, <2>1 DEF SettingsIInv, AtLeastOneAttempt
  <2> QED
    BY <1>1, <2>2 DEF SettingsIInv, SettingsInv
<1> QED
  BY <1>1, SettingsBegin, SettingsStay, PTL DEF SettingsSpec

-----------------------------------------------------------------------------
(***************************************************************************)
(* The parts of the client together, as RpcClient composes them.           *)
(***************************************************************************)

\* Each part of the client that knows no file goes through what its own module
\* specifies, whichever part is used.
THEOREM ClientPartsApart ==
  Spec => CallsSpec /\ ExecutorSpec /\ BalancerSpec /\ EnvelopeSpec /\ SettingsSpec
<1>1. Init => CallsInit /\ ExecutorInit /\ BalancerInit /\ EnvelopeInit /\ SettingsInit
  BY DEF Init
<1>2. [Next]_clientVars =>
        /\ [CallsNext]_callsVars /\ [ExecutorNext]_executorVars /\ [BalancerNext]_balancerVars
        /\ [EnvelopeNext]_envelopeVars /\ [SettingsNext]_settingsVars
  BY DEF Next, clientVars, Using, RunCalls, RunExecutor, RunBalancer, RunEnvelope, RunSettings,
     RunConfig
<1> QED
  BY <1>1, <1>2, PTL DEF Spec, CallsSpec, ExecutorSpec, BalancerSpec, EnvelopeSpec, SettingsSpec

\* In every behaviour of the client the executor's account is exact and loses no call, the
\* verdict of a call is what its server meant, and the settings are those that were given;
\* and all of ChoicesInv holds where failover stays on.
THEOREM ClientKept ==
  Spec => [](ExecutorInv /\ CallsTypeOK /\ EnvelopeInv /\ SettingsInv
               /\ (Failovers \subseteq {TRUE} => ChoicesInv))
<1>1. CASE Failovers \subseteq {TRUE}
  <2>1. ExecutorInv /\ CallsTypeOK /\ BalancerInv /\ EnvelopeInv /\ SettingsInv
          => /\ ExecutorInv /\ CallsTypeOK /\ EnvelopeInv /\ SettingsInv
             /\ Failovers \subseteq {TRUE} => ChoicesInv
    BY DEF ChoicesInv
  <2>2. BalancerSpec => []BalancerInv
    BY <1>1, BalancerKept
  <2> QED
    BY <2>1, <2>2, ClientPartsApart, ExecutorInvariant, CallsTypes, EnvelopeInvariant,
       SettingsKept, PTL
<1>2. CASE ~(Failovers \subseteq {TRUE})
  <2>1. ExecutorInv /\ CallsTypeOK /\ EnvelopeInv /\ SettingsInv
          => /\ ExecutorInv /\ CallsTypeOK /\ EnvelopeInv /\ SettingsInv
             /\ Failovers \subseteq {TRUE} => ChoicesInv
    BY <1>2
  <2> QED
    BY <2>1, ClientPartsApart, ExecutorInvariant, CallsTypes, EnvelopeInvariant, SettingsKept, PTL
<1> QED
  BY <1>1, <1>2
=============================================================================
