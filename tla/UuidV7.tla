------------------------------- MODULE UuidV7 -------------------------------
(***************************************************************************)
(* Uuid::generate_v7() of uuid.cpp: identifiers that start with the time   *)
(* in milliseconds and a 12-bit counter.  The state behind them is shared  *)
(* by all threads; the clock is read before the mutex is taken and may be  *)
(* set back at any time; the random bits are drawn after it is released.   *)
(* An identifier is the pair of its time and its counter.                  *)
(***************************************************************************)
EXTENDS Integers

CONSTANTS
  Generators,
  Times,        \* what the clock may show, in milliseconds
  CounterMax,   \* kV7CounterMax
  LastTime      \* bound on last_ms: what 48 bits hold

ASSUME UuidAssumption ==
  /\ Times \subseteq Nat
  /\ CounterMax \in Nat /\ LastTime \in Nat
  /\ \A t \in Times : t <= LastTime

VARIABLES
  last,     \* last_ms and counter
  pc,       \* per thread: "out", "locks" or "builds"
  now,      \* per thread: the time it has read
  mine,     \* per thread: what the critical section gave it
  top,      \* the greatest identifier returned so far
  floor     \* per thread: top when its call began

uuidVars == <<last, pc, now, mine, top, floor>>

\* The order of the identifiers' bytes.
Less(a, b) == a[1] < b[1] \/ (a[1] = b[1] /\ a[2] < b[2])
AtMost(a, b) == a = b \/ Less(a, b)

Ids == (Nat \cup {-1}) \X (0..CounterMax)
None == <<-1, 0>>

UuidTypeOK ==
  /\ last \in Ids /\ top \in Ids
  /\ pc \in [Generators -> {"out", "locks", "builds"}]
  /\ now \in [Generators -> Nat]
  /\ mine \in [Generators -> Ids] /\ floor \in [Generators -> Ids]

UuidInit ==
  /\ last = None /\ top = None
  /\ pc = [t \in Generators |-> "out"]
  /\ now \in [Generators -> {0}]
  /\ mine = [t \in Generators |-> None] /\ floor = [t \in Generators |-> None]

-----------------------------------------------------------------------------
\* current_timestamp_ms(), which owes nothing to earlier readings.
ReadClock(t) ==
  /\ pc[t] = "out"
  /\ \E time \in Times : now' = [now EXCEPT ![t] = time]
  /\ floor' = [floor EXCEPT ![t] = top]
  /\ pc' = [pc EXCEPT ![t] = "locks"]
  /\ UNCHANGED <<last, mine, top>>

\* Mutant: any other time, even an earlier one, starts afresh.
FollowClock(time, seed) ==
  IF time # last[1] THEN <<time, seed>>
  ELSE IF last[2] >= CounterMax THEN <<last[1] + 1, 0>> ELSE <<last[1], last[2] + 1>>

\* A new millisecond starts at a random counter; within one, or when the clock
\* was set back, the counter goes on, and the time with it when it is used up.
Successor(time, seed) ==
  IF time > last[1] THEN <<time, seed>>
  ELSE IF last[2] >= CounterMax THEN <<last[1] + 1, 0>> ELSE <<last[1], last[2] + 1>>

\* The critical section.
Advance(t) ==
  /\ pc[t] = "locks" /\ last[1] < LastTime
  /\ \E seed \in 0..CounterMax : last' = Successor(now[t], seed)
  /\ mine' = [mine EXCEPT ![t] = last']
  /\ pc' = [pc EXCEPT ![t] = "builds"]
  /\ UNCHANGED <<now, top, floor>>

Raise(id) == top' = IF Less(top, id) THEN id ELSE top

\* The identifier is put together and returned.
ReturnUuid(t) ==
  /\ pc[t] = "builds"
  /\ Raise(mine[t])
  /\ pc' = [pc EXCEPT ![t] = "out"]
  /\ UNCHANGED <<last, now, mine, floor>>

\* generate_v7(int64) found no random bytes and returned nil, into which the
\* counter is written: the result carries no time, and stands outside the order
\* of the others.
ReturnNil(t) ==
  /\ pc[t] = "builds"
  /\ pc' = [pc EXCEPT ![t] = "out"]
  /\ UNCHANGED <<last, now, mine, top, floor>>

UuidNext == \E t \in Generators : ReadClock(t) \/ Advance(t) \/ ReturnUuid(t) \/ ReturnNil(t)

UuidSpec == UuidInit /\ [][UuidNext]_uuidVars

-----------------------------------------------------------------------------
\* uuid.h: the identifiers of a process increase strictly.  A call that began
\* after another one had returned gets a greater identifier than that one, no
\* matter how many calls failed in between.
Increasing ==
  [][\A t \in Generators : ReturnUuid(t) => Less(floor[t], mine[t])]_uuidVars

\* Calls that overlap get different identifiers.
Distinct ==
  \A s, t \in Generators :
    s # t /\ pc[s] = "builds" /\ pc[t] = "builds" => mine[s] # mine[t]
=============================================================================
