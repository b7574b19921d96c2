----------------------------- MODULE ObjectPool -----------------------------
(***************************************************************************)
(* The object pool of object_pool.h.  Borrowers take an idle object, have  *)
(* a new one made while fewer than max_size were, or sleep; a lease that   *)
(* ends puts its object back under the mutex and wakes one sleeper after   *)
(* releasing it.  Objects are interchangeable: the model counts them.      *)
(***************************************************************************)
EXTENDS Counting

CONSTANTS
  Borrowers,   \* threads
  MaxSize,     \* max_size_
  Prefilled    \* the argument of prefill(), 0 if it is not called

ASSUME PoolAssumption ==
  /\ IsFiniteSet(Borrowers)
  /\ MaxSize \in Nat /\ Prefilled \in Nat

VARIABLES
  idle,      \* idle_.size()
  created,   \* created_
  failed,    \* history: how often the factory has thrown
  borrower         \* per borrower: "out", "asleep", "awake", "lease" or "notify"

objectVars == <<idle, created, failed, borrower>>

Number(state) == Count(Borrowers, borrower, state)
Sleepers == In(Borrowers, borrower, "asleep")

\* prefill() at start-up, before the pool is shared, stops at max_size.
Filled == IF Prefilled < MaxSize THEN Prefilled ELSE MaxSize

ObjectTypeOK ==
  /\ idle \in 0..MaxSize + Filled
  /\ created \in 0..MaxSize
  /\ failed \in 0..MaxSize
  /\ borrower \in [Borrowers -> {"out", "asleep", "awake", "lease", "notify"}]

ObjectInit ==
  /\ idle = Filled
  /\ created = 0 /\ failed = 0
  /\ borrower = [b \in Borrowers |-> "out"]

-----------------------------------------------------------------------------

\* Mutant: one object too many.
MayTakeOneMore == idle > 0 \/ created <= MaxSize

\* The predicate of acquire().
MayTake == idle > 0 \/ created < MaxSize

\* Mutant: a new object is not counted.
TakeUncounted(b) ==
  /\ idle' = IF idle > 0 THEN idle - 1 ELSE 0
  /\ borrower' = [borrower EXCEPT ![b] = "lease"]
  /\ UNCHANGED <<created, failed>>

\* take_one_()
TakeOne(b) ==
  /\ idle' = IF idle > 0 THEN idle - 1 ELSE 0
  /\ created' = IF idle > 0 THEN created ELSE created + 1
  /\ UNCHANGED failed
  /\ borrower' = [borrower EXCEPT ![b] = "lease"]

\* take_one_() when the factory throws: the object was counted already.
TakeThrows(b) ==
  /\ idle = 0
  /\ created' = created + 1 /\ failed' = failed + 1
  /\ borrower' = [borrower EXCEPT ![b] = "out"]
  /\ UNCHANGED idle

\* acquire() or try_acquire() of a caller that need not wait, and acquire()
\* of a sleeper that was woken.
Take(b) ==
  /\ borrower[b] \in {"out", "awake"}
  /\ MayTake
  /\ TakeOne(b) \/ TakeThrows(b)

\* acquire() has to wait, or to wait again.
Sleep(b) ==
  /\ borrower[b] \in {"out", "awake"}
  /\ ~MayTake
  /\ borrower' = [borrower EXCEPT ![b] = "asleep"]
  /\ UNCHANGED <<idle, created, failed>>

\* The time of acquire(max_wait_ms) is over: the predicate decides.
TimeOut(b) ==
  /\ borrower[b] \in {"asleep", "awake"}
  /\ IF MayTake THEN TakeOne(b) \/ TakeThrows(b)
       ELSE borrower' = [borrower EXCEPT ![b] = "out"] /\ UNCHANGED <<idle, created, failed>>

\* Mutant: nobody is told.
GiveBackSilent(b) ==
  /\ borrower[b] = "lease"
  /\ idle' = idle + 1
  /\ borrower' = [borrower EXCEPT ![b] = "out"]
  /\ UNCHANGED <<created, failed>>

\* give_back_(), up to the unlock.
GiveBackObject(b) ==
  /\ borrower[b] = "lease"
  /\ idle' = idle + 1
  /\ borrower' = [borrower EXCEPT ![b] = "notify"]
  /\ UNCHANGED <<created, failed>>

\* give_back_(), cv_.notify_one(): one sleeper, whichever, wakes up.
Notify(b) ==
  /\ borrower[b] = "notify"
  /\ \/ Sleepers = {} /\ borrower' = [borrower EXCEPT ![b] = "out"]
     \/ \E s \in Sleepers : borrower' = [borrower EXCEPT ![b] = "out", ![s] = "awake"]
  /\ UNCHANGED <<idle, created, failed>>

ObjectNext ==
  \E b \in Borrowers :
    Take(b) \/ Sleep(b) \/ TimeOut(b) \/ GiveBackObject(b) \/ Notify(b)

ObjectSpec == ObjectInit /\ [][ObjectNext]_objectVars

-----------------------------------------------------------------------------
\* Never more objects than max_size on top of those that were prefilled, which
\* created_ does not count.
WithinCapacity == idle + Number("lease") <= MaxSize + Filled

\* The account: what was made or prefilled is idle or on loan, except that each
\* time the factory throws one unit of capacity is gone for good.
AccountExact == created + Filled = idle + Number("lease") + failed

\* No wake-up is lost: while somebody sleeps, every idle object is promised
\* to a sleeper that was woken or is about to be, so that borrowers who barge
\* in or time out never leave an object idle in front of a sleeper.
NoStranded ==
  Sleepers # {} => idle <= Number("awake") + Number("notify")

\* The account, the capacity that follows from it, and the wake-ups.
ObjectsInv == AccountExact /\ WithinCapacity /\ NoStranded

\* The pool is an implementation of bounded leases: with objects that are made,
\* kept, and lost to a factory that throws, no more are ever on loan than the
\* maximum and what was prefilled.
Leases == INSTANCE BoundedLeases WITH
  Users   <- Borrowers,
  Bounds  <- {MaxSize + Filled},
  NoBound <- -1,
  holders <- In(Borrowers, borrower, "lease"),
  bound   <- MaxSize + Filled

ImplementsLeases == Leases!LeaseSpec
=============================================================================
