------------------------------ MODULE Storage -------------------------------
(***************************************************************************)
(* sqlite.cpp: two programs that write to one database file, each with a   *)
(* connection, a statement and SqliteTransaction guards.                   *)
(*                                                                         *)
(* A write is a number.  SQLite itself is the part that decides who may    *)
(* write: one connection at a time has a transaction that has written, and *)
(* a commit needs that no other connection reads (rollback journal).       *)
(***************************************************************************)
EXTENDS Integers, Sequences, FiniteSets, SequencesExt

CONSTANTS
  Programs,      \* who uses the file
  MaxWrites,     \* bound on the writes
  Nobody         \* no program

ASSUME SqliteAssumption == MaxWrites \in Nat /\ Nobody \notin Programs

VARIABLES
  committed,     \* writes in the file
  writes,        \* writes so far
  in_txn,        \* per connection: SQLite is inside a transaction
  pending,       \* per connection: writes of that transaction
  writer,        \* the connection that holds the write lock
  guards,        \* per connection: active_ of its guards, the outermost first
  promised,      \* writes whose statement or commit() reported success
  refused,       \* history: connections open since a COMMIT that SQLite refused
  stray,         \* history: writes into a transaction that no guard answers for
  cursor,        \* per statement, for SQLite: "none", "ready", "row" or "halted"
  stepped,       \* SqliteStatement::stepped_
  moved          \* history: the statement was moved after a step

dataVars      == <<committed, writes, in_txn, pending, writer, guards, promised, refused,
                   stray>>
statementVars == <<cursor, stepped, moved>>
sqliteVars    == <<dataVars, statementVars>>

SqliteInit ==
  /\ committed = {} /\ writes = 0 /\ writer = Nobody /\ promised = {}
  /\ refused = {} /\ stray = {}
  /\ in_txn = [p \in Programs |-> FALSE] /\ pending = [p \in Programs |-> {}]
  /\ guards = [p \in Programs |-> <<>>]
  /\ cursor = [p \in Programs |-> "none"]
  /\ stepped = [p \in Programs |-> FALSE] /\ moved = [p \in Programs |-> FALSE]

Active(p) == \E g \in DOMAIN guards[p] : guards[p][g]

-----------------------------------------------------------------------------
(* SQLite. *)

Reads(p) == cursor[p] = "row"

MayWrite(p)  == writer \in {Nobody, p}
MayCommit(p) == \A q \in Programs \ {p} : ~Reads(q)

\* What is left when a transaction ends.
EndTxn(p) ==
  /\ in_txn' = [in_txn EXCEPT ![p] = FALSE]
  /\ pending' = [pending EXCEPT ![p] = {}]
  /\ writer' = IF writer = p THEN Nobody ELSE writer

-----------------------------------------------------------------------------
(* SqliteDatabase and SqliteTransaction. *)

\* A BEGIN inside a transaction fails and leaves the guard inactive.
BeginGuard(p) ==
  /\ Len(guards[p]) < 2
  /\ guards' = [guards EXCEPT ![p] = Append(@, ~in_txn[p])]
  /\ in_txn' = [in_txn EXCEPT ![p] = TRUE]
  /\ UNCHANGED <<committed, writes, pending, writer, promised, refused, stray, statementVars>>

\* exec() of an INSERT; outside a transaction it commits by itself.  A program
\* that knows of no transaction takes the success for good.
Exec(p) ==
  /\ writes < MaxWrites /\ MayWrite(p)
  /\ in_txn[p] \/ MayCommit(p)
  /\ writes' = writes + 1
  /\ IF in_txn[p]
       THEN /\ pending' = [pending EXCEPT ![p] = @ \cup {writes + 1}] /\ writer' = p
            /\ UNCHANGED committed
       ELSE committed' = committed \cup {writes + 1} /\ UNCHANGED <<pending, writer>>
  /\ promised' = IF Active(p) THEN promised ELSE promised \cup {writes + 1}
  /\ stray' = IF in_txn[p] /\ ~Active(p) THEN stray \cup {writes + 1} ELSE stray
  /\ UNCHANGED <<in_txn, guards, refused, statementVars>>

\* commit(): whatever COMMIT returns, the guard is not active any more.
Commit(p) ==
  /\ guards[p] # <<>> /\ Last(guards[p])
  /\ guards' = [guards EXCEPT ![p] = Append(Front(@), FALSE)]
  /\ IF pending[p] = {} \/ MayCommit(p)
       THEN /\ committed' = committed \cup pending[p]
            /\ promised' = promised \cup pending[p]
            /\ EndTxn(p) /\ UNCHANGED refused
       ELSE /\ refused' = refused \cup {p}
            /\ UNCHANGED <<committed, promised, in_txn, pending, writer>>
  /\ UNCHANGED <<writes, stray, statementVars>>

Rollback(p) ==
  /\ guards[p] # <<>> /\ Last(guards[p])
  /\ guards' = [guards EXCEPT ![p] = Append(Front(@), FALSE)]
  /\ EndTxn(p)
  /\ UNCHANGED <<committed, writes, promised, refused, stray, statementVars>>

\* Mutant: every guard rolls back, also one whose BEGIN failed.
DestroyGuardAlways(p) ==
  /\ guards[p] # <<>>
  /\ guards' = [guards EXCEPT ![p] = Front(@)]
  /\ EndTxn(p)
  /\ UNCHANGED <<committed, writes, promised, refused, stray, statementVars>>

\* ~SqliteTransaction(): the innermost guard goes, with a rollback if active.
DestroyGuard(p) ==
  /\ guards[p] # <<>>
  /\ guards' = [guards EXCEPT ![p] = Front(@)]
  /\ IF Last(guards[p]) THEN EndTxn(p) ELSE UNCHANGED <<in_txn, pending, writer>>
  /\ UNCHANGED <<committed, writes, promised, refused, stray, statementVars>>

\* close() and open(): SQLite drops a transaction that is still open.
Reopen(p) ==
  /\ guards[p] = <<>> /\ cursor[p] = "none"
  /\ EndTxn(p) /\ refused' = refused \ {p}
  /\ UNCHANGED <<committed, writes, guards, promised, stray, statementVars>>

-----------------------------------------------------------------------------
(* SqliteStatement. *)

SetStatement(p, at, s) ==
  /\ cursor' = [cursor EXCEPT ![p] = at]
  /\ stepped' = [stepped EXCEPT ![p] = s]
  /\ moved' = [moved EXCEPT ![p] = FALSE]
  /\ UNCHANGED dataVars

Prepare(p) ==
  /\ cursor[p] = "none"
  /\ SetStatement(p, "ready", FALSE)

Finalize(p) ==
  /\ cursor[p] # "none"
  /\ SetStatement(p, "none", FALSE)

\* step(): a row; or the end, or an error.
Step(p) ==
  /\ cursor[p] # "none"
  /\ SetStatement(p, "row", TRUE) \/ SetStatement(p, "halted", TRUE)

\* bind_...(): a statement that was stepped is reset first.
Bind(p) ==
  /\ cursor[p] # "none"
  /\ IF stepped[p] THEN SetStatement(p, "ready", FALSE) ELSE UNCHANGED sqliteVars

Reset(p) ==
  /\ cursor[p] # "none"
  /\ SetStatement(p, "ready", FALSE)

\* query_all(): all rows and a reset, of which the flags do not know.
QueryAll(p) ==
  /\ cursor[p] # "none"
  /\ SetStatement(p, "ready", TRUE)

\* The move constructor takes the statement and leaves the flags behind.
MoveStatement(p) ==
  /\ cursor[p] # "none"
  /\ stepped' = [stepped EXCEPT ![p] = FALSE]
  /\ moved' = [moved EXCEPT ![p] = @ \/ stepped[p]]
  /\ UNCHANGED <<cursor, dataVars>>

-----------------------------------------------------------------------------
SqliteNext ==
  \E p \in Programs :
    \/ BeginGuard(p) \/ Exec(p) \/ Commit(p) \/ Rollback(p) \/ DestroyGuard(p) \/ Reopen(p)
    \/ Prepare(p) \/ Finalize(p) \/ Step(p) \/ Bind(p) \/ Reset(p) \/ QueryAll(p)
    \/ MoveStatement(p)

SqliteSpec == SqliteInit /\ [][SqliteNext]_sqliteVars

-----------------------------------------------------------------------------
SqliteTypeOK ==
  /\ committed \subseteq 1..writes /\ promised \subseteq 1..writes
  /\ writer \in Programs \cup {Nobody}
  /\ \A p \in Programs :
       /\ guards[p] \in BoundedSeq(BOOLEAN, 2)
       /\ cursor[p] \in {"none", "ready", "row", "halted"}

\* A transaction belongs to one active guard, the guard of the BEGIN that
\* opened it, and a guard within it decides nothing.  The exception is a commit
\* that SQLite refused: sqlite.cpp:754 takes it for rolled back, but the
\* transaction stays open and no guard will ever end it.
GuardedTransaction ==
  \A p \in Programs :
    /\ Active(p) => in_txn[p] /\ Cardinality({g \in DOMAIN guards[p] : guards[p][g]}) = 1
    /\ in_txn[p] /\ p \notin refused => Active(p)

\* What was reported as done is in the file: no guard undoes a write of a
\* transaction that was committed, or of none.  The exception is the same:
\* writes that go into the transaction that was left open are lost with it.
PromisedIsKept == promised \ stray \subseteq committed

\* Nobody sees half a transaction: what is pending is not in the file.
NothingHalf == \A p \in Programs : pending[p] \cap committed = {} /\ (pending[p] # {} => writer = p)

\* A statement that SQLite would not let one bind is known to be stepped, and
\* is reset first - unless it was moved.
BindSucceeds ==
  \A p \in Programs : cursor[p] \in {"row", "halted"} /\ ~moved[p] => stepped[p]

SqliteInv ==
  /\ SqliteTypeOK /\ GuardedTransaction /\ PromisedIsKept /\ NothingHalf
  /\ BindSucceeds

-----------------------------------------------------------------------------
(***************************************************************************)
(* file_lock.cpp and the write mutex of sqlite.cpp, on POSIX: locks across *)
(* programs.  Both are flock() on a lock file that is never deleted.       *)
(*                                                                         *)
(* The kernel ties such a lock to the open file, not to the program: a     *)
(* child that a program forks has the file open too (it is not opened with *)
(* O_CLOEXEC), and the lock lasts until it is undone or the last of them   *)
(* closes the file.                                                        *)
(***************************************************************************)

CONSTANTS
  Lockers,       \* lock objects, each in a program of its own
  LockFiles,     \* lock files
  MaxForks       \* bound on the children, and on the crashes

ASSUME FileLockAssumption == MaxForks \in Nat

VARIABLES
  lock_mode,     \* per object: mode_ of a FileLock, or "mutex" for a SqliteWriteMutex
  lock_path,     \* per object: path_
  lock_open,     \* per object: the lock file is open
  lock_held,     \* per object: locked_, held_
  flocks,        \* per object: the lock on its open file: "no", "shared", "exclusive"
  lock_heir,          \* per object: a child has the same open file
  orphans,       \* locks that only a child's open file keeps: [path, mode, cause]
  forks, crashes \* counted for the bounds

fileLockVars == <<lock_mode, lock_path, lock_open, lock_held, flocks, lock_heir, orphans,
                  forks, crashes>>

\* Every object uses one of the two classes; a write mutex keeps its file.
FileLockInit ==
  /\ lock_mode \in [Lockers -> {"exclusive", "shared", "mutex"}]
  /\ lock_path \in [Lockers -> LockFiles]
  /\ lock_open = [o \in Lockers |-> lock_mode[o] = "mutex"]
  /\ lock_held = [o \in Lockers |-> FALSE]
  /\ flocks = [o \in Lockers |-> "no"]
  /\ lock_heir = [o \in Lockers |-> FALSE]
  /\ orphans = {} /\ forks = 0 /\ crashes = 0

Wanted(o) == IF lock_mode[o] = "shared" THEN "shared" ELSE "exclusive"

Conflict(m, n) == "no" \notin {m, n} /\ "exclusive" \in {m, n}

\* flock(LOCK_NB) on o's file would succeed.
Grants(o) ==
  /\ \A q \in Lockers \ {o} :
       lock_path[q] = lock_path[o] => ~Conflict(Wanted(o), flocks[q])
  /\ \A l \in orphans : l.path = lock_path[o] => ~Conflict(Wanted(o), l.mode)

-----------------------------------------------------------------------------
\* try_lock(), and each attempt of lock_for() and of acquire(); an attempt that
\* finds the lock taken leaves everything as it was.
TryLock(o) ==
  /\ ~lock_held[o] /\ Grants(o)
  /\ lock_open' = [lock_open EXCEPT ![o] = TRUE]
  /\ lock_held' = [lock_held EXCEPT ![o] = TRUE]
  /\ flocks' = [flocks EXCEPT ![o] = Wanted(o)]
  /\ UNCHANGED <<lock_mode, lock_path, lock_heir, orphans, forks, crashes>>

\* The program closes o's file; its lock stays with a child, if one has the file.
CloseFile(o, mode, cause) ==
  /\ lock_open' = [lock_open EXCEPT ![o] = FALSE]
  /\ lock_held' = [lock_held EXCEPT ![o] = FALSE]
  /\ flocks' = [flocks EXCEPT ![o] = "no"]
  /\ lock_heir' = [lock_heir EXCEPT ![o] = FALSE]
  /\ orphans' = IF lock_heir[o] /\ mode # "no"
                  THEN orphans \cup {[path |-> lock_path[o], mode |-> mode, cause |-> cause]}
                  ELSE orphans

\* Mutant: unlock() leaves it to close() to release the lock.
UnlockByClose(o) == CloseFile(o, flocks[o], "unlock")

\* FileLock::unlock(): LOCK_UN, then close().
Unlock(o) == CloseFile(o, "no", "unlock")

\* SqliteWriteMutex::release(): LOCK_UN, and the file stays open.
ReleaseMutex(o) ==
  /\ lock_held' = [lock_held EXCEPT ![o] = FALSE]
  /\ flocks' = [flocks EXCEPT ![o] = "no"]
  /\ UNCHANGED <<lock_open, lock_heir, orphans>>

\* unlock(), a guard that goes out of scope, release().
Release(o) ==
  /\ lock_held[o]
  /\ IF lock_mode[o] = "mutex" THEN ReleaseMutex(o) ELSE Unlock(o)
  /\ UNCHANGED <<lock_mode, lock_path, forks, crashes>>

\* set_path() releases first.
SetPath(o, f) ==
  /\ lock_mode[o] # "mutex" /\ f # lock_path[o]
  /\ IF lock_held[o] THEN Unlock(o) ELSE UNCHANGED <<lock_open, lock_held, flocks, lock_heir, orphans>>
  /\ lock_path' = [lock_path EXCEPT ![o] = f]
  /\ UNCHANGED <<lock_mode, forks, crashes>>

\* ~SqliteWriteMutex(): close() alone, on which sqlite.cpp:878 relies; a new
\* one may be constructed.
Destroy(o) ==
  /\ lock_mode[o] = "mutex" /\ lock_open[o]
  /\ CloseFile(o, flocks[o], "destroyed")
  /\ UNCHANGED <<lock_mode, lock_path, forks, crashes>>

Construct(o) ==
  /\ lock_mode[o] = "mutex" /\ ~lock_open[o]
  /\ lock_open' = [lock_open EXCEPT ![o] = TRUE]
  /\ UNCHANGED <<lock_mode, lock_path, lock_held, flocks, lock_heir, orphans, forks, crashes>>

\* The program starts a child, which inherits what is open.
ForkChild(o) ==
  /\ lock_open[o] /\ ~lock_heir[o] /\ forks < MaxForks
  /\ lock_heir' = [lock_heir EXCEPT ![o] = TRUE] /\ forks' = forks + 1
  /\ UNCHANGED <<lock_mode, lock_path, lock_open, lock_held, flocks, orphans, crashes>>

ChildExits ==
  /\ \/ \E o \in Lockers : lock_heir[o] /\ lock_heir' = [lock_heir EXCEPT ![o] = FALSE] /\ UNCHANGED orphans
     \/ \E l \in orphans : orphans' = orphans \ {l} /\ UNCHANGED lock_heir
  /\ UNCHANGED <<lock_mode, lock_path, lock_open, lock_held, flocks, forks, crashes>>

\* The program dies: the kernel closes its files.  It starts again.
Crash(o) ==
  /\ crashes < MaxForks /\ crashes' = crashes + 1
  /\ CloseFile(o, flocks[o], "crash")
  /\ UNCHANGED <<lock_mode, lock_path, forks>>

FileLockNext ==
  \/ \E o \in Lockers :
       \/ TryLock(o) \/ Release(o) \/ Destroy(o) \/ Construct(o) \/ ForkChild(o) \/ Crash(o)
       \/ \E f \in LockFiles : SetPath(o, f)
  \/ ChildExits

-----------------------------------------------------------------------------
\* Who was told that it has the lock has it, and nobody has a lock of which it
\* does not know: an early return or a failed attempt leaves none behind.
ToldIsHeld ==
  \A o \in Lockers :
    /\ (flocks[o] # "no") = lock_held[o]
    /\ lock_held[o] => lock_open[o] /\ flocks[o] = Wanted(o)

\* One writer, or readers only, among those who were told so - whatever
\* crashes, and whatever a child still has open.
OneWriter ==
  \A o, q \in Lockers :
    o # q /\ lock_held[o] /\ lock_held[q] /\ lock_path[o] = lock_path[q] =>
      lock_mode[o] = "shared" /\ lock_mode[q] = "shared"

\* unlock(), release() and set_path() free the lock for everybody, children or
\* not.  A lock outlives its program only after a crash, or a write mutex that
\* was destroyed while it was held.
UnlockFrees == \A l \in orphans : l.cause # "unlock"

FileLockInv == ToldIsHeld /\ OneWriter /\ UnlockFrees
=============================================================================
