------------------------------ MODULE Platform ------------------------------
(***************************************************************************)
(* The parts of the library and its applications that live close to the    *)
(* operating system, side by side: the frame of a service with its         *)
(* reloads, child processes, programs run to their end, the test runner,   *)
(* SQLite, locks on files, the file share, the directory watcher, and      *)
(* files that are replaced at once.                                        *)
(* They share no state: a behaviour is one of a single part, which its     *)
(* first state chooses; the others stay as they were constructed.          *)
(***************************************************************************)
EXTENDS ServiceFrame, Processes, Storage, LanShare,
        TestRunner, Files

VARIABLE part   \* the part that is used

platformVars == <<part, serviceFrameVars, processVars, sqliteVars, fileLockVars,
                  shareVars, watcherVars, runVars, runnerVars,
                  atomicVars>>

Init ==
  /\ part \in {"frame", "process", "sqlite", "lock", "share", "watcher", "run", "runner",
             "atomic"}
  /\ FrameInit /\ ChildInit /\ SqliteInit
  /\ FileLockInit /\ ShareInit /\ WatcherInit /\ RunInit /\ RunnerInit /\ AtomicInit
  /\ part # "runner" => ~serving
  /\ part # "atomic" => ~apart
  /\ part # "lock" => \A o \in Lockers :
       lock_mode[o] = "mutex" /\ lock_path[o] = CHOOSE f \in LockFiles : TRUE

\* p is used, and nothing else changes.
Using(p) ==
  /\ part = p /\ UNCHANGED part
  /\ IF p = "frame" THEN TRUE ELSE UNCHANGED serviceFrameVars
  /\ IF p = "process" THEN TRUE ELSE UNCHANGED processVars
  /\ IF p = "sqlite" THEN TRUE ELSE UNCHANGED sqliteVars
  /\ IF p = "lock" THEN TRUE ELSE UNCHANGED fileLockVars
  /\ IF p = "share" THEN TRUE ELSE UNCHANGED shareVars
  /\ IF p = "watcher" THEN TRUE ELSE UNCHANGED watcherVars
  /\ IF p = "run" THEN TRUE ELSE UNCHANGED runVars
  /\ IF p = "runner" THEN TRUE ELSE UNCHANGED runnerVars
  /\ IF p = "atomic" THEN TRUE ELSE UNCHANGED atomicVars

UseFrame     == Using("frame") /\ FrameNext
UseProcess   == Using("process") /\ ProcessNext
UseSqlite    == Using("sqlite") /\ SqliteNext
UseLock      == Using("lock") /\ FileLockNext
UseShare     == Using("share") /\ ShareNext
UseWatcher   == Using("watcher") /\ WatcherNext
UseRun       == Using("run") /\ RunNext
UseRunner    == Using("runner") /\ RunnerNext
UseAtomic    == Using("atomic") /\ AtomicNext

Next ==
  \/ UseFrame \/ UseProcess \/ UseSqlite \/ UseLock
  \/ UseShare \/ UseWatcher \/ UseRun \/ UseRunner \/ UseAtomic

Spec == Init /\ [][Next]_platformVars

\* Fairness is owed to the part that is used, as its own module states it.
FairSpec ==
  /\ Spec
  /\ WF_serviceFrameVars(part = "frame" /\ WatcherStep)
  /\ WF_serviceFrameVars(part = "frame" /\ Reloading("http"))
  /\ WF_serviceFrameVars(part = "frame" /\ ShutdownStep)
  /\ \A c \in Calls : WF_serviceFrameVars(part = "frame" /\ CallEnds(c))
  /\ \A c \in Children :
       /\ WF_processVars(part = "process" /\ ReaderThread(c))
       /\ WF_processVars(part = "process" /\ HeirEnds(c))
  /\ WF_processVars(part = "process" /\ UiThread)
  /\ WF_watcherVars(part = "watcher" /\ WatchThread)
  /\ WF_watcherVars(part = "watcher" /\ WatchJoined)
  /\ WF_runnerVars(part = "runner" /\ RunnerThreads)
-----------------------------------------------------------------------------
\* What is kept in files: transactions, locks, shared files, a program's copy of a
\* directory it watches, and files that are replaced at once.
StorageInv == SqliteInv /\ FileLockInv /\ ShareInv /\ WatcherInv /\ AtomicInv

\* What follows a file catches up with it when it comes to rest: the settings of a
\* service, and the copy of a watched directory.
FollowsFiles == EditIsApplied /\ CopyFollows

\* Whoever waits for a thread of the library sees its end: a service that got Ctrl+C
\* returns; a child that is stopped is dead, also if it ignores SIGTERM, and the
\* launcher ends, provided nobody holds the pipe for ever; a directory watcher
\* stops; and a round of tests ends, as does main() when it was told to.
Awaited == Exiting \/ UiAwaits \/ stop_at = "join" \/ RoundAwaited
ThreadsEnd == Awaited ~> ~Awaited /\ NoneAlive

\* A service goes by one version of its settings and is taken apart in order; and of
\* children, programs run to their end, and rounds of test programs, what is told is
\* all there is to tell.
ProgramsInv == FrameInv /\ ProcessInv /\ RunInv /\ RunnerInv
=============================================================================
