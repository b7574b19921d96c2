-------------------------------- MODULE Tools -------------------------------
(***************************************************************************)
(* The small concurrency tools of the library, its instruments, and its    *)
(* work on digests, strings, days, archives and trees side by side.  They  *)
(* share no state here, so that their interleavings tell nothing: a        *)
(* behaviour is one of a single tool, which its first state chooses, and   *)
(* the others stay as they were constructed.                               *)
(***************************************************************************)
EXTENDS ThreadPool, ObjectPool, CircuitBreaker, UuidV7,
        TimerWheel, AsyncScheduler, Monitors, Telemetry, Hashing, Texts,
        Strings, Calendar, Archives, Helpers

VARIABLE tool   \* the tool that is used

toolVars == <<tool, queueVars, poolVars, onceVars, objectVars, breakerVars, uuidVars,
              wheelVars, schedulerVars, monitorVars, telemetryVars, hashVars,
              textVars, stringVars, calendarVars, archiveVars, treeVars, helperVars>>

Init ==
  /\ tool \in {"queue", "pool", "once", "objects", "breaker", "uuid", "wheel", "scheduler",
               "monitors", "telemetry", "hashing", "texts", "strings", "calendar", "archives",
               "trees", "helpers"}
  /\ QueueInit /\ PoolInit /\ OnceInit
  /\ ObjectInit /\ BreakerInit /\ UuidInit
  /\ WheelInit /\ SchedulerInit
  /\ MonitorInit /\ TelemetryInit /\ HashInit /\ HelpersInit
  /\ tool # "breaker" => healthy
  /\ tool # "monitors" => monitor = "semaphore"
  /\ tool # "telemetry" => instrument = "histogram"
  /\ tool # "hashing" => hasher = "Md5"
  /\ tool # "helpers" => helper = "latency"
  /\ IF tool = "texts" THEN TextsInit ELSE TextsIdle
  /\ IF tool = "strings" THEN StringsInit ELSE StringsIdle
  /\ IF tool = "calendar" THEN CalendarInit ELSE CalendarIdle
  /\ IF tool = "archives" THEN ArchivesInit ELSE ArchivesIdle
  /\ IF tool = "trees" THEN TreeInit ELSE TreeIdle

\* u is used, and nothing else changes.
Using(u) ==
  /\ tool = u /\ UNCHANGED tool
  /\ IF u = "queue" THEN TRUE ELSE UNCHANGED queueVars
  /\ IF u = "pool" THEN TRUE ELSE UNCHANGED poolVars
  /\ IF u = "once" THEN TRUE ELSE UNCHANGED onceVars
  /\ IF u = "objects" THEN TRUE ELSE UNCHANGED objectVars
  /\ IF u = "breaker" THEN TRUE ELSE UNCHANGED breakerVars
  /\ IF u = "uuid" THEN TRUE ELSE UNCHANGED uuidVars
  /\ IF u = "wheel" THEN TRUE ELSE UNCHANGED wheelVars
  /\ IF u = "scheduler" THEN TRUE ELSE UNCHANGED schedulerVars
  /\ IF u = "monitors" THEN TRUE ELSE UNCHANGED monitorVars
  /\ IF u = "telemetry" THEN TRUE ELSE UNCHANGED telemetryVars
  /\ IF u = "hashing" THEN TRUE ELSE UNCHANGED hashVars
  /\ IF u = "texts" THEN TRUE ELSE UNCHANGED textVars
  /\ IF u = "strings" THEN TRUE ELSE UNCHANGED stringVars
  /\ IF u = "calendar" THEN TRUE ELSE UNCHANGED calendarVars
  /\ IF u = "archives" THEN TRUE ELSE UNCHANGED archiveVars
  /\ IF u = "trees" THEN TRUE ELSE UNCHANGED treeVars
  /\ IF u = "helpers" THEN TRUE ELSE UNCHANGED helperVars

UseQueue     == Using("queue") /\ QueueNext
UsePool      == Using("pool") /\ PoolNext
UseOnce      == Using("once") /\ OnceNext
UseObjects   == Using("objects") /\ ObjectNext
UseBreaker   == Using("breaker") /\ BreakerNext
UseUuid      == Using("uuid") /\ UuidNext
UseWheel     == Using("wheel") /\ WheelNext
UseScheduler == Using("scheduler") /\ SchedulerNext
UseMonitor   == Using("monitors") /\ MonitorNext
UseTelemetry == Using("telemetry") /\ TelemetryNext
UseHashing   == Using("hashing") /\ HashNext
UseTexts     == Using("texts") /\ TextsNext
UseStrings   == Using("strings") /\ StringsNext
UseCalendar  == Using("calendar") /\ CalendarNext
UseArchives  == Using("archives") /\ ArchivesNext
UseTrees     == Using("trees") /\ CallTree
UseHelpers   == Using("helpers") /\ HelpersNext

Next ==
  \/ UseQueue \/ UsePool \/ UseOnce \/ UseObjects \/ UseBreaker \/ UseUuid
  \/ UseWheel \/ UseScheduler \/ UseMonitor \/ UseTelemetry \/ UseHashing
  \/ UseTexts \/ UseStrings \/ UseCalendar \/ UseArchives \/ UseTrees \/ UseHelpers

Spec == Init /\ [][Next]_toolVars

\* Where liveness is claimed the tool is owed its fairness, and only where it
\* is used.
\* Thread pool: its workers run and tasks return.
\* Breaker: callers keep calling, calls end, time passes; nobody must reset.
\* Scheduler: its worker runs, callbacks return, and time passes; nobody is
\* bound to add or cancel a task, to wait, or to stop.
FairSpec ==
  /\ Spec
  /\ \A w \in Workers : WF_poolVars(tool = "pool" /\ Worker(w))
  /\ \A c \in Callers :
       /\ WF_breakerVars(tool = "breaker" /\ Allow(c))
       /\ WF_breakerVars(tool = "breaker" /\ Record(c))
  /\ WF_breakerVars(tool = "breaker" /\ CoolDown)
  /\ WF_schedulerVars(tool = "scheduler" /\ SchedulerWorker)
  /\ WF_schedulerVars(tool = "scheduler" /\ Tick)

-----------------------------------------------------------------------------
\* Every tool keeps to its types; the thread pool keeps its accounts and wakes whom
\* it should; digests do not depend on the pieces; names, paths and days are found
\* where they are; strings and archives give back what was put in; a call on a tree
\* does what it says and leaves the rest; and caches and pauses are as told.
ToolsInv ==
  /\ QueueTypeOK /\ PoolTypeOK /\ OnceTypeOK /\ ObjectTypeOK
  /\ BreakerTypeOK /\ UuidTypeOK /\ WheelTypeOK /\ SchedulerTypeOK
  /\ MonitorTypeOK /\ TelemetryTypeOK
  /\ PoolInv /\ HashInv /\ TextsInv
  /\ StringsInv /\ CalendarInv /\ ArchivesInv /\ TreeInv /\ HelpersInv
=============================================================================
