-------------------------- MODULE Platform_proofs --------------------------
EXTENDS Platform, Counting, SequenceTheorems, FiniteSetTheorems, TLAPS

-----------------------------------------------------------------------------
(***************************************************************************)
(* The frame of a service, for any number of edits, reloads and calls.     *)
(* That no method runs once the RPC server is down needs in_flight to be   *)
(* exact (InFlightTrue), that no reload is left at the end the places of   *)
(* the watcher (WatcherIdle), and OneVersion what each step of a reload    *)
(* that nobody crosses has done so far (Consistent).                       *)
(***************************************************************************)

FrameType ==
  /\ FrameTypeOK
  /\ edits \in 1..MaxEdits + 1 /\ saving \in BOOLEAN /\ (saving => edits <= MaxEdits)
  /\ fresh \in [Reloaders -> 0..MaxEdits + 1] /\ overlapped \in BOOLEAN
  /\ calls \in [Calls -> {"new", "run", "done"}]

\* in_flight_ counts the methods that run.
InFlightTrue == in_flight = Count(Calls, calls, "run")

\* The watcher reloads only from within its callback.
WatcherIdle == watcher # "change" => at_reload["watcher"] = "no"

\* run_service() returns when the watcher has left.
WatcherLeft == service_at = "returned" => watcher = "done"

\* A reload that nobody crosses: before it installs the service goes by what is
\* installed, and afterwards what it has taken and applied is what it installed.
Consistent(t) ==
  ~overlapped /\ (\A u \in Reloaders \ {t} : at_reload[u] = "no") =>
    /\ at_reload[t] \in {"no", "read", "install"} => log_level = installed /\ rpc_settings = installed
    /\ at_reload[t] \in {"level", "apply"} => fresh[t] = installed
    /\ at_reload[t] \in {"facade", "apply"} => log_level = installed

\* Two reloads under way have crossed.
Crossed ==
  ~overlapped => \E t \in Reloaders : \A u \in Reloaders \ {t} : at_reload[u] = "no"

FrameIInv ==
  /\ FrameType /\ InFlightTrue /\ WatcherIdle /\ WatcherLeft /\ StopsInOrder /\ Crossed
  /\ \A t \in Reloaders : Consistent(t)

\* The bounds are numbers.
LEMMA EditsBound == MaxEdits \in Nat /\ MaxCalls \in Nat
BY FrameAssumption DEF FrameAssumption

\* An editor saves: nobody looks at the file.
LEMMA SaveKeeps ==
  ASSUME FrameIInv, BeginSave \/ EndSave
  PROVE  FrameIInv'
<1> USE EditsBound DEF watchVars, reloadVars, callsMade
<1>1. UNCHANGED <<watcher, installed, log_level, rpc_settings, at_reload, fresh, overlapped,
                  calls, in_flight, ready, service_at>>
  BY DEF BeginSave, EndSave
<1>2. CASE BeginSave
  <2>1. FrameType'
    BY <1>1, <1>2 DEF FrameIInv, FrameType, FrameTypeOK, BeginSave
  <2> QED
    BY <1>1, <2>1 DEF FrameIInv, InFlightTrue, WatcherIdle, WatcherLeft,
       StopsInOrder, Crossed, Consistent
<1>3. CASE EndSave
  <2>1. edits' \in 1..MaxEdits + 1 /\ file' \in 0..MaxEdits + 1 /\ saving' = FALSE
    <3>1. edits <= MaxEdits /\ edits' = edits + 1 /\ file' = edits + 1 /\ saving' = FALSE
      BY <1>3 DEF FrameIInv, FrameType, EndSave
    <3> QED
      BY <3>1 DEF FrameIInv, FrameType
  <2>2. FrameType'
    BY <1>1, <2>1 DEF FrameIInv, FrameType, FrameTypeOK
  <2> QED
    BY <1>1, <2>2 DEF FrameIInv, InFlightTrue, WatcherIdle, WatcherLeft,
       StopsInOrder, Crossed, Consistent
<1> QED
  BY <1>2, <1>3

\* A step of a reload.
LEMMA ReloadKeeps ==
  ASSUME FrameIInv, NEW t \in Reloaders, Reloading(t)
  PROVE  FrameIInv'
<1> USE DEF fileVars, watchVars, callsMade, Reloaders
<1>1. /\ UNCHANGED <<edits, saving, file, watcher, reloads, overlapped, calls, in_flight, ready, service_at>>
      /\ at_reload[t] # "no"
      /\ \A u \in Reloaders : u # t => at_reload'[u] = at_reload[u] /\ fresh'[u] = fresh[u]
      /\ at_reload' \in [Reloaders -> {"no", "read", "install", "settings", "level", "facade", "apply"}]
  BY DEF FrameIInv, FrameType, FrameTypeOK, Reloading, Reload, ReadFile, Install, TakeSettings,
     SetLevel, ApplyConfig
<1>2. FrameType'
  BY <1>1 DEF FrameIInv, FrameType, FrameTypeOK, Reloading, Reload, ReadFile, Install, TakeSettings,
     SetLevel, ApplyConfig
<1>3. InFlightTrue' /\ Crossed' /\ StopsInOrder' /\ WatcherIdle' /\ WatcherLeft'
  BY <1>1 DEF FrameIInv, InFlightTrue, Crossed, StopsInOrder, WatcherIdle, WatcherLeft
<1>4. Consistent(t)'
  <2>1. CASE ReadFile(t)
    BY <2>1 DEF FrameIInv, FrameType, FrameTypeOK, Consistent, ReadFile, Reload
  <2>2. CASE Install(t)
    BY <2>2 DEF FrameIInv, FrameType, FrameTypeOK, Consistent, Install, Reload
  <2>3. CASE TakeSettings(t)
    BY <2>3 DEF FrameIInv, FrameType, FrameTypeOK, Consistent, TakeSettings, Reload
  <2>4. CASE SetLevel(t)
    BY <2>4 DEF FrameIInv, FrameType, FrameTypeOK, Consistent, SetLevel, Reload
  <2>5. CASE ApplyConfig(t)
    BY <2>5 DEF FrameIInv, FrameType, FrameTypeOK, Consistent, ApplyConfig, Reload
  <2> QED
    BY <2>1, <2>2, <2>3, <2>4, <2>5 DEF Reloading
<1>5. ASSUME NEW u \in Reloaders, u # t PROVE Consistent(u)'
  <2>1. CASE at_reload'[t] # "no"
    BY <1>5, <2>1 DEF Consistent
  <2>2. CASE at_reload'[t] = "no"
    <3>1. ApplyConfig(t)
      BY <1>1, <2>2 DEF FrameIInv, FrameType, FrameTypeOK, Reloading, Reload, ReadFile, Install,
         TakeSettings, SetLevel
    <3> QED
      BY <1>1, <1>4, <1>5, <2>2, <3>1 DEF FrameIInv, Consistent, Crossed, ApplyConfig
  <2> QED
    BY <2>1, <2>2
<1> QED
  BY <1>2, <1>3, <1>4, <1>5 DEF FrameIInv

\* A reload begins, and has crossed another one that is under way.
LEMMA BeginKeeps ==
  ASSUME FrameIInv, NEW t \in Reloaders, BeginReload(t),
         UNCHANGED <<installed, log_level, rpc_settings, fresh>>
  PROVE  Crossed' /\ \A u \in Reloaders : Consistent(u)'
BY DEF FrameIInv, FrameType, FrameTypeOK, BeginReload, Crossed, Consistent, Reloaders

\* POST /api/reload.
LEMMA PostKeeps ==
  ASSUME FrameIInv, PostReload
  PROVE  FrameIInv'
<1> USE DEF PostReload, fileVars, watchVars, callsMade
<1>1. Crossed' /\ \A u \in Reloaders : Consistent(u)'
  BY BeginKeeps DEF Reloaders
<1>2. FrameType'
  BY DEF FrameIInv, FrameType, FrameTypeOK, BeginReload, Reloaders
<1>3. InFlightTrue' /\ StopsInOrder' /\ WatcherIdle' /\ WatcherLeft'
  BY DEF FrameIInv, FrameType, FrameTypeOK, BeginReload, InFlightTrue, StopsInOrder, WatcherIdle,
     WatcherLeft, Reloaders, Up
<1> QED
  BY <1>1, <1>2, <1>3 DEF FrameIInv

\* The watcher looks at the time of the file, reloads, and ends.
LEMMA WatcherKeeps ==
  ASSUME FrameIInv, StartWatcher \/ Poll \/ Confirm \/ ChangeDone \/ WatcherExit
  PROVE  FrameIInv'
<1> USE DEF fileVars, watchVars, callsMade, reloadVars
<1>1. CASE Confirm
  <2>1. Crossed' /\ \A u \in Reloaders : Consistent(u)'
    <3>1. CASE mtime # seen
      BY <1>1, <3>1 DEF FrameIInv, Confirm, Crossed, Consistent
    <3>2. CASE mtime = seen
      BY <1>1, <3>2, BeginKeeps DEF Confirm, Reloaders
    <3> QED
      BY <3>1, <3>2
  <2>2. FrameType'
    BY <1>1 DEF FrameIInv, FrameType, FrameTypeOK, Confirm, BeginReload, Reloaders
  <2>3. watcher = "confirm" /\ service_at' = service_at /\ ready' = ready /\ calls' = calls
        /\ in_flight' = in_flight
    BY <1>1 DEF Confirm
  <2>4. WatcherIdle' /\ InFlightTrue' /\ WatcherLeft'
    BY <1>1, <2>3 DEF FrameIInv, Confirm, WatcherIdle, InFlightTrue, WatcherLeft
  <2>5. service_at # "returned"
    BY <2>3 DEF FrameIInv, WatcherLeft
  <2>6. StopsInOrder'
    BY <1>1, <2>3, <2>5 DEF FrameIInv, FrameType, FrameTypeOK, Confirm, BeginReload, StopsInOrder,
       Reloaders
  <2> QED
    BY <2>1, <2>2, <2>4, <2>6 DEF FrameIInv
<1>2. CASE StartWatcher \/ Poll \/ ChangeDone \/ WatcherExit
  <2>1. /\ UNCHANGED <<file, edits, saving, installed, log_level, rpc_settings, at_reload, fresh,
                       overlapped, calls, in_flight, ready, service_at>>
        /\ watcher' \in {"poll", "confirm", "done"} /\ watcher # "done"
        /\ watcher = "change" => at_reload["watcher"] = "no"
    BY <1>2 DEF StartWatcher, Poll, ChangeDone, WatcherExit
  <2> QED
    BY <2>1 DEF FrameIInv, FrameType, FrameTypeOK, InFlightTrue, WatcherIdle, WatcherLeft,
       StopsInOrder, Crossed, Consistent
<1> QED
  BY <1>1, <1>2

\* A call begins or ends.
LEMMA CallKeeps ==
  ASSUME FrameIInv, NEW c \in Calls, CallBegins(c) \/ CallEnds(c)
  PROVE  FrameIInv'
<1> USE FrameAssumption DEF FrameAssumption, fileVars, watchVars, reloadVars
<1>1. /\ UNCHANGED <<file, edits, saving, installed, log_level, rpc_settings, at_reload, fresh,
                     overlapped, watcher, ready, service_at>>
      /\ \A d \in Calls : d # c => calls'[d] = calls[d]
      /\ calls' \in [Calls -> {"new", "run", "done"}]
  BY DEF FrameIInv, FrameType, CallBegins, CallEnds
<1>2. IsFiniteSet(Calls)
  BY FS_Interval DEF Calls
<1>3. CASE CallBegins(c)
  <2>1. calls[c] = "new" /\ calls'[c] = "run" /\ in_flight' = in_flight + 1 /\ service_at \in Up
    BY <1>3 DEF FrameIInv, FrameType, CallBegins
  <2>2. InFlightTrue'
    BY <1>1, <1>2, <2>1, CountEnter DEF FrameIInv, InFlightTrue
  <2> QED
    BY <1>1, <2>1, <2>2 DEF FrameIInv, FrameType, FrameTypeOK, WatcherIdle, WatcherLeft,
       StopsInOrder, Crossed, Consistent, Up
<1>4. CASE CallEnds(c)
  <2>1. calls[c] = "run" /\ calls'[c] = "done" /\ in_flight' = in_flight - 1
    BY <1>4 DEF FrameIInv, FrameType, CallEnds
  <2>2. InFlightTrue' /\ in_flight' \in Nat
    BY <1>1, <1>2, <2>1, CountLeave, CountType DEF FrameIInv, InFlightTrue
  <2> QED
    BY <1>1, <2>1, <2>2 DEF FrameIInv, FrameType, FrameTypeOK, WatcherIdle, WatcherLeft,
       StopsInOrder, Crossed, Consistent, Up
<1> QED
  BY <1>3, <1>4

\* Ctrl+C, and the steps of the shutdown.
LEMMA ShutdownKeeps ==
  ASSUME FrameIInv, Interrupt \/ ShutdownStep
  PROVE  FrameIInv'
<1> USE FrameAssumption DEF FrameAssumption, fileVars, watchVars, reloadVars, callsMade
<1>1. /\ UNCHANGED <<file, edits, saving, installed, log_level, rpc_settings, at_reload, fresh,
                     overlapped, watcher, calls, in_flight>>
      /\ ready' = ready \/ ready' = FALSE
      /\ service_at' \in {"drain", "rpc", "http", "join", "returned"}
  BY DEF Interrupt, ShutdownStep, Drained, RpcStopped, ControlStopped, WatcherStopped
<1>2. FrameType'
  BY <1>1 DEF FrameIInv, FrameType, FrameTypeOK, Up
<1>3. InFlightTrue' /\ Crossed' /\ WatcherIdle' /\ \A t \in Reloaders : Consistent(t)'
  BY <1>1 DEF FrameIInv, InFlightTrue, Crossed, WatcherIdle, Consistent
<1>4. WatcherLeft'
  BY <1>1 DEF FrameIInv, WatcherLeft, Interrupt, ShutdownStep, Drained, RpcStopped,
     ControlStopped, WatcherStopped
<1>5. RpcStopped => \A c \in Calls : calls[c] # "run"
  <2>1. IsFiniteSet(Calls)
    BY FS_Interval DEF Calls
  <2> QED
    BY <2>1, CountZero DEF FrameIInv, InFlightTrue, RpcStopped
<1>6. StopsInOrder'
  BY <1>1, <1>5 DEF FrameIInv, FrameType, FrameTypeOK, StopsInOrder, WatcherIdle, Interrupt,
     ShutdownStep, Drained, RpcStopped, ControlStopped, WatcherStopped, Reloaders
<1> QED
  BY <1>2, <1>3, <1>4, <1>6 DEF FrameIInv

\* The invariant of the frame.
THEOREM FrameInvariant == FrameSpec => []FrameIInv
<1>1. ASSUME FrameInit PROVE FrameIInv
  <2>1. IsFiniteSet(Calls)
    BY FrameAssumption, FS_Interval DEF FrameAssumption, Calls
  <2>2. InFlightTrue
    <3>1. \A c \in Calls : calls[c] # "run"
      BY <1>1 DEF FrameInit
    <3> QED
      BY <1>1, <2>1, <3>1, CountZero DEF FrameInit, InFlightTrue
  <2>3. FrameType
    <3>1. FrameTypeOK /\ edits \in 1..MaxEdits + 1
      BY <1>1, EditsBound DEF FrameInit, FrameTypeOK, Reloaders, Up
    <3>2. /\ saving \in BOOLEAN /\ ~saving /\ overlapped \in BOOLEAN
          /\ calls \in [Calls -> {"new", "run", "done"}]
      BY <1>1 DEF FrameInit
    <3>3. fresh \in [Reloaders -> 0..MaxEdits + 1]
      BY <1>1, EditsBound DEF FrameInit
    <3> QED
      BY <3>1, <3>2, <3>3 DEF FrameType
  <2>4. WatcherIdle /\ WatcherLeft /\ StopsInOrder /\ Crossed /\ \A t \in Reloaders : Consistent(t)
    BY <1>1 DEF FrameInit, WatcherIdle, WatcherLeft, StopsInOrder, Crossed, Consistent, Reloaders
  <2> QED
    BY <2>2, <2>3, <2>4 DEF FrameIInv
<1>2. ASSUME FrameIInv, [FrameNext]_serviceFrameVars PROVE FrameIInv'
  <2>1. CASE UNCHANGED serviceFrameVars
    BY <1>2, <2>1 DEF serviceFrameVars, fileVars, watchVars, reloadVars, callsMade, FrameIInv,
       FrameType, FrameTypeOK, InFlightTrue, WatcherIdle, WatcherLeft, StopsInOrder, Crossed,
       Consistent
  <2> QED
    BY <1>2, <2>1, SaveKeeps, ReloadKeeps, PostKeeps, WatcherKeeps, CallKeeps, ShutdownKeeps
       DEF FrameNext, WatcherStep, Reloaders
<1> QED
  BY <1>1, <1>2, PTL DEF FrameSpec

\* However reloads, edits and calls meet Ctrl+C: the service is taken apart in order,
\* and goes by one version of its settings, unless two reloads have crossed.
THEOREM FrameKept == FrameSpec => []FrameInv
<1>1. FrameIInv => FrameInv
  BY DEF FrameIInv, FrameType, FrameInv, OneVersion, Consistent, Reloaders
<1> QED
  BY <1>1, FrameInvariant, PTL

-----------------------------------------------------------------------------
(***************************************************************************)
(* Child processes, for any number of starts and any output.  The places   *)
(* of a child and of its reader go together (Reading): the reader leaves   *)
(* the pipe only when nobody can write any more, and then nobody can.      *)
(* What the UI thread knows of its handle (Handled) is enough to collect   *)
(* one process before the next is started.                                 *)
(***************************************************************************)

ProcessType ==
  /\ ProcessTypeOK
  /\ heir \in [Children -> BOOLEAN] /\ finished \in [Children -> BOOLEAN]
  /\ written \in [Children -> Nat] /\ captured \in [Children -> Nat]
  /\ verdict \in [Children -> {"none", "ok", "failed", "signal"}]
  /\ started \in BOOLEAN

Reading(c) ==
  /\ child[c] = "none" <=> reader_at[c] = "none"
  /\ reader_at[c] = "read" => child[c] \in {"alive", "zombie"}
  /\ reader_at[c] = "reap" => child[c] = "zombie"
  /\ reader_at[c] \in {"note", "done"} => child[c] = "reaped"
  /\ reader_at[c] \in {"reap", "note", "done"} => captured[c] = written[c] /\ heir[c] = FALSE
  /\ finished[c] = TRUE <=> reader_at[c] = "done"

Collected(c) == child[c] \in {"none", "reaped"} /\ reader_at[c] \in {"none", "done"}

Handled ==
  /\ \A c \in Children : c > handle => child[c] = "none"
  /\ started => handle \in Children
  /\ ~started => \A c \in Children : Collected(c)
  /\ ui_at = "term" => started
  /\ ui_at = "fork" \/ (ui_at = "join" /\ ui_job # "quit") => handle < MaxChildren

ExitNoted ==
  \/ last_exit = NoExit
  \/ /\ last_exit.who \in Children
     /\ verdict[last_exit.who] = last_exit.how /\ finished[last_exit.who]

ProcessIInv ==
  /\ ProcessType /\ OneProcess /\ Handled /\ ExitNoted
  /\ \A c \in Children : Reading(c)

ChildStep(c) == Writes(c) \/ Forks(c) \/ HeirEnds(c) \/ ChildEnds(c) \/ ReaderThread(c)

\* A step of a child, its heir or its reader: who is collected stays so.
LEMMA ChildStepKeeps ==
  ASSUME ProcessIInv, NEW c \in Children, ChildStep(c)
  PROVE  ProcessIInv'
<1> USE DEF uiVars
<1>1. /\ UNCHANGED uiVars
      /\ \A d \in Children : d # c =>
           /\ child'[d] = child[d] /\ heir'[d] = heir[d] /\ written'[d] = written[d]
           /\ captured'[d] = captured[d] /\ verdict'[d] = verdict[d]
           /\ reader_at'[d] = reader_at[d] /\ finished'[d] = finished[d]
  BY DEF ProcessIInv, ProcessType, ProcessTypeOK, ChildStep, Writes, Forks, HeirEnds, ChildEnds,
     Dies, ReaderThread, Capture, EndOfPipe, Reap, Note
<1>2. ProcessType' /\ Reading(c)' /\ (Collected(c) => Collected(c)')
      /\ (finished[c] => finished'[c] /\ verdict'[c] = verdict[c])
      /\ (child[c] = "none" => child'[c] = "none")
  <2>1. CASE Writes(c)
    BY <2>1 DEF ProcessIInv, ProcessType, ProcessTypeOK, Reading, Collected, Writes
  <2>2. CASE Forks(c)
    BY <2>2 DEF ProcessIInv, ProcessType, ProcessTypeOK, Reading, Collected, Forks
  <2>3. CASE HeirEnds(c)
    BY <2>3 DEF ProcessIInv, ProcessType, ProcessTypeOK, Reading, Collected, HeirEnds
  <2>4. CASE ChildEnds(c)
    BY <2>4 DEF ProcessIInv, ProcessType, ProcessTypeOK, Reading, Collected, ChildEnds, Dies
  <2>5. CASE Capture(c)
    BY <2>5 DEF ProcessIInv, ProcessType, ProcessTypeOK, Reading, Collected, Capture
  <2>6. CASE EndOfPipe(c)
    BY <2>6 DEF ProcessIInv, ProcessType, ProcessTypeOK, Reading, Collected, EndOfPipe, AtEof
  <2>7. CASE Reap(c)
    BY <2>7 DEF ProcessIInv, ProcessType, ProcessTypeOK, Reading, Collected, Reap
  <2>8. CASE Note(c)
    BY <2>8 DEF ProcessIInv, ProcessType, ProcessTypeOK, Reading, Collected, Note
  <2> QED
    BY <2>1, <2>2, <2>3, <2>4, <2>5, <2>6, <2>7, <2>8 DEF ChildStep, ReaderThread
<1>3. (\A d \in Children : Reading(d))'
  BY <1>1, <1>2 DEF ProcessIInv, Reading
<1>4. \A d \in Children : Collected(d) => Collected(d)'
  BY <1>1, <1>2 DEF Collected
<1>5. OneProcess'
  BY <1>1, <1>4 DEF ProcessIInv, OneProcess, Collected
<1>6. Handled'
  BY <1>1, <1>2, <1>4 DEF ProcessIInv, Handled
<1>7. ExitNoted'
  BY <1>1, <1>2 DEF ProcessIInv, ExitNoted
<1> QED
  BY <1>2, <1>3, <1>5, <1>6, <1>7 DEF ProcessIInv

\* The UI thread starts a process: the last one is collected by then.
LEMMA ForkKeeps ==
  ASSUME ProcessIInv, Fork
  PROVE  ProcessIInv'
<1> USE ChildAssumption DEF ChildAssumption
<1> DEFINE n == handle + 1
<1>1. n \in Children /\ handle' = n /\ handle \in Nat
  BY DEF ProcessIInv, ProcessType, ProcessTypeOK, Handled, Fork, Children
<1>2. /\ UNCHANGED <<heir, written, captured, verdict, finished, last_exit>>
      /\ child'[n] = "alive" /\ reader_at'[n] = "read"
      /\ \A c \in Children : c # n => child'[c] = child[c] /\ reader_at'[c] = reader_at[c]
      /\ child' \in [Children -> {"none", "alive", "zombie", "reaped"}]
      /\ reader_at' \in [Children -> {"none", "read", "reap", "note", "done"}]
      /\ started' = TRUE /\ ui_at' = "idle" /\ ui_at = "fork"
  BY <1>1 DEF ProcessIInv, ProcessType, ProcessTypeOK, Fork
<1>3. \A c \in Children : Collected(c)
  BY <1>2 DEF ProcessIInv, OneProcess, Collected
<1>4. child[n] = "none"
  BY <1>1 DEF ProcessIInv, Handled, Children
<1>5. ProcessType'
  BY <1>1, <1>2 DEF ProcessIInv, ProcessType, ProcessTypeOK, Children
<1>6. OneProcess'
  BY <1>1, <1>2, <1>3 DEF OneProcess, Collected
<1>7. Handled'
  BY <1>1, <1>2 DEF ProcessIInv, Handled, Children
<1>8. (\A c \in Children : Reading(c))'
  BY <1>1, <1>2, <1>4 DEF ProcessIInv, Reading
<1>9. ExitNoted'
  BY <1>2 DEF ProcessIInv, ExitNoted
<1> QED
  BY <1>5, <1>6, <1>7, <1>8, <1>9 DEF ProcessIInv

\* The UI thread sends SIGKILL.
LEMMA KillKeeps ==
  ASSUME ProcessIInv, Kill
  PROVE  ProcessIInv'
<1>1. UNCHANGED <<handle, started, ui_job, last_exit>> /\ handle \in Children /\ ui_at = "term"
      /\ ui_at' \in {"join", "idle"} /\ (ui_at' = "join" => ui_job = "quit") /\ started
  BY DEF ProcessIInv, Handled, Kill, AfterKill
<1>2. CASE child[handle] = "alive"
  <2>1. /\ Dies(handle, "signal")
        /\ \A c \in Children : c # handle => child'[c] = child[c] /\ verdict'[c] = verdict[c]
        /\ child'[handle] = "zombie"
    BY <1>1, <1>2 DEF Kill, Dies, ProcessIInv, ProcessType, ProcessTypeOK
  <2>2. ProcessType'
    BY <1>1, <2>1 DEF ProcessIInv, ProcessType, ProcessTypeOK, Dies
  <2>3. (\A c \in Children : Reading(c))'
    BY <1>1, <1>2, <2>1 DEF ProcessIInv, ProcessType, ProcessTypeOK, Reading, Dies
  <2>4. OneProcess'
    BY <1>1, <2>1 DEF ProcessIInv, OneProcess, Dies
  <2>5. Handled'
    BY <1>1, <1>2, <2>1 DEF ProcessIInv, ProcessType, ProcessTypeOK, Handled, Dies, Children
  <2>6. ExitNoted'
    BY <1>1, <1>2, <2>1 DEF ProcessIInv, ExitNoted, Reading, Dies
  <2> QED
    BY <2>2, <2>3, <2>4, <2>5, <2>6 DEF ProcessIInv
<1>3. CASE child[handle] # "alive"
  BY <1>1, <1>3 DEF Kill, childVars, ProcessIInv, ProcessType, ProcessTypeOK, Handled, OneProcess,
     Reading, ExitNoted, Collected
<1> QED
  BY <1>2, <1>3

\* Its other steps leave the children alone.
LEMMA UiKeeps ==
  ASSUME ProcessIInv,
         StartApp \/ StopApp \/ Quit \/ PollExit \/ ForkFails \/ Terminated \/ Joined
  PROVE  ProcessIInv'
<1> USE DEF childVars
<1>1. UNCHANGED <<childVars, handle>>
  BY DEF StartApp, StopApp, Quit, PollExit, ForkFails, Terminated, Joined, Terminate
<1>2. ProcessType'
  BY <1>1 DEF ProcessIInv, ProcessType, ProcessTypeOK, StartApp, StopApp, Quit, PollExit, ForkFails,
     Terminated, Joined, Terminate, AfterKill
<1>3. (\A c \in Children : Reading(c))'
  BY <1>1 DEF ProcessIInv, Reading
<1>4. ExitNoted'
  BY <1>1 DEF ProcessIInv, ExitNoted, Handled, StartApp, StopApp, Quit, PollExit, ForkFails,
     Terminated, Joined, Terminate
<1>5. Handled'
  <2>1. ForkFails => \A c \in Children : Collected(c)
    BY DEF ForkFails, ProcessIInv, OneProcess, Collected
  <2> QED
    BY <1>1, <2>1 DEF ProcessIInv, ProcessType, ProcessTypeOK, Handled, Collected, Running, StartApp,
       StopApp, Quit, PollExit, ForkFails, Terminated, Joined, Terminate, AfterKill
<1>6. OneProcess'
  <2>1. started /\ reader_at[handle] = "done" => child[handle] = "reaped"
    BY DEF ProcessIInv, Handled, Reading
  <2>2. ui_at' \in {"fork", "gone"} => \A c \in Children : Collected(c)
    BY <1>1, <2>1 DEF ProcessIInv, ProcessType, ProcessTypeOK, Handled, OneProcess, Collected, StartApp,
       StopApp, Quit, PollExit, ForkFails, Terminated, Joined, Terminate, AfterKill
  <2> QED
    BY <1>1, <2>2 DEF ProcessIInv, OneProcess, Collected
<1> QED
  BY <1>2, <1>3, <1>4, <1>5, <1>6 DEF ProcessIInv

\* The invariant of child processes.
THEOREM ProcessInvariant == ProcessSpec => []ProcessIInv
<1>1. ASSUME ChildInit PROVE ProcessIInv
  <2>1. ProcessType
    <3>1. ProcessTypeOK
      BY <1>1, ChildAssumption DEF ChildAssumption, ChildInit, ProcessTypeOK
    <3>2. heir \in [Children -> BOOLEAN] /\ finished \in [Children -> BOOLEAN]
      BY <1>1 DEF ChildInit
    <3>3. /\ written \in [Children -> Nat] /\ captured \in [Children -> Nat]
          /\ verdict \in [Children -> {"none", "ok", "failed", "signal"}]
      BY <1>1 DEF ChildInit
    <3>4. started \in BOOLEAN
      BY <1>1 DEF ChildInit
    <3> QED
      BY <3>1, <3>2, <3>3, <3>4 DEF ProcessType
  <2>2. OneProcess /\ ExitNoted /\ \A c \in Children : Reading(c)
    BY <1>1 DEF ChildInit, OneProcess, ExitNoted, Reading
  <2>3. Handled
    BY <1>1 DEF ChildInit, Handled, Collected
  <2> QED
    BY <2>1, <2>2, <2>3 DEF ProcessIInv
<1>2. ASSUME ProcessIInv, [ProcessNext]_processVars PROVE ProcessIInv'
  <2>1. CASE UNCHANGED processVars
    BY <1>2, <2>1 DEF processVars, childVars, uiVars, ProcessIInv, ProcessType, ProcessTypeOK,
       OneProcess, Handled, ExitNoted, Reading, Collected
  <2> QED
    BY <1>2, <2>1, ChildStepKeeps, ForkKeeps, KillKeeps, UiKeeps DEF ProcessNext, ChildStep, UiThread
<1> QED
  BY <1>1, <1>2, PTL DEF ProcessSpec

\* Whenever a child, its heirs, its reader and the UI thread take their steps: an exit
\* is told with all the output, no two processes of one application run, and the exit
\* code shown is the one of the process it is said to be of.
THEOREM ProcessKept == ProcessSpec => []ProcessInv
<1>1. ProcessIInv => ProcessInv
  BY DEF ProcessIInv, ProcessType, ProcessInv, ToldWithAllOutput, ExitIsTrue, ExitNoted, Reading
<1> QED
  BY <1>1, ProcessInvariant, PTL

-----------------------------------------------------------------------------
(***************************************************************************)
(* Programs run to their end, for any number of calls, any output and any  *)
(* pipe.  Where a call is tells what has become of its program             *)
(* (ProgramPlace), a drain that has seen the end has seen it for good      *)
(* (EndSeen), and the output is always written, in the pipe, or still to   *)
(* come (Flow).                                                            *)
(***************************************************************************)

RunType ==
  /\ RunTypeOK
  /\ fed \in [Runs -> BOOLEAN] /\ drained \in [Runs -> BOOLEAN] /\ timed_out \in [Runs -> BOOLEAN]

ProgramPlace(r) ==
  /\ call_at[r] \in {"pipe", "mark", "fork"} =>
       program[r] = "none" /\ drained[r] = FALSE
  /\ call_at[r] = "wait" => program[r] \in {"alive", "zombie"}
  /\ call_at[r] = "join" => program[r] = "reaped"
  /\ call_at[r] = "done" => program[r] = "none" \/ (program[r] = "reaped" /\ drained[r] = TRUE)
  /\ timed_out[r] = TRUE => r \in TimedRuns

EndSeen(r) == drained[r] = TRUE => piped[r] = 0 /\ program[r] # "alive" /\ orphan[r] # "alive"

Flow(r) == left[r] + piped[r] + text[r] = Output

Complete(r) ==
  program[r] \in {"zombie", "reaped"} /\ timed_out[r] = FALSE /\ orphan[r] # "alive" => left[r] = 0

RunIInv ==
  RunType /\ \A r \in Runs : ProgramPlace(r) /\ EndSeen(r) /\ Flow(r) /\ Complete(r)

RunStep(r) == CallerThread(r) \/ HelperThread(r) \/ Program(r) \/ LeavesOrphan(r)

\* A step of one call touches that call alone.
LEMMA RunApart ==
  ASSUME RunIInv, NEW r \in Runs, RunStep(r)
  PROVE  \A s \in Runs : s # r =>
           /\ call_at'[s] = call_at[s] /\ program'[s] = program[s] /\ left'[s] = left[s]
           /\ piped'[s] = piped[s] /\ text'[s] = text[s] /\ orphan'[s] = orphan[s]
           /\ drained'[s] = drained[s] /\ timed_out'[s] = timed_out[s]
BY DEF RunIInv, RunType, RunTypeOK, RunStep, CallerThread, HelperThread, Program, LeavesOrphan,
   MakePipes, MarkPipes, ForkProgram, NoFork, PollProgram, Deadline, ReturnResult, FeedInput, Drain,
   DrainEnds, ProgramWrites, ProgramEnds, OrphanEnds, GoesTo

\* The calling thread.
LEMMA CallerKeeps ==
  ASSUME RunIInv, NEW r \in Runs, CallerThread(r)
  PROVE  RunType' /\ (ProgramPlace(r) /\ EndSeen(r) /\ Flow(r) /\ Complete(r))'
<1> USE DEF RunIInv, RunType, RunTypeOK, ProgramPlace, EndSeen, Flow, Complete, GoesTo
<1>1. CASE MakePipes(r) \/ MarkPipes(r) \/ NoFork(r)
  BY <1>1 DEF MakePipes, MarkPipes, NoFork
<1>2. CASE ForkProgram(r)
  BY <1>2 DEF ForkProgram
<1>3. CASE PollProgram(r)
  BY <1>3 DEF PollProgram
<1>4. CASE Deadline(r)
  BY <1>4 DEF Deadline
<1>5. CASE ReturnResult(r)
  BY <1>5 DEF ReturnResult, AfterDrain
<1> QED
  BY <1>1, <1>2, <1>3, <1>4, <1>5 DEF CallerThread

\* Its helpers.
LEMMA HelperKeeps ==
  ASSUME RunIInv, NEW r \in Runs, HelperThread(r)
  PROVE  RunType' /\ (ProgramPlace(r) /\ EndSeen(r) /\ Flow(r) /\ Complete(r))'
<1> USE RunAssumption DEF RunAssumption, RunIInv, RunType, RunTypeOK, ProgramPlace, EndSeen, Flow,
        Complete
<1>1. CASE FeedInput(r)
  BY <1>1 DEF FeedInput
<1>2. CASE Drain(r)
  <2>1. piped'[r] = piped[r] - 1 /\ text'[r] = text[r] + 1
    BY <1>2 DEF Drain
  <2>2. piped[r] - 1 \in 0..PipeRoom /\ text[r] + 1 \in 0..Output
    BY <1>2 DEF Drain
  <2>3. piped' \in [Runs -> 0..PipeRoom] /\ text' \in [Runs -> 0..Output]
    BY <1>2, <2>2 DEF Drain
  <2>4. RunType'
    BY <1>2, <2>3 DEF Drain
  <2>5. Flow(r)'
    BY <1>2, <2>1 DEF Drain
  <2> QED
    BY <1>2, <2>1, <2>4, <2>5 DEF Drain
<1>3. CASE DrainEnds(r)
  BY <1>3 DEF DrainEnds
<1> QED
  BY <1>1, <1>2, <1>3 DEF HelperThread

\* The program, and what it leaves behind.
LEMMA ProgramKeeps ==
  ASSUME RunIInv, NEW r \in Runs, Program(r) \/ LeavesOrphan(r)
  PROVE  RunType' /\ (ProgramPlace(r) /\ EndSeen(r) /\ Flow(r) /\ Complete(r))'
<1> USE RunAssumption DEF RunAssumption, RunIInv, RunType, RunTypeOK, ProgramPlace, EndSeen, Flow,
        Complete
<1>1. CASE ProgramWrites(r)
  <2>1. left'[r] = left[r] - 1 /\ piped'[r] = piped[r] + 1
    BY <1>1 DEF ProgramWrites
  <2>2. left[r] - 1 \in 0..Output /\ piped[r] + 1 \in 0..PipeRoom
    BY <1>1 DEF ProgramWrites
  <2>3. left' \in [Runs -> 0..Output] /\ piped' \in [Runs -> 0..PipeRoom]
    BY <1>1, <2>2 DEF ProgramWrites
  <2>4. RunType'
    BY <1>1, <2>3 DEF ProgramWrites
  <2>5. Flow(r)'
    BY <1>1, <2>1 DEF ProgramWrites
  <2> QED
    BY <1>1, <2>1, <2>4, <2>5 DEF ProgramWrites
<1>2. CASE ProgramEnds(r)
  BY <1>2 DEF ProgramEnds
<1>3. CASE LeavesOrphan(r)
  BY <1>3 DEF LeavesOrphan
<1>4. CASE OrphanEnds(r)
  BY <1>4 DEF OrphanEnds
<1> QED
  BY <1>1, <1>2, <1>3, <1>4 DEF Program

\* The invariant of the calls.
THEOREM RunInvariant == RunSpec => []RunIInv
<1>1. ASSUME RunInit PROVE RunIInv
  <2>1. RunTypeOK
    BY <1>1, RunAssumption DEF RunAssumption, RunInit, RunTypeOK
  <2>2. fed \in [Runs -> BOOLEAN] /\ drained \in [Runs -> BOOLEAN] /\ timed_out \in [Runs -> BOOLEAN]
    BY <1>1 DEF RunInit
  <2>3. \A r \in Runs : ProgramPlace(r) /\ EndSeen(r) /\ Flow(r) /\ Complete(r)
    BY <1>1, RunAssumption DEF RunAssumption, RunInit, ProgramPlace, EndSeen, Flow, Complete
  <2> QED
    BY <2>1, <2>2, <2>3 DEF RunIInv, RunType
<1>2. ASSUME RunIInv, [RunNext]_runVars PROVE RunIInv'
  <2>1. CASE UNCHANGED runVars
    BY <1>2, <2>1 DEF runVars, RunIInv, RunType, RunTypeOK, ProgramPlace, EndSeen, Flow, Complete
  <2>2. ASSUME NEW r \in Runs, RunStep(r) PROVE RunIInv'
    <3>1. RunType' /\ (ProgramPlace(r) /\ EndSeen(r) /\ Flow(r) /\ Complete(r))'
      BY <1>2, <2>2, CallerKeeps, HelperKeeps, ProgramKeeps DEF RunStep
    <3>2. ASSUME NEW s \in Runs, s # r
          PROVE  (ProgramPlace(s) /\ EndSeen(s) /\ Flow(s) /\ Complete(s))'
      <4>1. /\ call_at'[s] = call_at[s] /\ program'[s] = program[s] /\ left'[s] = left[s]
            /\ piped'[s] = piped[s] /\ text'[s] = text[s] /\ orphan'[s] = orphan[s]
            /\ drained'[s] = drained[s] /\ timed_out'[s] = timed_out[s]
        BY <1>2, <2>2, <3>2, RunApart
      <4>2. ProgramPlace(s) /\ EndSeen(s) /\ Flow(s) /\ Complete(s)
        BY <1>2 DEF RunIInv
      <4> QED
        BY <4>1, <4>2 DEF ProgramPlace, EndSeen, Flow, Complete
    <3> QED
      BY <3>1, <3>2 DEF RunIInv
  <2> QED
    BY <1>2, <2>1, <2>2 DEF RunNext, RunStep
<1> QED
  BY <1>1, <1>2, PTL DEF RunSpec

\* However calls, programs and what they leave behind are interleaved: a call that
\* returns has reaped its program and has all of the output, and only a call with a
\* deadline is told that it timed out.
THEOREM RunKept == RunSpec => []RunInv
<1>1. RunIInv => RunInv
  BY DEF RunIInv, RunType, RunInv, ProgramPlace, EndSeen, Complete
<1> QED
  BY <1>1, RunInvariant, PTL

-----------------------------------------------------------------------------
(***************************************************************************)
(* The test runner, for any suites, workers, visitors and number of        *)
(* rounds, provided no two requests are within start() at once.            *)
(* A round is the supervisor's, and no start is under way meanwhile        *)
(* (Flags); each worker has a suite of its own in hand, whose outcome says *)
(* how far it is (Place, Apart), and  what was taken has ended or is in    *)
(* hand (Progress).  The stop lets a worker begin what it has in hand      *)
(* (StopCounted).  In the terminal alone the round that main() started is  *)
(* the only one (Terminal).                                                *)
(***************************************************************************)

Workers == 1..MaxJobs

RunnerType ==
  /\ RunnerTypeOK
  /\ starter \in [Starters -> [at : {"off", "join", "reset", "clear", "launch"},
                               chosen : SUBSET Suites, jobs : 1..MaxJobs, keep : BOOLEAN]]
  /\ round_on \in BOOLEAN /\ halt \in BOOLEAN /\ keep_going \in BOOLEAN /\ serving \in BOOLEAN
  /\ next_suite \in Nat \ {0} /\ late \in Nat /\ ran \in [Suites -> Nat]
  /\ summary \in {"none", "good", "bad"}

Place(w) ==
  /\ hand[w].at \in {"off", "take"} <=> hand[w].suite = 0
  /\ hand[w].suite # 0 =>
       outcome[hand[w].suite].selected = TRUE /\ hand[w].suite < next_suite
  /\ hand[w].at \in {"skip", "begin"} => outcome[hand[w].suite].state = "pending"
  /\ hand[w].at = "run" => outcome[hand[w].suite].state = "running"
  /\ hand[w].at = "judge" => outcome[hand[w].suite].state \in {"passed", "failed", "crashed"}
  /\ hand[w].at = "skip" => halt = TRUE
  /\ hand[w].at # "off" => round_on = TRUE

Apart == \A v, w \in Workers : v # w /\ hand[v].suite # 0 => hand[v].suite # hand[w].suite

InHand(s) == \E w \in Workers : hand[w].suite = s /\ hand[w].at # "judge"

Passed(s) == outcome[s].selected = TRUE /\ s < next_suite => outcome[s].state \in Final \/ InHand(s)

Progress ==
  round_on = TRUE =>
    /\ \A s \in Suites : (s >= next_suite => outcome[s].state = "pending") /\ Passed(s)
    /\ next_suite \notin Suites \/ WorkersLeft

Flags ==
  /\ round_on = TRUE <=> supervisor = "working"
  /\ \A c, d \in Starters : starter[c].at # "off" /\ starter[d].at # "off" => c = d
  /\ starter["main"].at # "off" => main_at = "start"
  /\ main_at \in {"destroy", "wait", "gone"} => \A c \in Starters : starter[c].at = "off"
  /\ main_at = "gone" => supervisor = "none"

Begun(c) ==
  /\ starter[c].at # "off" => supervisor # "working" /\ starter[c].chosen # {}
  /\ starter[c].at \in {"reset", "clear", "launch"} => supervisor = "none"
  /\ starter[c].at \in {"clear", "launch"} =>
       late = 0 /\ Selected # {} /\ \A s \in Suites : outcome[s].state = "pending"
  /\ starter[c].at = "launch" => next_suite = 1

Ended ==
  supervisor = "ended" => \A s \in Selected : outcome[s].state \in Final

Once(s) ==
  /\ ran[s] = (IF outcome[s].state \in {"pending", "not run"} THEN 0 ELSE 1)
  /\ outcome[s].selected = FALSE => outcome[s].state = "pending"
  /\ outcome[s].state = "passed" => outcome[s].failing = FALSE

HandsAt == [w \in Workers |-> hand[w].at]
Beginners == Count(Workers, HandsAt, "begin")

StopCounted ==
  /\ late + Beginners <= MaxJobs
  /\ halt = FALSE => late = 0

Terminal ==
  serving = FALSE =>
    /\ \A c \in Visitors : starter[c].at = "off"
    /\ main_at \in {"start", "render", "summary", "destroy", "wait", "gone"}
    /\ main_at = "start" => round_on = FALSE /\ reported = {} /\ summary = "none"
    /\ main_at # "start" => Selected # {}
    /\ main_at = "render" =>
         supervisor \in {"working", "ended"} /\ reported \subseteq Selected /\ summary = "none"
    /\ main_at \in {"summary", "destroy", "wait", "gone"} =>
         /\ round_on = FALSE /\ reported = Selected
         /\ \A s \in Selected : outcome[s].state \in Final
    /\ main_at = "summary" => summary = "none"

SkipReason == \A s \in Suites : outcome[s].state = "not run" => halt = TRUE

\* Of the suites and the workers, and of the threads that start and show a round.
RoundInv ==
  /\ Apart /\ Progress /\ Ended /\ StopCounted /\ SkipReason
  /\ \A w \in Workers : Place(w)
  /\ \A s \in Suites : Once(s)

ThreadsInv == Flags /\ Terminal /\ VerdictIsTrue /\ \A c \in Starters : Begun(c)

RunnerIInv == RunnerType /\ RoundInv /\ ThreadsInv

\* The suites are numbered from 1 on, main() is a starter, and the workers are as many as
\* the jobs.
LEMMA RunnerBounds ==
  /\ MaxJobs \in Nat \ {0} /\ IsFiniteSet(Suites) /\ Cardinality(Suites) \in Nat
  /\ Suites = 1..Cardinality(Suites) /\ Suites \subseteq Nat \ {0}
  /\ "main" \in Starters /\ "main" \notin Visitors /\ IsFiniteSet(Workers) /\ Cardinality(Workers) = MaxJobs
<1>1. Suites = 1..Cardinality(Suites) /\ IsFiniteSet(Suites) /\ MaxJobs \in Nat \ {0}
  BY RunnerAssumption DEF RunnerAssumption
<1>2. Cardinality(Suites) \in Nat
  BY <1>1, FS_CardinalityType
<1>3. Suites \subseteq Nat \ {0}
  BY <1>1, <1>2
<1>4. IsFiniteSet(Workers) /\ Cardinality(Workers) = MaxJobs
  BY <1>1, FS_Interval DEF Workers
<1> QED
  BY <1>1, <1>2, <1>3, <1>4, RunnerAssumption DEF Starters, RunnerAssumption

\* No more workers are at one place than there are.
LEMMA BeginnersBound ==
  ASSUME NEW f, NEW p
  PROVE  Count(Workers, f, p) \in 0..MaxJobs
<1>1. In(Workers, f, p) \subseteq Workers
  BY DEF In
<1>3. IsFiniteSet(In(Workers, f, p))
  BY <1>1, RunnerBounds, FS_Subset
<1>2. Cardinality(In(Workers, f, p)) \in Nat /\ Cardinality(In(Workers, f, p)) <= Cardinality(Workers)
  BY <1>1, <1>3, RunnerBounds, SubsetKept
<1> QED
  BY <1>2, RunnerBounds DEF Count

\* A step that leaves the suites, the workers and the supervisor alone.
LEMMA QuietKeeps ==
  ASSUME RunnerIInv, RunnerType',
         UNCHANGED <<outcome, round_on, next_suite, supervisor, hand, late, ran>>,
         halt' = halt \/ halt' = TRUE
  PROVE  RoundInv'
<1>1. (\A w \in Workers : Place(w))' /\ (\A s \in Suites : Once(s))' /\ SkipReason' /\ Apart'
  BY DEF RunnerIInv, RoundInv, Place, Once, SkipReason, Apart
<1>2. Progress' /\ Ended'
  BY DEF RunnerIInv, RoundInv, Progress, Passed, InHand, WorkersLeft, Ended, Selected
<1>3. StopCounted'
  <2>1. Beginners' = Beginners /\ Beginners \in 0..MaxJobs
    BY BeginnersBound DEF Beginners, HandsAt
  <2>2. halt = FALSE \/ halt = TRUE
    BY DEF RunnerIInv, RunnerType
  <2> QED
    BY <2>1, <2>2 DEF RunnerIInv, RoundInv, StopCounted
<1> QED
  BY <1>1, <1>2, <1>3 DEF RoundInv

\* While a start is under way no worker is.
LEMMA StartAlone ==
  ASSUME RunnerIInv, NEW c \in Starters, starter[c].at # "off"
  PROVE  /\ round_on = FALSE /\ \A w \in Workers : hand[w].at = "off" /\ hand[w].suite = 0
         /\ \A d \in Starters : d # c => starter[d].at = "off"
BY DEF RunnerIInv, RunnerType, RunnerTypeOK, RoundInv, ThreadsInv, Begun, Flags, Place, Workers

\* A request or main() begins to start a round.
LEMMA StartRoundKeeps ==
  ASSUME ~StartsOverlap, RunnerIInv, NEW c \in Starters, NEW chosen \in SUBSET Suites, NEW n \in 1..MaxJobs,
         NEW keep \in BOOLEAN, StartRound(c, chosen, n, keep)
  PROVE  RunnerIInv'
<1>1. RunnerType'
  BY DEF RunnerIInv, RunnerType, RunnerTypeOK, StartRound
<1>2. RoundInv'
  BY <1>1, QuietKeeps DEF StartRound
<1>3. /\ \A d \in Starters : starter[d].at = "off"
      /\ \A d \in Starters : d # c => starter'[d] = starter[d]
      /\ starter'[c].at = "join" /\ starter'[c].chosen = chosen /\ chosen # {}
      /\ round_on # TRUE /\ UNCHANGED <<outcome, round_on, supervisor, late, next_suite, main_at, serving,
                                        reported, summary>>
      /\ MayAsk(c)
  BY DEF RunnerIInv, RunnerType, StartRound
<1>4. Flags'
  <2>1. main_at \in {"destroy", "wait", "gone"} => FALSE
    BY <1>3 DEF MayAsk
  <2>2. starter'["main"].at # "off" => main_at' = "start"
    BY <1>3, RunnerBounds DEF MayAsk
  <2>3. \A d, e \in Starters : starter'[d].at # "off" /\ starter'[e].at # "off" => d = e
    BY <1>3
  <2> QED
    BY <1>3, <2>1, <2>2, <2>3 DEF RunnerIInv, ThreadsInv, Flags
<1>7. serving = FALSE => c = "main" /\ main_at = "start"
  BY <1>3 DEF MayAsk
<1>8. Terminal'
  BY <1>3, <1>7, RunnerBounds DEF RunnerIInv, ThreadsInv, Terminal, Starters, Selected
<1>5. (\A d \in Starters : Begun(d))'
  BY <1>3 DEF RunnerIInv, ThreadsInv, Flags, Begun, RunnerType, RunnerTypeOK
<1>6. VerdictIsTrue'
  BY <1>3 DEF RunnerIInv, ThreadsInv, VerdictIsTrue, Selected
<1> QED
  BY <1>1, <1>2, <1>4, <1>5, <1>6, <1>8 DEF RunnerIInv, ThreadsInv

\* The steps of a start.
LEMMA JoinKeeps ==
  ASSUME RunnerIInv, NEW c \in Starters, JoinPrevious(c)
  PROVE  RunnerIInv'
<1>1. RunnerType'
  BY DEF RunnerIInv, RunnerType, RunnerTypeOK, JoinPrevious, StartAt
<1>2. /\ \A d \in Starters : d # c => starter'[d] = starter[d]
      /\ starter'[c].at = "reset" /\ starter'[c].chosen = starter[c].chosen /\ starter[c].at = "join"
      /\ supervisor' = "none" /\ supervisor # "working"
      /\ UNCHANGED <<outcome, round_on, halt, next_suite, hand, main_at, serving, reported, summary, late, ran>>
  BY DEF RunnerIInv, RunnerType, JoinPrevious, StartAt
<1>3. round_on = FALSE /\ \A d \in Starters : d # c => starter[d].at = "off"
  BY <1>2, StartAlone
<1>4. RoundInv'
  <2>1. Beginners' = Beginners
    BY <1>2 DEF Beginners, HandsAt
  <2>2. StopCounted' /\ SkipReason' /\ Apart'
    BY <1>2, <2>1 DEF RunnerIInv, RoundInv, StopCounted, SkipReason, Apart
  <2>3. (\A w \in Workers : Place(w))' /\ (\A s \in Suites : Once(s))'
    BY <1>2 DEF RunnerIInv, RoundInv, Place, Once
  <2>4. Progress' /\ Ended'
    BY <1>2, <1>3 DEF Progress, Ended
  <2> QED
    BY <2>2, <2>3, <2>4 DEF RoundInv
<1>5. Flags' /\ VerdictIsTrue'
  <2>1. starter'["main"].at # "off" => starter["main"].at # "off"
    BY <1>2, RunnerBounds
  <2>2. \A d \in Starters : starter'[d].at # "off" => d = c
    BY <1>2, <1>3
  <2>3. Flags'
    BY <1>2, <1>3, <2>1, <2>2 DEF RunnerIInv, ThreadsInv, Flags
  <2> QED
    BY <1>2, <2>3 DEF RunnerIInv, ThreadsInv, VerdictIsTrue, Selected
<1>6. (\A d \in Starters : Begun(d))'
  BY <1>2, <1>3 DEF RunnerIInv, ThreadsInv, Begun
<1>7. Terminal'
  BY <1>2, <1>3 DEF RunnerIInv, ThreadsInv, Terminal, Flags, Starters, Selected
<1> QED
  BY <1>1, <1>4, <1>5, <1>6, <1>7 DEF RunnerIInv, ThreadsInv

\* start() clears the results: nobody works on a suite by then.
LEMMA ResetKeeps ==
  ASSUME RunnerIInv, NEW c \in Starters, ResetResults(c)
  PROVE  RunnerIInv'
<1>1. RunnerType'
  <2>1. outcome' \in [Suites -> [selected : BOOLEAN, state : States, failing : BOOLEAN]]
    <3> DEFINE new(b) == [Fresh EXCEPT !.selected = b]
    <3>1. \A b \in BOOLEAN : new(b) \in [selected : BOOLEAN, state : States, failing : BOOLEAN]
      BY DEF Fresh, States
    <3>2. \A s \in Suites : (s \in starter[c].chosen) \in BOOLEAN
      OBVIOUS
    <3>3. outcome' = [s \in Suites |-> new(s \in starter[c].chosen)]
      BY DEF ResetResults
    <3> HIDE DEF new
    <3> QED
      BY <3>1, <3>2, <3>3
  <2>2. /\ ran' \in [Suites -> Nat] /\ late' \in Nat /\ keep_going' \in BOOLEAN
        /\ starter' \in [Starters -> [at : {"off", "join", "reset", "clear", "launch"},
                               chosen : SUBSET Suites, jobs : 1..MaxJobs, keep : BOOLEAN]]
    BY DEF RunnerIInv, RunnerType, ResetResults, StartAt
  <2> QED
    BY <2>1, <2>2 DEF RunnerIInv, RunnerType, RunnerTypeOK, ResetResults
<1>2. /\ \A d \in Starters : d # c => starter'[d] = starter[d]
      /\ starter'[c].at = "clear" /\ starter'[c].chosen = starter[c].chosen /\ starter[c].at = "reset"
      /\ starter[c].chosen \subseteq Suites
      /\ late' = 0 /\ \A s \in Suites : ran'[s] = 0
      /\ UNCHANGED <<supervisor, round_on, halt, next_suite, hand, main_at, serving, reported, summary>>
  BY DEF RunnerIInv, RunnerType, ResetResults, StartAt
<1>3. \A s \in Suites : /\ outcome'[s].state = "pending" /\ outcome'[s].failing = FALSE
                        /\ outcome'[s].selected = (s \in starter[c].chosen)
  BY DEF ResetResults, Fresh
<1>4. /\ round_on = FALSE /\ \A d \in Starters : d # c => starter[d].at = "off"
      /\ \A w \in Workers : hand[w].at = "off" /\ hand[w].suite = 0
  BY <1>2, StartAlone
<1>5. supervisor = "none" /\ starter[c].chosen # {}
  BY <1>2 DEF RunnerIInv, ThreadsInv, Begun
<1>6. Selected' # {}
  BY <1>2, <1>3, <1>5 DEF Selected
<1>7. RoundInv'
  <2>1. StopCounted'
    BY <1>2, BeginnersBound, RunnerBounds DEF StopCounted, Beginners
  <2>2. (\A s \in Suites : Once(s))' /\ SkipReason'
    BY <1>2, <1>3 DEF Once, SkipReason
  <2>3. (\A w \in Workers : Place(w))' /\ Apart'
    BY <1>2, <1>4 DEF Place, Apart
  <2>4. Progress' /\ Ended'
    BY <1>2, <1>4, <1>5 DEF Progress, Ended
  <2> QED
    BY <2>1, <2>2, <2>3, <2>4 DEF RoundInv
<1>8. Flags' /\ (\A d \in Starters : Begun(d))'
  <2>1. starter'["main"].at # "off" => starter["main"].at # "off"
    BY <1>2, RunnerBounds
  <2>2. \A d \in Starters : starter'[d].at # "off" => d = c
    BY <1>2, <1>4
  <2>3. Flags'
    BY <1>2, <1>4, <2>1, <2>2 DEF RunnerIInv, ThreadsInv, Flags
  <2>4. (\A d \in Starters : Begun(d))'
    BY <1>2, <1>3, <1>5, <1>6, <2>2 DEF Begun
  <2> QED
    BY <2>3, <2>4
<1>9. serving = FALSE => c = "main" /\ main_at = "start" /\ summary = "none" /\ reported = {}
  BY <1>2 DEF RunnerIInv, ThreadsInv, Terminal, Starters, Flags
<1>10. Terminal'
  BY <1>2, <1>4, <1>9, RunnerBounds DEF RunnerIInv, RunnerType, ThreadsInv, Terminal, Starters
<1>11. VerdictIsTrue'
  BY <1>2, <1>9 DEF VerdictIsTrue
<1> QED
  BY <1>1, <1>7, <1>8, <1>10, <1>11 DEF RunnerIInv, ThreadsInv

\* start() clears the flags of the round before.
LEMMA ClearKeeps ==
  ASSUME RunnerIInv, NEW c \in Starters, ClearFlags(c)
  PROVE  RunnerIInv'
<1>1. RunnerType'
  <2>1. starter' \in [Starters -> [at : {"off", "join", "reset", "clear", "launch"},
                               chosen : SUBSET Suites, jobs : 1..MaxJobs, keep : BOOLEAN]]
    BY DEF RunnerIInv, RunnerType, ClearFlags, StartAt
  <2>2. RunnerTypeOK'
    BY <2>1 DEF RunnerIInv, RunnerType, RunnerTypeOK, ClearFlags
  <2>3. halt' \in BOOLEAN
    BY DEF ClearFlags
  <2>4. next_suite' \in Nat \ {0}
    BY DEF ClearFlags
  <2> QED
    BY <2>1, <2>2, <2>3, <2>4 DEF RunnerIInv, RunnerType, ClearFlags
<1>2. /\ \A d \in Starters : d # c => starter'[d] = starter[d]
      /\ starter'[c].at = "launch" /\ starter'[c].chosen = starter[c].chosen /\ starter[c].at = "clear"
      /\ next_suite' = 1
      /\ UNCHANGED <<outcome, supervisor, round_on, hand, late, ran, main_at, serving, reported, summary>>
  BY DEF RunnerIInv, RunnerType, ClearFlags, StartAt
<1>3. /\ round_on = FALSE /\ \A d \in Starters : d # c => starter[d].at = "off"
      /\ \A w \in Workers : hand[w].at = "off" /\ hand[w].suite = 0
  BY <1>2, StartAlone
<1>4. late = 0 /\ (\A s \in Suites : outcome[s].state = "pending") /\ supervisor = "none"
  BY <1>2 DEF RunnerIInv, ThreadsInv, Begun
<1>5. RoundInv'
  <2>1. StopCounted'
    BY <1>2, <1>4, BeginnersBound, RunnerBounds DEF StopCounted, Beginners
  <2>2. (\A s \in Suites : Once(s))' /\ SkipReason'
    BY <1>2, <1>4 DEF RunnerIInv, RoundInv, Once, SkipReason
  <2>3. (\A w \in Workers : Place(w))' /\ Apart'
    BY <1>2, <1>3 DEF Place, Apart
  <2>4. Progress' /\ Ended'
    BY <1>2, <1>3, <1>4 DEF Progress, Ended
  <2> QED
    BY <2>1, <2>2, <2>3, <2>4 DEF RoundInv
<1>6. Flags' /\ (\A d \in Starters : Begun(d))'
  <2>1. starter'["main"].at # "off" => starter["main"].at # "off"
    BY <1>2, RunnerBounds
  <2>2. \A d \in Starters : starter'[d].at # "off" => d = c
    BY <1>2, <1>3
  <2>3. Flags'
    BY <1>2, <1>3, <2>1, <2>2 DEF RunnerIInv, ThreadsInv, Flags
  <2>4. (\A d \in Starters : Begun(d))'
    BY <1>2, <1>4, <2>2 DEF RunnerIInv, ThreadsInv, Begun, Selected
  <2> QED
    BY <2>3, <2>4
<1>7. Terminal' /\ VerdictIsTrue'
  BY <1>2, <1>3 DEF RunnerIInv, ThreadsInv, Terminal, VerdictIsTrue, Flags, Starters, Selected
<1> QED
  BY <1>1, <1>5, <1>6, <1>7 DEF RunnerIInv, ThreadsInv

\* The supervisor and the workers begin: there is a suite, and a worker at least.
LEMMA LaunchKeeps ==
  ASSUME RunnerIInv, NEW c \in Starters, Launch(c)
  PROVE  RunnerIInv'
<1>1. /\ starter[c].at = "launch" /\ round_on' = TRUE /\ supervisor' = "working"
      /\ UNCHANGED <<outcome, halt, next_suite, keep_going, serving, reported, summary, late, ran>>
      /\ starter' = [starter EXCEPT ![c] = Away]
      /\ main_at' = IF c = "main" THEN "render" ELSE main_at
  BY DEF Launch
<1>2. /\ starter[c].chosen \subseteq Suites /\ starter[c].jobs \in 1..MaxJobs
      /\ starter' \in [Starters -> [at : {"off", "join", "reset", "clear", "launch"},
                               chosen : SUBSET Suites, jobs : 1..MaxJobs, keep : BOOLEAN]]
      /\ starter'[c].at = "off" /\ \A d \in Starters : d # c => starter'[d] = starter[d]
  BY <1>1, RunnerBounds DEF RunnerIInv, RunnerType, Away
<1>3. \A w \in Workers : hand'[w] = Ready \/ hand'[w] = Idle
  BY DEF Launch, Workers
<1>4. hand' \in [1..MaxJobs -> [at : {"off", "take", "skip", "begin", "run", "judge"},
                              suite : Suites \cup {0}]]
  BY DEF Launch, Ready, Idle
<1>5. RunnerType'
  BY <1>1, <1>2, <1>4 DEF RunnerIInv, RunnerType, RunnerTypeOK
<1>6. \A w \in Workers : hand'[w].at \in {"off", "take"} /\ hand'[w].suite = 0
  BY <1>3 DEF Ready, Idle
<1>7. /\ late = 0 /\ (\A s \in Suites : outcome[s].state = "pending") /\ Selected # {} /\ next_suite = 1
      /\ starter[c].chosen # {}
  BY <1>1 DEF RunnerIInv, ThreadsInv, Begun
<1>8. round_on = FALSE /\ \A d \in Starters : d # c => starter[d].at = "off"
  BY <1>1, StartAlone
<1>9. WorkersLeft'
  <2>1. IsFiniteSet(starter[c].chosen)
    BY <1>2, RunnerBounds, FS_Subset
  <2>2. Cardinality(starter[c].chosen) \in Nat /\ Cardinality(starter[c].chosen) # 0
    BY <1>7, <2>1, FS_CardinalityType, FS_EmptySet
  <2>3. hand'[1] = Ready /\ 1 \in 1..MaxJobs
    BY <1>2, <2>2, RunnerBounds DEF Launch
  <2> QED
    BY <2>3 DEF WorkersLeft, Ready
<1>10. RoundInv'
  <2>1. StopCounted'
    BY <1>1, <1>7, BeginnersBound, RunnerBounds DEF StopCounted, Beginners
  <2>2. (\A s \in Suites : Once(s))' /\ SkipReason'
    BY <1>1 DEF RunnerIInv, RoundInv, Once, SkipReason
  <2>3. (\A w \in Workers : Place(w))' /\ Apart'
    BY <1>1, <1>6 DEF Place, Apart
  <2>4. Progress'
    BY <1>1, <1>7, <1>9, RunnerBounds DEF Progress, Passed
  <2> QED
    BY <1>1, <2>1, <2>2, <2>3, <2>4 DEF RoundInv, Ended
<1>11. Flags' /\ (\A d \in Starters : Begun(d))'
  BY <1>1, <1>2, <1>8 DEF RunnerIInv, ThreadsInv, Flags, Begun
<1>12. serving = FALSE => c = "main" /\ main_at = "start" /\ summary = "none" /\ reported = {}
  BY <1>1 DEF RunnerIInv, ThreadsInv, Terminal, Starters, Flags
<1>13. Terminal' /\ VerdictIsTrue'
  BY <1>1, <1>2, <1>7, <1>8, <1>12 DEF RunnerIInv, RunnerType, ThreadsInv, Terminal, VerdictIsTrue, Starters, Selected
<1> QED
  BY <1>5, <1>10, <1>11, <1>13 DEF RunnerIInv, ThreadsInv

\* While a worker is at work nobody starts a round, and main() waits for it or is told
\* to go.
LEMMA WorkerFrame ==
  ASSUME RunnerIInv, NEW w \in Workers, hand[w].at # "off",
         UNCHANGED <<round_on, supervisor, starter, main_at, serving, reported, summary>>,
         \A s \in Suites : outcome'[s].selected = outcome[s].selected
  PROVE  ThreadsInv' /\ Ended' /\ round_on = TRUE
<1>1. round_on = TRUE /\ supervisor = "working"
  BY DEF RunnerIInv, RoundInv, ThreadsInv, Place, Flags
<1>2. \A c \in Starters : starter[c].at = "off"
  BY <1>1 DEF RunnerIInv, ThreadsInv, Begun
<1>3. Flags'
  BY DEF RunnerIInv, ThreadsInv, Flags
<1>4. (\A c \in Starters : Begun(c))'
  BY <1>2 DEF Begun
<1>5. Selected' = Selected
  BY DEF Selected
<1>6. serving = FALSE => main_at = "render" /\ summary = "none"
  BY <1>1 DEF RunnerIInv, ThreadsInv, Terminal
<1>7. Terminal'
  BY <1>1, <1>5, <1>6 DEF RunnerIInv, ThreadsInv, Terminal
<1>8. VerdictIsTrue'
  BY <1>6 DEF RunnerIInv, RunnerType, VerdictIsTrue
<1> QED
  BY <1>1, <1>3, <1>4, <1>7, <1>8 DEF ThreadsInv, Ended

\* The suite that a worker has in hand goes on, or leaves its hand.
LEMMA SuiteMoved ==
  ASSUME RunnerIInv, NEW w \in Workers, NEW x \in Suites, x = hand[w].suite, x # 0, hand[w].at # "off",
         UNCHANGED <<next_suite, round_on>>,
         \A v \in Workers : v # w => hand'[v] = hand[v],
         hand'[w].suite \in {0, x}, hand'[w].at # "off",
         \A s \in Suites : s # x => outcome'[s] = outcome[s] /\ ran'[s] = ran[s],
         halt = TRUE => halt' = TRUE,
         Place(w)', Once(x)', outcome'[x].selected = TRUE,
         outcome'[x].state = "not run" => halt' = TRUE,
         \/ outcome'[x].state \in Final
         \/ hand'[w].suite = x /\ hand'[w].at # "judge"
  PROVE  /\ Apart' /\ Progress' /\ SkipReason' /\ (\A v \in Workers : Place(v))'
         /\ (\A s \in Suites : Once(s))'
<1>1. x \in Suites /\ x < next_suite /\ Suites \subseteq Nat /\ next_suite \in Nat
  BY RunnerBounds DEF RunnerIInv, RunnerType, RunnerTypeOK, RoundInv, Place, Workers
<1>2. Apart /\ \A v \in Workers : v # w => hand[v].suite # x
  BY DEF RunnerIInv, RoundInv, Apart
<1>3. Apart'
  <2> SUFFICES ASSUME NEW u \in Workers, NEW v \in Workers, u # v, hand'[u].suite # 0
               PROVE  hand'[u].suite # hand'[v].suite
    BY DEF Apart
  <2>1. CASE u # w /\ v # w
    <3>1. hand'[u] = hand[u] /\ hand'[v] = hand[v]
      BY <2>1
    <3>2. hand[u].suite # 0
      BY <3>1
    <3>3. hand[u].suite # hand[v].suite
      BY <1>2, <3>2 DEF Apart
    <3> QED
      BY <3>1, <3>3
  <2>2. ASSUME NEW t \in Workers, t # w PROVE hand'[t].suite # x
    <3>1. hand'[t] = hand[t]
      BY <2>2
    <3>2. hand[t].suite # x
      BY <1>2, <2>2
    <3> QED
      BY <3>1, <3>2
  <2>3. hand'[w].suite = 0 \/ hand'[w].suite = x
    OBVIOUS
  <2>4. CASE u = w
    BY <2>2, <2>3, <2>4
  <2>5. CASE v = w
    BY <2>2, <2>3, <2>5
  <2> QED
    BY <2>1, <2>4, <2>5
<1>4. (\A s \in Suites : Once(s))' /\ SkipReason'
  <2>1. ASSUME NEW s \in Suites, s # x PROVE Once(s)'
    BY <2>1 DEF RunnerIInv, RoundInv, Once
  <2>2. ASSUME NEW s \in Suites PROVE outcome'[s].state = "not run" => halt' = TRUE
    <3>1. CASE s = x
      BY <3>1
    <3>2. CASE s # x
      BY <3>2 DEF RunnerIInv, RoundInv, SkipReason
    <3> QED
      BY <3>1, <3>2
  <2> QED
    BY <2>1, <2>2 DEF SkipReason
<1>5. ASSUME NEW v \in Workers, v # w PROVE Place(v)'
  <2>1. Place(v) /\ hand'[v] = hand[v] /\ hand[v].suite # x /\ hand[v].suite \in Suites \cup {0}
    BY <1>2, <1>5 DEF RunnerIInv, RunnerType, RunnerTypeOK, RoundInv, Workers
  <2>2. hand[v].suite # 0 => outcome'[hand[v].suite] = outcome[hand[v].suite]
    BY <2>1
  <2>3. hand[v].at \notin {"off", "take"} => hand[v].suite # 0
    BY <2>1 DEF Place
  <2> QED
    BY <2>1, <2>2, <2>3 DEF Place
<1>6. Progress'
  <2>1. round_on = TRUE
    BY DEF RunnerIInv, RoundInv, Place
  <2>2. WorkersLeft'
    BY DEF WorkersLeft, Workers
  <2>3. ASSUME NEW s \in Suites PROVE (s >= next_suite' => outcome'[s].state = "pending") /\ Passed(s)'
    <3>1. CASE s = x
      <4>3. next_suite' = next_suite
        OBVIOUS
      <4>1. x \in Int /\ next_suite' \in Int /\ x < next_suite'
        BY ONLY <1>1, <4>3
      <4>4. ~(s >= next_suite')
        BY ONLY <4>1, <3>1
      <4>2. outcome'[x].state \in Final \/ InHand(x)'
        BY DEF InHand
      <4> QED
        BY <3>1, <4>4, <4>2 DEF Passed
    <3>2. CASE s # x
      <4>1. (s >= next_suite => outcome[s].state = "pending") /\ Passed(s)
        BY <2>1 DEF RunnerIInv, RoundInv, Progress
      <4>2. InHand(s) => InHand(s)'
        BY <3>2 DEF InHand
      <4> QED
        BY <3>2, <4>1, <4>2 DEF Passed
    <3> QED
      BY <3>1, <3>2
  <2> QED
    BY <2>2, <2>3 DEF Progress
<1> QED
  BY <1>3, <1>4, <1>5, <1>6

\* Where one worker is counts for one.
LEMMA BeginnersMove ==
  ASSUME RunnerIInv, NEW w \in Workers, \A v \in Workers : v # w => hand'[v] = hand[v]
  PROVE  /\ Beginners \in 0..MaxJobs /\ Beginners' \in 0..MaxJobs
         /\ hand[w].at = "begin" /\ hand'[w].at # "begin" => Beginners' = Beginners - 1
         /\ hand[w].at # "begin" /\ hand'[w].at # "begin" => Beginners' = Beginners
         /\ hand[w].at # "begin" /\ hand'[w].at = "begin" => Beginners' = Beginners + 1
<1> DEFINE f == [v \in Workers |-> hand[v].at]
           g == [v \in Workers |-> hand'[v].at]
<1>1. /\ \A v \in Workers : v # w => g[v] = f[v]
      /\ f[w] = hand[w].at /\ g[w] = hand'[w].at
  OBVIOUS
<1>2. Beginners = Count(Workers, f, "begin") /\ Beginners' = Count(Workers, g, "begin")
  BY DEF Beginners, HandsAt
<1> HIDE DEF f, g
<1>3. Beginners \in 0..MaxJobs /\ Beginners' \in 0..MaxJobs
  BY <1>2, BeginnersBound
<1>4. IsFiniteSet(Workers)
  BY RunnerBounds
<1>5. Count(Workers, g, "begin") = Count(Workers, f, "begin") + (IF g[w] = "begin" THEN 1 ELSE 0)
                                                          - (IF f[w] = "begin" THEN 1 ELSE 0)
  BY <1>1, <1>4, CountMove
<1> QED
  BY <1>1, <1>2, <1>3, <1>5

\* A worker takes the next suite.
LEMMA TakeKeeps ==
  ASSUME RunnerIInv, NEW w \in Workers, TakeSuite(w)
  PROVE  RunnerIInv'
<1> USE DEF Workers
<1>1. /\ hand[w].at = "take" /\ hand[w].suite = 0 /\ next_suite' = next_suite + 1
      /\ UNCHANGED <<outcome, round_on, halt, keep_going, supervisor, starter, main_at, serving,
                     reported, summary, late, ran>>
      /\ \A v \in Workers : v # w => hand'[v] = hand[v]
  BY DEF RunnerIInv, RunnerType, RunnerTypeOK, RoundInv, Place, TakeSuite, Taken
<1>2. \/ next_suite \notin Suites /\ hand'[w].at = "off" /\ hand'[w].suite = 0
      \/ next_suite \in Suites /\ outcome[next_suite].selected = FALSE
         /\ hand'[w].at = "take" /\ hand'[w].suite = 0
      \/ /\ next_suite \in Suites /\ outcome[next_suite].selected = TRUE
         /\ hand'[w].suite = next_suite
         /\ hand'[w].at \in {"skip", "begin"} /\ (hand'[w].at = "skip" <=> halt = TRUE)
  BY DEF RunnerIInv, RunnerType, RunnerTypeOK, TakeSuite, Idle, Ready
<1>3. RunnerType'
  <2>1. hand' \in [1..MaxJobs -> [at : {"off", "take", "skip", "begin", "run", "judge"},
                              suite : Suites \cup {0}]]
    BY DEF RunnerIInv, RunnerType, RunnerTypeOK, TakeSuite, Idle, Ready
  <2>2. next_suite' \in Nat \ {0}
    BY <1>1 DEF RunnerIInv, RunnerType
  <2> QED
    BY <1>1, <2>1, <2>2 DEF RunnerIInv, RunnerType, RunnerTypeOK
<1>4. ThreadsInv' /\ Ended' /\ round_on = TRUE
  BY <1>1, WorkerFrame
<1>5. /\ Suites \subseteq Nat /\ next_suite \in Nat \ {0} /\ Suites = 1..Cardinality(Suites)
      /\ Cardinality(Suites) \in Nat
  BY RunnerBounds DEF RunnerIInv, RunnerType
<1>6. \A s \in Suites : (s >= next_suite => outcome[s].state = "pending") /\ Passed(s)
  BY <1>4 DEF RunnerIInv, RoundInv, Progress
<1>7. \A v \in Workers : hand[v].suite # 0 => hand[v].suite < next_suite
  BY DEF RunnerIInv, RoundInv, Place
<1>8. Apart'
  BY <1>1, <1>2, <1>5, <1>7 DEF RunnerIInv, RoundInv, Apart
<1>9. ASSUME NEW v \in Workers PROVE Place(v)'
  <2>1. CASE v = w
    BY <1>1, <1>2, <1>4, <1>5, <1>6, <2>1 DEF Place
  <2>2. CASE v # w
    <3>1. Place(v) /\ hand'[v] = hand[v]
      BY <1>1, <2>2 DEF RunnerIInv, RoundInv
    <3>2. hand[v].suite # 0 => hand[v].suite < next_suite'
      <4>1. hand[v].suite \in Suites \cup {0}
        BY DEF RunnerIInv, RunnerType, RunnerTypeOK, Workers
      <4>2. hand[v].suite \in Nat
        BY <1>5, <4>1
      <4> QED
        BY <1>1, <1>5, <1>7, <4>2
    <3>3. outcome' = outcome /\ (halt = TRUE => halt' = TRUE) /\ round_on' = round_on
      BY <1>1
    <3> QED
      BY <3>1, <3>2, <3>3 DEF Place
  <2> QED
    BY <2>1, <2>2
<1>10. (\A s \in Suites : Once(s))' /\ SkipReason'
  BY <1>1 DEF RunnerIInv, RoundInv, Once, SkipReason
<1>11. Progress'
  <2>1. ASSUME NEW s \in Suites PROVE (s >= next_suite' => outcome'[s].state = "pending") /\ Passed(s)'
    <3>1. s >= next_suite' => outcome'[s].state = "pending"
      BY <1>1, <1>5, <1>6
    <3>2. CASE s = next_suite
      <4>1. outcome[s].selected = TRUE => hand'[w].suite = s /\ hand'[w].at # "judge"
        BY <1>2, <3>2
      <4>2. outcome'[s].selected = TRUE => InHand(s)'
        BY <1>1, <4>1 DEF InHand
      <4> QED
        BY <3>1, <4>2 DEF Passed
    <3>3. CASE s # next_suite
      <4>1. InHand(s) => InHand(s)'
        BY <1>1, <1>5 DEF InHand
      <4>2. s < next_suite' => s < next_suite
        BY <1>1, <1>5, <3>3
      <4> QED
        BY <1>1, <1>6, <3>1, <4>1, <4>2 DEF Passed
    <3> QED
      BY <3>1, <3>2, <3>3
  <2>2. next_suite' \notin Suites \/ WorkersLeft'
    <3>1. CASE next_suite \notin Suites
      BY <1>1, <1>5, <3>1
    <3>2. CASE next_suite \in Suites
      BY <1>2, <3>2 DEF WorkersLeft
    <3> QED
      BY <3>1, <3>2
  <2> QED
    BY <2>1, <2>2 DEF Progress
<1>12. StopCounted'
  <2>1. /\ Beginners \in 0..MaxJobs /\ Beginners' \in 0..MaxJobs
        /\ hand'[w].at # "begin" => Beginners' = Beginners
    BY <1>1, BeginnersMove
  <2>2. late \in Nat /\ MaxJobs \in Nat
    BY RunnerBounds DEF RunnerIInv, RunnerType
  <2>3. late + Beginners <= MaxJobs /\ (halt = FALSE => late = 0)
    BY DEF RunnerIInv, RoundInv, StopCounted
  <2>4. hand'[w].at = "begin" => halt = FALSE
    BY <1>2 DEF RunnerIInv, RunnerType
  <2>5. late + Beginners' <= MaxJobs
    <3>1. CASE hand'[w].at = "begin"
      <4>1. late = 0
        BY <2>3, <2>4, <3>1
      <4> QED
        BY ONLY <2>1, <2>2, <4>1
    <3>2. CASE hand'[w].at # "begin"
      BY <2>1, <2>3, <3>2
    <3> QED
      BY <3>1, <3>2
  <2> QED
    BY <1>1, <2>3, <2>5 DEF StopCounted
<1> QED
  BY <1>3, <1>4, <1>8, <1>9, <1>10, <1>11, <1>12 DEF RunnerIInv, RoundInv

\* An outcome stays one.
LEMMA OutcomeType ==
  ASSUME NEW f \in [Suites -> [selected : BOOLEAN, state : States, failing : BOOLEAN]],
         NEW x \in Suites, NEW s \in States, NEW b \in BOOLEAN
  PROVE  /\ [f EXCEPT ![x].state = s] \in [Suites -> [selected : BOOLEAN, state : States, failing : BOOLEAN]]
         /\ [f EXCEPT ![x].state = s, ![x].failing = b]
              \in [Suites -> [selected : BOOLEAN, state : States, failing : BOOLEAN]]
OBVIOUS

\* And what a worker has in hand stays one.
LEMMA HandType ==
  ASSUME RunnerIInv, NEW w \in Workers
  PROVE  /\ [hand EXCEPT ![w] = Ready]
              \in [1..MaxJobs -> [at : {"off", "take", "skip", "begin", "run", "judge"},
                                 suite : Suites \cup {0}]]
         /\ \A a \in {"off", "take", "skip", "begin", "run", "judge"} :
              [hand EXCEPT ![w].at = a]
                \in [1..MaxJobs -> [at : {"off", "take", "skip", "begin", "run", "judge"},
                                   suite : Suites \cup {0}]]
<1>1. /\ w \in 1..MaxJobs
      /\ hand \in [1..MaxJobs -> [at : {"off", "take", "skip", "begin", "run", "judge"},
                                  suite : Suites \cup {0}]]
  BY DEF Workers, RunnerIInv, RunnerType, RunnerTypeOK
<1>2. /\ hand[w] \in [at : {"off", "take", "skip", "begin", "run", "judge"}, suite : Suites \cup {0}]
      /\ Ready \in [at : {"off", "take", "skip", "begin", "run", "judge"}, suite : Suites \cup {0}]
  BY <1>1 DEF Ready
<1> QED
  BY <1>1, <1>2

\* What the steps of a suite in hand have in common.
LEMMA InHandFacts ==
  ASSUME RunnerIInv, NEW w \in Workers, hand[w].at \in {"skip", "begin", "run", "judge"}
  PROVE  /\ hand[w].suite \in Suites /\ hand[w].suite # 0
         /\ Place(w) /\ Once(hand[w].suite) /\ round_on = TRUE
         /\ outcome[hand[w].suite].selected = TRUE /\ hand[w].suite < next_suite
<1>1. Place(w) /\ hand[w].suite \in Suites \cup {0}
  BY DEF RunnerIInv, RunnerType, RunnerTypeOK, RoundInv, Workers
<1>2. hand[w].suite # 0
  BY <1>1 DEF Place
<1> QED
  BY <1>1, <1>2 DEF RunnerIInv, RoundInv, Place

\* It is passed over.
LEMMA SkipKeeps ==
  ASSUME RunnerIInv, NEW w \in Workers, SkipSuite(w)
  PROVE  RunnerIInv'
<1>1. hand[w].at = "skip"
  BY DEF SkipSuite
<1>2. PICK x \in Suites : /\ x = hand[w].suite /\ x # 0 /\ Place(w) /\ Once(x) /\ round_on = TRUE
                          /\ outcome[x].selected = TRUE
  BY <1>1, InHandFacts
<1>3. /\ hand' = [hand EXCEPT ![w] = Ready]
      /\ outcome' = [outcome EXCEPT ![x].state = "not run"]
      /\ UNCHANGED <<round_on, halt, next_suite, keep_going, supervisor, starter, main_at, serving,
                     reported, summary, late, ran>>
  BY <1>2 DEF SkipSuite
<1>4. RunnerType'
  <2>1. hand' \in [1..MaxJobs -> [at : {"off", "take", "skip", "begin", "run", "judge"},
                              suite : Suites \cup {0}]]
    BY <1>3, HandType
  <2>2. outcome' \in [Suites -> [selected : BOOLEAN, state : States, failing : BOOLEAN]]
    <3>1. outcome \in [Suites -> [selected : BOOLEAN, state : States, failing : BOOLEAN]]
      BY DEF RunnerIInv, RunnerType, RunnerTypeOK
    <3>2. "not run" \in States /\ "running" \in States
      BY DEF States
    <3> QED
      BY <1>2, <1>3, <3>1, <3>2, OutcomeType
  <2> QED
    BY <1>3, <2>1, <2>2 DEF RunnerIInv, RunnerType, RunnerTypeOK
<1>5. /\ \A v \in Workers : v # w => hand'[v] = hand[v]
      /\ hand'[w].at = "take" /\ hand'[w].suite = 0
      /\ \A s \in Suites : s # x => outcome'[s] = outcome[s]
      /\ outcome'[x].state = "not run" /\ outcome'[x].selected = outcome[x].selected
      /\ outcome'[x].failing = outcome[x].failing
  BY <1>2, <1>3 DEF RunnerIInv, RunnerType, RunnerTypeOK, Ready, Workers
<1>6. Place(w)'
  BY <1>2, <1>3, <1>5 DEF Place
<1>7. Once(x)' /\ halt' = TRUE
  BY <1>1, <1>2, <1>3, <1>5 DEF Place, Once
<1>8. /\ Apart' /\ Progress' /\ SkipReason' /\ (\A v \in Workers : Place(v))'
      /\ (\A s \in Suites : Once(s))'
  BY <1>1, <1>2, <1>3, <1>5, <1>6, <1>7, SuiteMoved DEF Final
<1>9. ThreadsInv' /\ Ended'
  BY <1>1, <1>2, <1>3, <1>5, WorkerFrame
<1>10. StopCounted'
  BY <1>1, <1>3, <1>5, BeginnersMove DEF RunnerIInv, RoundInv, StopCounted
<1> QED
  BY <1>4, <1>8, <1>9, <1>10 DEF RunnerIInv, RoundInv

\* Its program is started.
LEMMA BeginSuiteKeeps ==
  ASSUME RunnerIInv, NEW w \in Workers, BeginSuite(w)
  PROVE  RunnerIInv'
<1>1. hand[w].at = "begin"
  BY DEF BeginSuite
<1>2. PICK x \in Suites : /\ x = hand[w].suite /\ x # 0 /\ Place(w) /\ Once(x) /\ round_on = TRUE
                          /\ outcome[x].selected = TRUE /\ x < next_suite
  BY <1>1, InHandFacts
<1>3. /\ hand' = [hand EXCEPT ![w].at = "run"]
      /\ outcome' = [outcome EXCEPT ![x].state = "running"]
      /\ ran' = [ran EXCEPT ![x] = @ + 1] /\ late' = IF halt THEN late + 1 ELSE late
      /\ UNCHANGED <<round_on, halt, next_suite, keep_going, supervisor, starter, main_at, serving,
                     reported, summary>>
  BY <1>2 DEF BeginSuite, HandAt
<1>4. RunnerType'
  <2>1. hand' \in [1..MaxJobs -> [at : {"off", "take", "skip", "begin", "run", "judge"},
                              suite : Suites \cup {0}]]
    BY <1>3, HandType
  <2>2. outcome' \in [Suites -> [selected : BOOLEAN, state : States, failing : BOOLEAN]]
    <3>1. outcome \in [Suites -> [selected : BOOLEAN, state : States, failing : BOOLEAN]]
      BY DEF RunnerIInv, RunnerType, RunnerTypeOK
    <3>2. "not run" \in States /\ "running" \in States
      BY DEF States
    <3> QED
      BY <1>2, <1>3, <3>1, <3>2, OutcomeType
  <2>3. ran' \in [Suites -> Nat] /\ late' \in Nat
    BY <1>2, <1>3 DEF RunnerIInv, RunnerType
  <2> QED
    BY <1>3, <2>1, <2>2, <2>3 DEF RunnerIInv, RunnerType, RunnerTypeOK
<1>5. /\ \A v \in Workers : v # w => hand'[v] = hand[v]
      /\ hand'[w].at = "run" /\ hand'[w].suite = x
      /\ \A s \in Suites : s # x => outcome'[s] = outcome[s] /\ ran'[s] = ran[s]
      /\ outcome'[x].state = "running" /\ outcome'[x].selected = outcome[x].selected
      /\ outcome'[x].failing = outcome[x].failing /\ ran'[x] = ran[x] + 1
  BY <1>2, <1>3 DEF RunnerIInv, RunnerType, RunnerTypeOK, Workers
<1>6. Place(w)'
  BY <1>2, <1>3, <1>5 DEF Place
<1>7. Once(x)'
  <2>1. ran[x] = 0
    BY <1>1, <1>2 DEF Place, Once
  <2>2. ran'[x] = 1
    BY <1>5, <2>1
  <2> QED
    BY <1>2, <1>5, <2>2 DEF Once
<1>8. /\ Apart' /\ Progress' /\ SkipReason' /\ (\A v \in Workers : Place(v))'
      /\ (\A s \in Suites : Once(s))'
  BY <1>1, <1>2, <1>3, <1>5, <1>6, <1>7, SuiteMoved
<1>9. ThreadsInv' /\ Ended'
  BY <1>1, <1>2, <1>3, <1>5, WorkerFrame
<1>10. StopCounted'
  <2>1. Beginners \in 0..MaxJobs /\ Beginners' = Beginners - 1
    BY <1>1, <1>5, BeginnersMove
  <2>2. late \in Nat /\ MaxJobs \in Nat /\ late + Beginners <= MaxJobs /\ (halt = FALSE => late = 0)
    BY RunnerBounds DEF RunnerIInv, RunnerType, RoundInv, StopCounted
  <2>3. late' \in {late, late + 1} /\ (halt = FALSE => late' = late)
    BY <1>3
  <2> QED
    BY <1>3, <2>1, <2>2, <2>3 DEF StopCounted
<1> QED
  BY <1>4, <1>8, <1>9, <1>10 DEF RunnerIInv, RoundInv

\* It ends, and its report and its exit code are looked at.
LEMMA EndKeeps ==
  ASSUME RunnerIInv, NEW w \in Workers, NEW leaves, NEW cases, NEW code,
         RunSuite(w, leaves, cases, code)
  PROVE  RunnerIInv'
<1> DEFINE bad == leaves # "cases" \/ code # 0 \/ HowMany(cases, {"failed", "both"}) > 0
           judged == Verdict(leaves, cases, code)
<1>1. hand[w].at = "run"
  BY DEF RunSuite
<1>2. PICK x \in Suites : /\ x = hand[w].suite /\ x # 0 /\ Place(w) /\ Once(x) /\ round_on = TRUE
                          /\ outcome[x].selected = TRUE /\ x < next_suite
  BY <1>1, InHandFacts
<1>3. /\ hand' = [hand EXCEPT ![w].at = "judge"]
      /\ outcome' = [outcome EXCEPT ![x].state = judged, ![x].failing = bad]
      /\ UNCHANGED <<round_on, halt, next_suite, keep_going, supervisor, starter, main_at, serving,
                     reported, summary, late, ran>>
  BY <1>2 DEF RunSuite, HandAt
<1>4. judged \in {"passed", "failed", "crashed"}
  BY DEF Verdict
<1>5. judged = "passed" => ~bad
  BY DEF Verdict, ParseGtestJson, CountByCase, Totals
<1>6. bad \in BOOLEAN
  OBVIOUS
<1> HIDE DEF bad, judged
<1>7. RunnerType'
  <2>1. hand' \in [1..MaxJobs -> [at : {"off", "take", "skip", "begin", "run", "judge"},
                              suite : Suites \cup {0}]]
    BY <1>3, HandType
  <2>2. outcome' \in [Suites -> [selected : BOOLEAN, state : States, failing : BOOLEAN]]
    <3>1. judged \in States
      BY <1>4 DEF States
    <3>2. outcome \in [Suites -> [selected : BOOLEAN, state : States, failing : BOOLEAN]]
      BY DEF RunnerIInv, RunnerType, RunnerTypeOK
    <3> QED
      BY <1>2, <1>3, <1>6, <3>1, <3>2, OutcomeType
  <2> QED
    BY <1>3, <2>1, <2>2 DEF RunnerIInv, RunnerType, RunnerTypeOK
<1>8. /\ \A v \in Workers : v # w => hand'[v] = hand[v]
      /\ hand'[w].at = "judge" /\ hand'[w].suite = x
      /\ \A s \in Suites : s # x => outcome'[s] = outcome[s]
      /\ outcome'[x].state = judged /\ outcome'[x].selected = outcome[x].selected
      /\ outcome'[x].failing = bad
  BY <1>2, <1>3 DEF RunnerIInv, RunnerType, RunnerTypeOK, Workers
<1>9. Place(w)'
  BY <1>2, <1>3, <1>4, <1>8 DEF Place
<1>10. Once(x)'
  <2>1. judged = "passed" => bad = FALSE
    BY <1>5, <1>6
  <2>2. ran'[x] = 1
    BY <1>1, <1>2, <1>3 DEF Place, Once
  <2> QED
    BY <1>2, <1>4, <1>8, <2>1, <2>2 DEF Once
<1>11. /\ Apart' /\ Progress' /\ SkipReason' /\ (\A v \in Workers : Place(v))'
      /\ (\A s \in Suites : Once(s))'
  BY <1>1, <1>2, <1>3, <1>4, <1>8, <1>9, <1>10, SuiteMoved DEF Final
<1>12. ThreadsInv' /\ Ended'
  BY <1>1, <1>2, <1>3, <1>8, WorkerFrame
<1>13. StopCounted'
  BY <1>1, <1>3, <1>8, BeginnersMove DEF RunnerIInv, RoundInv, StopCounted
<1> QED
  BY <1>7, <1>11, <1>12, <1>13 DEF RunnerIInv, RoundInv

\* Under --fail-fast a failure stops the round.
LEMMA JudgeKeeps ==
  ASSUME RunnerIInv, NEW w \in Workers, JudgeSuite(w)
  PROVE  RunnerIInv'
<1>1. hand[w].at = "judge"
  BY DEF JudgeSuite
<1>2. PICK x \in Suites : /\ x = hand[w].suite /\ x # 0 /\ Place(w) /\ Once(x) /\ round_on = TRUE
                          /\ outcome[x].selected = TRUE /\ x < next_suite
  BY <1>1, InHandFacts
<1>3. /\ hand' = [hand EXCEPT ![w] = Ready]
      /\ UNCHANGED <<outcome, round_on, next_suite, keep_going, supervisor, starter, main_at, serving,
                     reported, summary, late, ran>>
      /\ halt' \in BOOLEAN /\ (halt = TRUE => halt' = TRUE)
  BY DEF JudgeSuite
<1>4. RunnerType'
  <2>1. hand' \in [1..MaxJobs -> [at : {"off", "take", "skip", "begin", "run", "judge"},
                              suite : Suites \cup {0}]]
    BY <1>3, HandType
  <2> QED
    BY <1>3, <2>1 DEF RunnerIInv, RunnerType, RunnerTypeOK
<1>5. /\ \A v \in Workers : v # w => hand'[v] = hand[v]
      /\ hand'[w].at = "take" /\ hand'[w].suite = 0
  BY <1>3 DEF RunnerIInv, RunnerType, RunnerTypeOK, Ready, Workers
<1>6. Place(w)'
  BY <1>2, <1>3, <1>5 DEF Place
<1>7. Once(x)' /\ outcome'[x].state \in Final /\ outcome'[x].state # "not run"
  BY <1>1, <1>2, <1>3 DEF Place, Once, Final
<1>8. /\ Apart' /\ Progress' /\ SkipReason' /\ (\A v \in Workers : Place(v))'
      /\ (\A s \in Suites : Once(s))'
  BY <1>1, <1>2, <1>3, <1>5, <1>6, <1>7, SuiteMoved
<1>9. ThreadsInv' /\ Ended'
  BY <1>1, <1>2, <1>3, <1>5, WorkerFrame
<1>10. StopCounted'
  <2>1. Beginners' = Beginners
    BY <1>1, <1>5, BeginnersMove
  <2>2. halt' = FALSE => halt = FALSE
    BY <1>3 DEF RunnerIInv, RunnerType
  <2> QED
    BY <1>3, <2>1, <2>2 DEF RunnerIInv, RoundInv, StopCounted
<1> QED
  BY <1>4, <1>8, <1>9, <1>10 DEF RunnerIInv, RoundInv

\* The round is over: whatever was selected has ended.
LEMMA OverKeeps ==
  ASSUME RunnerIInv, RoundOver
  PROVE  RunnerIInv'
<1>1. /\ supervisor = "working" /\ ~WorkersLeft /\ supervisor' = "ended" /\ round_on' = FALSE
      /\ UNCHANGED <<outcome, halt, next_suite, keep_going, hand, starter, main_at,
                     serving, reported, summary, late, ran>>
  BY DEF RoundOver
<1>2. RunnerType'
  BY <1>1 DEF RunnerIInv, RunnerType, RunnerTypeOK
<1>3. round_on = TRUE /\ \A c \in Starters : starter[c].at = "off"
  BY <1>1 DEF RunnerIInv, ThreadsInv, Flags, Begun
<1>4. \A w \in Workers : hand[w].at = "off"
  BY <1>1 DEF WorkersLeft, Workers
<1>5. \A s \in Selected : outcome[s].state \in Final
  <2>1. next_suite \notin Suites /\ \A s \in Suites : (s >= next_suite => outcome[s].state = "pending") /\ Passed(s)
    BY <1>1, <1>3 DEF RunnerIInv, RoundInv, Progress
  <2>2. Suites = 1..Cardinality(Suites) /\ Cardinality(Suites) \in Nat /\ next_suite \in Nat \ {0}
    BY RunnerBounds DEF RunnerIInv, RunnerType
  <2>3. \A s \in Suites : s < next_suite
    BY <2>1, <2>2
  <2>4. \A s \in Suites : ~InHand(s)
    <3>1. \A w \in Workers : hand[w].suite = 0
      BY <1>4 DEF RunnerIInv, RoundInv, Place
    <3> QED
      BY <2>2, <3>1 DEF InHand
  <2>5. \A s \in Selected : s \in Suites /\ outcome[s].selected = TRUE
    BY DEF Selected, RunnerIInv, RunnerType, RunnerTypeOK
  <2> QED
    BY <2>1, <2>3, <2>4, <2>5 DEF Passed
<1>6. RoundInv'
  <2>1. StopCounted' /\ SkipReason' /\ Apart' /\ (\A s \in Suites : Once(s))'
    BY <1>1 DEF RunnerIInv, RoundInv, StopCounted, Beginners, HandsAt, SkipReason, Apart, Once
  <2>2. (\A w \in Workers : Place(w))'
    BY <1>1, <1>4 DEF RunnerIInv, RoundInv, Place
  <2>3. Progress' /\ Ended'
    BY <1>1, <1>5 DEF Progress, Ended, Selected
  <2> QED
    BY <2>1, <2>2, <2>3 DEF RoundInv
<1>7. Flags' /\ (\A c \in Starters : Begun(c))'
  BY <1>1, <1>3 DEF RunnerIInv, ThreadsInv, Flags, Begun
<1>8. serving = FALSE => main_at = "render" /\ summary = "none"
  BY <1>3 DEF RunnerIInv, ThreadsInv, Terminal
<1>9. Terminal' /\ VerdictIsTrue'
  BY <1>1, <1>8 DEF RunnerIInv, RunnerType, ThreadsInv, Terminal, VerdictIsTrue, Selected
<1> QED
  BY <1>2, <1>6, <1>7, <1>9 DEF RunnerIInv, ThreadsInv

\* The terminal shows a snapshot; and the end of main().
LEMMA RenderKeeps ==
  ASSUME RunnerIInv, Render
  PROVE  RunnerIInv'
<1>1. /\ main_at = "render" /\ main_at' = (IF round_on THEN "render" ELSE "summary")
      /\ reported' = reported \cup {s \in Selected : outcome[s].state \in Final}
      /\ UNCHANGED <<outcome, round_on, halt, next_suite, keep_going, supervisor, hand, starter,
                     serving, summary, late, ran>>
  BY DEF Render
<1>2. RunnerType' /\ round_on \in BOOLEAN
  BY <1>1 DEF RunnerIInv, RunnerType, RunnerTypeOK
<1>3. RoundInv'
  BY <1>1, <1>2, QuietKeeps
<1>4. Flags' /\ (\A c \in Starters : Begun(c))'
  <2>1. main_at' \in {"render", "summary"}
    BY <1>1
  <2> QED
    BY <1>1, <2>1, RunnerBounds DEF RunnerIInv, ThreadsInv, Flags, Begun, Selected
<1>5. Selected' = Selected
  BY <1>1 DEF Selected
<1>6. serving = FALSE /\ round_on = FALSE => supervisor = "ended"
  BY <1>1 DEF RunnerIInv, ThreadsInv, Terminal, Flags
<1>7. Terminal' /\ VerdictIsTrue'
  <2>1. serving = FALSE => summary = "none" /\ reported \subseteq Selected
    BY <1>1 DEF RunnerIInv, ThreadsInv, Terminal
  <2>2. VerdictIsTrue'
    BY <1>1, <2>1 DEF RunnerIInv, RunnerType, VerdictIsTrue
  <2>3. CASE round_on = TRUE
    BY <1>1, <1>5, <2>1, <2>2, <2>3 DEF RunnerIInv, ThreadsInv, Terminal
  <2>4. CASE round_on = FALSE
    <3>1. serving = FALSE => reported' = Selected /\ \A s \in Selected : outcome[s].state \in Final
      BY <1>1, <1>6, <2>1, <2>4 DEF RunnerIInv, RoundInv, Ended
    <3> QED
      BY <1>1, <1>5, <2>1, <2>2, <2>4, <3>1 DEF RunnerIInv, ThreadsInv, Terminal
  <2> QED
    BY <1>2, <2>3, <2>4
<1> QED
  BY <1>2, <1>3, <1>4, <1>7 DEF RunnerIInv, ThreadsInv

\* main() prints the summary of the round it waited for, and takes its exit code from it.
LEMMA SummaryKeeps ==
  ASSUME RunnerIInv, PrintSummary
  PROVE  RunnerIInv'
<1>1. /\ main_at = "summary" /\ main_at' = (IF serving THEN "exit" ELSE "destroy")
      /\ summary' = (IF AllGood THEN "good" ELSE "bad")
      /\ UNCHANGED <<outcome, round_on, halt, next_suite, keep_going, supervisor, hand, starter,
                     serving, reported, late, ran>>
  BY DEF PrintSummary
<1>2. RunnerType' /\ serving \in BOOLEAN
  BY <1>1 DEF RunnerIInv, RunnerType, RunnerTypeOK
<1>3. RoundInv'
  BY <1>1, <1>2, QuietKeeps
<1>4. starter["main"].at = "off" /\ (serving = FALSE => \A c \in Starters : starter[c].at = "off")
  BY <1>1, RunnerBounds DEF RunnerIInv, ThreadsInv, Flags, Terminal, Starters
<1>5. Flags'
  <2>1. main_at' = "exit" \/ (main_at' = "destroy" /\ serving = FALSE)
    <3>1. CASE serving = TRUE
      BY <1>1, <3>1
    <3>2. CASE serving = FALSE
      BY <1>1, <3>2
    <3> QED
      BY <1>2, <3>1, <3>2
  <2> QED
    BY <1>1, <1>4, <2>1 DEF RunnerIInv, ThreadsInv, Flags
<1>6. (\A c \in Starters : Begun(c))' /\ Selected' = Selected
  BY <1>1 DEF RunnerIInv, ThreadsInv, Begun, Selected
<1>7. Terminal'
  BY <1>1, <1>6 DEF RunnerIInv, ThreadsInv, Terminal
<1>8. VerdictIsTrue'
  <2>1. serving = FALSE => /\ Selected # {} /\ reported = Selected
                           /\ \A s \in Selected : outcome[s].state \in Final
    BY <1>1 DEF RunnerIInv, ThreadsInv, Terminal
  <2>2. serving = FALSE => (AllGood <=> \A s \in Selected : outcome[s].state = "passed")
    BY <2>1 DEF AllGood, Finished, Final
  <2>3. (summary' = "good") <=> AllGood
    BY <1>1
  <2> QED
    BY <1>1, <1>2, <1>6, <2>1, <2>2, <2>3 DEF VerdictIsTrue
<1> QED
  BY <1>2, <1>3, <1>5, <1>6, <1>7, <1>8 DEF RunnerIInv, ThreadsInv

\* A refused start, a stop and what main() does at its end leave the round to its threads;
\* the stop can only be raised.
LEMMA MainKeeps ==
  ASSUME RunnerIInv,
         StartRefused \/ ExitSignal \/ StopDashboard \/ DestroyState \/ \E c \in Starters : RequestStop(c)
  PROVE  RunnerIInv'
<1>1. /\ UNCHANGED <<outcome, round_on, next_suite, keep_going, supervisor, hand, starter, serving,
                     reported, summary, late, ran>>
      /\ halt' = halt \/ halt' = TRUE
      /\ main_at' \in {"start", "render", "summary", "exit", "close", "destroy", "wait", "gone"}
  BY DEF StartRefused, ExitSignal, StopDashboard, DestroyState, RequestStop, RunnerIInv, RunnerType,
     RunnerTypeOK
<1>2. RunnerType'
  <2>1. halt' \in BOOLEAN
    BY <1>1 DEF RunnerIInv, RunnerType
  <2> QED
    BY <1>1, <2>1 DEF RunnerIInv, RunnerType, RunnerTypeOK
<1>3. RoundInv'
  BY <1>1, <1>2, QuietKeeps
<1>4. (\A c \in Starters : Begun(c))' /\ Selected' = Selected /\ VerdictIsTrue'
  BY <1>1 DEF RunnerIInv, ThreadsInv, Begun, Selected, VerdictIsTrue
<1>5. \/ main_at = "start" /\ main_at' = "exit" /\ starter["main"].at = "off" /\ round_on = TRUE
      \/ main_at = "exit" /\ main_at' = "close"
      \/ main_at = "close" /\ main_at' = "destroy" /\ \A c \in Visitors : starter[c].at = "off"
      \/ main_at = "destroy" /\ main_at' = "wait"
      \/ main_at' = main_at
  BY DEF StartRefused, ExitSignal, StopDashboard, DestroyState, RequestStop, RunnerIInv, RunnerType
<1>6. Flags'
  BY <1>1, <1>5, RunnerBounds DEF RunnerIInv, ThreadsInv, Flags, Starters
<1>7. Terminal'
  BY <1>1, <1>4, <1>5 DEF RunnerIInv, ThreadsInv, Terminal
<1> QED
  BY <1>2, <1>3, <1>4, <1>6, <1>7 DEF RunnerIInv, ThreadsInv

\* Without a dashboard main() waits for the round it started, whose thread is joined.
LEMMA WaitKeeps ==
  ASSUME RunnerIInv, WaitRound
  PROVE  RunnerIInv'
<1>1. /\ main_at = "wait" /\ supervisor # "working" /\ supervisor' = "none" /\ main_at' = "gone"
      /\ UNCHANGED <<outcome, round_on, halt, next_suite, keep_going, hand, starter,
                     serving, reported, summary, late, ran>>
  BY DEF WaitRound
<1>2. RunnerType'
  BY <1>1 DEF RunnerIInv, RunnerType, RunnerTypeOK
<1>3. RoundInv'
  <2>1. StopCounted' /\ SkipReason' /\ Apart' /\ (\A s \in Suites : Once(s))'
    BY <1>1 DEF RunnerIInv, RoundInv, StopCounted, Beginners, HandsAt, SkipReason, Apart, Once
  <2>2. (\A w \in Workers : Place(w))'
    BY <1>1 DEF RunnerIInv, RoundInv, Place
  <2>3. Progress' /\ Ended'
    BY <1>1 DEF RunnerIInv, RoundInv, Progress, Passed, InHand, WorkersLeft, Ended
  <2> QED
    BY <2>1, <2>2, <2>3 DEF RoundInv
<1>4. ThreadsInv'
  <2>1. Selected' = Selected
    BY <1>1 DEF Selected
  <2>2. \A c \in Starters : starter[c].at = "off"
    BY <1>1 DEF RunnerIInv, ThreadsInv, Flags
  <2>3. Flags' /\ (\A c \in Starters : Begun(c))'
    BY <1>1, <2>2, RunnerBounds DEF RunnerIInv, ThreadsInv, Flags, Begun
  <2>4. Terminal' /\ VerdictIsTrue'
    BY <1>1, <2>1 DEF RunnerIInv, ThreadsInv, Terminal, VerdictIsTrue
  <2> QED
    BY <2>3, <2>4 DEF ThreadsInv
<1> QED
  BY <1>2, <1>3, <1>4 DEF RunnerIInv

\* The invariant of the test runner.
LEMMA RunnerBegins == RunnerInit => RunnerIInv
<1> SUFFICES ASSUME RunnerInit PROVE RunnerIInv
  OBVIOUS
<1>1. RunnerType
  <2>1. outcome \in [Suites -> [selected : BOOLEAN, state : States, failing : BOOLEAN]]
    BY DEF RunnerInit, Fresh, States
  <2>2. hand \in [1..MaxJobs -> [at : {"off", "take", "skip", "begin", "run", "judge"},
                              suite : Suites \cup {0}]]
    BY DEF RunnerInit, Idle
  <2>3. starter \in [Starters -> [at : {"off", "join", "reset", "clear", "launch"},
                               chosen : SUBSET Suites, jobs : 1..MaxJobs, keep : BOOLEAN]]
    <3>1. 1 \in 1..MaxJobs
      BY RunnerBounds
    <3> QED
      BY <3>1 DEF RunnerInit, Away
  <2>4. round_on \in BOOLEAN /\ halt \in BOOLEAN /\ keep_going \in BOOLEAN /\ serving \in BOOLEAN
    BY DEF RunnerInit
  <2>5. next_suite \in Nat \ {0} /\ late \in Nat /\ ran \in [Suites -> Nat]
    BY DEF RunnerInit
  <2>6. main_at \in {"start", "exit"} /\ supervisor = "none" /\ summary = "none"
    BY DEF RunnerInit
  <2> QED
    BY <2>1, <2>2, <2>3, <2>4, <2>5, <2>6 DEF RunnerType, RunnerTypeOK
<1>2. RoundInv
  <2>1. Apart /\ Progress /\ Ended /\ SkipReason
    BY DEF RunnerInit, Apart, Progress, Ended, SkipReason, Fresh, Idle, Workers
  <2>2. \A w \in Workers : Place(w)
    BY DEF RunnerInit, Place, Idle, Workers
  <2>3. \A s \in Suites : Once(s)
    BY DEF RunnerInit, Once, Fresh
  <2>4. StopCounted
    <3>1. late = 0 /\ Beginners \in 0..MaxJobs
      BY BeginnersBound DEF RunnerInit, Beginners
    <3> QED
      BY <3>1, RunnerBounds DEF StopCounted
  <2> QED
    BY <2>1, <2>2, <2>3, <2>4 DEF RoundInv
<1>3. ThreadsInv
  <2>1. \A c \in Starters : starter[c].at = "off"
    BY DEF RunnerInit, Away
  <2>2. Flags /\ \A c \in Starters : Begun(c)
    BY <2>1, RunnerBounds DEF RunnerInit, Flags, Begun
  <2>3. serving = FALSE => main_at = "start"
    BY DEF RunnerInit
  <2>4. Terminal /\ VerdictIsTrue
    BY <2>1, <2>3 DEF RunnerInit, Terminal, VerdictIsTrue, Starters
  <2> QED
    BY <2>2, <2>4 DEF ThreadsInv
<1> QED
  BY <1>1, <1>2, <1>3 DEF RunnerIInv

\* Every step keeps it, as long as no two requests are within start() at once.
LEMMA RunnerStays ==
  ASSUME ~StartsOverlap, RunnerIInv, [RunnerNext]_runnerVars
  PROVE  RunnerIInv'
<1>1. CASE UNCHANGED runnerVars
  <2>1. RunnerType' /\ halt' = halt
    BY <1>1 DEF runnerVars, RunnerIInv, RunnerType, RunnerTypeOK
  <2>2. RoundInv'
    BY <1>1, <2>1, QuietKeeps DEF runnerVars
  <2>3. ThreadsInv'
    BY <1>1 DEF runnerVars, RunnerIInv, ThreadsInv, Flags, Terminal, VerdictIsTrue, Begun, Selected
  <2> QED
    BY <2>1, <2>2, <2>3 DEF RunnerIInv
<1>2. ASSUME NEW c \in Starters, Starting(c) PROVE RunnerIInv'
  BY <1>2, JoinKeeps, ResetKeeps, ClearKeeps, LaunchKeeps DEF Starting
<1>3. ASSUME NEW w \in Workers, RoundWorker(w) PROVE RunnerIInv'
  BY <1>3, TakeKeeps, SkipKeeps, BeginSuiteKeeps, EndKeeps, JudgeKeeps DEF RoundWorker, SuiteEnds
<1> QED
  BY <1>1, <1>2, <1>3, StartRoundKeeps, OverKeeps, RenderKeeps, SummaryKeeps, MainKeeps, WaitKeeps
     DEF RunnerNext, MainEnds, Workers

\* Whatever rounds main() and the requests of the dashboard start and stop, one at a
\* time: each suite of a round is run once or said not to have been, for a reason; a
\* stop lets each worker begin one suite at most; what is said to have passed has; and
\* when main() is gone no thread of the runner is left.
THEOREM RunnerKept ==
  ASSUME ~StartsOverlap
  PROVE  RunnerInit /\ [][RunnerNext]_runnerVars => []RunnerInv
<1>1. RunnerIInv => RunnerInv
  <2> SUFFICES ASSUME RunnerIInv PROVE RunnerInv
    OBVIOUS
  <2>1. EachOnce
    BY DEF RunnerIInv, RunnerType, RunnerTypeOK, RoundInv, Once, Ended, EachOnce
  <2>2. PassedIsTrue
    BY DEF RunnerIInv, RoundInv, Once, PassedIsTrue
  <2>3. StopsSoon
    <3>1. Beginners \in 0..MaxJobs /\ late \in Nat /\ MaxJobs \in Nat
      BY BeginnersBound, RunnerBounds DEF Beginners, RunnerIInv, RunnerType
    <3> QED
      BY <3>1 DEF RunnerIInv, RoundInv, StopCounted, StopsSoon
  <2>4. SkippedForReason
    BY DEF RunnerIInv, RoundInv, SkipReason, SkippedForReason, Selected
  <2>5. NothingLeft
    BY DEF RunnerIInv, RunnerType, RoundInv, ThreadsInv, Flags, Place, Workers, WorkersLeft, NothingLeft
  <2> QED
    BY <2>1, <2>2, <2>3, <2>4, <2>5 DEF RunnerIInv, RunnerType, ThreadsInv, RunnerInv
<1>2. RunnerIInv /\ [RunnerNext]_runnerVars => RunnerIInv'
  BY RunnerStays
<1> QED
  BY <1>1, <1>2, RunnerBegins, PTL

-----------------------------------------------------------------------------
(***************************************************************************)
(* Two programs on one database, for any number of them and any writes.    *)
(* A transaction and the guards of its connection go together (Guarded),   *)
(* and only who holds the write lock has something pending (Pending).      *)
(***************************************************************************)

\* Taking the last element off a sequence, and putting another in its place.
LEMMA FrontFacts ==
  ASSUME NEW S, NEW s \in Seq(S), s # <<>>
  PROVE  /\ Len(s) \in Nat \ {0} /\ Last(s) = s[Len(s)]
         /\ Front(s) \in Seq(S) /\ Len(Front(s)) = Len(s) - 1
         /\ \A i \in 1..Len(s) - 1 : Front(s)[i] = s[i]
<1>1. Len(s) \in Nat /\ s \in [1..Len(s) -> S] /\ Len(s) # 0
  BY LenProperties, EmptySeq
<1>2. Len(s) - 1 \in Int /\ \A i \in 1..Len(s) - 1 : s[i] \in S
  BY <1>1
<1>3. /\ SubSeq(s, 1, Len(s) - 1) \in Seq(S)
      /\ Len(SubSeq(s, 1, Len(s) - 1)) = IF 1 <= Len(s) - 1 THEN Len(s) - 1 - 1 + 1 ELSE 0
      /\ \A i \in 1..Len(s) - 1 - 1 + 1 : SubSeq(s, 1, Len(s) - 1)[i] = s[1 + i - 1]
  BY <1>2, SubSeqProperties, 1 \in Int
<1>4. Len(SubSeq(s, 1, Len(s) - 1)) = Len(s) - 1
  BY <1>1, <1>3
<1>5. \A i \in 1..Len(s) - 1 : SubSeq(s, 1, Len(s) - 1)[i] = s[i]
  BY <1>1, <1>3
<1> QED
  BY <1>1, <1>3, <1>4, <1>5 DEF Front, Last

\* Another element in the place of the last: the length and the others stay.
LEMMA ReplaceLast ==
  ASSUME NEW S, NEW s \in Seq(S), s # <<>>, NEW e \in S
  PROVE  /\ Append(Front(s), e) \in Seq(S) /\ Len(Append(Front(s), e)) = Len(s)
         /\ \A i \in 1..Len(s) - 1 : Append(Front(s), e)[i] = s[i]
         /\ Append(Front(s), e)[Len(s)] = e
<1>1. /\ Len(s) \in Nat \ {0} /\ Front(s) \in Seq(S) /\ Len(Front(s)) = Len(s) - 1
      /\ \A i \in 1..Len(s) - 1 : Front(s)[i] = s[i]
  BY FrontFacts
<1> HIDE DEF Front
<1>2. /\ Append(Front(s), e) \in Seq(S) /\ Len(Append(Front(s), e)) = Len(Front(s)) + 1
      /\ \A i \in 1..Len(Front(s)) : Append(Front(s), e)[i] = Front(s)[i]
      /\ Append(Front(s), e)[Len(Front(s)) + 1] = e
  BY <1>1, AppendProperties
<1> QED
  BY <1>1, <1>2

SqliteType ==
  /\ writes \in Nat /\ committed \subseteq 1..writes /\ promised \subseteq 1..writes
  /\ writer \in Programs \cup {Nobody}
  /\ in_txn \in [Programs -> BOOLEAN] /\ pending \in [Programs -> SUBSET (1..writes)]
  /\ guards \in [Programs -> Seq(BOOLEAN)] /\ \A p \in Programs : Len(guards[p]) <= 2
  /\ cursor \in [Programs -> {"none", "ready", "row", "halted"}]
  /\ stepped \in [Programs -> BOOLEAN] /\ moved \in [Programs -> BOOLEAN]

Guarded(p) ==
  /\ \A g, h \in 1..Len(guards[p]) : guards[p][g] = TRUE /\ guards[p][h] = TRUE => g = h
  /\ \A g \in 1..Len(guards[p]) : guards[p][g] = TRUE => in_txn[p] = TRUE
  /\ in_txn[p] = TRUE /\ p \notin refused => \E g \in 1..Len(guards[p]) : guards[p][g] = TRUE

Pending(p) == pending[p] # {} => in_txn[p] = TRUE /\ writer = p /\ pending[p] \cap committed = {}

Bindable(p) == cursor[p] \in {"row", "halted"} /\ moved[p] = FALSE => stepped[p] = TRUE

SqliteIInv ==
  /\ SqliteType /\ PromisedIsKept
  /\ \A p \in Programs : Guarded(p) /\ Pending(p) /\ Bindable(p)

\* The statements leave the data alone.
LEMMA StatementKeeps ==
  ASSUME SqliteIInv, NEW p \in Programs,
         Prepare(p) \/ Finalize(p) \/ Step(p) \/ Bind(p) \/ Reset(p) \/ QueryAll(p) \/ MoveStatement(p)
  PROVE  SqliteIInv'
<1>1. UNCHANGED dataVars
  BY DEF Prepare, Finalize, Step, Bind, Reset, QueryAll, MoveStatement, SetStatement, sqliteVars,
     statementVars
<1>2. /\ cursor' \in [Programs -> {"none", "ready", "row", "halted"}]
      /\ stepped' \in [Programs -> BOOLEAN] /\ moved' \in [Programs -> BOOLEAN]
  <2> USE DEF SqliteIInv, SqliteType
  <2>1. CASE MoveStatement(p)
    BY <2>1 DEF MoveStatement
  <2>2. CASE UNCHANGED sqliteVars
    BY <2>2 DEF sqliteVars, statementVars
  <2>3. ASSUME NEW at \in {"none", "ready", "row", "halted"}, NEW s \in BOOLEAN, SetStatement(p, at, s)
        PROVE  /\ cursor' \in [Programs -> {"none", "ready", "row", "halted"}]
               /\ stepped' \in [Programs -> BOOLEAN] /\ moved' \in [Programs -> BOOLEAN]
    BY <2>3 DEF SetStatement
  <2> QED
    BY <2>1, <2>2, <2>3 DEF Prepare, Finalize, Step, Bind, Reset, QueryAll
<1>3. ASSUME NEW q \in Programs PROVE Bindable(q)'
  <2>1. Bindable(q)
    BY DEF SqliteIInv
  <2> USE DEF SqliteIInv, SqliteType, Bindable
  <2>2. CASE MoveStatement(p)
    BY <2>1, <2>2 DEF MoveStatement
  <2>3. CASE UNCHANGED sqliteVars
    BY <2>1, <2>3 DEF sqliteVars, statementVars
  <2>4. CASE SetStatement(p, "none", FALSE) \/ SetStatement(p, "ready", FALSE)
             \/ SetStatement(p, "ready", TRUE) \/ SetStatement(p, "row", TRUE)
             \/ SetStatement(p, "halted", TRUE)
    BY <2>1, <2>4 DEF SetStatement
  <2> QED
    BY <2>2, <2>3, <2>4 DEF Prepare, Finalize, Step, Bind, Reset, QueryAll
<1>4. SqliteType'
  BY <1>1, <1>2 DEF SqliteIInv, SqliteType, dataVars
<1> QED
  BY <1>1, <1>3, <1>4 DEF SqliteIInv, dataVars, Guarded, Pending, PromisedIsKept

\* What a step of one program leaves to the others.
LEMMA OthersKeep ==
  ASSUME SqliteIInv, NEW p \in Programs, NEW q \in Programs, q # p, UNCHANGED statementVars,
         guards'[q] = guards[q], in_txn'[q] = in_txn[q], pending'[q] = pending[q],
         q \in refused => q \in refused',
         pending[q] # {} => writer' = writer /\ (committed' = committed \/ committed' = committed \cup {writes + 1})
  PROVE  (Guarded(q) /\ Pending(q))'
<1>1. Guarded(q) /\ Pending(q) /\ pending[q] \subseteq 1..writes /\ writes \in Nat
  BY DEF SqliteIInv, SqliteType
<1>2. Guarded(q)'
  BY <1>1 DEF Guarded
<1>3. writes + 1 \notin pending[q]
  BY <1>1
<1>4. Pending(q)'
  BY <1>1, <1>3 DEF Pending
<1> QED
  BY <1>2, <1>4

\* A transaction is begun, or the BEGIN within one fails.
LEMMA BeginGuardKeeps ==
  ASSUME SqliteIInv, NEW p \in Programs, BeginGuard(p)
  PROVE  SqliteIInv'
<1> DEFINE s == guards[p]
           t == Append(s, ~in_txn[p])
<1>1. /\ s \in Seq(BOOLEAN) /\ Len(s) \in Nat /\ Len(s) < 2 /\ (~in_txn[p]) \in BOOLEAN
  BY DEF SqliteIInv, SqliteType, BeginGuard
<1>2. /\ t \in Seq(BOOLEAN) /\ Len(t) = Len(s) + 1 /\ \A i \in 1..Len(s) : t[i] = s[i]
      /\ t[Len(s) + 1] = (~in_txn[p])
  BY <1>1, AppendProperties
<1>3. /\ guards' = [guards EXCEPT ![p] = t] /\ in_txn' = [in_txn EXCEPT ![p] = TRUE]
      /\ UNCHANGED <<committed, writes, pending, writer, promised, refused, stray, statementVars>>
  BY DEF BeginGuard
<1> HIDE DEF s, t
<1>4. /\ guards'[p] = t /\ in_txn'[p] = TRUE
      /\ \A q \in Programs : q # p => guards'[q] = guards[q] /\ in_txn'[q] = in_txn[q]
      /\ guards' \in [Programs -> Seq(BOOLEAN)] /\ in_txn' \in [Programs -> BOOLEAN]
  BY <1>2, <1>3 DEF SqliteIInv, SqliteType
<1>5. SqliteType'
  <2>1. Len(t) <= 2
    BY <1>1, <1>2
  <2>2. \A q \in Programs : Len(guards'[q]) <= 2
    BY <1>4, <2>1 DEF SqliteIInv, SqliteType
  <2> QED
    BY <1>3, <1>4, <2>2 DEF SqliteIInv, SqliteType, statementVars
<1>6. \A q \in Programs : q # p => (Guarded(q) /\ Pending(q))'
  BY <1>3, <1>4, OthersKeep
<1>7. Guarded(p)'
  <2>1. Guarded(p) /\ s = guards[p] /\ in_txn[p] \in BOOLEAN
    BY DEF SqliteIInv, SqliteType, s
  <2>2. CASE in_txn[p] = TRUE
    <3>1. t[Len(s) + 1] = FALSE
      BY <1>2, <2>2
    <3>2. \A i \in 1..Len(t) : t[i] = TRUE => i \in 1..Len(s) /\ s[i] = TRUE
      <4>1. \A i \in 1..Len(t) : i \in 1..Len(s) \/ i = Len(s) + 1
        BY <1>1, <1>2
      <4> QED
        BY <1>2, <3>1, <4>1
    <3>3. \A i \in 1..Len(s) : i \in 1..Len(t) /\ t[i] = s[i]
      BY <1>1, <1>2
    <3> QED
      BY <1>3, <1>4, <2>1, <2>2, <3>2, <3>3 DEF Guarded
  <2>3. CASE in_txn[p] = FALSE
    <3>1. t[Len(s) + 1] = TRUE /\ Len(s) + 1 \in 1..Len(t)
      BY <1>1, <1>2, <2>3
    <3>2. \A i \in 1..Len(s) : s[i] # TRUE
      BY <2>1, <2>3 DEF Guarded
    <3>3. \A i \in 1..Len(t) : t[i] = TRUE => i = Len(s) + 1
      <4>1. \A i \in 1..Len(t) : i \in 1..Len(s) \/ i = Len(s) + 1
        BY <1>1, <1>2
      <4> QED
        BY <1>2, <3>2, <4>1
    <3> QED
      BY <1>4, <3>1, <3>3 DEF Guarded
  <2> QED
    BY <2>1, <2>2, <2>3
<1>8. Pending(p)'
  BY <1>3, <1>4 DEF SqliteIInv, Pending
<1> QED
  BY <1>3, <1>5, <1>6, <1>7, <1>8 DEF SqliteIInv, PromisedIsKept, Bindable, statementVars

\* A write.
LEMMA ExecKeeps ==
  ASSUME SqliteIInv, NEW p \in Programs, Exec(p)
  PROVE  SqliteIInv'
<1> DEFINE n == writes + 1
<1>1. /\ writes \in Nat /\ writes' = n /\ MayWrite(p) /\ in_txn[p] \in BOOLEAN
      /\ UNCHANGED <<in_txn, guards, refused, statementVars>>
  BY DEF SqliteIInv, SqliteType, Exec
<1>2. /\ in_txn[p] = TRUE =>
           pending' = [pending EXCEPT ![p] = @ \cup {n}] /\ writer' = p /\ committed' = committed
      /\ in_txn[p] = FALSE => committed' = committed \cup {n} /\ UNCHANGED <<pending, writer>>
  BY DEF Exec
<1>3. /\ promised' = promised \/ promised' = promised \cup {n}
      /\ promised' # promised => in_txn[p] = FALSE \/ n \in stray'
      /\ stray \subseteq stray'
  BY <1>1 DEF Exec
<1>4. committed \subseteq 1..n /\ promised \subseteq 1..n /\ n \in 1..n /\ n \notin 1..writes
      /\ \A q \in Programs : pending[q] \subseteq 1..n
  BY <1>1 DEF SqliteIInv, SqliteType
<1>5. SqliteType'
  <2>1. committed' \subseteq 1..n /\ promised' \subseteq 1..n
    <3>1. committed' \subseteq committed \cup {n} /\ promised' \subseteq promised \cup {n}
      BY <1>1, <1>2, <1>3
    <3> HIDE DEF n
    <3> QED
      BY <3>1, <1>4
  <2>2. pending' \in [Programs -> SUBSET (1..n)]
    <3>1. pending \in [Programs -> SUBSET (1..n)] /\ n \in 1..n
      BY <1>4 DEF SqliteIInv, SqliteType
    <3>2. pending' = pending \/ pending' = [pending EXCEPT ![p] = @ \cup {n}]
      BY <1>1, <1>2
    <3> HIDE DEF n
    <3> QED
      BY <3>1, <3>2
  <2>3. writer' \in Programs \cup {Nobody}
    BY <1>1, <1>2 DEF SqliteIInv, SqliteType
  <2>4. n \in Nat
    BY <1>1
  <2> QED
    BY <1>1, <2>1, <2>2, <2>3, <2>4 DEF SqliteIInv, SqliteType, statementVars
<1>6. PromisedIsKept'
  BY <1>1, <1>2, <1>3 DEF SqliteIInv, PromisedIsKept
<1>7. ASSUME NEW q \in Programs, q # p PROVE (Guarded(q) /\ Pending(q))'
  <2>1. pending'[q] = pending[q]
    BY <1>1, <1>2, <1>7 DEF SqliteIInv, SqliteType
  <2>2. pending[q] # {} => writer = q /\ writer' = writer /\ (committed' = committed \/ committed' = committed \cup {n})
    BY <1>1, <1>2, <1>7, SqliteAssumption DEF SqliteIInv, Pending, MayWrite, SqliteAssumption
  <2> QED
    BY <1>1, <1>7, <2>1, <2>2, OthersKeep
<1>8. Guarded(p)'
  BY <1>1 DEF SqliteIInv, Guarded
<1>9. Pending(p)'
  <2>1. CASE in_txn[p] = TRUE
    <3>1. pending'[p] = pending[p] \cup {n} /\ writer' = p /\ committed' = committed /\ in_txn'[p] = TRUE
      BY <1>1, <1>2, <2>1 DEF SqliteIInv, SqliteType
    <3>2. n \notin committed /\ pending[p] \cap committed = {}
      BY <1>4 DEF SqliteIInv, SqliteType, Pending
    <3> QED
      BY <3>1, <3>2 DEF Pending
  <2>2. CASE in_txn[p] = FALSE
    BY <1>2, <2>2 DEF SqliteIInv, Pending
  <2> QED
    BY <1>1, <2>1, <2>2
<1> QED
  BY <1>1, <1>5, <1>6, <1>7, <1>8, <1>9 DEF SqliteIInv, Bindable, statementVars

\* The guard at the end of the row is inactive from now on, or gone; the others are as
\* they were.
LEMMA GuardGone ==
  ASSUME SqliteIInv, NEW p \in Programs, guards[p] # <<>>,
         \/ guards' = [guards EXCEPT ![p] = Append(Front(@), FALSE)]
         \/ guards' = [guards EXCEPT ![p] = Front(@)]
  PROVE  /\ guards' \in [Programs -> Seq(BOOLEAN)] /\ \A q \in Programs : Len(guards'[q]) <= 2
         /\ \A q \in Programs : q # p => guards'[q] = guards[q]
         /\ \A i \in 1..Len(guards'[p]) : guards'[p][i] = TRUE =>
              i \in 1..Len(guards[p]) - 1 /\ guards[p][i] = TRUE
         /\ \A i \in 1..Len(guards[p]) - 1 : i \in 1..Len(guards'[p]) /\ guards'[p][i] = guards[p][i]
         /\ Len(guards[p]) \in 1..Len(guards[p]) /\ Len(guards[p]) \in Nat
         /\ Last(guards[p]) = guards[p][Len(guards[p])]
<1> DEFINE s == guards[p]
           t == guards'[p]
<1>1. s \in Seq(BOOLEAN) /\ s # <<>> /\ Len(s) <= 2 /\ FALSE \in BOOLEAN
  BY DEF SqliteIInv, SqliteType
<1>2. /\ Len(s) \in Nat \ {0} /\ Last(s) = s[Len(s)]
      /\ Front(s) \in Seq(BOOLEAN) /\ Len(Front(s)) = Len(s) - 1
      /\ \A i \in 1..Len(s) - 1 : Front(s)[i] = s[i]
  BY <1>1, FrontFacts
<1>3. /\ Append(Front(s), FALSE) \in Seq(BOOLEAN) /\ Len(Append(Front(s), FALSE)) = Len(s)
      /\ \A i \in 1..Len(s) - 1 : Append(Front(s), FALSE)[i] = s[i]
      /\ Append(Front(s), FALSE)[Len(s)] = FALSE
  BY <1>1, ReplaceLast
<1>4. t = Append(Front(s), FALSE) \/ t = Front(s)
  BY DEF SqliteIInv, SqliteType
<1>5. \A q \in Programs : q # p => guards'[q] = guards[q]
  BY DEF SqliteIInv, SqliteType
<1>6. guards' \in [Programs -> Seq(BOOLEAN)]
  BY <1>2, <1>3 DEF SqliteIInv, SqliteType
<1> HIDE DEF s, t
<1>a. Len(t) = Len(s) \/ Len(t) = Len(s) - 1
  BY <1>2, <1>3, <1>4
<1>b. \A i \in 1..Len(s) - 1 : i \in 1..Len(t)
  BY <1>2, <1>a
<1>c. \A i \in 1..Len(s) - 1 : t[i] = s[i]
  <2>1. CASE t = Append(Front(s), FALSE)
    BY ONLY <2>1, <1>3
  <2>2. CASE t = Front(s)
    BY ONLY <2>2, <1>2
  <2> QED
    BY <1>4, <2>1, <2>2
<1>7. Len(t) <= 2 /\ (\A i \in 1..Len(s) - 1 : i \in 1..Len(t) /\ t[i] = s[i])
  <2>1. Len(t) <= 2
    BY <1>1, <1>2, <1>a
  <2> QED
    BY <2>1, <1>b, <1>c
<1>8. \A i \in 1..Len(t) : t[i] = TRUE => i \in 1..Len(s) - 1 /\ s[i] = TRUE
  <2> SUFFICES ASSUME NEW i \in 1..Len(t), t[i] = TRUE PROVE i \in 1..Len(s) - 1
    BY <1>c
  <2>1. CASE t = Append(Front(s), FALSE)
    <3>1. Len(t) = Len(s) /\ t[Len(s)] = FALSE
      BY ONLY <2>1, <1>3
    <3>2. i # Len(s) /\ i \in 1..Len(s)
      BY <3>1
    <3> QED
      BY <1>2, <3>2
  <2>2. CASE t = Front(s)
    BY ONLY <2>2, <1>2, i \in 1..Len(t)
  <2> QED
    BY <1>4, <2>1, <2>2
<1>9. \A q \in Programs : Len(guards'[q]) <= 2
  BY <1>5, <1>7 DEF SqliteIInv, SqliteType, t
<1> QED
  BY <1>2, <1>5, <1>6, <1>7, <1>8, <1>9 DEF s, t

\* commit(), rollback() and ~SqliteTransaction(): the transaction ends with its guard,
\* unless SQLite refuses, or the guard was none of it.
LEMMA EndKeepsSqlite ==
  ASSUME SqliteIInv, NEW p \in Programs, Commit(p) \/ Rollback(p) \/ DestroyGuard(p)
  PROVE  SqliteIInv'
<1> DEFINE s == guards[p]
<1>1. /\ guards' \in [Programs -> Seq(BOOLEAN)] /\ \A q \in Programs : Len(guards'[q]) <= 2
      /\ \A q \in Programs : q # p => guards'[q] = guards[q]
      /\ \A i \in 1..Len(guards'[p]) : guards'[p][i] = TRUE =>
              i \in 1..Len(guards[p]) - 1 /\ guards[p][i] = TRUE
      /\ \A i \in 1..Len(guards[p]) - 1 : i \in 1..Len(guards'[p]) /\ guards'[p][i] = guards[p][i]
      /\ Len(guards[p]) \in 1..Len(guards[p]) /\ Len(guards[p]) \in Nat
      /\ Last(guards[p]) = guards[p][Len(guards[p])]
  BY GuardGone DEF Commit, Rollback, DestroyGuard
<1>2. Guarded(p) /\ Pending(p)
  BY DEF SqliteIInv
<1>3. /\ UNCHANGED <<writes, stray, statementVars>>
      /\ refused' = refused \/ refused' = refused \cup {p}
  BY DEF Commit, Rollback, DestroyGuard
<1>4. \/ EndTxn(p) /\ Last(guards[p]) = TRUE
         /\ \/ committed' = committed /\ promised' = promised
            \/ committed' = committed \cup pending[p] /\ promised' = promised \cup pending[p]
      \/ /\ UNCHANGED <<committed, promised, in_txn, pending, writer>>
         /\ Last(guards[p]) = TRUE /\ p \in refused'
      \/ /\ UNCHANGED <<committed, promised, in_txn, pending, writer>>
         /\ Last(guards[p]) # TRUE
  <2>1. Last(guards[p]) \in BOOLEAN
    <3>1. guards[p] \in [1..Len(guards[p]) -> BOOLEAN]
      BY LenProperties DEF SqliteIInv, SqliteType
    <3> QED
      BY <1>1, <3>1
  <2> QED
    BY <2>1 DEF Commit, Rollback, DestroyGuard
<1>5. /\ in_txn' \in [Programs -> BOOLEAN] /\ pending' \in [Programs -> SUBSET (1..writes)]
      /\ \A q \in Programs : q # p => in_txn'[q] = in_txn[q] /\ pending'[q] = pending[q]
  BY <1>4 DEF SqliteIInv, SqliteType, EndTxn
<1>6. SqliteType'
  <2>1. committed' \subseteq 1..writes /\ promised' \subseteq 1..writes
    BY <1>4 DEF SqliteIInv, SqliteType
  <2>2. writer' \in Programs \cup {Nobody}
    BY <1>4 DEF SqliteIInv, SqliteType, EndTxn
  <2> QED
    BY <1>1, <1>3, <1>5, <2>1, <2>2 DEF SqliteIInv, SqliteType, statementVars
<1>7. PromisedIsKept'
  BY <1>3, <1>4 DEF SqliteIInv, PromisedIsKept
<1>8. ASSUME NEW q \in Programs, q # p PROVE (Guarded(q) /\ Pending(q))'
  <2>1. pending[q] # {} => writer = q
    BY DEF SqliteIInv, Pending
  <2>2. pending[q] # {} => pending[p] = {}
    BY <1>2, <1>8, <2>1 DEF Pending
  <2>3. pending[q] # {} => writer' = writer /\ committed' = committed
    BY <1>4, <1>8, <2>1, <2>2 DEF EndTxn
  <2>4. q \in refused => q \in refused'
    BY <1>3
  <2> QED
    BY <1>1, <1>3, <1>5, <1>8, <2>3, <2>4, OthersKeep
<1>9. (Guarded(p) /\ Pending(p))'
  <2>1. CASE EndTxn(p) /\ Last(guards[p]) = TRUE
    <3>1. in_txn'[p] = FALSE /\ pending'[p] = {}
      BY <2>1 DEF SqliteIInv, SqliteType, EndTxn
    <3>2. \A i \in 1..Len(guards'[p]) : guards'[p][i] # TRUE
      <4>1. ASSUME NEW i \in 1..Len(guards'[p]), guards'[p][i] = TRUE PROVE FALSE
        <5>1. i \in 1..Len(guards[p]) - 1 /\ guards[p][i] = TRUE
          BY <1>1, <4>1
        <5>2. i \in 1..Len(guards[p]) /\ i # Len(guards[p])
          BY <1>1, <5>1
        <5> QED
          BY <1>1, <1>2, <2>1, <5>1, <5>2 DEF Guarded
      <4> QED
        BY <4>1
    <3> QED
      BY <3>1, <3>2 DEF Guarded, Pending
  <2>2. CASE /\ UNCHANGED <<committed, promised, in_txn, pending, writer>>
             /\ Last(guards[p]) = TRUE /\ p \in refused'
    <3>1. \A i \in 1..Len(guards'[p]) : guards'[p][i] = TRUE => i \in 1..Len(guards[p]) /\ guards[p][i] = TRUE
      BY <1>1
    <3> QED
      BY <1>2, <2>2, <3>1 DEF Guarded, Pending
  <2>3. CASE /\ UNCHANGED <<committed, promised, in_txn, pending, writer>>
             /\ Last(guards[p]) # TRUE
    <3>1. \A i \in 1..Len(guards'[p]) : guards'[p][i] = TRUE => i \in 1..Len(guards[p]) /\ guards[p][i] = TRUE
      BY <1>1
    <3>2. \A i \in 1..Len(guards[p]) : guards[p][i] = TRUE => i \in 1..Len(guards'[p]) /\ guards'[p][i] = TRUE
      <4>1. ASSUME NEW i \in 1..Len(guards[p]), guards[p][i] = TRUE
            PROVE  i \in 1..Len(guards'[p]) /\ guards'[p][i] = TRUE
        <5>1. i # Len(guards[p])
          BY <1>1, <2>3, <4>1
        <5>2. i \in 1..Len(guards[p]) - 1
          BY <1>1, <5>1
        <5> QED
          BY <1>1, <4>1, <5>2
      <4> QED
        BY <4>1
    <3>3. p \notin refused' => p \notin refused
      BY <1>3
    <3> QED
      BY <1>2, <2>3, <3>1, <3>2, <3>3 DEF Guarded, Pending
  <2> QED
    BY <1>4, <2>1, <2>2, <2>3
<1> QED
  BY <1>3, <1>6, <1>7, <1>8, <1>9 DEF SqliteIInv, Bindable, statementVars

\* A connection is closed and opened again.
LEMMA ReopenKeeps ==
  ASSUME SqliteIInv, NEW p \in Programs, Reopen(p)
  PROVE  SqliteIInv'
<1>1. /\ UNCHANGED <<committed, writes, guards, promised, stray, statementVars>> /\ EndTxn(p)
      /\ guards[p] = <<>> /\ refused' = refused \ {p}
  BY DEF Reopen
<1>2. /\ in_txn' \in [Programs -> BOOLEAN] /\ pending' \in [Programs -> SUBSET (1..writes)]
      /\ \A q \in Programs : q # p => in_txn'[q] = in_txn[q] /\ pending'[q] = pending[q]
      /\ in_txn'[p] = FALSE /\ pending'[p] = {}
  BY <1>1 DEF SqliteIInv, SqliteType, EndTxn
<1>3. SqliteType'
  <2>1. writer' \in Programs \cup {Nobody}
    BY <1>1 DEF SqliteIInv, SqliteType, EndTxn
  <2> QED
    BY <1>1, <1>2, <2>1 DEF SqliteIInv, SqliteType, statementVars
<1>4. ASSUME NEW q \in Programs, q # p PROVE (Guarded(q) /\ Pending(q))'
  <2>1. pending[q] # {} => writer = q /\ writer' = writer
    BY <1>1, <1>4 DEF SqliteIInv, Pending, EndTxn
  <2> QED
    BY <1>1, <1>2, <1>4, <2>1, OthersKeep
<1>5. (Guarded(p) /\ Pending(p))'
  BY <1>1, <1>2 DEF Guarded, Pending
<1> QED
  BY <1>1, <1>3, <1>4, <1>5 DEF SqliteIInv, Bindable, statementVars, PromisedIsKept

\* No program has opened a transaction yet.
LEMMA SqliteBegins == SqliteInit => SqliteIInv
<1> SUFFICES ASSUME SqliteInit PROVE SqliteIInv
  OBVIOUS
<1>1. \A p \in Programs : guards[p] = <<>> /\ in_txn[p] = FALSE /\ pending[p] = {} /\ cursor[p] = "none"
  BY DEF SqliteInit
<1>2. SqliteType
  <2>1. in_txn \in [Programs -> BOOLEAN] /\ stepped \in [Programs -> BOOLEAN] /\ moved \in [Programs -> BOOLEAN]
    BY DEF SqliteInit
  <2>2. guards \in [Programs -> Seq(BOOLEAN)] /\ \A p \in Programs : Len(guards[p]) <= 2
    BY DEF SqliteInit
  <2>3. /\ pending \in [Programs -> SUBSET (1..writes)] /\ cursor \in [Programs -> {"none", "ready", "row", "halted"}]
        /\ writes \in Nat /\ committed \subseteq 1..writes /\ promised \subseteq 1..writes
        /\ writer \in Programs \cup {Nobody}
    BY DEF SqliteInit
  <2> QED
    BY <2>1, <2>2, <2>3 DEF SqliteType
<1>3. PromisedIsKept
  BY DEF SqliteInit, PromisedIsKept
<1>4. \A p \in Programs : Guarded(p) /\ Pending(p) /\ Bindable(p)
  BY <1>1 DEF Guarded, Pending, Bindable
<1> QED
  BY <1>2, <1>3, <1>4 DEF SqliteIInv

\* Every step of a program, and its death, keep it.
LEMMA SqliteStays == SqliteIInv /\ [SqliteNext]_sqliteVars => SqliteIInv'
<1> SUFFICES ASSUME SqliteIInv, [SqliteNext]_sqliteVars PROVE SqliteIInv'
  OBVIOUS
<1>1. CASE UNCHANGED sqliteVars
  BY <1>1 DEF sqliteVars, dataVars, statementVars, SqliteIInv, SqliteType, PromisedIsKept, Guarded,
     Pending, Bindable
<1> QED
  BY <1>1, StatementKeeps, BeginGuardKeeps, ExecKeeps, EndKeepsSqlite, ReopenKeeps DEF SqliteNext

\* It implies what SQLite and its guards promise.
LEMMA SqliteHolds == SqliteIInv => SqliteInv
<1> SUFFICES ASSUME SqliteIInv PROVE SqliteInv
  OBVIOUS
<1>1. ASSUME NEW p \in Programs
      PROVE  /\ DOMAIN guards[p] = 1..Len(guards[p]) /\ guards[p] \in BoundedSeq(BOOLEAN, 2)
             /\ \A g \in DOMAIN guards[p] : guards[p][g] \in BOOLEAN
  <2>1. guards[p] \in Seq(BOOLEAN) /\ Len(guards[p]) <= 2
    BY DEF SqliteIInv, SqliteType
  <2>2. Len(guards[p]) \in Nat /\ guards[p] \in [1..Len(guards[p]) -> BOOLEAN]
    BY <2>1, LenProperties
  <2>3. Len(guards[p]) \in 0..2
    <3>1. \A n \in Nat : n <= 2 => n \in 0..2
      OBVIOUS
    <3>2. Len(guards[p]) \in Nat /\ Len(guards[p]) <= 2
      BY ONLY <2>1, <2>2
    <3> QED
      BY ONLY <3>1, <3>2, Zenon
  <2>4. guards[p] \in BoundedSeq(BOOLEAN, 2)
    <3>1. \E m \in 0..2 : guards[p] \in [1..m -> BOOLEAN]
      BY ONLY <2>2, <2>3
    <3> QED
      BY <3>1 DEF BoundedSeq, SeqOf
  <2>5. DOMAIN guards[p] = 1..Len(guards[p]) /\ \A g \in DOMAIN guards[p] : guards[p][g] \in BOOLEAN
    BY ONLY <2>2
  <2> QED
    BY <2>4, <2>5
<1>2. SqliteTypeOK
  BY <1>1 DEF SqliteIInv, SqliteType, SqliteTypeOK
<1>3. GuardedTransaction
  <2> SUFFICES ASSUME NEW p \in Programs
               PROVE  /\ Active(p) => in_txn[p] /\ Cardinality({g \in DOMAIN guards[p] : guards[p][g]}) = 1
                      /\ in_txn[p] /\ p \notin refused => Active(p)
    BY DEF GuardedTransaction
  <2>1. Guarded(p) /\ in_txn[p] \in BOOLEAN
    BY DEF SqliteIInv, SqliteType
  <2>2. ASSUME Active(p) PROVE in_txn[p] /\ Cardinality({g \in DOMAIN guards[p] : guards[p][g]}) = 1
    <3>1. PICK g \in DOMAIN guards[p] : guards[p][g] = TRUE
      BY <1>1, <2>2 DEF Active
    <3>2. {h \in DOMAIN guards[p] : guards[p][h]} = {g}
      <4>1. \A h \in DOMAIN guards[p] : guards[p][h] = TRUE => h = g
        BY <1>1, <2>1, <3>1 DEF Guarded
      <4> QED
        BY <1>1, <3>1, <4>1
    <3>3. in_txn[p] = TRUE
      BY <1>1, <2>1, <3>1 DEF Guarded
    <3> QED
      BY <3>2, <3>3, FS_Singleton
  <2>3. in_txn[p] /\ p \notin refused => Active(p)
    BY <1>1, <2>1 DEF Guarded, Active
  <2> QED
    BY <2>2, <2>3
<1>4. NothingHalf
  BY DEF SqliteIInv, SqliteType, Pending, NothingHalf
<1>5. BindSucceeds
  BY DEF SqliteIInv, SqliteType, Bindable, BindSucceeds
<1> QED
  BY <1>2, <1>3, <1>4, <1>5 DEF SqliteIInv, SqliteInv

\* Whoever writes, commits and leaves a scope when: a transaction belongs to one active
\* guard, what was reported as done is in the file, nobody sees half of it, and a
\* statement is reset before it is bound.
THEOREM SqliteKept == SqliteSpec => []SqliteInv
BY SqliteBegins, SqliteStays, SqliteHolds, PTL DEF SqliteSpec

-----------------------------------------------------------------------------
(***************************************************************************)
(* Locks across programs: what is promised is inductive with the types.    *)
(***************************************************************************)

FileLockType ==
  /\ lock_mode \in [Lockers -> {"exclusive", "shared", "mutex"}]
  /\ lock_path \in [Lockers -> LockFiles]
  /\ lock_open \in [Lockers -> BOOLEAN] /\ lock_held \in [Lockers -> BOOLEAN]
  /\ flocks \in [Lockers -> {"no", "shared", "exclusive"}]
  /\ lock_heir \in [Lockers -> BOOLEAN]

Told(o) ==
  /\ lock_held[o] = TRUE => lock_open[o] = TRUE /\ flocks[o] = Wanted(o)
  /\ lock_held[o] = FALSE => flocks[o] = "no"

Agree(o, q) ==
  o # q /\ lock_held[o] = TRUE /\ lock_held[q] = TRUE /\ lock_path[o] = lock_path[q] =>
    lock_mode[o] = "shared" /\ lock_mode[q] = "shared"

FileLockIInv ==
  /\ FileLockType /\ UnlockFrees
  /\ \A o \in Lockers : Told(o)
  /\ \A o, q \in Lockers : Agree(o, q)

\* Who holds nothing agrees with everybody: a step of one object keeps the invariant if
\* the object holds nothing afterwards.
LEMMA LetGoKeeps ==
  ASSUME FileLockIInv, NEW o \in Lockers, FileLockType', UnlockFrees',
         lock_held'[o] = FALSE, flocks'[o] = "no",
         \A q \in Lockers : q # o =>
           /\ lock_held'[q] = lock_held[q] /\ lock_open'[q] = lock_open[q]
           /\ flocks'[q] = flocks[q] /\ lock_path'[q] = lock_path[q],
         lock_mode' = lock_mode
  PROVE  FileLockIInv'
<1>1. \A q \in Lockers : Told(q)'
  BY DEF FileLockIInv, Told, Wanted
<1>2. \A q, r \in Lockers : Agree(q, r)'
  BY DEF FileLockIInv, Agree
<1> QED
  BY <1>1, <1>2 DEF FileLockIInv

\* flock() grants a lock that is free, or a second one to readers.
LEMMA TryLockKeeps ==
  ASSUME FileLockIInv, NEW o \in Lockers, TryLock(o)
  PROVE  FileLockIInv'
<1> USE DEF FileLockIInv
<1>1. Wanted(o) \in {"shared", "exclusive"} /\ (Wanted(o) = "shared" <=> lock_mode[o] = "shared")
  BY DEF FileLockType, Wanted
<1>2. FileLockType'
  BY <1>1 DEF FileLockType, TryLock
<1>3. UnlockFrees'
  BY DEF UnlockFrees, TryLock
<1>4. /\ lock_mode' = lock_mode /\ lock_path' = lock_path
      /\ lock_held'[o] = TRUE /\ lock_open'[o] = TRUE /\ flocks'[o] = Wanted(o)
      /\ \A q \in Lockers : q # o =>
           lock_held'[q] = lock_held[q] /\ lock_open'[q] = lock_open[q] /\ flocks'[q] = flocks[q]
  BY DEF FileLockType, TryLock
<1>5. \A q \in Lockers : Told(q)'
  BY <1>4 DEF Told, Wanted
<1>6. ASSUME NEW q \in Lockers, q # o, lock_held[q] = TRUE, lock_path[q] = lock_path[o]
      PROVE  lock_mode[o] = "shared" /\ lock_mode[q] = "shared"
  <2>1. ~Conflict(Wanted(o), flocks[q]) /\ flocks[q] = Wanted(q)
    BY <1>6 DEF TryLock, Grants, Told
  <2>2. Wanted(q) \in {"shared", "exclusive"} /\ (Wanted(q) = "shared" <=> lock_mode[q] = "shared")
    BY DEF FileLockType, Wanted
  <2> QED
    BY <1>1, <2>1, <2>2 DEF Conflict
<1>7. ASSUME NEW q \in Lockers, NEW r \in Lockers PROVE Agree(q, r)'
  <2>1. CASE q # o /\ r # o
    <3>1. Agree(q, r)
      OBVIOUS
    <3> QED
      BY <1>4, <2>1, <3>1 DEF Agree
  <2>2. CASE q = o /\ r # o
    BY <1>4, <1>6, <2>2 DEF Agree
  <2>3. CASE q # o /\ r = o
    BY <1>4, <1>6, <2>3 DEF Agree
  <2>4. CASE q = r
    BY <2>4 DEF Agree
  <2> QED
    BY <2>1, <2>2, <2>3, <2>4
<1> QED
  BY <1>2, <1>3, <1>5, <1>7

\* A file that is closed leaves an orphan of its lock at most, and of no lock if the
\* lock was undone before.
LEMMA CloseFileKeeps ==
  ASSUME FileLockIInv, NEW o \in Lockers, NEW mode, NEW cause, CloseFile(o, mode, cause),
         mode = "no" \/ cause # "unlock", lock_mode' = lock_mode,
         lock_path' \in [Lockers -> LockFiles],
         \A q \in Lockers : q # o => lock_path'[q] = lock_path[q]
  PROVE  FileLockIInv'
<1>1. FileLockType'
  BY DEF FileLockIInv, FileLockType, CloseFile
<1>2. UnlockFrees'
  <2>1. orphans' = orphans \/ (cause # "unlock" /\
          orphans' = orphans \cup {[path |-> lock_path[o], mode |-> mode, cause |-> cause]})
    BY DEF CloseFile
  <2> QED
    BY <2>1 DEF FileLockIInv, UnlockFrees
<1>3. /\ lock_held'[o] = FALSE /\ flocks'[o] = "no"
      /\ \A q \in Lockers : q # o =>
           lock_held'[q] = lock_held[q] /\ lock_open'[q] = lock_open[q] /\ flocks'[q] = flocks[q]
  BY DEF FileLockIInv, FileLockType, CloseFile
<1> QED
  BY <1>1, <1>2, <1>3, LetGoKeeps

\* unlock(), release(), and set_path(), which releases first.
LEMMA ReleaseKeeps ==
  ASSUME FileLockIInv, NEW o \in Lockers, Release(o)
  PROVE  FileLockIInv'
<1>1. lock_mode' = lock_mode /\ lock_path' = lock_path /\ lock_path \in [Lockers -> LockFiles]
  BY DEF Release, FileLockIInv, FileLockType
<1>2. CASE Unlock(o)
  BY <1>1, <1>2, CloseFileKeeps DEF Unlock
<1>3. CASE ReleaseMutex(o)
  <2>1. FileLockType' /\ UnlockFrees'
    BY <1>1, <1>3 DEF FileLockIInv, FileLockType, UnlockFrees, ReleaseMutex
  <2>2. /\ lock_held'[o] = FALSE /\ flocks'[o] = "no"
        /\ \A q \in Lockers : q # o =>
             lock_held'[q] = lock_held[q] /\ lock_open'[q] = lock_open[q] /\ flocks'[q] = flocks[q]
    BY <1>3 DEF FileLockIInv, FileLockType, ReleaseMutex
  <2> QED
    BY <1>1, <2>1, <2>2, LetGoKeeps
<1> QED
  BY <1>2, <1>3 DEF Release

\* Another path: the lock on the old one is let go first.
LEMMA SetPathKeeps ==
  ASSUME FileLockIInv, NEW o \in Lockers, NEW f \in LockFiles, SetPath(o, f)
  PROVE  FileLockIInv'
<1>1. /\ lock_mode' = lock_mode /\ lock_path' \in [Lockers -> LockFiles]
      /\ \A q \in Lockers : q # o => lock_path'[q] = lock_path[q]
  BY DEF SetPath, FileLockIInv, FileLockType
<1>2. CASE Unlock(o)
  BY <1>1, <1>2, CloseFileKeeps DEF Unlock
<1>3. CASE lock_held[o] = FALSE /\ UNCHANGED <<lock_open, lock_held, flocks, lock_heir, orphans>>
  <2>1. FileLockType' /\ UnlockFrees'
    BY <1>1, <1>3 DEF FileLockIInv, FileLockType, UnlockFrees
  <2>2. lock_held'[o] = FALSE /\ flocks'[o] = "no"
    BY <1>3 DEF FileLockIInv, Told
  <2> QED
    BY <1>1, <1>3, <2>1, <2>2, LetGoKeeps
<1>4. lock_held[o] \in BOOLEAN
  BY DEF FileLockIInv, FileLockType
<1> QED
  BY <1>2, <1>3, <1>4 DEF SetPath

\* What leaves the locks of the programs as they are: a mutex is opened, a child is
\* started or ends.
LEMMA NothingHeldChanges ==
  ASSUME FileLockIInv, UNCHANGED <<lock_mode, lock_path, lock_held, flocks>>, FileLockType',
         \A o \in Lockers : lock_open[o] = TRUE => lock_open'[o] = TRUE,
         orphans' \subseteq orphans
  PROVE  FileLockIInv'
BY DEF FileLockIInv, UnlockFrees, Told, Wanted, Agree

\* Nothing is open and nothing is held.
LEMMA FileLockBegins == FileLockInit => FileLockIInv
<1> SUFFICES ASSUME FileLockInit PROVE FileLockIInv
  OBVIOUS
<1>1. \A o \in Lockers : lock_held[o] = FALSE /\ flocks[o] = "no"
  BY DEF FileLockInit
<1>2. FileLockType
  <2>1. lock_open \in [Lockers -> BOOLEAN]
    <3>1. \A o \in Lockers : (lock_mode[o] = "mutex") \in BOOLEAN
      OBVIOUS
    <3> QED
      BY <3>1 DEF FileLockInit
  <2>2. lock_held \in [Lockers -> BOOLEAN] /\ lock_heir \in [Lockers -> BOOLEAN]
    BY DEF FileLockInit
  <2> QED
    BY <2>1, <2>2 DEF FileLockInit, FileLockType
<1>3. UnlockFrees
  BY DEF FileLockInit, UnlockFrees
<1> QED
  BY <1>1, <1>2, <1>3 DEF FileLockIInv, Told, Agree

\* Every step of a lock and of its program keeps it.
LEMMA FileLockStays == FileLockIInv /\ [FileLockNext]_fileLockVars => FileLockIInv'
<1> SUFFICES ASSUME FileLockIInv, [FileLockNext]_fileLockVars PROVE FileLockIInv'
  OBVIOUS
<1>1. CASE UNCHANGED fileLockVars
  BY <1>1 DEF fileLockVars, FileLockIInv, FileLockType, UnlockFrees, Told, Wanted, Agree
<1>2. ASSUME NEW o \in Lockers, Destroy(o) \/ Crash(o) PROVE FileLockIInv'
  <2>1. lock_mode' = lock_mode /\ lock_path' = lock_path /\ lock_path \in [Lockers -> LockFiles]
    BY <1>2 DEF Destroy, Crash, FileLockIInv, FileLockType
  <2>2. CloseFile(o, flocks[o], "destroyed") \/ CloseFile(o, flocks[o], "crash")
    BY <1>2 DEF Destroy, Crash
  <2> QED
    BY <2>1, <2>2, CloseFileKeeps, "destroyed" # "unlock", "crash" # "unlock"
<1>3. ASSUME NEW o \in Lockers, Construct(o) PROVE FileLockIInv'
  <2>1. FileLockType'
    BY <1>3 DEF Construct, FileLockIInv, FileLockType
  <2>2. \A q \in Lockers : lock_open[q] = TRUE => lock_open'[q] = TRUE
    BY <1>3 DEF Construct, FileLockIInv, FileLockType
  <2> QED
    BY <1>3, <2>1, <2>2, NothingHeldChanges DEF Construct
<1>4. ASSUME NEW o \in Lockers, ForkChild(o) PROVE FileLockIInv'
  <2>1. FileLockType'
    BY <1>4 DEF ForkChild, FileLockIInv, FileLockType
  <2> QED
    BY <1>4, <2>1, NothingHeldChanges DEF ForkChild
<1>5. CASE ChildExits
  <2>1. FileLockType'
    BY <1>5 DEF ChildExits, FileLockIInv, FileLockType
  <2> QED
    BY <1>5, <2>1, NothingHeldChanges DEF ChildExits
<1> QED
  BY <1>1, <1>2, <1>3, <1>4, <1>5, TryLockKeeps, ReleaseKeeps, SetPathKeeps DEF FileLockNext

\* It implies what is told of the locks.
LEMMA FileLockHolds == FileLockIInv => FileLockInv
<1> SUFFICES ASSUME FileLockIInv PROVE FileLockInv
  OBVIOUS
<1>1. \A o \in Lockers : lock_held[o] \in BOOLEAN /\ Told(o)
  BY DEF FileLockIInv, FileLockType
<1>2. ToldIsHeld
  <2>1. ASSUME NEW o \in Lockers, lock_held[o] = TRUE PROVE flocks[o] # "no" /\ lock_open[o] = TRUE
    BY <1>1, <2>1 DEF Told, Wanted
  <2> QED
    BY <1>1, <2>1 DEF ToldIsHeld, Told
<1>3. OneWriter
  BY <1>1 DEF FileLockIInv, Agree, OneWriter
<1> QED
  BY <1>2, <1>3 DEF FileLockIInv, FileLockInv

\* What a program is told of its locks holds for any programs and files: who was
\* told it holds a lock does, writers are alone, and unlocking frees.
THEOREM FileLockKept == FileLockInit /\ [][FileLockNext]_fileLockVars => []FileLockInv
BY FileLockBegins, FileLockStays, FileLockHolds, PTL

-----------------------------------------------------------------------------
(***************************************************************************)
(* The file share, for any number of browsers and chunks.  As long as an   *)
(* upload is alone, the file is a part of its content, and the handlers    *)
(* know its size (Uploads); who takes back the word "complete" is who      *)
(* stands between the file and its row (CompleteIsTrue itself).            *)
(***************************************************************************)

\* The first chunks of a content.
Part(c, n) == [i \in 1..n |-> <<c, i>>]

ShareLabels ==
  {"idle", "init", "init row", "status", "put", "write", "measure", "touch", "touch row",
   "commit", "size", "sum", "commit row", "done", "delete", "delete row"}

Between == {"init row", "measure", "touch", "touch row", "delete row"}

Growing == {"init row", "status", "put", "write", "measure", "touch", "touch row"}

ShareType ==
  /\ share_at \in [Clients -> ShareLabels]
  /\ alone \in [Uploaders -> BOOLEAN] /\ torn \in BOOLEAN
  /\ DOMAIN offset = Uploaders /\ DOMAIN look = Clients /\ DOMAIN digest = Clients
  /\ row # Missing => DOMAIN row = {"size", "sha256", "complete", "old"}

\* How much of an upload is there, and who knows it.
Grown(c, n) ==
  /\ disk = Part(c, n)
  /\ share_at[c] = "write" => n < Chunks /\ offset[c] = n /\ look[c] = n
  /\ share_at[c] \in {"touch", "touch row"} => look[c] = n

Uploads(c) ==
  /\ share_at[c] \in Growing => \E n \in 0..Chunks : Grown(c, n)
  /\ share_at[c] \in {"put", "measure", "touch", "touch row"} => offset[c] < Chunks
  /\ share_at[c] \in {"commit", "size", "sum", "commit row", "done"} => disk = Part(c, Chunks)
  /\ share_at[c] \in {"sum", "commit row"} => look[c] = Chunks
  /\ share_at[c] = "commit row" => digest[c] = disk
  /\ share_at[c] = "done" => row.complete = TRUE /\ row.sha256 = disk /\ row.size = Chunks

Mine(c) ==
  alone[c] = TRUE =>
    /\ \A d \in Clients \ {c} : share_at[d] = "idle"
    /\ Uploads(c)

ShareIInv == ShareType /\ CompleteIsTrue /\ \A c \in Uploaders : Mine(c)

\* Parts of a content are sequences, and none of them is Missing.
LEMMA PartFacts ==
  ASSUME NEW c \in Uploaders, NEW n \in 0..Chunks
  PROVE  Part(c, n) \in Seq({c} \X Nat) /\ Len(Part(c, n)) = n /\ Part(c, n) # Missing
<1>1. n \in Nat
  BY ShareAssumption
<1>2. Part(c, n) \in [1..n -> {c} \X Nat] /\ DOMAIN Part(c, n) = 1..n
  BY <1>1 DEF Part
<1>3. Part(c, n) \in Seq({c} \X Nat)
  BY <1>1, <1>2, SeqDef
<1>4. Len(Part(c, n)) = n
  BY <1>1, <1>2, <1>3, LenProperties
<1>5. Part(c, n) # Missing
  BY ShareAssumption DEF Part
<1> QED
  BY <1>3, <1>4, <1>5

\* The whole content is a part, and so is nothing of it.
LEMMA WholePart ==
  Chunks \in Nat /\ Chunks \in 0..Chunks /\ 0 \in 0..Chunks
<1>1. Chunks \in Nat
  BY ShareAssumption
<1> QED
  BY ONLY <1>1

\* The chunk that follows a part makes the next part.
LEMMA PartGrows ==
  ASSUME NEW c \in Uploaders, NEW n \in 0..Chunks, n < Chunks
  PROVE  /\ Content(c)[n + 1] = <<c, n + 1>> /\ n + 1 \in 0..Chunks
         /\ Append(Part(c, n), <<c, n + 1>>) = Part(c, n + 1)
         /\ <<<<c, 1>>>> = Part(c, 1)
<1>1. n \in Nat /\ Chunks \in Nat /\ n + 1 \in 0..Chunks /\ n + 1 \in 1..Chunks
  BY ShareAssumption
<1>2. Content(c)[n + 1] = <<c, n + 1>>
  BY <1>1 DEF Content
<1> DEFINE s == Part(c, n)
           e == <<c, n + 1>>
           t == Append(s, e)
           u == Part(c, n + 1)
<1>3. s \in Seq({c} \X Nat) /\ Len(s) = n /\ u \in Seq({c} \X Nat) /\ Len(u) = n + 1
  BY <1>1, PartFacts
<1>4. e \in {c} \X Nat /\ s \in [1..n -> {c} \X Nat] /\ \A i \in 1..n : s[i] = <<c, i>>
  BY <1>1 DEF Part
<1>5. \A i \in 1..n + 1 : u[i] = <<c, i>>
  BY <1>1 DEF Part
<1>6. t \in Seq({c} \X Nat) /\ Len(t) = n + 1 /\ (\A i \in 1..n : t[i] = s[i]) /\ t[n + 1] = e
  <2> HIDE DEF s, e
  <2> QED
    BY <1>3, <1>4, AppendProperties
<1>7. \A i \in 1..n + 1 : t[i] = u[i]
  <2>1. \A i \in 1..n + 1 : i \in 1..n \/ i = n + 1
    BY <1>1
  <2> HIDE DEF t, u, s
  <2>2. t[n + 1] = u[n + 1]
    BY <1>1, <1>5, <1>6
  <2>3. \A i \in 1..n : t[i] = u[i]
    <3>1. \A i \in 1..n : i \in 1..n + 1
      BY <1>1
    <3> QED
      BY <1>4, <1>5, <1>6, <3>1
  <2> QED
    BY <2>1, <2>2, <2>3
<1>8. t = u
  <2> HIDE DEF t, u
  <2> QED
    BY <1>3, <1>6, <1>7, SeqEqual
<1>9. <<<<c, 1>>>> = Part(c, 1)
  <2>1. Part(c, 1) = [i \in 1..1 |-> <<c, i>>]
    BY DEF Part
  <2>2. <<<<c, 1>>>> \in Seq({c} \X Nat) /\ Len(<<<<c, 1>>>>) = 1 /\ <<<<c, 1>>>>[1] = <<c, 1>>
    OBVIOUS
  <2>3. 1 \in 0..Chunks
    BY <1>1
  <2>4. Part(c, 1) \in Seq({c} \X Nat) /\ Len(Part(c, 1)) = 1 /\ Part(c, 1)[1] = <<c, 1>>
    BY <2>1, <2>3, PartFacts
  <2>5. \A i \in 1..1 : i = 1
    OBVIOUS
  <2> QED
    BY <2>2, <2>4, <2>5, SeqEqual
<1> QED
  BY <1>1, <1>2, <1>8, <1>9

\* What is there of an upload has its size.
LEMMA GrownSize ==
  ASSUME NEW c \in Uploaders, NEW n \in 0..Chunks, disk = Part(c, n)
  PROVE  Size = n /\ n \in Nat /\ n <= Chunks /\ Chunks \in Nat
<1>1. Part(c, n) # Missing /\ Len(Part(c, n)) = n
  BY PartFacts
<1> QED
  BY <1>1, ShareAssumption DEF Size

\* A client's step, seen by the other uploads: none of them is alone.
LEMMA NotAlone ==
  ASSUME ShareIInv, NEW c \in Clients, share_at[c] # "idle", NEW u \in Uploaders, u # c,
         alone'[u] = alone[u]
  PROVE  Mine(u)'
<1>1. alone[u] # TRUE
  BY DEF ShareIInv, Mine, Clients
<1> QED
  BY <1>1 DEF Mine

\* The word "complete": the row loses it, somebody stands between the file and its row, or
\* nothing that matters changes.
LEMMA WordKept ==
  ASSUME ShareIInv, NEW c \in Clients, NEW l \in ShareLabels, To(c, l),
         \/ l \in Between
         \/ row' = Missing
         \/ row'.complete = FALSE
         \/ UNCHANGED <<disk, row, torn>> /\ share_at[c] \notin Between
  PROVE  CompleteIsTrue'
<1>1. /\ share_at'[c] = l /\ \A d \in Clients : d # c => share_at'[d] = share_at[d]
  BY DEF To, ShareIInv, ShareType
<1>2. CASE l \in Between
  BY <1>1, <1>2 DEF CompleteIsTrue, BetweenFileAndRow, Between
<1>3. CASE row' = Missing \/ row'.complete = FALSE
  BY <1>3 DEF CompleteIsTrue
<1>4. CASE UNCHANGED <<disk, row, torn>> /\ share_at[c] \notin Between
  <2>1. BetweenFileAndRow => BetweenFileAndRow'
    BY <1>1, <1>4 DEF BetweenFileAndRow, Between
  <2> QED
    BY <1>4, <2>1 DEF ShareIInv, CompleteIsTrue, Size
<1> QED
  BY <1>2, <1>3, <1>4

\* One step of an upload: the types, the others, and the word "complete" are settled here,
\* what is left is the upload itself.
LEMMA StepKeeps ==
  ASSUME ShareIInv, NEW c \in Clients, share_at[c] # "idle", NEW l \in ShareLabels, To(c, l),
         \A u \in Uploaders : u # c => alone'[u] = alone[u],
         alone' \in [Uploaders -> BOOLEAN], torn' \in BOOLEAN,
         DOMAIN offset' = Uploaders, DOMAIN look' = Clients, DOMAIN digest' = Clients,
         row' # Missing => DOMAIN row' = {"size", "sha256", "complete", "old"},
         CompleteIsTrue',
         c \in Uploaders /\ alone'[c] = TRUE => Uploads(c)' /\ alone[c] = TRUE
  PROVE  ShareIInv'
<1>1. /\ share_at'[c] = l /\ share_at' \in [Clients -> ShareLabels]
      /\ \A d \in Clients : d # c => share_at'[d] = share_at[d]
  BY DEF To, ShareIInv, ShareType
<1>2. ShareType'
  BY <1>1 DEF ShareType
<1>3. ASSUME NEW u \in Uploaders PROVE Mine(u)'
  <2>1. CASE u # c
    BY <2>1, NotAlone
  <2>2. CASE u = c
    <3>1. alone[c] = TRUE => \A d \in Clients \ {c} : share_at[d] = "idle"
      BY <2>2 DEF ShareIInv, Mine
    <3> QED
      BY <1>1, <2>2, <3>1 DEF Mine
  <2> QED
    BY <2>1, <2>2
<1> QED
  BY <1>2, <1>3 DEF ShareIInv

\* A request begins: who was alone is so no more.
LEMMA UploadBeginKeeps ==
  ASSUME ShareIInv, NEW c \in Clients, NEW l \in {"init", "delete"}, Begin(c, l),
         l = "init" => c \in Uploaders, l = "delete" => c = Keeper,
         UNCHANGED <<disk, row, offset, digest, torn>>, DOMAIN look' = Clients
  PROVE  ShareIInv'
<1>1. /\ share_at'[c] = l /\ share_at' \in [Clients -> ShareLabels] /\ share_at[c] = "idle"
      /\ \A d \in Clients : d # c => share_at'[d] = share_at[d]
  BY DEF Begin, At, To, ShareIInv, ShareType, ShareLabels
<1>2. /\ alone' \in [Uploaders -> BOOLEAN]
      /\ \A u \in Uploaders : alone'[u] = TRUE => u = c /\ \A d \in Clients \ {c} : share_at[d] = "idle"
  BY DEF Begin, At
<1>3. ShareType'
  BY <1>1, <1>2 DEF ShareIInv, ShareType
<1>4. CompleteIsTrue'
  <2>1. l \in ShareLabels /\ share_at[c] \notin Between
    BY <1>1 DEF ShareLabels, Between
  <2> QED
    BY <2>1, WordKept DEF Begin
<1>5. \A u \in Uploaders : Mine(u)'
  <2>1. ASSUME NEW u \in Uploaders, alone'[u] = TRUE
        PROVE  Uploads(u)' /\ \A d \in Clients \ {u} : share_at'[d] = "idle"
    <3>1. share_at'[u] = "init"
      BY <1>1, <1>2, <2>1, ShareAssumption
    <3> QED
      BY <1>1, <1>2, <2>1, <3>1 DEF Uploads, Growing
  <2> QED
    BY <2>1 DEF Mine
<1> QED
  BY <1>3, <1>4, <1>5 DEF ShareIInv

\* init() keeps a file of the announced size - of this content, if the upload stays alone -
\* or begins with an empty one.
LEMMA InitFileKeeps ==
  ASSUME ShareIInv, NEW c \in Uploaders, InitFile(c)
  PROVE  ShareIInv'
<1>1. /\ c \in Clients /\ share_at[c] = "init" /\ To(c, "init row")
      /\ UNCHANGED <<row, offset, look, digest, torn, requests>>
      /\ alone' = [alone EXCEPT ![c] = @ /\ (look[c] = Chunks => disk = Content(c))]
      /\ disk' = IF look[c] = Chunks THEN disk ELSE <<>>
  BY DEF InitFile, At, Clients, KeepOrTruncate
<1>2. "init row" \in ShareLabels /\ "init row" \in Between
  BY DEF ShareLabels, Between
<1>3. /\ \A u \in Uploaders : u # c => alone'[u] = alone[u]
      /\ alone' \in [Uploaders -> BOOLEAN]
      /\ alone'[c] = TRUE => alone[c] = TRUE /\ (look[c] = Chunks => disk = Content(c))
  <2>1. alone \in [Uploaders -> BOOLEAN]
    BY DEF ShareIInv, ShareType
  <2>2. (alone[c] /\ (look[c] = Chunks => disk = Content(c))) \in BOOLEAN
    OBVIOUS
  <2> QED
    BY <1>1, <2>1, <2>2
<1>4. CompleteIsTrue'
  BY <1>1, <1>2, WordKept
<1>5. ASSUME alone'[c] = TRUE PROVE Uploads(c)'
  <2>1. share_at'[c] = "init row"
    BY <1>1 DEF To, ShareIInv, ShareType
  <2>2. \E n \in 0..Chunks : disk' = Part(c, n)
    <3>1. CASE look[c] = Chunks
      <4>1. disk' = Content(c)
        BY <1>1, <1>3, <1>5, <3>1
      <4> QED
        BY <4>1, WholePart DEF Content, Part
    <3>2. CASE look[c] # Chunks
      <4>1. Part(c, 0) = <<>> /\ 0 \in 0..Chunks
        BY WholePart DEF Part
      <4> QED
        BY <1>1, <3>2, <4>1
    <3> QED
      BY <3>1, <3>2
  <2> QED
    BY <2>1, <2>2 DEF Uploads, Grown, Growing
<1> QED
  BY <1>1, <1>2, <1>3, <1>4, <1>5, StepKeeps DEF ShareIInv, ShareType

\* The row of a new upload, which is not complete.
LEMMA InitRowKeeps ==
  ASSUME ShareIInv, NEW c \in Uploaders, InitRow(c)
  PROVE  ShareIInv'
<1>1. /\ c \in Clients /\ share_at[c] = "init row" /\ To(c, "status") /\ "status" \in ShareLabels
      /\ UNCHANGED <<disk, offset, look, digest, alone, torn, requests>>
      /\ row' = [size |-> Chunks, sha256 |-> Missing, complete |-> FALSE, old |-> FALSE]
  BY DEF InitRow, At, Clients, Upsert, ShareLabels
<1>2. row'.complete = FALSE /\ DOMAIN row' = {"size", "sha256", "complete", "old"}
  BY <1>1
<1>3. CompleteIsTrue'
  BY <1>1, <1>2, WordKept
<1>4. ASSUME alone[c] = TRUE PROVE Uploads(c)'
  <2>1. Uploads(c)
    BY <1>4 DEF ShareIInv, Mine
  <2>2. share_at'[c] = "status"
    BY <1>1 DEF To, ShareIInv, ShareType
  <2> QED
    BY <1>1, <2>1, <2>2 DEF Uploads, Grown, Growing
<1> QED
  BY <1>1, <1>2, <1>3, <1>4, StepKeeps DEF ShareIInv, ShareType

\* The page goes on where the file ends.
LEMMA StatusKeeps ==
  ASSUME ShareIInv, NEW c \in Uploaders, Status(c)
  PROVE  ShareIInv'
<1> DEFINE l == IF Size < Chunks \/ Size > Chunks THEN "put" ELSE "commit"
<1>1. /\ c \in Clients /\ share_at[c] = "status" /\ To(c, l) /\ l \in ShareLabels
      /\ UNCHANGED <<disk, row, look, digest, alone, torn, requests>>
      /\ offset' = [offset EXCEPT ![c] = IF Size > Chunks THEN 0 ELSE Size]
      /\ share_at[c] \notin Between
  BY DEF Status, At, Clients, ShareLabels, Between
<1>2. share_at'[c] = l
  BY <1>1 DEF To, ShareIInv, ShareType
<1>3. CompleteIsTrue'
  <2> HIDE DEF l
  <2> QED
    BY <1>1, WordKept
<1>4. ASSUME alone[c] = TRUE PROVE Uploads(c)'
  <2>1. PICK n \in 0..Chunks : disk = Part(c, n)
    BY <1>1, <1>4 DEF ShareIInv, Mine, Uploads, Growing, Grown
  <2>2. Size = n /\ n \in Nat /\ n <= Chunks /\ Chunks \in Nat
    BY <2>1, GrownSize
  <2>3. offset'[c] = n
    BY <1>1, <2>2 DEF ShareIInv, ShareType
  <2>4. CASE n < Chunks
    <3>1. share_at'[c] = "put"
      BY <1>2, <2>2, <2>4
    <3> QED
      BY <1>1, <2>1, <2>3, <2>4, <3>1 DEF Uploads, Grown, Growing
  <2>5. CASE n = Chunks
    <3>1. share_at'[c] = "commit"
      BY <1>2, <2>2, <2>5
    <3> QED
      BY <1>1, <2>1, <2>5, <3>1 DEF Uploads, Growing
  <2> QED
    BY <2>2, <2>4, <2>5
<1> HIDE DEF l
<1> QED
  BY <1>1, <1>3, <1>4, StepKeeps DEF ShareIInv, ShareType

\* The page follows a reply that tells it the size.
LEMMA Follows ==
  ASSUME ShareIInv, NEW c \in Uploaders, NEW n \in 0..Chunks, NEW ok, Follow(c, n, ok),
         disk' = disk, disk = Part(c, n)
  PROVE  Uploads(c)'
<1>1. n \in Nat /\ Chunks \in Nat /\ n <= Chunks
  BY ShareAssumption
<1>2. offset'[c] = n /\ share_at'[c] = (IF n < Chunks THEN "put" ELSE "commit")
  BY <1>1 DEF Follow, To, ShareIInv, ShareType, Clients
<1>3. CASE n < Chunks
  <2>1. share_at'[c] = "put"
    BY <1>2, <1>3
  <2> QED
    BY <1>2, <1>3, <2>1 DEF Uploads, Grown, Growing
<1>4. CASE n = Chunks
  <2>1. share_at'[c] = "commit"
    BY <1>1, <1>2, <1>4
  <2> QED
    BY <1>4, <2>1 DEF Uploads, Growing
<1> QED
  BY <1>1, <1>3, <1>4

\* Wherever the page goes after a reply.
LEMMA FollowGoes ==
  ASSUME ShareIInv, NEW c \in Uploaders, NEW n, NEW ok, Follow(c, n, ok)
  PROVE  DOMAIN offset' = Uploaders /\ \E l \in ShareLabels : To(c, l) /\ l \notin Between
<1>1. DOMAIN offset' = Uploaders
  BY DEF Follow, ShareIInv, ShareType
<1>2. To(c, "idle") \/ To(c, "put") \/ To(c, "commit")
  BY DEF Follow
<1>3. {"idle", "put", "commit"} \subseteq ShareLabels \ Between
  BY DEF ShareLabels, Between
<1> QED
  BY <1>1, <1>2, <1>3

\* A chunk at the end of the file is taken, any other refused.
LEMMA PutKeeps ==
  ASSUME ShareIInv, NEW c \in Uploaders, Put(c)
  PROVE  ShareIInv'
<1>1. /\ c \in Clients /\ share_at[c] = "put" /\ share_at[c] \notin Between
      /\ look' = [look EXCEPT ![c] = Size]
      /\ \/ offset[c] = Size /\ To(c, "write") /\ UNCHANGED offset
         \/ Follow(c, Size, FALSE)
      /\ UNCHANGED <<disk, row, digest, alone, torn, requests>>
  BY DEF Put, At, Clients, Between, Accepted
<1>2. DOMAIN offset' = Uploaders /\ \E l \in ShareLabels : To(c, l)
  <2>1. "write" \in ShareLabels
    BY DEF ShareLabels
  <2> QED
    BY <1>1, <2>1, FollowGoes DEF ShareIInv, ShareType
<1>3. PICK l \in ShareLabels : To(c, l)
  BY <1>2
<1>4. CompleteIsTrue'
  BY <1>1, <1>3, WordKept
<1>5. ASSUME alone[c] = TRUE PROVE Uploads(c)'
  <2>1. PICK n \in 0..Chunks : disk = Part(c, n)
    BY <1>1, <1>5 DEF ShareIInv, Mine, Uploads, Growing, Grown
  <2>2. Size = n /\ n \in Nat /\ n <= Chunks /\ Chunks \in Nat
    BY <2>1, GrownSize
  <2>3. CASE Follow(c, Size, FALSE)
    BY <1>1, <2>1, <2>2, <2>3, Follows
  <2>4. CASE offset[c] = Size /\ To(c, "write") /\ UNCHANGED offset
    <3>1. share_at'[c] = "write" /\ look'[c] = n /\ offset'[c] = n /\ n < Chunks
      <4>1. offset[c] < Chunks
        BY <1>1, <1>5 DEF ShareIInv, Mine, Uploads
      <4> QED
        BY <1>1, <2>2, <2>4, <4>1 DEF To, ShareIInv, ShareType
    <3> QED
      BY <1>1, <2>1, <3>1 DEF Uploads, Grown, Growing
  <2> QED
    BY <1>1, <2>3, <2>4
<1> QED
  BY <1>1, <1>2, <1>3, <1>4, <1>5, StepKeeps DEF ShareIInv, ShareType

\* The chunk is written: the part grows by it.
LEMMA WriteChunkKeeps ==
  ASSUME ShareIInv, NEW c \in Uploaders, WriteChunk(c)
  PROVE  ShareIInv'
<1>1. /\ c \in Clients /\ share_at[c] = "write" /\ To(c, "measure")
      /\ "measure" \in ShareLabels /\ "measure" \in Between
      /\ disk' = IF look[c] = 0 \/ disk = Missing THEN <<Content(c)[offset[c] + 1]>>
                 ELSE Append(disk, Content(c)[offset[c] + 1])
      /\ UNCHANGED <<row, offset, look, digest, alone, torn, requests>>
  BY DEF WriteChunk, At, Clients, ShareLabels, Between
<1>2. CompleteIsTrue'
  BY <1>1, WordKept
<1>3. ASSUME alone[c] = TRUE PROVE Uploads(c)'
  <2>1. PICK n \in 0..Chunks : disk = Part(c, n) /\ n < Chunks /\ offset[c] = n /\ look[c] = n
    BY <1>1, <1>3 DEF ShareIInv, Mine, Uploads, Growing, Grown
  <2>2. /\ Content(c)[n + 1] = <<c, n + 1>> /\ n + 1 \in 0..Chunks
        /\ Append(Part(c, n), <<c, n + 1>>) = Part(c, n + 1) /\ <<<<c, 1>>>> = Part(c, 1)
    BY <2>1, PartGrows
  <2>3. Part(c, n) # Missing
    BY PartFacts
  <2>4. disk' = Part(c, n + 1)
    <3>1. CASE n = 0
      <4>1. n + 1 = 1
        BY <3>1
      <4> QED
        BY <1>1, <2>1, <2>2, <3>1, <4>1
    <3>2. CASE n # 0
      BY <1>1, <2>1, <2>2, <2>3, <3>2
    <3> QED
      BY <3>1, <3>2
  <2>5. share_at'[c] = "measure" /\ offset'[c] < Chunks
    BY <1>1, <2>1 DEF To, ShareIInv, ShareType
  <2> QED
    BY <2>2, <2>4, <2>5 DEF Uploads, Grown, Growing
<1> QED
  BY <1>1, <1>2, <1>3, StepKeeps DEF ShareIInv, ShareType

\* The handler measures the file, and touch() reads and writes the row.
LEMMA MeasureKeeps ==
  ASSUME ShareIInv, NEW c \in Uploaders, Measure(c)
  PROVE  ShareIInv'
<1>1. /\ c \in Clients /\ share_at[c] = "measure" /\ To(c, "touch")
      /\ "touch" \in ShareLabels /\ "touch" \in Between
      /\ look' = [look EXCEPT ![c] = Size]
      /\ UNCHANGED <<disk, row, offset, digest, alone, torn, requests>>
  BY DEF Measure, At, Clients, ShareLabels, Between
<1>2. CompleteIsTrue'
  BY <1>1, WordKept
<1>3. ASSUME alone[c] = TRUE PROVE Uploads(c)'
  <2>1. PICK n \in 0..Chunks : disk = Part(c, n)
    BY <1>1, <1>3 DEF ShareIInv, Mine, Uploads, Growing, Grown
  <2>2. Size = n
    BY <2>1, GrownSize
  <2>3. share_at'[c] = "touch" /\ look'[c] = n /\ offset'[c] < Chunks
    BY <1>1, <1>3, <2>2 DEF To, ShareIInv, ShareType, Mine, Uploads
  <2> QED
    BY <1>1, <2>1, <2>3 DEF Uploads, Grown, Growing
<1> QED
  BY <1>1, <1>2, <1>3, StepKeeps DEF ShareIInv, ShareType

\* The hash of the row is read, to be written again with the new size.
LEMMA TouchReadKeeps ==
  ASSUME ShareIInv, NEW c \in Uploaders, TouchRead(c)
  PROVE  ShareIInv'
<1>1. /\ c \in Clients /\ share_at[c] = "touch" /\ To(c, "touch row")
      /\ "touch row" \in ShareLabels /\ "touch row" \in Between
      /\ DOMAIN digest' = DOMAIN digest
      /\ UNCHANGED <<disk, row, offset, look, alone, torn, requests>>
  BY DEF TouchRead, At, Clients, ShareLabels, Between
<1>2. CompleteIsTrue'
  BY <1>1, WordKept
<1>3. ASSUME alone[c] = TRUE PROVE Uploads(c)'
  <2>1. Uploads(c)
    BY <1>3 DEF ShareIInv, Mine
  <2>2. share_at'[c] = "touch row"
    BY <1>1 DEF To, ShareIInv, ShareType
  <2> QED
    BY <1>1, <2>1, <2>2 DEF Uploads, Grown, Growing
<1> QED
  BY <1>1, <1>2, <1>3, StepKeeps DEF ShareIInv, ShareType

\* The row is written without the word "complete".
LEMMA TouchRowKeeps ==
  ASSUME ShareIInv, NEW c \in Uploaders, TouchRow(c)
  PROVE  ShareIInv'
<1>1. /\ c \in Clients /\ share_at[c] = "touch row"
      /\ row' = [size |-> look[c], sha256 |-> digest[c], complete |-> FALSE, old |-> FALSE]
      /\ \/ Follow(c, look[c], TRUE)
         \/ To(c, "put") /\ UNCHANGED offset
         \/ To(c, "idle") /\ UNCHANGED offset
      /\ UNCHANGED <<disk, look, digest, alone, torn, requests>>
  BY DEF TouchRow, At, Clients, Upsert
<1>2. row'.complete = FALSE /\ DOMAIN row' = {"size", "sha256", "complete", "old"}
  BY <1>1
<1>3. DOMAIN offset' = Uploaders /\ \E l \in ShareLabels : To(c, l)
  <2>1. "put" \in ShareLabels /\ "idle" \in ShareLabels
    BY DEF ShareLabels
  <2> QED
    BY <1>1, <2>1, FollowGoes DEF ShareIInv, ShareType
<1>4. PICK l \in ShareLabels : To(c, l)
  BY <1>3
<1>5. CompleteIsTrue'
  BY <1>1, <1>2, <1>4, WordKept
<1>6. ASSUME alone[c] = TRUE PROVE Uploads(c)'
  <2>1. PICK n \in 0..Chunks : disk = Part(c, n) /\ look[c] = n
    BY <1>1, <1>6 DEF ShareIInv, Mine, Uploads, Growing, Grown
  <2>2. CASE Follow(c, look[c], TRUE)
    BY <1>1, <2>1, <2>2, Follows
  <2>3. CASE To(c, "put") /\ UNCHANGED offset
    <3>1. share_at'[c] = "put" /\ offset'[c] < Chunks
      BY <1>1, <1>6, <2>3 DEF To, ShareIInv, ShareType, Mine, Uploads
    <3> QED
      BY <1>1, <2>1, <3>1 DEF Uploads, Grown, Growing
  <2>4. CASE To(c, "idle")
    <3>1. share_at'[c] = "idle"
      BY <1>1, <2>4 DEF To, ShareIInv, ShareType
    <3> QED
      BY <3>1 DEF Uploads, Growing
  <2> QED
    BY <1>1, <2>2, <2>3, <2>4
<1> QED
  BY <1>1, <1>2, <1>3, <1>4, <1>5, <1>6, StepKeeps DEF ShareIInv, ShareType

\* commit(): the size and the digest of the whole file, and then the row.
LEMMA CommitKeeps ==
  ASSUME ShareIInv, NEW c \in Uploaders,
         CommitLook(c) \/ CommitSize(c) \/ CommitSum(c) \/ Done(c)
  PROVE  ShareIInv'
<1>1. /\ c \in Clients /\ share_at[c] \in {"commit", "size", "sum", "done"}
      /\ share_at[c] \notin Between /\ share_at[c] # "idle"
      /\ UNCHANGED <<disk, row, offset, alone, torn, requests>>
      /\ DOMAIN look' = DOMAIN look /\ DOMAIN digest' = DOMAIN digest
  BY DEF CommitLook, CommitSize, CommitSum, Done, At, Clients, Between
<1>2. \/ share_at[c] = "commit" /\ (To(c, "idle") \/ To(c, "size"))
      \/ share_at[c] = "size" /\ To(c, "sum") /\ look' = [look EXCEPT ![c] = Size]
      \/ share_at[c] = "sum" /\ To(c, "commit row") /\ digest' = [digest EXCEPT ![c] = disk] /\ look' = look
      \/ share_at[c] = "done" /\ To(c, "idle")
  BY DEF CommitLook, CommitSize, CommitSum, Done, At
<1>3. PICK l \in {"idle", "size", "sum", "commit row"} : To(c, l)
  BY <1>2
<1>4. l \in ShareLabels
  BY DEF ShareLabels
<1>5. CompleteIsTrue'
  BY <1>1, <1>3, <1>4, WordKept
<1>6. ASSUME alone[c] = TRUE PROVE Uploads(c)'
  <2>1. Uploads(c)
    BY <1>6 DEF ShareIInv, Mine
  <2>2. \A k \in ShareLabels : To(c, k) => share_at'[c] = k
    BY <1>1 DEF To, ShareIInv, ShareType
  <2>3. "size" \in ShareLabels /\ "idle" \in ShareLabels /\ "sum" \in ShareLabels /\ "commit row" \in ShareLabels
    BY DEF ShareLabels
  <2>4. CASE share_at[c] = "commit" /\ To(c, "size")
    <3>1. share_at'[c] = "size"
      BY <2>2, <2>3, <2>4
    <3> QED
      BY <1>1, <2>1, <2>4, <3>1 DEF Uploads, Growing
  <2>5. CASE To(c, "idle")
    <3>1. share_at'[c] = "idle"
      BY <2>2, <2>3, <2>5
    <3> QED
      BY <3>1 DEF Uploads, Growing
  <2>6. CASE share_at[c] = "size" /\ To(c, "sum") /\ look' = [look EXCEPT ![c] = Size]
    <3>1. share_at'[c] = "sum" /\ disk = Part(c, Chunks)
      BY <2>1, <2>2, <2>3, <2>6 DEF Uploads
    <3>2. Chunks \in 0..Chunks
      BY WholePart
    <3>3. look'[c] = Chunks
      BY <1>1, <2>6, <3>1, <3>2, GrownSize DEF ShareIInv, ShareType
    <3> QED
      BY <1>1, <3>1, <3>3 DEF Uploads, Growing
  <2>7. CASE share_at[c] = "sum" /\ To(c, "commit row") /\ digest' = [digest EXCEPT ![c] = disk] /\ look' = look
    <3>1. share_at'[c] = "commit row" /\ disk = Part(c, Chunks) /\ look'[c] = Chunks
      BY <2>1, <2>2, <2>3, <2>7 DEF Uploads
    <3>2. digest'[c] = disk
      BY <1>1, <2>7 DEF ShareIInv, ShareType
    <3> QED
      BY <1>1, <3>1, <3>2 DEF Uploads, Growing
  <2> QED
    BY <1>2, <2>4, <2>5, <2>6, <2>7
<1> QED
  BY <1>1, <1>3, <1>4, <1>5, <1>6, StepKeeps DEF ShareIInv, ShareType

\* The row says "complete": of the file the commit looked at, or the history says torn.
LEMMA CommitRowKeeps ==
  ASSUME ShareIInv, NEW c \in Uploaders, CommitRow(c)
  PROVE  ShareIInv'
<1>1. /\ c \in Clients /\ share_at[c] = "commit row" /\ To(c, "done") /\ "done" \in ShareLabels
      /\ row' = [size |-> look[c], sha256 |-> digest[c], complete |-> TRUE, old |-> FALSE]
      /\ torn' = (disk # digest[c] \/ look[c] # Size)
      /\ UNCHANGED <<disk, offset, look, digest, alone, requests>>
  BY DEF CommitRow, At, Clients, Upsert, ShareLabels
<1>2. /\ DOMAIN row' = {"size", "sha256", "complete", "old"} /\ torn' \in BOOLEAN
      /\ row'.complete = TRUE /\ row'.sha256 = digest[c] /\ row'.size = look[c]
  BY <1>1
<1>3. CompleteIsTrue'
  BY <1>1, <1>2 DEF CompleteIsTrue, Size
<1>4. ASSUME alone[c] = TRUE PROVE Uploads(c)'
  <2>1. disk = Part(c, Chunks) /\ look[c] = Chunks /\ digest[c] = disk
    BY <1>1, <1>4 DEF ShareIInv, Mine, Uploads
  <2>2. share_at'[c] = "done"
    BY <1>1 DEF To, ShareIInv, ShareType
  <2> QED
    BY <1>1, <1>2, <2>1, <2>2 DEF Uploads, Growing
<1> QED
  BY <1>1, <1>2, <1>3, <1>4, StepKeeps DEF ShareIInv, ShareType

\* remove(): the file, and then its row.
LEMMA RemoveFileKeeps ==
  ASSUME ShareIInv, RemoveFile(Keeper)
  PROVE  ShareIInv'
<1>1. /\ Keeper \in Clients /\ Keeper \notin Uploaders /\ share_at[Keeper] # "idle"
      /\ UNCHANGED <<offset, look, digest, alone, torn, requests>>
      /\ \/ To(Keeper, "delete row") /\ UNCHANGED row
         \/ To(Keeper, "idle") /\ row' = Missing
  BY ShareAssumption DEF RemoveFile, RemoveNext, At, Clients
<1>2. "idle" \in ShareLabels /\ "delete row" \in ShareLabels /\ "delete row" \in Between
  BY DEF ShareLabels, Between
<1>3. PICK l \in ShareLabels : To(Keeper, l) /\ (l \in Between \/ row' = Missing)
  BY <1>1, <1>2
<1>4. CompleteIsTrue'
  BY <1>1, <1>3, WordKept
<1>5. /\ alone' \in [Uploaders -> BOOLEAN] /\ torn' \in BOOLEAN
      /\ DOMAIN offset' = Uploaders /\ DOMAIN look' = Clients /\ DOMAIN digest' = Clients
      /\ row' # Missing => DOMAIN row' = {"size", "sha256", "complete", "old"}
      /\ \A u \in Uploaders : u # Keeper => alone'[u] = alone[u]
  BY <1>1 DEF ShareIInv, ShareType
<1>6. ShareType'
  BY <1>1, <1>3, <1>5 DEF ShareIInv, ShareType, To
<1>7. \A u \in Uploaders : Mine(u)'
  BY <1>1, NotAlone
<1> QED
  BY <1>4, <1>6, <1>7 DEF ShareIInv

\* A row that ages keeps what it says.
LEMMA AgeKeeps ==
  ASSUME ShareIInv, Age
  PROVE  ShareIInv'
<1>1. /\ UNCHANGED <<disk, share_at, offset, look, digest, alone, torn, requests>>
      /\ row # Missing /\ row' = [row EXCEPT !.old = TRUE]
      /\ DOMAIN row = {"size", "sha256", "complete", "old"}
  BY DEF Age, ShareIInv, ShareType
<1>2. /\ DOMAIN row' = {"size", "sha256", "complete", "old"} /\ row'.complete = row.complete
      /\ row'.sha256 = row.sha256 /\ row'.size = row.size
  BY <1>1
<1>3. ShareType' /\ CompleteIsTrue'
  BY <1>1, <1>2 DEF ShareIInv, ShareType, CompleteIsTrue, BetweenFileAndRow, Size
<1>4. \A u \in Uploaders : Mine(u)'
  BY <1>1, <1>2 DEF ShareIInv, Mine, Uploads, Grown
<1> QED
  BY <1>3, <1>4 DEF ShareIInv

\* There is no file and no row.
LEMMA ShareBegins == ShareInit => ShareIInv
<1> SUFFICES ASSUME ShareInit PROVE ShareIInv
  OBVIOUS
<1>1. ShareType
  <2>1. alone \in [Uploaders -> BOOLEAN] /\ torn \in BOOLEAN
    BY DEF ShareInit
  <2>2. share_at \in [Clients -> ShareLabels]
    BY DEF ShareInit, ShareLabels
  <2> QED
    BY <2>1, <2>2 DEF ShareInit, ShareType
<1>2. CompleteIsTrue /\ \A c \in Uploaders : Mine(c)
  BY DEF ShareInit, CompleteIsTrue, Mine
<1> QED
  BY <1>1, <1>2 DEF ShareIInv

\* Every step of a handler and of time keeps it.
LEMMA ShareStays == ShareIInv /\ [ShareNext]_shareVars => ShareIInv'
<1> SUFFICES ASSUME ShareIInv, [ShareNext]_shareVars PROVE ShareIInv'
  OBVIOUS
<1>1. CASE UNCHANGED shareVars
  <2>1. ShareType' /\ CompleteIsTrue'
    BY <1>1 DEF shareVars, ShareIInv, ShareType, CompleteIsTrue, BetweenFileAndRow, Size
  <2>2. \A u \in Uploaders : Mine(u)'
    BY <1>1 DEF shareVars, ShareIInv, Mine, Uploads, Grown
  <2> QED
    BY <2>1, <2>2 DEF ShareIInv
<1>2. ASSUME NEW c \in Uploaders, AnnounceFile(c) PROVE ShareIInv'
  <2>1. c \in Clients /\ Begin(c, "init") /\ UNCHANGED <<disk, row, offset, digest, torn>>
        /\ DOMAIN look' = Clients
    BY <1>2 DEF AnnounceFile, Clients, ShareIInv, ShareType
  <2> QED
    BY <2>1, UploadBeginKeeps
<1>3. ASSUME Delete(Keeper) \/ CleanUp(Keeper) PROVE ShareIInv'
  <2>1. Keeper \in Clients /\ Begin(Keeper, "delete") /\ UNCHANGED <<disk, row, offset, digest, torn>>
        /\ DOMAIN look' = Clients
    BY <1>3 DEF Delete, CleanUp, Clients, ShareIInv, ShareType
  <2> QED
    BY <2>1, UploadBeginKeeps
<1> QED
  BY <1>1, <1>2, <1>3, InitFileKeeps, InitRowKeeps, StatusKeeps, PutKeeps, WriteChunkKeeps,
     MeasureKeeps, TouchReadKeeps, TouchRowKeeps, CommitKeeps, CommitRowKeeps, RemoveFileKeeps,
     AgeKeeps DEF ShareNext

\* It implies that "complete" is true, and that an upload alone is exact.
LEMMA ShareHolds == ShareIInv => ShareInv
<1> SUFFICES ASSUME ShareIInv PROVE ShareInv
  OBVIOUS
<1>1. ASSUME NEW c \in Uploaders, At(c, "done"), alone[c]
      PROVE  disk = Content(c) /\ row.complete /\ row.sha256 = disk /\ row.size = Len(disk)
  <2>1. alone[c] = TRUE /\ share_at[c] = "done"
    BY <1>1 DEF ShareIInv, ShareType, At
  <2>2. disk = Part(c, Chunks) /\ row.complete = TRUE /\ row.sha256 = disk /\ row.size = Chunks
    BY <2>1 DEF ShareIInv, Mine, Uploads
  <2>3. Len(Part(c, Chunks)) = Chunks
    BY PartFacts, WholePart
  <2> QED
    BY <2>2, <2>3 DEF Content, Part
<1> QED
  BY <1>1 DEF ShareIInv, ShareInv, AloneIsExact

\* A file that is called complete is all there, and an upload that is alone is exact,
\* for any number of browsers and chunks.
THEOREM ShareKept == ShareInit /\ [][ShareNext]_shareVars => []ShareInv
BY ShareBegins, ShareStays, ShareHolds, PTL

-----------------------------------------------------------------------------
(***************************************************************************)
(* write_file_atomic(), for any number of writers and chunks.  As long as  *)
(* no two writers drew the same temporary name, each has an inode and an   *)
(* entry of its own (Distinct, Entries), and the target is the inode of a  *)
(* writer that had written and synced all of it (Own).                     *)
(***************************************************************************)

TempNames == Nat \X (0..1)

SaveStates == {"idle", "name", "open", "write", "undo", "rename", "true", "false", "killed"}

AtomicType ==
  /\ save_at \in [FileWriters -> SaveStates] /\ collided \in BOOLEAN
  /\ drawn \in [FileWriters -> Nat]
  /\ DOMAIN temp_name = FileWriters /\ DOMAIN inode = FileWriters
  /\ DOMAIN flushed = FileWriters

ContentType ==
  /\ content \in [FileWriters -> [1..FileChunks -> FileWriters \cup {Nothing}]]
  /\ durable \in [FileWriters -> [1..FileChunks -> FileWriters \cup {Nothing}]]

Whole(w) == \A i \in 1..FileChunks : content[w][i] = w /\ durable[w][i] = w

PutIsTold == \A w \in FileWriters :
  /\ w \in put => save_at[w] \in {"true", "killed"}
  /\ save_at[w] = "true" => w \in put
  /\ save_at[w] = "name" => \E n \in Nat : temp_name[w] = <<n>>

Distinct == \A v, w \in FileWriters :
  v # w /\ temp_name[v] \in TempNames => temp_name[v] # temp_name[w]

Own(w) ==
  /\ save_at[w] \in {"open", "write", "undo", "rename"} => temp_name[w] \in TempNames
  /\ save_at[w] \in {"idle", "name", "open"} => flushed[w] = 0
  /\ save_at[w] \in {"write", "undo", "rename"} => inode[w] = w
  /\ save_at[w] = "write" =>
       flushed[w] \in 0..FileChunks /\ \A i \in 1..flushed[w] : content[w][i] = w
  /\ save_at[w] = "rename" => Whole(w)
  /\ target = w => save_at[w] \in {"true", "killed"} /\ Whole(w)

HasEntry(w, n) ==
  w \in FileWriters /\ temp_name[w] = n /\ save_at[w] \in {"write", "undo", "rename", "killed"}

Entries ==
  /\ entry = [n \in DOMAIN entry |-> entry[n]]
  /\ \A n \in DOMAIN entry : n \in TempNames /\ HasEntry(entry[n], n)

NoCollision ==
  /\ ContentType /\ Distinct /\ Entries /\ target \in FileWriters \cup {Nothing}
  /\ \A w \in FileWriters : Own(w)

AtomicIInv == AtomicType /\ PutIsTold /\ (collided = FALSE => NoCollision)

\* A count is no name yet, and with the tick it is one.
LEMMA NameFacts ==
  ASSUME NEW n \in Nat, NEW t \in 0..1
  PROVE  <<n>> \notin TempNames /\ Append(<<n>>, t) = <<n, t>> /\ <<n, t>> \in TempNames
<1>1. Append(<<n>>, t) = <<n, t>>
  <2>1. <<n>> \in Seq(Nat) /\ Len(<<n>>) = 1 /\ <<n>>[1] = n /\ t \in Nat
    OBVIOUS
  <2>2. /\ Append(<<n>>, t) \in Seq(Nat) /\ Len(Append(<<n>>, t)) = 2
        /\ Append(<<n>>, t)[1] = n /\ Append(<<n>>, t)[2] = t
    <3> HIDE DEF TempNames
    <3>1. /\ Append(<<n>>, t) \in Seq(Nat) /\ Len(Append(<<n>>, t)) = Len(<<n>>) + 1
          /\ \A i \in 1..Len(<<n>>) : Append(<<n>>, t)[i] = <<n>>[i]
          /\ Append(<<n>>, t)[Len(<<n>>) + 1] = t
      BY ONLY <2>1, AppendProperties
    <3> QED
      BY ONLY <2>1, <3>1
  <2>3. <<n, t>> \in Seq(Nat) /\ Len(<<n, t>>) = 2 /\ <<n, t>>[1] = n /\ <<n, t>>[2] = t
    OBVIOUS
  <2>4. \A i \in 1..2 : Append(<<n>>, t)[i] = <<n, t>>[i]
    BY <2>2, <2>3
  <2> QED
    BY <2>2, <2>3, <2>4, SeqEqual
<1>2. <<n, t>> \in TempNames
  BY DEF TempNames
<1>3. ASSUME <<n>> \in TempNames PROVE FALSE
  <2>1. PICK a \in Nat, b \in 0..1 : <<n>> = <<a, b>>
    BY <1>3 DEF TempNames
  <2>2. Len(<<n>>) = 1 /\ Len(<<a, b>>) = 2
    OBVIOUS
  <2> QED
    BY <2>1, <2>2
<1> QED
  BY <1>1, <1>2, <1>3

\* What a step leaves to a writer that has no part in it.
LEMMA OtherOwn ==
  ASSUME NEW v \in FileWriters, Own(v), save_at'[v] = save_at[v], temp_name'[v] = temp_name[v],
         inode'[v] = inode[v], flushed'[v] = flushed[v], content'[v] = content[v],
         durable'[v] = durable[v], target' = v => target = v
  PROVE  Own(v)'
BY DEF Own, Whole

\* One writer takes a step: what is left to show of it, when no names collide.
LEMMA WriterKeeps ==
  ASSUME AtomicIInv, NEW w \in FileWriters, NEW l \in SaveStates,
         save_at' = [save_at EXCEPT ![w] = l], collided' \in BOOLEAN, collided = TRUE => collided' = TRUE,
         drawn' \in [FileWriters -> Nat],
         DOMAIN temp_name' = FileWriters, DOMAIN inode' = FileWriters, DOMAIN flushed' = FileWriters,
         \A v \in FileWriters : v # w => temp_name'[v] = temp_name[v],
         \/ put' = put /\ w \notin put /\ l # "true"
         \/ put' = put \cup {w} /\ l = "true",
         l = "name" => \E n \in Nat : temp_name'[w] = <<n>>,
         collided' = FALSE /\ NoCollision => NoCollision'
  PROVE  AtomicIInv'
<1>1. AtomicType'
  BY DEF AtomicIInv, AtomicType
<1>2. /\ save_at'[w] = l /\ \A v \in FileWriters : v # w => save_at'[v] = save_at[v]
  BY DEF AtomicIInv, AtomicType
<1>3. PutIsTold'
  BY <1>2 DEF AtomicIInv, PutIsTold
<1>4. collided' = FALSE => NoCollision'
  BY DEF AtomicIInv, AtomicType
<1> QED
  BY <1>1, <1>3, <1>4 DEF AtomicIInv

\* A writer takes the count of its process and one more, which it has yet to write back.
LEMMA DrawCounterKeeps ==
  ASSUME AtomicIInv, NEW w \in FileWriters, DrawCounter(w)
  PROVE  AtomicIInv'
<1> DEFINE n == drawn[ProcessOf(w)] + 1
<1>1. n \in Nat
  BY DEF ProcessOf, AtomicIInv, AtomicType
<1>2. /\ save_at[w] = "idle" /\ save_at' = [save_at EXCEPT ![w] = "name"]
      /\ temp_name' = [temp_name EXCEPT ![w] = <<n>>]
      /\ UNCHANGED <<apart, drawn, inode, flushed, content, durable, entry, target, put, collided>>
  BY DEF DrawCounter
<1> HIDE DEF n
<1>3. /\ temp_name'[w] = <<n>> /\ DOMAIN temp_name' = FileWriters /\ save_at'[w] = "name"
      /\ \A v \in FileWriters : v # w => temp_name'[v] = temp_name[v] /\ save_at'[v] = save_at[v]
      /\ w \notin put /\ "name" \in SaveStates
  BY <1>2 DEF AtomicIInv, AtomicType, PutIsTold, SaveStates
<1>4. <<n>> \notin TempNames
  BY <1>1, NameFacts, 0 \in 0..1
<1>5. ASSUME NoCollision PROVE NoCollision'
  <2>1. ContentType' /\ target' \in FileWriters \cup {Nothing}
    BY <1>2, <1>5 DEF NoCollision, ContentType
  <2>2. Distinct'
    BY <1>3, <1>4, <1>5 DEF NoCollision, Distinct
  <2>3. Entries'
    <3>1. \A m \in DOMAIN entry : m \in TempNames /\ HasEntry(entry[m], m) /\ entry[m] # w
      BY <1>2, <1>5 DEF NoCollision, Entries, HasEntry
    <3> QED
      BY <1>2, <1>3, <1>5, <3>1 DEF NoCollision, Entries, HasEntry
  <2>4. Own(w)'
    BY <1>2, <1>3, <1>5 DEF NoCollision, Own
  <2>5. \A v \in FileWriters : v # w => Own(v)'
    BY <1>2, <1>3, <1>5, OtherOwn DEF NoCollision
  <2> QED
    BY <2>1, <2>2, <2>3, <2>4, <2>5 DEF NoCollision
<1>6. /\ drawn' \in [FileWriters -> Nat] /\ DOMAIN inode' = FileWriters
      /\ DOMAIN flushed' = FileWriters /\ collided' \in BOOLEAN
  BY <1>2 DEF AtomicIInv, AtomicType
<1> QED
  BY <1>1, <1>2, <1>3, <1>5, <1>6, WriterKeeps, "name" # "true"

\* The name is complete, and no other writer has it, or they collide.
LEMMA NameTempKeeps ==
  ASSUME AtomicIInv, NEW w \in FileWriters, NameTemp(w)
  PROVE  AtomicIInv'
<1>1. /\ save_at[w] = "name" /\ save_at' = [save_at EXCEPT ![w] = "open"]
      /\ drawn' = [drawn EXCEPT ![ProcessOf(w)] = temp_name[w][1]]
      /\ UNCHANGED <<apart, inode, flushed, content, durable, entry, target, put>>
  BY DEF NameTemp
<1>2. PICK tick \in 0..1 :
        /\ temp_name' = [temp_name EXCEPT ![w] = Append(temp_name[w], tick)]
        /\ collided' = (collided \/ \E v \in FileWriters \ {w} : temp_name[v] = Append(temp_name[w], tick))
  BY DEF NameTemp
<1>3. PICK n \in Nat : temp_name[w] = <<n>>
  BY <1>1 DEF AtomicIInv, PutIsTold
<1>4. Append(temp_name[w], tick) = <<n, tick>> /\ <<n, tick>> \in TempNames
  BY <1>3, NameFacts
<1>5. /\ temp_name'[w] = <<n, tick>> /\ DOMAIN temp_name' = FileWriters /\ save_at'[w] = "open"
      /\ \A v \in FileWriters : v # w => temp_name'[v] = temp_name[v] /\ save_at'[v] = save_at[v]
      /\ w \notin put /\ "open" \in SaveStates
  BY <1>1, <1>2, <1>4 DEF AtomicIInv, AtomicType, PutIsTold, SaveStates
<1>6. drawn' \in [FileWriters -> Nat]
  <2>1. temp_name[w][1] = n
    BY <1>3
  <2> QED
    BY <1>1, <2>1 DEF AtomicIInv, AtomicType
<1>7. /\ collided' \in BOOLEAN /\ (collided = TRUE => collided' = TRUE)
      /\ collided' = FALSE => \A v \in FileWriters : v # w => temp_name[v] # <<n, tick>>
  <2>1. collided \in BOOLEAN
    BY DEF AtomicIInv, AtomicType
  <2> QED
    BY <1>2, <1>4, <2>1
<1>8. ASSUME NoCollision, collided' = FALSE PROVE NoCollision'
  <2>1. ContentType' /\ target' \in FileWriters \cup {Nothing}
    BY <1>1, <1>8 DEF NoCollision, ContentType
  <2>2. Distinct'
    <3> SUFFICES ASSUME NEW v \in FileWriters, NEW u \in FileWriters, v # u,
                        temp_name'[v] \in TempNames
                 PROVE  temp_name'[v] # temp_name'[u]
      BY DEF Distinct
    <3>1. CASE v # w /\ u # w
      BY <1>5, <1>8, <3>1 DEF NoCollision, Distinct
    <3>2. CASE v = w \/ u = w
      BY <1>5, <1>7, <1>8, <3>2
    <3> QED
      BY <3>1, <3>2
  <2>3. Entries'
    <3>1. \A m \in DOMAIN entry : m \in TempNames /\ HasEntry(entry[m], m) /\ entry[m] # w
      BY <1>1, <1>8 DEF NoCollision, Entries, HasEntry
    <3> QED
      BY <1>1, <1>5, <1>8, <3>1 DEF NoCollision, Entries, HasEntry
  <2>4. Own(w)'
    BY <1>1, <1>4, <1>5, <1>8 DEF NoCollision, Own
  <2>5. \A v \in FileWriters : v # w => Own(v)'
    BY <1>1, <1>5, <1>8, OtherOwn DEF NoCollision
  <2> QED
    BY <2>1, <2>2, <2>3, <2>4, <2>5 DEF NoCollision
<1>9. DOMAIN inode' = FileWriters /\ DOMAIN flushed' = FileWriters
  BY <1>1 DEF AtomicIInv, AtomicType
<1> QED
  BY <1>1, <1>5, <1>6, <1>7, <1>8, <1>9, WriterKeeps, "open" # "true", "open" # "name"

\* open(): the name has no entry yet, so that the inode is a new one.
LEMMA OpenTempKeeps ==
  ASSUME AtomicIInv, NEW w \in FileWriters, OpenTemp(w)
  PROVE  AtomicIInv'
<1>1. /\ save_at[w] = "open" /\ w \notin put
      /\ UNCHANGED <<apart, drawn, temp_name, flushed, durable, target, put, collided>>
  BY DEF OpenTemp, AtomicIInv, PutIsTold
<1>2. "write" \in SaveStates /\ "false" \in SaveStates
  BY DEF SaveStates
<1>3. /\ drawn' \in [FileWriters -> Nat] /\ DOMAIN temp_name' = FileWriters
      /\ DOMAIN flushed' = FileWriters /\ collided' \in BOOLEAN
  BY <1>1 DEF AtomicIInv, AtomicType
<1>4. CASE save_at' = [save_at EXCEPT ![w] = "false"] /\ UNCHANGED <<inode, content, entry>>
  <2>1. /\ save_at'[w] = "false"
        /\ \A v \in FileWriters : v # w => save_at'[v] = save_at[v]
        /\ DOMAIN inode' = FileWriters
    BY <1>4 DEF AtomicIInv, AtomicType
  <2>2. ASSUME NoCollision PROVE NoCollision'
    <3>1. ContentType' /\ target' \in FileWriters \cup {Nothing} /\ Distinct'
      BY <1>1, <1>4, <2>2 DEF NoCollision, ContentType, Distinct
    <3>2. Entries'
      <4>1. \A m \in DOMAIN entry : m \in TempNames /\ HasEntry(entry[m], m) /\ entry[m] # w
        BY <1>1, <2>2 DEF NoCollision, Entries, HasEntry
      <4> QED
        BY <1>1, <1>4, <2>1, <2>2, <4>1 DEF NoCollision, Entries, HasEntry
    <3>3. Own(w)'
      BY <1>1, <1>4, <2>1, <2>2 DEF NoCollision, Own
    <3>4. \A v \in FileWriters : v # w => Own(v)'
      BY <1>1, <1>4, <2>1, <2>2, OtherOwn DEF NoCollision
    <3> QED
      BY <3>1, <3>2, <3>3, <3>4 DEF NoCollision
  <2> QED
    BY <1>1, <1>2, <1>3, <1>4, <2>1, <2>2, WriterKeeps, "false" # "true", "false" # "name"
<1> DEFINE name == temp_name[w]
           node == IF name \in DOMAIN entry THEN entry[name] ELSE w
<1>5. CASE /\ save_at' = [save_at EXCEPT ![w] = "write"]
           /\ inode' = [inode EXCEPT ![w] = node]
           /\ content' = [content EXCEPT ![node] = Unwritten]
           /\ entry' = [n \in DOMAIN entry \cup {name} |-> IF n = name THEN node ELSE entry[n]]
  <2>1. /\ save_at'[w] = "write"
        /\ \A v \in FileWriters : v # w => save_at'[v] = save_at[v]
        /\ DOMAIN inode' = FileWriters
    BY <1>5 DEF AtomicIInv, AtomicType
  <2>2. ASSUME NoCollision PROVE NoCollision'
    <3>1. name \in TempNames /\ name \notin DOMAIN entry
      <4>1. name \in TempNames
        BY <1>1, <2>2 DEF NoCollision, Own
      <4>2. ASSUME name \in DOMAIN entry PROVE FALSE
        <5>1. HasEntry(entry[name], name) /\ entry[name] # w
          BY <1>1, <2>2, <4>2 DEF NoCollision, Entries, HasEntry
        <5> QED
          BY <2>2, <4>1, <5>1 DEF NoCollision, Distinct, HasEntry
      <4> QED
        BY <4>1, <4>2
    <3>2. node = w
      BY <3>1
    <3> HIDE DEF name, node
    <3>3. Unwritten \in [1..FileChunks -> FileWriters \cup {Nothing}]
      BY DEF Unwritten
    <3>4. ContentType' /\ content'[w] = Unwritten /\ \A v \in FileWriters : v # w => content'[v] = content[v]
      BY <1>1, <1>5, <2>2, <3>2, <3>3 DEF NoCollision, ContentType
    <3>5. Distinct' /\ target' \in FileWriters \cup {Nothing}
      BY <1>1, <2>2 DEF NoCollision, Distinct
    <3>6. inode'[w] = w /\ \A v \in FileWriters : v # w => inode'[v] = inode[v]
      BY <1>5, <3>2 DEF AtomicIInv, AtomicType
    <3>7. Entries'
      <4>1. entry' = [n \in DOMAIN entry \cup {name} |-> IF n = name THEN w ELSE entry[n]]
        BY <1>5, <3>2
      <4>2. /\ DOMAIN entry' = DOMAIN entry \cup {name} /\ entry'[name] = w
            /\ \A m \in DOMAIN entry : entry'[m] = entry[m]
        BY <3>1, <4>1
      <4>3. entry' = [n \in DOMAIN entry' |-> entry'[n]]
        BY <4>1
      <4>4. temp_name'[w] = name /\ save_at'[w] = "write"
        BY <1>1, <2>1 DEF name
      <4>5. ASSUME NEW m \in DOMAIN entry
            PROVE  /\ m \in TempNames /\ entry[m] \in FileWriters /\ temp_name'[entry[m]] = m
                   /\ save_at'[entry[m]] \in {"write", "undo", "rename", "killed"}
        <5>1. m \in TempNames /\ HasEntry(entry[m], m)
          BY <2>2 DEF NoCollision, Entries
        <5>2. entry[m] # w
          BY <1>1, <5>1 DEF HasEntry
        <5> QED
          BY <1>1, <2>1, <5>1, <5>2 DEF HasEntry
      <4>6. ASSUME NEW m \in DOMAIN entry'
            PROVE  /\ m \in TempNames /\ entry'[m] \in FileWriters /\ temp_name'[entry'[m]] = m
                   /\ save_at'[entry'[m]] \in {"write", "undo", "rename", "killed"}
        BY <3>1, <4>2, <4>4, <4>5
      <4> QED
        BY <4>3, <4>6 DEF Entries, HasEntry
    <3>8. Own(w)'
      <4>1. flushed'[w] = 0 /\ temp_name'[w] \in TempNames /\ target' # w
        BY <1>1, <2>2 DEF NoCollision, Own
      <4>2. 0 \in 0..FileChunks /\ \A i \in 1..0 : FALSE
        BY FilesAssumption
      <4> QED
        BY <2>1, <3>6, <4>1, <4>2 DEF Own
    <3>9. \A v \in FileWriters : v # w => Own(v)'
      BY <1>1, <2>1, <2>2, <3>4, <3>6, OtherOwn DEF NoCollision
    <3> QED
      BY <3>4, <3>5, <3>7, <3>8, <3>9 DEF NoCollision
  <2> HIDE DEF node, name
  <2> QED
    BY <1>1, <1>2, <1>3, <1>5, <2>1, <2>2, WriterKeeps, "write" # "true", "write" # "name"
<1> QED
  BY <1>4, <1>5 DEF OpenTemp

\* write(): one chunk more, or a failure.
LEMMA WriteTempKeeps ==
  ASSUME AtomicIInv, NEW w \in FileWriters, WriteTemp(w)
  PROVE  AtomicIInv'
<1>1. /\ save_at[w] = "write" /\ flushed[w] < FileChunks /\ w \notin put
      /\ UNCHANGED <<apart, drawn, temp_name, inode, durable, entry, target, put, collided>>
      /\ \/ /\ flushed' = [flushed EXCEPT ![w] = @ + 1] /\ save_at' = save_at
            /\ content' = [content EXCEPT ![inode[w]][flushed[w] + 1] = w]
         \/ save_at' = [save_at EXCEPT ![w] = "undo"] /\ UNCHANGED <<flushed, content>>
  BY DEF WriteTemp, AtomicIInv, PutIsTold
<1>2. PICK l \in {"write", "undo"} :
        /\ save_at' = [save_at EXCEPT ![w] = l] /\ save_at'[w] = l
        /\ \A v \in FileWriters : v # w => save_at'[v] = save_at[v]
        /\ l = "write" => /\ flushed' = [flushed EXCEPT ![w] = @ + 1]
                          /\ content' = [content EXCEPT ![inode[w]][flushed[w] + 1] = w]
        /\ l = "undo" => UNCHANGED <<flushed, content>>
  <2>1. CASE save_at' = save_at /\ flushed' = [flushed EXCEPT ![w] = @ + 1]
             /\ content' = [content EXCEPT ![inode[w]][flushed[w] + 1] = w]
    <3>1. save_at' = [save_at EXCEPT ![w] = "write"]
      BY <1>1, <2>1 DEF AtomicIInv, AtomicType
    <3> QED
      BY <1>1, <2>1, <3>1, "write" # "undo"
  <2>2. CASE save_at' = [save_at EXCEPT ![w] = "undo"] /\ UNCHANGED <<flushed, content>>
    BY <2>2, "write" # "undo" DEF AtomicIInv, AtomicType
  <2> QED
    BY <1>1, <2>1, <2>2
<1>3. l \in SaveStates /\ l # "true" /\ l # "name"
  BY DEF SaveStates
<1>4. /\ drawn' \in [FileWriters -> Nat] /\ DOMAIN temp_name' = FileWriters
      /\ DOMAIN inode' = FileWriters /\ DOMAIN flushed' = FileWriters /\ collided' \in BOOLEAN
  BY <1>1 DEF AtomicIInv, AtomicType
<1>5. ASSUME NoCollision PROVE NoCollision'
  <2>1. /\ inode[w] = w /\ flushed[w] \in 0..FileChunks /\ (\A i \in 1..flushed[w] : content[w][i] = w)
        /\ temp_name[w] \in TempNames /\ target # w
    BY <1>1, <1>5 DEF NoCollision, Own
  <2>2. target' \in FileWriters \cup {Nothing} /\ Distinct'
    BY <1>1, <1>5 DEF NoCollision, Distinct
  <2>3. Entries'
    BY <1>1, <1>2, <1>5 DEF NoCollision, Entries, HasEntry
  <2>4. CASE l = "undo"
    <3>1. ContentType'
      BY <1>1, <1>2, <1>5, <2>4 DEF NoCollision, ContentType
    <3>2. Own(w)'
      BY <1>1, <1>2, <2>1, <2>4 DEF Own
    <3>3. \A v \in FileWriters : v # w => Own(v)'
      BY <1>1, <1>2, <1>5, <2>4, OtherOwn DEF NoCollision
    <3> QED
      BY <2>2, <2>3, <3>1, <3>2, <3>3 DEF NoCollision
  <2>5. CASE l = "write"
    <3> DEFINE k == flushed[w] + 1
    <3>1. /\ k \in 1..FileChunks /\ k \in 0..FileChunks /\ flushed[w] \in Nat
          /\ \A i \in 1..k : i \in 1..flushed[w] \/ i = k
          /\ \A i \in 1..k : i \in 1..FileChunks
      BY <1>1, <2>1, FilesAssumption
    <3>2. content \in [FileWriters -> [1..FileChunks -> FileWriters \cup {Nothing}]]
      BY <1>5 DEF NoCollision, ContentType
    <3>3. content' = [content EXCEPT ![w][k] = w]
      BY <1>2, <2>1, <2>5
    <3> HIDE DEF k
    <3>4. /\ content' \in [FileWriters -> [1..FileChunks -> FileWriters \cup {Nothing}]]
          /\ \A v \in FileWriters : v # w => content'[v] = content[v]
          /\ content'[w] = [content[w] EXCEPT ![k] = w]
      BY <3>1, <3>2, <3>3
    <3>5. ContentType'
      BY <1>1, <1>5, <3>4 DEF NoCollision, ContentType
    <3>6. flushed'[w] = k /\ \A v \in FileWriters : v # w => flushed'[v] = flushed[v]
      BY <1>2, <2>5 DEF AtomicIInv, AtomicType, k
    <3>7. ASSUME NEW i \in 1..k PROVE content'[w][i] = w
      <4>1. i \in 1..FileChunks /\ content[w] \in [1..FileChunks -> FileWriters \cup {Nothing}]
        BY <3>1, <3>2
      <4>2. CASE i = k
        BY <3>4, <4>1, <4>2
      <4>3. CASE i # k
        <5>1. content'[w][i] = content[w][i]
          BY <3>4, <4>1, <4>3
        <5>2. content[w][i] = w
          BY <2>1, <3>1, <4>3
        <5> QED
          BY <5>1, <5>2
      <4> QED
        BY <4>2, <4>3
    <3>8. Own(w)'
      BY <1>1, <1>2, <2>1, <2>5, <3>1, <3>6, <3>7 DEF Own
    <3>9. \A v \in FileWriters : v # w => Own(v)'
      BY <1>1, <1>2, <1>5, <3>4, <3>6, OtherOwn DEF NoCollision
    <3> QED
      BY <2>2, <2>3, <3>5, <3>8, <3>9 DEF NoCollision
  <2> QED
    BY <2>4, <2>5
<1> QED
  BY <1>1, <1>2, <1>3, <1>4, <1>5, WriterKeeps

\* fsync(): all of the content is on the disk, or a failure.
LEMMA SyncTempKeeps ==
  ASSUME AtomicIInv, NEW w \in FileWriters, SyncTemp(w)
  PROVE  AtomicIInv'
<1>1. /\ save_at[w] = "write" /\ flushed[w] = FileChunks /\ w \notin put
      /\ UNCHANGED <<apart, drawn, temp_name, inode, flushed, content, entry, target, put, collided>>
  BY DEF SyncTemp, AllWritten, AtomicIInv, PutIsTold
<1>2. PICK l \in {"rename", "undo"} :
        /\ save_at' = [save_at EXCEPT ![w] = l] /\ save_at'[w] = l
        /\ \A v \in FileWriters : v # w => save_at'[v] = save_at[v]
        /\ l = "rename" => durable' = [durable EXCEPT ![inode[w]] = content[inode[w]]]
        /\ l = "undo" => durable' = durable
  <2>1. CASE save_at' = [save_at EXCEPT ![w] = "rename"] /\ durable' = OnDisk(w)
    BY <2>1, "rename" # "undo" DEF AtomicIInv, AtomicType, OnDisk
  <2>2. CASE save_at' = [save_at EXCEPT ![w] = "undo"] /\ durable' = durable
    BY <2>2, "rename" # "undo" DEF AtomicIInv, AtomicType
  <2> QED
    BY <2>1, <2>2 DEF SyncTemp
<1>3. l \in SaveStates /\ l # "true" /\ l # "name"
  BY DEF SaveStates
<1>4. /\ drawn' \in [FileWriters -> Nat] /\ DOMAIN temp_name' = FileWriters
      /\ DOMAIN inode' = FileWriters /\ DOMAIN flushed' = FileWriters /\ collided' \in BOOLEAN
  BY <1>1 DEF AtomicIInv, AtomicType
<1>5. ASSUME NoCollision PROVE NoCollision'
  <2>1. /\ inode[w] = w /\ (\A i \in 1..FileChunks : content[w][i] = w)
        /\ temp_name[w] \in TempNames /\ target # w
    BY <1>1, <1>5 DEF NoCollision, Own
  <2>2. target' \in FileWriters \cup {Nothing} /\ Distinct'
    BY <1>1, <1>5 DEF NoCollision, Distinct
  <2>3. Entries'
    BY <1>1, <1>2, <1>5 DEF NoCollision, Entries, HasEntry
  <2>4. /\ durable' \in [FileWriters -> [1..FileChunks -> FileWriters \cup {Nothing}]]
        /\ \A v \in FileWriters : v # w => durable'[v] = durable[v]
        /\ l = "rename" => durable'[w] = content[w]
    <3>1. CASE l = "rename"
      BY <1>2, <1>5, <2>1, <3>1 DEF NoCollision, ContentType
    <3>2. CASE l = "undo"
      BY <1>2, <1>5, <3>2 DEF NoCollision, ContentType
    <3> QED
      BY <3>1, <3>2
  <2>5. ContentType'
    BY <1>1, <1>5, <2>4 DEF NoCollision, ContentType
  <2>6. Own(w)'
    <3>1. l = "rename" => Whole(w)'
      BY <1>1, <2>1, <2>4 DEF Whole
    <3> QED
      BY <1>1, <1>2, <2>1, <3>1 DEF Own
  <2>7. \A v \in FileWriters : v # w => Own(v)'
    BY <1>1, <1>2, <1>5, <2>4, OtherOwn DEF NoCollision
  <2> QED
    BY <2>2, <2>3, <2>5, <2>6, <2>7 DEF NoCollision
<1> QED
  BY <1>1, <1>2, <1>3, <1>4, <1>5, WriterKeeps

\* Without a name, the entries of the others stay.
LEMMA WithoutKeeps ==
  ASSUME Entries, NEW w \in FileWriters, entry' = Without(temp_name[w]),
         UNCHANGED temp_name, \A v \in FileWriters : v # w => save_at'[v] = save_at[v]
  PROVE  Entries'
<1>1. entry' = [n \in DOMAIN entry \ {temp_name[w]} |-> entry[n]]
  BY DEF Without
<1>2. /\ DOMAIN entry' = DOMAIN entry \ {temp_name[w]}
      /\ \A n \in DOMAIN entry' : entry'[n] = entry[n]
  BY <1>1
<1>3. entry' = [n \in DOMAIN entry' |-> entry'[n]]
  BY <1>1
<1>4. ASSUME NEW n \in DOMAIN entry'
      PROVE  /\ n \in TempNames /\ entry'[n] \in FileWriters /\ temp_name'[entry'[n]] = n
             /\ save_at'[entry'[n]] \in {"write", "undo", "rename", "killed"}
  <2>1. n \in DOMAIN entry /\ n # temp_name[w] /\ entry'[n] = entry[n]
    BY <1>2
  <2>2. n \in TempNames /\ HasEntry(entry[n], n)
    BY <2>1 DEF Entries
  <2>3. entry[n] # w
    BY <2>1, <2>2 DEF HasEntry
  <2> QED
    BY <2>1, <2>2, <2>3 DEF HasEntry
<1> QED
  BY <1>3, <1>4 DEF Entries, HasEntry

\* rename(): the name is the writer's own, and so is the inode behind it.
LEMMA RenameTempKeeps ==
  ASSUME AtomicIInv, NEW w \in FileWriters, RenameTemp(w)
  PROVE  AtomicIInv'
<1>1. /\ save_at[w] = "rename" /\ w \notin put
      /\ UNCHANGED <<apart, drawn, temp_name, inode, flushed, content, durable, collided>>
  BY DEF RenameTemp, AtomicIInv, PutIsTold
<1>2. PICK l \in {"true", "undo"} :
        /\ save_at' = [save_at EXCEPT ![w] = l] /\ save_at'[w] = l
        /\ \A v \in FileWriters : v # w => save_at'[v] = save_at[v]
        /\ l = "true" => /\ temp_name[w] \in DOMAIN entry /\ target' = entry[temp_name[w]]
                         /\ entry' = Without(temp_name[w]) /\ put' = put \cup {w}
        /\ l = "undo" => UNCHANGED <<target, entry, put>>
  <2>1. CASE /\ temp_name[w] \in DOMAIN entry
             /\ target' = entry[temp_name[w]] /\ entry' = Without(temp_name[w])
             /\ put' = put \cup {w} /\ save_at' = [save_at EXCEPT ![w] = "true"]
    BY <2>1, "true" # "undo" DEF AtomicIInv, AtomicType
  <2>2. CASE save_at' = [save_at EXCEPT ![w] = "undo"] /\ UNCHANGED <<target, entry, put>>
    BY <2>2, "true" # "undo" DEF AtomicIInv, AtomicType
  <2> QED
    BY <2>1, <2>2 DEF RenameTemp
<1>3. l \in SaveStates /\ l # "name"
  BY DEF SaveStates
<1>4. /\ drawn' \in [FileWriters -> Nat] /\ DOMAIN temp_name' = FileWriters
      /\ DOMAIN inode' = FileWriters /\ DOMAIN flushed' = FileWriters /\ collided' \in BOOLEAN
  BY <1>1 DEF AtomicIInv, AtomicType
<1>5. ASSUME NoCollision PROVE NoCollision'
  <2>1. temp_name[w] \in TempNames /\ inode[w] = w /\ target # w /\ Whole(w)
    BY <1>1, <1>5 DEF NoCollision, Own
  <2>2. ContentType' /\ Distinct'
    BY <1>1, <1>5 DEF NoCollision, ContentType, Distinct
  <2>3. CASE l = "undo"
    <3>1. Entries'
      BY <1>1, <1>2, <1>5, <2>3 DEF NoCollision, Entries, HasEntry
    <3>2. Own(w)'
      BY <1>1, <1>2, <2>1, <2>3 DEF Own
    <3>3. \A v \in FileWriters : v # w => Own(v)'
      BY <1>1, <1>2, <1>5, <2>3, OtherOwn DEF NoCollision
    <3> QED
      BY <1>2, <1>5, <2>2, <2>3, <3>1, <3>2, <3>3 DEF NoCollision
  <2>4. CASE l = "true"
    <3>1. target' = w
      <4>1. HasEntry(entry[temp_name[w]], temp_name[w])
        BY <1>2, <1>5, <2>4 DEF NoCollision, Entries
      <4>2. entry[temp_name[w]] = w
        BY <1>5, <2>1, <4>1 DEF NoCollision, Distinct, HasEntry
      <4> QED
        BY <1>2, <2>4, <4>2
    <3>2. Entries'
      BY <1>1, <1>2, <1>5, <2>4, WithoutKeeps DEF NoCollision
    <3>3. Own(w)'
      <4>1. Whole(w)'
        BY <1>1, <2>1 DEF Whole
      <4> QED
        BY <1>2, <2>4, <4>1 DEF Own
    <3>4. \A v \in FileWriters : v # w => Own(v)'
      BY <1>1, <1>2, <1>5, <3>1, OtherOwn DEF NoCollision
    <3> QED
      BY <2>2, <3>1, <3>2, <3>3, <3>4 DEF NoCollision
  <2> QED
    BY <2>3, <2>4
<1>6. \/ put' = put /\ w \notin put /\ l # "true"
      \/ put' = put \cup {w} /\ l = "true"
  BY <1>1, <1>2, "true" # "undo"
<1> QED
  BY <1>1, <1>2, <1>3, <1>4, <1>5, <1>6, WriterKeeps

\* unlink(), and the writer is told of the failure.
LEMMA UndoTempKeeps ==
  ASSUME AtomicIInv, NEW w \in FileWriters, UndoTemp(w)
  PROVE  AtomicIInv'
<1>1. /\ save_at[w] = "undo" /\ w \notin put /\ save_at' = [save_at EXCEPT ![w] = "false"]
      /\ entry' = Without(temp_name[w])
      /\ UNCHANGED <<apart, drawn, temp_name, inode, flushed, content, durable, target, put, collided>>
  BY DEF UndoTemp, TakenAway, AtomicIInv, PutIsTold
<1>2. save_at'[w] = "false" /\ \A v \in FileWriters : v # w => save_at'[v] = save_at[v]
  BY <1>1 DEF AtomicIInv, AtomicType
<1>3. "false" \in SaveStates /\ "false" # "true" /\ "false" # "name"
  BY DEF SaveStates
<1>4. /\ drawn' \in [FileWriters -> Nat] /\ DOMAIN temp_name' = FileWriters
      /\ DOMAIN inode' = FileWriters /\ DOMAIN flushed' = FileWriters /\ collided' \in BOOLEAN
  BY <1>1 DEF AtomicIInv, AtomicType
<1>5. ASSUME NoCollision PROVE NoCollision'
  <2>1. ContentType' /\ Distinct' /\ target' \in FileWriters \cup {Nothing}
    BY <1>1, <1>5 DEF NoCollision, ContentType, Distinct
  <2>2. Entries'
    BY <1>1, <1>2, <1>5, WithoutKeeps DEF NoCollision
  <2>3. Own(w)'
    BY <1>1, <1>2, <1>5 DEF NoCollision, Own
  <2>4. \A v \in FileWriters : v # w => Own(v)'
    BY <1>1, <1>2, <1>5, OtherOwn DEF NoCollision
  <2> QED
    BY <2>1, <2>2, <2>3, <2>4 DEF NoCollision
<1> QED
  BY <1>1, <1>2, <1>3, <1>4, <1>5, WriterKeeps

\* Writers are killed, and what was not synced may be lost: the target was synced.
LEMMA KilledKeeps ==
  ASSUME AtomicIInv, save_at' \in [FileWriters -> SaveStates],
         \A v \in FileWriters : save_at'[v] = save_at[v] \/ save_at'[v] = "killed",
         UNCHANGED <<drawn, temp_name, inode, flushed, entry, target, put, collided>>,
         NoCollision => ContentType',
         \A v \in FileWriters : Whole(v) => Whole(v)',
         \A v \in FileWriters : save_at'[v] # "killed" => content'[v] = content[v]
  PROVE  AtomicIInv'
<1>1. AtomicType'
  BY DEF AtomicIInv, AtomicType
<1>2. PutIsTold'
  BY DEF AtomicIInv, PutIsTold
<1>3. ASSUME NoCollision PROVE NoCollision'
  <2>1. Distinct' /\ target' \in FileWriters \cup {Nothing}
    BY <1>3 DEF NoCollision, Distinct
  <2>2. Entries'
    BY <1>3 DEF NoCollision, Entries, HasEntry
  <2>3. ASSUME NEW v \in FileWriters PROVE Own(v)'
    <3>1. Own(v) /\ (Whole(v) => Whole(v)')
      BY <1>3 DEF NoCollision
    <3>2. CASE save_at'[v] = "killed"
      BY <3>1, <3>2 DEF Own
    <3>3. CASE save_at'[v] # "killed"
      <4>1. save_at'[v] = save_at[v] /\ content'[v] = content[v]
        BY <3>3
      <4> QED
        BY <3>1, <4>1 DEF Own
    <3> QED
      BY <3>2, <3>3
  <2> QED
    BY <1>3, <2>1, <2>2, <2>3 DEF NoCollision
<1> QED
  BY <1>1, <1>2, <1>3 DEF AtomicIInv

\* A writer is killed: its entry may stay for ever.
LEMMA KillWriterKeeps ==
  ASSUME AtomicIInv, NEW w \in FileWriters, KillWriter(w)
  PROVE  AtomicIInv'
<1>1. /\ save_at' \in [FileWriters -> SaveStates]
      /\ \A v \in FileWriters : save_at'[v] = save_at[v] \/ save_at'[v] = "killed"
  <2>1. "killed" \in SaveStates
    BY DEF SaveStates
  <2> QED
    BY <2>1 DEF KillWriter, AtomicIInv, AtomicType
<1>2. /\ UNCHANGED <<drawn, temp_name, inode, flushed, content, durable, entry, target, put, collided>>
  BY DEF KillWriter
<1> QED
  BY <1>1, <1>2, KilledKeeps DEF NoCollision, ContentType, Whole

\* The power fails: whatever was not synced may be lost, of no inode that the target names.
LEMMA PowerCutKeeps ==
  ASSUME AtomicIInv, PowerCut
  PROVE  AtomicIInv'
<1>1. /\ save_at' \in [FileWriters -> SaveStates]
      /\ \A v \in FileWriters : save_at'[v] = "killed"
  BY DEF PowerCut, SaveStates
<1>2. PICK lost \in SUBSET (1..FileChunks) :
        content' = [v \in FileWriters |-> [i \in 1..FileChunks |->
                      IF i \in lost THEN durable[v][i] ELSE content[v][i]]]
  BY DEF PowerCut
<1>3. /\ UNCHANGED <<drawn, temp_name, inode, flushed, entry, target, put, collided>>
      /\ durable' = content'
  BY DEF PowerCut
<1>4. NoCollision => ContentType'
  BY <1>2, <1>3 DEF NoCollision, ContentType
<1>5. \A v \in FileWriters : Whole(v) => Whole(v)'
  BY <1>2, <1>3 DEF Whole
<1> QED
  BY <1>1, <1>3, <1>4, <1>5, KilledKeeps

\* Nobody has drawn a name, and the target has no content.
LEMMA AtomicBegins == AtomicInit => AtomicIInv
<1> SUFFICES ASSUME AtomicInit PROVE AtomicIInv
  OBVIOUS
<1>1. /\ \A w \in FileWriters : save_at[w] = "idle" /\ temp_name[w] = Nothing /\ flushed[w] = 0
      /\ entry = <<>> /\ target = Nothing /\ put = {}
  BY DEF AtomicInit
<1>2. AtomicType
  <2>1. drawn \in [FileWriters -> Nat] /\ collided \in BOOLEAN
    BY DEF AtomicInit
  <2>2. save_at \in [FileWriters -> SaveStates]
    BY DEF AtomicInit, SaveStates
  <2> QED
    BY <2>1, <2>2 DEF AtomicInit, AtomicType
<1>3. PutIsTold
  BY <1>1 DEF PutIsTold
<1>4. Nothing \notin FileWriters /\ Nothing \notin TempNames
  BY FilesAssumption DEF TempNames
<1>5. ContentType
  BY DEF AtomicInit, ContentType, Unwritten
<1>6. Distinct
  BY <1>1, <1>4 DEF Distinct
<1>7. Entries
  <2>1. DOMAIN entry = {} /\ entry = [n \in {} |-> entry[n]]
    BY <1>1
  <2> QED
    BY <2>1 DEF Entries
<1>8. \A w \in FileWriters : Own(w)
  BY <1>1, <1>4 DEF Own
<1> QED
  BY <1>1, <1>2, <1>3, <1>5, <1>6, <1>7, <1>8 DEF AtomicIInv, NoCollision

\* Every step of a writer, its death and a power cut keep it.
LEMMA AtomicStays == AtomicIInv /\ [AtomicNext]_atomicVars => AtomicIInv'
<1> SUFFICES ASSUME AtomicIInv, [AtomicNext]_atomicVars PROVE AtomicIInv'
  OBVIOUS
<1>1. CASE UNCHANGED atomicVars
  <2>1. AtomicType' /\ PutIsTold'
    BY <1>1 DEF atomicVars, AtomicIInv, AtomicType, PutIsTold
  <2>2. NoCollision => NoCollision'
    BY <1>1 DEF atomicVars, NoCollision, ContentType, Distinct, Entries, HasEntry, Own, Whole
  <2> QED
    BY <1>1, <2>1, <2>2 DEF AtomicIInv, atomicVars
<1> QED
  BY <1>1, DrawCounterKeeps, NameTempKeeps, OpenTempKeeps, WriteTempKeeps, SyncTempKeeps,
     RenameTempKeeps, UndoTempKeeps, KillWriterKeeps, PowerCutKeeps DEF AtomicNext

\* It implies that the target is whole, and that the writers are told the truth.
LEMMA AtomicHolds == AtomicIInv => AtomicInv
<1> SUFFICES ASSUME AtomicIInv PROVE AtomicInv
  OBVIOUS
<1>1. WholeFile
  <2> SUFFICES ASSUME collided = FALSE, target # Nothing
               PROVE  \E w \in FileWriters : content[target] = [i \in 1..FileChunks |-> w]
    BY DEF WholeFile, AtomicIInv, AtomicType
  <2>1. target \in FileWriters /\ Whole(target)
    BY DEF AtomicIInv, NoCollision, Own
  <2>2. content[target] \in [1..FileChunks -> FileWriters \cup {Nothing}]
    BY <2>1 DEF AtomicIInv, NoCollision, ContentType
  <2>3. content[target] = [i \in 1..FileChunks |-> target]
    BY <2>1, <2>2 DEF Whole
  <2> QED
    BY <2>1, <2>3
<1>2. ToldTruly
  <2>1. \A w \in FileWriters : (save_at[w] = "true" => w \in put) /\ (save_at[w] = "false" => w \notin put)
    BY DEF AtomicIInv, PutIsTold
  <2>2. ASSUME collided = FALSE, \A w \in FileWriters : save_at[w] \in {"true", "false"}
        PROVE  entry = <<>>
    <3>1. Entries
      BY <2>2 DEF AtomicIInv, NoCollision
    <3>2. DOMAIN entry = {}
      BY <2>2, <3>1 DEF Entries, HasEntry
    <3>3. entry = [n \in {} |-> entry[n]]
      BY <3>1, <3>2 DEF Entries
    <3>4. <<>> = [n \in {} |-> entry[n]]
      OBVIOUS
    <3> QED
      BY <3>3, <3>4
  <2>3. collided \in BOOLEAN
    BY DEF AtomicIInv, AtomicType
  <2> QED
    BY <2>1, <2>2, <2>3 DEF ToldTruly
<1> QED
  BY <1>1, <1>2 DEF AtomicInv

\* A file that is replaced at once is whole, and its writers are told the truth, for
\* any number of writers and chunks, whoever is killed when.
THEOREM AtomicKept == AtomicInit /\ [][AtomicNext]_atomicVars => []AtomicInv
BY AtomicBegins, AtomicStays, AtomicHolds, PTL

-----------------------------------------------------------------------------
(***************************************************************************)
(* The directory watcher, for any number of names and changes.  While a    *)
(* round tells, what counts for a name it still has to tell of is nothing, *)
(* and for any other what the scan saw (Settled, Agrees).                  *)
(***************************************************************************)

Found == [is_dir : BOOLEAN, version : Nat, stamp : Nat]

MayFind == Found \cup {Absent}

WatcherType ==
  /\ changes \in Nat /\ watch_at \in {"none", "sleep", "scan", "tell", "gone"}
  /\ dir \in [WatchNames -> MayFind] /\ snapshot \in [WatchNames -> MayFind]
  /\ now \in [WatchNames -> MayFind] /\ copy \in [WatchNames -> MayFind]
  /\ believed \in [WatchNames -> BOOLEAN]
  /\ \A n \in WatchNames :
       /\ dir[n] # Absent => dir[n].stamp <= changes
       /\ snapshot[n] # Absent => snapshot[n].stamp <= changes
       /\ now[n] # Absent => now[n].stamp <= changes

\* A stamp belongs to a directory or to a file, and what is not believed in has no copy.
Stamped(n) ==
  /\ now[n] # Absent /\ dir[n] # Absent /\ now[n].stamp = dir[n].stamp =>
       now[n].is_dir = dir[n].is_dir
  /\ believed[n] = FALSE => copy[n] = Absent

Moved(old, new) ==
  (old = Absent /\ new # Absent) \/ (old # Absent /\ new = Absent) \/
  (old # Absent /\ new # Absent /\ old.stamp # new.stamp)

Current(n) ==
  copy[n] = dir[n] \/ (believed[n] = TRUE /\ dir[n] # Absent /\ dir[n].is_dir = TRUE)

\* What is told of a name agrees with what was seen of it.
Agrees(n, scanned) ==
  /\ n \notin stale => (believed[n] = TRUE <=> scanned # Absent)
  /\ n \notin hidden \cup stale => Current(n) \/ Moved(scanned, dir[n])

Settled(n) ==
  /\ watch_at \in {"sleep", "scan"} => Agrees(n, snapshot[n])
  /\ watch_at = "tell" /\ n \notin notices => Agrees(n, now[n])

WatcherIInv == WatcherType /\ \A n \in WatchNames : Stamped(n) /\ Settled(n)

\* An empty snapshot finds nothing.
LEMMA NoneFound == None \in [WatchNames -> MayFind] /\ \A n \in WatchNames : None[n] = Absent
BY DEF None, MayFind

\* What is not there is nothing a scan could find.
LEMMA AbsentFacts ==
  /\ Absent \notin Found
  /\ \A f \in MayFind : f # Absent =>
       f \in Found /\ f.stamp \in Nat /\ f.version \in Nat /\ f.is_dir \in BOOLEAN
BY WatcherAssumption DEF Found, MayFind

\* What does not touch the names, nor what was seen of them.
LEMMA SameNames ==
  ASSUME WatcherIInv, UNCHANGED <<dir, changes, copy, believed, stale, hidden, snapshot>>,
         watch_at' \in {"none", "sleep", "scan", "tell", "gone"},
         now' \in [WatchNames -> MayFind],
         \A n \in WatchNames : now'[n] = now[n] \/ now'[n] = dir[n],
         \/ watch_at' \in {"none", "gone"}
         \/ watch_at' \in {"sleep", "scan"} /\ watch_at \in {"sleep", "scan"}
         \/ watch_at' = "tell" /\ watch_at = "tell" /\ UNCHANGED <<now, notices>>
  PROVE  WatcherIInv'
<1>1. WatcherType'
  BY DEF WatcherIInv, WatcherType
<1>2. ASSUME NEW n \in WatchNames PROVE Stamped(n)'
  BY DEF WatcherIInv, Stamped
<1>3. ASSUME NEW n \in WatchNames PROVE Settled(n)'
  BY DEF WatcherIInv, Settled, Agrees, Current
<1> QED
  BY <1>1, <1>2, <1>3 DEF WatcherIInv

\* A change that is noticed has a new stamp, or takes the name away; one that is not keeps
\* the stamp.
LEMMA ChangeKeeps ==
  ASSUME WatcherIInv, NEW n \in WatchNames, NEW found \in MayFind, NEW noticed \in BOOLEAN,
         Change(n, found, noticed),
         found # Absent /\ noticed = TRUE => found.stamp = changes + 1,
         noticed = FALSE => found # Absent /\ dir[n] # Absent /\ found.stamp = dir[n].stamp
                            /\ found.is_dir = dir[n].is_dir
  PROVE  WatcherIInv'
<1>1. /\ changes \in Nat /\ changes' = changes + 1 /\ changes' \in Nat /\ changes <= changes'
      /\ UNCHANGED <<snapshot, now, unread, notices, watch_running, watch_at, stop_at, starts,
                     copy, believed, stale>>
  BY DEF Change, WatcherIInv, WatcherType
<1>2. /\ dir' = [dir EXCEPT ![n] = found] /\ dir' \in [WatchNames -> MayFind]
      /\ dir'[n] = found /\ \A m \in WatchNames : m # n => dir'[m] = dir[m]
  BY DEF Change, WatcherIInv, WatcherType
<1>3. /\ noticed = TRUE => hidden' = hidden \ {n}
      /\ noticed = FALSE => hidden' = hidden \cup {n}
      /\ \A m \in WatchNames : m # n => (m \in hidden' <=> m \in hidden)
  BY DEF Change
<1>4. /\ \A m \in WatchNames :
           /\ snapshot[m] # Absent => snapshot[m].stamp \in Nat /\ snapshot[m].stamp <= changes
           /\ now[m] # Absent => now[m].stamp \in Nat /\ now[m].stamp <= changes
           /\ dir[m] # Absent => dir[m].stamp \in Nat /\ dir[m].stamp <= changes
  BY AbsentFacts DEF WatcherIInv, WatcherType
<1>5. found # Absent => found.stamp <= changes'
  BY <1>1, <1>4
<1>6. WatcherType'
  <2>1. ASSUME NEW m \in WatchNames
        PROVE  /\ dir'[m] # Absent => dir'[m].stamp <= changes'
               /\ snapshot'[m] # Absent => snapshot'[m].stamp <= changes'
               /\ now'[m] # Absent => now'[m].stamp <= changes'
    BY <1>1, <1>2, <1>4, <1>5
  <2> QED
    BY <1>1, <1>2, <2>1 DEF WatcherIInv, WatcherType
<1>7. ASSUME NEW m \in WatchNames, m # n PROVE Stamped(m)' /\ Settled(m)'
  BY <1>1, <1>2, <1>3, <1>7 DEF WatcherIInv, Stamped, Settled, Agrees, Current
<1>8. Stamped(n)'
  <2>1. Stamped(n)
    BY DEF WatcherIInv
  <2>2. CASE noticed = TRUE
    <3>1. now[n] # Absent /\ found # Absent => now[n].stamp # found.stamp
      BY <1>1, <1>4, <2>2
    <3> QED
      BY <1>1, <1>2, <2>1, <3>1 DEF Stamped
  <2>3. CASE noticed = FALSE
    BY <1>1, <1>2, <2>1, <2>3 DEF Stamped
  <2> QED
    BY <2>2, <2>3
<1>9. ASSUME NEW scanned \in MayFind, scanned # Absent => scanned.stamp \in Nat /\ scanned.stamp <= changes,
             Agrees(n, scanned)
      PROVE  /\ n \notin stale => (believed[n] = TRUE <=> scanned # Absent)
             /\ n \notin hidden' \cup stale => Current(n)' \/ Moved(scanned, dir'[n])
  <2>1. n \notin stale => (believed[n] = TRUE <=> scanned # Absent)
    BY <1>9 DEF Agrees
  <2>2. CASE noticed = FALSE
    BY <1>3, <2>1, <2>2
  <2>3. CASE noticed = TRUE /\ found = Absent
    <3>1. scanned = Absent /\ n \notin stale => copy[n] = Absent
      <4>1. believed[n] \in BOOLEAN /\ Stamped(n)
        BY DEF WatcherIInv, WatcherType
      <4> QED
        BY <2>1, <4>1 DEF Stamped
    <3>2. scanned = Absent /\ n \notin stale => Current(n)'
      BY <1>1, <1>2, <2>3, <3>1 DEF Current
    <3>3. scanned # Absent => Moved(scanned, dir'[n])
      BY <1>2, <2>3 DEF Moved
    <3> QED
      BY <2>1, <3>2, <3>3
  <2>4. CASE noticed = TRUE /\ found # Absent
    <3>1. scanned # Absent => scanned.stamp # found.stamp
      BY <1>1, <1>9, <2>4
    <3>2. Moved(scanned, dir'[n])
      BY <1>2, <2>4, <3>1 DEF Moved
    <3> QED
      BY <2>1, <3>2
  <2> QED
    BY <2>2, <2>3, <2>4
<1>10. Settled(n)'
  <2>1. /\ Settled(n) /\ snapshot[n] \in MayFind /\ now[n] \in MayFind
        /\ snapshot' = snapshot /\ now' = now /\ stale' = stale /\ believed' = believed
        /\ watch_at' = watch_at /\ notices' = notices
    BY <1>1 DEF WatcherIInv, WatcherType
  <2>2. CASE watch_at \in {"sleep", "scan"}
    <3>1. /\ n \notin stale => (believed[n] = TRUE <=> snapshot[n] # Absent)
          /\ n \notin hidden' \cup stale => Current(n)' \/ Moved(snapshot[n], dir'[n])
      BY <1>4, <1>9, <2>1, <2>2 DEF Settled
    <3> QED
      BY <2>1, <2>2, <3>1 DEF Settled, Agrees
  <2>3. CASE watch_at = "tell" /\ n \notin notices
    <3>1. /\ n \notin stale => (believed[n] = TRUE <=> now[n] # Absent)
          /\ n \notin hidden' \cup stale => Current(n)' \/ Moved(now[n], dir'[n])
      BY <1>4, <1>9, <2>1, <2>3 DEF Settled
    <3> QED
      BY <2>1, <2>3, <3>1 DEF Settled, Agrees
  <2> QED
    BY <2>1, <2>2, <2>3 DEF Settled
<1> QED
  BY <1>6, <1>7, <1>8, <1>10 DEF WatcherIInv

\* Files come, go and change while the watcher scans, tells or sleeps.
LEMMA ChangesKeep ==
  ASSUME WatcherIInv, NEW n \in WatchNames, CreateFile(n) \/ DeleteFile(n) \/ ModifyFile(n)
  PROVE  WatcherIInv'
<1>1. changes \in Nat /\ changes + 1 \in Nat /\ dir[n] \in MayFind /\ Absent \in MayFind
  BY DEF WatcherIInv, WatcherType, MayFind
<1>2. CASE CreateFile(n)
  <2>1. PICK d \in BOOLEAN : Change(n, [is_dir |-> d, version |-> changes + 1, stamp |-> changes + 1], TRUE)
    BY <1>2 DEF CreateFile
  <2> DEFINE f == [is_dir |-> d, version |-> changes + 1, stamp |-> changes + 1]
  <2>2. f \in MayFind /\ f.stamp = changes + 1 /\ Change(n, f, TRUE)
    BY <1>1, <2>1 DEF MayFind, Found
  <2> HIDE DEF f
  <2> QED
    BY <2>2, ChangeKeeps, TRUE \in BOOLEAN
<1>3. CASE DeleteFile(n)
  BY <1>1, <1>3, ChangeKeeps, TRUE \in BOOLEAN DEF DeleteFile
<1>4. CASE ModifyFile(n)
  <2>1. dir[n] # Absent /\ dir[n] \in Found
    BY <1>1, <1>4 DEF ModifyFile, MayFind
  <2> DEFINE f == [dir[n] EXCEPT !.version = changes + 1, !.stamp = changes + 1]
             g == [dir[n] EXCEPT !.version = changes + 1]
  <2>2. f \in Found /\ f.stamp = changes + 1
    BY <1>1, <2>1 DEF Found
  <2>3. g \in Found /\ g.stamp = dir[n].stamp /\ g.is_dir = dir[n].is_dir
    BY <1>1, <2>1 DEF Found
  <2>4. Change(n, f, TRUE) \/ Change(n, g, FALSE)
    BY <1>4 DEF ModifyFile
  <2> HIDE DEF f, g
  <2>5. f \in MayFind /\ g \in MayFind /\ g # Absent
    BY <2>2, <2>3, AbsentFacts DEF MayFind
  <2>6. CASE Change(n, f, TRUE)
    BY <2>2, <2>5, <2>6, ChangeKeeps, TRUE \in BOOLEAN
  <2>7. CASE Change(n, g, FALSE)
    BY <2>1, <2>3, <2>5, <2>7, ChangeKeeps, FALSE \in BOOLEAN
  <2> QED
    BY <2>4, <2>6, <2>7
<1> QED
  BY <1>2, <1>3, <1>4

\* start(): the program has read everything, and the snapshot has it.
LEMMA StartWatchKeeps ==
  ASSUME WatcherIInv, StartWatch
  PROVE  WatcherIInv'
<1>1. /\ watch_at' = "sleep"
      /\ snapshot' = [n \in WatchNames |-> IF dir[n] = Absent THEN snapshot[n] ELSE dir[n]]
      /\ stale' = {n \in WatchNames : dir[n] = Absent /\ snapshot[n] # Absent}
      /\ copy' = dir /\ believed' = [n \in WatchNames |-> dir[n] # Absent]
      /\ UNCHANGED <<dir, changes, now, unread, notices, stop_at>>
  BY DEF StartWatch
<1>2. WatcherType'
  <2>1. snapshot' \in [WatchNames -> MayFind] /\ copy' \in [WatchNames -> MayFind]
    BY <1>1 DEF WatcherIInv, WatcherType
  <2>2. believed' \in [WatchNames -> BOOLEAN]
    <3>1. \A n \in WatchNames : (dir[n] # Absent) \in BOOLEAN
      OBVIOUS
    <3> QED
      BY <1>1, <3>1
  <2>3. \A n \in WatchNames : snapshot'[n] # Absent => snapshot'[n].stamp <= changes'
    BY <1>1 DEF WatcherIInv, WatcherType
  <2> QED
    BY <1>1, <2>1, <2>2, <2>3 DEF WatcherIInv, WatcherType
<1>3. ASSUME NEW n \in WatchNames
      PROVE  /\ believed'[n] = TRUE <=> dir[n] # Absent
             /\ snapshot'[n] = IF dir[n] = Absent THEN snapshot[n] ELSE dir[n]
             /\ copy'[n] = dir'[n]
  BY <1>1
<1>4. ASSUME NEW n \in WatchNames PROVE Stamped(n)'
  BY <1>1, <1>3 DEF WatcherIInv, Stamped
<1>5. ASSUME NEW n \in WatchNames PROVE Settled(n)'
  <2>1. n \notin stale' => (believed'[n] = TRUE <=> snapshot'[n] # Absent)
    BY <1>1, <1>3
  <2> QED
    BY <1>1, <1>3, <2>1 DEF Settled, Agrees, Current
<1> QED
  BY <1>2, <1>4, <1>5 DEF WatcherIInv

\* The scan is over: of whatever is not to be told, the program knows, or the next round
\* will tell.
LEMMA DiffKeeps ==
  ASSUME WatcherIInv, Diff
  PROVE  WatcherIInv'
<1>1. /\ watch_at = "scan"
      /\ UNCHANGED <<dir, changes, snapshot, now, unread, copy, believed, stale, hidden>>
      /\ \/ watch_at' = "tell" /\ notices' = Noted
         \/ watch_at' = "gone"
  BY DEF Diff
<1>2. CASE watch_at' = "gone"
  BY <1>1, <1>2, SameNames DEF WatcherIInv, WatcherType
<1>3. CASE watch_at' = "tell" /\ notices' = Noted
  <2>1. WatcherType'
    BY <1>1, <1>3 DEF WatcherIInv, WatcherType
  <2>2. ASSUME NEW n \in WatchNames PROVE Stamped(n)'
    BY <1>1 DEF WatcherIInv, Stamped
  <2>3. ASSUME NEW n \in WatchNames, n \notin Noted PROVE Agrees(n, now[n])
    <3>1. /\ Agrees(n, snapshot[n]) /\ Stamped(n)
          /\ believed[n] \in BOOLEAN /\ snapshot[n] \in MayFind /\ now[n] \in MayFind /\ dir[n] \in MayFind
      BY <1>1 DEF WatcherIInv, WatcherType, Settled
    <3>2. CASE now[n] = Absent
      <4>1. snapshot[n] = Absent
        BY <2>3, <3>2 DEF Noted
      <4> QED
        BY <3>1, <3>2, <4>1
    <3>3. CASE now[n] # Absent
      <4>1. /\ snapshot[n] # Absent
            /\ snapshot[n].stamp = now[n].stamp \/ now[n].is_dir = TRUE
        <5>1. now[n].is_dir \in BOOLEAN
          BY <3>1, <3>3, AbsentFacts
        <5> QED
          BY <2>3, <3>3, <5>1 DEF Noted, Differ
      <4>2. n \notin stale => (believed[n] = TRUE <=> now[n] # Absent)
        BY <3>1, <3>3, <4>1 DEF Agrees
      <4>3. CASE snapshot[n].stamp = now[n].stamp
        <5>1. Moved(snapshot[n], dir[n]) => Moved(now[n], dir[n])
          BY <3>3, <4>1, <4>3 DEF Moved
        <5> QED
          BY <3>1, <4>2, <5>1 DEF Agrees
      <4>4. CASE now[n].is_dir = TRUE
        <5>1. CASE dir[n] = Absent \/ dir[n].stamp # now[n].stamp
          BY <3>3, <4>2, <5>1 DEF Agrees, Moved
        <5>2. CASE dir[n] # Absent /\ dir[n].stamp = now[n].stamp
          <6>1. dir[n].is_dir = TRUE
            BY <3>1, <3>3, <4>4, <5>2 DEF Stamped
          <6> QED
            BY <3>3, <4>2, <5>2, <6>1 DEF Agrees, Current
        <5> QED
          BY <5>1, <5>2
      <4> QED
        BY <4>1, <4>3, <4>4
    <3> QED
      BY <3>2, <3>3
  <2>4. ASSUME NEW n \in WatchNames PROVE Settled(n)'
    BY <1>1, <1>3, <2>3 DEF Settled, Agrees, Current
  <2> QED
    BY <2>1, <2>2, <2>4 DEF WatcherIInv
<1> QED
  BY <1>1, <1>2, <1>3

\* The program is told, and reads the file as it is now.
LEMMA TellKeeps ==
  ASSUME WatcherIInv, Tell
  PROVE  WatcherIInv'
<1>1. PICK n \in notices :
        /\ believed' = [believed EXCEPT ![n] = now[n] # Absent]
        /\ copy' = [copy EXCEPT ![n] = IF now[n] = Absent THEN Absent ELSE dir[n]]
        /\ stale' = stale \ {n} /\ notices' = notices \ {n}
  BY DEF Tell
<1>2. /\ watch_at = "tell"
      /\ UNCHANGED <<dir, changes, snapshot, now, unread, watch_running, watch_at, stop_at, starts, hidden>>
  BY DEF Tell
<1>3. (now[n] # Absent) \in BOOLEAN
  OBVIOUS
<1>4. WatcherType'
  <2>1. believed' \in [WatchNames -> BOOLEAN]
    BY <1>1, <1>3 DEF WatcherIInv, WatcherType
  <2>2. copy' \in [WatchNames -> MayFind]
    <3>1. \A m \in WatchNames : dir[m] \in MayFind /\ Absent \in MayFind
      BY DEF WatcherIInv, WatcherType, MayFind
    <3> QED
      BY <1>1, <3>1 DEF WatcherIInv, WatcherType
  <2> QED
    BY <1>2, <2>1, <2>2 DEF WatcherIInv, WatcherType
<1>5. ASSUME NEW m \in WatchNames, m # n PROVE Stamped(m)' /\ Settled(m)'
  <2>1. believed'[m] = believed[m] /\ copy'[m] = copy[m]
    BY <1>1, <1>5 DEF WatcherIInv, WatcherType
  <2>2. m \in stale' <=> m \in stale
    BY <1>1, <1>5
  <2>3. m \in notices' <=> m \in notices
    BY <1>1, <1>5
  <2> QED
    BY <1>2, <2>1, <2>2, <2>3 DEF WatcherIInv, Stamped, Settled, Agrees, Current
<1>6. ASSUME n \in WatchNames PROVE Stamped(n)' /\ Settled(n)'
  <2>1. /\ believed'[n] = TRUE <=> now[n] # Absent
        /\ copy'[n] = IF now[n] = Absent THEN Absent ELSE dir[n]
    BY <1>1, <1>6 DEF WatcherIInv, WatcherType
  <2>2. Stamped(n)
    BY <1>6 DEF WatcherIInv
  <2>3. Stamped(n)'
    BY <1>2, <2>1, <2>2 DEF Stamped
  <2>4. Agrees(n, now[n])'
    BY <1>2, <2>1 DEF Agrees, Current, Moved
  <2> QED
    BY <1>2, <2>3, <2>4 DEF Settled
<1> QED
  BY <1>4, <1>5, <1>6 DEF WatcherIInv

\* All was told: what the scan saw is the snapshot.
LEMMA EndRoundKeeps ==
  ASSUME WatcherIInv, EndRound
  PROVE  WatcherIInv'
<1>1. /\ watch_at = "tell" /\ notices = {} /\ watch_at' = "sleep"
      /\ snapshot' = now /\ now' = None
      /\ UNCHANGED <<dir, changes, unread, notices, copy, believed, stale, hidden>>
  BY DEF EndRound, Swap
<1>2. WatcherType'
  BY <1>1, NoneFound DEF WatcherIInv, WatcherType
<1>3. ASSUME NEW n \in WatchNames PROVE Stamped(n)'
  BY <1>1, NoneFound DEF WatcherIInv, Stamped
<1>4. ASSUME NEW n \in WatchNames PROVE Settled(n)'
  <2>1. Agrees(n, now[n]) /\ snapshot'[n] = now[n]
    BY <1>1 DEF WatcherIInv, Settled
  <2> QED
    BY <1>1, <2>1 DEF Settled, Agrees, Current
<1> QED
  BY <1>2, <1>3, <1>4 DEF WatcherIInv

\* The watcher has not started, and the program has nothing.
LEMMA WatcherBegins == WatcherInit => WatcherIInv
<1> SUFFICES ASSUME WatcherInit PROVE WatcherIInv
  OBVIOUS
<1>1. WatcherType
  <2>1. believed \in [WatchNames -> BOOLEAN] /\ changes \in Nat
    BY DEF WatcherInit
  <2> QED
    BY <2>1, NoneFound DEF WatcherInit, WatcherType
<1>2. \A n \in WatchNames : Stamped(n) /\ Settled(n)
  BY NoneFound DEF WatcherInit, Stamped, Settled
<1> QED
  BY <1>1, <1>2 DEF WatcherIInv

\* Every change of the directory and every step of the watcher keep it.
LEMMA WatcherStays == WatcherIInv /\ [WatcherNext]_watcherVars => WatcherIInv'
<1> SUFFICES ASSUME WatcherIInv, [WatcherNext]_watcherVars PROVE WatcherIInv'
  OBVIOUS
<1>1. now \in [WatchNames -> MayFind] /\ dir \in [WatchNames -> MayFind]
      /\ watch_at \in {"none", "sleep", "scan", "tell", "gone"}
  BY DEF WatcherIInv, WatcherType
<1>2. CASE UNCHANGED watcherVars \/ StopWatch \/ WatchJoined \/ WakeUp
  <2>1. /\ UNCHANGED <<dir, changes, copy, believed, stale, hidden, snapshot, now, notices>>
        /\ \/ watch_at' = watch_at \/ watch_at' \in {"none", "gone"}
           \/ watch_at' = "scan" /\ watch_at = "sleep"
    BY <1>2 DEF watcherVars, StopWatch, WatchJoined, WakeUp
  <2> QED
    BY <1>1, <2>1, SameNames
<1>3. CASE ScanNext
  <2>1. PICK n \in unread : now' = [now EXCEPT ![n] = dir[n]]
    BY <1>3 DEF ScanNext
  <2>2. now' \in [WatchNames -> MayFind] /\ \A m \in WatchNames : now'[m] = now[m] \/ now'[m] = dir[m]
    BY <1>1, <2>1
  <2>3. /\ watch_at = "scan" /\ watch_at' = "scan"
        /\ UNCHANGED <<dir, changes, copy, believed, stale, hidden, snapshot>>
    BY <1>3 DEF ScanNext
  <2> QED
    BY <2>2, <2>3, SameNames
<1> QED
  BY <1>2, <1>3, ChangesKeep, StartWatchKeeps, DiffKeeps, TellKeeps, EndRoundKeeps
  DEF WatcherNext, WatchThread

\* It implies that nothing is missed and nothing is told twice.
LEMMA WatcherHolds == WatcherIInv => WatcherInv
<1> SUFFICES ASSUME WatcherIInv PROVE WatcherInv
  OBVIOUS
<1>1. ToldOnce
  <2>1. ASSUME watch_at = "sleep", NEW n \in WatchNames, believed[n] # (snapshot[n] # Absent)
        PROVE  n \in stale
    BY <2>1 DEF WatcherIInv, WatcherType, Settled, Agrees
  <2> QED
    BY <2>1 DEF ToldOnce
<1>2. NothingMissed
  <2>1. ASSUME watch_at = "sleep", NEW n \in WatchNames \ (hidden \cup stale)
        PROVE  UpToDate(n) \/ (snapshot[n] = Absent) # (dir[n] = Absent) \/ Differ(snapshot[n], dir[n])
    <3>1. Current(n) \/ Moved(snapshot[n], dir[n])
      BY <2>1 DEF WatcherIInv, Settled, Agrees
    <3>2. Current(n) => UpToDate(n)
      BY DEF Current, UpToDate
    <3>3. Moved(snapshot[n], dir[n]) => (snapshot[n] = Absent) # (dir[n] = Absent) \/ Differ(snapshot[n], dir[n])
      BY DEF Moved, Differ
    <3> QED
      BY <3>1, <3>2, <3>3
  <2> QED
    BY <2>1 DEF NothingMissed
<1> QED
  BY <1>1, <1>2 DEF WatcherInv

\* Nothing is missed and nothing is told twice, for any names and changes.
THEOREM WatcherKept == WatcherInit /\ [][WatcherNext]_watcherVars => []WatcherInv
BY WatcherBegins, WatcherStays, WatcherHolds, PTL

-----------------------------------------------------------------------------
(***************************************************************************)
(* The parts side by side.                                                 *)
(***************************************************************************)

\* Each part goes through what its own module specifies, whichever part is used.
THEOREM PartsApart ==
  Spec => /\ FrameSpec /\ ProcessSpec /\ RunSpec /\ RunnerInit /\ [][RunnerNext]_runnerVars
          /\ SqliteSpec /\ FileLockInit /\ [][FileLockNext]_fileLockVars
          /\ ShareInit /\ [][ShareNext]_shareVars
          /\ WatcherInit /\ [][WatcherNext]_watcherVars
          /\ AtomicInit /\ [][AtomicNext]_atomicVars
<1>1. Init => /\ FrameInit /\ ChildInit /\ RunInit /\ RunnerInit /\ SqliteInit /\ FileLockInit
              /\ ShareInit /\ WatcherInit /\ AtomicInit
  BY DEF Init
<1>2. [Next]_platformVars =>
        /\ [FrameNext]_serviceFrameVars /\ [ProcessNext]_processVars /\ [RunNext]_runVars
        /\ [RunnerNext]_runnerVars /\ [SqliteNext]_sqliteVars /\ [FileLockNext]_fileLockVars
        /\ [ShareNext]_shareVars /\ [WatcherNext]_watcherVars /\ [AtomicNext]_atomicVars
  BY DEF Next, platformVars, Using, UseFrame, UseProcess, UseSqlite, UseLock, UseShare,
     UseWatcher, UseRun, UseRunner, UseAtomic
<1> QED
  BY <1>1, <1>2, PTL DEF Spec, FrameSpec, ProcessSpec, RunSpec, SqliteSpec

\* What is kept in files is kept in every behaviour of the platform.
THEOREM StorageKept == Spec => []StorageInv
<1>1. SqliteInv /\ FileLockInv /\ ShareInv /\ WatcherInv /\ AtomicInv => StorageInv
  BY DEF StorageInv
<1> QED
  BY <1>1, PartsApart, SqliteKept, FileLockKept, ShareKept, WatcherKept, AtomicKept, PTL

\* And so is what the programs promise, that of the test runner as long as no two
\* requests are within start() at once.
THEOREM ProgramsKept ==
  Spec => [](FrameInv /\ ProcessInv /\ RunInv /\ (~StartsOverlap => ProgramsInv))
<1>1. CASE StartsOverlap
  <2>1. FrameInv /\ ProcessInv /\ RunInv
          => FrameInv /\ ProcessInv /\ RunInv /\ (~StartsOverlap => ProgramsInv)
    BY <1>1
  <2> QED
    BY <2>1, PartsApart, FrameKept, ProcessKept, RunKept, PTL
<1>2. CASE ~StartsOverlap
  <2>1. FrameInv /\ ProcessInv /\ RunInv /\ RunnerInv
          => FrameInv /\ ProcessInv /\ RunInv /\ (~StartsOverlap => ProgramsInv)
    BY DEF ProgramsInv
  <2>2. RunnerInit /\ [][RunnerNext]_runnerVars => []RunnerInv
    BY <1>2, RunnerKept
  <2> QED
    BY <2>1, <2>2, PartsApart, FrameKept, ProcessKept, RunKept, PTL
<1> QED
  BY <1>1, <1>2
=============================================================================
