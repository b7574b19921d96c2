---------------------------- MODULE ServiceFrame ----------------------------
(***************************************************************************)
(* svcframe.cpp: a service whose configuration is reloaded when its file   *)
(* changes (ConfigStore, ConfigWatcher) or on demand (POST /api/reload),   *)
(* and that is stopped in order by Ctrl+C (graceful_shutdown).             *)
(*                                                                         *)
(* The content of the file is a version number, 0 where it cannot be       *)
(* parsed, and then only the defaults are left.  Every write has an mtime  *)
(* of its own.  A reload reads the file, installs what it has read, and    *)
(* applies to the log and to the RPC server what is installed by then.     *)
(***************************************************************************)
EXTENDS Integers, FiniteSets

CONSTANTS
  MaxEdits,      \* bound on the edits of the file
  MaxReloads,    \* bound on the reloads on demand
  MaxCalls       \* bound on the RPC calls

ASSUME FrameAssumption == {MaxEdits, MaxReloads, MaxCalls} \subseteq Nat

VARIABLES
  file, mtime,       \* content and time of the last write
  edits, saving,     \* versions saved, and whether one is half written
  installed,         \* ConfigStore::facade_ and settings_
  log_level, rpc_settings,   \* the version the log and the server go by
  watcher,           \* where the watcher's thread is
  last_mtime, seen,  \* ConfigWatcher::last_mtime_, and the mtime to be confirmed
  at_reload,         \* per reloading thread: where it is
  fresh,             \* what it has read: the file, or the settings to apply
  reloads,           \* reloads on demand so far
  overlapped,        \* history: two reloads were under way together
  calls,             \* where each RPC call is
  in_flight,         \* RpcMethods::in_flight_
  ready, service_at  \* the readiness flag, and where run_service() is

fileVars   == <<file, mtime, edits, saving>>
watchVars  == <<watcher, last_mtime, seen>>
reloadVars == <<installed, log_level, rpc_settings, at_reload, fresh, reloads, overlapped>>
callsMade  == <<calls, in_flight>>
serviceFrameVars  == <<fileVars, watchVars, reloadVars, callsMade, ready, service_at>>

Reloaders == {"watcher", "http"}
Calls     == 1..MaxCalls
Up        == {"serve", "drain"}     \* the RPC server has not been stopped

FrameInit ==
  /\ file = 1 /\ mtime = 1 /\ edits = 1 /\ saving = FALSE
  /\ installed = 1 /\ log_level = 1 /\ rpc_settings = 1
  /\ watcher = "none" /\ last_mtime = 0 /\ seen = 0
  /\ at_reload = [t \in Reloaders |-> "no"] /\ fresh = [t \in Reloaders |-> 0]
  /\ reloads = 0 /\ overlapped = FALSE
  /\ calls = [c \in Calls |-> "new"] /\ in_flight = 0
  /\ ready = TRUE /\ service_at = "serve"

-----------------------------------------------------------------------------
(* The file. *)

\* Written in place: until the editor is done the file cannot be parsed.
BeginSave ==
  /\ edits <= MaxEdits /\ ~saving
  /\ file' = 0 /\ mtime' = mtime + 1 /\ saving' = TRUE
  /\ UNCHANGED <<edits, watchVars, reloadVars, callsMade, ready, service_at>>

EndSave ==
  /\ saving
  /\ edits' = edits + 1 /\ file' = edits + 1 /\ mtime' = mtime + 1 /\ saving' = FALSE
  /\ UNCHANGED <<watchVars, reloadVars, callsMade, ready, service_at>>

-----------------------------------------------------------------------------
(* reload_and_apply(), by the watcher and by the threads of the control server. *)

Reload(t, from, to) ==
  /\ at_reload[t] = from
  /\ at_reload' = [at_reload EXCEPT ![t] = to]

BeginReload(t) ==
  /\ at_reload[t] = "no"
  /\ at_reload' = [at_reload EXCEPT ![t] = "read"]
  /\ overlapped' = (overlapped \/ \E u \in Reloaders \ {t} : at_reload[u] # "no")

\* ConfigStore::reload(): a facade of its own is built from the file ...
ReadFile(t) ==
  /\ Reload(t, "read", "install")
  /\ fresh' = [fresh EXCEPT ![t] = file]
  /\ UNCHANGED <<fileVars, watchVars, installed, log_level, rpc_settings, reloads,
                 overlapped, callsMade, ready, service_at>>

\* ... and put in place under the mutex.
Install(t) ==
  /\ Reload(t, "install", "settings")
  /\ installed' = fresh[t]
  /\ UNCHANGED <<fileVars, watchVars, log_level, rpc_settings, fresh, reloads,
                 overlapped, callsMade, ready, service_at>>

\* settings() and facade() each take what is installed by then.
TakeSettings(t) ==
  /\ Reload(t, "settings", "level") \/ Reload(t, "facade", "apply")
  /\ fresh' = [fresh EXCEPT ![t] = installed]
  /\ UNCHANGED <<fileVars, watchVars, installed, log_level, rpc_settings, reloads,
                 overlapped, callsMade, ready, service_at>>

SetLevel(t) ==
  /\ Reload(t, "level", "facade")
  /\ log_level' = fresh[t]
  /\ UNCHANGED <<fileVars, watchVars, installed, rpc_settings, fresh, reloads,
                 overlapped, callsMade, ready, service_at>>

ApplyConfig(t) ==
  /\ Reload(t, "apply", "no")
  /\ rpc_settings' = fresh[t]
  /\ UNCHANGED <<fileVars, watchVars, installed, log_level, fresh, reloads,
                 overlapped, callsMade, ready, service_at>>

Reloading(t) ==
  ReadFile(t) \/ Install(t) \/ TakeSettings(t) \/ SetLevel(t) \/ ApplyConfig(t)

\* POST /api/reload, while the control server takes requests.
PostReload ==
  /\ reloads < MaxReloads /\ service_at \in Up \cup {"rpc"}
  /\ BeginReload("http")
  /\ reloads' = reloads + 1
  /\ UNCHANGED <<fileVars, watchVars, installed, log_level, rpc_settings, fresh,
                 callsMade, ready, service_at>>

-----------------------------------------------------------------------------
(* ConfigWatcher. *)

StartWatcher ==
  /\ watcher = "none" /\ service_at = "serve"
  /\ watcher' = "poll" /\ last_mtime' = mtime
  /\ UNCHANGED <<fileVars, seen, reloadVars, callsMade, ready, service_at>>

Watching == service_at # "join"

\* The first look at the mtime, and the second one 60 ms later.
Poll ==
  /\ watcher = "poll" /\ Watching
  /\ mtime # last_mtime
  /\ seen' = mtime /\ watcher' = "confirm"
  /\ UNCHANGED <<fileVars, last_mtime, reloadVars, callsMade, ready, service_at>>

Confirm ==
  /\ watcher = "confirm"
  /\ IF mtime # seen
       THEN watcher' = "poll" /\ UNCHANGED <<last_mtime, at_reload, overlapped>>
       ELSE watcher' = "change" /\ last_mtime' = seen /\ BeginReload("watcher")
  /\ UNCHANGED <<fileVars, seen, installed, log_level, rpc_settings, fresh,
                 reloads, callsMade, ready, service_at>>

\* Mutant: the time is noted when the reload is over.
ChangeDoneLate ==
  /\ watcher = "change" /\ at_reload["watcher"] = "no"
  /\ watcher' = "poll" /\ last_mtime' = mtime
  /\ UNCHANGED <<fileVars, seen, reloadVars, callsMade, ready, service_at>>

ChangeDone ==
  /\ watcher = "change" /\ at_reload["watcher"] = "no"
  /\ watcher' = "poll"
  /\ UNCHANGED <<fileVars, last_mtime, seen, reloadVars, callsMade, ready, service_at>>

WatcherExit ==
  /\ watcher = "poll" /\ ~Watching
  /\ watcher' = "done"
  /\ UNCHANGED <<fileVars, last_mtime, seen, reloadVars, callsMade, ready, service_at>>

WatcherStep == Poll \/ Confirm \/ ChangeDone \/ WatcherExit \/ Reloading("watcher")

-----------------------------------------------------------------------------
(* RPC calls, and graceful_shutdown(). *)

\* InFlightGuard: counted in and out around the method.
CallBegins(c) ==
  /\ calls[c] = "new" /\ service_at \in Up
  /\ calls' = [calls EXCEPT ![c] = "run"] /\ in_flight' = in_flight + 1
  /\ UNCHANGED <<fileVars, watchVars, reloadVars, ready, service_at>>

CallEnds(c) ==
  /\ calls[c] = "run"
  /\ calls' = [calls EXCEPT ![c] = "done"] /\ in_flight' = in_flight - 1
  /\ UNCHANGED <<fileVars, watchVars, reloadVars, ready, service_at>>

\* Ctrl+C: first the readiness is withdrawn ...
Interrupt ==
  /\ service_at = "serve" /\ watcher # "none"
  /\ ready' = FALSE /\ service_at' = "drain"
  /\ UNCHANGED <<fileVars, watchVars, reloadVars, callsMade>>

\* ... then the calls are waited for, or the window is over; rpc.stop() turns
\* new calls away and joins those that run; http.stop() joins the handlers of
\* the control server; and last the watcher is joined.
Drained == service_at = "drain" /\ service_at' = "rpc"

\* Mutant: the methods are not joined.
RpcStoppedAtOnce == service_at = "rpc" /\ service_at' = "http"

RpcStopped == service_at = "rpc" /\ in_flight = 0 /\ service_at' = "http"

ControlStopped == service_at = "http" /\ at_reload["http"] = "no" /\ service_at' = "join"

WatcherStopped == service_at = "join" /\ watcher = "done" /\ service_at' = "returned"

ShutdownStep ==
  /\ Drained \/ RpcStopped \/ ControlStopped \/ WatcherStopped
  /\ UNCHANGED <<fileVars, watchVars, reloadVars, callsMade, ready>>

FrameNext ==
  \/ BeginSave \/ EndSave \/ PostReload \/ Reloading("http")
  \/ StartWatcher \/ WatcherStep
  \/ \E c \in Calls : CallBegins(c) \/ CallEnds(c)
  \/ Interrupt \/ ShutdownStep

FrameSpec == FrameInit /\ [][FrameNext]_serviceFrameVars

\* Threads run and methods return; nobody has to edit, reload or interrupt.
FrameFairness ==
  /\ WF_serviceFrameVars(WatcherStep) /\ WF_serviceFrameVars(Reloading("http"))
  /\ WF_serviceFrameVars(ShutdownStep)
  /\ \A c \in Calls : WF_serviceFrameVars(CallEnds(c))

-----------------------------------------------------------------------------
FrameTypeOK ==
  /\ {file, installed, log_level, rpc_settings} \subseteq 0..MaxEdits + 1
  /\ watcher \in {"none", "poll", "confirm", "change", "done"}
  /\ at_reload \in [Reloaders -> {"no", "read", "install", "settings", "level", "facade", "apply"}]
  /\ in_flight \in Nat /\ ready \in BOOLEAN
  /\ service_at \in Up \cup {"rpc", "http", "join", "returned"}

\* The stop takes the service apart from the outside: it is not ready while it
\* is stopped, no method runs once the RPC server is down, no reload on demand
\* once the control server is, and none at all when run_service() returns and
\* the server and the store that a reload uses are gone.
StopsInOrder ==
  /\ service_at # "serve" => ~ready
  /\ service_at \in {"http", "join", "returned"} => \A c \in Calls : calls[c] # "run"
  /\ service_at \in {"join", "returned"} => at_reload["http"] = "no"
  /\ service_at = "returned" => \A t \in Reloaders : at_reload[t] = "no"

\* The service goes by one version, unless a reload is under way: it never
\* stays with the log of one version and the server of another.
OneVersion ==
  (\A t \in Reloaders : at_reload[t] = "no") /\ ~overlapped =>
    log_level = installed /\ rpc_settings = installed

FrameInv == FrameTypeOK /\ StopsInOrder /\ OneVersion

\* svcframe.cpp:8, "the file's mtime changes, and it is loaded again": a change
\* that the watcher can see is applied in the end, also one that is made during
\* a reload - even when it is only half written.  The exception is a reload on
\* demand that crosses the watcher's: what is read first may be installed last.
Served == installed = file /\ log_level = file /\ rpc_settings = file
EditIsApplied ==
  watcher = "poll" /\ mtime # last_mtime ~>
    Served \/ overlapped \/ service_at # "serve"

\* After Ctrl+C, until run_service() returns.
Exiting == service_at \notin {"serve", "returned"}
=============================================================================
