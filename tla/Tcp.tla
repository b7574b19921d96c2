-------------------------------- MODULE Tcp ---------------------------------
(***************************************************************************)
(* TcpServer of tcp.cpp: an accept thread registers connections, each has  *)
(* a thread of its own, silent ones are shut down by a task on the shared  *)
(* timer wheel (or by their own thread), and stop() closes everything and  *)
(* joins everybody before the server may be started again.                 *)
(***************************************************************************)
EXTENDS Integers, FiniteSets

CONSTANTS
  MaxSessions,   \* bound on the connections of one start
  MaxRuns        \* bound: how often the server is started

ASSUME TcpServerAssumption == MaxSessions \in Nat /\ MaxRuns \in Nat

VARIABLES
  wheel_liveness,  \* TcpConfig::wheel_liveness with a heartbeat; else polling
  serving_tcp, listening,   \* running, and listener is valid
  run,          \* starts so far
  accepter,     \* where the accept thread is
  next_conn,    \* next_conn_id
  sessions,     \* map of conn_id: is the fd in it still valid?
  reader,       \* where each session's thread is
  descriptor,   \* the socket each thread was given: is it still open?
  link,         \* "up", or "down": shut down by us or given up by the peer
  silent,       \* connections without input for heartbeat_timeout
  liveness,     \* conn_ids with an entry in liveness and liveness_timers
  tasks,        \* periodic tasks on the wheel: conn_id and the run of the stamp
  told,         \* history: how often on_disconnect was called
  wronged,      \* history: the wheel has shut down a connection that was not silent
  halter        \* where stop() is

acceptVars == <<serving_tcp, listening, accepter, next_conn>>
aliveVars  == <<liveness, tasks, wronged>>
tcpServerVars == <<wheel_liveness, run, acceptVars, sessions, reader, descriptor, link,
                   silent, aliveVars, told, halter>>

ConnIds == 1..MaxSessions
Without(f, id) == [other \in DOMAIN f \ {id} |-> f[other]]

TcpServerInit ==
  /\ wheel_liveness \in BOOLEAN
  /\ serving_tcp = FALSE /\ listening = FALSE /\ run = 0
  /\ accepter = "gone" /\ next_conn = 1
  /\ sessions = <<>>
  /\ reader = [id \in ConnIds |-> "none"]
  /\ descriptor = [id \in ConnIds |-> FALSE]
  /\ link = [id \in ConnIds |-> "up"]
  /\ silent = {} /\ liveness = {} /\ tasks = {}
  /\ told = [id \in ConnIds |-> 0] /\ wronged = FALSE
  /\ halter = "no"

\* start(): ids begin at one again; liveness is not cleared.
StartServer ==
  /\ halter = "no" /\ ~serving_tcp /\ run < MaxRuns
  /\ run' = run + 1
  /\ serving_tcp' = TRUE /\ listening' = TRUE /\ accepter' = "poll" /\ next_conn' = 1
  /\ reader' = [id \in ConnIds |-> "none"]
  /\ link' = [id \in ConnIds |-> "up"] /\ silent' = {}
  /\ told' = [id \in ConnIds |-> 0]
  /\ UNCHANGED <<wheel_liveness, sessions, descriptor, aliveVars, halter>>
-----------------------------------------------------------------------------
\* The accept thread.  It may have looked at running before stop() cleared it.
AcceptOne ==
  /\ accepter = "poll" /\ listening /\ next_conn <= MaxSessions
  /\ accepter' = "accepted"
  /\ UNCHANGED <<wheel_liveness, run, serving_tcp, listening, next_conn, sessions, reader,
                 descriptor, link, silent, aliveVars, told, halter>>

RegisterSession ==
  /\ accepter = "accepted"
  /\ sessions' = [id \in DOMAIN sessions \cup {next_conn} |->
                   IF id = next_conn THEN TRUE ELSE sessions[id]]
  /\ descriptor' = [descriptor EXCEPT ![next_conn] = TRUE]
  /\ IF wheel_liveness
     THEN /\ liveness' = liveness \cup {next_conn}
          /\ tasks' = tasks \cup {[conn |-> next_conn, stamp |-> run]}
     ELSE UNCHANGED <<liveness, tasks>>
  /\ accepter' = "registered"
  /\ UNCHANGED <<wheel_liveness, run, serving_tcp, listening, next_conn, reader, link, silent,
                 wronged, told, halter>>

\* The session's thread starts before on_connect is called.
LaunchSession ==
  /\ accepter = "registered"
  /\ reader' = [reader EXCEPT ![next_conn] = "loop"]
  /\ next_conn' = next_conn + 1
  /\ accepter' = "announce"
  /\ UNCHANGED <<wheel_liveness, run, serving_tcp, listening, sessions, descriptor, link,
                 silent, aliveVars, told, halter>>

Announce ==
  /\ accepter = "announce"
  /\ accepter' = "poll"
  /\ UNCHANGED <<wheel_liveness, run, serving_tcp, listening, next_conn, sessions, reader,
                 descriptor, link, silent, aliveVars, told, halter>>

AcceptEnds ==
  /\ accepter = "poll" /\ ~serving_tcp
  /\ accepter' = "gone"
  /\ UNCHANGED <<wheel_liveness, run, serving_tcp, listening, next_conn, sessions, reader,
                 descriptor, link, silent, aliveVars, told, halter>>

Accepting == AcceptOne \/ RegisterSession \/ LaunchSession \/ Announce \/ AcceptEnds
-----------------------------------------------------------------------------
\* session_loop(): a frame arrives; a ping is answered at once, data go to the
\* callback, and either refreshes the time of the last input.
ReceiveFrame(id) ==
  /\ reader[id] = "loop" /\ serving_tcp /\ link[id] = "up"
  /\ silent' = silent \ {id}
  /\ \E place \in {"loop", "message"} : reader' = [reader EXCEPT ![id] = place]
  /\ reader' # reader \/ silent' # silent
  /\ UNCHANGED <<wheel_liveness, run, acceptVars, sessions, descriptor, link, aliveVars, told, halter>>

MessageDone(id) ==
  /\ reader[id] = "message"
  /\ reader' = [reader EXCEPT ![id] = "loop"]
  /\ UNCHANGED <<wheel_liveness, run, acceptVars, sessions, descriptor, link, silent, aliveVars, told, halter>>

\* The server stops, the peer or the link is gone, a frame is too long, or, in
\* polling mode, the peer is silent.
MayEnd(id) == ~serving_tcp \/ link[id] = "down" \/ (~wheel_liveness /\ id \in silent)

EndLoop(id) ==
  /\ reader[id] = "loop" /\ MayEnd(id)
  /\ reader' = [reader EXCEPT ![id] = "leave"]
  /\ UNCHANGED <<wheel_liveness, run, acceptVars, sessions, descriptor, link, silent, aliveVars, told, halter>>

\* Mutant: the socket is closed before the session is removed.
DropSessionLate(id) ==
  /\ reader[id] = "leave"
  /\ descriptor' = [descriptor EXCEPT ![id] = FALSE]
  /\ reader' = [reader EXCEPT ![id] =
                 IF id \in DOMAIN sessions THEN "close known" ELSE "close"]
  /\ UNCHANGED <<wheel_liveness, run, acceptVars, sessions, link, silent, aliveVars, told, halter>>

\* drop_session_locked(): what stop() has removed before, it does not touch.
DropSession(id) ==
  /\ reader[id] = "leave"
  /\ IF id \in DOMAIN sessions
     THEN /\ sessions' = Without(sessions, id)
          /\ liveness' = liveness \ {id}
          /\ tasks' = tasks \ (IF id \in liveness THEN {[conn |-> id, stamp |-> run]} ELSE {})
          /\ reader' = [reader EXCEPT ![id] = "close known"]
     ELSE /\ reader' = [reader EXCEPT ![id] = "close"]
          /\ UNCHANGED <<sessions, liveness, tasks>>
  /\ UNCHANGED <<wheel_liveness, run, acceptVars, descriptor, link, silent, wronged, told, halter>>

CloseSession(id) ==
  /\ reader[id] \in {"close", "close known"}
  /\ descriptor' = [descriptor EXCEPT ![id] = FALSE]
  /\ reader' = [reader EXCEPT ![id] = IF @ = "close known" THEN "tell" ELSE "gone"]
  /\ UNCHANGED <<wheel_liveness, run, acceptVars, sessions, link, silent, aliveVars, told, halter>>

\* on_disconnect
TellEnd(id) ==
  /\ reader[id] = "tell"
  /\ told' = [told EXCEPT ![id] = @ + 1]
  /\ reader' = [reader EXCEPT ![id] = "gone"]
  /\ UNCHANGED <<wheel_liveness, run, acceptVars, sessions, descriptor, link, silent, aliveVars, halter>>

SessionStep(id) ==
  MessageDone(id) \/ EndLoop(id) \/ DropSession(id) \/ CloseSession(id) \/ TellEnd(id)
-----------------------------------------------------------------------------
\* The peer sends a frame that is too long, closes, dies, or stops sending.
PeerEnds(id) ==
  /\ reader[id] \in {"loop", "message"} /\ link[id] = "up"
  /\ link' = [link EXCEPT ![id] = "down"]
  /\ UNCHANGED <<wheel_liveness, run, acceptVars, sessions, reader, descriptor, silent, aliveVars, told, halter>>

PeerSilent(id) ==
  /\ reader[id] = "loop" /\ link[id] = "up" /\ id \notin silent
  /\ silent' = silent \cup {id}
  /\ UNCHANGED <<wheel_liveness, run, acceptVars, sessions, reader, descriptor, link, aliveVars, told, halter>>

\* A tick of the wheel for one task.  A task of an earlier run looks up the
\* session by its id, but the time in its own stamp.
WheelCheck(t) ==
  LET gone == ~serving_tcp \/ t.conn \notin liveness \/ t.conn \notin DOMAIN sessions
      late == IF t.stamp = run THEN {t.conn \in silent} ELSE BOOLEAN IN
  /\ t \in tasks
  /\ tasks' = tasks \ {t}
  /\ \/ gone /\ UNCHANGED <<link, wronged>>
     \/ /\ ~gone /\ TRUE \in late
        /\ link' = IF sessions[t.conn] THEN [link EXCEPT ![t.conn] = "down"] ELSE link
        /\ wronged' = (wronged \/ (sessions[t.conn] /\ t.conn \notin silent))
  /\ UNCHANGED <<wheel_liveness, run, acceptVars, sessions, reader, descriptor, silent, liveness, told, halter>>

\* disconnect(): shut down only; the thread closes the socket.
Disconnect(id) ==
  /\ id \in DOMAIN sessions /\ sessions[id]
  /\ link' = [link EXCEPT ![id] = "down"]
  /\ sessions' = [sessions EXCEPT ![id] = FALSE]
  /\ UNCHANGED <<wheel_liveness, run, acceptVars, reader, descriptor, silent, aliveVars, told, halter>>
-----------------------------------------------------------------------------
\* stop(): the flag, then the listener and all sockets ...
HaltFlag ==
  /\ halter = "no" /\ serving_tcp
  /\ serving_tcp' = FALSE /\ halter' = "sweep"
  /\ UNCHANGED <<wheel_liveness, run, listening, accepter, next_conn, sessions, reader,
                 descriptor, link, silent, aliveVars, told>>

HaltSweep ==
  /\ halter = "sweep"
  /\ listening' = FALSE
  /\ link' = [id \in ConnIds |-> IF id \in DOMAIN sessions THEN "down" ELSE link[id]]
  /\ descriptor' = [id \in ConnIds |->
                     IF id \in DOMAIN sessions /\ sessions[id] THEN FALSE ELSE descriptor[id]]
  /\ sessions' = [id \in DOMAIN sessions |-> FALSE]
  /\ halter' = "clear"
  /\ UNCHANGED <<wheel_liveness, run, serving_tcp, accepter, next_conn, reader, silent, aliveVars, told>>

\* ... then, without the accept thread, the sessions are forgotten ...
HaltClear ==
  /\ halter = "clear" /\ accepter = "gone"
  /\ sessions' = <<>>
  /\ halter' = "join"
  /\ UNCHANGED <<wheel_liveness, run, acceptVars, reader, descriptor, link, silent, aliveVars, told>>

\* ... and their threads are joined.
HaltJoined ==
  /\ halter = "join"
  /\ \A id \in ConnIds : reader[id] \in {"none", "gone"}
  /\ halter' = "no"
  /\ UNCHANGED <<wheel_liveness, run, acceptVars, sessions, reader, descriptor, link, silent, aliveVars, told>>

Halt == HaltFlag \/ HaltSweep \/ HaltClear \/ HaltJoined

TcpServerNext ==
  \/ StartServer \/ Accepting \/ Halt
  \/ \E id \in ConnIds :
       ReceiveFrame(id) \/ SessionStep(id) \/ PeerEnds(id) \/ PeerSilent(id) \/ Disconnect(id)
  \/ \E t \in tasks : WheelCheck(t)

TcpServerSpec == TcpServerInit /\ [][TcpServerNext]_tcpServerVars
-----------------------------------------------------------------------------
TcpServerTypeOK ==
  /\ DOMAIN sessions \subseteq ConnIds
  /\ accepter \in {"gone", "poll", "accepted", "registered", "announce"}
  /\ reader \in [ConnIds -> {"none", "loop", "message", "leave", "close", "close known",
                              "tell", "gone"}]
  /\ descriptor \in [ConnIds -> BOOLEAN] /\ link \in [ConnIds -> {"up", "down"}]
  /\ silent \subseteq ConnIds /\ liveness \subseteq ConnIds
  /\ tasks \subseteq [conn : ConnIds, stamp : 1..MaxRuns]
  /\ halter \in {"no", "sweep", "clear", "join"}

\* What send() and broadcast() find in the table is a socket of theirs: its
\* number cannot have been given to somebody else.
SendSafe == \A id \in DOMAIN sessions : sessions[id] => descriptor[id]

\* While the server runs every ended connection is reported, and reported once.
EndIsTold ==
  \A id \in ConnIds :
    /\ told[id] <= 1
    /\ serving_tcp /\ reader[id] = "gone" => told[id] = 1

\* A stopped server has no connection, no thread and no open socket left, also
\* if a connection was accepted while it was being stopped.
HaltedIsEmpty ==
  halter = "no" /\ ~serving_tcp =>
    /\ accepter = "gone" /\ DOMAIN sessions = {}
    /\ \A id \in ConnIds : reader[id] \in {"none", "gone"} /\ ~descriptor[id]

TcpServerInv == TcpServerTypeOK /\ SendSafe /\ EndIsTold /\ HaltedIsEmpty

\* A task of the wheel stops by itself when its session is gone or the server
\* is stopped (tcp.cpp:754), and ends silent connections only.
KillsOnlySilent == ~wronged

-----------------------------------------------------------------------------
(***************************************************************************)
(* TcpClient of tcp.cpp: connect(), close() and the destructor of one user *)
(* thread, the thread of each session, and the task on the shared timer    *)
(* wheel that is to reconnect after a loss.                                *)
(***************************************************************************)

CONSTANTS
  MaxLines,       \* bound on the connections made
  AutoReconnect   \* TcpConfig::auto_reconnect

ASSUME TcpClientAssumption == MaxLines \in Nat /\ AutoReconnect \in BOOLEAN

VARIABLES
  server_up,    \* somebody listens at the other end
  lines,        \* connections made so far; they are numbered
  fd,           \* Impl::fd: a connection, or 0
  connected, stop_requested,
  worker,       \* Impl::worker: the session whose thread it is, or 0
  session,      \* where the thread of each session is
  line,         \* the socket of each session: "up" or "down"
  losses,       \* history: calls of on_disconnect per session
  rc_task,      \* a reconnect task waits on the wheel
  actor,        \* where the user's thread and the wheel's task are
  intent,       \* what the user's thread is in: "connect", "close" or "destroy"
  destroyed

lineVars      == <<lines, fd, connected, stop_requested, worker>>
threadVars   == <<session, line, losses>>
tcpClientVars == <<server_up, lineVars, threadVars, rc_task, actor, intent, destroyed>>

Lines == 1..MaxLines
MoveTo(a, place) == actor' = [actor EXCEPT ![a] = place]

TcpClientInit ==
  /\ server_up = TRUE
  /\ lines = 0 /\ fd = 0 /\ connected = FALSE /\ stop_requested = FALSE /\ worker = 0
  /\ session = [n \in Lines |-> "none"] /\ line = [n \in Lines |-> "up"]
  /\ losses = [n \in Lines |-> 0]
  /\ rc_task = FALSE
  /\ actor = [a \in {"user", "wheel"} |-> "idle"] /\ intent = "connect"
  /\ destroyed = FALSE

UserCalls ==
  /\ actor["user"] = "idle" /\ ~destroyed
  /\ \E what \in {"connect", "close", "destroy"} :
       /\ what = "connect" => lines < MaxLines
       /\ intent' = what
  /\ MoveTo("user", "close")
  /\ UNCHANGED <<server_up, lineVars, threadVars, rc_task, destroyed>>

\* close(), with which connect_impl() begins too: the socket goes ...
CloseLine(a) ==
  /\ actor[a] = "close"
  /\ stop_requested' = TRUE /\ fd' = 0 /\ connected' = FALSE
  /\ line' = [n \in Lines |-> IF n = fd THEN "down" ELSE line[n]]
  /\ MoveTo(a, "join")
  /\ UNCHANGED <<server_up, lines, worker, session, losses, rc_task, intent, destroyed>>

\* Mutant: close() leaves the thread to itself.
JoinWorkerNot(a) ==
  /\ actor[a] = "join"
  /\ worker' = 0
  /\ MoveTo(a, IF a = "user" /\ intent # "connect" THEN "idle" ELSE "resolve")
  /\ destroyed' = (destroyed \/ (a = "user" /\ intent = "destroy"))
  /\ UNCHANGED <<server_up, lines, fd, connected, stop_requested, threadVars, rc_task, intent>>

\* ... and the session's thread is joined.
JoinWorker(a) ==
  /\ actor[a] = "join"
  /\ worker # 0 => session[worker] = "gone"
  /\ worker' = 0
  /\ MoveTo(a, IF a = "user" /\ intent # "connect" THEN "idle" ELSE "resolve")
  /\ destroyed' = (destroyed \/ (a = "user" /\ intent = "destroy"))
  /\ UNCHANGED <<server_up, lines, fd, connected, stop_requested, threadVars, rc_task, intent>>

\* connect_with_timeout(): 1 for connected, 0 for the time-out, -1 for an error.
connect_with_timeout == IF server_up THEN {1, 0} ELSE {0, -1}

\* connect_impl() goes on: the host is resolved and the socket connected.  The
\* host of the task is reconnect_host, which nothing sets: it is not resolved.
ConnectFails(a) ==
  /\ actor[a] = "resolve"
  /\ a = "wheel" \/ connect_with_timeout # {1}
  /\ MoveTo(a, "idle")
  /\ UNCHANGED <<server_up, lineVars, threadVars, rc_task, intent, destroyed>>

ConnectOk ==
  /\ actor["user"] = "resolve" /\ 1 \in connect_with_timeout
  /\ lines' = lines + 1 /\ fd' = lines + 1
  /\ stop_requested' = FALSE /\ connected' = TRUE
  /\ MoveTo("user", "spawn")
  /\ UNCHANGED <<server_up, worker, threadVars, rc_task, intent, destroyed>>

SpawnWorker ==
  /\ actor["user"] = "spawn"
  /\ worker' = lines
  /\ session' = [session EXCEPT ![lines] = "run"]
  /\ MoveTo("user", "idle")
  /\ UNCHANGED <<server_up, lines, fd, connected, stop_requested, line, losses, rc_task, intent, destroyed>>

\* A task of the wheel that comes after the destructor would use freed memory;
\* behaviours end there.
ActorStep(a) == ~destroyed /\ (CloseLine(a) \/ JoinWorker(a) \/ ConnectFails(a))
-----------------------------------------------------------------------------
\* session_loop(): it ends when the client stops or the connection does, which
\* includes a peer that missed its heartbeats and a frame that is too long.
SessionEnds(n) ==
  /\ session[n] = "run" /\ (stop_requested \/ line[n] = "down")
  /\ session' = [session EXCEPT ![n] = "leave"]
  /\ UNCHANGED <<server_up, lineVars, line, losses, rc_task, actor, intent, destroyed>>

\* The socket is closed, then taken out of Impl.
SessionLeaves(n) ==
  /\ session[n] = "leave"
  /\ line' = [line EXCEPT ![n] = "down"]
  /\ fd' = IF fd = n THEN 0 ELSE fd
  /\ connected' = FALSE
  /\ session' = [session EXCEPT ![n] = "judge"]
  /\ UNCHANGED <<server_up, lines, stop_requested, worker, losses, rc_task, actor, intent, destroyed>>

\* Only an end that nobody asked for is a loss.
SessionJudges(n) ==
  /\ session[n] = "judge"
  /\ session' = [session EXCEPT ![n] = IF stop_requested THEN "gone" ELSE "tell"]
  /\ UNCHANGED <<server_up, lineVars, line, losses, rc_task, actor, intent, destroyed>>

SessionTells(n) ==
  /\ session[n] = "tell"
  /\ losses' = [losses EXCEPT ![n] = @ + 1]
  /\ rc_task' = (rc_task \/ AutoReconnect)
  /\ session' = [session EXCEPT ![n] = "gone"]
  /\ UNCHANGED <<server_up, lineVars, line, actor, intent, destroyed>>

SessionThread(n) == SessionEnds(n) \/ SessionLeaves(n) \/ SessionJudges(n) \/ SessionTells(n)

\* The delay is over: the task runs unless the client was stopped.
ReconnectDue ==
  /\ rc_task /\ actor["wheel"] = "idle" /\ ~destroyed
  /\ rc_task' = FALSE
  /\ MoveTo("wheel", IF stop_requested THEN "idle" ELSE "close")
  /\ UNCHANGED <<server_up, lineVars, threadVars, intent, destroyed>>

\* The connection breaks, or the peer falls silent and is given up.
LineBreaks ==
  /\ \E n \in Lines : line[n] = "up" /\ session[n] = "run" /\ line' = [line EXCEPT ![n] = "down"]
  /\ UNCHANGED <<server_up, lineVars, session, losses, rc_task, actor, intent, destroyed>>

ServerChanges ==
  /\ server_up' = ~server_up
  /\ UNCHANGED <<lineVars, threadVars, rc_task, actor, intent, destroyed>>

TcpClientNext ==
  \/ UserCalls \/ ConnectOk \/ SpawnWorker \/ \E a \in {"user", "wheel"} : ActorStep(a)
  \/ \E n \in Lines : SessionThread(n)
  \/ ReconnectDue \/ LineBreaks \/ ServerChanges

TcpClientSpec == TcpClientInit /\ [][TcpClientNext]_tcpClientVars

-----------------------------------------------------------------------------
TcpClientTypeOK ==
  /\ lines \in 0..MaxLines /\ fd \in 0..lines /\ worker \in 0..lines
  /\ session \in [Lines -> {"none", "run", "leave", "judge", "tell", "gone"}]
  /\ actor \in [{"user", "wheel"} -> {"idle", "close", "join", "resolve", "spawn"}]

Alive(n) == session[n] \notin {"none", "gone"}

\* A client that calls itself connected has a socket, and a thread that reads
\* from it or is about to.
ConnectedIsServed == connected => fd # 0 /\ (Alive(fd) \/ actor["user"] = "spawn")

\* One session at a time, and its thread is the one that will be joined: an
\* assignment to a running std::thread would end the program.
OneSession == \A n \in Lines : Alive(n) => worker = n

\* A loss is reported at most once, whoever closes the socket and when.
LossesTold == \A n \in Lines : losses[n] <= 1

\* Neither close() nor the destructor leave a thread behind.
ClosedIsQuiet ==
  destroyed \/ (actor["user"] = "idle" /\ intent = "close") =>
    fd = 0 /\ ~connected /\ \A n \in Lines : ~Alive(n)

TcpClientInv ==
  TcpClientTypeOK /\ ConnectedIsServed /\ OneSession /\ LossesTold /\ ClosedIsQuiet
=============================================================================
