----------------------------- MODULE WebSocket ------------------------------
(***************************************************************************)
(* One connection of websocket.cpp, at either end: how it comes about, the *)
(* thread that splits what arrives into frames and puts messages together, *)
(* and the user who sends, closes, or stops the server.  The peer may be   *)
(* any program that speaks the protocol, well or not.                      *)
(***************************************************************************)
EXTENDS Integers, Sequences, FiniteSets

CONSTANTS
  MaxFrames,    \* bound on the frames of the peer
  EarlyFrames   \* bound on those that arrive together with the handshake

ASSUME WebSocketAssumption == MaxFrames \in Nat /\ EarlyFrames \in Nat

VARIABLES
  role,        \* "client" or "server"
  phase,       \* where the thread of the session is
  input,       \* the frames the peer has sent
  received,    \* how many of them were read from the socket
  handled,     \* how many were handled; those in between are in read_buf
  assembly,    \* asm_buf, as the numbers of its frames; assembling if not empty
  messages,    \* what on_message was called with
  socket,      \* "up", "down" (shut down or given up by the peer), "closed"
  closes,      \* history: how often the socket was closed
  valid,       \* Impl::fd or Session::fd still names the socket
  listed, handshake_done,   \* the server's table has the session; it may be sent to
  caller,      \* of connect(): "inside", to call on_connect ("announce"), "returned"
  ws_stop,     \* stop_requested, or running was cleared
  announced, ended,         \* history: calls of on_connect and on_disconnect
  closer       \* where close() or stop() is

frameVars     == <<input, received, handled, assembly, messages>>
socketVars    == <<socket, closes, valid>>
tableWsVars   == <<listed, handshake_done, caller>>
webSocketVars == <<role, phase, frameVars, socketVars, tableWsVars, ws_stop, announced, ended, closer>>

\* Text and binary frames are alike; "part" and "more" have FIN unset, "more"
\* and "last" are continuations; "bad" breaks a rule of its own (mask, opcode,
\* length, reserved bits).
FrameKinds == {"text", "part", "more", "last", "ping", "close", "bad"}

WebSocketInit ==
  /\ \/ role = "client" /\ phase = "connect" /\ caller = "inside"
     \/ role = "server" /\ phase = "start" /\ caller = "returned"
  /\ input = <<>> /\ received = 0 /\ handled = 0 /\ assembly = <<>> /\ messages = <<>>
  /\ socket = "up" /\ closes = 0
  /\ valid = FALSE /\ listed = FALSE /\ handshake_done = FALSE
  /\ ws_stop = FALSE /\ announced = 0 /\ ended = 0 /\ closer = "idle"

\* Before the head of the handshake is read.
Young == phase \in {"connect", "start", "arriving", "taken", "registered", "started", "handshake"}

\* What comes early waits in the socket for the handshake's end.
PeerSendsFrame ==
  /\ socket = "up" /\ Len(input) < MaxFrames
  /\ Young => phase = "handshake" /\ Len(input) < EarlyFrames
  /\ \E kind \in FrameKinds : input' = Append(input, kind)
  /\ UNCHANGED <<role, phase, received, handled, assembly, messages, socketVars,
                 tableWsVars, ws_stop, announced, ended, closer>>

PeerCloses ==
  /\ socket = "up" /\ phase \notin {"connect", "start"} /\ socket' = "down"
  /\ UNCHANGED <<role, phase, frameVars, closes, valid, tableWsVars, ws_stop, announced, ended, closer>>
-----------------------------------------------------------------------------
\* connect_with_timeout(): connected, or an error, or the time-out.
Connect ==
  /\ phase = "connect"
  /\ \/ phase' = "handshake" /\ UNCHANGED <<socket, closes, caller>>
     \/ phase' = "gone" /\ caller' = "returned" /\ socket' = "closed" /\ closes' = closes + 1
  /\ UNCHANGED <<role, frameVars, valid, listed, handshake_done, ws_stop, announced, ended, closer>>

\* start() of the server: it listens, or its address cannot be had.
Listen ==
  /\ phase = "start"
  /\ phase' \in {"arriving", "never"}
  /\ UNCHANGED <<role, frameVars, socketVars, tableWsVars, ws_stop, announced, ended, closer>>

\* The accept thread takes a connection while the server runs; a stop() that comes
\* later waits for it to register the session and to start its thread.
AcceptConnection ==
  /\ phase = "arriving"
  /\ phase' = IF ws_stop THEN "never" ELSE "taken"
  /\ UNCHANGED <<role, frameVars, socketVars, tableWsVars, ws_stop, announced, ended, closer>>

NoteSession ==
  /\ phase = "taken"
  /\ listed' = TRUE /\ valid' = TRUE /\ phase' = "registered"
  /\ UNCHANGED <<role, frameVars, socket, closes, handshake_done, caller, ws_stop, announced, ended,
                 closer>>

StartSession ==
  /\ phase = "registered" /\ phase' = "started"
  /\ UNCHANGED <<role, frameVars, socketVars, tableWsVars, ws_stop, announced, ended, closer>>

\* Mutant: the thread begins with the handshake, whether the server runs or not, and
\* keeps the socket of a session it has no need for.
SessionBeginsRegardless ==
  /\ phase = "started"
  /\ phase' = (IF ws_stop THEN "forget" ELSE "handshake") /\ UNCHANGED <<socket, closes>>
  /\ UNCHANGED <<role, frameVars, valid, tableWsVars, ws_stop, announced, ended, closer>>

\* session_loop() of the server begins: a stop() may have come before.
SessionBegins ==
  /\ phase = "started"
  /\ IF ws_stop THEN socket' = "closed" /\ closes' = closes + 1 /\ phase' = "forget"
                ELSE phase' = "handshake" /\ UNCHANGED <<socket, closes>>
  /\ UNCHANGED <<role, frameVars, valid, tableWsVars, ws_stop, announced, ended, closer>>

\* recv_http_head() reads what there is up to the head's end and perhaps beyond it;
\* what lies beyond is put into read_buf.
Leftover == 0..Len(input)

\* client_handshake() succeeds, and connect() starts the thread before it calls
\* on_connect: messages may come first.
ClientHandshake ==
  /\ role = "client" /\ phase = "handshake" /\ socket = "up"
  /\ received' \in Leftover
  /\ valid' = TRUE /\ phase' = "wait" /\ caller' = "announce"
  /\ UNCHANGED <<role, input, handled, assembly, messages, socket, closes, listed, handshake_done,
                 ws_stop, announced, ended, closer>>

ConnectReturns ==
  /\ caller = "announce"
  /\ announced' = announced + 1 /\ caller' = "returned"
  /\ UNCHANGED <<role, phase, frameVars, socketVars, listed, handshake_done, ws_stop, ended, closer>>

\* server_handshake() succeeds.
ServerHandshake ==
  /\ role = "server" /\ phase = "handshake" /\ socket = "up"
  /\ received' \in Leftover
  /\ phase' = "greeted"
  /\ UNCHANGED <<role, input, handled, assembly, messages, socketVars, tableWsVars, ws_stop,
                 announced, ended, closer>>

\* The session may be sent to, if stop() has not taken it out of the table.
AdmitSession ==
  /\ phase = "greeted"
  /\ IF listed
     THEN handshake_done' = TRUE /\ phase' = "announce" /\ UNCHANGED <<socket, closes>>
     ELSE /\ socket' = "closed" /\ closes' = closes + 1 /\ phase' = "gone"
          /\ UNCHANGED handshake_done
  /\ UNCHANGED <<role, frameVars, valid, listed, caller, ws_stop, announced, ended, closer>>

\* A failed handshake tells nobody: the socket is closed, then forgotten.
HandshakeFails ==
  /\ phase = "handshake"
  /\ socket' = "closed" /\ closes' = closes + 1
  /\ phase' = IF role = "client" THEN "gone" ELSE "forget"
  /\ caller' = "returned"
  /\ UNCHANGED <<role, frameVars, valid, listed, handshake_done, ws_stop, announced, ended, closer>>

Forget ==
  /\ phase = "forget"
  /\ listed' = FALSE /\ valid' = FALSE /\ phase' = "gone"
  /\ UNCHANGED <<role, frameVars, socket, closes, handshake_done, caller, ws_stop, announced, ended,
                 closer>>

OnConnect ==
  /\ phase = "announce"
  /\ announced' = announced + 1 /\ phase' = "wait"
  /\ UNCHANGED <<role, frameVars, socketVars, tableWsVars, ws_stop, ended, closer>>

\* session_loop(): wait for input, and read all there is.
ReadFrames ==
  /\ phase = "wait" /\ ~ws_stop /\ socket # "closed" /\ received < Len(input)
  /\ received' = Len(input)
  /\ phase' = IF \E i \in handled + 1..Len(input) : input[i] = "bad" THEN "finish" ELSE "frames"
  /\ UNCHANGED <<role, input, handled, assembly, messages, socketVars, tableWsVars, ws_stop,
                 announced, ended, closer>>

\* Mutant: the loop waits for the peer's end, whatever close() or stop() ask.
WaitEndsAtEof ==
  /\ phase = "wait" /\ socket = "down" /\ received = Len(input)
  /\ phase' = "finish"
  /\ UNCHANGED <<role, frameVars, socketVars, tableWsVars, ws_stop, announced, ended, closer>>

\* The loop ends by the user, or when there is nothing more to read.
WaitEnds ==
  /\ phase = "wait"
  /\ ws_stop \/ socket = "closed" \/ (socket = "down" /\ received = Len(input))
  /\ phase' = "finish"
  /\ UNCHANGED <<role, frameVars, socketVars, tableWsVars, ws_stop, announced, ended, closer>>

Deliver(message) == messages' = Append(messages, message)

\* Mutant: the buffer is not cleared when a message is complete.
HandleFrameKeeping ==
  LET n == handled + 1  kind == input[n] IN
  /\ phase = "frames" /\ handled < received
  /\ handled' = n
  /\ \/ kind = "last" /\ assembly # <<>> /\ Deliver(Append(assembly, n))
     \/ kind = "part" /\ UNCHANGED messages
     \/ kind = "ping" /\ UNCHANGED messages
  /\ assembly' = IF kind = "ping" THEN assembly ELSE Append(assembly, n)
  /\ UNCHANGED <<role, phase, input, received, socketVars, tableWsVars, ws_stop, announced, ended, closer>>

\* Control frames do not touch the assembly.  A pong may fail to be sent.
HandleControl(kind) ==
  /\ UNCHANGED <<assembly, messages>>
  /\ \/ kind = "ping" /\ socket # "closed" /\ UNCHANGED phase
     \/ kind = "ping" /\ socket # "up" /\ phase' = "finish"
     \/ kind = "close" /\ phase' = "finish"

\* A data frame inside of an assembly and a continuation outside of one end the
\* session.
HandleData(kind, n) ==
  \/ kind = "text" /\ assembly = <<>> /\ Deliver(<<n>>) /\ UNCHANGED <<assembly, phase>>
  \/ kind = "part" /\ assembly = <<>> /\ assembly' = <<n>> /\ UNCHANGED <<messages, phase>>
  \/ kind = "more" /\ assembly # <<>> /\ assembly' = Append(assembly, n)
     /\ UNCHANGED <<messages, phase>>
  \/ kind = "last" /\ assembly # <<>> /\ Deliver(Append(assembly, n)) /\ assembly' = <<>>
     /\ UNCHANGED phase
  \/ /\ \/ kind \in {"text", "part"} /\ assembly # <<>>
        \/ kind \in {"more", "last"} /\ assembly = <<>>
     /\ phase' = "finish" /\ UNCHANGED <<assembly, messages>>

\* One frame of the batch.
HandleFrame ==
  LET n == handled + 1 IN
  /\ phase = "frames" /\ handled < received
  /\ handled' = n
  /\ HandleControl(input[n]) \/ HandleData(input[n], n)
  /\ UNCHANGED <<role, input, received, socketVars, tableWsVars, ws_stop, announced, ended, closer>>

BatchDone ==
  /\ phase = "frames" /\ handled = received
  /\ phase' = "wait"
  /\ UNCHANGED <<role, frameVars, socketVars, tableWsVars, ws_stop, announced, ended, closer>>

\* The end: the client's thread closes the socket if close() has not done so,
\* the server's thread always does, after it took the session out of the table.
EndSession ==
  /\ phase = "finish"
  /\ IF role = "client"
     THEN /\ IF valid THEN socket' = "closed" /\ closes' = closes + 1
                      ELSE UNCHANGED <<socket, closes>>
          /\ phase' = "tell"
     ELSE /\ socket' = "closed" /\ closes' = closes + 1
          /\ phase' = IF listed THEN "tell" ELSE "gone"
  /\ valid' = FALSE /\ listed' = FALSE
  /\ UNCHANGED <<role, frameVars, handshake_done, caller, ws_stop, announced, ended, closer>>

OnDisconnect ==
  /\ phase = "tell"
  /\ ended' = ended + 1 /\ phase' = "gone"
  /\ UNCHANGED <<role, frameVars, socketVars, tableWsVars, ws_stop, announced, closer>>

SessionRuns ==
  \/ SessionBegins \/ ClientHandshake \/ ServerHandshake \/ AdmitSession \/ HandshakeFails
  \/ Forget \/ OnConnect \/ ReadFrames \/ WaitEnds
  \/ HandleFrame \/ BatchDone \/ EndSession \/ OnDisconnect
-----------------------------------------------------------------------------
\* WsServer::disconnect(): a CLOSE frame, then shut down; the thread closes.
DisconnectPeer ==
  /\ role = "server" /\ listed /\ valid
  /\ socket' = IF socket = "up" THEN "down" ELSE socket
  /\ valid' = FALSE
  /\ UNCHANGED <<role, phase, frameVars, closes, tableWsVars, ws_stop, announced, ended, closer>>

\* WsClient::close() closes the socket itself, WsServer::stop() shuts it down.
BeginClose ==
  /\ closer = "idle" /\ phase # "start" /\ (role = "client" => caller # "inside")
  /\ ws_stop' = TRUE
  /\ IF valid
     THEN IF role = "client"
          THEN socket' = "closed" /\ closes' = closes + 1
          ELSE socket' = (IF socket = "up" THEN "down" ELSE socket) /\ UNCHANGED closes
     ELSE UNCHANGED <<socket, closes>>
  /\ valid' = FALSE
  /\ closer' = IF role = "client" THEN "join" ELSE "clear"
  /\ UNCHANGED <<role, phase, frameVars, tableWsVars, announced, ended>>

ClearTable ==
  /\ closer = "clear" /\ phase \notin {"arriving", "taken", "registered"}   \* accept_thread.join()
  /\ listed' = FALSE /\ closer' = "join"
  /\ UNCHANGED <<role, phase, frameVars, socketVars, handshake_done, caller, ws_stop,
                 announced, ended>>

CloseReturns ==
  /\ closer = "join" /\ phase \in {"gone", "never"}
  /\ closer' = "done"
  /\ UNCHANGED <<role, phase, frameVars, socketVars, tableWsVars, ws_stop, announced, ended>>

Closing == BeginClose \/ ClearTable \/ CloseReturns

\* The thread in connect(), and the server's accept thread.
Opening ==
  Connect \/ ConnectReturns \/ Listen \/ AcceptConnection \/ NoteSession \/ StartSession

WebSocketNext ==
  \/ PeerSendsFrame \/ PeerCloses \/ Opening \/ SessionRuns \/ DisconnectPeer \/ Closing

WebSocketSpec == WebSocketInit /\ [][WebSocketNext]_webSocketVars

\* The session's thread runs, and so do the threads in connect(), in close() or stop(),
\* and the one that accepts.
WebSocketFairness ==
  /\ WF_webSocketVars(SessionRuns) /\ WF_webSocketVars(Opening)
  /\ WF_webSocketVars(ClearTable \/ CloseReturns)
-----------------------------------------------------------------------------
WebSocketTypeOK ==
  /\ phase \in {"connect", "start", "arriving", "taken", "registered", "started", "handshake", "greeted",
               "announce", "wait", "frames", "finish", "tell", "forget", "gone", "never"}
  /\ input \in Seq(FrameKinds) /\ handled \in 0..Len(input) /\ received \in handled..Len(input)
  /\ socket \in {"up", "down", "closed"} /\ closer \in {"idle", "clear", "join", "done"}

DataUpTo(i, j) == {n \in i..j : input[n] \in {"text", "part", "more", "last"}}

\* A message is a whole one: a single frame, or all data frames from a first
\* part to the next last part, with nothing but control frames in between.
WholeMessage(m) ==
  LET first == m[1]  final == m[Len(m)] IN
  /\ {m[i] : i \in 1..Len(m)} = DataUpTo(first, final)
  /\ \A i \in 1..Len(m) - 1 : m[i] < m[i + 1]
  /\ IF Len(m) = 1 THEN input[first] = "text"
     ELSE /\ input[first] = "part" /\ input[final] = "last"
          /\ \A i \in 2..Len(m) - 1 : input[m[i]] = "more"

\* The messages are whole, in order, and complete: while the session lives
\* every frame that ends a message has ended one that was delivered.
Reassembled ==
  /\ \A i \in 1..Len(messages) : WholeMessage(messages[i])
  /\ \A i, j \in 1..Len(messages) :
       i < j => messages[i][Len(messages[i])] < messages[j][1]
  /\ phase \in {"wait", "frames"} =>
       Cardinality({n \in 1..handled : input[n] \in {"text", "last"}}) = Len(messages)

\* At the server on_connect comes first and on_disconnect last, each at most once; a
\* session that was announced is reported as ended unless stop() forgot it.  At the
\* client connect() may be late with on_connect, but every thread that served ends
\* with on_disconnect, and no failed connect() calls either.
Bracketed ==
  /\ announced <= 1 /\ ended <= 1
  /\ ended = 1 => phase = "gone"
  /\ role = "server" =>
       /\ ended <= announced
       /\ messages # <<>> => announced = 1
       /\ phase = "gone" /\ announced = 1 /\ ~ws_stop => ended = 1
  /\ role = "client" /\ phase = "gone" /\ caller = "returned" => announced = ended

\* send_frame() finds a socket to send on.
MaySendFrame == valid /\ (role = "server" => listed /\ handshake_done)

\* "This thread is the only one to close it" (websocket.cpp:993): the socket of a
\* connection is closed once, what may be sent to is not closed, and a stop() that has
\* returned leaves no session that could be sent to.
ClosedOnce ==
  /\ closes <= 1 /\ (phase = "gone" => closes = 1) /\ (phase = "never" => closes = 0)
  /\ MaySendFrame => socket # "closed"
  /\ closer = "done" => ~MaySendFrame

WebSocketInv == WebSocketTypeOK /\ Reassembled /\ Bracketed /\ ClosedOnce

\* connect() promises that messages may be received at once (websocket.h:41):
\* no frame lies in read_buf while the session waits for more input.
NothingWithheld == phase = "wait" => handled = received
=============================================================================
