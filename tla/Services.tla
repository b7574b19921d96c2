------------------------------ MODULE Services ------------------------------
(***************************************************************************)
(* Services of the library side by side: the scheduler of jobsvc, one      *)
(* WebSocket connection, the RPC server's transports below HTTP, the HTTP  *)
(* server itself, and the TCP library's server and client.                 *)
(* They share no state: a behaviour is one of a single service, which its  *)
(* first state chooses; the others stay as they were constructed.          *)
(***************************************************************************)
EXTENDS JobService, WebSocket, RpcShells, HttpServer, Tcp

VARIABLE service   \* the service that is used

serviceVars ==
  <<service, jobVars, webSocketVars, shellVars, httpVars, tcpServerVars, tcpClientVars>>

Init ==
  /\ service \in {"jobs", "websocket", "shells", "http", "tcp server", "tcp client"}
  /\ JobInit /\ WebSocketInit /\ ShellsInit /\ HttpInit
  /\ TcpServerInit /\ TcpClientInit
  /\ service # "websocket" => role = "client"
  /\ service # "tcp server" => wheel_liveness
  /\ service # "shells" => transport = "tcp"

\* s is used, and nothing else changes.
Using(s) ==
  /\ service = s /\ UNCHANGED service
  /\ IF s = "jobs" THEN TRUE ELSE UNCHANGED jobVars
  /\ IF s = "websocket" THEN TRUE ELSE UNCHANGED webSocketVars
  /\ IF s = "shells" THEN TRUE ELSE UNCHANGED shellVars
  /\ IF s = "http" THEN TRUE ELSE UNCHANGED httpVars
  /\ IF s = "tcp server" THEN TRUE ELSE UNCHANGED tcpServerVars
  /\ IF s = "tcp client" THEN TRUE ELSE UNCHANGED tcpClientVars

UseJobs      == Using("jobs") /\ JobNext
UseWebSocket == Using("websocket") /\ WebSocketNext
UseShells    == Using("shells") /\ ShellsNext
UseHttp      == Using("http") /\ HttpNext
UseTcpServer == Using("tcp server") /\ TcpServerNext
UseTcpClient == Using("tcp client") /\ TcpClientNext

Next == UseJobs \/ UseWebSocket \/ UseShells \/ UseHttp \/ UseTcpServer \/ UseTcpClient

Spec == Init /\ [][Next]_serviceVars

\* Fairness is owed to the service that is used, as its own module states it.
FairSpec ==
  /\ Spec
  /\ WF_jobVars(service = "jobs" /\ Dispatcher)
  /\ \A w \in Executors :
       /\ SF_jobVars(service = "jobs" /\ TestQueue(w))
       /\ WF_jobVars(service = "jobs" /\ Executor(w))
  /\ WF_jobVars(service = "jobs" /\ (StopNotify \/ StopJoined))
  /\ WF_webSocketVars(service = "websocket" /\ SessionRuns)
  /\ WF_webSocketVars(service = "websocket" /\ Opening)
  /\ WF_webSocketVars(service = "websocket" /\ (ClearTable \/ CloseReturns))
  /\ WF_shellVars(service = "shells" /\ Quitting)
  /\ WF_shellVars(service = "shells" /\ ShellAccepting)
  /\ \A c \in Links : WF_shellVars(service = "shells" /\ ReaderStep(c))
  /\ \A r \in Requests :
       WF_shellVars(service = "shells" /\ (CoreReturns(r) \/ Reply(r)))
-----------------------------------------------------------------------------
\* The two sides of a connection that is served: WebSocket's sessions, and the HTTP
\* server's routes, listening thread and owner.
ServedInv == WebSocketInv /\ HttpServerInv

\* TCP, on both sides: sessions, threads, descriptors and callbacks.
TcpInv == TcpServerInv /\ TcpClientInv

\* Whoever ends a service gets its thread back: close() and stop() of a
\* WebSocket, whatever the peer does, and stop() of the RPC server's shells,
\* however many clients keep their connections.  Named pipes are excepted: a
\* read that begins after the cancellation, or a thread that had not
\* registered its pipe, waits for as long as the client stays.
EndsReturn ==
  closer = "join" \/ quitter = "drain" ~>
    closer = "done" \/ quitter = "done" \/ transport = "pipe"
=============================================================================
