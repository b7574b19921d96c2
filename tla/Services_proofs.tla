-------------------------- MODULE Services_proofs ---------------------------
(***************************************************************************)
(* Proofs about the services of the library: the shells of the RPC server, *)
(* the HTTP server, a WebSocket connection, the TCP server and client, and *)
(* the scheduler of jobsvc.  Each has an inductive invariant of its own,   *)
(* with one lemma for each of its actions; the last part puts them side by *)
(* side.                                                                   *)
(***************************************************************************)
EXTENDS Services, FiniteSetTheorems, TLAPS

-----------------------------------------------------------------------------
(***************************************************************************)
(* The proof of ShellsInv, for any number of connections and requests.     *)
(* Neither ClosedLast nor QuitIsQuiet is inductive: that a descriptor is   *)
(* closed late rests on what its reader waited for when it left (Joined),  *)
(* and that nobody is left after stop() on the accept thread, which knows  *)
(* every reader that it has to join (Known) and goes after them (Swept).   *)
(***************************************************************************)

ShellsType ==
  /\ ShellsTypeOK /\ transport \in {"uds", "pipe", "tcp"} /\ stopping \in BOOLEAN
  /\ registered \subseteq Links
  /\ reading \in [Links -> {0} \cup Requests] /\ owner \in [Requests -> {0} \cup Links]
  /\ delivered \in [Requests -> Nat]

\* A request has come by a connection, and is answered at its end.
OwnedRequest(r) ==
  /\ request[r] = "none" <=> owner[r] = 0
  /\ delivered[r] <= 1 /\ (delivered[r] # 0 => request[r] = "over")

\* A reader that handles a request itself handles one of its own.
SyncRequest(c) ==
  /\ rdr[c] = "sync" <=> reading[c] # 0
  /\ reading[c] # 0 => owner[reading[c]] = c /\ request[reading[c]] \in {"core", "reply"}

\* A reader that has gone has joined the threads of its requests, and only a
\* Unix socket is left to be closed by another thread.
JoinedReader(c) ==
  /\ rdr[c] \in {"done", "gone"} /\ transport # "tcp" => \A r \in Mine(c) : request[r] = "over"
  /\ peer_link[c] = "closed" => rdr[c] = "gone"

\* The accept thread of a Unix socket knows every reader it has to reap.
KnownReader(c) ==
  /\ rdr[c] = "done" => transport = "uds"
  /\ transport = "uds" /\ rdr[c] \notin {"none", "gone"} => c \in registered

\* Whoever waits for the accept thread finds the readers gone.
Swept ==
  /\ acceptor = "gone" => \A c \in Links : rdr[c] \in {"none", "gone"}
  /\ quitter \in {"workers", "done"} => acceptor = "gone"
  /\ quitter = "done" => \A r \in Requests : request[r] \in {"none", "over"}

\* The inductive invariant.
ShellsIInv ==
  /\ ShellsType /\ Swept
  /\ \A r \in Requests : OwnedRequest(r)
  /\ \A c \in Links : SyncRequest(c) /\ JoinedReader(c) /\ KnownReader(c)

\* The accept thread takes a connection.
LEMMA AcceptKeeps ==
  ASSUME ShellsIInv, AcceptLink
  PROVE  ShellsIInv'
<1> USE DEF AcceptLink, requestVars
<1>1. ShellsType'
  BY DEF ShellsIInv, ShellsType, ShellsTypeOK
<1>2. Swept'
  BY DEF ShellsIInv, ShellsType, ShellsTypeOK, Swept
<1>3. ASSUME NEW r \in Requests PROVE OwnedRequest(r)'
  BY DEF ShellsIInv, ShellsType, ShellsTypeOK, OwnedRequest
<1>4. ASSUME NEW d \in Links PROVE SyncRequest(d)'
  BY DEF ShellsIInv, ShellsType, ShellsTypeOK, SyncRequest, OwnedRequest
<1>5. ASSUME NEW d \in Links PROVE JoinedReader(d)'
  BY DEF ShellsIInv, ShellsType, ShellsTypeOK, JoinedReader, Mine, SyncRequest, OwnedRequest
<1>6. ASSUME NEW d \in Links PROVE KnownReader(d)'
  BY DEF ShellsIInv, ShellsType, ShellsTypeOK, KnownReader
<1> QED
  BY <1>1, <1>2, <1>3, <1>4, <1>5, <1>6 DEF ShellsIInv

\* Finished readers are reaped, between two connections or at the end.
LEMMA ReapKeeps ==
  ASSUME ShellsIInv, ReapBetween \/ SweepJoined
  PROVE  ShellsIInv'
<1> USE DEF ReapBetween, SweepJoined, Reap, Finished, requestVars
<1>1. ShellsType'
  BY DEF ShellsIInv, ShellsType, ShellsTypeOK
<1>2. Swept'
  BY DEF ShellsIInv, ShellsType, ShellsTypeOK, Swept, KnownReader
<1>3. ASSUME NEW r \in Requests PROVE OwnedRequest(r)'
  BY DEF ShellsIInv, ShellsType, ShellsTypeOK, OwnedRequest
<1>4. ASSUME NEW d \in Links PROVE SyncRequest(d)'
  BY DEF ShellsIInv, ShellsType, ShellsTypeOK, SyncRequest, OwnedRequest
<1>5. ASSUME NEW d \in Links PROVE JoinedReader(d)'
  BY DEF ShellsIInv, ShellsType, ShellsTypeOK, JoinedReader, Mine, SyncRequest, OwnedRequest
<1>6. ASSUME NEW d \in Links PROVE KnownReader(d)'
  BY DEF ShellsIInv, ShellsType, ShellsTypeOK, KnownReader
<1> QED
  BY <1>1, <1>2, <1>3, <1>4, <1>5, <1>6 DEF ShellsIInv

\* The readers are unblocked.
LEMMA SweepKeeps ==
  ASSUME ShellsIInv, Sweep
  PROVE  ShellsIInv'
<1> USE DEF Sweep, requestVars
<1>1. ShellsType'
  BY DEF ShellsIInv, ShellsType, ShellsTypeOK
<1>2. Swept'
  BY DEF ShellsIInv, ShellsType, ShellsTypeOK, Swept
<1>3. ASSUME NEW r \in Requests PROVE OwnedRequest(r)'
  BY DEF ShellsIInv, ShellsType, ShellsTypeOK, OwnedRequest
<1>4. ASSUME NEW d \in Links PROVE SyncRequest(d)'
  BY DEF ShellsIInv, ShellsType, ShellsTypeOK, SyncRequest, OwnedRequest
<1>5. ASSUME NEW d \in Links PROVE JoinedReader(d)'
  BY DEF ShellsIInv, ShellsType, ShellsTypeOK, JoinedReader, Mine, SyncRequest, OwnedRequest
<1>6. ASSUME NEW d \in Links PROVE KnownReader(d)'
  BY DEF ShellsIInv, ShellsType, ShellsTypeOK, KnownReader
<1> QED
  BY <1>1, <1>2, <1>3, <1>4, <1>5, <1>6 DEF ShellsIInv

\* A reader starts, or finds nothing more to read; a client closes.
LEMMA ReaderKeeps ==
  ASSUME ShellsIInv, NEW c \in Links, StartReader(c) \/ ReadFails(c) \/ ClientCloses(c)
  PROVE  ShellsIInv'
<1> USE DEF StartReader, ReadFails, ClientCloses, requestVars
<1>1. ShellsType'
  BY DEF ShellsIInv, ShellsType, ShellsTypeOK
<1>2. Swept'
  BY DEF ShellsIInv, ShellsType, ShellsTypeOK, Swept
<1>3. ASSUME NEW r \in Requests PROVE OwnedRequest(r)'
  BY DEF ShellsIInv, ShellsType, ShellsTypeOK, OwnedRequest
<1>4. ASSUME NEW d \in Links PROVE SyncRequest(d)'
  BY DEF ShellsIInv, ShellsType, ShellsTypeOK, SyncRequest, OwnedRequest
<1>5. ASSUME NEW d \in Links PROVE JoinedReader(d)'
  BY DEF ShellsIInv, ShellsType, ShellsTypeOK, JoinedReader, Mine, SyncRequest, OwnedRequest
<1>6. ASSUME NEW d \in Links PROVE KnownReader(d)'
  BY DEF ShellsIInv, ShellsType, ShellsTypeOK, KnownReader
<1> QED
  BY <1>1, <1>2, <1>3, <1>4, <1>5, <1>6 DEF ShellsIInv

\* A reader ends.
LEMMA LeaveKeeps ==
  ASSUME ShellsIInv, NEW c \in Links, LeaveLoop(c)
  PROVE  ShellsIInv'
<1> USE DEF LeaveLoop, requestVars
<1>1. ShellsType'
  BY DEF ShellsIInv, ShellsType, ShellsTypeOK
<1>2. Swept'
  BY DEF ShellsIInv, ShellsType, ShellsTypeOK, Swept
<1>3. ASSUME NEW r \in Requests PROVE OwnedRequest(r)'
  BY DEF ShellsIInv, ShellsType, ShellsTypeOK, OwnedRequest
<1>4. ASSUME NEW d \in Links PROVE SyncRequest(d)'
  BY DEF ShellsIInv, ShellsType, ShellsTypeOK, SyncRequest, OwnedRequest
<1>5. ASSUME NEW d \in Links PROVE JoinedReader(d)'
  BY DEF ShellsIInv, ShellsType, ShellsTypeOK, JoinedReader, Mine, SyncRequest, OwnedRequest
<1>6. ASSUME NEW d \in Links PROVE KnownReader(d)'
  BY DEF ShellsIInv, ShellsType, ShellsTypeOK, KnownReader
<1> QED
  BY <1>1, <1>2, <1>3, <1>4, <1>5, <1>6 DEF ShellsIInv

\* A request arrives.
LEMMA ReadKeeps ==
  ASSUME ShellsIInv, NEW c \in Links, ReadRequest(c)
  PROVE  ShellsIInv'
<1>1. PICK r \in Requests :
        /\ request[r] = "none"
        /\ request' = [request EXCEPT ![r] = "core"] /\ owner' = [owner EXCEPT ![r] = c]
        /\ \/ UNCHANGED <<rdr, reading>>
           \/ reading' = [reading EXCEPT ![c] = r] /\ rdr' = [rdr EXCEPT ![c] = "sync"]
  BY DEF ReadRequest
<1>2. /\ rdr[c] = "read"
      /\ UNCHANGED <<transport, stopping, acceptor, peer_link, registered, delivered, quitter>>
  BY DEF ReadRequest
<1>3. ShellsType'
  BY <1>1, <1>2 DEF ShellsIInv, ShellsType, ShellsTypeOK
<1>4. Swept'
  BY <1>1, <1>2 DEF ShellsIInv, ShellsType, ShellsTypeOK, Swept
<1>5. ASSUME NEW s \in Requests PROVE OwnedRequest(s)'
  BY <1>1, <1>2 DEF ShellsIInv, ShellsType, ShellsTypeOK, OwnedRequest, Links
<1>6. ASSUME NEW d \in Links PROVE SyncRequest(d)'
  <2>1. CASE d = c
    BY <1>1, <1>2, <2>1 DEF ShellsIInv, ShellsType, ShellsTypeOK, SyncRequest, Requests
  <2>2. CASE d # c
    <3>1. reading'[d] = reading[d] /\ rdr'[d] = rdr[d]
      BY <1>1, <2>2 DEF ShellsIInv, ShellsType, ShellsTypeOK
    <3>2. reading[d] # 0 => reading[d] # r
      BY <1>1 DEF ShellsIInv, SyncRequest
    <3> QED
      BY <1>1, <3>1, <3>2 DEF ShellsIInv, ShellsType, ShellsTypeOK, SyncRequest
  <2> QED
    BY <2>1, <2>2
<1>7. ASSUME NEW d \in Links PROVE JoinedReader(d)'
  BY <1>1, <1>2 DEF ShellsIInv, ShellsType, ShellsTypeOK, JoinedReader, Mine
<1>8. ASSUME NEW d \in Links PROVE KnownReader(d)'
  BY <1>1, <1>2 DEF ShellsIInv, ShellsType, ShellsTypeOK, KnownReader
<1> QED
  BY <1>3, <1>4, <1>5, <1>6, <1>7, <1>8 DEF ShellsIInv

\* A reader sends the answer of a request that it handled itself.
LEMMA SyncKeeps ==
  ASSUME ShellsIInv, NEW c \in Links, ReplySync(c)
  PROVE  ShellsIInv'
<1>1. PICK r \in Requests : r = reading[c] /\ owner[r] = c
  BY DEF ReplySync, ShellsIInv, ShellsType, SyncRequest
<1>2. /\ rdr[c] = "sync" /\ request[r] = "reply"
      /\ delivered' \in {delivered, [delivered EXCEPT ![r] = @ + 1]}
      /\ request' = [request EXCEPT ![r] = "over"] /\ reading' = [reading EXCEPT ![c] = 0]
      /\ \E x \in {"read", "leave"} : rdr' = [rdr EXCEPT ![c] = x]
      /\ UNCHANGED <<transport, stopping, acceptor, peer_link, registered, owner, quitter>>
  BY <1>1 DEF ReplySync
<1>3. ShellsType'
  BY <1>1, <1>2 DEF ShellsIInv, ShellsType, ShellsTypeOK
<1>4. Swept'
  BY <1>1, <1>2 DEF ShellsIInv, ShellsType, ShellsTypeOK, Swept
<1>5. ASSUME NEW s \in Requests PROVE OwnedRequest(s)'
  BY <1>1, <1>2 DEF ShellsIInv, ShellsType, ShellsTypeOK, OwnedRequest
<1>6. ASSUME NEW d \in Links PROVE SyncRequest(d)'
  BY <1>1, <1>2 DEF ShellsIInv, ShellsType, ShellsTypeOK, SyncRequest
<1>7. ASSUME NEW d \in Links PROVE JoinedReader(d)'
  BY <1>1, <1>2 DEF ShellsIInv, ShellsType, ShellsTypeOK, JoinedReader, Mine
<1>8. ASSUME NEW d \in Links PROVE KnownReader(d)'
  BY <1>1, <1>2 DEF ShellsIInv, ShellsType, ShellsTypeOK, KnownReader
<1> QED
  BY <1>3, <1>4, <1>5, <1>6, <1>7, <1>8 DEF ShellsIInv

\* A request returns from its handler, or its thread sends the answer.
LEMMA RequestKeeps ==
  ASSUME ShellsIInv, NEW r \in Requests, CoreReturns(r) \/ Reply(r)
  PROVE  ShellsIInv'
<1> USE DEF CoreReturns, Reply, MaySend, InCore, linkVars
<1>1. ShellsType'
  BY DEF ShellsIInv, ShellsType, ShellsTypeOK
<1>2. Swept'
  BY DEF ShellsIInv, ShellsType, ShellsTypeOK, Swept
<1>3. ASSUME NEW s \in Requests PROVE OwnedRequest(s)'
  BY DEF ShellsIInv, ShellsType, ShellsTypeOK, OwnedRequest
<1>4. ASSUME NEW d \in Links PROVE SyncRequest(d)'
  BY DEF ShellsIInv, ShellsType, ShellsTypeOK, SyncRequest, OwnedRequest
<1>5. ASSUME NEW d \in Links PROVE JoinedReader(d)'
  BY DEF ShellsIInv, ShellsType, ShellsTypeOK, JoinedReader, Mine, SyncRequest, OwnedRequest
<1>6. ASSUME NEW d \in Links PROVE KnownReader(d)'
  BY DEF ShellsIInv, ShellsType, ShellsTypeOK, KnownReader
<1> QED
  BY <1>1, <1>2, <1>3, <1>4, <1>5, <1>6 DEF ShellsIInv

\* stop() goes on by one step.
LEMMA QuitKeeps ==
  ASSUME ShellsIInv, QuitFlag \/ Quitting
  PROVE  ShellsIInv'
<1> USE DEF QuitFlag, Quitting, DrainEnds, QuitJoined, WorkersDrained, linkVars, requestVars
<1>1. ShellsType'
  BY DEF ShellsIInv, ShellsType, ShellsTypeOK
<1>2. Swept'
  BY DEF ShellsIInv, ShellsType, ShellsTypeOK, Swept
<1>3. ASSUME NEW r \in Requests PROVE OwnedRequest(r)'
  BY DEF ShellsIInv, ShellsType, ShellsTypeOK, OwnedRequest
<1>4. ASSUME NEW d \in Links PROVE SyncRequest(d)'
  BY DEF ShellsIInv, ShellsType, ShellsTypeOK, SyncRequest, OwnedRequest
<1>5. ASSUME NEW d \in Links PROVE JoinedReader(d)'
  BY DEF ShellsIInv, ShellsType, ShellsTypeOK, JoinedReader, Mine, SyncRequest, OwnedRequest
<1>6. ASSUME NEW d \in Links PROVE KnownReader(d)'
  BY DEF ShellsIInv, ShellsType, ShellsTypeOK, KnownReader
<1> QED
  BY <1>1, <1>2, <1>3, <1>4, <1>5, <1>6 DEF ShellsIInv

\* The invariant holds in every behaviour of the transports.
THEOREM ShellsInvariant == ShellsSpec => []ShellsIInv
<1>1. ShellsInit => ShellsIInv
  <2> SUFFICES ASSUME ShellsInit PROVE ShellsIInv
    OBVIOUS
  <2>1. ShellsType
    BY ShellsAssumption DEF ShellsAssumption, ShellsInit, ShellsType, ShellsTypeOK
  <2>2. Swept /\ (\A r \in Requests : OwnedRequest(r))
    BY DEF ShellsInit, Swept, OwnedRequest
  <2>3. \A c \in Links : SyncRequest(c) /\ JoinedReader(c) /\ KnownReader(c)
    BY DEF ShellsInit, SyncRequest, JoinedReader, KnownReader
  <2> QED
    BY <2>1, <2>2, <2>3 DEF ShellsIInv
<1>2. ShellsIInv /\ [ShellsNext]_shellVars => ShellsIInv'
  <2>1. ASSUME ShellsIInv, UNCHANGED shellVars PROVE ShellsIInv'
    BY <2>1 DEF shellVars, linkVars, requestVars, ShellsIInv, ShellsType, ShellsTypeOK, Swept,
       OwnedRequest, SyncRequest, JoinedReader, KnownReader, Mine
  <2> QED
    BY <2>1, AcceptKeeps, ReapKeeps, SweepKeeps, ReaderKeeps, LeaveKeeps, ReadKeeps, SyncKeeps,
       RequestKeeps, QuitKeeps
       DEF ShellsNext, ShellAccepting, ReaderStep
<1> QED
  BY <1>1, <1>2, PTL DEF ShellsSpec

\* However connections break and stop() comes: a descriptor is closed once its
\* reader and the threads that write to it have ended, no request is answered
\* twice, and after stop() nobody uses the server.
THEOREM ShellsQuietAtLast == ShellsSpec => []ShellsInv
<1>1. ShellsIInv => ShellsInv
  BY DEF ShellsIInv, ShellsInv, ShellsType, ClosedLast, AnsweredOnce, QuitIsQuiet, Swept,
     OwnedRequest, JoinedReader
<1> QED
  BY <1>1, ShellsInvariant, PTL
-----------------------------------------------------------------------------
(***************************************************************************)
(* The HTTP server, for any number of routes, starts and requests.  While  *)
(* a request is in progress nothing can be registered (InLoop), so that    *)
(* what was decided by its route stays decided.                            *)
(***************************************************************************)

HttpType ==
  /\ listener \in {"none", "bind", "loop", "closing", "gone"}
  /\ server_owner \in {"free", "starting", "stopping", "destroying", "gone"}
  /\ step \in {"none", "route", "handler", "check", "sent"}
  /\ made \in BOOLEAN /\ running \in BOOLEAN /\ gaveUp \in BOOLEAN /\ launched \in BOOLEAN
  /\ ready \in BOOLEAN /\ filtering \in BOOLEAN
  /\ query \in [path : {"none", "page", "healthz", "else"}, denied : BOOLEAN]
  /\ reply \in [status : Nat, full : BOOLEAN,
                from : {"nobody", "probe", "filter", "handler", "fallback"}]

\* A request is there while the loop runs, and the server has every route.
InLoop ==
  /\ running <=> listener \in {"loop", "closing"}
  /\ step = "none" <=> query = NoRequest
  /\ step # "none" => running
  /\ step \in {"none", "route"} => reached = {}
  /\ listener # "none" => made
  /\ made => routes = pending_routes

\* An owner that has not given up knows of the thread that listens: it waits for
\* one that binds, and has been told of one that runs.
KnownListener ==
  ~gaveUp =>
    /\ listener = "bind" => server_owner = "starting" /\ errorText = ""
    /\ running /\ server_owner # "starting" => launched /\ ready
    /\ server_owner = "gone" => ~running

\* An answer without a body is an error, and passes through the error handler.
Explained == (step = "check" => reply.full \/ reply.status >= 400) /\ NeverEmpty

HttpIInv ==
  HttpType /\ InLoop /\ KnownListener /\ Explained /\ DeniedIsDenied /\ FirstRegistered

\* The handler that a request has reached stays the first of its path as long as
\* no route is added and no other request comes.
LEMMA HandlerFixed ==
  ASSUME HttpIInv, step' # "handler" \/ (UNCHANGED <<step, pending_routes, query, reached>>)
  PROVE  FirstRegistered'
BY DEF HttpIInv, FirstRegistered

\* A route is registered while no request is there.
LEMMA RouteSteps ==
  ASSUME HttpIInv, NEW path \in {"page", "healthz"}, Route(path)
  PROVE  HttpIInv'
<1> USE DEF Route, AddRoute, Registering, routing, building, serving
<1>1. HttpType'
  <2>1. /\ query' \in [path : {"none", "page", "healthz", "else"}, denied : BOOLEAN]
        /\ reply' \in [status : Nat, full : BOOLEAN,
                       from : {"nobody", "probe", "filter", "handler", "fallback"}]
    BY DEF HttpIInv, HttpType, NoRequest, NoReply
  <2> QED
    BY <2>1 DEF HttpIInv, HttpType, InLoop
<1>2. InLoop'
  BY DEF HttpIInv, HttpType, InLoop, NoRequest
<1>3. KnownListener'
  BY DEF HttpIInv, HttpType, InLoop, KnownListener
<1>4. Explained'
  BY DEF HttpIInv, HttpType, InLoop, Explained, NeverEmpty
<1>5. DeniedIsDenied'
  BY DEF HttpIInv, HttpType, InLoop, DeniedIsDenied, NoRequest
<1>6. FirstRegistered'
  BY HandlerFixed DEF HttpIInv, HttpType, InLoop, NoRequest
<1> QED
  BY <1>1, <1>2, <1>3, <1>4, <1>5, <1>6 DEF HttpIInv

\* The built-in probe is registered.
LEMMA ProbeSteps ==
  ASSUME HttpIInv, EnableProbe
  PROVE  HttpIInv'
<1> USE DEF EnableProbe, AddRoute, Registering, routing, building, serving
<1>1. HttpType'
  <2>1. /\ query' \in [path : {"none", "page", "healthz", "else"}, denied : BOOLEAN]
        /\ reply' \in [status : Nat, full : BOOLEAN,
                       from : {"nobody", "probe", "filter", "handler", "fallback"}]
    BY DEF HttpIInv, HttpType, NoRequest, NoReply
  <2> QED
    BY <2>1 DEF HttpIInv, HttpType, InLoop
<1>2. InLoop'
  BY DEF HttpIInv, HttpType, InLoop, NoRequest
<1>3. KnownListener'
  BY DEF HttpIInv, HttpType, InLoop, KnownListener
<1>4. Explained'
  BY DEF HttpIInv, HttpType, InLoop, Explained, NeverEmpty
<1>5. DeniedIsDenied'
  BY DEF HttpIInv, HttpType, InLoop, DeniedIsDenied, NoRequest
<1>6. FirstRegistered'
  BY HandlerFixed DEF HttpIInv, HttpType, InLoop, NoRequest
<1> QED
  BY <1>1, <1>2, <1>3, <1>4, <1>5, <1>6 DEF HttpIInv

\* A filter or a fallback is installed while no request is there.
LEMMA InstallSteps ==
  ASSUME HttpIInv, Install
  PROVE  HttpIInv'
<1>1. /\ filtering' \in BOOLEAN /\ listener \in {"none", "gone"}
      /\ UNCHANGED <<listener, server_owner, step, made, running, gaveUp, launched, ready, query,
                     reply, reached, pending_routes, routes, errorText>>
  BY DEF Install, Registering, building, serving, HttpIInv, HttpType
<1>2. HttpType'
  BY <1>1 DEF HttpIInv, HttpType
<1>3. InLoop' /\ KnownListener' /\ Explained'
  BY <1>1 DEF HttpIInv, InLoop, KnownListener, Explained, NeverEmpty
<1>4. DeniedIsDenied'
  BY <1>1 DEF HttpIInv, HttpType, InLoop, DeniedIsDenied
<1>5. FirstRegistered'
  BY <1>1, HandlerFixed
<1> QED
  BY <1>2, <1>3, <1>4, <1>5 DEF HttpIInv

\* The certificates change.
LEMMA CertificateSteps ==
  ASSUME HttpIInv, SetCertificates
  PROVE  HttpIInv'
<1> USE DEF SetCertificates, Registering, routing, building, serving
<1>1. HttpType'
  <2>1. /\ query' \in [path : {"none", "page", "healthz", "else"}, denied : BOOLEAN]
        /\ reply' \in [status : Nat, full : BOOLEAN,
                       from : {"nobody", "probe", "filter", "handler", "fallback"}]
    BY DEF HttpIInv, HttpType, NoRequest, NoReply
  <2> QED
    BY <2>1 DEF HttpIInv, HttpType, InLoop
<1>2. InLoop'
  BY DEF HttpIInv, HttpType, InLoop, NoRequest
<1>3. KnownListener'
  BY DEF HttpIInv, HttpType, InLoop, KnownListener
<1>4. Explained'
  BY DEF HttpIInv, HttpType, InLoop, Explained, NeverEmpty
<1>5. DeniedIsDenied'
  BY DEF HttpIInv, HttpType, InLoop, DeniedIsDenied, NoRequest
<1>6. FirstRegistered'
  BY HandlerFixed DEF HttpIInv, HttpType, InLoop, NoRequest
<1> QED
  BY <1>1, <1>2, <1>3, <1>4, <1>5, <1>6 DEF HttpIInv

\* start_background(), its first half.
LEMMA StartSteps ==
  ASSUME HttpIInv, Start
  PROVE  HttpIInv'
<1> USE DEF Start, routing, building, serving
<1>1. HttpType'
  <2>1. /\ query' \in [path : {"none", "page", "healthz", "else"}, denied : BOOLEAN]
        /\ reply' \in [status : Nat, full : BOOLEAN,
                       from : {"nobody", "probe", "filter", "handler", "fallback"}]
    BY DEF HttpIInv, HttpType, NoRequest, NoReply
  <2> QED
    BY <2>1 DEF HttpIInv, HttpType, InLoop
<1>2. InLoop'
  BY DEF HttpIInv, HttpType, InLoop, NoRequest
<1>3. KnownListener'
  BY DEF HttpIInv, HttpType, InLoop, KnownListener
<1>4. Explained'
  BY DEF HttpIInv, HttpType, InLoop, Explained, NeverEmpty
<1>5. DeniedIsDenied'
  BY DEF HttpIInv, HttpType, InLoop, DeniedIsDenied, NoRequest
<1>6. FirstRegistered'
  BY HandlerFixed DEF HttpIInv, HttpType, InLoop, NoRequest
<1> QED
  BY <1>1, <1>2, <1>3, <1>4, <1>5, <1>6 DEF HttpIInv

\* The listening thread binds, or fails.
LEMMA BindSteps ==
  ASSUME HttpIInv, Bind
  PROVE  HttpIInv'
<1>1. /\ UNCHANGED <<server_owner, step, made, gaveUp, launched, ready, query, reply, filtering,
                     reached, pending_routes, routes>>
      /\ listener = "bind"
  BY DEF Bind, routing, building, serving
<1>2. \/ listener' = "loop" /\ running' = TRUE
      \/ listener' = "gone" /\ running' = running
  BY DEF Bind
<1>3. HttpType'
  <2>1. running' \in BOOLEAN
    BY <1>2 DEF HttpIInv, HttpType
  <2>2. listener' \in {"loop", "gone"}
    BY <1>2
  <2> QED
    BY <1>1, <2>1, <2>2 DEF HttpIInv, HttpType
<1>4. InLoop'
  BY <1>1, <1>2 DEF HttpIInv, HttpType, InLoop
<1>5. KnownListener'
  <2>1. ~gaveUp => server_owner = "starting"
    BY <1>1 DEF HttpIInv, KnownListener
  <2> QED
    BY <1>1, <1>2, <2>1 DEF KnownListener
<1>6. Explained'
  BY <1>1 DEF HttpIInv, Explained, NeverEmpty
<1>7. DeniedIsDenied' /\ FirstRegistered'
  BY <1>1, HandlerFixed DEF HttpIInv, DeniedIsDenied
<1> QED
  BY <1>3, <1>4, <1>5, <1>6, <1>7 DEF HttpIInv

\* The owner sees that the server runs, or why not.
LEMMA PollSteps ==
  ASSUME HttpIInv, PollStart
  PROVE  HttpIInv'
<1> USE DEF PollStart, routing, building, serving
<1>1. HttpType'
  <2>1. /\ query' \in [path : {"none", "page", "healthz", "else"}, denied : BOOLEAN]
        /\ reply' \in [status : Nat, full : BOOLEAN,
                       from : {"nobody", "probe", "filter", "handler", "fallback"}]
    BY DEF HttpIInv, HttpType, NoRequest, NoReply
  <2> QED
    BY <2>1 DEF HttpIInv, HttpType, InLoop
<1>2. InLoop'
  BY DEF HttpIInv, HttpType, InLoop, NoRequest
<1>3. KnownListener'
  BY DEF HttpIInv, HttpType, InLoop, KnownListener
<1>4. Explained'
  BY DEF HttpIInv, HttpType, InLoop, Explained, NeverEmpty
<1>5. DeniedIsDenied'
  BY DEF HttpIInv, HttpType, InLoop, DeniedIsDenied, NoRequest
<1>6. FirstRegistered'
  BY HandlerFixed DEF HttpIInv, HttpType, InLoop, NoRequest
<1> QED
  BY <1>1, <1>2, <1>3, <1>4, <1>5, <1>6 DEF HttpIInv

\* The owner gives up.
LEMMA TimeOutSteps ==
  ASSUME HttpIInv, PollTimesOut
  PROVE  HttpIInv'
<1> USE DEF PollTimesOut, routing, building, serving
<1>1. HttpType'
  <2>1. /\ query' \in [path : {"none", "page", "healthz", "else"}, denied : BOOLEAN]
        /\ reply' \in [status : Nat, full : BOOLEAN,
                       from : {"nobody", "probe", "filter", "handler", "fallback"}]
    BY DEF HttpIInv, HttpType, NoRequest, NoReply
  <2> QED
    BY <2>1 DEF HttpIInv, HttpType, InLoop
<1>2. InLoop'
  BY DEF HttpIInv, HttpType, InLoop, NoRequest
<1>3. KnownListener'
  BY DEF HttpIInv, HttpType, InLoop, KnownListener
<1>4. Explained'
  BY DEF HttpIInv, HttpType, InLoop, Explained, NeverEmpty
<1>5. DeniedIsDenied'
  BY DEF HttpIInv, HttpType, InLoop, DeniedIsDenied, NoRequest
<1>6. FirstRegistered'
  BY HandlerFixed DEF HttpIInv, HttpType, InLoop, NoRequest
<1> QED
  BY <1>1, <1>2, <1>3, <1>4, <1>5, <1>6 DEF HttpIInv

\* stop(), or the destructor.
LEMMA StopSteps ==
  ASSUME HttpIInv, NEW then \in {"stopping", "destroying"}, Stop(then)
  PROVE  HttpIInv'
<1> USE DEF Stop, routing, building, serving
<1>1. HttpType'
  <2>1. /\ query' \in [path : {"none", "page", "healthz", "else"}, denied : BOOLEAN]
        /\ reply' \in [status : Nat, full : BOOLEAN,
                       from : {"nobody", "probe", "filter", "handler", "fallback"}]
    BY DEF HttpIInv, HttpType, NoRequest, NoReply
  <2> QED
    BY <2>1 DEF HttpIInv, HttpType, InLoop
<1>2. InLoop'
  BY DEF HttpIInv, HttpType, InLoop, NoRequest
<1>3. KnownListener'
  BY DEF HttpIInv, HttpType, InLoop, KnownListener
<1>4. Explained'
  BY DEF HttpIInv, HttpType, InLoop, Explained, NeverEmpty
<1>5. DeniedIsDenied'
  BY DEF HttpIInv, HttpType, InLoop, DeniedIsDenied, NoRequest
<1>6. FirstRegistered'
  BY HandlerFixed DEF HttpIInv, HttpType, InLoop, NoRequest
<1> QED
  BY <1>1, <1>2, <1>3, <1>4, <1>5, <1>6 DEF HttpIInv

\* stop() returns: the loop has ended, or the owner gives up.
LEMMA ReturnSteps ==
  ASSUME HttpIInv, StopReturn
  PROVE  HttpIInv'
<1>1. /\ UNCHANGED <<listener, running, step, made, launched, ready, query, reply, filtering,
                     errorText, reached, pending_routes, routes>>
      /\ server_owner \in {"stopping", "destroying"} /\ server_owner' \in {"free", "gone"}
  BY DEF StopReturn, routing, building, serving
<1>2. (gaveUp' = gaveUp /\ ~running) \/ gaveUp' = TRUE
  BY DEF StopReturn, WaitOver
<1>3. HttpType'
  <2>1. gaveUp' \in BOOLEAN
    BY <1>2 DEF HttpIInv, HttpType
  <2> QED
    BY <1>1, <2>1 DEF HttpIInv, HttpType
<1>4. InLoop' /\ Explained'
  BY <1>1 DEF HttpIInv, InLoop, Explained, NeverEmpty
<1>5. KnownListener'
  <2>1. CASE gaveUp'
    BY <2>1 DEF KnownListener
  <2>2. CASE ~gaveUp'
    <3>1. ~gaveUp /\ ~running
      BY <1>2, <2>2
    <3> QED
      BY <1>1, <3>1 DEF HttpIInv, KnownListener
  <2> QED
    BY <2>1, <2>2
<1>6. DeniedIsDenied' /\ FirstRegistered'
  BY <1>1, HandlerFixed DEF HttpIInv, DeniedIsDenied
<1> QED
  BY <1>3, <1>4, <1>5, <1>6 DEF HttpIInv

\* The loop ends, without a request.
LEMMA LoopSteps ==
  ASSUME HttpIInv, LoopEnds
  PROVE  HttpIInv'
<1> USE DEF LoopEnds, routing, building, serving
<1>1. HttpType'
  <2>1. /\ query' \in [path : {"none", "page", "healthz", "else"}, denied : BOOLEAN]
        /\ reply' \in [status : Nat, full : BOOLEAN,
                       from : {"nobody", "probe", "filter", "handler", "fallback"}]
    BY DEF HttpIInv, HttpType, NoRequest, NoReply
  <2> QED
    BY <2>1 DEF HttpIInv, HttpType, InLoop
<1>2. InLoop'
  BY DEF HttpIInv, HttpType, InLoop, NoRequest
<1>3. KnownListener'
  BY DEF HttpIInv, HttpType, InLoop, KnownListener
<1>4. Explained'
  BY DEF HttpIInv, HttpType, InLoop, Explained, NeverEmpty
<1>5. DeniedIsDenied'
  BY DEF HttpIInv, HttpType, InLoop, DeniedIsDenied, NoRequest
<1>6. FirstRegistered'
  BY HandlerFixed DEF HttpIInv, HttpType, InLoop, NoRequest
<1> QED
  BY <1>1, <1>2, <1>3, <1>4, <1>5, <1>6 DEF HttpIInv

\* A request arrives.
LEMMA ArriveSteps ==
  ASSUME HttpIInv, NEW path \in {"page", "healthz", "else"}, NEW denied \in BOOLEAN, Arrives(path,
         denied)
  PROVE  HttpIInv'
<1> USE DEF Arrives, routing, building, serving
<1>1. HttpType'
  <2>1. /\ query' \in [path : {"none", "page", "healthz", "else"}, denied : BOOLEAN]
        /\ reply' \in [status : Nat, full : BOOLEAN,
                       from : {"nobody", "probe", "filter", "handler", "fallback"}]
    BY DEF HttpIInv, HttpType, NoRequest, NoReply
  <2> QED
    BY <2>1 DEF HttpIInv, HttpType, InLoop
<1>2. InLoop'
  BY DEF HttpIInv, HttpType, InLoop, NoRequest
<1>3. KnownListener'
  BY DEF HttpIInv, HttpType, InLoop, KnownListener
<1>4. Explained'
  BY DEF HttpIInv, HttpType, InLoop, Explained, NeverEmpty
<1>5. DeniedIsDenied'
  BY DEF HttpIInv, HttpType, InLoop, DeniedIsDenied, NoRequest
<1>6. FirstRegistered'
  BY HandlerFixed DEF HttpIInv, HttpType, InLoop, NoRequest
<1> QED
  BY <1>1, <1>2, <1>3, <1>4, <1>5, <1>6 DEF HttpIInv

\* The first route that matches takes the request, if the filter lets it.
LEMMA MatchSteps ==
  ASSUME HttpIInv, Match
  PROVE  HttpIInv'
<1>1. /\ UNCHANGED <<listener, running, server_owner, made, gaveUp, launched, ready, query,
                     filtering, errorText, pending_routes, routes>>
      /\ step = "route"
  BY DEF Match, routing, building
<1>2. reached = {} /\ routes = pending_routes
  BY <1>1 DEF HttpIInv, HttpType, InLoop
<1>3. \/ /\ step' = "check" /\ reached' = {}
         /\ \/ reply' = [status |-> 404, full |-> FALSE, from |-> "nobody"]
            \/ reply' = [status |-> 200, full |-> TRUE, from |-> "probe"]
            \/ \E full \in BOOLEAN : reply' = [status |-> 401, full |-> full, from |-> "filter"]
      \/ /\ step' = "handler" /\ reply' = reply /\ Passes
         /\ Matches # <<>> /\ reached' = {Head(Matches).by}
  BY <1>1, <1>2 DEF Match, Replies
<1>4. /\ step' \in {"check", "handler"}
      /\ reply' \in [status : Nat, full : BOOLEAN,
                     from : {"nobody", "probe", "filter", "handler", "fallback"}]
      /\ step' = "check" => reply'.full \/ reply'.status >= 400
  <2>1. CASE step' = "handler"
    BY <1>3, <2>1 DEF HttpIInv, HttpType
  <2>2. CASE reply' = [status |-> 404, full |-> FALSE, from |-> "nobody"]
    BY <1>3, <2>2
  <2>3. CASE reply' = [status |-> 200, full |-> TRUE, from |-> "probe"]
    BY <1>3, <2>3
  <2>4. ASSUME NEW full \in BOOLEAN, reply' = [status |-> 401, full |-> full, from |-> "filter"]
        PROVE  /\ reply' \in [status : Nat, full : BOOLEAN,
                               from : {"nobody", "probe", "filter", "handler", "fallback"}]
               /\ reply'.status >= 400
    BY <2>4
  <2> QED
    BY <1>3, <2>1, <2>2, <2>3, <2>4
<1>5. HttpType'
  BY <1>1, <1>4 DEF HttpIInv, HttpType
<1>6. InLoop' /\ KnownListener' /\ Explained'
  <2>1. InLoop'
    BY <1>1, <1>3, <1>4 DEF HttpIInv, InLoop
  <2>2. KnownListener'
    BY <1>1 DEF HttpIInv, KnownListener
  <2>3. Explained'
    BY <1>4 DEF Explained, NeverEmpty
  <2> QED
    BY <2>1, <2>2, <2>3
<1>7. DeniedIsDenied'
  BY <1>1, <1>3 DEF DeniedIsDenied, Passes
<1>8. FirstRegistered'
  BY <1>1, <1>2, <1>3 DEF FirstRegistered, Matches
<1> QED
  BY <1>5, <1>6, <1>7, <1>8 DEF HttpIInv

\* The handler answers.
LEMMA HandleSteps ==
  ASSUME HttpIInv, Handle
  PROVE  HttpIInv'
<1>1. /\ UNCHANGED <<listener, running, server_owner, made, gaveUp, launched, ready, query,
                     filtering, errorText, pending_routes, routes, reached>>
      /\ step = "handler" /\ step' = "check"
  BY DEF Handle, Replies, routing, building
<1>2. \/ reply' = [status |-> 200, full |-> TRUE, from |-> "handler"]
      \/ reply' = [status |-> 500, full |-> TRUE, from |-> "handler"]
      \/ \E full \in BOOLEAN : reply' = [status |-> 403, full |-> full, from |-> "handler"]
  BY DEF Handle, Replies
<1>3. /\ reply' \in [status : Nat, full : BOOLEAN,
                     from : {"nobody", "probe", "filter", "handler", "fallback"}]
      /\ reply'.full \/ reply'.status >= 400
  <2>1. ASSUME NEW full \in BOOLEAN, reply' = [status |-> 403, full |-> full, from |-> "handler"]
        PROVE  /\ reply' \in [status : Nat, full : BOOLEAN,
                               from : {"nobody", "probe", "filter", "handler", "fallback"}]
               /\ reply'.status >= 400
    BY <2>1
  <2>2. CASE reply' = [status |-> 200, full |-> TRUE, from |-> "handler"]
    BY <2>2
  <2>3. CASE reply' = [status |-> 500, full |-> TRUE, from |-> "handler"]
    BY <2>3
  <2> QED
    BY <1>2, <2>1, <2>2, <2>3
<1>4. HttpType'
  BY <1>1, <1>3 DEF HttpIInv, HttpType
<1>5. InLoop' /\ KnownListener'
  BY <1>1 DEF HttpIInv, InLoop, KnownListener
<1>6. Explained'
  BY <1>1, <1>3 DEF Explained, NeverEmpty
<1>7. DeniedIsDenied' /\ FirstRegistered'
  BY <1>1, HandlerFixed DEF HttpIInv, DeniedIsDenied
<1> QED
  BY <1>4, <1>5, <1>6, <1>7 DEF HttpIInv

\* The error handler.
LEMMA CheckSteps ==
  ASSUME HttpIInv, CheckErrors
  PROVE  HttpIInv'
<1> USE DEF CheckErrors, routing, building, serving
<1>1. HttpType'
  <2>1. /\ query' \in [path : {"none", "page", "healthz", "else"}, denied : BOOLEAN]
        /\ reply' \in [status : Nat, full : BOOLEAN,
                       from : {"nobody", "probe", "filter", "handler", "fallback"}]
    <3>1. /\ query' = query /\ reply \in [status : Nat, full : BOOLEAN,
                       from : {"nobody", "probe", "filter", "handler", "fallback"}]
      BY DEF HttpIInv, HttpType
    <3>2. reply' \in {reply, [status |-> 200, full |-> TRUE, from |-> "fallback"],
                      [reply EXCEPT !.full = TRUE]}
      OBVIOUS
    <3>3. [reply EXCEPT !.full = TRUE] \in
            [status : Nat, full : BOOLEAN,
             from : {"nobody", "probe", "filter", "handler", "fallback"}]
      BY <3>1
    <3> QED
      BY <3>1, <3>2, <3>3 DEF HttpIInv, HttpType
  <2> QED
    BY <2>1 DEF HttpIInv, HttpType, InLoop
<1>2. InLoop'
  BY DEF HttpIInv, HttpType, InLoop, NoRequest
<1>3. KnownListener'
  BY DEF HttpIInv, HttpType, InLoop, KnownListener
<1>4. Explained'
  BY DEF HttpIInv, HttpType, InLoop, Explained, NeverEmpty
<1>5. DeniedIsDenied'
  BY DEF HttpIInv, HttpType, InLoop, DeniedIsDenied, NoRequest
<1>6. FirstRegistered'
  BY HandlerFixed DEF HttpIInv, HttpType, InLoop, NoRequest
<1> QED
  BY <1>1, <1>2, <1>3, <1>4, <1>5, <1>6 DEF HttpIInv

\* The answer is sent.
LEMMA SentSteps ==
  ASSUME HttpIInv, Sent
  PROVE  HttpIInv'
<1> USE DEF Sent, routing, building, serving
<1>1. HttpType'
  <2>1. /\ query' \in [path : {"none", "page", "healthz", "else"}, denied : BOOLEAN]
        /\ reply' \in [status : Nat, full : BOOLEAN,
                       from : {"nobody", "probe", "filter", "handler", "fallback"}]
    BY DEF HttpIInv, HttpType, NoRequest, NoReply
  <2> QED
    BY <2>1 DEF HttpIInv, HttpType, InLoop
<1>2. InLoop'
  BY DEF HttpIInv, HttpType, InLoop, NoRequest
<1>3. KnownListener'
  BY DEF HttpIInv, HttpType, InLoop, KnownListener
<1>4. Explained'
  BY DEF HttpIInv, HttpType, InLoop, Explained, NeverEmpty
<1>5. DeniedIsDenied'
  BY DEF HttpIInv, HttpType, InLoop, DeniedIsDenied, NoRequest
<1>6. FirstRegistered'
  BY HandlerFixed DEF HttpIInv, HttpType, InLoop, NoRequest
<1> QED
  BY <1>1, <1>2, <1>3, <1>4, <1>5, <1>6 DEF HttpIInv

\* The invariant of the HTTP server.
THEOREM HttpInvariant == HttpInit /\ [][HttpNext]_httpVars => []HttpIInv
<1>1. ASSUME HttpInit PROVE HttpIInv
  BY <1>1 DEF HttpInit, HttpIInv, HttpType, InLoop, KnownListener, Explained, NeverEmpty,
     DeniedIsDenied,
     FirstRegistered, NoRequest, NoReply
<1>2. ASSUME HttpIInv, [HttpNext]_httpVars PROVE HttpIInv'
  <2>1. CASE UNCHANGED httpVars
    <3>1. UNCHANGED <<listener, running, server_owner, made, gaveUp, launched, ready, query,
                      filtering, errorText, pending_routes, routes, reached, step, reply>>
      BY <2>1 DEF httpVars
    <3>2. HttpType' /\ InLoop'
      BY <1>2, <3>1 DEF HttpIInv, HttpType, InLoop
    <3>3. KnownListener' /\ Explained' /\ DeniedIsDenied'
      BY <1>2, <3>1 DEF HttpIInv, KnownListener, Explained, NeverEmpty, DeniedIsDenied
    <3> QED
      BY <1>2, <3>1, <3>2, <3>3, HandlerFixed DEF HttpIInv
  <2> QED
    BY <1>2, <2>1, RouteSteps, ProbeSteps, InstallSteps, CertificateSteps, StartSteps, BindSteps,
       PollSteps,
       TimeOutSteps, StopSteps, ReturnSteps, LoopSteps, ArriveSteps, MatchSteps, HandleSteps,
       CheckSteps,
       SentSteps
       DEF HttpNext
<1> QED
  BY <1>1, <1>2, PTL
-----------------------------------------------------------------------------
(***************************************************************************)
(* One WebSocket connection, for any number of frames.  Reassembled is not *)
(* inductive without what lies in the buffer (PartRight), and the brackets *)
(* and the closing of the socket follow from the phase, which tells what   *)
(* each side has done so far (ClientPhase, ServerPhase).                   *)
(***************************************************************************)

ControlType ==
  /\ role \in {"client", "server"} /\ caller \in {"inside", "announce", "returned"}
  /\ phase \in {"connect", "start", "arriving", "taken", "registered", "started", "handshake",
     "greeted",
               "announce", "wait", "frames", "finish", "tell", "forget", "gone", "never"}
  /\ socket \in {"up", "down", "closed"} /\ closer \in {"idle", "clear", "join", "done"}
  /\ closes \in Nat /\ announced \in Nat /\ ended \in Nat
  /\ valid \in BOOLEAN /\ listed \in BOOLEAN /\ handshake_done \in BOOLEAN /\ ws_stop \in BOOLEAN
  /\ closes = 0 <=> socket # "closed"
  /\ ended <= 1 /\ (ended = 1 => phase = "gone")

\* The client: connect() is over when the thread of the session starts, and the
\* socket is closed by the thread or by close(), whoever finds it valid.
ClientPhase ==
  role = "client" =>
    /\ phase \in {"connect", "handshake", "wait", "frames", "finish", "tell", "gone"}
    /\ ~listed /\ (caller = "inside" <=> phase \in {"connect", "handshake"})
    /\ valid => phase \in {"wait", "frames", "finish"}
    /\ closes = IF phase \in {"connect", "handshake"} \/ valid THEN 0 ELSE 1
    /\ announced = IF caller = "returned" /\ (phase = "gone" => ended = 1) THEN 1 ELSE 0
    /\ caller = "announce" /\ phase = "gone" => ended = 1

\* The server: the thread closes the socket last, and only stop() takes its session
\* out of the table before.
ServerPhase ==
  role = "server" =>
    /\ phase # "connect" /\ caller = "returned"
    /\ closes = IF phase \in {"forget", "tell", "gone"} THEN 1 ELSE 0
    /\ announced <= 1 /\ (phase \in {"wait", "frames", "finish", "tell"} => announced = 1)
    /\ announced = 1 => phase \in {"wait", "frames", "finish", "tell", "gone"}
    /\ phase = "gone" /\ announced = 1 /\ ~ws_stop => ended = 1
    /\ ended <= announced
    /\ listed => phase \in {"registered", "started", "handshake", "greeted", "announce", "wait",
                            "frames", "finish", "forget"}
    /\ phase \in {"registered", "started", "handshake", "greeted", "announce", "wait", "frames",
                  "finish"} => listed \/ ws_stop
    /\ handshake_done => phase \in {"announce", "wait", "frames", "finish", "tell", "gone"}

\* Who closes waits for the end of the thread.
CloserRight ==
  /\ closer # "idle" => ws_stop
  /\ closer = "done" => phase \in {"gone", "never"}

ControlIInv == ControlType /\ ClientPhase /\ ServerPhase /\ CloserRight

\* Frames are numbered, and those of messages and of the buffer were handled.
FrameType ==
  /\ input \in Seq(FrameKinds) /\ handled \in 0..Len(input) /\ received \in handled..Len(input)
  /\ assembly \in Seq(Nat) /\ messages \in Seq(Seq(Nat))
  /\ \A i \in 1..Len(assembly) : assembly[i] \in 1..handled
  /\ \A i \in 1..Len(messages) : \A k \in 1..Len(messages[i]) : messages[i][k] \in 1..handled

\* The session does not wait for frames yet, and will perhaps never.
Before == Young \/ phase \in {"greeted", "announce", "forget", "never"}

\* Nothing is handled before the session waits for frames; messages come later than
\* on_connect of the server.
Unopened ==
  /\ Before => handled = 0 /\ assembly = <<>> /\ messages = <<>>
  /\ role = "server" /\ messages # <<>> => announced = 1

\* The frames of a message, or of its beginning: data frames in a row.
Consecutive(m, end) ==
  /\ {m[i] : i \in 1..Len(m)} = DataUpTo(m[1], end)
  /\ \A i \in 1..Len(m) - 1 : m[i] < m[i + 1]

\* What is in the buffer of a living session is a first part and all that came since.
PartRight ==
  assembly # <<>> /\ phase \in {"wait", "frames"} =>
    /\ Consecutive(assembly, handled)
    /\ input[assembly[1]] = "part" /\ \A i \in 2..Len(assembly) : input[assembly[i]] = "more"

\* A message has a frame, and lies before what is in the buffer.
MessagesRight ==
  \A i \in 1..Len(messages) :
    messages[i] # <<>> /\ (assembly # <<>> => messages[i][Len(messages[i])] < assembly[1])

FrameIInv == FrameType /\ Unopened /\ PartRight /\ MessagesRight /\ Reassembled

\* The peer sends: the session is where it was.
LEMMA SendControl ==
  ASSUME ControlIInv, PeerSendsFrame
  PROVE  ControlIInv'
<1> USE DEF PeerSendsFrame, socketVars, tableWsVars
<1>1. ControlType'
  BY DEF ControlIInv, ControlType, ClientPhase, ServerPhase
<1>2. ClientPhase'
  BY DEF ControlIInv, ControlType, ClientPhase
<1>3. ServerPhase'
  BY DEF ControlIInv, ControlType, ServerPhase, CloserRight
<1>4. CloserRight'
  BY DEF ControlIInv, ControlType, CloserRight
<1> QED
  BY <1>1, <1>2, <1>3, <1>4 DEF ControlIInv

\* The peer closes or is gone.
LEMMA PeerControl ==
  ASSUME ControlIInv, PeerCloses
  PROVE  ControlIInv'
<1> USE DEF PeerCloses, socketVars, tableWsVars
<1>1. ControlType'
  BY DEF ControlIInv, ControlType, ClientPhase, ServerPhase
<1>2. ClientPhase'
  BY DEF ControlIInv, ControlType, ClientPhase
<1>3. ServerPhase'
  BY DEF ControlIInv, ControlType, ServerPhase, CloserRight
<1>4. CloserRight'
  BY DEF ControlIInv, ControlType, CloserRight
<1> QED
  BY <1>1, <1>2, <1>3, <1>4 DEF ControlIInv

\* connect() has a socket, or closes the one that failed.
LEMMA ConnectControl ==
  ASSUME ControlIInv, Connect
  PROVE  ControlIInv'
<1> USE DEF Connect, socketVars, tableWsVars
<1>1. ControlType'
  BY DEF ControlIInv, ControlType, ClientPhase, ServerPhase
<1>2. ClientPhase'
  BY DEF ControlIInv, ControlType, ClientPhase
<1>3. ServerPhase'
  BY DEF ControlIInv, ControlType, ServerPhase, CloserRight
<1>4. CloserRight'
  BY DEF ControlIInv, ControlType, CloserRight
<1> QED
  BY <1>1, <1>2, <1>3, <1>4 DEF ControlIInv

\* The server listens, or never will.
LEMMA ListenControl ==
  ASSUME ControlIInv, Listen
  PROVE  ControlIInv'
<1> USE DEF Listen, socketVars, tableWsVars
<1>1. ControlType'
  BY DEF ControlIInv, ControlType, ClientPhase, ServerPhase
<1>2. ClientPhase'
  BY DEF ControlIInv, ControlType, ClientPhase
<1>3. ServerPhase'
  BY DEF ControlIInv, ControlType, ServerPhase, CloserRight
<1>4. CloserRight'
  BY DEF ControlIInv, ControlType, CloserRight
<1> QED
  BY <1>1, <1>2, <1>3, <1>4 DEF ControlIInv

\* A connection is accepted, unless the server stops.
LEMMA AcceptControl ==
  ASSUME ControlIInv, AcceptConnection
  PROVE  ControlIInv'
<1> USE DEF AcceptConnection, socketVars, tableWsVars
<1>1. ControlType'
  BY DEF ControlIInv, ControlType, ClientPhase, ServerPhase
<1>2. ClientPhase'
  BY DEF ControlIInv, ControlType, ClientPhase
<1>3. ServerPhase'
  BY DEF ControlIInv, ControlType, ServerPhase, CloserRight
<1>4. CloserRight'
  BY DEF ControlIInv, ControlType, CloserRight
<1> QED
  BY <1>1, <1>2, <1>3, <1>4 DEF ControlIInv

\* The session is entered into the table.
LEMMA NoteControl ==
  ASSUME ControlIInv, NoteSession
  PROVE  ControlIInv'
<1> USE DEF NoteSession, socketVars, tableWsVars
<1>1. ControlType'
  BY DEF ControlIInv, ControlType, ClientPhase, ServerPhase
<1>2. ClientPhase'
  BY DEF ControlIInv, ControlType, ClientPhase
<1>3. ServerPhase'
  BY DEF ControlIInv, ControlType, ServerPhase, CloserRight
<1>4. CloserRight'
  BY DEF ControlIInv, ControlType, CloserRight
<1> QED
  BY <1>1, <1>2, <1>3, <1>4 DEF ControlIInv

\* Its thread is started.
LEMMA StartControl ==
  ASSUME ControlIInv, StartSession
  PROVE  ControlIInv'
<1> USE DEF StartSession, socketVars, tableWsVars
<1>1. ControlType'
  BY DEF ControlIInv, ControlType, ClientPhase, ServerPhase
<1>2. ClientPhase'
  BY DEF ControlIInv, ControlType, ClientPhase
<1>3. ServerPhase'
  BY DEF ControlIInv, ControlType, ServerPhase, CloserRight
<1>4. CloserRight'
  BY DEF ControlIInv, ControlType, CloserRight
<1> QED
  BY <1>1, <1>2, <1>3, <1>4 DEF ControlIInv

\* The thread begins, or finds that the server stops.
LEMMA BeginsControl ==
  ASSUME ControlIInv, SessionBegins
  PROVE  ControlIInv'
<1> USE DEF SessionBegins, socketVars, tableWsVars
<1>1. ControlType'
  BY DEF ControlIInv, ControlType, ClientPhase, ServerPhase
<1>2. ClientPhase'
  BY DEF ControlIInv, ControlType, ClientPhase
<1>3. ServerPhase'
  BY DEF ControlIInv, ControlType, ServerPhase, CloserRight
<1>4. CloserRight'
  BY DEF ControlIInv, ControlType, CloserRight
<1> QED
  BY <1>1, <1>2, <1>3, <1>4 DEF ControlIInv

\* The handshake of the client: its session begins before on_connect.
LEMMA ClientGreets ==
  ASSUME ControlIInv, ClientHandshake
  PROVE  ControlIInv'
<1> USE DEF ClientHandshake, socketVars, tableWsVars
<1>1. ControlType'
  BY DEF ControlIInv, ControlType, ClientPhase, ServerPhase
<1>2. ClientPhase'
  BY DEF ControlIInv, ControlType, ClientPhase
<1>3. ServerPhase'
  BY DEF ControlIInv, ControlType, ServerPhase, CloserRight
<1>4. CloserRight'
  BY DEF ControlIInv, ControlType, CloserRight
<1> QED
  BY <1>1, <1>2, <1>3, <1>4 DEF ControlIInv

\* connect() calls on_connect and returns.
LEMMA ConnectedControl ==
  ASSUME ControlIInv, ConnectReturns
  PROVE  ControlIInv'
<1> USE DEF ConnectReturns, socketVars, tableWsVars
<1>1. ControlType'
  BY DEF ControlIInv, ControlType, ClientPhase, ServerPhase
<1>2. ClientPhase'
  BY DEF ControlIInv, ControlType, ClientPhase
<1>3. ServerPhase'
  BY DEF ControlIInv, ControlType, ServerPhase, CloserRight
<1>4. CloserRight'
  BY DEF ControlIInv, ControlType, CloserRight
<1> QED
  BY <1>1, <1>2, <1>3, <1>4 DEF ControlIInv

\* The handshake of the server.
LEMMA ServerGreets ==
  ASSUME ControlIInv, ServerHandshake
  PROVE  ControlIInv'
<1> USE DEF ServerHandshake, socketVars, tableWsVars
<1>1. ControlType'
  BY DEF ControlIInv, ControlType, ClientPhase, ServerPhase
<1>2. ClientPhase'
  BY DEF ControlIInv, ControlType, ClientPhase
<1>3. ServerPhase'
  BY DEF ControlIInv, ControlType, ServerPhase, CloserRight
<1>4. CloserRight'
  BY DEF ControlIInv, ControlType, CloserRight
<1> QED
  BY <1>1, <1>2, <1>3, <1>4 DEF ControlIInv

\* The session may be sent to, or is not wanted any more.
LEMMA AdmitControl ==
  ASSUME ControlIInv, AdmitSession
  PROVE  ControlIInv'
<1> USE DEF AdmitSession, socketVars, tableWsVars
<1>1. ControlType'
  <2>1. CASE listed
    BY <2>1 DEF ControlIInv, ControlType, ClientPhase, ServerPhase
  <2>2. CASE ~listed
    BY <2>2 DEF ControlIInv, ControlType, ClientPhase, ServerPhase
  <2> QED
    BY <2>1, <2>2
<1>2. ClientPhase'
  BY DEF ControlIInv, ControlType, ClientPhase
<1>3. ServerPhase'
  BY DEF ControlIInv, ControlType, ServerPhase, CloserRight
<1>4. CloserRight'
  BY DEF ControlIInv, ControlType, CloserRight
<1> QED
  BY <1>1, <1>2, <1>3, <1>4 DEF ControlIInv

\* The handshake fails.
LEMMA FailControl ==
  ASSUME ControlIInv, HandshakeFails
  PROVE  ControlIInv'
<1> USE DEF HandshakeFails, socketVars, tableWsVars
<1>1. ControlType'
  BY DEF ControlIInv, ControlType, ClientPhase, ServerPhase
<1>2. ClientPhase'
  BY DEF ControlIInv, ControlType, ClientPhase
<1>3. ServerPhase'
  BY DEF ControlIInv, ControlType, ServerPhase, CloserRight
<1>4. CloserRight'
  BY DEF ControlIInv, ControlType, CloserRight
<1> QED
  BY <1>1, <1>2, <1>3, <1>4 DEF ControlIInv

\* A session that did not come about leaves the table.
LEMMA ForgetControl ==
  ASSUME ControlIInv, Forget
  PROVE  ControlIInv'
<1> USE DEF Forget, socketVars, tableWsVars
<1>1. ControlType'
  BY DEF ControlIInv, ControlType, ClientPhase, ServerPhase
<1>2. ClientPhase'
  BY DEF ControlIInv, ControlType, ClientPhase
<1>3. ServerPhase'
  BY DEF ControlIInv, ControlType, ServerPhase, CloserRight
<1>4. CloserRight'
  BY DEF ControlIInv, ControlType, CloserRight
<1> QED
  BY <1>1, <1>2, <1>3, <1>4 DEF ControlIInv

\* The server calls on_connect.
LEMMA OnConnectControl ==
  ASSUME ControlIInv, OnConnect
  PROVE  ControlIInv'
<1> USE DEF OnConnect, socketVars, tableWsVars
<1>1. ControlType'
  BY DEF ControlIInv, ControlType, ClientPhase, ServerPhase
<1>2. ClientPhase'
  BY DEF ControlIInv, ControlType, ClientPhase
<1>3. ServerPhase'
  BY DEF ControlIInv, ControlType, ServerPhase, CloserRight
<1>4. CloserRight'
  BY DEF ControlIInv, ControlType, CloserRight
<1> QED
  BY <1>1, <1>2, <1>3, <1>4 DEF ControlIInv

\* Frames are read.
LEMMA ReadControl ==
  ASSUME ControlIInv, ReadFrames
  PROVE  ControlIInv'
<1> USE DEF ReadFrames, socketVars, tableWsVars
<1>1. ControlType'
  BY DEF ControlIInv, ControlType, ClientPhase, ServerPhase
<1>2. ClientPhase'
  BY DEF ControlIInv, ControlType, ClientPhase
<1>3. ServerPhase'
  BY DEF ControlIInv, ControlType, ServerPhase, CloserRight
<1>4. CloserRight'
  BY DEF ControlIInv, ControlType, CloserRight
<1> QED
  BY <1>1, <1>2, <1>3, <1>4 DEF ControlIInv

\* The wait for frames ends.
LEMMA WaitControl ==
  ASSUME ControlIInv, WaitEnds
  PROVE  ControlIInv'
<1> USE DEF WaitEnds, socketVars, tableWsVars
<1>1. ControlType'
  BY DEF ControlIInv, ControlType, ClientPhase, ServerPhase
<1>2. ClientPhase'
  BY DEF ControlIInv, ControlType, ClientPhase
<1>3. ServerPhase'
  BY DEF ControlIInv, ControlType, ServerPhase, CloserRight
<1>4. CloserRight'
  BY DEF ControlIInv, ControlType, CloserRight
<1> QED
  BY <1>1, <1>2, <1>3, <1>4 DEF ControlIInv

\* A frame is handled.
LEMMA HandleControlStep ==
  ASSUME ControlIInv, HandleFrame
  PROVE  ControlIInv'
<1> USE DEF HandleFrame, HandleControl, HandleData, socketVars, tableWsVars
<1>1. ControlType'
  BY DEF ControlIInv, ControlType, ClientPhase, ServerPhase
<1>2. ClientPhase'
  BY DEF ControlIInv, ControlType, ClientPhase
<1>3. ServerPhase'
  BY DEF ControlIInv, ControlType, ServerPhase, CloserRight
<1>4. CloserRight'
  BY DEF ControlIInv, ControlType, CloserRight
<1> QED
  BY <1>1, <1>2, <1>3, <1>4 DEF ControlIInv

\* All that was read is handled.
LEMMA BatchControl ==
  ASSUME ControlIInv, BatchDone
  PROVE  ControlIInv'
<1> USE DEF BatchDone, socketVars, tableWsVars
<1>1. ControlType'
  BY DEF ControlIInv, ControlType, ClientPhase, ServerPhase
<1>2. ClientPhase'
  BY DEF ControlIInv, ControlType, ClientPhase
<1>3. ServerPhase'
  BY DEF ControlIInv, ControlType, ServerPhase, CloserRight
<1>4. CloserRight'
  BY DEF ControlIInv, ControlType, CloserRight
<1> QED
  BY <1>1, <1>2, <1>3, <1>4 DEF ControlIInv

\* The thread of a session ends: it closes what nobody has closed before.
LEMMA EndControl ==
  ASSUME ControlIInv, EndSession
  PROVE  ControlIInv'
<1> USE DEF EndSession, socketVars, tableWsVars
<1>1. ControlType'
  <2>1. closes \in {0, 1} /\ (closes = 0 <=> socket # "closed")
    BY DEF ControlIInv, ControlType, ClientPhase, ServerPhase
  <2>2. /\ closes' \in Nat /\ (closes' = 0 <=> socket' # "closed")
        /\ socket' \in {"up", "down", "closed"}
    <3>1. \/ UNCHANGED <<socket, closes>>
          \/ socket' = "closed" /\ closes' = closes + 1
      OBVIOUS
    <3>2. CASE UNCHANGED <<socket, closes>>
      BY <3>2 DEF ControlIInv, ControlType
    <3>3. CASE socket' = "closed" /\ closes' = closes + 1
      BY <2>1, <3>3
    <3> QED
      BY <3>1, <3>2, <3>3
  <2>3. phase' \in {"tell", "gone"} /\ valid' = FALSE /\ listed' = FALSE
        /\ UNCHANGED <<role, handshake_done, caller, ws_stop, announced, ended, closer>>
    OBVIOUS
  <2> QED
    BY <2>2, <2>3 DEF ControlIInv, ControlType
<1>2. ClientPhase'
  BY DEF ControlIInv, ControlType, ClientPhase
<1>3. ServerPhase'
  BY DEF ControlIInv, ControlType, ServerPhase, CloserRight
<1>4. CloserRight'
  BY DEF ControlIInv, ControlType, CloserRight
<1> QED
  BY <1>1, <1>2, <1>3, <1>4 DEF ControlIInv

\* on_disconnect is called.
LEMMA OnDisconnectControl ==
  ASSUME ControlIInv, OnDisconnect
  PROVE  ControlIInv'
<1> USE DEF OnDisconnect, socketVars, tableWsVars
<1>1. ControlType'
  BY DEF ControlIInv, ControlType, ClientPhase, ServerPhase
<1>2. ClientPhase'
  BY DEF ControlIInv, ControlType, ClientPhase
<1>3. ServerPhase'
  BY DEF ControlIInv, ControlType, ServerPhase, CloserRight
<1>4. CloserRight'
  BY DEF ControlIInv, ControlType, CloserRight
<1> QED
  BY <1>1, <1>2, <1>3, <1>4 DEF ControlIInv

\* disconnect() shuts the socket down, for the thread to close.
LEMMA DisconnectControl ==
  ASSUME ControlIInv, DisconnectPeer
  PROVE  ControlIInv'
<1> USE DEF DisconnectPeer, socketVars, tableWsVars
<1>1. ControlType'
  BY DEF ControlIInv, ControlType, ClientPhase, ServerPhase
<1>2. ClientPhase'
  BY DEF ControlIInv, ControlType, ClientPhase
<1>3. ServerPhase'
  BY DEF ControlIInv, ControlType, ServerPhase, CloserRight
<1>4. CloserRight'
  BY DEF ControlIInv, ControlType, CloserRight
<1> QED
  BY <1>1, <1>2, <1>3, <1>4 DEF ControlIInv

\* close() closes a socket that is still valid, stop() shuts it down.
LEMMA CloseControl ==
  ASSUME ControlIInv, BeginClose
  PROVE  ControlIInv'
<1> USE DEF BeginClose, socketVars, tableWsVars
<1>1. ControlType'
  <2>1. closes \in {0, 1} /\ (closes = 0 <=> socket # "closed")
    BY DEF ControlIInv, ControlType, ClientPhase, ServerPhase
  <2>2. /\ closes' \in Nat /\ (closes' = 0 <=> socket' # "closed")
        /\ socket' \in {"up", "down", "closed"}
    <3>1. \/ UNCHANGED <<socket, closes>>
          \/ socket' = "closed" /\ closes' = closes + 1
          \/ socket' = (IF socket = "up" THEN "down" ELSE socket) /\ closes' = closes
      OBVIOUS
    <3>2. CASE closes' = closes
      BY <2>1, <3>1, <3>2 DEF ControlIInv, ControlType
    <3>3. CASE socket' = "closed" /\ closes' = closes + 1
      BY <2>1, <3>3
    <3> QED
      BY <3>1, <3>2, <3>3
  <2>3. /\ closer' \in {"clear", "join"} /\ valid' = FALSE /\ ws_stop' = TRUE
        /\ UNCHANGED <<role, phase, handshake_done, listed, caller, announced, ended>>
    OBVIOUS
  <2> QED
    BY <2>2, <2>3 DEF ControlIInv, ControlType
<1>2. ClientPhase'
  BY DEF ControlIInv, ControlType, ClientPhase
<1>3. ServerPhase'
  BY DEF ControlIInv, ControlType, ServerPhase, CloserRight
<1>4. CloserRight'
  BY DEF ControlIInv, ControlType, CloserRight
<1> QED
  BY <1>1, <1>2, <1>3, <1>4 DEF ControlIInv

\* stop() empties the table.
LEMMA ClearControl ==
  ASSUME ControlIInv, ClearTable
  PROVE  ControlIInv'
<1> USE DEF ClearTable, socketVars, tableWsVars
<1>1. ControlType'
  BY DEF ControlIInv, ControlType, ClientPhase, ServerPhase
<1>2. ClientPhase'
  BY DEF ControlIInv, ControlType, ClientPhase
<1>3. ServerPhase'
  BY DEF ControlIInv, ControlType, ServerPhase, CloserRight
<1>4. CloserRight'
  BY DEF ControlIInv, ControlType, CloserRight
<1> QED
  BY <1>1, <1>2, <1>3, <1>4 DEF ControlIInv

\* The thread has ended, and close() returns.
LEMMA ReturnControl ==
  ASSUME ControlIInv, CloseReturns
  PROVE  ControlIInv'
<1> USE DEF CloseReturns, socketVars, tableWsVars
<1>1. ControlType'
  BY DEF ControlIInv, ControlType, ClientPhase, ServerPhase
<1>2. ClientPhase'
  BY DEF ControlIInv, ControlType, ClientPhase
<1>3. ServerPhase'
  BY DEF ControlIInv, ControlType, ServerPhase, CloserRight
<1>4. CloserRight'
  BY DEF ControlIInv, ControlType, CloserRight
<1> QED
  BY <1>1, <1>2, <1>3, <1>4 DEF ControlIInv

\* The numbers of a longer sequence.
LEMMA AppendedRange ==
  ASSUME NEW s \in Seq(Nat), NEW n \in Nat
  PROVE  /\ Append(s, n) \in Seq(Nat) /\ Len(Append(s, n)) = Len(s) + 1
         /\ \A i \in 1..Len(s) : Append(s, n)[i] = s[i]
         /\ Append(s, n)[Len(s) + 1] = n
         /\ {Append(s, n)[i] : i \in 1..Len(s) + 1} = {s[i] : i \in 1..Len(s)} \cup {n}
<1>1. /\ Append(s, n) \in Seq(Nat) /\ Len(Append(s, n)) = Len(s) + 1
      /\ \A i \in 1..Len(s) : Append(s, n)[i] = s[i]
      /\ Append(s, n)[Len(s) + 1] = n
  OBVIOUS
<1>2. 1..Len(s) + 1 = (1..Len(s)) \cup {Len(s) + 1}
  OBVIOUS
<1> QED
  BY <1>1, <1>2

\* What follows a first part without a gap continues it.
LEMMA PartGrows ==
  ASSUME FrameType, assembly # <<>>, Consecutive(assembly, handled),
         handled < received, input[handled + 1] \in {"text", "part", "more", "last"}
  PROVE  Consecutive(Append(assembly, handled + 1), handled + 1)
<1> DEFINE n == handled + 1  s == assembly
<1>1. handled \in Nat /\ n \in Nat /\ s \in Seq(Nat) /\ Len(s) >= 1
  BY DEF FrameType
<1>2. Append(s, n)[1] = s[1] /\ s[1] \in 1..handled
  BY <1>1, AppendedRange DEF FrameType
<1>3. DataUpTo(s[1], n) = DataUpTo(s[1], handled) \cup {n}
  BY <1>1, <1>2 DEF DataUpTo
<1>4. {Append(s, n)[i] : i \in 1..Len(Append(s, n))} = DataUpTo(s[1], n)
  BY <1>1, <1>3, AppendedRange DEF Consecutive
<1>5. ASSUME NEW i \in 1..Len(Append(s, n)) - 1 PROVE Append(s, n)[i] < Append(s, n)[i + 1]
  <2>1. i \in 1..Len(s) /\ Append(s, n)[i] = s[i]
    BY <1>1, AppendedRange
  <2>2. CASE i = Len(s)
    BY <1>1, <2>1, <2>2, AppendedRange DEF FrameType
  <2>3. CASE i # Len(s)
    <3>1. i \in 1..Len(s) - 1 /\ i + 1 \in 1..Len(s)
      BY <1>1, <2>1, <2>3
    <3> QED
      BY <1>1, <2>1, <3>1, AppendedRange DEF Consecutive
  <2> QED
    BY <2>2, <2>3
<1> QED
  BY <1>2, <1>4, <1>5 DEF Consecutive

\* A frame that is no data frame does not interrupt it.
LEMMA PartWaits ==
  ASSUME FrameType, assembly # <<>>, Consecutive(assembly, handled),
         handled < received, input[handled + 1] \notin {"text", "part", "more", "last"}
  PROVE  Consecutive(assembly, handled + 1)
<1>1. handled \in Nat /\ assembly[1] \in Nat
  BY DEF FrameType
<1>2. DataUpTo(assembly[1], handled + 1) = DataUpTo(assembly[1], handled)
  BY <1>1 DEF DataUpTo
<1> QED
  BY <1>2 DEF Consecutive

\* Frames that end a message, among those that were handled.
Enders == {n \in 1..handled : input[n] \in {"text", "last"}}

LEMMA EndersGrow ==
  ASSUME FrameType, handled < received
  PROVE  LET n == handled + 1
             grown == {i \in 1..n : input[i] \in {"text", "last"}} IN
         /\ Cardinality(Enders) \in Nat
         /\ input[n] \in {"text", "last"} => Cardinality(grown) = Cardinality(Enders) + 1
         /\ input[n] \notin {"text", "last"} => Cardinality(grown) = Cardinality(Enders)
<1> DEFINE n == handled + 1
           grown == {i \in 1..n : input[i] \in {"text", "last"}}
<1>1. handled \in Nat
  BY DEF FrameType
<1>2. IsFiniteSet(Enders)
  <2>1. IsFiniteSet(1..handled)
    BY <1>1, FS_Interval
  <2> QED
    BY <2>1, FS_Subset DEF Enders
<1>3. Cardinality(Enders) \in Nat
  BY <1>2, FS_CardinalityType
<1>4. n \notin Enders
  BY <1>1 DEF Enders
<1>5. CASE input[n] \in {"text", "last"}
  <2>1. grown = Enders \cup {n}
    BY <1>1, <1>5 DEF Enders
  <2> QED
    BY <1>2, <1>3, <1>4, <1>5, <2>1, FS_AddElement
<1>6. CASE input[n] \notin {"text", "last"}
  <2>1. grown = Enders
    BY <1>1, <1>6 DEF Enders
  <2> QED
    BY <1>3, <1>6, <2>1
<1> QED
  BY <1>5, <1>6

\* Whoever leaves the frames alone leaves the messages alone, unless the session is
\* opened, which has none.
LEMMA FramesKept ==
  ASSUME FrameIInv, UNCHANGED <<role, input, handled, assembly, messages>>,
         received' \in handled..Len(input),
         Before' => Before,
         phase' \in {"wait", "frames"} => Before \/ phase \in {"wait", "frames"},
         announced' = announced \/ messages = <<>> \/ role = "client"
  PROVE  FrameIInv'
<1>1. FrameType'
  BY DEF FrameIInv, FrameType
<1>2. Unopened'
  BY DEF FrameIInv, Unopened
<1>3. CASE phase \in {"wait", "frames"} \/ phase' \notin {"wait", "frames"}
  <2>1. PartRight' /\ MessagesRight'
    BY <1>3 DEF FrameIInv, PartRight, MessagesRight, Consecutive, DataUpTo
  <2>2. Reassembled'
    BY <1>3 DEF FrameIInv, Reassembled, WholeMessage, DataUpTo
  <2> QED
    BY <1>1, <1>2, <2>1, <2>2 DEF FrameIInv
<1>4. CASE Before
  <2>1. handled = 0 /\ assembly = <<>> /\ messages = <<>>
    BY <1>4 DEF FrameIInv, Unopened
  <2>2. PartRight' /\ MessagesRight'
    BY <2>1 DEF PartRight, MessagesRight
  <2>3. Cardinality({n \in 1..handled' : input'[n] \in {"text", "last"}}) = Len(messages')
    <3>1. {n \in 1..handled' : input'[n] \in {"text", "last"}} = {}
      BY <2>1
    <3> QED
      BY <2>1, <3>1, FS_EmptySet
  <2>4. Reassembled'
    BY <2>1, <2>3 DEF Reassembled
  <2> QED
    BY <1>1, <1>2, <2>2, <2>4 DEF FrameIInv
<1> QED
  BY <1>3, <1>4

\* The peer adds a frame: those that were handled stay what they were.
LEMMA SendKeeps ==
  ASSUME FrameIInv, PeerSendsFrame
  PROVE  FrameIInv'
<1> USE DEF PeerSendsFrame, socketVars, tableWsVars
<1>1. /\ UNCHANGED <<role, phase, received, handled, assembly, messages, announced>>
      /\ input' \in Seq(FrameKinds) /\ Len(input') = Len(input) + 1
      /\ \A n \in 1..Len(input) : input'[n] = input[n]
      /\ handled \in Nat /\ handled <= Len(input)
  BY DEF FrameIInv, FrameType
<1>2. FrameType'
  BY <1>1 DEF FrameIInv, FrameType
<1>3. Unopened' /\ MessagesRight'
  BY <1>1 DEF FrameIInv, Unopened, Before, Young, MessagesRight
<1>4. ASSUME NEW i \in Nat \ {0}, NEW j \in 0..handled PROVE DataUpTo(i, j)' = DataUpTo(i, j)
  BY <1>1, <1>4 DEF DataUpTo
<1>5. PartRight'
  <2>1. ASSUME assembly # <<>>, phase \in {"wait", "frames"}
        PROVE  /\ Consecutive(assembly, handled)'
               /\ input'[assembly[1]] = "part" /\ \A i \in 2..Len(assembly) : input'[assembly[i]] =
                  "more"
    <3>1. \A i \in 1..Len(assembly) : assembly[i] \in 1..handled /\ input'[assembly[i]] =
          input[assembly[i]]
      BY <1>1 DEF FrameIInv, FrameType
    <3>2. Len(assembly) >= 1 /\ assembly[1] \in Nat \ {0} /\ handled \in 0..handled
      BY <1>1, <2>1 DEF FrameIInv, FrameType
    <3>3. DataUpTo(assembly[1], handled)' = DataUpTo(assembly[1], handled)
      BY <1>1, <1>4, <3>2
    <3> QED
      BY <1>1, <2>1, <3>1, <3>2, <3>3 DEF FrameIInv, PartRight, Consecutive
  <2> QED
    BY <1>1, <2>1 DEF PartRight
<1>6. ASSUME NEW k \in 1..Len(messages) PROVE WholeMessage(messages[k])'
  <2>1. PICK m : m = messages[k]
    OBVIOUS
  <2>2. m \in Seq(Nat) /\ m # <<>> /\ messages' = messages
    BY <1>1, <2>1 DEF FrameIInv, FrameType, MessagesRight
  <2>3. \A i \in 1..Len(m) : m[i] \in 1..handled
    BY <2>1 DEF FrameIInv, FrameType
  <2>4. Len(m) \in Nat /\ 1 \in 1..Len(m) /\ Len(m) \in 1..Len(m)
    BY <2>2
  <2>5. m[1] \in Nat \ {0} /\ m[Len(m)] \in 0..handled
    BY <1>1, <2>3, <2>4
  <2>6. \A i \in 1..Len(m) : input'[m[i]] = input[m[i]]
    BY <1>1, <2>3
  <2>7. DataUpTo(m[1], m[Len(m)])' = DataUpTo(m[1], m[Len(m)])
    BY <1>4, <2>5
  <2>8. WholeMessage(m)
    BY <2>1 DEF FrameIInv, Reassembled
  <2>9. WholeMessage(m)'
    <3>1. /\ {m[i] : i \in 1..Len(m)} = DataUpTo(m[1], m[Len(m)])'
          /\ \A i \in 1..Len(m) - 1 : m[i] < m[i + 1]
      BY <2>7, <2>8 DEF WholeMessage
    <3>2. input'[m[1]] = input[m[1]] /\ input'[m[Len(m)]] = input[m[Len(m)]]
      BY <2>4, <2>6
    <3>3. ASSUME NEW i \in 2..Len(m) - 1 PROVE input'[m[i]] = input[m[i]]
      <4>1. i \in 1..Len(m)
        BY <2>4
      <4> QED
        BY <2>6, <4>1
    <3>4. IF Len(m) = 1 THEN input[m[1]] = "text"
          ELSE /\ input[m[1]] = "part" /\ input[m[Len(m)]] = "last"
               /\ \A i \in 2..Len(m) - 1 : input[m[i]] = "more"
      BY <2>8 DEF WholeMessage
    <3>5. IF Len(m) = 1 THEN input'[m[1]] = "text"
          ELSE /\ input'[m[1]] = "part" /\ input'[m[Len(m)]] = "last"
               /\ \A i \in 2..Len(m) - 1 : input'[m[i]] = "more"
      BY <3>2, <3>3, <3>4
    <3> QED
      BY <3>1, <3>5 DEF WholeMessage
  <2> QED
    BY <2>1, <2>2, <2>9
<1>7. Reassembled'
  <2>1. {n \in 1..handled : input'[n] \in {"text", "last"}} = {n \in 1..handled : input[n] \in
        {"text", "last"}}
    BY <1>1
  <2> QED
    BY <1>1, <1>6, <2>1 DEF FrameIInv, Reassembled
<1> QED
  BY <1>2, <1>3, <1>5, <1>7 DEF FrameIInv

\* One frame is handled: a control frame passes by, a data frame begins, continues or
\* ends a message, or ends the session.
LEMMA HandleKeeps ==
  ASSUME ControlIInv, FrameIInv, HandleFrame
  PROVE  FrameIInv'
<1> DEFINE n == handled + 1
           kind == input[n]
           data == {"text", "part", "more", "last"}
<1>1. /\ UNCHANGED <<role, input, received, announced>>
      /\ phase = "frames" /\ handled < received /\ handled' = n
      /\ phase' \in {"frames", "finish"}
  BY DEF HandleFrame, HandleControl, HandleData
<1>2. /\ handled \in Nat /\ n \in Nat /\ received <= Len(input)
      /\ assembly \in Seq(Nat) /\ messages \in Seq(Seq(Nat)) /\ input \in Seq(FrameKinds)
      /\ \A i \in 1..Len(assembly) : assembly[i] \in 1..handled
      /\ \A i \in 1..Len(messages) : \A k \in 1..Len(messages[i]) : messages[i][k] \in 1..handled
  BY DEF FrameIInv, FrameType
<1>2a. /\ Len(assembly) \in Nat /\ Len(messages) \in Nat /\ handled \in Nat
       /\ assembly # <<>> => Len(assembly) >= 1
  BY <1>2
<1>2b. /\ \A i \in 1..Len(assembly) : assembly[i] \in 1..handled
       /\ \A i \in 1..Len(messages) : \A k \in 1..Len(messages[i]) : messages[i][k] \in 1..handled
  BY <1>2
<1>2c. \A x \in 1..handled : x \in 1..n
  BY <1>2a
<1>3. ~Before' /\ (role = "server" => announced = 1)
  BY <1>1 DEF Before, Young, ControlIInv, ServerPhase
<1>4. n \in 1..Len(input) /\ received \in n..Len(input)
  BY <1>1, <1>2 DEF FrameIInv, FrameType
<1>5. Unopened'
  BY <1>1, <1>3 DEF Unopened
<1>6. ASSUME assembly' # <<>> /\ phase' = "frames" =>
                /\ Consecutive(assembly', n)
                /\ input[assembly'[1]] = "part" /\ \A i \in 2..Len(assembly') : input[assembly'[i]]
                   = "more"
      PROVE  PartRight'
  BY <1>1, <1>6 DEF PartRight, Consecutive, DataUpTo
<1>7. ASSUME \A i \in 1..Len(messages') : WholeMessage(messages'[i]),
             \A i, j \in 1..Len(messages') :
               i < j => messages'[i][Len(messages'[i])] < messages'[j][1],
             phase' = "frames" =>
               Cardinality({i \in 1..n : input[i] \in {"text", "last"}}) = Len(messages')
      PROVE  Reassembled'
  <2>1. (\A i \in 1..Len(messages) : WholeMessage(messages[i]))'
    BY <1>1, <1>7 DEF WholeMessage, DataUpTo
  <2> QED
    BY <1>1, <1>7, <2>1 DEF Reassembled
<1>8. CASE UNCHANGED <<assembly, messages>> /\ (phase' = "frames" => kind \notin data)
  <2>1. FrameType'
    <3>1. /\ \A i \in 1..Len(assembly) : assembly[i] \in 1..n
          /\ \A i \in 1..Len(messages) : \A k \in 1..Len(messages[i]) : messages[i][k] \in 1..n
      BY <1>2b, <1>2c
    <3> QED
      BY <1>1, <1>2, <1>4, <1>8, <3>1 DEF FrameType
  <2>2. PartRight'
    <3>1. ASSUME assembly # <<>>, phase' = "frames" PROVE Consecutive(assembly, n)
      BY <1>1, <1>8, <3>1, PartWaits DEF FrameIInv, PartRight
    <3> QED
      BY <1>1, <1>6, <1>8, <3>1 DEF FrameIInv, PartRight
  <2>3. MessagesRight'
    BY <1>8 DEF FrameIInv, MessagesRight
  <2>4. Reassembled'
    <3>1. phase' = "frames" =>
            Cardinality({i \in 1..n : input[i] \in {"text", "last"}}) = Len(messages)
      BY <1>1, <1>8, EndersGrow DEF FrameIInv, Reassembled, Enders
    <3> QED
      BY <1>8, <1>7, <3>1 DEF FrameIInv, Reassembled
  <2> QED
    BY <1>5, <2>1, <2>2, <2>3, <2>4 DEF FrameIInv
<1>9. CASE /\ kind \in {"part", "more"} /\ messages' = messages /\ assembly' = Append(assembly, n)
           /\ kind = "part" <=> assembly = <<>>
  <2>1. /\ assembly' \in Seq(Nat) /\ Len(assembly') = Len(assembly) + 1
        /\ \A i \in 1..Len(assembly) : assembly'[i] = assembly[i]
        /\ assembly'[Len(assembly) + 1] = n
    BY <1>2, <1>9, AppendedRange
  <2>2. FrameType'
    <3>1. ASSUME NEW i \in 1..Len(assembly') PROVE assembly'[i] \in 1..n
      <4>1. CASE i = Len(assembly) + 1
        BY <1>2, <2>1, <4>1
      <4>2. CASE i # Len(assembly) + 1
        <5>1. i \in 1..Len(assembly) /\ assembly'[i] = assembly[i]
          BY <1>2, <2>1, <4>2
        <5> QED
          BY <1>2, <5>1
      <4> QED
        BY <4>1, <4>2
    <3>2. \A i \in 1..Len(messages) : \A k \in 1..Len(messages[i]) : messages[i][k] \in 1..n
      BY <1>2b, <1>2c
    <3> QED
      BY <1>1, <1>2, <1>4, <1>9, <2>1, <3>1, <3>2 DEF FrameType
  <2>3. PartRight'
    <3>1. CASE assembly = <<>>
      <4>1. assembly' = <<n>> /\ kind = "part"
        BY <1>9, <3>1
      <4>2. DataUpTo(n, n) = {n}
        BY <1>2, <4>1 DEF DataUpTo
      <4>3. Len(assembly') = 1 /\ assembly'[1] = n /\ 1..1 = {1} /\ 1..0 = {} /\ 2..1 = {}
        BY <4>1
      <4>4. Consecutive(assembly', n)
        BY <4>2, <4>3 DEF Consecutive
      <4> QED
        BY <1>6, <4>1, <4>3, <4>4
    <3>2. CASE assembly # <<>>
      <4>1. Consecutive(assembly', n)
        BY <1>1, <1>9, <3>2, PartGrows DEF FrameIInv, PartRight
      <4>3. /\ assembly'[1] = assembly[1]
            /\ \A i \in 2..Len(assembly') : assembly'[i] = IF i = Len(assembly) + 1 THEN n ELSE
               assembly[i]
        BY <1>2a, <2>1, <3>2
      <4>4. input[assembly'[1]] = "part" /\ \A i \in 2..Len(assembly') : input[assembly'[i]] =
            "more"
        BY <1>1, <1>2, <1>9, <2>1, <3>2, <4>3 DEF FrameIInv, PartRight
      <4> QED
        BY <1>6, <4>1, <4>4
    <3> QED
      BY <3>1, <3>2
  <2>4. MessagesRight'
    <3>1. ASSUME NEW i \in 1..Len(messages) PROVE messages[i] # <<>> /\
                 messages[i][Len(messages[i])] < assembly'[1]
      <4>1. messages[i] \in Seq(Nat) /\ Len(messages[i]) \in 1..Len(messages[i])
        BY <1>2, <3>1 DEF FrameIInv, MessagesRight
      <4>2. messages[i][Len(messages[i])] \in 1..handled
        BY <1>2, <4>1
      <4>3. CASE assembly = <<>>
        <5>1. assembly'[1] = n
          BY <2>1, <4>3
        <5> QED
          BY <1>2, <4>1, <4>2, <5>1 DEF FrameIInv, MessagesRight
      <4>4. CASE assembly # <<>>
        <5>1. assembly'[1] = assembly[1]
          BY <1>2a, <2>1, <4>4
        <5> QED
          BY <4>4, <5>1 DEF FrameIInv, MessagesRight
      <4> QED
        BY <4>3, <4>4
    <3> QED
      BY <1>9, <3>1 DEF MessagesRight
  <2>5. Reassembled'
    <3>1. Cardinality({i \in 1..n : input[i] \in {"text", "last"}}) = Len(messages)
      BY <1>1, <1>9, EndersGrow DEF FrameIInv, Reassembled, Enders
    <3> QED
      BY <1>9, <1>7, <3>1 DEF FrameIInv, Reassembled
  <2> QED
    BY <1>5, <2>2, <2>3, <2>4, <2>5 DEF FrameIInv
<1>10. CASE /\ kind \in {"text", "last"} /\ messages' = Append(messages, Append(assembly, n))
            /\ assembly' = <<>> /\ (kind = "text" <=> assembly = <<>>)
  <2> DEFINE m == Append(assembly, n)
  <2>1. /\ m \in Seq(Nat) /\ Len(m) = Len(assembly) + 1 /\ m[Len(m)] = n
        /\ \A i \in 1..Len(assembly) : m[i] = assembly[i]
    BY <1>2, AppendedRange
  <2>2. /\ messages' \in Seq(Seq(Nat)) /\ Len(messages') = Len(messages) + 1
        /\ \A i \in 1..Len(messages) : messages'[i] = messages[i]
        /\ messages'[Len(messages) + 1] = m
    BY <1>2, <1>10, <2>1
  <2> HIDE DEF m
  <2>2a. ASSUME NEW i \in 1..Len(messages'), i # Len(messages) + 1
         PROVE  i \in 1..Len(messages) /\ messages'[i] = messages[i]
    <3>1. /\ Len(messages') = Len(messages) + 1
          /\ \A k \in 1..Len(messages) : messages'[k] = messages[k]
      BY <2>2
    <3>2. i \in 1..Len(messages)
      BY <1>2a, <2>2a, <3>1
    <3> QED
      BY <3>1, <3>2
  <2>3. ASSUME NEW k \in 1..Len(m) PROVE m[k] \in 1..n
    <3>1. CASE k = Len(m)
      BY <1>2a, <2>1, <3>1
    <3>2. CASE k # Len(m)
      <4>1. k \in 1..Len(assembly)
        BY <1>2a, <2>1, <3>2
      <4> QED
        BY <1>2b, <1>2c, <2>1, <4>1
    <3> QED
      BY <3>1, <3>2
  <2>4. FrameType'
    <3>1. ASSUME NEW i \in 1..Len(messages') PROVE \A k \in 1..Len(messages'[i]) : messages'[i][k]
                 \in 1..n
      <4>1. CASE i = Len(messages) + 1
        BY <2>2, <2>3, <4>1
      <4>2. CASE i # Len(messages) + 1
        <5>1. i \in 1..Len(messages) /\ messages'[i] = messages[i]
          BY <2>2a, <4>2
        <5> QED
          BY <1>2, <5>1
      <4> QED
        BY <4>1, <4>2
    <3> QED
      BY <1>1, <1>2, <1>4, <1>10, <2>2, <3>1 DEF FrameType
  <2>5. PartRight' /\ MessagesRight'
    <3>1. ASSUME NEW i \in 1..Len(messages') PROVE messages'[i] # <<>>
      <4>1. CASE i = Len(messages) + 1
        BY <1>2, <2>1, <2>2, <4>1
      <4>2. CASE i # Len(messages) + 1
        <5>1. i \in 1..Len(messages) /\ messages'[i] = messages[i]
          BY <2>2a, <4>2
        <5> QED
          BY <5>1 DEF FrameIInv, MessagesRight
      <4> QED
        BY <4>1, <4>2
    <3> QED
      BY <1>10, <3>1 DEF PartRight, MessagesRight
  <2>6. WholeMessage(m)
    <3>1. CASE assembly = <<>>
      <4>1. m = <<n>> /\ kind = "text"
        BY <1>10, <3>1 DEF m
      <4>2. DataUpTo(n, n) = {n}
        BY <1>2, <4>1 DEF DataUpTo
      <4>3. Len(m) = 1 /\ m[1] = n /\ 1..1 = {1} /\ 1..0 = {}
        BY <4>1
      <4> QED
        BY <4>1, <4>2, <4>3 DEF WholeMessage
    <3>2. CASE assembly # <<>>
      <4>1. Consecutive(m, n) /\ kind = "last"
        BY <1>1, <1>10, <3>2, PartGrows DEF FrameIInv, PartRight, m
      <4>2. Len(m) # 1 /\ m[1] = assembly[1] /\ input[assembly[1]] = "part"
        BY <1>1, <1>2, <2>1, <3>2 DEF FrameIInv, PartRight
      <4>3. ASSUME NEW i \in 2..Len(m) - 1 PROVE input[m[i]] = "more"
        <5>1. i \in 2..Len(assembly) /\ i \in 1..Len(assembly)
          BY <1>2a, <2>1
        <5>2. m[i] = assembly[i]
          BY <2>1, <5>1
        <5> QED
          BY <1>1, <3>2, <5>1, <5>2 DEF FrameIInv, PartRight
      <4> QED
        BY <2>1, <4>1, <4>2, <4>3 DEF WholeMessage, Consecutive
    <3> QED
      BY <3>1, <3>2
  <2>7. ASSUME NEW i \in 1..Len(messages) PROVE messages[i][Len(messages[i])] < m[1]
    <3>1. messages[i] \in Seq(Nat) /\ Len(messages[i]) \in 1..Len(messages[i])
      BY <1>2, <2>7 DEF FrameIInv, MessagesRight
    <3>2. messages[i][Len(messages[i])] \in 1..handled
      BY <1>2, <3>1
    <3>3. CASE assembly = <<>>
      <4>1. m[1] = n
        BY <2>1, <3>3
      <4> QED
        BY <1>2a, <3>2, <4>1
    <3>4. CASE assembly # <<>>
      <4>1. m[1] = assembly[1]
        BY <1>2a, <2>1, <3>4
      <4> QED
        BY <3>4, <4>1 DEF FrameIInv, MessagesRight
    <3> QED
      BY <3>3, <3>4
  <2>8. Reassembled'
    <3>1. Cardinality({i \in 1..n : input[i] \in {"text", "last"}}) = Len(messages')
      BY <1>1, <1>10, <2>2, EndersGrow DEF FrameIInv, Reassembled, Enders
    <3>2. ASSUME NEW i \in 1..Len(messages') PROVE WholeMessage(messages'[i])
      <4>1. CASE i = Len(messages) + 1
        BY <2>2, <2>6, <4>1
      <4>2. CASE i # Len(messages) + 1
        <5>1. i \in 1..Len(messages) /\ messages'[i] = messages[i]
          BY <2>2a, <4>2
        <5> QED
          BY <5>1 DEF FrameIInv, Reassembled
      <4> QED
        BY <4>1, <4>2
    <3>3. ASSUME NEW i \in 1..Len(messages'), NEW j \in 1..Len(messages'), i < j
          PROVE  messages'[i][Len(messages'[i])] < messages'[j][1]
      <4>4. Len(messages') = Len(messages) + 1
        BY <2>2
      <4>1. i \in 1..Len(messages) /\ messages'[i] = messages[i]
        <5>1. i # Len(messages) + 1
          BY <1>2a, <3>3, <4>4
        <5> QED
          BY <2>2a, <5>1
      <4>2. CASE j = Len(messages) + 1
        BY <2>2, <2>7, <4>1, <4>2
      <4>3. CASE j # Len(messages) + 1
        <5>1. j \in 1..Len(messages)
          BY <1>2a, <2>2, <4>3
        <5>2. messages'[j] = messages[j]
          BY <2>2, <5>1
        <5> QED
          BY <3>3, <4>1, <5>1, <5>2 DEF FrameIInv, Reassembled
      <4> QED
        BY <4>2, <4>3
    <3> QED
      BY <1>7, <3>1, <3>2, <3>3
  <2> QED
    BY <1>5, <2>4, <2>5, <2>8 DEF FrameIInv
<1>11. \/ UNCHANGED <<assembly, messages>> /\ (phase' = "frames" => kind \notin data)
       \/ /\ kind \in {"part", "more"} /\ messages' = messages /\ assembly' = Append(assembly, n)
          /\ kind = "part" <=> assembly = <<>>
       \/ /\ kind \in {"text", "last"} /\ messages' = Append(messages, Append(assembly, n))
          /\ assembly' = <<>> /\ (kind = "text" <=> assembly = <<>>)
  <2>1. assembly = <<>> => Append(assembly, n) = <<n>>
    BY <1>2
  <2> QED
    BY <1>1, <2>1 DEF HandleFrame, HandleControl, HandleData, Deliver
<1> QED
  BY <1>8, <1>9, <1>10, <1>11

\* No other step touches the frames.
LEMMA OthersKeepFrames ==
  ASSUME ControlIInv, FrameIInv
  PROVE  /\ PeerCloses => FrameIInv'
         /\ Connect => FrameIInv'
         /\ Listen => FrameIInv'
         /\ AcceptConnection => FrameIInv'
         /\ NoteSession => FrameIInv'
         /\ StartSession => FrameIInv'
         /\ SessionBegins => FrameIInv'
         /\ ClientHandshake => FrameIInv'
         /\ ConnectReturns => FrameIInv'
         /\ ServerHandshake => FrameIInv'
         /\ AdmitSession => FrameIInv'
         /\ HandshakeFails => FrameIInv'
         /\ Forget => FrameIInv'
         /\ OnConnect => FrameIInv'
         /\ ReadFrames => FrameIInv'
         /\ WaitEnds => FrameIInv'
         /\ BatchDone => FrameIInv'
         /\ EndSession => FrameIInv'
         /\ OnDisconnect => FrameIInv'
         /\ DisconnectPeer => FrameIInv'
         /\ BeginClose => FrameIInv'
         /\ ClearTable => FrameIInv'
         /\ CloseReturns => FrameIInv'
<1> USE FramesKept DEF frameVars, socketVars, tableWsVars, Before, Young
<1>1. received \in handled..Len(input) /\ handled \in Nat /\ received \in Nat /\ Len(input) \in Nat
  BY DEF FrameIInv, FrameType
<1>2. (Before => messages = <<>> /\ handled = 0) /\ (caller = "announce" => role = "client")
  BY DEF ControlIInv, ControlType, ServerPhase, FrameIInv, Unopened
<1>3. PeerCloses => FrameIInv'
  BY <1>1, <1>2 DEF PeerCloses
<1>4. Connect => FrameIInv'
  BY <1>1, <1>2 DEF Connect
<1>5. Listen => FrameIInv'
  BY <1>1, <1>2 DEF Listen
<1>6. AcceptConnection => FrameIInv'
  BY <1>1, <1>2 DEF AcceptConnection
<1>7. NoteSession => FrameIInv'
  BY <1>1, <1>2 DEF NoteSession
<1>8. StartSession => FrameIInv'
  BY <1>1, <1>2 DEF StartSession
<1>9. SessionBegins => FrameIInv'
  BY <1>1, <1>2 DEF SessionBegins
<1>10. ClientHandshake => FrameIInv'
  BY <1>1, <1>2 DEF ClientHandshake, Leftover
<1>11. ConnectReturns => FrameIInv'
  BY <1>1, <1>2 DEF ConnectReturns
<1>12. ServerHandshake => FrameIInv'
  BY <1>1, <1>2 DEF ServerHandshake, Leftover
<1>13. AdmitSession => FrameIInv'
  BY <1>1, <1>2 DEF AdmitSession
<1>14. HandshakeFails => FrameIInv'
  BY <1>1, <1>2 DEF HandshakeFails
<1>15. Forget => FrameIInv'
  BY <1>1, <1>2 DEF Forget
<1>16. OnConnect => FrameIInv'
  BY <1>1, <1>2 DEF OnConnect
<1>17. ReadFrames => FrameIInv'
  BY <1>1, <1>2 DEF ReadFrames
<1>18. WaitEnds => FrameIInv'
  BY <1>1, <1>2 DEF WaitEnds
<1>19. BatchDone => FrameIInv'
  BY <1>1, <1>2 DEF BatchDone
<1>20. EndSession => FrameIInv'
  BY <1>1, <1>2 DEF EndSession
<1>21. OnDisconnect => FrameIInv'
  BY <1>1, <1>2 DEF OnDisconnect
<1>22. DisconnectPeer => FrameIInv'
  BY <1>1, <1>2 DEF DisconnectPeer
<1>23. BeginClose => FrameIInv'
  BY <1>1, <1>2 DEF BeginClose
<1>24. ClearTable => FrameIInv'
  BY <1>1, <1>2 DEF ClearTable
<1>25. CloseReturns => FrameIInv'
  BY <1>1, <1>2 DEF CloseReturns
<1> QED
  BY <1>3, <1>4, <1>5, <1>6, <1>7, <1>8, <1>9, <1>10, <1>11, <1>12, <1>13, <1>14, <1>15, <1>16,
     <1>17, <1>18, <1>19, <1>20, <1>21, <1>22, <1>23, <1>24, <1>25

\* Every connection, whichever side and whatever the peer sends: messages are whole
\* and in order, the callbacks bracket them, and the socket is closed once.
THEOREM WebSocketInvariant == WebSocketSpec => []WebSocketInv
<1>1. ASSUME WebSocketInit PROVE ControlIInv /\ FrameIInv
  <2>1. ControlIInv
    <3>1. /\ role \in {"client", "server"} /\ caller \in {"inside", "returned"}
          /\ phase \in {"connect", "start"} /\ socket = "up" /\ closer = "idle"
      BY <1>1 DEF WebSocketInit
    <3>2. /\ closes = 0 /\ announced = 0 /\ ended = 0
          /\ valid = FALSE /\ listed = FALSE /\ handshake_done = FALSE /\ ws_stop = FALSE
      BY <1>1 DEF WebSocketInit
    <3>3. CloserRight
      BY <3>1, <3>2 DEF CloserRight
    <3>4. /\ closes \in Nat /\ announced \in Nat /\ ended \in Nat
          /\ closes = 0 <=> socket # "closed"
          /\ ended <= 1 /\ (ended = 1 => phase = "gone")
      BY <3>1, <3>2
    <3>5. /\ valid \in BOOLEAN /\ listed \in BOOLEAN /\ handshake_done \in BOOLEAN /\ ws_stop \in
             BOOLEAN
      BY <3>2
    <3>6. /\ caller \in {"inside", "announce", "returned"} /\ socket \in {"up", "down", "closed"}
          /\ closer \in {"idle", "clear", "join", "done"}
          /\ phase \in {"connect", "start", "arriving", "taken", "registered", "started",
             "handshake",
               "greeted", "announce", "wait", "frames", "finish", "tell", "forget", "gone", "never"}
      BY <3>1
    <3>7. ClientPhase /\ ServerPhase
      BY <1>1 DEF WebSocketInit, ClientPhase, ServerPhase
    <3>8. ControlType
      BY <3>1, <3>4, <3>5, <3>6 DEF ControlType
    <3> QED
      BY <3>3, <3>7, <3>8 DEF ControlIInv
  <2>2. handled = 0 /\ received = 0 /\ input = <<>> /\ assembly = <<>> /\ messages = <<>>
        /\ phase \in {"connect", "start"}
    BY <1>1 DEF WebSocketInit
  <2>3. FrameType /\ Unopened /\ PartRight /\ MessagesRight /\ Reassembled
    BY <2>2 DEF FrameType, Unopened, PartRight, MessagesRight, Reassembled
  <2> QED
    BY <2>1, <2>3 DEF FrameIInv
<1>2. ASSUME ControlIInv /\ FrameIInv, [WebSocketNext]_webSocketVars
      PROVE  (ControlIInv /\ FrameIInv)'
  <2>1. CASE UNCHANGED webSocketVars
    <3>1. /\ UNCHANGED <<role, phase, input, received, handled, assembly, messages, socket, closes,
                         valid, listed, handshake_done, caller, ws_stop, announced, ended, closer>>
      BY <2>1 DEF webSocketVars, frameVars, socketVars, tableWsVars
    <3>2. ControlIInv'
      BY <1>2, <3>1 DEF ControlIInv, ControlType, ClientPhase, ServerPhase, CloserRight
    <3>3. FrameIInv'
      BY <1>2, <3>1, FramesKept DEF FrameIInv, FrameType, Before, Young
    <3> QED
      BY <3>2, <3>3
  <2>2. CASE WebSocketNext
    <3>1. ControlIInv'
      BY <1>2, <2>2, SendControl, PeerControl, ConnectControl, ListenControl, AcceptControl,
         NoteControl, StartControl, BeginsControl, ClientGreets, ConnectedControl, ServerGreets,
         AdmitControl, FailControl, ForgetControl, OnConnectControl, ReadControl, WaitControl,
         HandleControlStep, BatchControl, EndControl, OnDisconnectControl, DisconnectControl,
         CloseControl, ClearControl, ReturnControl
         DEF WebSocketNext, Opening, SessionRuns, Closing
    <3>2. FrameIInv'
      BY <1>2, <2>2, SendKeeps, HandleKeeps, OthersKeepFrames DEF WebSocketNext, Opening,
         SessionRuns, Closing
    <3> QED
      BY <3>1, <3>2
  <2> QED
    BY <1>2, <2>1, <2>2
<1>3. ASSUME ControlIInv, FrameIInv PROVE WebSocketInv
  <2>1. WebSocketTypeOK
    BY <1>3 DEF ControlIInv, ControlType, FrameIInv, FrameType, WebSocketTypeOK
  <2>2. Bracketed
    BY <1>3 DEF ControlIInv, ControlType, ClientPhase, ServerPhase, FrameIInv, Unopened, Bracketed
  <2>3. ClosedOnce
    BY <1>3 DEF ControlIInv, ControlType, ClientPhase, ServerPhase, CloserRight, ClosedOnce,
       MaySendFrame
  <2> QED
    BY <1>3, <2>1, <2>2, <2>3 DEF FrameIInv, WebSocketInv
<1> QED
  BY <1>1, <1>2, <1>3, PTL DEF WebSocketSpec
-----------------------------------------------------------------------------
(***************************************************************************)
(* The TCP server, for any number of sessions and starts.  TcpServerInv    *)
(* speaks of the table, of the descriptors, of what was told and of what   *)
(* is left after stop(); what ties these together is where the thread of a *)
(* session is, which the accept thread alone starts (Accepted) and stop()  *)
(* waits for (Halting).                                                    *)
(***************************************************************************)

TcpServerType ==
  /\ TcpServerTypeOK
  /\ wheel_liveness \in BOOLEAN /\ serving_tcp \in BOOLEAN /\ listening \in BOOLEAN
  /\ run \in 0..MaxRuns /\ next_conn \in 1..MaxSessions + 1
  /\ \A id \in DOMAIN sessions : sessions[id] \in BOOLEAN

\* The accept thread: it runs after a start, and what it has accepted has an id
\* and, unless stop() came, a place in the table.
Accepted ==
  /\ accepter # "gone" => run # 0
  /\ accepter \in {"accepted", "registered"} => next_conn \in ConnIds
  /\ accepter = "registered" /\ serving_tcp => next_conn \in DOMAIN sessions

\* stop(): once it has joined the accept thread nobody registers any more.
Halting ==
  /\ halter # "no" => ~serving_tcp
  /\ halter = "join" => accepter = "gone" /\ DOMAIN sessions = {}
  /\ HaltedIsEmpty

\* The thread of a session is started by the accept thread, finds the session in
\* the table unless stop() has cleared that, and forgets it before it closes the
\* socket.
ReaderRight(id) ==
  /\ id >= next_conn => reader[id] = "none"
  /\ reader[id] \in {"close", "close known", "tell", "gone"} => id \notin DOMAIN sessions
  /\ serving_tcp =>
       /\ reader[id] \in {"loop", "message", "leave"} => id \in DOMAIN sessions
       /\ reader[id] # "close"

\* A socket is open only from its registration to the end of the thread, and what
\* send() finds in the table is.
SocketRight(id) ==
  /\ descriptor[id] =>
       \/ reader[id] \in {"loop", "message", "leave", "close", "close known"}
       \/ accepter = "registered" /\ id = next_conn
  /\ id \in DOMAIN sessions /\ sessions[id] => descriptor[id]

\* The end is told last, and while the server runs it is.
EndToldRight(id) ==
  /\ told[id] <= 1 /\ (told[id] # 0 => reader[id] = "gone")
  /\ serving_tcp /\ reader[id] = "gone" => told[id] = 1

Telling == told \in [ConnIds -> Nat] /\ \A id \in ConnIds : EndToldRight(id)

TcpServerIInv ==
  /\ TcpServerType /\ Accepted /\ Halting /\ Telling
  /\ \A id \in ConnIds : ReaderRight(id) /\ SocketRight(id)

\* start(): the server that it finds was halted.
LEMMA ServerStarts ==
  ASSUME TcpServerIInv, StartServer
  PROVE  TcpServerIInv'
<1>1. /\ reader' = [id \in ConnIds |-> "none"] /\ told' = [id \in ConnIds |-> 0]
      /\ next_conn' = 1 /\ run' = run + 1 /\ run < MaxRuns /\ halter = "no" /\ accepter' = "poll"
      /\ sessions' = sessions /\ halter' = halter /\ serving_tcp' = TRUE /\ ~serving_tcp
      /\ descriptor' = descriptor
  BY DEF StartServer
<1>2. TcpServerTypeOK'
  BY DEF TcpServerIInv, TcpServerType, TcpServerTypeOK, StartServer, aliveVars
<1>3. TcpServerType'
  BY <1>1, <1>2, TcpServerAssumption
     DEF TcpServerAssumption, TcpServerIInv, TcpServerType, StartServer
<1>4. DOMAIN sessions = {} /\ \A id \in ConnIds : ~descriptor[id]
  BY <1>1 DEF TcpServerIInv, Halting, HaltedIsEmpty
<1>5. Accepted'
  BY <1>1, TcpServerAssumption DEF TcpServerAssumption, TcpServerIInv, TcpServerType, Accepted
<1>6. Halting'
  BY <1>1 DEF Halting, HaltedIsEmpty
<1>7. Telling'
  BY <1>1 DEF Telling, EndToldRight
<1>8. ASSUME NEW n \in ConnIds PROVE ReaderRight(n)' /\ SocketRight(n)'
  BY <1>1, <1>4 DEF ReaderRight, SocketRight
<1> QED
  BY <1>3, <1>5, <1>6, <1>7, <1>8 DEF TcpServerIInv

\* The accept thread accepts while the listener is open.
LEMMA AcceptOneSteps ==
  ASSUME TcpServerIInv, AcceptOne
  PROVE  TcpServerIInv'
<1> USE TcpServerAssumption DEF TcpServerAssumption, ConnIds, AcceptOne, acceptVars, aliveVars
<1>1. TcpServerType'
  BY DEF TcpServerIInv, TcpServerType, TcpServerTypeOK, Accepted
<1>2. Accepted'
  BY DEF TcpServerIInv, TcpServerType, Accepted
<1>3. Halting'
  BY DEF TcpServerIInv, TcpServerType, TcpServerTypeOK, Accepted, Halting, HaltedIsEmpty,
     ReaderRight, SocketRight
<1>4. ASSUME NEW n \in ConnIds PROVE ReaderRight(n)'
  BY DEF TcpServerIInv, TcpServerType, TcpServerTypeOK, Accepted, Halting, HaltedIsEmpty,
     ReaderRight
<1>6. ASSUME NEW n \in ConnIds PROVE SocketRight(n)'
  BY DEF TcpServerIInv, TcpServerType, TcpServerTypeOK, Accepted, Halting, HaltedIsEmpty,
     ReaderRight, SocketRight
<1>5. Telling'
  BY DEF TcpServerIInv, TcpServerType, TcpServerTypeOK, Telling, EndToldRight, ReaderRight
<1> QED
  BY <1>1, <1>2, <1>3, <1>4, <1>5, <1>6 DEF TcpServerIInv

\* on_connect is called.
LEMMA AnnounceSteps ==
  ASSUME TcpServerIInv, Announce
  PROVE  TcpServerIInv'
<1> USE TcpServerAssumption DEF TcpServerAssumption, ConnIds, Announce, acceptVars, aliveVars
<1>1. TcpServerType'
  BY DEF TcpServerIInv, TcpServerType, TcpServerTypeOK, Accepted
<1>2. Accepted'
  BY DEF TcpServerIInv, TcpServerType, Accepted
<1>3. Halting'
  BY DEF TcpServerIInv, TcpServerType, TcpServerTypeOK, Accepted, Halting, HaltedIsEmpty,
     ReaderRight, SocketRight
<1>4. ASSUME NEW n \in ConnIds PROVE ReaderRight(n)'
  BY DEF TcpServerIInv, TcpServerType, TcpServerTypeOK, Accepted, Halting, HaltedIsEmpty,
     ReaderRight
<1>6. ASSUME NEW n \in ConnIds PROVE SocketRight(n)'
  BY DEF TcpServerIInv, TcpServerType, TcpServerTypeOK, Accepted, Halting, HaltedIsEmpty,
     ReaderRight, SocketRight
<1>5. Telling'
  BY DEF TcpServerIInv, TcpServerType, TcpServerTypeOK, Telling, EndToldRight, ReaderRight
<1> QED
  BY <1>1, <1>2, <1>3, <1>4, <1>5, <1>6 DEF TcpServerIInv

\* The accept thread ends: nothing is accepted that is not in the table.
LEMMA AcceptEndsSteps ==
  ASSUME TcpServerIInv, AcceptEnds
  PROVE  TcpServerIInv'
<1> USE TcpServerAssumption DEF TcpServerAssumption, ConnIds, AcceptEnds, acceptVars, aliveVars
<1>1. TcpServerType'
  BY DEF TcpServerIInv, TcpServerType, TcpServerTypeOK, Accepted
<1>2. Accepted'
  BY DEF TcpServerIInv, TcpServerType, Accepted
<1>3. Halting'
  BY DEF TcpServerIInv, TcpServerType, TcpServerTypeOK, Accepted, Halting, HaltedIsEmpty,
     ReaderRight, SocketRight
<1>4. ASSUME NEW n \in ConnIds PROVE ReaderRight(n)'
  BY DEF TcpServerIInv, TcpServerType, TcpServerTypeOK, Accepted, Halting, HaltedIsEmpty,
     ReaderRight
<1>6. ASSUME NEW n \in ConnIds PROVE SocketRight(n)'
  BY DEF TcpServerIInv, TcpServerType, TcpServerTypeOK, Accepted, Halting, HaltedIsEmpty,
     ReaderRight, SocketRight
<1>5. Telling'
  BY DEF TcpServerIInv, TcpServerType, TcpServerTypeOK, Telling, EndToldRight, ReaderRight
<1> QED
  BY <1>1, <1>2, <1>3, <1>4, <1>5, <1>6 DEF TcpServerIInv

\* The accept thread enters a session into the table.
LEMMA RegisterSteps ==
  ASSUME TcpServerIInv, RegisterSession
  PROVE  TcpServerIInv'
<1>1. /\ accepter = "accepted" /\ accepter' = "registered"
      /\ UNCHANGED <<serving_tcp, run, next_conn, reader, told, halter>>
      /\ DOMAIN sessions' = DOMAIN sessions \cup {next_conn}
  BY DEF RegisterSession
<1>2. next_conn \in ConnIds /\ run \in 1..MaxRuns
  BY <1>1, TcpServerAssumption
     DEF TcpServerAssumption, TcpServerIInv, TcpServerType, Accepted, ConnIds
<1>3. TcpServerTypeOK'
  <2>1. tasks' \subseteq tasks \cup {[conn |-> next_conn, stamp |-> run]}
        /\ liveness' \subseteq liveness \cup {next_conn}
    BY DEF RegisterSession
  <2>2. tasks' \subseteq [conn : ConnIds, stamp : 1..MaxRuns] /\ liveness' \subseteq ConnIds
    <3>1. [conn |-> next_conn, stamp |-> run] \in [conn : ConnIds, stamp : 1..MaxRuns]
      BY <1>2
    <3> QED
      BY <1>2, <2>1, <3>1 DEF TcpServerIInv, TcpServerType, TcpServerTypeOK
  <2> QED
    BY <1>1, <1>2, <2>2 DEF TcpServerIInv, TcpServerType, TcpServerTypeOK, RegisterSession
<1>4. TcpServerType'
  BY <1>1, <1>3 DEF TcpServerIInv, TcpServerType, RegisterSession
<1>5. Accepted' /\ Halting'
  BY <1>1, <1>2 DEF TcpServerIInv, Accepted, Halting, HaltedIsEmpty
<1>6. Telling'
  BY <1>1 DEF TcpServerIInv, Telling, EndToldRight
<1>7. reader[next_conn] = "none"
  <2>1. ReaderRight(next_conn)
    BY <1>2 DEF TcpServerIInv
  <2>2. next_conn >= next_conn
    BY <1>2, TcpServerAssumption DEF TcpServerAssumption, ConnIds
  <2> QED
    BY <2>1, <2>2 DEF ReaderRight
<1>8. ASSUME NEW n \in ConnIds PROVE ReaderRight(n)'
  BY <1>1, <1>7 DEF TcpServerIInv, ReaderRight
<1>9. ASSUME NEW n \in ConnIds PROVE SocketRight(n)'
  <2>1. n \in DOMAIN sessions' => sessions'[n] = IF n = next_conn THEN TRUE ELSE sessions[n]
    BY DEF RegisterSession
  <2>2. descriptor'[n] = IF n = next_conn THEN TRUE ELSE descriptor[n]
    BY DEF RegisterSession, TcpServerIInv, TcpServerType, TcpServerTypeOK
  <2>3. CASE n = next_conn
    BY <1>1, <2>2, <2>3 DEF SocketRight
  <2>4. CASE n # next_conn
    BY <1>1, <2>1, <2>2, <2>4 DEF TcpServerIInv, SocketRight
  <2> QED
    BY <2>3, <2>4
<1> QED
  BY <1>4, <1>5, <1>6, <1>8, <1>9 DEF TcpServerIInv

\* The accept thread starts the thread of a session.
LEMMA LaunchSteps ==
  ASSUME TcpServerIInv, LaunchSession
  PROVE  TcpServerIInv'
<1>1. /\ accepter = "registered" /\ accepter' = "announce" /\ next_conn' = next_conn + 1
      /\ UNCHANGED <<serving_tcp, run, sessions, descriptor, told, halter>>
  BY DEF LaunchSession
<1>2. next_conn \in ConnIds /\ next_conn \in Int
  BY <1>1, TcpServerAssumption DEF TcpServerAssumption, TcpServerIInv, Accepted, ConnIds
<1>3. ASSUME NEW n \in ConnIds PROVE reader'[n] = IF n = next_conn THEN "loop" ELSE reader[n]
  BY DEF TcpServerIInv, TcpServerType, TcpServerTypeOK, LaunchSession
<1>4. TcpServerTypeOK'
  BY DEF TcpServerIInv, TcpServerType, TcpServerTypeOK, LaunchSession, aliveVars
<1>5. TcpServerType'
  BY <1>1, <1>2, <1>4, TcpServerAssumption
     DEF TcpServerAssumption, TcpServerIInv, TcpServerType, LaunchSession, ConnIds
<1>6. Accepted' /\ Halting'
  BY <1>1 DEF TcpServerIInv, Accepted, Halting, HaltedIsEmpty
<1>7. reader[next_conn] = "none"
  <2>1. ReaderRight(next_conn)
    BY <1>2 DEF TcpServerIInv
  <2>2. next_conn >= next_conn
    BY <1>2
  <2> QED
    BY <2>1, <2>2 DEF ReaderRight
<1>8. Telling'
  BY <1>1, <1>3, <1>7 DEF TcpServerIInv, Telling, EndToldRight
<1>9. ASSUME NEW n \in ConnIds PROVE ReaderRight(n)'
  <2>1. n \in Int
    BY TcpServerAssumption DEF TcpServerAssumption, ConnIds
  <2>2. serving_tcp => next_conn \in DOMAIN sessions
    BY <1>1 DEF TcpServerIInv, Accepted
  <2>3. ReaderRight(n)
    BY DEF TcpServerIInv
  <2>4. ~(next_conn >= next_conn + 1) /\ (n >= next_conn + 1 => n >= next_conn /\ n # next_conn)
    BY <1>2, <2>1
  <2>5. CASE n = next_conn
    BY <1>1, <1>3, <2>2, <2>4, <2>5 DEF ReaderRight
  <2>6. CASE n # next_conn
    BY <1>1, <1>3, <2>3, <2>4, <2>6 DEF ReaderRight
  <2> QED
    BY <2>5, <2>6
<1>10. ASSUME NEW n \in ConnIds PROVE SocketRight(n)'
  BY <1>1, <1>3 DEF TcpServerIInv, SocketRight
<1> QED
  BY <1>5, <1>6, <1>8, <1>9, <1>10 DEF TcpServerIInv

\* A frame comes; the thread stays in its loop, or calls on_message.
LEMMA ReceiveSteps ==
  ASSUME TcpServerIInv, NEW id \in ConnIds, ReceiveFrame(id)
  PROVE  TcpServerIInv'
<1> USE TcpServerAssumption DEF TcpServerAssumption, ConnIds, ReceiveFrame, acceptVars, aliveVars
<1>1. TcpServerType'
  BY DEF TcpServerIInv, TcpServerType, TcpServerTypeOK, Accepted
<1>2. Accepted'
  BY DEF TcpServerIInv, TcpServerType, Accepted
<1>3. Halting'
  BY DEF TcpServerIInv, TcpServerType, TcpServerTypeOK, Accepted, Halting, HaltedIsEmpty,
     ReaderRight, SocketRight
<1>4. ASSUME NEW n \in ConnIds PROVE ReaderRight(n)'
  BY DEF TcpServerIInv, TcpServerType, TcpServerTypeOK, Accepted, Halting, HaltedIsEmpty,
     ReaderRight
<1>6. ASSUME NEW n \in ConnIds PROVE SocketRight(n)'
  BY DEF TcpServerIInv, TcpServerType, TcpServerTypeOK, Accepted, Halting, HaltedIsEmpty,
     ReaderRight, SocketRight
<1>5. Telling'
  BY DEF TcpServerIInv, TcpServerType, TcpServerTypeOK, Telling, EndToldRight, ReaderRight
<1> QED
  BY <1>1, <1>2, <1>3, <1>4, <1>5, <1>6 DEF TcpServerIInv

\* on_message returns.
LEMMA MessageSteps ==
  ASSUME TcpServerIInv, NEW id \in ConnIds, MessageDone(id)
  PROVE  TcpServerIInv'
<1> USE TcpServerAssumption DEF TcpServerAssumption, ConnIds, MessageDone, acceptVars, aliveVars
<1>1. TcpServerType'
  BY DEF TcpServerIInv, TcpServerType, TcpServerTypeOK, Accepted
<1>2. Accepted'
  BY DEF TcpServerIInv, TcpServerType, Accepted
<1>3. Halting'
  BY DEF TcpServerIInv, TcpServerType, TcpServerTypeOK, Accepted, Halting, HaltedIsEmpty,
     ReaderRight, SocketRight
<1>4. ASSUME NEW n \in ConnIds PROVE ReaderRight(n)'
  BY DEF TcpServerIInv, TcpServerType, TcpServerTypeOK, Accepted, Halting, HaltedIsEmpty,
     ReaderRight
<1>6. ASSUME NEW n \in ConnIds PROVE SocketRight(n)'
  BY DEF TcpServerIInv, TcpServerType, TcpServerTypeOK, Accepted, Halting, HaltedIsEmpty,
     ReaderRight, SocketRight
<1>5. Telling'
  BY DEF TcpServerIInv, TcpServerType, TcpServerTypeOK, Telling, EndToldRight, ReaderRight
<1> QED
  BY <1>1, <1>2, <1>3, <1>4, <1>5, <1>6 DEF TcpServerIInv

\* The thread of a session leaves its loop, and is still in the table.
LEMMA EndLoopSteps ==
  ASSUME TcpServerIInv, NEW id \in ConnIds, EndLoop(id)
  PROVE  TcpServerIInv'
<1> USE TcpServerAssumption DEF TcpServerAssumption, ConnIds, EndLoop, acceptVars, aliveVars
<1>1. TcpServerType'
  BY DEF TcpServerIInv, TcpServerType, TcpServerTypeOK, Accepted
<1>2. Accepted'
  BY DEF TcpServerIInv, TcpServerType, Accepted
<1>3. Halting'
  BY DEF TcpServerIInv, TcpServerType, TcpServerTypeOK, Accepted, Halting, HaltedIsEmpty,
     ReaderRight, SocketRight
<1>4. ASSUME NEW n \in ConnIds PROVE ReaderRight(n)'
  BY DEF TcpServerIInv, TcpServerType, TcpServerTypeOK, Accepted, Halting, HaltedIsEmpty,
     ReaderRight
<1>6. ASSUME NEW n \in ConnIds PROVE SocketRight(n)'
  BY DEF TcpServerIInv, TcpServerType, TcpServerTypeOK, Accepted, Halting, HaltedIsEmpty,
     ReaderRight, SocketRight
<1>5. Telling'
  BY DEF TcpServerIInv, TcpServerType, TcpServerTypeOK, Telling, EndToldRight, ReaderRight
<1> QED
  BY <1>1, <1>2, <1>3, <1>4, <1>5, <1>6 DEF TcpServerIInv

\* The thread of a session takes it out of the table.
LEMMA DropSteps ==
  ASSUME TcpServerIInv, NEW id \in ConnIds, DropSession(id)
  PROVE  TcpServerIInv'
<1>1. /\ reader[id] = "leave"
      /\ UNCHANGED <<run, descriptor, link, silent, told, halter>> /\ UNCHANGED acceptVars
  BY DEF DropSession
<1>2. DOMAIN sessions' = DOMAIN sessions \ {id}
  <2>1. CASE id \in DOMAIN sessions
    <3>1. sessions' = Without(sessions, id)
      BY <2>1 DEF DropSession
    <3> QED
      BY <3>1 DEF Without
  <2>2. CASE id \notin DOMAIN sessions
    BY <2>2 DEF DropSession
  <2> QED
    BY <2>1, <2>2
<1>3. \A n \in DOMAIN sessions' : sessions'[n] = sessions[n]
  BY DEF DropSession, Without
<1>4. reader' = [reader EXCEPT ![id] = IF id \in DOMAIN sessions THEN "close known" ELSE "close"]
  BY DEF DropSession
<1>5. ASSUME NEW n \in ConnIds
      PROVE reader'[n] = IF n # id THEN reader[n]
                         ELSE IF id \in DOMAIN sessions THEN "close known" ELSE "close"
  BY <1>4 DEF TcpServerIInv, TcpServerType, TcpServerTypeOK
<1>6. TcpServerTypeOK'
  <2>1. tasks' \subseteq tasks /\ liveness' \subseteq liveness
    BY DEF DropSession
  <2>2. DOMAIN sessions' \subseteq ConnIds
    BY <1>2 DEF TcpServerIInv, TcpServerType, TcpServerTypeOK
  <2> QED
    BY <1>1, <1>4, <2>1, <2>2 DEF TcpServerIInv, TcpServerType, TcpServerTypeOK, acceptVars
<1>7. TcpServerType'
  BY <1>1, <1>2, <1>3, <1>6 DEF TcpServerIInv, TcpServerType, DropSession, acceptVars
<1>8. id \in Int /\ next_conn \in Int
  BY TcpServerAssumption DEF TcpServerAssumption, TcpServerIInv, TcpServerType, ConnIds
<1>9. Accepted' /\ Halting'
  <2>0. ReaderRight(id)
    BY DEF TcpServerIInv
  <2>1. id # next_conn
    BY <1>1, <1>8, <2>0 DEF ReaderRight
  <2>2. ~HaltedIsEmpty \/ serving_tcp \/ halter # "no"
    BY <1>1 DEF HaltedIsEmpty
  <2> QED
    BY <1>1, <1>2, <2>1, <2>2 DEF TcpServerIInv, Accepted, Halting, HaltedIsEmpty, acceptVars
<1>10. Telling'
  BY <1>1, <1>5 DEF TcpServerIInv, Telling, EndToldRight, acceptVars
<1>11. ASSUME NEW n \in ConnIds PROVE ReaderRight(n)'
  BY <1>1, <1>2, <1>5, <1>8 DEF TcpServerIInv, ReaderRight, acceptVars
<1>12. ASSUME NEW n \in ConnIds PROVE SocketRight(n)'
  BY <1>1, <1>2, <1>3, <1>5 DEF TcpServerIInv, SocketRight, acceptVars
<1> QED
  BY <1>7, <1>9, <1>10, <1>11, <1>12 DEF TcpServerIInv

\* A thread closes its socket, which the table does not hold any more.
LEMMA CloseSteps ==
  ASSUME TcpServerIInv, NEW id \in ConnIds, CloseSession(id)
  PROVE  TcpServerIInv'
<1> USE TcpServerAssumption DEF TcpServerAssumption, ConnIds, CloseSession, acceptVars, aliveVars
<1>1. TcpServerType'
  BY DEF TcpServerIInv, TcpServerType, TcpServerTypeOK, Accepted
<1>2. Accepted'
  BY DEF TcpServerIInv, TcpServerType, Accepted
<1>3. Halting'
  BY DEF TcpServerIInv, TcpServerType, TcpServerTypeOK, Accepted, Halting, HaltedIsEmpty,
     ReaderRight, SocketRight
<1>4. ASSUME NEW n \in ConnIds PROVE ReaderRight(n)'
  BY DEF TcpServerIInv, TcpServerType, TcpServerTypeOK, Accepted, Halting, HaltedIsEmpty,
     ReaderRight
<1>6. ASSUME NEW n \in ConnIds PROVE SocketRight(n)'
  BY DEF TcpServerIInv, TcpServerType, TcpServerTypeOK, Accepted, Halting, HaltedIsEmpty,
     ReaderRight, SocketRight
<1>5. Telling'
  BY DEF TcpServerIInv, TcpServerType, TcpServerTypeOK, Telling, EndToldRight, ReaderRight
<1> QED
  BY <1>1, <1>2, <1>3, <1>4, <1>5, <1>6 DEF TcpServerIInv

\* The end is told.
LEMMA TellSteps ==
  ASSUME TcpServerIInv, NEW id \in ConnIds, TellEnd(id)
  PROVE  TcpServerIInv'
<1> USE TcpServerAssumption DEF TcpServerAssumption, ConnIds, acceptVars, aliveVars
<1>1. TcpServerType'
  BY DEF TellEnd, TcpServerIInv, TcpServerType, TcpServerTypeOK
<1>2. Accepted' /\ Halting'
  BY DEF TellEnd, TcpServerIInv, TcpServerType, TcpServerTypeOK, Accepted, Halting, HaltedIsEmpty
<1>3. ASSUME NEW n \in ConnIds PROVE ReaderRight(n)'
  BY DEF TellEnd, TcpServerIInv, TcpServerType, TcpServerTypeOK, ReaderRight
<1>4. ASSUME NEW n \in ConnIds PROVE SocketRight(n)'
  BY DEF TellEnd, TcpServerIInv, TcpServerType, TcpServerTypeOK, SocketRight
<1> HIDE DEF ConnIds
<1>5. Telling'
  <2>1. told[id] = 0 /\ told \in [ConnIds -> Nat]
    BY DEF TcpServerIInv, Telling, EndToldRight, TellEnd
  <2>2. told' \in [ConnIds -> Nat]
    BY <2>1 DEF TellEnd
  <2>3. ASSUME NEW n \in ConnIds PROVE EndToldRight(n)'
    <3>1. reader'[n] = IF n = id THEN "gone" ELSE reader[n]
      BY DEF TcpServerIInv, TcpServerType, TcpServerTypeOK, TellEnd
    <3>2. told'[n] = IF n = id THEN 1 ELSE told[n]
      BY <2>1 DEF TellEnd
    <3> QED
      BY <3>1, <3>2 DEF TcpServerIInv, Telling, EndToldRight, TellEnd
  <2> QED
    BY <2>2, <2>3 DEF Telling
<1> QED
  BY <1>1, <1>2, <1>3, <1>4, <1>5 DEF TcpServerIInv

\* The peer ends: no state of ours changes but the link.
LEMMA PeerEndsSteps ==
  ASSUME TcpServerIInv, NEW id \in ConnIds, PeerEnds(id)
  PROVE  TcpServerIInv'
<1> USE TcpServerAssumption DEF TcpServerAssumption, ConnIds, PeerEnds, acceptVars, aliveVars
<1>1. TcpServerType'
  BY DEF TcpServerIInv, TcpServerType, TcpServerTypeOK, Accepted
<1>2. Accepted'
  BY DEF TcpServerIInv, TcpServerType, Accepted
<1>3. Halting'
  BY DEF TcpServerIInv, TcpServerType, TcpServerTypeOK, Accepted, Halting, HaltedIsEmpty,
     ReaderRight, SocketRight
<1>4. ASSUME NEW n \in ConnIds PROVE ReaderRight(n)'
  BY DEF TcpServerIInv, TcpServerType, TcpServerTypeOK, Accepted, Halting, HaltedIsEmpty,
     ReaderRight
<1>6. ASSUME NEW n \in ConnIds PROVE SocketRight(n)'
  BY DEF TcpServerIInv, TcpServerType, TcpServerTypeOK, Accepted, Halting, HaltedIsEmpty,
     ReaderRight, SocketRight
<1>5. Telling'
  BY DEF TcpServerIInv, TcpServerType, TcpServerTypeOK, Telling, EndToldRight, ReaderRight
<1> QED
  BY <1>1, <1>2, <1>3, <1>4, <1>5, <1>6 DEF TcpServerIInv

\* A peer falls silent.
LEMMA SilentSteps ==
  ASSUME TcpServerIInv, NEW id \in ConnIds, PeerSilent(id)
  PROVE  TcpServerIInv'
<1> USE TcpServerAssumption DEF TcpServerAssumption, ConnIds, PeerSilent, acceptVars, aliveVars
<1>1. TcpServerType'
  BY DEF TcpServerIInv, TcpServerType, TcpServerTypeOK, Accepted
<1>2. Accepted'
  BY DEF TcpServerIInv, TcpServerType, Accepted
<1>3. Halting'
  BY DEF TcpServerIInv, TcpServerType, TcpServerTypeOK, Accepted, Halting, HaltedIsEmpty,
     ReaderRight, SocketRight
<1>4. ASSUME NEW n \in ConnIds PROVE ReaderRight(n)'
  BY DEF TcpServerIInv, TcpServerType, TcpServerTypeOK, Accepted, Halting, HaltedIsEmpty,
     ReaderRight
<1>6. ASSUME NEW n \in ConnIds PROVE SocketRight(n)'
  BY DEF TcpServerIInv, TcpServerType, TcpServerTypeOK, Accepted, Halting, HaltedIsEmpty,
     ReaderRight, SocketRight
<1>5. Telling'
  BY DEF TcpServerIInv, TcpServerType, TcpServerTypeOK, Telling, EndToldRight, ReaderRight
<1> QED
  BY <1>1, <1>2, <1>3, <1>4, <1>5, <1>6 DEF TcpServerIInv

\* disconnect(): the table forgets the descriptor, which stays open.
LEMMA DisconnectSteps ==
  ASSUME TcpServerIInv, NEW id \in ConnIds, Disconnect(id)
  PROVE  TcpServerIInv'
<1> USE TcpServerAssumption DEF TcpServerAssumption, ConnIds, Disconnect, acceptVars, aliveVars
<1>1. TcpServerType'
  BY DEF TcpServerIInv, TcpServerType, TcpServerTypeOK, Accepted
<1>2. Accepted'
  BY DEF TcpServerIInv, TcpServerType, Accepted
<1>3. Halting'
  BY DEF TcpServerIInv, TcpServerType, TcpServerTypeOK, Accepted, Halting, HaltedIsEmpty,
     ReaderRight, SocketRight
<1>4. ASSUME NEW n \in ConnIds PROVE ReaderRight(n)'
  BY DEF TcpServerIInv, TcpServerType, TcpServerTypeOK, Accepted, Halting, HaltedIsEmpty,
     ReaderRight
<1>6. ASSUME NEW n \in ConnIds PROVE SocketRight(n)'
  BY DEF TcpServerIInv, TcpServerType, TcpServerTypeOK, Accepted, Halting, HaltedIsEmpty,
     ReaderRight, SocketRight
<1>5. Telling'
  BY DEF TcpServerIInv, TcpServerType, TcpServerTypeOK, Telling, EndToldRight, ReaderRight
<1> QED
  BY <1>1, <1>2, <1>3, <1>4, <1>5, <1>6 DEF TcpServerIInv

\* A tick of the wheel: the table and the threads stay as they are.
LEMMA WheelSteps ==
  ASSUME TcpServerIInv, NEW t \in tasks, WheelCheck(t)
  PROVE  TcpServerIInv'
<1> USE TcpServerAssumption DEF TcpServerAssumption, ConnIds, WheelCheck, acceptVars, aliveVars
<1>1. TcpServerType'
  BY DEF TcpServerIInv, TcpServerType, TcpServerTypeOK, Accepted
<1>2. Accepted'
  BY DEF TcpServerIInv, TcpServerType, Accepted
<1>3. Halting'
  BY DEF TcpServerIInv, TcpServerType, TcpServerTypeOK, Accepted, Halting, HaltedIsEmpty,
     ReaderRight, SocketRight
<1>4. ASSUME NEW n \in ConnIds PROVE ReaderRight(n)'
  BY DEF TcpServerIInv, TcpServerType, TcpServerTypeOK, Accepted, Halting, HaltedIsEmpty,
     ReaderRight
<1>6. ASSUME NEW n \in ConnIds PROVE SocketRight(n)'
  BY DEF TcpServerIInv, TcpServerType, TcpServerTypeOK, Accepted, Halting, HaltedIsEmpty,
     ReaderRight, SocketRight
<1>5. Telling'
  BY DEF TcpServerIInv, TcpServerType, TcpServerTypeOK, Telling, EndToldRight, ReaderRight
<1> QED
  BY <1>1, <1>2, <1>3, <1>4, <1>5, <1>6 DEF TcpServerIInv

\* stop(), its flag: from here on an end need not be told.
LEMMA FlagSteps ==
  ASSUME TcpServerIInv, HaltFlag
  PROVE  TcpServerIInv'
<1> USE TcpServerAssumption DEF TcpServerAssumption, ConnIds, HaltFlag, acceptVars, aliveVars
<1>1. TcpServerType'
  BY DEF TcpServerIInv, TcpServerType, TcpServerTypeOK, Accepted
<1>2. Accepted'
  BY DEF TcpServerIInv, TcpServerType, Accepted
<1>3. Halting'
  BY DEF TcpServerIInv, TcpServerType, TcpServerTypeOK, Accepted, Halting, HaltedIsEmpty,
     ReaderRight, SocketRight
<1>4. ASSUME NEW n \in ConnIds PROVE ReaderRight(n)'
  BY DEF TcpServerIInv, TcpServerType, TcpServerTypeOK, Accepted, Halting, HaltedIsEmpty,
     ReaderRight
<1>6. ASSUME NEW n \in ConnIds PROVE SocketRight(n)'
  BY DEF TcpServerIInv, TcpServerType, TcpServerTypeOK, Accepted, Halting, HaltedIsEmpty,
     ReaderRight, SocketRight
<1>5. Telling'
  BY DEF TcpServerIInv, TcpServerType, TcpServerTypeOK, Telling, EndToldRight, ReaderRight
<1> QED
  BY <1>1, <1>2, <1>3, <1>4, <1>5, <1>6 DEF TcpServerIInv

\* stop(), its sweep: what is closed is no longer valid in the table.
LEMMA SweepSteps ==
  ASSUME TcpServerIInv, HaltSweep
  PROVE  TcpServerIInv'
<1> USE TcpServerAssumption DEF TcpServerAssumption, ConnIds, HaltSweep, acceptVars, aliveVars
<1>1. TcpServerType'
  BY DEF TcpServerIInv, TcpServerType, TcpServerTypeOK, Accepted
<1>2. Accepted'
  BY DEF TcpServerIInv, TcpServerType, Accepted
<1>3. Halting'
  BY DEF TcpServerIInv, TcpServerType, TcpServerTypeOK, Accepted, Halting, HaltedIsEmpty,
     ReaderRight, SocketRight
<1>4. ASSUME NEW n \in ConnIds PROVE ReaderRight(n)'
  BY DEF TcpServerIInv, TcpServerType, TcpServerTypeOK, Accepted, Halting, HaltedIsEmpty,
     ReaderRight
<1>6. ASSUME NEW n \in ConnIds PROVE SocketRight(n)'
  BY DEF TcpServerIInv, TcpServerType, TcpServerTypeOK, Accepted, Halting, HaltedIsEmpty,
     ReaderRight, SocketRight
<1>5. Telling'
  BY DEF TcpServerIInv, TcpServerType, TcpServerTypeOK, Telling, EndToldRight, ReaderRight
<1> QED
  BY <1>1, <1>2, <1>3, <1>4, <1>5, <1>6 DEF TcpServerIInv

\* stop() forgets the sessions.
LEMMA ClearSteps ==
  ASSUME TcpServerIInv, HaltClear
  PROVE  TcpServerIInv'
<1>1. /\ DOMAIN sessions' = {} /\ halter = "clear" /\ accepter = "gone" /\ halter' = "join"
      /\ UNCHANGED <<reader, descriptor, told, serving_tcp, next_conn, accepter>>
  BY DEF HaltClear, acceptVars
<1>2. TcpServerTypeOK'
  BY <1>1 DEF TcpServerIInv, TcpServerType, TcpServerTypeOK, HaltClear, aliveVars
<1>3. TcpServerType'
  BY <1>1, <1>2 DEF TcpServerIInv, TcpServerType, HaltClear, acceptVars
<1>4. ~serving_tcp
  BY <1>1 DEF TcpServerIInv, Halting
<1>5. Accepted' /\ Halting'
  BY <1>1, <1>4 DEF Accepted, Halting, HaltedIsEmpty
<1>6. Telling'
  BY <1>1 DEF TcpServerIInv, Telling, EndToldRight
<1>7. ASSUME NEW n \in ConnIds PROVE ReaderRight(n)' /\ SocketRight(n)'
  BY <1>1, <1>4 DEF TcpServerIInv, ReaderRight, SocketRight
<1> QED
  BY <1>3, <1>5, <1>6, <1>7 DEF TcpServerIInv

\* stop() returns: every thread has ended, and with it every descriptor is closed.
LEMMA JoinedSteps ==
  ASSUME TcpServerIInv, HaltJoined
  PROVE  TcpServerIInv'
<1> USE TcpServerAssumption DEF TcpServerAssumption, ConnIds, HaltJoined, acceptVars, aliveVars
<1>1. TcpServerType'
  BY DEF TcpServerIInv, TcpServerType, TcpServerTypeOK, Accepted
<1>2. Accepted'
  BY DEF TcpServerIInv, TcpServerType, Accepted
<1>3. Halting'
  BY DEF TcpServerIInv, TcpServerType, TcpServerTypeOK, Accepted, Halting, HaltedIsEmpty,
     ReaderRight, SocketRight
<1>4. ASSUME NEW n \in ConnIds PROVE ReaderRight(n)'
  BY DEF TcpServerIInv, TcpServerType, TcpServerTypeOK, Accepted, Halting, HaltedIsEmpty,
     ReaderRight
<1>6. ASSUME NEW n \in ConnIds PROVE SocketRight(n)'
  BY DEF TcpServerIInv, TcpServerType, TcpServerTypeOK, Accepted, Halting, HaltedIsEmpty,
     ReaderRight, SocketRight
<1>5. Telling'
  BY DEF TcpServerIInv, TcpServerType, TcpServerTypeOK, Telling, EndToldRight, ReaderRight
<1> QED
  BY <1>1, <1>2, <1>3, <1>4, <1>5, <1>6 DEF TcpServerIInv

\* The invariant of the server holds for any number of sessions and starts.
THEOREM TcpServerInvariant == TcpServerSpec => []TcpServerIInv
<1>1. ASSUME TcpServerInit PROVE TcpServerIInv
  <2>1. DOMAIN sessions = {}
    BY <1>1 DEF TcpServerInit
  <2>2. TcpServerType
    <3>1. TcpServerTypeOK
      BY <1>1, <2>1 DEF TcpServerInit, TcpServerTypeOK
    <3>2. run = 0 /\ next_conn = 1
          /\ wheel_liveness \in BOOLEAN /\ serving_tcp \in BOOLEAN /\ listening \in BOOLEAN
      BY <1>1 DEF TcpServerInit
    <3> QED
      BY <2>1, <3>1, <3>2, TcpServerAssumption DEF TcpServerAssumption, TcpServerType
  <2>3. Accepted /\ Halting /\ Telling /\ \A id \in ConnIds : ReaderRight(id) /\ SocketRight(id)
    BY <1>1, <2>1 DEF TcpServerInit, Accepted, Halting, HaltedIsEmpty, ReaderRight, SocketRight,
       Telling, EndToldRight
  <2> QED
    BY <2>2, <2>3 DEF TcpServerIInv
<1>2. ASSUME TcpServerIInv, [TcpServerNext]_tcpServerVars PROVE TcpServerIInv'
  <2>1. CASE UNCHANGED tcpServerVars
    BY <1>2, <2>1 DEF tcpServerVars, acceptVars, aliveVars, TcpServerIInv, TcpServerType,
       TcpServerTypeOK, Accepted,
       Halting, HaltedIsEmpty, ReaderRight, SocketRight, Telling, EndToldRight
  <2> QED
    BY <1>2, <2>1, ServerStarts, AcceptOneSteps, AnnounceSteps, AcceptEndsSteps, RegisterSteps,
       LaunchSteps, ReceiveSteps, MessageSteps, EndLoopSteps, DropSteps, CloseSteps, TellSteps,
       PeerEndsSteps, SilentSteps, DisconnectSteps, WheelSteps, FlagSteps, SweepSteps, ClearSteps,
       JoinedSteps
       DEF TcpServerNext, Accepting, SessionStep, Halt
<1> QED
  BY <1>1, <1>2, PTL DEF TcpServerSpec
-----------------------------------------------------------------------------
(***************************************************************************)
(* The TCP client, for any number of connections made.  While the user's   *)
(* thread connects nobody else may be in a session (Connecting), and what  *)
(* calls itself connected is the last connection made (ConnectedLast).     *)
(***************************************************************************)

TcpClientType ==
  /\ TcpClientTypeOK
  /\ connected \in BOOLEAN /\ destroyed \in BOOLEAN
  /\ losses \in [Lines -> Nat] /\ intent \in {"connect", "close", "destroy"}

\* The user's thread: a connect has a number left for its connection, and from
\* the join of the last session on no session runs until it starts the next.
Connecting ==
  /\ actor["user"] \in {"close", "join"} /\ intent = "connect" => lines < MaxLines
  /\ actor["user"] = "resolve" => intent = "connect" /\ lines < MaxLines
  /\ actor["user"] \in {"join", "resolve"} => fd = 0 /\ ~connected
  /\ actor["user"] \in {"resolve", "spawn"} => \A n \in Lines : ~Alive(n)
  /\ actor["user"] = "spawn" => lines \in Lines /\ session[lines] = "none" /\ intent = "connect"
  /\ actor["wheel"] # "spawn"
  /\ destroyed => actor["user"] = "idle"

\* The connection in use is the last one made, and its session has not left it.
ConnectedLast ==
  connected => fd = lines /\ fd # 0 /\ (actor["user"] = "spawn" \/ session[fd] \in {"run", "leave"})

\* A session has a number that was given out, and tells of a loss last.
LineRight(n) ==
  /\ n > lines => session[n] = "none"
  /\ Alive(n) => worker = n
  /\ losses[n] <= 1 /\ (losses[n] # 0 => session[n] = "gone")

TcpClientIInv ==
  TcpClientType /\ Connecting /\ ConnectedLast /\ ClosedIsQuiet /\ \A n \in Lines : LineRight(n)

\* The user calls connect(), close() or the destructor.
LEMMA UserSteps ==
  ASSUME TcpClientIInv, UserCalls
  PROVE  TcpClientIInv'
<1> USE TcpClientAssumption DEF TcpClientAssumption, Lines, UserCalls, MoveTo, lineVars, threadVars
<1>1. TcpClientTypeOK'
  BY DEF TcpClientIInv, TcpClientType, TcpClientTypeOK, Connecting
<1>2. TcpClientType'
  BY <1>1 DEF TcpClientIInv, TcpClientType, TcpClientTypeOK, Connecting
<1>3. Connecting'
  BY DEF TcpClientIInv, TcpClientType, TcpClientTypeOK, Connecting, LineRight, Alive
<1>4. ConnectedLast'
  BY DEF TcpClientIInv, TcpClientType, TcpClientTypeOK, Connecting, ConnectedLast, Alive, LineRight
<1>5. ClosedIsQuiet'
  BY DEF TcpClientIInv, TcpClientType, TcpClientTypeOK, Connecting, ClosedIsQuiet, LineRight, Alive
<1>6. ASSUME NEW m \in Lines PROVE LineRight(m)'
  BY DEF TcpClientIInv, TcpClientType, TcpClientTypeOK, Connecting, LineRight, Alive
<1> QED
  BY <1>2, <1>3, <1>4, <1>5, <1>6 DEF TcpClientIInv

\* close(), its first half: nothing is connected any more.
LEMMA CloseLineSteps ==
  ASSUME TcpClientIInv, NEW a \in {"user", "wheel"}, CloseLine(a)
  PROVE  TcpClientIInv'
<1> USE TcpClientAssumption DEF TcpClientAssumption, Lines, CloseLine, MoveTo, lineVars, threadVars
<1>1. TcpClientTypeOK'
  BY DEF TcpClientIInv, TcpClientType, TcpClientTypeOK, Connecting
<1>2. TcpClientType'
  BY <1>1 DEF TcpClientIInv, TcpClientType, TcpClientTypeOK, Connecting
<1>3. Connecting'
  BY DEF TcpClientIInv, TcpClientType, TcpClientTypeOK, Connecting, LineRight, Alive
<1>4. ConnectedLast'
  BY DEF TcpClientIInv, TcpClientType, TcpClientTypeOK, Connecting, ConnectedLast, Alive, LineRight
<1>5. ClosedIsQuiet'
  BY DEF TcpClientIInv, TcpClientType, TcpClientTypeOK, Connecting, ClosedIsQuiet, LineRight, Alive
<1>6. ASSUME NEW m \in Lines PROVE LineRight(m)'
  BY DEF TcpClientIInv, TcpClientType, TcpClientTypeOK, Connecting, LineRight, Alive
<1> QED
  BY <1>2, <1>3, <1>4, <1>5, <1>6 DEF TcpClientIInv

\* close(), its second half: nobody is in a session after the join.
LEMMA JoinSteps ==
  ASSUME TcpClientIInv, NEW a \in {"user", "wheel"}, JoinWorker(a)
  PROVE  TcpClientIInv'
<1> USE TcpClientAssumption DEF TcpClientAssumption, Lines, JoinWorker, MoveTo, lineVars, threadVars
<1>1. TcpClientTypeOK'
  BY DEF TcpClientIInv, TcpClientType, TcpClientTypeOK, Connecting
<1>2. TcpClientType'
  BY <1>1 DEF TcpClientIInv, TcpClientType, TcpClientTypeOK, Connecting
<1>3. Connecting'
  BY DEF TcpClientIInv, TcpClientType, TcpClientTypeOK, Connecting, LineRight, Alive
<1>4. ConnectedLast'
  BY DEF TcpClientIInv, TcpClientType, TcpClientTypeOK, Connecting, ConnectedLast, Alive, LineRight
<1>5. ClosedIsQuiet'
  BY DEF TcpClientIInv, TcpClientType, TcpClientTypeOK, Connecting, ClosedIsQuiet, LineRight, Alive
<1>6. ASSUME NEW m \in Lines PROVE LineRight(m)'
  BY DEF TcpClientIInv, TcpClientType, TcpClientTypeOK, Connecting, LineRight, Alive
<1> QED
  BY <1>2, <1>3, <1>4, <1>5, <1>6 DEF TcpClientIInv

\* A connect that fails leaves the client as close() did.
LEMMA FailSteps ==
  ASSUME TcpClientIInv, NEW a \in {"user", "wheel"}, ConnectFails(a)
  PROVE  TcpClientIInv'
<1> USE TcpClientAssumption DEF TcpClientAssumption, Lines, ConnectFails, MoveTo, lineVars,
    threadVars
<1>1. TcpClientTypeOK'
  BY DEF TcpClientIInv, TcpClientType, TcpClientTypeOK, Connecting
<1>2. TcpClientType'
  BY <1>1 DEF TcpClientIInv, TcpClientType, TcpClientTypeOK, Connecting
<1>3. Connecting'
  BY DEF TcpClientIInv, TcpClientType, TcpClientTypeOK, Connecting, LineRight, Alive
<1>4. ConnectedLast'
  BY DEF TcpClientIInv, TcpClientType, TcpClientTypeOK, Connecting, ConnectedLast, Alive, LineRight
<1>5. ClosedIsQuiet'
  BY DEF TcpClientIInv, TcpClientType, TcpClientTypeOK, Connecting, ClosedIsQuiet, LineRight, Alive
<1>6. ASSUME NEW m \in Lines PROVE LineRight(m)'
  BY DEF TcpClientIInv, TcpClientType, TcpClientTypeOK, Connecting, LineRight, Alive
<1> QED
  BY <1>2, <1>3, <1>4, <1>5, <1>6 DEF TcpClientIInv

\* A connect that succeeds finds no session.
LEMMA ConnectSteps ==
  ASSUME TcpClientIInv, ConnectOk
  PROVE  TcpClientIInv'
<1> USE TcpClientAssumption DEF TcpClientAssumption, Lines, ConnectOk, connect_with_timeout,
    MoveTo, lineVars, threadVars
<1>1. TcpClientTypeOK'
  BY DEF TcpClientIInv, TcpClientType, TcpClientTypeOK, Connecting
<1>2. TcpClientType'
  BY <1>1 DEF TcpClientIInv, TcpClientType, TcpClientTypeOK, Connecting
<1>3. Connecting'
  BY DEF TcpClientIInv, TcpClientType, TcpClientTypeOK, Connecting, LineRight, Alive
<1>4. ConnectedLast'
  BY DEF TcpClientIInv, TcpClientType, TcpClientTypeOK, Connecting, ConnectedLast, Alive, LineRight
<1>5. ClosedIsQuiet'
  BY DEF TcpClientIInv, TcpClientType, TcpClientTypeOK, Connecting, ClosedIsQuiet, LineRight, Alive
<1>6. ASSUME NEW m \in Lines PROVE LineRight(m)'
  BY DEF TcpClientIInv, TcpClientType, TcpClientTypeOK, Connecting, LineRight, Alive
<1> QED
  BY <1>2, <1>3, <1>4, <1>5, <1>6 DEF TcpClientIInv

\* The session of the last connection starts.
LEMMA SpawnSteps ==
  ASSUME TcpClientIInv, SpawnWorker
  PROVE  TcpClientIInv'
<1> USE TcpClientAssumption DEF TcpClientAssumption, Lines, SpawnWorker, MoveTo, lineVars,
    threadVars
<1>1. TcpClientTypeOK'
  BY DEF TcpClientIInv, TcpClientType, TcpClientTypeOK, Connecting
<1>2. TcpClientType'
  BY <1>1 DEF TcpClientIInv, TcpClientType, TcpClientTypeOK, Connecting
<1>3. Connecting'
  BY DEF TcpClientIInv, TcpClientType, TcpClientTypeOK, Connecting, LineRight, Alive
<1>4. ConnectedLast'
  BY DEF TcpClientIInv, TcpClientType, TcpClientTypeOK, Connecting, ConnectedLast, Alive, LineRight
<1>5. ClosedIsQuiet'
  BY DEF TcpClientIInv, TcpClientType, TcpClientTypeOK, Connecting, ClosedIsQuiet, LineRight, Alive
<1>6. ASSUME NEW m \in Lines PROVE LineRight(m)'
  BY DEF TcpClientIInv, TcpClientType, TcpClientTypeOK, Connecting, LineRight, Alive
<1> QED
  BY <1>2, <1>3, <1>4, <1>5, <1>6 DEF TcpClientIInv

\* A session stops reading.
LEMMA EndSteps ==
  ASSUME TcpClientIInv, NEW n \in Lines, SessionEnds(n)
  PROVE  TcpClientIInv'
<1> USE TcpClientAssumption DEF TcpClientAssumption, Lines, SessionEnds, MoveTo, lineVars,
    threadVars
<1>1. TcpClientTypeOK'
  BY DEF TcpClientIInv, TcpClientType, TcpClientTypeOK, Connecting
<1>2. TcpClientType'
  BY <1>1 DEF TcpClientIInv, TcpClientType, TcpClientTypeOK, Connecting
<1>3. Connecting'
  BY DEF TcpClientIInv, TcpClientType, TcpClientTypeOK, Connecting, LineRight, Alive
<1>4. ConnectedLast'
  BY DEF TcpClientIInv, TcpClientType, TcpClientTypeOK, Connecting, ConnectedLast, Alive, LineRight
<1>5. ClosedIsQuiet'
  BY DEF TcpClientIInv, TcpClientType, TcpClientTypeOK, Connecting, ClosedIsQuiet, LineRight, Alive
<1>6. ASSUME NEW m \in Lines PROVE LineRight(m)'
  BY DEF TcpClientIInv, TcpClientType, TcpClientTypeOK, Connecting, LineRight, Alive
<1> QED
  BY <1>2, <1>3, <1>4, <1>5, <1>6 DEF TcpClientIInv

\* A session closes its socket, which is the one in use or already forgotten.
LEMMA LeaveSteps ==
  ASSUME TcpClientIInv, NEW n \in Lines, SessionLeaves(n)
  PROVE  TcpClientIInv'
<1> USE TcpClientAssumption DEF TcpClientAssumption, Lines, SessionLeaves, MoveTo, lineVars,
    threadVars
<1>1. TcpClientTypeOK'
  BY DEF TcpClientIInv, TcpClientType, TcpClientTypeOK, Connecting
<1>2. TcpClientType'
  BY <1>1 DEF TcpClientIInv, TcpClientType, TcpClientTypeOK, Connecting
<1>3. Connecting'
  BY DEF TcpClientIInv, TcpClientType, TcpClientTypeOK, Connecting, LineRight, Alive
<1>4. ConnectedLast'
  BY DEF TcpClientIInv, TcpClientType, TcpClientTypeOK, Connecting, ConnectedLast, Alive, LineRight
<1>5. ClosedIsQuiet'
  BY DEF TcpClientIInv, TcpClientType, TcpClientTypeOK, Connecting, ClosedIsQuiet, LineRight, Alive
<1>6. ASSUME NEW m \in Lines PROVE LineRight(m)'
  BY DEF TcpClientIInv, TcpClientType, TcpClientTypeOK, Connecting, LineRight, Alive
<1> QED
  BY <1>2, <1>3, <1>4, <1>5, <1>6 DEF TcpClientIInv

\* A session asks whether it was stopped.
LEMMA JudgeSteps ==
  ASSUME TcpClientIInv, NEW n \in Lines, SessionJudges(n)
  PROVE  TcpClientIInv'
<1> USE TcpClientAssumption DEF TcpClientAssumption, Lines, SessionJudges, MoveTo, lineVars,
    threadVars
<1>1. TcpClientTypeOK'
  BY DEF TcpClientIInv, TcpClientType, TcpClientTypeOK, Connecting
<1>2. TcpClientType'
  BY <1>1 DEF TcpClientIInv, TcpClientType, TcpClientTypeOK, Connecting
<1>3. Connecting'
  BY DEF TcpClientIInv, TcpClientType, TcpClientTypeOK, Connecting, LineRight, Alive
<1>4. ConnectedLast'
  BY DEF TcpClientIInv, TcpClientType, TcpClientTypeOK, Connecting, ConnectedLast, Alive, LineRight
<1>5. ClosedIsQuiet'
  BY DEF TcpClientIInv, TcpClientType, TcpClientTypeOK, Connecting, ClosedIsQuiet, LineRight, Alive
<1>6. ASSUME NEW m \in Lines PROVE LineRight(m)'
  BY DEF TcpClientIInv, TcpClientType, TcpClientTypeOK, Connecting, LineRight, Alive
<1> QED
  BY <1>2, <1>3, <1>4, <1>5, <1>6 DEF TcpClientIInv

\* A session tells of its loss, as its last act.
LEMMA LossSteps ==
  ASSUME TcpClientIInv, NEW n \in Lines, SessionTells(n)
  PROVE  TcpClientIInv'
<1> USE TcpClientAssumption DEF TcpClientAssumption, Lines, SessionTells, MoveTo, lineVars,
    threadVars
<1>1. TcpClientTypeOK'
  BY DEF TcpClientIInv, TcpClientType, TcpClientTypeOK, Connecting
<1>2. TcpClientType'
  BY <1>1 DEF TcpClientIInv, TcpClientType, TcpClientTypeOK, Connecting
<1>3. Connecting'
  BY DEF TcpClientIInv, TcpClientType, TcpClientTypeOK, Connecting, LineRight, Alive
<1>4. ConnectedLast'
  BY DEF TcpClientIInv, TcpClientType, TcpClientTypeOK, Connecting, ConnectedLast, Alive, LineRight
<1>5. ClosedIsQuiet'
  BY DEF TcpClientIInv, TcpClientType, TcpClientTypeOK, Connecting, ClosedIsQuiet, LineRight, Alive
<1>6. ASSUME NEW m \in Lines PROVE LineRight(m)'
  BY DEF TcpClientIInv, TcpClientType, TcpClientTypeOK, Connecting, LineRight, Alive
<1> QED
  BY <1>2, <1>3, <1>4, <1>5, <1>6 DEF TcpClientIInv

\* The reconnect task starts with close().
LEMMA ReconnectSteps ==
  ASSUME TcpClientIInv, ReconnectDue
  PROVE  TcpClientIInv'
<1> USE TcpClientAssumption DEF TcpClientAssumption, Lines, ReconnectDue, MoveTo, lineVars,
    threadVars
<1>1. TcpClientTypeOK'
  BY DEF TcpClientIInv, TcpClientType, TcpClientTypeOK, Connecting
<1>2. TcpClientType'
  BY <1>1 DEF TcpClientIInv, TcpClientType, TcpClientTypeOK, Connecting
<1>3. Connecting'
  BY DEF TcpClientIInv, TcpClientType, TcpClientTypeOK, Connecting, LineRight, Alive
<1>4. ConnectedLast'
  BY DEF TcpClientIInv, TcpClientType, TcpClientTypeOK, Connecting, ConnectedLast, Alive, LineRight
<1>5. ClosedIsQuiet'
  BY DEF TcpClientIInv, TcpClientType, TcpClientTypeOK, Connecting, ClosedIsQuiet, LineRight, Alive
<1>6. ASSUME NEW m \in Lines PROVE LineRight(m)'
  BY DEF TcpClientIInv, TcpClientType, TcpClientTypeOK, Connecting, LineRight, Alive
<1> QED
  BY <1>2, <1>3, <1>4, <1>5, <1>6 DEF TcpClientIInv

\* A connection breaks.
LEMMA BreakSteps ==
  ASSUME TcpClientIInv, LineBreaks
  PROVE  TcpClientIInv'
<1> USE TcpClientAssumption DEF TcpClientAssumption, Lines, LineBreaks, MoveTo, lineVars, threadVars
<1>1. TcpClientTypeOK'
  BY DEF TcpClientIInv, TcpClientType, TcpClientTypeOK, Connecting
<1>2. TcpClientType'
  BY <1>1 DEF TcpClientIInv, TcpClientType, TcpClientTypeOK, Connecting
<1>3. Connecting'
  BY DEF TcpClientIInv, TcpClientType, TcpClientTypeOK, Connecting, LineRight, Alive
<1>4. ConnectedLast'
  BY DEF TcpClientIInv, TcpClientType, TcpClientTypeOK, Connecting, ConnectedLast, Alive, LineRight
<1>5. ClosedIsQuiet'
  BY DEF TcpClientIInv, TcpClientType, TcpClientTypeOK, Connecting, ClosedIsQuiet, LineRight, Alive
<1>6. ASSUME NEW m \in Lines PROVE LineRight(m)'
  BY DEF TcpClientIInv, TcpClientType, TcpClientTypeOK, Connecting, LineRight, Alive
<1> QED
  BY <1>2, <1>3, <1>4, <1>5, <1>6 DEF TcpClientIInv

\* The server comes or goes.
LEMMA ServerSteps ==
  ASSUME TcpClientIInv, ServerChanges
  PROVE  TcpClientIInv'
<1> USE TcpClientAssumption DEF TcpClientAssumption, Lines, ServerChanges, MoveTo, lineVars,
    threadVars
<1>1. TcpClientTypeOK'
  BY DEF TcpClientIInv, TcpClientType, TcpClientTypeOK, Connecting
<1>2. TcpClientType'
  BY <1>1 DEF TcpClientIInv, TcpClientType, TcpClientTypeOK, Connecting
<1>3. Connecting'
  BY DEF TcpClientIInv, TcpClientType, TcpClientTypeOK, Connecting, LineRight, Alive
<1>4. ConnectedLast'
  BY DEF TcpClientIInv, TcpClientType, TcpClientTypeOK, Connecting, ConnectedLast, Alive, LineRight
<1>5. ClosedIsQuiet'
  BY DEF TcpClientIInv, TcpClientType, TcpClientTypeOK, Connecting, ClosedIsQuiet, LineRight, Alive
<1>6. ASSUME NEW m \in Lines PROVE LineRight(m)'
  BY DEF TcpClientIInv, TcpClientType, TcpClientTypeOK, Connecting, LineRight, Alive
<1> QED
  BY <1>2, <1>3, <1>4, <1>5, <1>6 DEF TcpClientIInv

\* The invariant of the client holds however many connections are made.
THEOREM TcpClientInvariant == TcpClientSpec => []TcpClientIInv
<1>1. ASSUME TcpClientInit PROVE TcpClientIInv
  <2>1. TcpClientType
    <3>1. lines = 0 /\ fd = 0 /\ worker = 0 /\ 0 \in 0..MaxLines
      BY <1>1, TcpClientAssumption DEF TcpClientInit, TcpClientAssumption
    <3>2. /\ session \in [Lines -> {"none", "run", "leave", "judge", "tell", "gone"}]
          /\ losses \in [Lines -> Nat]
      BY <1>1 DEF TcpClientInit
    <3>3. actor \in [{"user", "wheel"} -> {"idle", "close", "join", "resolve", "spawn"}]
      BY <1>1 DEF TcpClientInit
    <3>4. connected \in BOOLEAN /\ destroyed \in BOOLEAN /\ intent \in {"connect", "close",
          "destroy"}
      BY <1>1 DEF TcpClientInit
    <3> QED
      BY <3>1, <3>2, <3>3, <3>4 DEF TcpClientType, TcpClientTypeOK
  <2>2. Connecting /\ ConnectedLast
    BY <1>1 DEF TcpClientInit, Connecting, ConnectedLast
  <2>3. ClosedIsQuiet
    BY <1>1 DEF TcpClientInit, ClosedIsQuiet, Alive
  <2>4. ASSUME NEW n \in Lines PROVE LineRight(n)
    BY <1>1 DEF TcpClientInit, LineRight, Alive
  <2> QED
    BY <2>1, <2>2, <2>3, <2>4 DEF TcpClientIInv
<1>2. ASSUME TcpClientIInv, [TcpClientNext]_tcpClientVars PROVE TcpClientIInv'
  <2>1. CASE UNCHANGED tcpClientVars
    BY <1>2, <2>1 DEF tcpClientVars, lineVars, threadVars, TcpClientIInv, TcpClientType,
       TcpClientTypeOK,
       Connecting, ConnectedLast, ClosedIsQuiet, LineRight, Alive
  <2> QED
    BY <1>2, <2>1, UserSteps, CloseLineSteps, JoinSteps, FailSteps, ConnectSteps, SpawnSteps,
       EndSteps, LeaveSteps, JudgeSteps, LossSteps, ReconnectSteps, BreakSteps, ServerSteps
       DEF TcpClientNext, ActorStep, SessionThread
<1> QED
  BY <1>1, <1>2, PTL DEF TcpClientSpec
-----------------------------------------------------------------------------
(***************************************************************************)
(* The job scheduler, for any number of jobs, workers, triggers, crashes   *)
(* and moments.  OnceKept needs to know where a run is when its record is  *)
(* written (Recorded), and OnceIsOnce when a job that fires once may have  *)
(* a next time again: never after it was queued, as a run of it starts at  *)
(* its time or later (OnceRight).                                          *)
(***************************************************************************)

JobType ==
  /\ JobTypeOK
  /\ stop_flag \in BOOLEAN /\ clock \in 0..LastMoment /\ scanned \in 0..clock
  /\ created \in 0..MaxJobs /\ crashes \in Nat /\ triggers \in Nat
  /\ started \in [Executors -> 0..LastMoment] /\ \A w \in Executors : started[w] <= clock
  /\ attempt \in [Executors -> 0..Retries + 1] /\ task \in [Executors -> Items \cup {NoTask}]
  /\ dispatched \in [Ids -> Nat]

\* Where a worker may be.
Places == {"test", "block", "asleep", "taken", "execute", "pause", "finish", "gone"}

\* A worker holds a task from the queue to the end of its run.
WorkerRight(w) ==
  /\ task[w] # NoTask <=> executor[w] \in {"taken", "execute", "pause", "finish"}
  /\ executor[w] = "pause" => attempt[w] <= Retries
  /\ executor[w] \in {"test", "block", "asleep", "taken", "gone"} => attempt[w] = 0

\* After the first attempt of a run the job has a record, unless it was removed.
Recorded(w) ==
  executor[w] \in {"pause", "finish"} /\ task[w].id \in DOMAIN table => task[w].id \in recorded

\* A job that fires once, while it may not be triggered by hand: what is due, queued
\* or run is so at its time or later, and it loses its next time for good when it
\* is queued, but for a crash in between.
OnceRight(id) ==
  LET at == table[id].schedule.at IN
  /\ table[id].next \in {0, at}
  /\ id \in todo => at <= scanned
  /\ InHand(id) => at <= clock
  /\ \A w \in Executors :
       task[w].id = id /\ executor[w] \in {"execute", "pause", "finish"} => at <= started[w]
  /\ dispatched[id] <= 1 + crashes
  /\ id \in todo /\ ~(dispatcher = "advance" /\ FirstDue(id)) => dispatched[id] <= crashes
  /\ table[id].next # 0 => dispatched[id] <= crashes \/ (dispatcher = "advance" /\ FirstDue(id))

\* The dispatcher's snapshot lasts for a pass.
Passing ==
  /\ dispatcher \in {"scan", "gone"} => todo = {}
  /\ stopper # "no" => stop_flag

\* Nothing is queued, due or held under a number that no job has had.
Unused ==
  \A id \in Ids : id > created => id \notin todo /\ ~InHand(id) /\ dispatched[id] = 0

JobIInv ==
  /\ JobType /\ OnceKept /\ RepeatingGoesOn /\ StoppedIsQuiet /\ Passing /\ Unused
  /\ \A w \in Executors : WorkerRight(w) /\ Recorded(w)
  /\ ~TriggerOnce =>
       \A id \in DOMAIN table : table[id].schedule.kind = "once" => OnceRight(id)

\* What is queued or held is so as long as neither changes.
LEMMA SameHand ==
  ASSUME UNCHANGED <<pending, task>>, NEW id
  PROVE  InHand(id)' <=> InHand(id)
BY DEF InHand, InQueue

\* When a schedule comes next: a repeating job always, one that fires once only
\* before its time.
LEMMA NextTime ==
  ASSUME NEW s \in Kinds, NEW from \in 0..LastMoment
  PROVE  /\ ScheduleNext(s, from) \in 0..LastMoment + Interval
         /\ s.kind = "every" => ScheduleNext(s, from) # 0
         /\ s.kind = "once" => /\ ScheduleNext(s, from) \in {0, s.at}
                               /\ s.at <= from => ScheduleNext(s, from) = 0
<1>1. CASE s.kind = "every"
  BY <1>1, JobAssumption DEF ScheduleNext, JobAssumption
<1>2. CASE s.kind # "every"
  <2>1. s.at \in 1..LastMoment
    BY <1>2 DEF Kinds
  <2> QED
    BY <1>2, <2>1, JobAssumption DEF ScheduleNext, JobAssumption
<1> QED
  BY <1>1, <1>2

\* What update_after_run() changes.
LEMMA UpdateEffect ==
  ASSUME JobType, NEW id, NEW from \in 0..LastMoment, UpdateAfterRun(id, from)
  PROVE  /\ DOMAIN table' = DOMAIN table
         /\ \A o \in DOMAIN table :
              /\ table'[o] \in Rows /\ table'[o].schedule = table[o].schedule
              /\ o # id => table'[o] = table[o]
              /\ o = id => /\ table'[o].next = ScheduleNext(table[o].schedule, from)
                           /\ table'[o].enabled = (table'[o].next # 0)
<1> DEFINE next == ScheduleNext(table[id].schedule, from)
<1>1. \A o \in DOMAIN table : table[o] \in Rows /\ table[o].schedule \in Kinds
  BY DEF JobType, JobTypeOK, Rows
<1>2. CASE id \in DOMAIN table
  <2>1. table' = [table EXCEPT ![id].next = next, ![id].enabled = next # 0]
    BY <1>2 DEF UpdateAfterRun
  <2>2. next \in 0..LastMoment + Interval
    BY <1>1, <1>2, NextTime
  <2> HIDE DEF next
  <2>3. table'[id] = [schedule |-> table[id].schedule, next |-> next, enabled |-> next # 0]
    BY <1>1, <1>2, <2>1 DEF Rows
  <2>4. table'[id] \in Rows /\ table'[id].schedule = table[id].schedule
        /\ table'[id].next = next /\ table'[id].enabled = (next # 0)
    BY <1>1, <1>2, <2>2, <2>3 DEF Rows
  <2>5. DOMAIN table' = DOMAIN table /\ \A o \in DOMAIN table : o # id => table'[o] = table[o]
    BY <2>1
  <2> QED
    BY <1>1, <2>4, <2>5 DEF next
<1>3. CASE id \notin DOMAIN table
  BY <1>1, <1>3 DEF UpdateAfterRun
<1> QED
  BY <1>2, <1>3

\* What queueing changes: one more task, and perhaps one sleeper fewer.
LEMMA EnqueueEffect ==
  ASSUME JobType, NEW id \in Ids, NEW manual \in BOOLEAN, Enqueue(id, manual)
  PROVE  /\ pending' \in Seq(Items)
         /\ executor' \in [Executors -> Places]
         /\ \A v \in Executors : \/ executor'[v] = executor[v]
                                 \/ executor[v] = "asleep" /\ executor'[v] = "test"
         /\ \A i : InQueue(i)' <=> InQueue(i) \/ i = id
<1> DEFINE item == [id |-> id, manual |-> manual]
<1>1. /\ item \in Items /\ pending \in Seq(Items) /\ pending' = Append(pending, item) /\ NotifyOne
  BY DEF Enqueue, Items, JobType, JobTypeOK
<1>2. /\ pending' \in Seq(Items) /\ Len(pending') = Len(pending) + 1 /\ Len(pending) \in Nat
      /\ pending'[Len(pending) + 1] = item
      /\ \A k \in 1..Len(pending) : pending'[k] = pending[k]
  BY <1>1
<1>3. ASSUME NEW i PROVE InQueue(i)' <=> InQueue(i) \/ i = id
  <2>1. ASSUME InQueue(i)' PROVE InQueue(i) \/ i = id
    <3>1. PICK k \in 1..Len(pending') : pending'[k].id = i
      BY <2>1 DEF InQueue
    <3>2. CASE k = Len(pending) + 1
      BY <1>2, <3>1, <3>2
    <3>3. CASE k # Len(pending) + 1
      <4>1. k \in 1..Len(pending)
        BY <1>2, <3>3
      <4> QED
        BY <1>2, <3>1, <4>1 DEF InQueue
    <3> QED
      BY <3>2, <3>3
  <2>2. ASSUME InQueue(i) PROVE InQueue(i)'
    <3>1. PICK k \in 1..Len(pending) : pending[k].id = i
      BY <2>2 DEF InQueue
    <3>2. k \in 1..Len(pending') /\ pending'[k] = pending[k]
      BY <1>2
    <3> QED
      BY <3>1, <3>2 DEF InQueue
  <2>3. ASSUME i = id PROVE InQueue(i)'
    <3>1. Len(pending) + 1 \in 1..Len(pending') /\ pending'[Len(pending) + 1].id = i
      BY <1>2, <2>3
    <3> QED
      BY <3>1 DEF InQueue
  <2> QED
    BY <2>1, <2>2, <2>3
<1>4. /\ executor' \in [Executors -> Places]
      /\ \A v \in Executors : \/ executor'[v] = executor[v]
                              \/ executor[v] = "asleep" /\ executor'[v] = "test"
  BY <1>1 DEF NotifyOne, JobType, JobTypeOK, Places
<1> QED
  BY <1>2, <1>3, <1>4

\* What taking the first task changes.
LEMMA DequeueEffect ==
  ASSUME JobType, pending # <<>>, pending' = Tail(pending)
  PROVE  /\ Head(pending) \in Items /\ pending' \in Seq(Items)
         /\ \A i : InQueue(i) <=> InQueue(i)' \/ i = Head(pending).id
<1>1. /\ pending \in Seq(Items) /\ Len(pending) \in Nat /\ Len(pending) >= 1
      /\ Head(pending) \in Items /\ Head(pending) = pending[1]
      /\ pending' \in Seq(Items) /\ Len(pending') = Len(pending) - 1
      /\ \A k \in 1..Len(pending') : pending'[k] = pending[k + 1]
  BY DEF JobType, JobTypeOK
<1>2. ASSUME NEW i PROVE InQueue(i) <=> InQueue(i)' \/ i = Head(pending).id
  <2>1. ASSUME InQueue(i) PROVE InQueue(i)' \/ i = Head(pending).id
    <3>1. PICK k \in 1..Len(pending) : pending[k].id = i
      BY <2>1 DEF InQueue
    <3>2. CASE k = 1
      BY <1>1, <3>1, <3>2
    <3>3. CASE k # 1
      <4>1. k - 1 \in 1..Len(pending') /\ (k - 1) + 1 = k
        BY <1>1, <3>3
      <4>2. pending'[k - 1].id = i
        BY <1>1, <3>1, <4>1
      <4> QED
        BY <4>1, <4>2 DEF InQueue
    <3> QED
      BY <3>2, <3>3
  <2>2. ASSUME InQueue(i)' PROVE InQueue(i)
    <3>1. PICK k \in 1..Len(pending') : pending'[k].id = i
      BY <2>2 DEF InQueue
    <3>2. k + 1 \in 1..Len(pending) /\ pending[k + 1].id = i
      BY <1>1, <3>1
    <3> QED
      BY <3>2 DEF InQueue
  <2>3. ASSUME i = Head(pending).id PROVE InQueue(i)
    BY <1>1, <2>3 DEF InQueue
  <2> QED
    BY <2>1, <2>2, <2>3
<1> QED
  BY <1>1, <1>2

\* A job that fires once is as right as it was after a step that neither queues it,
\* nor begins or moves an attempt of it, nor is one of the dispatcher's.
LEMMA OnceStays ==
  ASSUME JobType, NEW id, OnceRight(id), clock <= clock', clock' \in Nat,
         UNCHANGED <<todo, scanned, dispatcher, dispatched, crashes>>,
         table'[id].schedule = table[id].schedule, table'[id].next \in {table[id].next, 0},
         InHand(id)' => InHand(id), table[id].schedule.at \in Nat,
         \A w \in Executors :
           task'[w].id = id /\ executor'[w] \in {"execute", "pause", "finish"} =>
             \/ /\ task[w].id = id /\ executor[w] \in {"execute", "pause", "finish"}
                /\ started'[w] = started[w]
             \/ InHand(id) /\ started'[w] = clock
  PROVE  OnceRight(id)'
<1> DEFINE at == table[id].schedule.at
<1>1. /\ table'[id].schedule.at = at /\ table'[id].next \in {0, at}
      /\ table'[id].next # 0 => table[id].next # 0
  BY DEF OnceRight
<1>2. InHand(id)' => at <= clock'
  <2>1. clock \in Nat /\ clock' \in Nat /\ at \in Nat
    BY JobAssumption DEF JobType, JobAssumption
  <2>2. InHand(id)' => at <= clock
    BY DEF OnceRight
  <2> QED
    BY <2>1, <2>2
<1>3. ASSUME NEW w \in Executors, task'[w].id = id, executor'[w] \in {"execute", "pause", "finish"}
      PROVE  at <= started'[w]
  BY <1>3 DEF OnceRight
<1>4. FirstDue(id)' <=> FirstDue(id)
  BY DEF FirstDue
<1> QED
  BY <1>1, <1>2, <1>3, <1>4 DEF OnceRight

\* Who holds a task is known by its number.
LEMMA TaskHand ==
  ASSUME NEW id, NEW w \in Executors, task[w].id = id
  PROVE  InHand(id)
BY DEF InHand

\* What a row of the table is made of.
LEMMA RowFacts ==
  ASSUME JobType, NEW id \in DOMAIN table
  PROVE  /\ id \in 1..created /\ id \in Ids /\ table[id] \in Rows /\ table[id].schedule \in Kinds
         /\ table[id].schedule.at \in Nat /\ table[id].next \in Nat
<1>1. created \in 0..MaxJobs /\ id \in 1..created /\ table[id] \in Rows
  BY DEF JobType, JobTypeOK
<1>2. id \in Ids
  BY <1>1, JobAssumption DEF Ids, JobAssumption
<1>3. table[id].schedule \in Kinds /\ table[id].next \in Nat
  BY <1>1, JobAssumption DEF Rows, JobAssumption
<1>4. table[id].schedule.at \in Nat
  BY <1>3, JobAssumption DEF Kinds, JobAssumption
<1> QED
  BY <1>1, <1>2, <1>3, <1>4

\* A row that update_after_run() has written keeps a next time, if its job repeats.
LEMMA UpdateRepeats ==
  ASSUME JobType, RepeatingGoesOn, NEW id, NEW from \in 0..LastMoment, DOMAIN table' = DOMAIN table,
         \A o \in DOMAIN table :
           /\ table'[o] \in Rows /\ table'[o].schedule = table[o].schedule
           /\ o # id => table'[o] = table[o]
           /\ o = id => /\ table'[o].next = ScheduleNext(table[o].schedule, from)
                        /\ table'[o].enabled = (table'[o].next # 0)
  PROVE  RepeatingGoesOn'
<1> SUFFICES ASSUME NEW o \in DOMAIN table,
                    table'[o].schedule.kind = "every" \/ table'[o].enabled
             PROVE  table'[o].next # 0
  BY DEF RepeatingGoesOn
<1>1. CASE o # id
  BY <1>1 DEF RepeatingGoesOn
<1>2. CASE o = id
  <2>1. CASE table'[o].enabled
    BY <1>2, <2>1
  <2>2. CASE table'[o].schedule.kind = "every"
    BY <1>2, <2>2, NextTime, RowFacts
  <2> QED
    BY <2>1, <2>2
<1> QED
  BY <1>1, <1>2

\* A job is created, under a number of its own.
LEMMA CreateSteps ==
  ASSUME JobIInv, CreateJob
  PROVE  JobIInv'
<1>w. PICK new : new = created + 1
  OBVIOUS
<1>u. UNCHANGED <<recorded, pending, executor, task, attempt, started, dispatcher, todo, scanned,
                  stop_flag, stopper, dispatched, clock, triggers, crashes>>
      /\ created < MaxJobs /\ created' = new /\ stopper = "no"
  BY <1>w DEF CreateJob, Serving, queueVars, runVars, scanVars, stopVars
<1>t. /\ created \in Nat /\ new \in 1..MaxJobs /\ clock \in 0..LastMoment
      /\ DOMAIN table \subseteq 1..created /\ new \notin DOMAIN table
      /\ \A id \in DOMAIN table : table[id] \in Rows
  BY <1>u, <1>w, JobAssumption DEF JobIInv, JobType, JobTypeOK, JobAssumption
<1>n. /\ DOMAIN table' = DOMAIN table \cup {new} /\ \A o \in DOMAIN table : table'[o] = table[o]
      /\ table'[new] \in Rows
      /\ table'[new].schedule.kind = "once" => table'[new].next \in {0, table'[new].schedule.at}
      /\ table'[new].schedule.kind = "every" \/ table'[new].enabled => table'[new].next # 0
  <2>1. PICK s \in Kinds, e \in BOOLEAN :
          table' = [id \in DOMAIN table \cup {new} |->
                     IF id \in DOMAIN table THEN table[id]
                     ELSE [schedule |-> s, next |-> ScheduleNext(s, clock),
                           enabled |-> e /\ ScheduleNext(s, clock) # 0]]
    BY <1>w DEF CreateJob
  <2> DEFINE next == ScheduleNext(s, clock)
  <2>2. /\ next \in 0..LastMoment + Interval /\ (s.kind = "every" => next # 0)
        /\ s.kind = "once" => next \in {0, s.at}
        /\ s.kind \in {"every", "once"}
    BY <1>t, NextTime DEF Kinds
  <2> DEFINE on == e /\ next # 0
  <2>7. on \in BOOLEAN /\ (on => next # 0)
    OBVIOUS
  <2>3. table'[new] = [schedule |-> s, next |-> next, enabled |-> on]
    BY <1>t, <2>1
  <2> HIDE DEF next, on
  <2>4. DOMAIN table' = DOMAIN table \cup {new} /\ \A o \in DOMAIN table : table'[o] = table[o]
    BY <2>1
  <2>5. table'[new] \in Rows
    BY <2>2, <2>3, <2>7 DEF Rows
  <2>6. table'[new].schedule = s /\ table'[new].next = next /\ (table'[new].enabled => next # 0)
    BY <2>3, <2>7
  <2> QED
    BY <2>2, <2>4, <2>5, <2>6
<1>0. new \in Ids /\ new \notin todo /\ ~InHand(new) /\ dispatched[new] = 0
  BY <1>t, <1>w DEF JobIInv, Unused, Ids
<1>1. JobType'
  <2>1. created' \in 0..MaxJobs /\ DOMAIN table' \subseteq 1..created'
    BY <1>t, <1>u, <1>n, <1>w
  <2>2. ASSUME NEW id \in DOMAIN table' PROVE table'[id] \in Rows
    BY <1>t, <1>n
  <2>3. recorded' \subseteq DOMAIN table'
    BY <1>u, <1>n DEF JobIInv, JobType, JobTypeOK
  <2> QED
    BY <1>u, <2>1, <2>2, <2>3 DEF JobIInv, JobType, JobTypeOK
<1>2. ASSUME NEW v \in Executors PROVE WorkerRight(v)'
  BY <1>u DEF JobIInv, WorkerRight
<1>3. ASSUME NEW v \in Executors PROVE Recorded(v)'
  <2>1. CASE task[v].id = new
    <3>1. InHand(new)
      BY <2>1 DEF InHand
    <3> QED
      BY <1>0, <3>1
  <2> QED
    BY <1>u, <1>n, <2>1 DEF JobIInv, Recorded
<1>4. OnceKept'
  BY <1>u, <1>n, <1>0, SameHand DEF JobIInv, OnceKept
<1>5. RepeatingGoesOn'
  BY <1>n DEF JobIInv, RepeatingGoesOn
<1>6. StoppedIsQuiet'
  BY <1>u DEF JobIInv, StoppedIsQuiet
<1>7. Passing'
  BY <1>u DEF JobIInv, Passing
<1>9. Unused'
  BY <1>u, <1>t, <1>w, SameHand DEF JobIInv, Unused, Ids
<1>8. ASSUME NEW id \in DOMAIN table', table'[id].schedule.kind = "once", ~TriggerOnce
      PROVE  OnceRight(id)'
  <2>1. CASE id = new
    <3>1. ~InHand(new)' /\ new \notin todo' /\ dispatched'[new] = 0
      BY <1>u, <1>0, SameHand
    <3>3. 0 <= crashes' /\ 0 <= 1 + crashes'
      BY <1>u DEF JobIInv, JobType
    <3>4. table'[new].schedule.kind = "once" /\ table'[new].next \in {0, table'[new].schedule.at}
      BY <1>8, <1>n, <2>1
    <3>2. ASSUME NEW w \in Executors PROVE task'[w].id # new
      BY <1>u, <1>0, <3>2 DEF InHand
    <3> QED
      BY <2>1, <3>1, <3>2, <3>3, <3>4 DEF OnceRight
  <2>2. CASE id # new
    <3>1. id \in DOMAIN table /\ table'[id] = table[id] /\ OnceRight(id)
      BY <1>8, <1>n, <2>2 DEF JobIInv
    <3>2. (InHand(id)' <=> InHand(id)) /\ (FirstDue(id)' <=> FirstDue(id))
      BY <1>u, SameHand DEF FirstDue
    <3> QED
      BY <1>u, <3>1, <3>2 DEF OnceRight
  <2> QED
    BY <2>1, <2>2
<1> QED
  BY <1>1, <1>2, <1>3, <1>4, <1>5, <1>6, <1>7, <1>8, <1>9 DEF JobIInv

\* A job is removed, with its records.
LEMMA RemoveSteps ==
  ASSUME JobIInv, RemoveJob
  PROVE  JobIInv'
<1> USE JobAssumption DEF JobAssumption, RemoveJob, tableVars, queueVars, runVars, scanVars,
    stopVars, boundVars
<1>1. JobType'
  BY DEF JobIInv, JobType, JobTypeOK, WorkerRight
<1>2. ASSUME NEW v \in Executors PROVE WorkerRight(v)'
  BY DEF JobIInv, JobType, JobTypeOK, WorkerRight
<1>3. ASSUME NEW v \in Executors PROVE Recorded(v)'
  BY DEF JobIInv, JobType, JobTypeOK, WorkerRight, Recorded
<1>4. OnceKept'
  BY SameHand DEF JobIInv, JobType, JobTypeOK, OnceKept
<1>5. RepeatingGoesOn'
  BY DEF JobIInv, JobType, JobTypeOK, RepeatingGoesOn
<1>6. StoppedIsQuiet'
  BY DEF JobIInv, JobType, JobTypeOK, StoppedIsQuiet, WorkerRight
<1>7. Passing'
  BY DEF JobIInv, JobType, JobTypeOK, Passing
<1>9. Unused'
  BY SameHand DEF JobIInv, JobType, JobTypeOK, Unused
<1>8. ASSUME NEW id \in DOMAIN table', table'[id].schedule.kind = "once", ~TriggerOnce
      PROVE  OnceRight(id)'
  BY <1>8, SameHand DEF JobIInv, JobType, JobTypeOK, OnceRight, FirstDue
<1> QED
  BY <1>1, <1>2, <1>3, <1>4, <1>5, <1>6, <1>7, <1>8, <1>9 DEF JobIInv

\* A job is triggered by hand: one that fires once only if that may be.
LEMMA TriggerSteps ==
  ASSUME JobIInv, Trigger
  PROVE  JobIInv'
<1> USE DEF Places
<1>p. PICK id \in DOMAIN table :
        (TriggerOnce \/ table[id].schedule.kind # "once") /\ Enqueue(id, TRUE)
  BY DEF Trigger
<1>u. /\ UNCHANGED <<table, recorded, task, attempt, started, dispatcher, todo, scanned,
                     stop_flag, stopper, dispatched, clock, created, crashes>>
      /\ triggers' = triggers + 1 /\ stopper = "no"
  BY DEF Trigger, Serving, tableVars, runVars, scanVars, stopVars
<1>t. JobType /\ id \in Ids /\ id <= created /\ created \in Nat
  BY RowFacts DEF JobIInv, JobType
<1>e. /\ pending' \in Seq(Items) /\ executor' \in [Executors -> Places]
      /\ \A v \in Executors : \/ executor'[v] = executor[v]
                              \/ executor[v] = "asleep" /\ executor'[v] = "test"
      /\ \A i : InQueue(i)' <=> InQueue(i) \/ i = id
  BY <1>p, <1>t, EnqueueEffect
<1>h. \A i : InHand(i)' <=> InHand(i) \/ i = id
  BY <1>e, <1>u DEF InHand
<1>1. JobType'
  BY <1>u, <1>e DEF JobIInv, JobType, JobTypeOK
<1>2. ASSUME NEW v \in Executors PROVE WorkerRight(v)'
  BY <1>u, <1>e DEF JobIInv, WorkerRight
<1>3. ASSUME NEW v \in Executors PROVE Recorded(v)'
  BY <1>u, <1>e DEF JobIInv, Recorded
<1>4. OnceKept'
  BY <1>u, <1>h DEF JobIInv, OnceKept
<1>5. RepeatingGoesOn'
  BY <1>u DEF JobIInv, RepeatingGoesOn
<1>6. StoppedIsQuiet'
  BY <1>u DEF StoppedIsQuiet
<1>7. Passing'
  BY <1>u DEF JobIInv, Passing
<1>9. Unused'
  BY <1>u, <1>t, <1>h DEF JobIInv, Unused, Ids
<1>8. ASSUME NEW o \in DOMAIN table', table'[o].schedule.kind = "once", ~TriggerOnce
      PROVE  OnceRight(o)'
  <2>1. o \in DOMAIN table /\ OnceRight(o) /\ (InHand(o)' => InHand(o))
    BY <1>8, <1>p, <1>u, <1>h DEF JobIInv
  <2>2. table[o].schedule.at \in Nat /\ clock \in Nat /\ clock <= clock'
    BY <1>t, <1>u, <2>1, RowFacts, JobAssumption DEF JobType, JobAssumption
  <2> QED
    BY <1>t, <1>u, <1>e, <2>1, <2>2, OnceStays
<1> QED
  BY <1>1, <1>2, <1>3, <1>4, <1>5, <1>6, <1>7, <1>8, <1>9 DEF JobIInv

\* The dispatcher takes what is due.
LEMMA ScanSteps ==
  ASSUME JobIInv, Scan
  PROVE  JobIInv'
<1>u. /\ UNCHANGED <<table, recorded, pending, executor, task, attempt, started, stop_flag,
                     stopper, dispatched, clock, created, triggers, crashes>>
      /\ todo' = {id \in DOMAIN table : IsDue(table[id])} /\ scanned' = clock
      /\ dispatcher = "scan" /\ dispatcher' = "queue"
  BY DEF Scan, tableVars, queueVars, runVars, stopVars, boundVars
<1>t. /\ JobType /\ clock \in 0..LastMoment /\ LastMoment \in Nat
      /\ \A id \in DOMAIN table : id \in Ids /\ id <= created /\ created \in Nat
  BY RowFacts, JobAssumption DEF JobIInv, JobType, JobAssumption
<1>1. JobType'
  <2>1. todo' \subseteq Ids /\ scanned' \in 0..clock'
    BY <1>u, <1>t
  <2> QED
    BY <1>u, <2>1 DEF JobIInv, JobType, JobTypeOK
<1>2. ASSUME NEW v \in Executors PROVE WorkerRight(v)'
  BY <1>u DEF JobIInv, WorkerRight
<1>3. ASSUME NEW v \in Executors PROVE Recorded(v)'
  BY <1>u DEF JobIInv, Recorded
<1>4. OnceKept'
  BY <1>u, SameHand DEF JobIInv, OnceKept
<1>5. RepeatingGoesOn'
  BY <1>u DEF JobIInv, RepeatingGoesOn
<1>6. StoppedIsQuiet'
  <2>1. stopper # "stopped"
    BY <1>u DEF JobIInv, StoppedIsQuiet
  <2> QED
    BY <1>u, <2>1 DEF StoppedIsQuiet
<1>7. Passing'
  BY <1>u DEF JobIInv, Passing
<1>9. Unused'
  BY <1>u, <1>t, SameHand DEF JobIInv, Unused, Ids
<1>8. ASSUME NEW o \in DOMAIN table', table'[o].schedule.kind = "once", ~TriggerOnce
      PROVE  OnceRight(o)'
  <2>1. o \in DOMAIN table /\ OnceRight(o) /\ (InHand(o)' <=> InHand(o))
    BY <1>8, <1>u, SameHand DEF JobIInv
  <2>2. o \in todo' => table[o].next # 0 /\ table[o].next <= clock
    BY <1>u DEF IsDue
  <2> QED
    BY <1>u, <2>1, <2>2 DEF OnceRight
<1> QED
  BY <1>1, <1>2, <1>3, <1>4, <1>5, <1>6, <1>7, <1>8, <1>9 DEF JobIInv

\* The dispatcher ends.
LEMMA ScanEndSteps ==
  ASSUME JobIInv, DispatchEnd
  PROVE  JobIInv'
<1> USE JobAssumption DEF JobAssumption, DispatchEnd, tableVars, queueVars, runVars, scanVars,
    stopVars, boundVars
<1>1. JobType'
  BY DEF JobIInv, JobType, JobTypeOK, WorkerRight
<1>2. ASSUME NEW v \in Executors PROVE WorkerRight(v)'
  BY DEF JobIInv, JobType, JobTypeOK, WorkerRight
<1>3. ASSUME NEW v \in Executors PROVE Recorded(v)'
  BY DEF JobIInv, JobType, JobTypeOK, WorkerRight, Recorded
<1>4. OnceKept'
  BY SameHand DEF JobIInv, JobType, JobTypeOK, OnceKept
<1>5. RepeatingGoesOn'
  BY DEF JobIInv, JobType, JobTypeOK, RepeatingGoesOn
<1>6. StoppedIsQuiet'
  BY DEF JobIInv, JobType, JobTypeOK, StoppedIsQuiet, WorkerRight
<1>7. Passing'
  BY DEF JobIInv, JobType, JobTypeOK, Passing
<1>9. Unused'
  BY SameHand DEF JobIInv, JobType, JobTypeOK, Unused
<1>8. ASSUME NEW id \in DOMAIN table', table'[id].schedule.kind = "once", ~TriggerOnce
      PROVE  OnceRight(id)'
  BY <1>8, SameHand DEF JobIInv, JobType, JobTypeOK, OnceRight, FirstDue
<1> QED
  BY <1>1, <1>2, <1>3, <1>4, <1>5, <1>6, <1>7, <1>8, <1>9 DEF JobIInv

\* The first job that is due is queued, for the first time unless the process died
\* since it was.
LEMMA EnqueueSteps ==
  ASSUME JobIInv, DispatchEnqueue
  PROVE  JobIInv'
<1> USE DEF Places
<1>p. PICK id \in todo :
        /\ FirstDue(id) /\ Enqueue(id, FALSE)
        /\ dispatched' = IF id \in DOMAIN table /\ table[id].schedule.kind = "once"
                         THEN [dispatched EXCEPT ![id] = @ + 1] ELSE dispatched
  BY DEF DispatchEnqueue
<1>u. /\ UNCHANGED <<table, recorded, task, attempt, started, todo, scanned, stop_flag, stopper,
                     clock, created, triggers, crashes>>
      /\ dispatcher = "queue" /\ dispatcher' = "advance"
  BY DEF DispatchEnqueue, tableVars, runVars, stopVars, boundVars
<1>t. JobType /\ id \in Ids /\ id <= created /\ created \in Nat
  BY <1>p DEF JobIInv, JobType, JobTypeOK, Unused, Ids
<1>e. /\ pending' \in Seq(Items) /\ executor' \in [Executors -> Places]
      /\ \A v \in Executors : \/ executor'[v] = executor[v]
                              \/ executor[v] = "asleep" /\ executor'[v] = "test"
      /\ \A i : InQueue(i)' <=> InQueue(i) \/ i = id
  BY <1>p, <1>t, EnqueueEffect
<1>h. \A i : InHand(i)' <=> InHand(i) \/ i = id
  BY <1>e, <1>u DEF InHand
<1>d. /\ dispatched' \in [Ids -> Nat] /\ \A i \in Ids : i # id => dispatched'[i] = dispatched[i]
      /\ dispatched'[id] \in {dispatched[id], dispatched[id] + 1}
  BY <1>p, <1>t DEF JobType
<1>1. JobType'
  BY <1>u, <1>e, <1>d DEF JobIInv, JobType, JobTypeOK
<1>2. ASSUME NEW v \in Executors PROVE WorkerRight(v)'
  BY <1>u, <1>e DEF JobIInv, WorkerRight
<1>3. ASSUME NEW v \in Executors PROVE Recorded(v)'
  BY <1>u, <1>e DEF JobIInv, Recorded
<1>4. OnceKept'
  <2>1. \A o \in DOMAIN table : o \in Ids
    BY <1>t, RowFacts
  <2> QED
    BY <1>u, <1>h, <1>d, <2>1 DEF JobIInv, OnceKept
<1>5. RepeatingGoesOn'
  BY <1>u DEF JobIInv, RepeatingGoesOn
<1>6. StoppedIsQuiet'
  <2>1. stopper # "stopped"
    BY <1>u DEF JobIInv, StoppedIsQuiet
  <2> QED
    BY <1>u, <2>1 DEF StoppedIsQuiet
<1>7. Passing'
  BY <1>u DEF JobIInv, Passing
<1>9. Unused'
  BY <1>u, <1>t, <1>h, <1>d DEF JobIInv, Unused, Ids
<1>8. ASSUME NEW o \in DOMAIN table', table'[o].schedule.kind = "once", ~TriggerOnce
      PROVE  OnceRight(o)'
  <2>1. o \in DOMAIN table /\ OnceRight(o) /\ table[o].schedule.at \in Nat /\ o \in Ids
    BY <1>8, <1>t, <1>u, RowFacts DEF JobIInv
  <2>2. /\ clock \in Nat /\ scanned \in 0..clock /\ crashes \in Nat
        /\ dispatched[o] \in Nat /\ dispatched'[o] \in Nat
    BY <1>t, <1>d, <2>1, JobAssumption DEF JobType, JobAssumption
  <2>3. FirstDue(o)' <=> FirstDue(o)
    BY <1>u DEF FirstDue
  <2>4. ASSUME NEW w \in Executors, task'[w].id = o, executor'[w] \in {"execute", "pause", "finish"}
        PROVE  table[o].schedule.at <= started'[w]
    BY <1>u, <1>e, <2>1, <2>4 DEF OnceRight
  <2>5. CASE o = id
    <3>1. FirstDue(o) /\ o \in todo /\ dispatched[o] <= crashes /\ table[o].schedule.at <= scanned
      BY <1>p, <1>u, <2>1, <2>5 DEF OnceRight
    <3>2. dispatched'[o] <= 1 + crashes
      BY <1>d, <2>2, <2>5, <3>1
    <3> QED
      BY <1>u, <2>1, <2>2, <2>3, <2>4, <3>1, <3>2 DEF OnceRight
  <2>6. CASE o # id
    <3>1. dispatched'[o] = dispatched[o] /\ (InHand(o)' <=> InHand(o))
      BY <1>d, <1>h, <2>1, <2>6
    <3> QED
      BY <1>u, <2>1, <2>2, <2>3, <2>4, <3>1 DEF OnceRight
  <2> QED
    BY <2>5, <2>6
<1> QED
  BY <1>1, <1>2, <1>3, <1>4, <1>5, <1>6, <1>7, <1>8, <1>9 DEF JobIInv

\* Its next time is advanced: a job that fires once has none any more.
LEMMA AdvanceSteps ==
  ASSUME JobIInv, DispatchAdvance
  PROVE  JobIInv'
<1>p. PICK id \in todo : FirstDue(id) /\ UpdateAfterRun(id, scanned) /\ todo' = todo \ {id}
  BY DEF DispatchAdvance
<1>u. /\ UNCHANGED <<recorded, pending, executor, task, attempt, started, scanned, stop_flag,
                     stopper, dispatched, clock, created, triggers, crashes>>
      /\ dispatcher = "advance" /\ dispatcher' = "queue"
  BY DEF DispatchAdvance, queueVars, runVars, stopVars, boundVars
<1>t. /\ JobType /\ scanned \in 0..LastMoment /\ LastMoment \in Nat
      /\ todo \subseteq Ids
  <2>1. /\ JobType /\ todo \subseteq Ids /\ clock \in 0..LastMoment /\ scanned \in 0..clock
    BY DEF JobIInv, JobType, JobTypeOK
  <2> QED
    BY <2>1, JobAssumption DEF JobAssumption
<1>e. /\ DOMAIN table' = DOMAIN table
      /\ \A o \in DOMAIN table :
           /\ table'[o] \in Rows /\ table'[o].schedule = table[o].schedule
           /\ o # id => table'[o] = table[o]
           /\ o = id => /\ table'[o].next = ScheduleNext(table[o].schedule, scanned)
                        /\ table'[o].enabled = (table'[o].next # 0)
  BY <1>p, <1>t, UpdateEffect
<1>1. JobType'
  BY <1>u, <1>p, <1>t, <1>e DEF JobIInv, JobType, JobTypeOK
<1>2. ASSUME NEW v \in Executors PROVE WorkerRight(v)'
  BY <1>u DEF JobIInv, WorkerRight
<1>3. ASSUME NEW v \in Executors PROVE Recorded(v)'
  BY <1>u, <1>e DEF JobIInv, Recorded
<1>4. OnceKept'
  BY <1>u, <1>e, SameHand DEF JobIInv, OnceKept
<1>5. RepeatingGoesOn'
  BY <1>t, <1>e, UpdateRepeats DEF JobIInv
<1>6. StoppedIsQuiet'
  <2>1. stopper # "stopped"
    BY <1>u DEF JobIInv, StoppedIsQuiet
  <2> QED
    BY <1>u, <2>1 DEF StoppedIsQuiet
<1>7. Passing'
  BY <1>u DEF JobIInv, Passing
<1>9. Unused'
  BY <1>u, <1>p, SameHand DEF JobIInv, Unused
<1>8. ASSUME NEW o \in DOMAIN table', table'[o].schedule.kind = "once", ~TriggerOnce
      PROVE  OnceRight(o)'
  <2>1. /\ o \in DOMAIN table /\ table[o].schedule.kind = "once" /\ OnceRight(o)
        /\ table'[o].schedule = table[o].schedule /\ (InHand(o)' <=> InHand(o)) /\ o \in Ids
    BY <1>8, <1>t, <1>u, <1>e, SameHand, RowFacts DEF JobIInv
  <2>2. CASE o = id
    <3>1. table[o].schedule.at <= scanned /\ o \notin todo'
      BY <1>p, <2>1, <2>2 DEF OnceRight
    <3>2. table'[o].next = 0
      BY <1>t, <1>e, <2>1, <2>2, <3>1, NextTime, RowFacts
    <3> QED
      BY <1>u, <2>1, <3>1, <3>2 DEF OnceRight
  <2>3. CASE o # id
    <3>1. ~FirstDue(o)
      BY <1>p, <1>t, <2>1, <2>3 DEF FirstDue, Ids
    <3> QED
      BY <1>p, <1>u, <1>e, <2>1, <2>3, <3>1 DEF OnceRight
  <2> QED
    BY <2>2, <2>3
<1> QED
  BY <1>1, <1>2, <1>3, <1>4, <1>5, <1>6, <1>7, <1>8, <1>9 DEF JobIInv

\* The pass is over.
LEMMA SleepSteps ==
  ASSUME JobIInv, DispatchSleep
  PROVE  JobIInv'
<1> USE JobAssumption DEF JobAssumption, DispatchSleep, tableVars, queueVars, runVars, scanVars,
    stopVars, boundVars
<1>1. JobType'
  BY DEF JobIInv, JobType, JobTypeOK, WorkerRight
<1>2. ASSUME NEW v \in Executors PROVE WorkerRight(v)'
  BY DEF JobIInv, JobType, JobTypeOK, WorkerRight
<1>3. ASSUME NEW v \in Executors PROVE Recorded(v)'
  BY DEF JobIInv, JobType, JobTypeOK, WorkerRight, Recorded
<1>4. OnceKept'
  BY SameHand DEF JobIInv, JobType, JobTypeOK, OnceKept
<1>5. RepeatingGoesOn'
  BY DEF JobIInv, JobType, JobTypeOK, RepeatingGoesOn
<1>6. StoppedIsQuiet'
  BY DEF JobIInv, JobType, JobTypeOK, StoppedIsQuiet, WorkerRight
<1>7. Passing'
  BY DEF JobIInv, JobType, JobTypeOK, Passing
<1>9. Unused'
  BY SameHand DEF JobIInv, JobType, JobTypeOK, Unused
<1>8. ASSUME NEW id \in DOMAIN table', table'[id].schedule.kind = "once", ~TriggerOnce
      PROVE  OnceRight(id)'
  BY <1>8, SameHand DEF JobIInv, JobType, JobTypeOK, OnceRight, FirstDue
<1> QED
  BY <1>1, <1>2, <1>3, <1>4, <1>5, <1>6, <1>7, <1>8, <1>9 DEF JobIInv

\* A worker takes a task, goes to sleep, or ends.
LEMMA TestSteps ==
  ASSUME JobIInv, NEW w \in Executors, TestQueue(w)
  PROVE  JobIInv'
<1> USE DEF Places
<1>u. /\ UNCHANGED <<table, recorded, attempt, started, dispatcher, todo, scanned, stop_flag,
                     stopper, dispatched, clock, created, triggers, crashes>>
      /\ executor[w] = "test"
  BY DEF TestQueue, tableVars, scanVars, stopVars, boundVars
<1>t. /\ JobType /\ executor \in [Executors -> Places] /\ task[w] = NoTask
      /\ task \in [Executors -> Items \cup {NoTask}] /\ pending \in Seq(Items)
      /\ attempt[w] = 0 /\ stopper # "stopped"
  BY <1>u DEF JobIInv, JobType, JobTypeOK, WorkerRight, StoppedIsQuiet
<1>e. \/ /\ UNCHANGED <<pending, task>>
         /\ \/ executor' = [executor EXCEPT ![w] = "block"]
            \/ executor' = [executor EXCEPT ![w] = "gone"]
      \/ /\ pending # <<>> /\ pending' = Tail(pending)
         /\ executor' = [executor EXCEPT ![w] = "taken"]
         /\ task' = [task EXCEPT ![w] = Head(pending)]
  BY DEF TestQueue, Goto
<1>f. /\ executor' \in [Executors -> Places]
      /\ \A v \in Executors \ {w} : executor'[v] = executor[v]
      /\ executor'[w] \in {"block", "gone", "taken"}
  BY <1>t, <1>e
<1>g. /\ task' \in [Executors -> Items \cup {NoTask}] /\ pending' \in Seq(Items)
      /\ \A v \in Executors \ {w} : task'[v] = task[v]
      /\ task'[w] # NoTask <=> executor'[w] = "taken"
      /\ \A i \in Ids : InHand(i)' <=> InHand(i)
  <2>1. CASE UNCHANGED <<pending, task>> /\ executor'[w] # "taken"
    BY <1>t, <2>1, SameHand
  <2>2. CASE /\ pending # <<>> /\ pending' = Tail(pending) /\ executor'[w] = "taken"
             /\ task' = [task EXCEPT ![w] = Head(pending)]
    <3>1. /\ Head(pending) \in Items /\ pending' \in Seq(Items)
          /\ \A i : InQueue(i) <=> InQueue(i)' \/ i = Head(pending).id
      BY <1>t, <2>2, DequeueEffect
    <3>2. /\ task' \in [Executors -> Items \cup {NoTask}] /\ task'[w] = Head(pending)
          /\ \A v \in Executors \ {w} : task'[v] = task[v]
      BY <1>t, <2>2, <3>1
    <3>3. Head(pending) # NoTask /\ \A i \in Ids : i # NoTask.id
      BY <3>1, JobAssumption DEF Items, NoTask, Ids, JobAssumption
    <3>4. ASSUME NEW i \in Ids PROVE InHand(i)' <=> InHand(i)
      <4>1. (\E v \in Executors : task'[v].id = i)
              <=> i = Head(pending).id \/ \E v \in Executors : task[v].id = i
        BY <1>t, <3>2, <3>3
      <4> QED
        BY <3>1, <4>1 DEF InHand
    <3> QED
      BY <2>2, <3>1, <3>2, <3>3, <3>4
  <2> QED
    BY <1>t, <1>e, <2>1, <2>2
<1>1. JobType'
  BY <1>u, <1>f, <1>g DEF JobIInv, JobType, JobTypeOK
<1>2. ASSUME NEW v \in Executors PROVE WorkerRight(v)'
  <2>1. CASE v = w
    BY <1>u, <1>t, <1>f, <1>g, <2>1 DEF WorkerRight
  <2>2. CASE v # w
    BY <1>u, <1>f, <1>g, <2>2 DEF JobIInv, WorkerRight
  <2> QED
    BY <2>1, <2>2
<1>3. ASSUME NEW v \in Executors PROVE Recorded(v)'
  <2>1. CASE v = w
    BY <1>f, <2>1 DEF Recorded
  <2>2. CASE v # w
    BY <1>u, <1>f, <1>g, <2>2 DEF JobIInv, Recorded
  <2> QED
    BY <2>1, <2>2
<1>4. OnceKept'
  BY <1>u, <1>t, <1>g, RowFacts DEF JobIInv, OnceKept
<1>5. RepeatingGoesOn'
  BY <1>u DEF JobIInv, RepeatingGoesOn
<1>6. StoppedIsQuiet'
  BY <1>u, <1>t DEF StoppedIsQuiet
<1>7. Passing'
  BY <1>u DEF JobIInv, Passing
<1>9. Unused'
  BY <1>u, <1>g DEF JobIInv, Unused
<1>8. ASSUME NEW o \in DOMAIN table', table'[o].schedule.kind = "once", ~TriggerOnce
      PROVE  OnceRight(o)'
  <2>1. o \in DOMAIN table /\ OnceRight(o) /\ o \in Ids /\ table[o].schedule.at \in Nat
    BY <1>8, <1>t, <1>u, RowFacts DEF JobIInv
  <2>2. (InHand(o)' => InHand(o)) /\ clock \in Nat /\ clock <= clock'
    <3>1. clock \in 0..LastMoment /\ clock' = clock
      BY <1>t, <1>u DEF JobType
    <3> QED
      BY <1>g, <2>1, <3>1, JobAssumption DEF JobAssumption
  <2>3. ASSUME NEW v \in Executors, task'[v].id = o, executor'[v] \in {"execute", "pause", "finish"}
        PROVE  /\ task[v].id = o /\ executor[v] \in {"execute", "pause", "finish"}
               /\ started'[v] = started[v]
    <3>1. v # w
      BY <1>f, <2>3
    <3> QED
      BY <1>u, <1>f, <1>g, <2>3, <3>1
  <2> QED
    BY <1>t, <1>u, <2>1, <2>2, <2>3, OnceStays
<1> QED
  BY <1>1, <1>2, <1>3, <1>4, <1>5, <1>6, <1>7, <1>8, <1>9 DEF JobIInv

\* A worker falls asleep.
LEMMA BlockSteps ==
  ASSUME JobIInv, NEW w \in Executors, Block(w)
  PROVE  JobIInv'
<1> USE JobAssumption DEF JobAssumption, Block, Goto, tableVars, queueVars, runVars, scanVars,
    stopVars, boundVars
<1>1. JobType'
  BY DEF JobIInv, JobType, JobTypeOK, WorkerRight
<1>2. ASSUME NEW v \in Executors PROVE WorkerRight(v)'
  BY DEF JobIInv, JobType, JobTypeOK, WorkerRight
<1>3. ASSUME NEW v \in Executors PROVE Recorded(v)'
  BY DEF JobIInv, JobType, JobTypeOK, WorkerRight, Recorded
<1>4. OnceKept'
  BY SameHand DEF JobIInv, JobType, JobTypeOK, OnceKept
<1>5. RepeatingGoesOn'
  BY DEF JobIInv, JobType, JobTypeOK, RepeatingGoesOn
<1>6. StoppedIsQuiet'
  BY DEF JobIInv, JobType, JobTypeOK, StoppedIsQuiet, WorkerRight
<1>7. Passing'
  BY DEF JobIInv, JobType, JobTypeOK, Passing
<1>9. Unused'
  BY SameHand DEF JobIInv, JobType, JobTypeOK, Unused
<1>8. ASSUME NEW id \in DOMAIN table', table'[id].schedule.kind = "once", ~TriggerOnce
      PROVE  OnceRight(id)'
  BY <1>8, SameHand DEF JobIInv, JobType, JobTypeOK, OnceRight, FirstDue
<1> QED
  BY <1>1, <1>2, <1>3, <1>4, <1>5, <1>6, <1>7, <1>8, <1>9 DEF JobIInv

\* A stopping worker drops its task.
LEMMA DropTaskSteps ==
  ASSUME JobIInv, NEW w \in Executors, Drop(w)
  PROVE  JobIInv'
<1> USE DEF Places
<1>u. /\ UNCHANGED <<table, recorded, pending, attempt, started, dispatcher, todo, scanned,
                     stop_flag, stopper, dispatched, clock, created, triggers, crashes>>
      /\ executor[w] = "taken" /\ stop_flag
      /\ executor' = [executor EXCEPT ![w] = "gone"] /\ task' = [task EXCEPT ![w] = NoTask]
  BY DEF Drop, Goto, tableVars, scanVars, stopVars, boundVars
<1>t. /\ JobType /\ executor \in [Executors -> Places] /\ task \in [Executors -> Items \cup
         {NoTask}]
      /\ attempt[w] = 0 /\ stopper # "stopped"
  BY <1>u DEF JobIInv, JobType, JobTypeOK, WorkerRight, StoppedIsQuiet
<1>f. /\ executor' \in [Executors -> Places] /\ task' \in [Executors -> Items \cup {NoTask}]
      /\ \A v \in Executors \ {w} : executor'[v] = executor[v] /\ task'[v] = task[v]
      /\ executor'[w] = "gone" /\ task'[w] = NoTask
  BY <1>t, <1>u
<1>h. \A i \in Ids : InHand(i)' => InHand(i)
  <2>1. \A i \in Ids : i # NoTask.id
    BY JobAssumption DEF NoTask, Ids, JobAssumption
  <2> QED
    BY <1>u, <1>f, <2>1 DEF InHand, InQueue
<1>1. JobType'
  BY <1>u, <1>f DEF JobIInv, JobType, JobTypeOK
<1>2. ASSUME NEW v \in Executors PROVE WorkerRight(v)'
  BY <1>u, <1>t, <1>f DEF JobIInv, WorkerRight
<1>3. ASSUME NEW v \in Executors PROVE Recorded(v)'
  BY <1>u, <1>f DEF JobIInv, Recorded
<1>4. OnceKept'
  BY <1>u DEF OnceKept
<1>5. RepeatingGoesOn'
  BY <1>u DEF JobIInv, RepeatingGoesOn
<1>6. StoppedIsQuiet'
  BY <1>u, <1>t DEF StoppedIsQuiet
<1>7. Passing'
  BY <1>u DEF JobIInv, Passing
<1>9. Unused'
  BY <1>u, <1>h DEF JobIInv, Unused
<1>8. ASSUME NEW o \in DOMAIN table', table'[o].schedule.kind = "once", ~TriggerOnce
      PROVE  OnceRight(o)'
  <2>1. o \in DOMAIN table /\ OnceRight(o) /\ o \in Ids /\ table[o].schedule.at \in Nat
    BY <1>8, <1>t, <1>u, RowFacts DEF JobIInv
  <2>2. (InHand(o)' => InHand(o)) /\ clock \in Nat /\ clock <= clock'
    BY <1>t, <1>u, <1>h, <2>1, JobAssumption DEF JobType, JobAssumption
  <2>3. ASSUME NEW v \in Executors, task'[v].id = o, executor'[v] \in {"execute", "pause", "finish"}
        PROVE  /\ task[v].id = o /\ executor[v] \in {"execute", "pause", "finish"}
               /\ started'[v] = started[v]
    BY <1>u, <1>f, <2>3
  <2> QED
    BY <1>t, <1>u, <2>1, <2>2, <2>3, OnceStays
<1> QED
  BY <1>1, <1>2, <1>3, <1>4, <1>5, <1>6, <1>7, <1>8, <1>9 DEF JobIInv

\* An attempt begins, at the time of the job or later.
LEMMA BeginSteps ==
  ASSUME JobIInv, NEW w \in Executors, BeginAttempt(w)
  PROVE  JobIInv'
<1> USE DEF Places
<1>u. /\ UNCHANGED <<table, recorded, pending, task, dispatcher, todo, scanned, stop_flag, stopper,
                     dispatched, clock, created, triggers, crashes>>
      /\ executor[w] \in {"taken", "pause"}
      /\ executor' = [executor EXCEPT ![w] = "execute"]
      /\ attempt' = [attempt EXCEPT ![w] = @ + 1] /\ started' = [started EXCEPT ![w] = clock]
  BY DEF BeginAttempt, Goto, tableVars, scanVars, stopVars, boundVars
<1>t. /\ JobType /\ executor \in [Executors -> Places]
      /\ attempt \in [Executors -> 0..Retries + 1] /\ attempt[w] + 1 \in 0..Retries + 1
      /\ started \in [Executors -> 0..LastMoment] /\ clock \in 0..LastMoment
      /\ stopper # "stopped" /\ task[w] # NoTask
  <2>1. WorkerRight(w) /\ JobType /\ Retries \in Nat /\ LastMoment \in Nat
    BY JobAssumption DEF JobIInv, JobAssumption
  <2>2. attempt[w] \in 0..Retries + 1 /\ attempt[w] <= Retries /\ task[w] # NoTask
    BY <1>u, <2>1 DEF JobType, WorkerRight
  <2>3. attempt[w] + 1 \in 0..Retries + 1
    BY <2>1, <2>2
  <2>4. stopper # "stopped"
    BY <1>u DEF JobIInv, StoppedIsQuiet
  <2> QED
    BY <2>1, <2>2, <2>3, <2>4 DEF JobType, JobTypeOK
<1>f. /\ executor' \in [Executors -> Places] /\ attempt' \in [Executors -> 0..Retries + 1]
      /\ started' \in [Executors -> 0..LastMoment]
      /\ \A v \in Executors \ {w} :
           executor'[v] = executor[v] /\ attempt'[v] = attempt[v] /\ started'[v] = started[v]
      /\ executor'[w] = "execute" /\ started'[w] = clock
  BY <1>t, <1>u, JobAssumption DEF JobAssumption
<1>1. JobType'
  <2>1. \A v \in Executors : started'[v] <= clock'
    BY <1>t, <1>u, <1>f DEF JobType
  <2> QED
    BY <1>u, <1>f, <2>1 DEF JobIInv, JobType, JobTypeOK
<1>2. ASSUME NEW v \in Executors PROVE WorkerRight(v)'
  BY <1>u, <1>t, <1>f DEF JobIInv, WorkerRight
<1>3. ASSUME NEW v \in Executors PROVE Recorded(v)'
  BY <1>u, <1>f DEF JobIInv, Recorded
<1>4. OnceKept'
  BY <1>u, SameHand DEF JobIInv, OnceKept
<1>5. RepeatingGoesOn'
  BY <1>u DEF JobIInv, RepeatingGoesOn
<1>6. StoppedIsQuiet'
  BY <1>u, <1>t DEF StoppedIsQuiet
<1>7. Passing'
  BY <1>u DEF JobIInv, Passing
<1>9. Unused'
  BY <1>u, SameHand DEF JobIInv, Unused
<1>8. ASSUME NEW o \in DOMAIN table', table'[o].schedule.kind = "once", ~TriggerOnce
      PROVE  OnceRight(o)'
  <2>1. o \in DOMAIN table /\ OnceRight(o) /\ o \in Ids /\ table[o].schedule.at \in Nat
    BY <1>8, <1>t, <1>u, RowFacts DEF JobIInv
  <2>2. (InHand(o)' => InHand(o)) /\ clock \in Nat /\ clock <= clock'
    BY <1>t, <1>u, SameHand, JobAssumption DEF JobAssumption
  <2>3. ASSUME NEW v \in Executors, task'[v].id = o, executor'[v] \in {"execute", "pause", "finish"}
        PROVE  \/ /\ task[v].id = o /\ executor[v] \in {"execute", "pause", "finish"}
                  /\ started'[v] = started[v]
               \/ InHand(o) /\ started'[v] = clock
    BY <1>u, <1>f, <2>3, TaskHand
  <2> QED
    BY <1>t, <1>u, <2>1, <2>2, <2>3, OnceStays
<1> QED
  BY <1>1, <1>2, <1>3, <1>4, <1>5, <1>6, <1>7, <1>8, <1>9 DEF JobIInv

\* An attempt ends and is recorded.
LEMMA RecordSteps ==
  ASSUME JobIInv, NEW w \in Executors, EndAttempt(w)
  PROVE  JobIInv'
<1> USE JobAssumption DEF JobAssumption, EndAttempt, Goto, tableVars, queueVars, runVars, scanVars,
    stopVars, boundVars
<1>1. JobType'
  BY DEF JobIInv, JobType, JobTypeOK, WorkerRight
<1>2. ASSUME NEW v \in Executors PROVE WorkerRight(v)'
  BY DEF JobIInv, JobType, JobTypeOK, WorkerRight
<1>3. ASSUME NEW v \in Executors PROVE Recorded(v)'
  BY DEF JobIInv, JobType, JobTypeOK, WorkerRight, Recorded
<1>4. OnceKept'
  BY SameHand DEF JobIInv, JobType, JobTypeOK, OnceKept
<1>5. RepeatingGoesOn'
  BY DEF JobIInv, JobType, JobTypeOK, RepeatingGoesOn
<1>6. StoppedIsQuiet'
  BY DEF JobIInv, JobType, JobTypeOK, StoppedIsQuiet, WorkerRight
<1>7. Passing'
  BY DEF JobIInv, JobType, JobTypeOK, Passing
<1>9. Unused'
  BY SameHand DEF JobIInv, JobType, JobTypeOK, Unused
<1>8. ASSUME NEW id \in DOMAIN table', table'[id].schedule.kind = "once", ~TriggerOnce
      PROVE  OnceRight(id)'
  BY <1>8, SameHand DEF JobIInv, JobType, JobTypeOK, OnceRight, FirstDue
<1> QED
  BY <1>1, <1>2, <1>3, <1>4, <1>5, <1>6, <1>7, <1>8, <1>9 DEF JobIInv

\* A run is over: its job has a record, and no next time if it fires once.
LEMMA FinishSteps ==
  ASSUME JobIInv, NEW w \in Executors, Finish(w)
  PROVE  JobIInv'
<1> USE DEF Places
<1>p. PICK id, from : id = task[w].id /\ from = started[w]
  OBVIOUS
<1>u. /\ UNCHANGED <<recorded, pending, dispatcher, todo, scanned, stop_flag, stopper, dispatched,
                     clock, created, triggers, crashes>>
      /\ executor[w] = "finish" /\ executor' = [executor EXCEPT ![w] = "test"]
      /\ UpdateAfterRun(id, from) /\ task' = [task EXCEPT ![w] = NoTask]
      /\ attempt' = [attempt EXCEPT ![w] = 0] /\ started' = [started EXCEPT ![w] = 0]
  BY <1>p DEF Finish, Goto, scanVars, stopVars, boundVars
<1>t. /\ JobType /\ executor \in [Executors -> Places] /\ task \in [Executors -> Items \cup
         {NoTask}]
      /\ attempt \in [Executors -> 0..Retries + 1] /\ started \in [Executors -> 0..LastMoment]
      /\ from \in 0..LastMoment /\ 0 \in 0..Retries + 1 /\ 0 \in 0..LastMoment
      /\ stopper # "stopped" /\ clock \in Nat
  BY <1>p, <1>u, JobAssumption
     DEF JobIInv, JobType, JobTypeOK, WorkerRight, StoppedIsQuiet, JobAssumption
<1>f. /\ executor' \in [Executors -> Places] /\ task' \in [Executors -> Items \cup {NoTask}]
      /\ attempt' \in [Executors -> 0..Retries + 1] /\ started' \in [Executors -> 0..LastMoment]
      /\ \A v \in Executors \ {w} : /\ executor'[v] = executor[v] /\ task'[v] = task[v]
                                    /\ attempt'[v] = attempt[v] /\ started'[v] = started[v]
      /\ executor'[w] = "test" /\ task'[w] = NoTask /\ attempt'[w] = 0 /\ started'[w] = 0
  BY <1>t, <1>u
<1>e. /\ DOMAIN table' = DOMAIN table
      /\ \A o \in DOMAIN table :
           /\ table'[o] \in Rows /\ table'[o].schedule = table[o].schedule
           /\ o # id => table'[o] = table[o]
           /\ o = id => /\ table'[o].next = ScheduleNext(table[o].schedule, from)
                        /\ table'[o].enabled = (table'[o].next # 0)
  BY <1>u, <1>t, UpdateEffect
<1>h. \A i \in Ids : (InHand(i)' => InHand(i)) /\ (i # id => (InHand(i) => InHand(i)'))
  <2>1. \A i \in Ids : i # NoTask.id
    BY JobAssumption DEF NoTask, Ids, JobAssumption
  <2> QED
    BY <1>p, <1>u, <1>f, <2>1 DEF InHand, InQueue
<1>1. JobType'
  <2>1. \A v \in Executors : started'[v] <= clock'
    BY <1>t, <1>u, <1>f DEF JobType
  <2> QED
    BY <1>u, <1>f, <1>e, <2>1 DEF JobIInv, JobType, JobTypeOK
<1>2. ASSUME NEW v \in Executors PROVE WorkerRight(v)'
  BY <1>f DEF JobIInv, WorkerRight
<1>3. ASSUME NEW v \in Executors PROVE Recorded(v)'
  BY <1>u, <1>f, <1>e DEF JobIInv, Recorded
<1>4. OnceKept'
  <2>1. ASSUME NEW o \in DOMAIN table, crashes = 0, ~stop_flag, dispatched[o] > 0
        PROVE  InHand(o)' \/ o \in recorded
    <3>1. o \in Ids /\ (InHand(o) \/ o \in recorded)
      BY <1>t, <2>1, RowFacts DEF JobIInv, OnceKept
    <3>2. CASE o = id
      BY <1>p, <1>u, <3>2 DEF JobIInv, Recorded
    <3> QED
      BY <1>h, <3>1, <3>2
  <2> QED
    BY <1>u, <1>e, <2>1 DEF OnceKept
<1>5. RepeatingGoesOn'
  BY <1>t, <1>e, UpdateRepeats DEF JobIInv
<1>6. StoppedIsQuiet'
  BY <1>u, <1>t DEF StoppedIsQuiet
<1>7. Passing'
  BY <1>u DEF JobIInv, Passing
<1>9. Unused'
  BY <1>u, <1>h DEF JobIInv, Unused
<1>8. ASSUME NEW o \in DOMAIN table', table'[o].schedule.kind = "once", ~TriggerOnce
      PROVE  OnceRight(o)'
  <2>1. /\ o \in DOMAIN table /\ OnceRight(o) /\ o \in Ids /\ table[o].schedule.at \in Nat
        /\ table[o].schedule.kind = "once" /\ table'[o].schedule = table[o].schedule
    BY <1>8, <1>t, <1>e, RowFacts DEF JobIInv
  <2>2. (InHand(o)' => InHand(o)) /\ clock' \in Nat /\ clock <= clock'
    BY <1>t, <1>u, <1>h, <2>1
  <2>3. ASSUME NEW v \in Executors, task'[v].id = o, executor'[v] \in {"execute", "pause", "finish"}
        PROVE  /\ task[v].id = o /\ executor[v] \in {"execute", "pause", "finish"}
               /\ started'[v] = started[v]
    BY <1>f, <2>3
  <2>4. table'[o].next \in {table[o].next, 0}
    <3>1. CASE o = id
      <4>1. table[o].schedule.at <= from
        BY <1>p, <1>u, <2>1, <3>1 DEF OnceRight
      <4>2. table'[o].next = 0
        BY <1>t, <1>e, <2>1, <3>1, <4>1, NextTime, RowFacts
      <4> QED
        BY <4>2
    <3> QED
      BY <1>e, <2>1, <3>1
  <2> QED
    BY <1>t, <1>u, <2>1, <2>2, <2>3, <2>4, OnceStays
<1> QED
  BY <1>1, <1>2, <1>3, <1>4, <1>5, <1>6, <1>7, <1>8, <1>9 DEF JobIInv

\* stop() sets the flag.
LEMMA StopFlagSteps ==
  ASSUME JobIInv, StopJobs
  PROVE  JobIInv'
<1> USE JobAssumption DEF JobAssumption, StopJobs, tableVars, queueVars, runVars, scanVars,
    stopVars, boundVars
<1>1. JobType'
  BY DEF JobIInv, JobType, JobTypeOK, WorkerRight
<1>2. ASSUME NEW v \in Executors PROVE WorkerRight(v)'
  BY DEF JobIInv, JobType, JobTypeOK, WorkerRight
<1>3. ASSUME NEW v \in Executors PROVE Recorded(v)'
  BY DEF JobIInv, JobType, JobTypeOK, WorkerRight, Recorded
<1>4. OnceKept'
  BY SameHand DEF JobIInv, JobType, JobTypeOK, OnceKept
<1>5. RepeatingGoesOn'
  BY DEF JobIInv, JobType, JobTypeOK, RepeatingGoesOn
<1>6. StoppedIsQuiet'
  BY DEF JobIInv, JobType, JobTypeOK, StoppedIsQuiet, WorkerRight
<1>7. Passing'
  BY DEF JobIInv, JobType, JobTypeOK, Passing
<1>9. Unused'
  BY SameHand DEF JobIInv, JobType, JobTypeOK, Unused
<1>8. ASSUME NEW id \in DOMAIN table', table'[id].schedule.kind = "once", ~TriggerOnce
      PROVE  OnceRight(id)'
  BY <1>8, SameHand DEF JobIInv, JobType, JobTypeOK, OnceRight, FirstDue
<1> QED
  BY <1>1, <1>2, <1>3, <1>4, <1>5, <1>6, <1>7, <1>8, <1>9 DEF JobIInv

\* stop() wakes the workers.
LEMMA NotifySteps ==
  ASSUME JobIInv, StopNotify
  PROVE  JobIInv'
<1> USE JobAssumption DEF JobAssumption, StopNotify, tableVars, queueVars, runVars, scanVars,
    stopVars, boundVars
<1>1. JobType'
  BY DEF JobIInv, JobType, JobTypeOK, WorkerRight
<1>2. ASSUME NEW v \in Executors PROVE WorkerRight(v)'
  BY DEF JobIInv, JobType, JobTypeOK, WorkerRight
<1>3. ASSUME NEW v \in Executors PROVE Recorded(v)'
  BY DEF JobIInv, JobType, JobTypeOK, WorkerRight, Recorded
<1>4. OnceKept'
  BY SameHand DEF JobIInv, JobType, JobTypeOK, OnceKept
<1>5. RepeatingGoesOn'
  BY DEF JobIInv, JobType, JobTypeOK, RepeatingGoesOn
<1>6. StoppedIsQuiet'
  BY DEF JobIInv, JobType, JobTypeOK, StoppedIsQuiet, WorkerRight
<1>7. Passing'
  BY DEF JobIInv, JobType, JobTypeOK, Passing
<1>9. Unused'
  BY SameHand DEF JobIInv, JobType, JobTypeOK, Unused
<1>8. ASSUME NEW id \in DOMAIN table', table'[id].schedule.kind = "once", ~TriggerOnce
      PROVE  OnceRight(id)'
  BY <1>8, SameHand DEF JobIInv, JobType, JobTypeOK, OnceRight, FirstDue
<1> QED
  BY <1>1, <1>2, <1>3, <1>4, <1>5, <1>6, <1>7, <1>8, <1>9 DEF JobIInv

\* stop() returns when all threads have ended.
LEMMA StopJoinedSteps ==
  ASSUME JobIInv, StopJoined
  PROVE  JobIInv'
<1> USE JobAssumption DEF JobAssumption, StopJoined, tableVars, queueVars, runVars, scanVars,
    stopVars, boundVars
<1>1. JobType'
  BY DEF JobIInv, JobType, JobTypeOK, WorkerRight
<1>2. ASSUME NEW v \in Executors PROVE WorkerRight(v)'
  BY DEF JobIInv, JobType, JobTypeOK, WorkerRight
<1>3. ASSUME NEW v \in Executors PROVE Recorded(v)'
  BY DEF JobIInv, JobType, JobTypeOK, WorkerRight, Recorded
<1>4. OnceKept'
  BY SameHand DEF JobIInv, JobType, JobTypeOK, OnceKept
<1>5. RepeatingGoesOn'
  BY DEF JobIInv, JobType, JobTypeOK, RepeatingGoesOn
<1>6. StoppedIsQuiet'
  BY DEF JobIInv, JobType, JobTypeOK, StoppedIsQuiet, WorkerRight
<1>7. Passing'
  BY DEF JobIInv, JobType, JobTypeOK, Passing
<1>9. Unused'
  BY SameHand DEF JobIInv, JobType, JobTypeOK, Unused
<1>8. ASSUME NEW id \in DOMAIN table', table'[id].schedule.kind = "once", ~TriggerOnce
      PROVE  OnceRight(id)'
  BY <1>8, SameHand DEF JobIInv, JobType, JobTypeOK, OnceRight, FirstDue
<1> QED
  BY <1>1, <1>2, <1>3, <1>4, <1>5, <1>6, <1>7, <1>8, <1>9 DEF JobIInv

\* The process dies and starts again on the same table: nothing is in hand.
LEMMA CrashSteps ==
  ASSUME JobIInv, Crash
  PROVE  JobIInv'
<1> USE DEF Places
<1>u. /\ UNCHANGED <<table, recorded, dispatched, clock, created, triggers>>
      /\ crashes' = crashes + 1 /\ pending' = <<>> /\ todo' = {} /\ dispatcher' = "scan"
      /\ scanned' = 0 /\ stop_flag' = FALSE /\ stopper' = "no"
  BY DEF Crash, tableVars
<1>f. /\ executor' = [w \in Executors |-> "test"] /\ task' = [w \in Executors |-> NoTask]
      /\ attempt' = [w \in Executors |-> 0] /\ started' = [w \in Executors |-> 0]
  BY DEF Crash
<1>t. JobType /\ clock \in Nat /\ crashes \in Nat /\ 0 \in 0..Retries + 1 /\ 0 \in 0..LastMoment
  BY JobAssumption DEF JobIInv, JobType, JobAssumption
<1>h. \A i \in Ids : ~InHand(i)'
  <2>1. \A i \in Ids : i # NoTask.id
    BY JobAssumption DEF NoTask, Ids, JobAssumption
  <2> QED
    BY <1>u, <1>f, <2>1 DEF InHand, InQueue
<1>1. JobType'
  <2>1. /\ executor' \in [Executors -> Places] /\ task' \in [Executors -> Items \cup {NoTask}]
        /\ attempt' \in [Executors -> 0..Retries + 1] /\ started' \in [Executors -> 0..LastMoment]
        /\ \A w \in Executors : started'[w] <= clock'
    BY <1>f, <1>t, <1>u
  <2>2. scanned' \in 0..clock' /\ crashes' \in Nat /\ pending' \in Seq(Items)
    BY <1>t, <1>u
  <2> QED
    BY <1>u, <2>1, <2>2 DEF JobIInv, JobType, JobTypeOK
<1>2. ASSUME NEW v \in Executors PROVE WorkerRight(v)'
  BY <1>f DEF WorkerRight
<1>3. ASSUME NEW v \in Executors PROVE Recorded(v)'
  BY <1>f DEF Recorded
<1>4. OnceKept'
  <2>1. crashes' # 0
    BY <1>t, <1>u
  <2> QED
    BY <2>1 DEF OnceKept
<1>5. RepeatingGoesOn'
  BY <1>u DEF JobIInv, RepeatingGoesOn
<1>6. StoppedIsQuiet'
  BY <1>u DEF StoppedIsQuiet
<1>7. Passing'
  BY <1>u DEF Passing
<1>9. Unused'
  BY <1>u, <1>h DEF JobIInv, Unused
<1>8. ASSUME NEW o \in DOMAIN table', table'[o].schedule.kind = "once", ~TriggerOnce
      PROVE  OnceRight(o)'
  <2>1. o \in DOMAIN table /\ OnceRight(o) /\ o \in Ids /\ dispatched[o] \in Nat
    BY <1>8, <1>t, <1>u, RowFacts DEF JobIInv, JobType
  <2>2. /\ dispatched'[o] <= crashes' /\ dispatched'[o] <= 1 + crashes'
        /\ o \notin todo' /\ ~InHand(o)'
    BY <1>t, <1>u, <1>h, <2>1 DEF OnceRight
  <2>3. table'[o].next \in {0, table'[o].schedule.at}
    BY <1>u, <2>1 DEF OnceRight
  <2> QED
    BY <1>f, <2>2, <2>3 DEF OnceRight
<1> QED
  BY <1>1, <1>2, <1>3, <1>4, <1>5, <1>6, <1>7, <1>8, <1>9 DEF JobIInv

\* Time passes.
LEMMA TimeSteps ==
  ASSUME JobIInv, TimePasses
  PROVE  JobIInv'
<1>u. /\ UNCHANGED <<table, recorded, pending, executor, task, attempt, started, dispatcher, todo,
                     scanned, stop_flag, stopper, dispatched, created, triggers, crashes>>
      /\ clock < LastMoment /\ clock' = clock + 1
  BY DEF TimePasses, tableVars, queueVars, runVars, scanVars, stopVars
<1>t. /\ JobType /\ clock \in Nat /\ clock' \in 0..LastMoment /\ clock <= clock' /\ clock' \in Nat
      /\ scanned \in 0..clock'
  BY <1>u, JobAssumption DEF JobIInv, JobType, JobAssumption
<1>1. JobType'
  <2>1. \A w \in Executors : started[w] <= clock'
    BY <1>t, <1>u, JobAssumption DEF JobType, JobAssumption
  <2> QED
    BY <1>t, <1>u, <2>1 DEF JobIInv, JobType, JobTypeOK
<1>2. ASSUME NEW v \in Executors PROVE WorkerRight(v)'
  BY <1>u DEF JobIInv, WorkerRight
<1>3. ASSUME NEW v \in Executors PROVE Recorded(v)'
  BY <1>u DEF JobIInv, Recorded
<1>4. OnceKept'
  BY <1>u, SameHand DEF JobIInv, OnceKept
<1>5. RepeatingGoesOn'
  BY <1>u DEF JobIInv, RepeatingGoesOn
<1>6. StoppedIsQuiet'
  BY <1>u DEF JobIInv, StoppedIsQuiet
<1>7. Passing'
  BY <1>u DEF JobIInv, Passing
<1>9. Unused'
  BY <1>u, SameHand DEF JobIInv, Unused
<1>8. ASSUME NEW o \in DOMAIN table', table'[o].schedule.kind = "once", ~TriggerOnce
      PROVE  OnceRight(o)'
  <2>1. o \in DOMAIN table /\ OnceRight(o) /\ table[o].schedule.at \in Nat
    BY <1>8, <1>t, <1>u, RowFacts DEF JobIInv
  <2> QED
    BY <1>t, <1>u, <2>1, SameHand, OnceStays
<1> QED
  BY <1>1, <1>2, <1>3, <1>4, <1>5, <1>6, <1>7, <1>8, <1>9 DEF JobIInv

\* The invariant of the scheduler.
THEOREM JobsInvariant == JobSpec => []JobIInv
<1>1. ASSUME JobInit PROVE JobIInv
  <2>1. /\ DOMAIN table = {} /\ recorded = {} /\ pending = <<>> /\ todo = {}
        /\ dispatcher = "scan" /\ stop_flag = FALSE /\ stopper = "no"
    BY <1>1 DEF JobInit
  <2>2. /\ scanned = 0 /\ clock = 0 /\ created = 0 /\ triggers = 0 /\ crashes = 0
        /\ 0 \in 0..LastMoment /\ 0 \in 0..MaxJobs /\ 0 \in 0..Retries + 1
    BY <1>1, JobAssumption DEF JobInit, JobAssumption
  <2>3. /\ executor = [w \in Executors |-> "test"] /\ task = [w \in Executors |-> NoTask]
        /\ attempt = [w \in Executors |-> 0] /\ started = [w \in Executors |-> 0]
        /\ dispatched = [id \in Ids |-> 0]
    BY <1>1 DEF JobInit
  <2>4. JobType
    <3>1. /\ executor \in [Executors -> Places]
          /\ task \in [Executors -> Items \cup {NoTask}] /\ attempt \in [Executors -> 0..Retries +
             1]
          /\ started \in [Executors -> 0..LastMoment] /\ \A w \in Executors : started[w] <= clock
          /\ dispatched \in [Ids -> Nat]
      BY <2>2, <2>3 DEF Places
    <3>2. scanned \in 0..clock /\ pending \in Seq(Items)
      BY <2>1, <2>2
    <3> QED
      BY <2>1, <2>2, <3>1, <3>2 DEF JobType, JobTypeOK, Places
  <2>5. ASSUME NEW w \in Executors PROVE WorkerRight(w) /\ Recorded(w)
    BY <2>3, JobAssumption DEF WorkerRight, Recorded, JobAssumption
  <2>6. Unused
    <3>1. \A i \in Ids : i # NoTask.id
      BY JobAssumption DEF NoTask, Ids, JobAssumption
    <3> QED
      BY <2>1, <2>3, <3>1 DEF Unused, InHand, InQueue
  <2> QED
    BY <2>1, <2>4, <2>5, <2>6 DEF JobIInv, OnceKept, RepeatingGoesOn, StoppedIsQuiet, Passing
<1>2. ASSUME JobIInv, [JobNext]_jobVars PROVE JobIInv'
  <2>1. CASE UNCHANGED jobVars
    <3>1. /\ UNCHANGED <<table, recorded, pending, executor, task, attempt, started, dispatcher,
                         todo, scanned, stop_flag, stopper, dispatched, clock, created, triggers,
                         crashes>>
      BY <2>1 DEF jobVars, tableVars, queueVars, runVars, scanVars, stopVars, boundVars
    <3> QED
      BY <1>2, <3>1 DEF JobIInv, JobType, JobTypeOK, WorkerRight, Recorded, OnceKept,
         RepeatingGoesOn,
         StoppedIsQuiet, Passing, Unused, OnceRight, FirstDue, InHand, InQueue
  <2> QED
    BY <1>2, <2>1, CreateSteps, RemoveSteps, TriggerSteps, ScanSteps, ScanEndSteps, EnqueueSteps,
       AdvanceSteps, SleepSteps, TestSteps, BlockSteps, DropTaskSteps, BeginSteps, RecordSteps,
       FinishSteps, StopFlagSteps, NotifySteps, StopJoinedSteps, CrashSteps, TimeSteps
       DEF JobNext, Dispatcher, Executor
<1> QED
  BY <1>1, <1>2, PTL DEF JobSpec
-----------------------------------------------------------------------------
(***************************************************************************)
(* What the invariants come to, for a service of its own and for the       *)
(* services side by side.                                                  *)
(***************************************************************************)

\* TCP, for any number of sessions, starts and connections: the table holds no
\* socket that may belong to somebody else, every end is told once, and neither
\* stop() nor close() leaves a connection or a thread behind.
THEOREM TcpInvariant == TcpServerSpec /\ TcpClientSpec => []TcpInv
<1>1. TcpServerIInv => TcpServerInv
  BY DEF TcpServerIInv, TcpServerInv, TcpServerType, SendSafe, EndIsTold, Halting, Telling,
     SocketRight, EndToldRight, TcpServerTypeOK
<1>2. TcpClientIInv => TcpClientInv
  <2>1. ASSUME TcpClientIInv PROVE ConnectedIsServed
    BY <2>1 DEF TcpClientIInv, ConnectedLast, ConnectedIsServed, Alive
  <2>2. ASSUME TcpClientIInv PROVE OneSession /\ LossesTold
    BY <2>2 DEF TcpClientIInv, LineRight, OneSession, LossesTold
  <2> QED
    BY <2>1, <2>2 DEF TcpClientIInv, TcpClientType, TcpClientInv
<1> QED
  BY <1>1, <1>2, TcpServerInvariant, TcpClientInvariant, PTL DEF TcpInv

\* A connection that is served, for any number of frames, requests and routes: what
\* the WebSocket session gives its handler is what was sent, in order and between
\* on_connect and on_disconnect, and the HTTP server answers every request, by the
\* first handler of its path.
THEOREM ServedInvariant ==
  WebSocketSpec /\ HttpInit /\ [][HttpNext]_httpVars => []ServedInv
<1>1. HttpIInv => HttpServerInv
  <2>1. HttpIInv => RunningIsReported
    BY DEF HttpIInv, KnownListener, RunningIsReported
  <2>2. HttpIInv => NothingOutlives
    BY DEF HttpIInv, HttpType, InLoop, KnownListener, NothingOutlives
  <2> QED
    BY <2>1, <2>2 DEF HttpIInv, Explained, HttpServerInv
<1> QED
  BY <1>1, WebSocketInvariant, HttpInvariant, PTL DEF ServedInv

\* Services side by side behave each as it does alone: every step of one is a
\* step of its own specification and leaves the others as they are.
THEOREM ServicesApart ==
  Spec => /\ JobSpec /\ WebSocketSpec /\ ShellsSpec /\ HttpInit /\ [][HttpNext]_httpVars
          /\ TcpServerSpec /\ TcpClientSpec
<1>1. Init => /\ JobInit /\ WebSocketInit /\ ShellsInit /\ HttpInit
              /\ TcpServerInit /\ TcpClientInit
  BY DEF Init
<1>2. [Next]_serviceVars =>
        /\ [JobNext]_jobVars /\ [WebSocketNext]_webSocketVars
        /\ [ShellsNext]_shellVars /\ [HttpNext]_httpVars
        /\ [TcpServerNext]_tcpServerVars /\ [TcpClientNext]_tcpClientVars
  BY DEF Next, serviceVars, Using, UseJobs, UseWebSocket, UseShells, UseHttp, UseTcpServer,
     UseTcpClient
<1> QED
  BY <1>1, <1>2, PTL
     DEF Spec, JobSpec, WebSocketSpec, ShellsSpec, TcpServerSpec, TcpClientSpec

\* The invariants of the connections, the shells and TCP hold in every behaviour
\* of the services.
THEOREM ServicesInvariant == Spec => [](ServedInv /\ ShellsInv /\ TcpInv)
<1> QED
  BY ServicesApart, ServedInvariant, ShellsQuietAtLast, TcpInvariant, PTL

\* And so does that of the scheduler: no job that fires once is forgotten, repeating
\* ones go on, and a stopped scheduler is quiet; and what fires once does so once, as
\* long as it is not triggered by hand as well.
THEOREM JobsKept ==
  Spec => [](OnceKept /\ RepeatingGoesOn /\ StoppedIsQuiet /\ (~TriggerOnce => JobInv))
<1>1. JobIInv /\ ~TriggerOnce => OnceIsOnce
  BY DEF JobIInv, OnceRight, OnceIsOnce
<1>2. JobIInv => OnceKept /\ RepeatingGoesOn /\ StoppedIsQuiet /\ (~TriggerOnce => JobInv)
  BY <1>1 DEF JobIInv, JobType, JobInv
<1> QED
  BY <1>2, ServicesApart, JobsInvariant, PTL
=============================================================================
