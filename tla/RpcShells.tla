----------------------------- MODULE RpcShells ------------------------------
(***************************************************************************)
(* The transports of RpcServer that are not HTTP (rpc.cpp): Unix-domain    *)
(* sockets, named pipes and raw TCP.  A connection has a thread that reads *)
(* requests; one with an id gets a thread of its own, so that a connection *)
(* has many requests under way, one without is handled in between.  stop() *)
(* drains, ends the listener, unblocks the readers and joins them all.     *)
(***************************************************************************)
EXTENDS Integers, FiniteSets

CONSTANTS
  Transports,    \* those looked at, of "uds", "pipe" and "tcp"
  MaxLinks,      \* bound on the connections
  MaxRequests    \* bound on the requests, over all connections

ASSUME ShellsAssumption ==
  Transports \subseteq {"uds", "pipe", "tcp"} /\ MaxLinks \in Nat /\ MaxRequests \in Nat

VARIABLES
  transport,
  stopping,      \* the flag every transport looks at
  acceptor,      \* where the accept thread is
  rdr,           \* where the thread of each connection is
  peer_link,     \* "up", "down" (the peer or shutdown()), "closed" by us
  registered,    \* active_uds, active_pipes, or the sessions of the TcpServer
  reading,       \* the request a reader handles itself, or 0
  request,       \* where each request is
  owner,         \* the connection it came by, or 0
  delivered,     \* history: how often its answer was sent
  quitter        \* where stop() is

linkVars    == <<rdr, peer_link, registered, reading>>
requestVars == <<request, owner, delivered>>
shellVars   == <<transport, stopping, acceptor, linkVars, requestVars, quitter>>

Links    == 1..MaxLinks
Requests == 1..MaxRequests

ShellsInit ==
  /\ transport \in Transports /\ stopping = FALSE /\ acceptor = "accept"
  /\ rdr = [c \in Links |-> "none"] /\ peer_link = [c \in Links |-> "up"]
  /\ registered = {} /\ reading = [c \in Links |-> 0]
  /\ request = [r \in Requests |-> "none"] /\ owner = [r \in Requests |-> 0]
  /\ delivered = [r \in Requests |-> 0]
  /\ quitter = "no"

Mine(c) == {r \in Requests : owner[r] = c}

\* A request is in handle_core(), for all that concerns the transport.
InCore(r) == request[r] = "core"
-----------------------------------------------------------------------------
\* reap_finished_uds(): readers that are done are joined and their descriptors
\* closed.  Only the accept thread does it, after each connection.
Finished == {c \in registered : rdr[c] = "done"}

Reap(linkOf) ==
  /\ peer_link' = [c \in Links |-> IF c \in Finished THEN "closed" ELSE linkOf[c]]
  /\ rdr' = [c \in Links |-> IF c \in Finished THEN "gone" ELSE rdr[c]]

\* Registered first: from here on stop() knows the connection.  A pipe registers
\* itself, when its thread runs.  The flag is looked at before accept() blocks,
\* so that one more connection may come after it was set; TCP has a flag of its
\* own and accepts until it is swept.
AcceptLink ==
  /\ acceptor = "accept" /\ (transport = "pipe" => ~stopping)
  /\ \E c \in Links :
       /\ rdr[c] = "none" /\ \A d \in Links : d < c => rdr[d] # "none"
       /\ rdr' = [rdr EXCEPT ![c] = "start"]
       /\ registered' = IF transport = "pipe" THEN registered ELSE registered \cup {c}
  /\ acceptor' = IF transport = "uds" THEN "reap" ELSE "accept"
  /\ UNCHANGED <<transport, stopping, peer_link, reading, requestVars, quitter>>

ReapBetween ==
  /\ acceptor = "reap"
  /\ Reap(peer_link) /\ registered' = registered \ Finished
  /\ acceptor' = IF stopping THEN "sweep" ELSE "accept"
  /\ UNCHANGED <<transport, stopping, reading, requestVars, quitter>>

StartReader(c) ==
  /\ rdr[c] = "start"
  /\ rdr' = [rdr EXCEPT ![c] = "read"]
  /\ registered' = registered \cup {c}
  /\ UNCHANGED <<transport, stopping, acceptor, peer_link, reading, requestVars, quitter>>

\* The loop leaves when nothing more can be read.  Only the TcpServer looks at
\* a flag as well: its own, which its stop() has cleared by the time of "reap".
ReadFails(c) ==
  /\ rdr[c] = "read"
  /\ peer_link[c] # "up" \/ (transport = "tcp" /\ acceptor \in {"join", "gone"})
  /\ rdr' = [rdr EXCEPT ![c] = "leave"]
  /\ UNCHANGED <<transport, stopping, acceptor, peer_link, registered, reading, requestVars, quitter>>

\* A frame arrives: with an id it gets a thread, without it is handled here.
ReadRequest(c) ==
  /\ rdr[c] = "read" /\ peer_link[c] = "up"
  /\ \E r \in Requests :
       /\ request[r] = "none" /\ \A s \in Requests : s < r => request[s] # "none"
       /\ request' = [request EXCEPT ![r] = "core"]
       /\ owner' = [owner EXCEPT ![r] = c]
       /\ \/ UNCHANGED <<rdr, reading>>
          \/ reading' = [reading EXCEPT ![c] = r] /\ rdr' = [rdr EXCEPT ![c] = "sync"]
  /\ UNCHANGED <<transport, stopping, acceptor, peer_link, registered, delivered, quitter>>

\* handle_core() returns; its answer is sent unless the server is stopping ...
CoreReturns(r) ==
  /\ InCore(r)
  /\ request' = [request EXCEPT ![r] = "reply"]
  /\ UNCHANGED <<transport, stopping, acceptor, linkVars, owner, delivered, quitter>>

MaySend(r) == peer_link[owner[r]] = "up" /\ ~stopping

Reply(r) ==
  /\ request[r] = "reply" /\ reading[owner[r]] # r
  /\ delivered' = IF MaySend(r) THEN [delivered EXCEPT ![r] = @ + 1] ELSE delivered
  /\ request' = [request EXCEPT ![r] = "over"]
  /\ UNCHANGED <<transport, stopping, acceptor, linkVars, owner, quitter>>

\* ... and a reader that cannot send ends, except under TCP, which sends to a
\* session that may be gone, and reads on.
ReplySync(c) ==
  LET r == reading[c]
      sent == IF transport = "tcp" THEN peer_link[c] = "up" ELSE MaySend(r) IN
  /\ rdr[c] = "sync" /\ request[r] = "reply"
  /\ delivered' = IF sent THEN [delivered EXCEPT ![r] = @ + 1] ELSE delivered
  /\ request' = [request EXCEPT ![r] = "over"]
  /\ reading' = [reading EXCEPT ![c] = 0]
  /\ rdr' = [rdr EXCEPT ![c] = IF sent \/ transport = "tcp" THEN "read" ELSE "leave"]
  /\ UNCHANGED <<transport, stopping, acceptor, peer_link, registered, owner, quitter>>

\* Mutant: a reader does not join the threads of its requests.
LeaveLoopAtOnce(c) ==
  /\ rdr[c] = "leave"
  /\ rdr' = [rdr EXCEPT ![c] = IF transport = "uds" THEN "done" ELSE "gone"]
  /\ IF transport = "uds" THEN UNCHANGED <<peer_link, registered>>
     ELSE peer_link' = [peer_link EXCEPT ![c] = "closed"] /\ registered' = registered \ {c}
  /\ UNCHANGED <<transport, stopping, acceptor, reading, requestVars, quitter>>

\* The reader joins the threads of its requests; TCP leaves them to stop().  A
\* Unix socket stays open until it is reaped, the others are closed here.
LeaveLoop(c) ==
  /\ rdr[c] = "leave"
  /\ transport = "tcp" \/ \A r \in Mine(c) : request[r] = "over"
  /\ rdr' = [rdr EXCEPT ![c] = IF transport = "uds" THEN "done" ELSE "gone"]
  /\ IF transport = "uds" THEN UNCHANGED <<peer_link, registered>>
     ELSE peer_link' = [peer_link EXCEPT ![c] = "closed"] /\ registered' = registered \ {c}
  /\ UNCHANGED <<transport, stopping, acceptor, reading, requestVars, quitter>>

ReaderStep(c) == StartReader(c) \/ ReadFails(c) \/ ReplySync(c) \/ LeaveLoop(c)

ClientCloses(c) ==
  /\ rdr[c] \in {"start", "read", "sync"} /\ peer_link[c] = "up"
  /\ peer_link' = [peer_link EXCEPT ![c] = "down"]
  /\ UNCHANGED <<transport, stopping, acceptor, rdr, registered, reading, requestVars, quitter>>
-----------------------------------------------------------------------------
\* stop(): the flag; the drain, until the gate is idle or time is up; then the
\* accept thread is woken and joined.
QuitFlag ==
  /\ quitter = "no"
  /\ stopping' = TRUE /\ quitter' = "drain"
  /\ UNCHANGED <<transport, acceptor, linkVars, requestVars>>

DrainEnds ==
  /\ quitter = "drain" /\ quitter' = "wake"
  /\ UNCHANGED <<transport, stopping, acceptor, linkVars, requestVars>>

\* Mutant: the readers are joined without being unblocked.
SweepNobody ==
  /\ (quitter = "wake" /\ acceptor = "accept") \/ acceptor = "sweep"
  /\ acceptor' = "join"
  /\ UNCHANGED <<transport, stopping, linkVars, requestVars, quitter>>

\* The accept thread leaves its loop and unblocks whoever it knows: a shutdown
\* lasts, a cancelled read is only the one that waits now.
Sweep ==
  /\ (quitter = "wake" /\ acceptor = "accept") \/ acceptor = "sweep"
  /\ peer_link' = [c \in Links |->
       IF transport # "pipe" /\ c \in registered /\ peer_link[c] = "up" THEN "down"
       ELSE peer_link[c]]
  /\ rdr' = [c \in Links |->
       IF transport = "pipe" /\ c \in registered /\ rdr[c] = "read" THEN "leave" ELSE rdr[c]]
  /\ acceptor' = "join"
  /\ UNCHANGED <<transport, stopping, registered, reading, requestVars, quitter>>

\* All readers are joined, Unix sockets by reaping them.
SweepJoined ==
  /\ acceptor = "join"
  /\ \A c \in Links : rdr[c] \in {"none", "done", "gone"}
  /\ Reap(peer_link) /\ registered' = {}
  /\ acceptor' = "gone"
  /\ UNCHANGED <<transport, stopping, reading, requestVars, quitter>>

QuitJoined ==
  /\ quitter = "wake" /\ acceptor = "gone" /\ quitter' = "workers"
  /\ UNCHANGED <<transport, stopping, acceptor, linkVars, requestVars>>

\* drain_dispatch_workers(), here with a drain_timeout_ms that suffices.
WorkersDrained ==
  /\ quitter = "workers"
  /\ \A r \in Requests : request[r] \in {"none", "over"}
  /\ quitter' = "done"
  /\ UNCHANGED <<transport, stopping, acceptor, linkVars, requestVars>>

Quitting == DrainEnds \/ QuitJoined \/ WorkersDrained
ShellAccepting == ReapBetween \/ Sweep \/ SweepJoined

ShellsNext ==
  \/ AcceptLink \/ ShellAccepting \/ QuitFlag \/ Quitting
  \/ \E c \in Links : ReadRequest(c) \/ ReaderStep(c) \/ ClientCloses(c)
  \/ \E r \in Requests : CoreReturns(r) \/ Reply(r)

ShellsSpec == ShellsInit /\ [][ShellsNext]_shellVars

\* Threads run and handlers return.
ShellsFairSpec ==
  /\ ShellsSpec
  /\ WF_shellVars(Quitting) /\ WF_shellVars(ShellAccepting)
  /\ \A c \in Links : WF_shellVars(ReaderStep(c))
  /\ \A r \in Requests : WF_shellVars(CoreReturns(r) \/ Reply(r))
-----------------------------------------------------------------------------
ShellsTypeOK ==
  /\ acceptor \in {"accept", "reap", "sweep", "join", "gone"}
  /\ rdr \in [Links -> {"none", "start", "read", "sync", "leave", "done", "gone"}]
  /\ peer_link \in [Links -> {"up", "down", "closed"}]
  /\ request \in [Requests -> {"none", "core", "reply", "over"}]
  /\ quitter \in {"no", "drain", "wake", "workers", "done"}

\* "The only one to close a descriptor is who reaps it, so that no number in the
\* table is used again" (rpc.cpp:4482): a descriptor is closed when nobody reads
\* from it, and, but for TCP, when no thread of a request may still write to it.
ClosedLast ==
  \A c \in Links : peer_link[c] = "closed" =>
    /\ rdr[c] = "gone"
    /\ transport # "tcp" => \A r \in Mine(c) : request[r] = "over"

\* A request has one answer at most, and none from a server that has stopped.
AnsweredOnce ==
  \A r \in Requests : delivered[r] <= 1 /\ (delivered[r] = 1 => request[r] = "over")

\* After stop() nobody uses the server: no reader, and no thread of a request.
QuitIsQuiet ==
  quitter = "done" =>
    /\ \A c \in Links : rdr[c] \in {"none", "gone"}
    /\ \A r \in Requests : request[r] \in {"none", "over"}

ShellsInv == ShellsTypeOK /\ ClosedLast /\ AnsweredOnce /\ QuitIsQuiet
=============================================================================
