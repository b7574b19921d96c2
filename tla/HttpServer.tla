----------------------------- MODULE HttpServer -----------------------------
(***************************************************************************)
(* The HTTP server of http_server.cpp around a server of the httplib       *)
(* library: routes that are registered before and after it is made, the    *)
(* filters and the fallback around them, the detached thread that listens, *)
(* and an owner that starts, stops and destroys it.                        *)
(*                                                                         *)
(* Of httplib the model assumes that routes are tried in the order they    *)
(* were added, that is_running() is true while its loop runs and turns     *)
(* false only after the loop has waited for the requests in progress, and  *)
(* that every answer from 400 upwards passes through the error handler.    *)
(***************************************************************************)
EXTENDS Integers, Sequences, SequencesExt

CONSTANTS
  MaxRoutes,       \* bound on the routes of the program
  MaxStarts,       \* bound on the calls of start_background()
  MaxServed        \* bound on the requests

ASSUME HttpAssumption == MaxRoutes \in Nat /\ MaxStarts \in Nat /\ MaxServed \in Nat

VARIABLES
  pending_routes,  \* pending_routes: [path, by], by 0 for the built-in probe
  routes,          \* the routes of svr
  made,            \* svr is there
  ssl, sslBuilt,   \* ssl_configured, ssl_active
  filtering,       \* a filter is installed
  fallback,        \* a fallback is installed
  probeAdded,      \* healthz_registered
  ready,           \* ready
  errorText,       \* error_text: "", "bind", "timeout" or "tls"
  running,         \* svr->is_running()
  listener,        \* the listening thread: "none", "bind", "loop", "closing" or "gone"
  server_owner,    \* the owner: "free", "starting", "stopping", "destroying" or "gone"
  launched,        \* what start_background() returned last
  launches,        \* starts so far
  served,          \* requests so far
  query,           \* the request in progress: [path, denied]
  step,            \* where it is: "none", "route", "handler", "check" or "sent"
  reply,           \* its reply: [status, full, from]
  reached,         \* history: the program's routes whose handler it has reached
  gaveUp           \* history: start_background() or stop() gave up waiting

httpVars == <<pending_routes, routes, made, ssl, sslBuilt, filtering, fallback,
              probeAdded, ready, errorText, running, listener, server_owner, launched,
              launches, served, query, step, reply, reached, gaveUp>>
routing == <<pending_routes, routes, filtering, fallback, probeAdded>>
building == <<made, ssl, sslBuilt>>
serving == <<served, query, step, reply, reached>>

NoRequest == [path |-> "none", denied |-> FALSE]
NoReply == [status |-> 0, full |-> FALSE, from |-> "nobody"]

HttpInit ==
  /\ pending_routes = <<>> /\ routes = <<>> /\ made = FALSE /\ ssl = FALSE /\ sslBuilt = FALSE
  /\ filtering = FALSE /\ fallback = FALSE /\ probeAdded = FALSE
  /\ ready = FALSE /\ errorText = "" /\ running = FALSE /\ listener = "none"
  /\ server_owner = "free" /\ launched = FALSE /\ launches = 0
  /\ served = 0 /\ query = NoRequest /\ step = "none" /\ reply = NoReply /\ reached = {}
  /\ gaveUp = FALSE

-----------------------------------------------------------------------------
(* Registration, which is only allowed while no request can come *)

Registering == server_owner = "free" /\ listener \in {"none", "gone"}

\* add_route(): kept for a server to come, and added to the one there is.
AddRoute(path, by) ==
  /\ pending_routes' = Append(pending_routes, [path |-> path, by |-> by])
  /\ routes' = IF made THEN Append(routes, [path |-> path, by |-> by]) ELSE routes

Route(path) ==
  /\ Registering /\ Len(pending_routes) < MaxRoutes
  /\ AddRoute(path, Len(pending_routes) + 1)
  /\ UNCHANGED <<building, serving, filtering, fallback, probeAdded, ready, errorText,
                 running, listener, server_owner, launched, launches, gaveUp>>

\* enable_health_endpoints(), any number of times: a route of the program that is
\* already there has precedence.
EnableProbe ==
  /\ Registering
  /\ IF ~probeAdded /\ (\A r \in ToSet(pending_routes) : r.path # "healthz")
       THEN AddRoute("healthz", 0) /\ probeAdded' = TRUE
       ELSE UNCHANGED <<pending_routes, routes, probeAdded>>
  /\ UNCHANGED <<building, serving, filtering, fallback, ready, errorText, running,
                 listener, server_owner, launched, launches, gaveUp>>

Install ==
  /\ Registering
  /\ \/ filtering' = TRUE /\ UNCHANGED fallback
     \/ fallback' = TRUE /\ UNCHANGED filtering
  /\ UNCHANGED <<building, serving, pending_routes, routes, probeAdded, ready,
                 errorText, running, listener, server_owner, launched, launches, gaveUp>>

SetCertificates ==
  /\ Registering /\ ssl' = ~ssl
  /\ UNCHANGED <<routing, serving, made, sslBuilt, ready, errorText, running, listener,
                 server_owner, launched, launches, gaveUp>>

-----------------------------------------------------------------------------
(* start_background() *)

\* ensure_server(): made once, with the routes known by then; afterwards the
\* certificates may not change.  It is called again only when the thread of the
\* call before has ended.
Start ==
  /\ server_owner = "free" /\ listener \in {"none", "gone"}
  /\ launches < MaxStarts /\ launches' = launches + 1
  /\ ready' = FALSE
  /\ IF made /\ ssl # sslBuilt
       THEN /\ errorText' = "tls" /\ launched' = FALSE
            /\ UNCHANGED <<made, sslBuilt, routes, listener, server_owner>>
       ELSE /\ errorText' = "" /\ made' = TRUE
            /\ sslBuilt' = IF made THEN sslBuilt ELSE ssl
            /\ routes' = IF made THEN routes ELSE pending_routes
            /\ listener' = "bind" /\ server_owner' = "starting"
            /\ UNCHANGED launched
  /\ UNCHANGED <<serving, pending_routes, filtering, fallback, probeAdded, ssl, running,
                 gaveUp>>

\* The detached thread binds and enters the loop, or says why not.
Bind ==
  /\ listener = "bind"
  /\ \/ listener' = "loop" /\ running' = TRUE /\ UNCHANGED errorText
     \/ listener' = "gone" /\ errorText' = "bind" /\ UNCHANGED running
  /\ UNCHANGED <<routing, building, serving, ready, server_owner, launched, launches,
                 gaveUp>>

\* The poll every 10 ms: it runs, it failed, or 3 s are over.
PollStart ==
  /\ server_owner = "starting" /\ (running \/ errorText # "")
  /\ server_owner' = "free" /\ launched' = running
  /\ ready' = IF running THEN TRUE ELSE ready
  /\ UNCHANGED <<routing, building, serving, errorText, running, listener, launches,
                 gaveUp>>

PollTimesOut ==
  /\ server_owner = "starting" /\ ~running
  /\ server_owner' = "free" /\ launched' = FALSE /\ errorText' = "timeout" /\ gaveUp' = TRUE
  /\ UNCHANGED <<routing, building, serving, ready, running, listener, launches>>

-----------------------------------------------------------------------------
(* stop() and the destructor *)

\* Mutant: the owner does not wait for the loop.
WaitNot == TRUE

\* The wait for the loop's end, for 3 s at most.
WaitOver == ~running

\* A server that does not run yet is not told.
Stop(then) ==
  /\ server_owner = "free" /\ server_owner' = then
  /\ listener' = IF made /\ running /\ listener = "loop" THEN "closing" ELSE listener
  /\ UNCHANGED <<routing, building, serving, ready, errorText, running, launched,
                 launches, gaveUp>>

StopReturn ==
  /\ server_owner \in {"stopping", "destroying"}
  /\ \/ WaitOver /\ UNCHANGED gaveUp
     \/ running /\ gaveUp' = TRUE
  /\ server_owner' = IF server_owner = "stopping" THEN "free" ELSE "gone"
  /\ UNCHANGED <<routing, building, serving, ready, errorText, running, listener,
                 launched, launches>>

\* The loop ends when it has waited for the requests in progress.
LoopEnds ==
  /\ listener = "closing" /\ query = NoRequest
  /\ listener' = "gone" /\ running' = FALSE
  /\ UNCHANGED <<routing, building, serving, ready, errorText, server_owner, launched,
                 launches, gaveUp>>

-----------------------------------------------------------------------------
(* A request *)

\* Whether the filter is going to refuse it is its own business.
Arrives(path, denied) ==
  /\ listener = "loop" /\ query = NoRequest /\ served < MaxServed /\ served' = served + 1
  /\ query' = [path |-> path, denied |-> denied] /\ step' = "route"
  /\ reply' = NoReply /\ reached' = {}
  /\ UNCHANGED <<routing, building, ready, errorText, running, listener, server_owner,
                 launched, launches, gaveUp>>

OfPath(list, path) == SelectSeq(list, LAMBDA r : r.path = path)
Matches == OfPath(routes, query.path)

Replies(status, full, from) ==
  /\ reply' = [status |-> status, full |-> full, from |-> from] /\ step' = "check"

\* Mutant: the filters' answer does not end the request.
PassesAlways == TRUE

\* The filters are called inside the handler of a route, so that neither the
\* probes nor what matches no route pass through them.
Passes == ~filtering \/ ~query.denied

Match ==
  /\ step = "route"
  /\ IF Matches = <<>> THEN Replies(404, FALSE, "nobody") /\ UNCHANGED reached
     ELSE IF Head(Matches).by = 0 THEN Replies(200, TRUE, "probe") /\ UNCHANGED reached
     ELSE IF ~Passes THEN (\E full \in BOOLEAN : Replies(401, full, "filter")) /\ UNCHANGED reached
     ELSE step' = "handler" /\ reached' = reached \cup {Head(Matches).by} /\ UNCHANGED reply
  /\ UNCHANGED <<routing, building, ready, errorText, running, listener, server_owner,
                 launched, launches, served, query, gaveUp>>

\* wrap(): it answers, or throws, which is answered with 500.
Handle ==
  /\ step = "handler"
  /\ \/ Replies(200, TRUE, "handler")
     \/ \E full \in BOOLEAN : Replies(403, full, "handler")
     \/ Replies(500, TRUE, "handler")
  /\ UNCHANGED <<routing, building, ready, errorText, running, listener, server_owner,
                 launched, launches, served, query, reached, gaveUp>>

\* The error handler: an answer from 400 upwards without a body is taken for one
\* that matched no route, and the fallback, or a text, replaces it.
CheckErrors ==
  /\ step = "check"
  /\ reply' = IF reply.status < 400 \/ reply.full THEN reply
              ELSE IF fallback THEN [status |-> 200, full |-> TRUE, from |-> "fallback"]
              ELSE [reply EXCEPT !.full = TRUE]
  /\ step' = "sent"
  /\ UNCHANGED <<routing, building, ready, errorText, running, listener, server_owner,
                 launched, launches, served, query, reached, gaveUp>>

Sent ==
  /\ step = "sent" /\ step' = "none" /\ query' = NoRequest /\ reply' = NoReply /\ reached' = {}
  /\ UNCHANGED <<routing, building, ready, errorText, running, listener, server_owner,
                 launched, launches, served, gaveUp>>

HttpNext ==
  \/ \E path \in {"page", "healthz"} : Route(path)
  \/ EnableProbe \/ Install \/ SetCertificates
  \/ Start \/ Bind \/ PollStart \/ PollTimesOut
  \/ Stop("stopping") \/ Stop("destroying") \/ StopReturn \/ LoopEnds
  \/ \E path \in {"page", "healthz", "else"}, denied \in BOOLEAN : Arrives(path, denied)
  \/ Match \/ Handle \/ CheckErrors \/ Sent

-----------------------------------------------------------------------------
\* A request that the filter refuses reaches no handler of a route.  The fallback
\* it may reach: filters only run once a route matched (http_server.h:52 says
\* before), and a refusal without a body is handed to the fallback too.
DeniedIsDenied ==
  query # NoRequest /\ filtering /\ query.denied => reached = {}

\* The route that answers is the one of its path that was registered first,
\* whether the server was made before or after it, and the built-in probe yields
\* to a route of the program that was there before it.
FirstRegistered ==
  step = "handler" =>
    LET SamePath == OfPath(pending_routes, query.path)
    IN  SamePath # <<>> /\ reached = {Head(SamePath).by}

\* No answer leaves without a body that says why, and one that matched is only
\* replaced by the fallback if it had none.
NeverEmpty == step = "sent" => reply.full

\* A server that runs has been reported as started and ready, unless the owner gave
\* up before it ran: "listen timeout" is then the last word on a server that serves.
RunningIsReported ==
  running /\ server_owner = "free" /\ ~gaveUp => launched /\ ready

\* When the object is gone, neither the listening thread nor a request uses it any
\* more, unless start or stop gave up waiting: then they do.
NothingOutlives ==
  server_owner = "gone" /\ ~gaveUp => listener \in {"none", "gone"} /\ query = NoRequest

HttpServerInv ==
  DeniedIsDenied /\ FirstRegistered /\ NeverEmpty /\ RunningIsReported /\ NothingOutlives
=============================================================================
