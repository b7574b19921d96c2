------------------------------ MODULE RpcServer ------------------------------
(***************************************************************************)
(* RpcServer over HTTP (rpc.cpp, RpcServer::Impl): the accept thread puts  *)
(* connections into MonitoringQueue, a fixed pool of workers takes them    *)
(* out and runs handle_core, which passes the admission gate, calls the    *)
(* handler and keeps the statistics; shutdown() stops all of it in phases. *)
(* A connection carries one request, so a request stands for its job.      *)
(* The critical sections of ready_mutex, stats_mutex, the queue's mutex    *)
(* and the gate's mutex are the atomic steps; what lies between two of     *)
(* them interleaves.                                                       *)
(***************************************************************************)
EXTENDS AdmissionGate, Sequences

CONSTANTS
  None,       \* no request
  Workers,    \* the threads of MonitoringQueue
  Modes,      \* overload modes the server is given: "reject", "wait"
  Drains,     \* whether drain_timeout_ms may be positive, zero or both
  MaxStarts   \* bound: how often the server is started

ASSUME ServerAssumption ==
  /\ None \notin Callers
  /\ IsFiniteSet(Workers) /\ Workers # {}
  /\ Callers \cap {"awake", "asleep", "gone"} = {}
  /\ Modes \subseteq {"reject", "wait"}
  /\ Drains \subseteq BOOLEAN
  /\ MaxStarts \in Nat

VARIABLES
  overload_mode,
  drains,     \* drain_timeout_ms > 0
  phase,      \* the accept thread: none, starting, bound, listening, closing, exited
  stopping,   \* the stop flag
  stopper,    \* where shutdown() is
  starts,     \* how often the server was started
  jobs,       \* MonitoringQueue::jobs
  enq,        \* the request pushed into jobs and not yet counted
  worker,     \* what each worker does: a request, "awake", "asleep", "gone"
  stage,      \* where each request is in the server
  queued, max_active, rejected_total, completed_total   \* under stats_mutex

queueVars == <<jobs, enq, worker>>
statVars  == <<queued, max_active, rejected_total, completed_total>>
settings  == <<overload_mode, drains>>
lifeVars  == <<settings, phase, stopping, stopper, starts>>
serverVars == <<gateVars, lifeVars, queueVars, stage, statVars>>

Stages == {"new", "jobs", "core", "parsed", "gate", "leave", "verdict",
           "handler", "record", "served", "rejected", "dropped"}

ServerTypeOK ==
  /\ GateTypeOK
  /\ overload_mode \in Modes /\ drains \in Drains
  /\ phase \in {"none", "starting", "bound", "listening", "closing", "exited"}
  /\ stopping \in BOOLEAN
  /\ stopper \in {"idle", "drain", "draining", "poll", "join"}
  /\ starts \in 0..MaxStarts
  /\ jobs \in Seq(Callers)
  /\ enq \in Callers \cup {None}
  /\ worker \in [Workers -> Callers \cup {"awake", "asleep", "gone"}]
  /\ stage \in [Callers -> Stages]
  /\ queued \in Nat /\ max_active \in Nat
  /\ rejected_total \in Nat /\ completed_total \in Nat

ServerInit ==
  /\ GateInit
  /\ overload_mode \in Modes /\ drains \in Drains
  /\ phase = "none" /\ stopping = FALSE /\ stopper = "idle" /\ starts = 0
  /\ jobs = <<>> /\ enq = None
  /\ worker = [w \in Workers |-> "gone"]
  /\ stage = [r \in Callers |-> "new"]
  /\ queued = 0 /\ max_active = 0 /\ rejected_total = 0 /\ completed_total = 0

-----------------------------------------------------------------------------
(* Starting: start_background() spawns the thread of bind_and_listen().    *)

StartBackground ==
  /\ phase = "none" /\ stopper = "idle"
  /\ starts < MaxStarts
  /\ starts' = starts + 1
  /\ phase' = "starting"
  /\ UNCHANGED <<settings, gateVars, stopping, stopper, queueVars, stage, statVars>>

\* set_max_in_flight(), set_overload_mode() and set_drain_timeout_ms(), which
\* are to be called while the server does not run.  The limit of the gate is
\* also that of MonitoringQueue (max_queued_requests).
Configure ==
  /\ phase = "none" /\ stopper = "idle" /\ starts < MaxStarts
  /\ \E n \in Limits : SetLimit(n)
  /\ overload_mode' \in Modes /\ drains' \in Drains
  /\ UNCHANGED <<phase, stopping, stopper, starts, queueVars, stage, statVars>>

\* bind_and_listen() up to the point where bind_done is published.
Bind ==
  /\ phase = "starting"
  /\ phase' = "bound"
  /\ stopping' = FALSE
  /\ Reset
  /\ queued' = 0 /\ max_active' = 0 /\ rejected_total' = 0 /\ completed_total' = 0
  /\ UNCHANGED <<settings, stopper, starts, queueVars, stage>>

\* listen_after_bind(): httplib builds the queue, then raises is_running.
Listen ==
  /\ phase = "bound"
  /\ phase' = "listening"
  /\ worker' = [w \in Workers |-> "awake"]
  /\ UNCHANGED <<settings, gateVars, stopping, stopper, starts, jobs, enq, stage, statVars>>

-----------------------------------------------------------------------------
(* MonitoringQueue.                                                        *)

\* enqueue(), the critical section; a full queue closes the connection.
Enqueue(r) ==
  /\ phase = "listening" /\ enq = None /\ stage[r] = "new"
  /\ LET cap == IF overload_mode = "wait" THEN 0 ELSE limit
     IN  IF cap > 0 /\ Len(jobs) >= cap
         THEN /\ stage' = [stage EXCEPT ![r] = "dropped"]
              /\ UNCHANGED <<jobs, enq>>
         ELSE /\ stage' = [stage EXCEPT ![r] = "jobs"]
              /\ jobs' = Append(jobs, r)
              /\ enq' = r
  /\ UNCHANGED <<gateVars, lifeVars, worker, statVars>>

\* Mutant: notify_one is forgotten.
CountJobSilent ==
  /\ enq # None
  /\ enq' = None
  /\ queued' = queued + 1
  /\ UNCHANGED <<gateVars, lifeVars, jobs, worker, stage,
                 max_active, rejected_total, completed_total>>

\* enqueue(), after the critical section: on_job_enqueued, then notify_one.
CountJob ==
  /\ enq # None
  /\ enq' = None
  /\ queued' = queued + 1
  /\ \/ /\ \A w \in Workers : worker[w] # "asleep"
        /\ UNCHANGED worker
     \/ \E w \in Workers : /\ worker[w] = "asleep"
                           /\ worker' = [worker EXCEPT ![w] = "awake"]
  /\ UNCHANGED <<gateVars, lifeVars, jobs, stage,
                 max_active, rejected_total, completed_total>>

\* worker_loop(): the critical section around the wait.
WorkerSleep(w) ==
  /\ worker[w] = "awake" /\ jobs = <<>> /\ phase # "closing"
  /\ worker' = [worker EXCEPT ![w] = "asleep"]
  /\ UNCHANGED <<gateVars, lifeVars, jobs, enq, stage, statVars>>

WorkerPop(w) ==
  /\ worker[w] = "awake" /\ jobs # <<>>
  /\ jobs' = Tail(jobs)
  /\ worker' = [worker EXCEPT ![w] = Head(jobs)]
  /\ UNCHANGED <<gateVars, lifeVars, enq, stage, statVars>>

WorkerExit(w) ==
  /\ worker[w] = "awake" /\ jobs = <<>> /\ phase = "closing"
  /\ worker' = [worker EXCEPT ![w] = "gone"]
  /\ UNCHANGED <<gateVars, lifeVars, jobs, enq, stage, statVars>>

\* on_job_dequeued(), called between popping the job and running it.
UncountJob(w) ==
  /\ worker[w] \in Callers /\ stage[worker[w]] = "jobs"
  /\ stage' = [stage EXCEPT ![worker[w]] = "core"]
  /\ queued' = IF queued > 0 THEN queued - 1 ELSE 0
  /\ UNCHANGED <<gateVars, lifeVars, queueVars,
                 max_active, rejected_total, completed_total>>

-----------------------------------------------------------------------------
(* handle_core(), run by the worker that holds the request.                *)

Step(r, from, to) == stage[r] = from /\ stage' = [stage EXCEPT ![r] = to]

\* The stop flag is read once, at the start.
RejectStopping(r) ==
  /\ Step(r, "core", "rejected")
  /\ stopping
  /\ rejected_total' = rejected_total + 1
  /\ UNCHANGED <<gateVars, lifeVars, queueVars, queued, max_active, completed_total>>

PassStopping(r) ==
  /\ Step(r, "core", "parsed")
  /\ ~stopping
  /\ UNCHANGED <<gateVars, lifeVars, queueVars, statVars>>

\* A body that is no JSON or has no method: 400, counted as completed.
Malformed(r) ==
  /\ Step(r, "parsed", "served")
  /\ completed_total' = completed_total + 1
  /\ UNCHANGED <<gateVars, lifeVars, queueVars, queued, max_active, rejected_total>>

\* RejectImmediate mode.
AskGate(r) ==
  /\ overload_mode = "reject"
  /\ Step(r, "parsed", "verdict")
  /\ Acquire(r)
  /\ UNCHANGED <<lifeVars, queueVars, statVars>>

\* WaitInQueue mode: counted as queued, through acquire_for, counted out.
EnterQueue(r) ==
  /\ overload_mode = "wait"
  /\ Step(r, "parsed", "gate")
  /\ queued' = queued + 1
  /\ UNCHANGED <<gateVars, lifeVars, queueVars,
                 max_active, rejected_total, completed_total>>

AfterGate(r) ==
  /\ stage' = IF at'[r] \in {"in", "refused"}
              THEN [stage EXCEPT ![r] = "leave"] ELSE stage
  /\ UNCHANGED <<lifeVars, queueVars, statVars>>

GateWait(r) ==
  /\ stage[r] = "gate"
  /\ AcquireForFree(r) \/ AcquireForQueue(r) \/ Resume(r) \/ SleepAgain(r)
  /\ AfterGate(r)

GateTimeout(r) ==
  /\ stage[r] = "gate"
  /\ QueueTimeout(r)
  /\ AfterGate(r)

\* Mutant: no test that the shared counter is positive.
LeaveWaitUnguarded(r) ==
  /\ Step(r, "leave", "verdict")
  /\ queued' = queued - 1
  /\ UNCHANGED <<gateVars, lifeVars, queueVars,
                 max_active, rejected_total, completed_total>>

LeaveWait(r) ==
  /\ Step(r, "leave", "verdict")
  /\ queued' = IF queued > 0 THEN queued - 1 ELSE 0
  /\ UNCHANGED <<gateVars, lifeVars, queueVars,
                 max_active, rejected_total, completed_total>>

RejectOverload(r) ==
  /\ Step(r, "verdict", "rejected")
  /\ Refused(r)
  /\ rejected_total' = rejected_total + 1
  /\ UNCHANGED <<lifeVars, queueVars, queued, max_active, completed_total>>

\* The peak is sampled after admission, in a critical section of its own.
SamplePeak(r) ==
  /\ at[r] = "in"
  /\ Step(r, "verdict", "handler")
  /\ max_active' = IF in_flight > max_active THEN in_flight ELSE max_active
  /\ UNCHANGED <<gateVars, lifeVars, queueVars, queued, rejected_total, completed_total>>

\* The handler returns, throws or does not exist; GateReleaser gives the slot
\* back first and records the completion in a later critical section.
LeaveGate(r) ==
  /\ Step(r, "handler", "record")
  /\ Release(r)
  /\ UNCHANGED <<lifeVars, queueVars, statVars>>

\* Mutant: the slot is given back twice.
CompleteReleasing(r) ==
  /\ Step(r, "record", "served")
  /\ completed_total' = completed_total + 1
  /\ in_flight' = in_flight - 1
  /\ UNCHANGED <<limit, waiting, stop_waiting, at, drain, asleep,
                 lifeVars, queueVars, queued, max_active, rejected_total>>

Complete(r) ==
  /\ Step(r, "record", "served")
  /\ completed_total' = completed_total + 1
  /\ UNCHANGED <<gateVars, lifeVars, queueVars, queued, max_active, rejected_total>>

\* The worker's job returns and the worker goes back to worker_loop.
JobDone(w) ==
  /\ worker[w] \in Callers /\ stage[worker[w]] \in {"served", "rejected"}
  /\ worker' = [worker EXCEPT ![w] = "awake"]
  /\ UNCHANGED <<gateVars, lifeVars, jobs, enq, stage, statVars>>

-----------------------------------------------------------------------------
(* shutdown(), called by stop().                                           *)

\* It first waits for bind_done, so it never overtakes bind_and_listen().
StopBegin ==
  /\ stopper = "idle" /\ phase \in {"bound", "listening"}
  /\ stopping' = TRUE
  /\ stopper' = "drain"
  /\ UNCHANGED <<settings, gateVars, phase, starts, queueVars, stage, statVars>>

\* drain_timeout_ms = 0 gives up on the queued requests at once.
GiveUpAtOnce ==
  /\ stopper = "drain" /\ ~drains
  /\ stopper' = "poll"
  /\ Shutdown
  /\ UNCHANGED <<settings, phase, stopping, starts, queueVars, stage, statVars>>

DrainBegin ==
  /\ stopper = "drain" /\ drains
  /\ DrainStart
  /\ stopper' = IF drain' = "idle" THEN "poll" ELSE "draining"
  /\ UNCHANGED <<settings, phase, stopping, starts, queueVars, stage, statVars>>

AfterDrain ==
  /\ stopper' = IF drain' = "idle" THEN "poll" ELSE "draining"
  /\ UNCHANGED <<settings, phase, stopping, starts, queueVars, stage, statVars>>

DrainWait ==
  /\ stopper = "draining"
  /\ DrainResume
  /\ AfterDrain

DrainExpires ==
  /\ stopper = "draining"
  /\ DrainTimeout
  /\ AfterDrain

DrainFailed ==
  /\ stopper = "draining" /\ drain = "timeout"
  /\ Shutdown
  /\ stopper' = "poll"
  /\ UNCHANGED <<settings, phase, stopping, starts, queueVars, stage, statVars>>

\* Mutant: http.stop() without waiting for is_running; it does nothing when
\* the accept loop has not started.
CloseListenerBlind ==
  /\ stopper = "poll" /\ phase \in {"bound", "listening"}
  /\ phase' = IF phase = "listening" THEN "closing" ELSE phase
  /\ stopper' = "join"
  /\ worker' = [w \in Workers |-> IF worker[w] = "asleep" THEN "awake" ELSE worker[w]]
  /\ enq = None
  /\ UNCHANGED <<settings, gateVars, stopping, starts, jobs, enq, stage, statVars>>

\* Wait until httplib says is_running, then http.stop().  The wait is bounded
\* by 5 s, taken to be longer than the way from bind to the accept loop.
CloseListener ==
  /\ stopper = "poll" /\ phase = "listening"
  /\ phase' = "closing"
  /\ stopper' = "join"
  /\ worker' = [w \in Workers |-> IF worker[w] = "asleep" THEN "awake" ELSE worker[w]]
  /\ enq = None
  /\ UNCHANGED <<settings, gateVars, stopping, starts, jobs, enq, stage, statVars>>

\* MonitoringQueue::shutdown() has joined the workers; the queue is destroyed
\* and the accept thread ends.
AcceptThreadEnds ==
  /\ phase = "closing" /\ \A w \in Workers : worker[w] = "gone"
  /\ phase' = "exited"
  /\ queued' = 0
  /\ UNCHANGED <<settings, gateVars, stopping, stopper, starts, queueVars, stage,
                 max_active, rejected_total, completed_total>>

\* worker.join(), the last gate.shutdown(), and stop()'s own resets.
StopEnd ==
  /\ stopper = "join" /\ phase = "exited"
  /\ stopper' = "idle"
  /\ phase' = "none"
  /\ Shutdown
  /\ UNCHANGED <<settings, stopping, starts, queueVars, stage, statVars>>

\* The bound on starts is reached and the server is stopped.
Finished ==
  /\ starts = MaxStarts /\ phase = "none" /\ stopper = "idle"
  /\ UNCHANGED serverVars

-----------------------------------------------------------------------------
HandleCore(r) ==
  \/ RejectStopping(r) \/ PassStopping(r) \/ Malformed(r)
  \/ AskGate(r) \/ EnterQueue(r) \/ GateWait(r) \/ GateTimeout(r) \/ LeaveWait(r)
  \/ RejectOverload(r) \/ SamplePeak(r) \/ LeaveGate(r) \/ Complete(r)

WorkerStep(w) == WorkerSleep(w) \/ WorkerPop(w) \/ WorkerExit(w) \/ UncountJob(w) \/ JobDone(w)

Stop == StopBegin \/ GiveUpAtOnce \/ DrainBegin \/ DrainWait \/ DrainExpires \/ DrainFailed
          \/ CloseListener \/ StopEnd

ServerNext ==
  \/ Configure \/ StartBackground \/ Bind \/ Listen
  \/ \E r \in Callers : Enqueue(r)
  \/ CountJob
  \/ \E w \in Workers : WorkerStep(w)
  \/ \E r \in Callers : HandleCore(r)
  \/ Stop \/ AcceptThreadEnds
  \/ Finished

ServerSpec == ServerInit /\ [][ServerNext]_serverVars

\* Every thread that can go on does; handlers return.  Nothing makes a client
\* connect, a server start or anyone call stop(), and no timeout is relied on.
ServerFairness ==
  /\ WF_serverVars(Bind) /\ WF_serverVars(Listen) /\ WF_serverVars(CountJob)
  /\ \A w \in Workers : WF_serverVars(WorkerStep(w))
  /\ \A r \in Callers :
       /\ WF_serverVars(RejectStopping(r) \/ PassStopping(r) \/ AskGate(r) \/ EnterQueue(r))
       /\ WF_serverVars(GateWait(r))
       /\ WF_serverVars(LeaveWait(r) \/ RejectOverload(r) \/ SamplePeak(r))
       /\ WF_serverVars(LeaveGate(r) \/ Complete(r))
  /\ WF_serverVars(GiveUpAtOnce \/ DrainBegin \/ DrainFailed \/ CloseListener \/ StopEnd)
  /\ WF_serverVars(DrainWait)
  /\ WF_serverVars(AcceptThreadEnds)

ServerFairSpec == ServerSpec /\ ServerFairness

-----------------------------------------------------------------------------
\* The requests that RpcServerStats::queued_requests is about: those in the
\* queue, and in WaitInQueue mode those in the gate's queue.
Backlog == {r \in Callers : stage[r] \in {"jobs", "gate", "leave"}}

\* Monitoring may lag, but once the accept thread has counted what it queued,
\* queued_requests is never less than what really waits, whatever the order
\* of on_job_enqueued, on_job_dequeued and the gate's own counting.
NeverUnderReports == enq = None => queued >= Cardinality(Backlog)

\* Every request that reached handle_core is counted once, as rejected or as
\* completed (the totals start again from zero at every start).
AccountedOnce ==
  starts = 1 => rejected_total + completed_total =
                  Cardinality({r \in Callers : stage[r] \in {"served", "rejected"}})

\* max_active, sampled after the fact, never exceeds the configured limit.
PeakWithinLimit ==
  phase \notin {"none", "starting"} /\ limit > 0 => max_active <= limit

\* The statistics of RpcServerStats as far as they can be relied on.
StatsExact == NeverUnderReports /\ AccountedOnce /\ PeakWithinLimit

\* When stop() is over nothing is left inside: no job is lost in the queue, no
\* slot is still held, and every accepted request was answered.
StoppedIsEmpty ==
  phase \in {"none", "exited"} =>
    /\ jobs = <<>> /\ in_flight = 0 /\ waiting = 0
    /\ \A r \in Callers : stage[r] \in {"new", "served", "rejected", "dropped"}

\* A queued request is turned away by the stop only after the drain window has
\* been used up, or when the window is configured to zero.
PatientDrain ==
  \A r \in Callers :
    stop_waiting /\ at[r] = "waiting" => drain = "timeout" \/ ~drains

\* What holds of the server at all times: its statistics, the patience of its
\* stop, and that the stop leaves nothing behind.
ServerInv == ServerTypeOK /\ StatsExact /\ StoppedIsEmpty /\ PatientDrain

\* The server uses the gate only as the gate's own specification allows.
UsesGate == GateSpec

\* stop() returns, also when it is called between bind and listen, although
\* no timeout of the gate's queue or of the drain window is relied on.
StopReturns == stopper # "idle" ~> stopper = "idle"

\* An accepted request is answered even when the server is stopped meanwhile.
AcceptedIsAnswered ==
  \A r \in Callers : stage[r] = "jobs" ~> stage[r] \in {"served", "rejected"}
-----------------------------------------------------------------------------
(***************************************************************************)
(* Proofs.  First, every step of the server is a step of the gate or       *)
(* leaves the gate alone, so whatever the gate's specification promises    *)
(* (exact counters, no lost wakeup, bounded leases) holds inside the       *)
(* server, for any number of requests, workers, limits and starts.  Then   *)
(* the server's own invariant.                                             *)
(***************************************************************************)
USE GateAssumption, ServerAssumption DEF GateAssumption, ServerAssumption

\* A request's step at the gate is one of the gate's own caller steps.
LEMMA CallerUsesGate ==
  ASSUME NEW r \in Callers, HandleCore(r)
  PROVE  CallerStep(r) \/ UNCHANGED gateVars
<1>1. CASE RejectStopping(r) \/ PassStopping(r) \/ Malformed(r) \/ EnterQueue(r)
             \/ LeaveWait(r) \/ SamplePeak(r) \/ Complete(r)
  BY <1>1 DEF RejectStopping, PassStopping, Malformed, EnterQueue, LeaveWait, SamplePeak, Complete
<1>2. CASE AskGate(r) \/ RejectOverload(r) \/ LeaveGate(r)
  BY <1>2 DEF AskGate, RejectOverload, LeaveGate, CallerStep
<1>3. CASE GateWait(r) \/ GateTimeout(r)
  BY <1>3 DEF GateWait, GateTimeout, CallerStep
<1> QED
  BY <1>1, <1>2, <1>3 DEF HandleCore

LEMMA StopUsesGate == Stop => GateNext \/ UNCHANGED gateVars
<1>1. GiveUpAtOnce \/ DrainFailed \/ StopEnd => GateNext
  BY DEF GiveUpAtOnce, DrainFailed, StopEnd, GateNext
<1>2. DrainBegin \/ DrainWait \/ DrainExpires => GateNext
  BY DEF DrainBegin, DrainWait, DrainExpires, GateNext
<1>3. StopBegin \/ CloseListener => UNCHANGED gateVars
  BY DEF StopBegin, CloseListener
<1> QED
  BY <1>1, <1>2, <1>3 DEF Stop

LEMMA StepUsesGate == [ServerNext]_serverVars => [GateNext]_gateVars
<1> SUFFICES ASSUME [ServerNext]_serverVars PROVE GateNext \/ UNCHANGED gateVars
  OBVIOUS
<1>1. CASE Configure
  BY <1>1 DEF Configure, GateNext
<1>2. CASE Bind
  BY <1>2 DEF Bind, GateNext
<1>3. CASE StartBackground \/ Listen \/ CountJob \/ AcceptThreadEnds
  BY <1>3 DEF StartBackground, Listen, CountJob, AcceptThreadEnds
<1>4. ASSUME NEW r \in Callers, Enqueue(r) PROVE UNCHANGED gateVars
  BY <1>4 DEF Enqueue
<1>5. ASSUME NEW w \in Workers, WorkerStep(w) PROVE UNCHANGED gateVars
  BY <1>5 DEF WorkerStep, WorkerSleep, WorkerPop, WorkerExit, UncountJob, JobDone
<1>6. ASSUME NEW r \in Callers, HandleCore(r) PROVE GateNext \/ UNCHANGED gateVars
  BY <1>6, CallerUsesGate DEF GateNext
<1>7. CASE Stop
  BY <1>7, StopUsesGate
<1>8. CASE Finished \/ UNCHANGED serverVars
  BY <1>8 DEF Finished, serverVars
<1> QED
  BY <1>1, <1>2, <1>3, <1>4, <1>5, <1>6, <1>7, <1>8 DEF ServerNext

\* The server uses the gate only as the gate's specification allows: no
\* request enters or leaves twice, no drain is started while one waits, and
\* the limit changes only through set_limit().
THEOREM ServerUsesGate == ServerSpec => UsesGate
<1>1. ServerInit => GateInit
  BY DEF ServerInit
<1> QED
  BY <1>1, StepUsesGate, PTL DEF ServerSpec, UsesGate, GateSpec

THEOREM ServerGateInvariant == ServerSpec => []IInv
<1> QED
  BY ServerUsesGate, GateInvariant, PTL DEF UsesGate

\* in_flight and waiting are exact while requests, workers and stop() race.
THEOREM ServerCountersExact == ServerSpec => []CountersExact
<1> QED
  BY ServerUsesGate, GateCountersExact, PTL DEF UsesGate

\* Neither a queued request nor the drain of stop() sleeps through its wakeup.
THEOREM ServerNoLostWakeup == ServerSpec => []NoLostWakeup
<1> QED
  BY ServerUsesGate, GateNoLostWakeup, PTL DEF UsesGate

\* The server as a whole implements bounded leases of its handler.
THEOREM ServerImplementsLeases == ServerSpec => ImplementsLeases
<1> QED
  BY ServerUsesGate, GateImplementsLeases, PTL DEF UsesGate

-----------------------------------------------------------------------------
(* The server's own invariant.  The statements of ServerInv are about what *)
(* is in the counters and in the queue when the server has stopped; they   *)
(* are not inductive, because they do not say who looks after a request.   *)

\* A request that was taken out of the queue is in the hands of a worker
\* until it is answered.
Active == {"core", "parsed", "gate", "leave", "verdict", "handler", "record"}

InJobs(r) == \E i \in 1..Len(jobs) : jobs[i] = r
InHands(r) == \E w \in Workers : worker[w] = r

Manned ==
  \A r \in Callers :
    /\ stage[r] \in Active => InHands(r)
    /\ stage[r] = "jobs" => InJobs(r) \/ InHands(r)

\* There are workers only while httplib listens, and one is gone for good only
\* after the queue is empty.
Crewed ==
  /\ phase \notin {"listening", "closing"} => jobs = <<>> /\ \A w \in Workers : worker[w] = "gone"
  /\ phase = "listening" => \A w \in Workers : worker[w] # "gone"
  /\ (\E w \in Workers : worker[w] = "gone") => jobs = <<>>

\* The gate knows of a request only between its admission and the return of
\* its handler.
AtGate ==
  \A r \in Callers : at[r] # "out" => stage[r] \in {"gate", "leave", "verdict", "handler"}

\* A running server's gate is shut down only after the drain has expired, or
\* without a drain window, by a stop that no longer drains.
ShutKnown ==
  stop_waiting /\ phase \in {"bound", "listening", "closing"} =>
    /\ stopper \in {"poll", "join"}
    /\ drain = "timeout" \/ ~drains

\* Nothing has happened before the first start.
Unstarted ==
  starts = 0 \/ (starts = 1 /\ phase = "starting") =>
    /\ starts = 0 => phase = "none"
    /\ \A r \in Callers : stage[r] = "new"
    /\ rejected_total = 0 /\ completed_total = 0

\* The job that the accept thread has queued and not counted makes up for what
\* queued_requests lacks.
Covered == queued + (IF enq = None THEN 0 ELSE 1) >= Cardinality(Backlog)

\* The gate is never fuller than its limit, which changes only while nothing runs.
BelowLimit == limit > 0 => in_flight <= limit

ServerIInv ==
  /\ IInv /\ ServerTypeOK
  /\ Manned /\ Crewed /\ AtGate /\ ShutKnown /\ Unstarted
  /\ Covered /\ AccountedOnce /\ BelowLimit /\ PeakWithinLimit

\* What a request in handle_core can do to the rest of the server: it moves
\* alone, from one place in a worker's hands to the next or to its answer; the
\* waiting counter never loses more than the request itself, the totals gain
\* one with the answer, and a slot is taken only below the limit.
LEMMA HandleCoreMoves ==
  ASSUME ServerTypeOK, AtGate, NEW r \in Callers, HandleCore(r)
  PROVE  /\ UNCHANGED <<lifeVars, queueVars, limit, stop_waiting, drain>>
         /\ stage[r] \in Active
         /\ stage' \in [Callers -> Stages]
         /\ stage'[r] \in Active \cup {"served", "rejected"}
         /\ \A x \in Callers : x # r => stage'[x] = stage[x] /\ at'[x] = at[x]
         /\ at'[r] # "out" => stage'[r] \in {"gate", "leave", "verdict", "handler"}
         /\ queued' \in Nat /\ rejected_total' \in Nat /\ completed_total' \in Nat
         /\ queued' >= queued + (IF stage'[r] \in {"jobs", "gate", "leave"} THEN 1 ELSE 0)
                              - (IF stage[r] \in {"jobs", "gate", "leave"} THEN 1 ELSE 0)
         /\ rejected_total' + completed_total' = rejected_total + completed_total
              + (IF stage'[r] \in {"served", "rejected"} THEN 1 ELSE 0)
         /\ max_active' \in {max_active, in_flight}
         /\ in_flight' <= in_flight \/ (in_flight' = in_flight + 1 /\ ~Full)
<1>1. CASE RejectStopping(r)
  BY <1>1 DEF ServerTypeOK, GateTypeOK, AtGate, Active, Stages, gateVars, lifeVars, queueVars,
     statVars, settings, Step, RejectStopping
<1>2. CASE PassStopping(r)
  BY <1>2 DEF ServerTypeOK, GateTypeOK, AtGate, Active, Stages, gateVars, lifeVars, queueVars,
     statVars, settings, Step, PassStopping
<1>3. CASE Malformed(r)
  BY <1>3 DEF ServerTypeOK, GateTypeOK, AtGate, Active, Stages, gateVars, lifeVars, queueVars,
     statVars, settings, Step, Malformed
<1>4. CASE AskGate(r)
  BY <1>4 DEF ServerTypeOK, GateTypeOK, AtGate, Active, Stages, gateVars, lifeVars, queueVars,
     statVars, settings, Step, AskGate, Acquire, Full
<1>5. CASE EnterQueue(r)
  BY <1>5 DEF ServerTypeOK, GateTypeOK, AtGate, Active, Stages, gateVars, lifeVars, queueVars,
     statVars, settings, Step, EnterQueue
<1>6. CASE GateTimeout(r)
  BY <1>6 DEF ServerTypeOK, GateTypeOK, AtGate, Active, Stages, gateVars, lifeVars, queueVars,
     statVars, settings, Step, GateTimeout, QueueTimeout, LeaveQueue, MayLeaveQueue, Full,
     AfterGate
<1>7. CASE LeaveWait(r)
  BY <1>7 DEF ServerTypeOK, GateTypeOK, AtGate, Active, Stages, gateVars, lifeVars, queueVars,
     statVars, settings, Step, LeaveWait
<1>8. CASE RejectOverload(r)
  BY <1>8 DEF ServerTypeOK, GateTypeOK, AtGate, Active, Stages, gateVars, lifeVars, queueVars,
     statVars, settings, Step, RejectOverload, Refused
<1>9. CASE SamplePeak(r)
  BY <1>9 DEF ServerTypeOK, GateTypeOK, AtGate, Active, Stages, gateVars, lifeVars, queueVars,
     statVars, settings, Step, SamplePeak
<1>10. CASE LeaveGate(r)
  BY <1>10 DEF ServerTypeOK, GateTypeOK, AtGate, Active, Stages, gateVars, lifeVars, queueVars,
     statVars, settings, Step, LeaveGate, Release
<1>11. CASE Complete(r)
  BY <1>11 DEF ServerTypeOK, GateTypeOK, AtGate, Active, Stages, gateVars, lifeVars, queueVars,
     statVars, settings, Step, Complete
<1>12. CASE GateWait(r) /\ AcquireForFree(r)
  BY <1>12 DEF ServerTypeOK, GateTypeOK, AtGate, Active, Stages, gateVars, lifeVars, queueVars,
     statVars, settings, Step, GateWait, AfterGate, AcquireForFree, Full
<1>13. CASE GateWait(r) /\ AcquireForQueue(r)
  BY <1>13 DEF ServerTypeOK, GateTypeOK, AtGate, Active, Stages, gateVars, lifeVars, queueVars,
     statVars, settings, Step, GateWait, AfterGate, AcquireForQueue, Full
<1>14. CASE GateWait(r) /\ Resume(r)
  BY <1>14 DEF ServerTypeOK, GateTypeOK, AtGate, Active, Stages, gateVars, lifeVars, queueVars,
     statVars, settings, Step, GateWait, AfterGate, Resume, LeaveQueue, MayLeaveQueue, Full
<1>15. CASE GateWait(r) /\ SleepAgain(r)
  BY <1>15 DEF ServerTypeOK, GateTypeOK, AtGate, Active, Stages, gateVars, lifeVars, queueVars,
     statVars, settings, Step, GateWait, AfterGate, SleepAgain, Full
<1> QED
  BY <1>1, <1>2, <1>3, <1>4, <1>5, <1>6, <1>7, <1>8, <1>9, <1>10, <1>11, <1>12, <1>13, <1>14,
     <1>15 DEF HandleCore, GateWait

\* stop() leaves the requests, the queue and the statistics alone.
LEMMA StopMoves ==
  ASSUME ServerTypeOK, Stop
  PROVE  /\ UNCHANGED <<settings, starts, jobs, enq, stage, statVars>>
         /\ UNCHANGED <<limit, in_flight, at>>
         /\ stopper' \in {"idle", "drain", "draining", "poll", "join"}
         /\ stopping' \in BOOLEAN
<1>1. CASE StopBegin
  BY <1>1 DEF ServerTypeOK, StopBegin, settings, statVars, queueVars, gateVars
<1>2. CASE GiveUpAtOnce \/ DrainFailed \/ StopEnd
  BY <1>2 DEF ServerTypeOK, GiveUpAtOnce, DrainFailed, StopEnd, Shutdown,
     settings, statVars, queueVars, gateVars
<1>3. CASE DrainBegin \/ DrainWait \/ DrainExpires
  BY <1>3 DEF ServerTypeOK, DrainBegin, DrainWait, DrainExpires, AfterDrain, DrainStart,
     DrainResume, DrainTimeout, settings, statVars, queueVars, gateVars
<1>4. CASE CloseListener
  BY <1>4 DEF ServerTypeOK, CloseListener, settings, statVars, queueVars, gateVars
<1> QED
  BY <1>1, <1>2, <1>3, <1>4 DEF Stop

\* Of all of stop(), only closing the listener touches the workers.
LEMMA StopWorkers ==
  ASSUME ServerTypeOK, Stop
  PROVE  \/ UNCHANGED worker /\ ~CloseListener
         \/ /\ CloseListener
            /\ worker' \in [Workers -> Callers \cup {"awake", "asleep", "gone"}]
            /\ \A w \in Workers : /\ worker[w] # "asleep" => worker'[w] = worker[w]
                                  /\ worker[w] = "asleep" => worker'[w] = "awake"
<1>1. CASE ~CloseListener
  BY <1>1 DEF Stop, StopBegin, GiveUpAtOnce, DrainBegin, DrainWait, DrainExpires, DrainFailed,
     AfterDrain, StopEnd, queueVars
<1>2. CASE CloseListener
  BY <1>2 DEF CloseListener, ServerTypeOK
<1> QED
  BY <1>1, <1>2

\* Between two runs of the server's threads nobody is inside.
LEMMA NobodyInside ==
  ASSUME ServerTypeOK, Crewed, Manned, \A w \in Workers : worker[w] = "gone"
  PROVE  /\ jobs = <<>>
         /\ \A r \in Callers : stage[r] \in {"new", "served", "rejected", "dropped"}
<1>1. jobs = <<>>
  BY DEF Crewed
<1>2. \A r \in Callers : ~InHands(r)
  BY DEF InHands
<1>3. \A r \in Callers : ~InJobs(r)
  BY <1>1 DEF InJobs
<1> QED
  BY <1>1, <1>2, <1>3 DEF Manned, Active, ServerTypeOK, Stages

LEMMA NobodyAtGate ==
  ASSUME IInv, ServerTypeOK, Crewed, Manned, AtGate, \A w \in Workers : worker[w] = "gone"
  PROVE  in_flight = 0 /\ waiting = 0
<1>1. \A r \in Callers : at[r] = "out"
  BY NobodyInside DEF AtGate
<1>2. Count(Callers, at, "in") = 0 /\ Count(Callers, at, "waiting") = 0
  BY <1>1, CountZero
<1> QED
  BY <1>2 DEF IInv, CountersExact

LEMMA TypeStep ==
  ASSUME ServerTypeOK, AtGate, GateTypeOK', ServerNext
  PROVE  ServerTypeOK'
<1>1. CASE Configure \/ StartBackground \/ Finished
  BY <1>1 DEF ServerTypeOK, Stages, gateVars, lifeVars, queueVars, statVars, settings, serverVars,
     Configure,
     StartBackground, Finished
<1>2. CASE Bind
  BY <1>2 DEF ServerTypeOK, Stages, gateVars, lifeVars, queueVars, statVars, settings, serverVars,
     Bind
<1>3. CASE AcceptThreadEnds
  BY <1>3 DEF ServerTypeOK, Stages, gateVars, lifeVars, queueVars, statVars, settings, serverVars,
     AcceptThreadEnds
<1>4. CASE Listen
  BY <1>4 DEF ServerTypeOK, Stages, gateVars, lifeVars, queueVars, statVars, settings, serverVars,
     Listen
<1>5. ASSUME NEW r \in Callers, Enqueue(r) PROVE ServerTypeOK'
  BY <1>5 DEF ServerTypeOK, Stages, gateVars, lifeVars, queueVars, statVars, settings, serverVars,
     Enqueue
<1>6. CASE CountJob
  BY <1>6 DEF ServerTypeOK, Stages, gateVars, lifeVars, queueVars, statVars, settings, serverVars,
     CountJob
<1>7. ASSUME NEW r \in Callers, HandleCore(r) PROVE ServerTypeOK'
  <2>1. UNCHANGED <<lifeVars, queueVars>> /\ stage' \in [Callers -> Stages]
    BY <1>7, HandleCoreMoves
  <2>2. /\ queued' \in Nat /\ rejected_total' \in Nat /\ completed_total' \in Nat
        /\ max_active' \in {max_active, in_flight}
    BY <1>7, HandleCoreMoves
  <2>3. in_flight \in Nat
    BY DEF ServerTypeOK, GateTypeOK
  <2> QED
    BY <2>1, <2>2, <2>3 DEF ServerTypeOK, lifeVars, queueVars, settings
<1>8. CASE Stop
  BY <1>8, StopMoves, StopWorkers DEF ServerTypeOK, settings, statVars, Stop, StopBegin,
     GiveUpAtOnce,
     DrainBegin, DrainWait, DrainExpires, DrainFailed, AfterDrain, CloseListener, StopEnd
<1>9. ASSUME NEW w \in Workers, WorkerSleep(w) \/ WorkerPop(w) \/ WorkerExit(w) PROVE ServerTypeOK'
  <2>1. UNCHANGED <<lifeVars, enq, stage, statVars>>
    BY <1>9 DEF WorkerSleep, WorkerPop, WorkerExit
  <2>2. jobs' \in Seq(Callers)
    <3>1. CASE WorkerPop(w)
      BY <3>1 DEF WorkerPop, ServerTypeOK
    <3>2. CASE WorkerSleep(w) \/ WorkerExit(w)
      BY <3>2 DEF WorkerSleep, WorkerExit, ServerTypeOK
    <3> QED
      BY <1>9, <3>1, <3>2
  <2>3. worker' \in [Workers -> Callers \cup {"awake", "asleep", "gone"}]
    <3>1. CASE WorkerPop(w)
      <4>1. Head(jobs) \in Callers
        BY <3>1 DEF WorkerPop, ServerTypeOK
      <4> QED
        BY <3>1, <4>1 DEF WorkerPop, ServerTypeOK
    <3>2. CASE WorkerSleep(w) \/ WorkerExit(w)
      BY <3>2 DEF WorkerSleep, WorkerExit, ServerTypeOK
    <3> QED
      BY <1>9, <3>1, <3>2
  <2> QED
    BY <2>1, <2>2, <2>3 DEF ServerTypeOK, lifeVars, statVars, settings
<1>10. ASSUME NEW w \in Workers, UncountJob(w) \/ JobDone(w) PROVE ServerTypeOK'
  BY <1>10 DEF ServerTypeOK, Stages, gateVars, lifeVars, queueVars, statVars, settings,
     serverVars, UncountJob, JobDone
<1> QED
  BY <1>1, <1>2, <1>3, <1>4, <1>5, <1>6, <1>7, <1>8, <1>9, <1>10 DEF ServerNext, WorkerStep

LEMMA CrewedStep ==
  ASSUME ServerTypeOK, AtGate, Crewed, ServerNext
  PROVE  Crewed'
<1>1. CASE Configure \/ StartBackground \/ Bind \/ AcceptThreadEnds \/ Finished
  BY <1>1 DEF ServerTypeOK, Crewed, gateVars, lifeVars, queueVars, statVars, settings, serverVars,
     Configure,
     StartBackground, Bind, AcceptThreadEnds, Finished
<1>2. CASE Listen
  BY <1>2 DEF ServerTypeOK, Crewed, gateVars, lifeVars, queueVars, statVars, settings, serverVars,
     Listen
<1>3. ASSUME NEW r \in Callers, Enqueue(r) PROVE Crewed'
  BY <1>3 DEF ServerTypeOK, Crewed, gateVars, lifeVars, queueVars, statVars, settings, serverVars,
     Enqueue
<1>4. CASE CountJob
  BY <1>4 DEF ServerTypeOK, Crewed, gateVars, lifeVars, queueVars, statVars, settings, serverVars,
     CountJob
<1>5. ASSUME NEW r \in Callers, HandleCore(r) PROVE Crewed'
  BY <1>5, HandleCoreMoves DEF Crewed, lifeVars, queueVars
<1>6. CASE Stop
  BY <1>6, StopMoves, StopWorkers DEF Crewed, gateVars, lifeVars, queueVars, statVars, settings,
     serverVars, Stop, StopBegin, GiveUpAtOnce,
     DrainBegin, DrainWait, DrainExpires, DrainFailed, AfterDrain, CloseListener, StopEnd
<1>7. ASSUME NEW w \in Workers, WorkerSleep(w) \/ WorkerPop(w) PROVE Crewed'
  BY <1>7 DEF ServerTypeOK, Crewed, gateVars, lifeVars, queueVars, statVars, settings, serverVars,
     WorkerSleep, WorkerPop
<1>8. ASSUME NEW w \in Workers, WorkerExit(w) PROVE Crewed'
  BY <1>8 DEF ServerTypeOK, Crewed, gateVars, lifeVars, queueVars, statVars, settings, serverVars,
     WorkerExit
<1>9. ASSUME NEW w \in Workers, UncountJob(w) \/ JobDone(w) PROVE Crewed'
  BY <1>9 DEF ServerTypeOK, Crewed, gateVars, lifeVars, queueVars, statVars, settings, serverVars,
     UncountJob, JobDone
<1> QED
  BY <1>1, <1>2, <1>3, <1>4, <1>5, <1>6, <1>7, <1>8, <1>9 DEF ServerNext, WorkerStep

LEMMA MannedStep ==
  ASSUME ServerTypeOK, AtGate, Crewed, Manned, ServerNext
  PROVE  Manned'
<1>1. CASE Configure \/ StartBackground \/ Bind \/ AcceptThreadEnds \/ Finished
  BY <1>1 DEF ServerTypeOK, Manned, InJobs, InHands, gateVars, lifeVars, queueVars, statVars,
     settings, serverVars, Configure,
     StartBackground, Bind, AcceptThreadEnds, Finished
<1>2. CASE Listen
  <2>1. \A w \in Workers : worker[w] = "gone"
    BY <1>2 DEF Crewed, Listen
  <2>2. \A r \in Callers : stage[r] \in {"new", "served", "rejected", "dropped"}
    BY <2>1, NobodyInside
  <2> QED
    BY <1>2, <2>2 DEF Listen, Manned, Active
<1>3. ASSUME NEW r \in Callers, Enqueue(r) PROVE Manned'
  <2>1. CASE UNCHANGED jobs
    BY <1>3, <2>1 DEF ServerTypeOK, Manned, InJobs, InHands, Active, Enqueue, queueVars
  <2>2. CASE jobs' = Append(jobs, r)
    <3>1. /\ Len(jobs') = Len(jobs) + 1 /\ jobs'[Len(jobs) + 1] = r
          /\ \A i \in 1..Len(jobs) : jobs'[i] = jobs[i]
          /\ Len(jobs) \in Nat
      BY <2>2 DEF ServerTypeOK
    <3>2. InJobs(r)' /\ \A x \in Callers : InJobs(x) => InJobs(x)'
      BY <3>1 DEF InJobs
    <3>3. /\ \A x \in Callers : InHands(x)' <=> InHands(x)
          /\ \A x \in Callers : x # r => stage'[x] = stage[x]
          /\ stage'[r] \notin Active
      BY <1>3 DEF ServerTypeOK, Enqueue, InHands, Active
    <3> QED
      BY <3>2, <3>3 DEF Manned
  <2> QED
    BY <1>3, <2>1, <2>2 DEF Enqueue
<1>4. CASE CountJob
  BY <1>4 DEF ServerTypeOK, Manned, InJobs, InHands, gateVars, lifeVars, queueVars, statVars,
     settings, serverVars, CountJob
<1>5. ASSUME NEW r \in Callers, HandleCore(r) PROVE Manned'
  BY <1>5, HandleCoreMoves DEF Manned, InJobs, InHands, Active, queueVars, lifeVars
<1>6. CASE Stop
  BY <1>6, StopMoves, StopWorkers DEF Manned, InJobs, InHands, ServerTypeOK
<1>7. ASSUME NEW w \in Workers, WorkerSleep(w) \/ WorkerExit(w) \/ JobDone(w) PROVE Manned'
  BY <1>7 DEF ServerTypeOK, Manned, InJobs, InHands, gateVars, lifeVars, queueVars, statVars,
     settings, serverVars, Active,
     WorkerSleep, WorkerExit, JobDone
<1>8. ASSUME NEW w \in Workers, UncountJob(w) PROVE Manned'
  BY <1>8 DEF ServerTypeOK, Manned, InJobs, InHands, gateVars, lifeVars, queueVars, statVars,
     settings, serverVars, Active, UncountJob
<1>9. ASSUME NEW w \in Workers, WorkerPop(w) PROVE Manned'
  <2>1. /\ Len(jobs') = Len(jobs) - 1 /\ Len(jobs) \in Nat \ {0}
        /\ \A i \in 1..Len(jobs') : jobs'[i] = jobs[i + 1]
        /\ Head(jobs) = jobs[1]
    BY <1>9 DEF ServerTypeOK, WorkerPop
  <2>2. worker'[w] = jobs[1] /\ \A v \in Workers : v # w => worker'[v] = worker[v]
    BY <1>9, <2>1 DEF ServerTypeOK, WorkerPop
  <2>3. ASSUME NEW x \in Callers, InHands(x) PROVE InHands(x)'
    BY <1>9, <2>2, <2>3 DEF InHands, WorkerPop
  <2>4. ASSUME NEW x \in Callers, InJobs(x) PROVE InJobs(x)' \/ InHands(x)'
    <3>1. PICK i \in 1..Len(jobs) : jobs[i] = x
      BY <2>4 DEF InJobs
    <3>2. CASE i = 1
      BY <2>2, <3>1, <3>2 DEF InHands
    <3>3. CASE i # 1
      <4>1. i - 1 \in 1..Len(jobs') /\ jobs'[i - 1] = x
        BY <2>1, <3>1, <3>3
      <4> QED
        BY <4>1 DEF InJobs
    <3> QED
      BY <3>2, <3>3
  <2> QED
    BY <1>9, <2>3, <2>4 DEF Manned, WorkerPop
<1> QED
  BY <1>1, <1>2, <1>3, <1>4, <1>5, <1>6, <1>7, <1>8, <1>9 DEF ServerNext, WorkerStep

LEMMA AtGateStep ==
  ASSUME ServerTypeOK, AtGate, ServerNext
  PROVE  AtGate'
<1>1. CASE Configure \/ StartBackground \/ Bind \/ Listen \/ AcceptThreadEnds \/ Finished
  BY <1>1 DEF AtGate, gateVars, lifeVars, queueVars, statVars, settings, serverVars, Configure,
     SetLimit, StartBackground, Bind, Reset, Listen, AcceptThreadEnds, Finished
<1>2. ASSUME NEW r \in Callers, Enqueue(r) PROVE AtGate'
  BY <1>2 DEF ServerTypeOK, AtGate, gateVars, lifeVars, queueVars, statVars, settings, serverVars,
     Enqueue
<1>3. CASE CountJob
  BY <1>3 DEF AtGate, gateVars, lifeVars, queueVars, statVars, settings, serverVars, CountJob
<1>4. ASSUME NEW r \in Callers, HandleCore(r) PROVE AtGate'
  BY <1>4, HandleCoreMoves DEF AtGate
<1>5. CASE Stop
  BY <1>5, StopMoves DEF AtGate
<1>6. ASSUME NEW w \in Workers, WorkerStep(w) PROVE AtGate'
  BY <1>6 DEF ServerTypeOK, AtGate, gateVars, lifeVars, queueVars, statVars, settings, serverVars,
     WorkerStep, WorkerSleep,
     WorkerPop, WorkerExit, UncountJob, JobDone
<1> QED
  BY <1>1, <1>2, <1>3, <1>4, <1>5, <1>6 DEF ServerNext, WorkerStep

LEMMA ShutKnownStep ==
  ASSUME ServerTypeOK, AtGate, ShutKnown, ServerNext
  PROVE  ShutKnown'
<1>1. CASE Configure \/ StartBackground \/ Bind \/ Listen \/ AcceptThreadEnds \/ Finished
  BY <1>1 DEF ShutKnown, gateVars, lifeVars, queueVars, statVars, settings, serverVars, Configure,
     SetLimit, StartBackground, Bind, Reset, Listen, AcceptThreadEnds, Finished
<1>2. ASSUME NEW r \in Callers, Enqueue(r) PROVE ShutKnown'
  BY <1>2 DEF ShutKnown, gateVars, lifeVars, queueVars, statVars, settings, serverVars, Enqueue
<1>3. CASE CountJob
  BY <1>3 DEF ShutKnown, gateVars, lifeVars, queueVars, statVars, settings, serverVars, CountJob
<1>4. ASSUME NEW r \in Callers, HandleCore(r) PROVE ShutKnown'
  BY <1>4, HandleCoreMoves DEF ShutKnown, lifeVars, settings
<1>5. CASE StopBegin \/ GiveUpAtOnce \/ DrainFailed \/ StopEnd \/ CloseListener
  BY <1>5 DEF ServerTypeOK, ShutKnown, gateVars, lifeVars, queueVars, statVars, settings,
     serverVars, StopBegin, GiveUpAtOnce,
     DrainFailed, StopEnd, CloseListener, Shutdown
<1>6. CASE DrainBegin \/ DrainWait \/ DrainExpires
  BY <1>6 DEF ServerTypeOK, ShutKnown, gateVars, lifeVars, queueVars, statVars, settings,
     serverVars, GateTypeOK, AfterDrain, DrainBegin,
     DrainWait, DrainExpires, DrainStart, DrainResume, DrainTimeout
<1>7. ASSUME NEW w \in Workers, WorkerStep(w) PROVE ShutKnown'
  BY <1>7 DEF ShutKnown, gateVars, lifeVars, queueVars, statVars, settings, serverVars,
     WorkerStep, WorkerSleep,
     WorkerPop, WorkerExit, UncountJob, JobDone
<1> QED
  BY <1>1, <1>2, <1>3, <1>4, <1>5, <1>6, <1>7 DEF ServerNext, Stop

LEMMA UnstartedStep ==
  ASSUME ServerTypeOK, AtGate, Unstarted, ServerNext
  PROVE  Unstarted'
<1>1. CASE Configure \/ StartBackground \/ Bind \/ Listen \/ AcceptThreadEnds \/ Finished
  BY <1>1 DEF ServerTypeOK, Unstarted, gateVars, lifeVars, queueVars, statVars, settings,
     serverVars, Configure,
     StartBackground, Bind, Listen, AcceptThreadEnds, Finished
<1>2. ASSUME NEW r \in Callers, Enqueue(r) PROVE Unstarted'
  BY <1>2 DEF ServerTypeOK, Unstarted, gateVars, lifeVars, queueVars, statVars, settings,
     serverVars, Enqueue
<1>3. CASE CountJob
  BY <1>3 DEF ServerTypeOK, Unstarted, gateVars, lifeVars, queueVars, statVars, settings,
     serverVars, CountJob
<1>4. ASSUME NEW r \in Callers, HandleCore(r) PROVE Unstarted'
  BY <1>4, HandleCoreMoves DEF Unstarted, Active, lifeVars
<1>5. CASE Stop
  BY <1>5, StopMoves DEF ServerTypeOK, Unstarted, gateVars, lifeVars, queueVars, statVars,
     settings, serverVars, Stop, StopBegin, GiveUpAtOnce, DrainBegin, DrainWait, DrainExpires,
     DrainFailed, AfterDrain, CloseListener, StopEnd
<1>6. ASSUME NEW w \in Workers, WorkerStep(w) PROVE Unstarted'
  BY <1>6 DEF ServerTypeOK, Unstarted, gateVars, lifeVars, queueVars, statVars, settings,
     serverVars, WorkerStep, WorkerSleep,
     WorkerPop, WorkerExit, UncountJob, JobDone
<1> QED
  BY <1>1, <1>2, <1>3, <1>4, <1>5, <1>6 DEF ServerNext, WorkerStep

\* One request moves and the backlog, or the number of the answered, follows it.
LEMMA BacklogMove ==
  ASSUME NEW r \in Callers, \A x \in Callers : x # r => stage'[x] = stage[x]
  PROVE  Cardinality(Backlog)' = Cardinality(Backlog)
           + (IF stage'[r] \in {"jobs", "gate", "leave"} THEN 1 ELSE 0)
           - (IF stage[r] \in {"jobs", "gate", "leave"} THEN 1 ELSE 0)
<1>1. /\ Backlog = InGroup(Callers, stage, {"jobs", "gate", "leave"})
      /\ Backlog' = InGroup(Callers, stage', {"jobs", "gate", "leave"})
  BY DEF Backlog, InGroup
<1>2. IsFiniteSet(Callers)
  OBVIOUS
<1> QED
  BY <1>1, <1>2, GroupMove

LEMMA BacklogNat == Cardinality(Backlog) \in Nat
<1>1. IsFiniteSet(Backlog)
  BY FS_Subset DEF Backlog
<1> QED
  BY <1>1, FS_CardinalityType

Answered == {r \in Callers : stage[r] \in {"served", "rejected"}}

LEMMA AnsweredMove ==
  ASSUME NEW r \in Callers, \A x \in Callers : x # r => stage'[x] = stage[x]
  PROVE  Cardinality(Answered)' = Cardinality(Answered)
           + (IF stage'[r] \in {"served", "rejected"} THEN 1 ELSE 0)
           - (IF stage[r] \in {"served", "rejected"} THEN 1 ELSE 0)
<1>1. /\ Answered = InGroup(Callers, stage, {"served", "rejected"})
      /\ Answered' = InGroup(Callers, stage', {"served", "rejected"})
  BY DEF Answered, InGroup
<1>2. IsFiniteSet(Callers)
  OBVIOUS
<1> QED
  BY <1>1, <1>2, GroupMove

LEMMA AnsweredNat == Cardinality(Answered) \in Nat
<1>1. IsFiniteSet(Answered)
  BY FS_Subset DEF Answered
<1> QED
  BY <1>1, FS_CardinalityType

LEMMA CoveredStep ==
  ASSUME ServerTypeOK, AtGate, Crewed, Manned, Covered, ServerNext
  PROVE  Covered'
<1>1. CASE Configure \/ StartBackground \/ Listen \/ Finished \/ Stop
  <2>1. UNCHANGED <<queued, enq, stage>>
    BY <1>1, StopMoves DEF Configure, StartBackground, Listen, Finished, queueVars, statVars,
       serverVars
  <2> QED
    BY <2>1 DEF Covered, Backlog
<1>2. CASE Bind \/ AcceptThreadEnds
  <2>1. \A w \in Workers : worker[w] = "gone"
    BY <1>2 DEF Crewed, Bind, AcceptThreadEnds
  <2>2. \A r \in Callers : stage'[r] \in {"new", "served", "rejected", "dropped"}
    BY <1>2, <2>1, NobodyInside DEF Bind, AcceptThreadEnds
  <2>3. Backlog' = {}
    BY <2>2 DEF Backlog
  <2>4. Cardinality(Backlog)' = 0 /\ queued' = 0
    BY <1>2, <2>3, FS_EmptySet DEF Bind, AcceptThreadEnds
  <2> QED
    BY <2>4 DEF Covered
<1>3. ASSUME NEW r \in Callers, Enqueue(r) PROVE Covered'
  <2>1. \A x \in Callers : x # r => stage'[x] = stage[x]
    BY <1>3 DEF Enqueue, ServerTypeOK
  <2>2. /\ stage[r] = "new" /\ queued' = queued /\ enq = None
        /\ \/ stage'[r] = "dropped" /\ enq' = None
           \/ stage'[r] = "jobs" /\ enq' # None
    BY <1>3 DEF Enqueue, ServerTypeOK, statVars
  <2>3. queued \in Nat
    BY DEF ServerTypeOK
  <2> QED
    BY <2>1, <2>2, <2>3, BacklogMove, BacklogNat DEF Covered
<1>4. CASE CountJob
  <2>1. queued' = queued + 1 /\ enq # None /\ enq' = None /\ stage' = stage /\ queued \in Nat
    BY <1>4 DEF CountJob, ServerTypeOK
  <2>2. Cardinality(Backlog)' = Cardinality(Backlog)
    BY <2>1 DEF Backlog
  <2> QED
    BY <2>1, <2>2, BacklogNat DEF Covered
<1>5. ASSUME NEW r \in Callers, HandleCore(r) PROVE Covered'
  <2>1. /\ \A x \in Callers : x # r => stage'[x] = stage[x]
        /\ enq' = enq
    BY <1>5, HandleCoreMoves DEF queueVars
  <2>2. /\ queued' \in Nat
        /\ queued' >= queued + (IF stage'[r] \in {"jobs", "gate", "leave"} THEN 1 ELSE 0)
                             - (IF stage[r] \in {"jobs", "gate", "leave"} THEN 1 ELSE 0)
    BY <1>5, HandleCoreMoves
  <2>3. queued \in Nat
    BY DEF ServerTypeOK
  <2> QED
    BY <2>1, <2>2, <2>3, BacklogMove, BacklogNat DEF Covered
<1>6. ASSUME NEW w \in Workers, UncountJob(w) PROVE Covered'
  <2> DEFINE r == worker[w]
  <2>1. /\ r \in Callers /\ stage[r] = "jobs" /\ stage'[r] = "core"
        /\ \A x \in Callers : x # r => stage'[x] = stage[x]
        /\ enq' = enq
    BY <1>6 DEF UncountJob, ServerTypeOK, queueVars
  <2>2. queued' = (IF queued > 0 THEN queued - 1 ELSE 0) /\ queued \in Nat
    BY <1>6 DEF UncountJob, ServerTypeOK
  <2>3. Cardinality(Backlog)' = Cardinality(Backlog) - 1
    BY <2>1, BacklogMove, BacklogNat
  <2> QED
    BY <2>1, <2>2, <2>3, BacklogNat DEF Covered
<1>7. ASSUME NEW w \in Workers, WorkerSleep(w) \/ WorkerPop(w) \/ WorkerExit(w) \/ JobDone(w) PROVE Covered'
  <2>1. UNCHANGED <<queued, enq, stage>>
    BY <1>7 DEF WorkerSleep, WorkerPop, WorkerExit, JobDone, statVars
  <2> QED
    BY <2>1 DEF Covered, Backlog
<1> QED
  BY <1>1, <1>2, <1>3, <1>4, <1>5, <1>6, <1>7 DEF ServerNext, WorkerStep

LEMMA AccountedStep ==
  ASSUME ServerTypeOK, AtGate, Unstarted, AccountedOnce, ServerNext
  PROVE  AccountedOnce'
<1>1. CASE Configure \/ Listen \/ Finished \/ Stop \/ CountJob \/ AcceptThreadEnds
  <2>1. UNCHANGED <<starts, stage, rejected_total, completed_total>>
    BY <1>1, StopMoves DEF Configure, Listen, Finished, CountJob, AcceptThreadEnds, lifeVars,
       statVars, serverVars
  <2> QED
    BY <2>1 DEF AccountedOnce
<1>2. CASE StartBackground \/ Bind
  <2> SUFFICES ASSUME starts' = 1 PROVE rejected_total' + completed_total' = Cardinality(Answered)'
    BY DEF AccountedOnce, Answered
  <2>1. starts = 0 \/ (starts = 1 /\ phase = "starting")
    BY <1>2 DEF ServerTypeOK, StartBackground, Bind
  <2>2. Answered' = {}
    BY <1>2, <2>1 DEF Unstarted, Answered, StartBackground, Bind
  <2>3. rejected_total' = 0 /\ completed_total' = 0
    BY <1>2, <2>1 DEF Unstarted, StartBackground, Bind, statVars
  <2> QED
    BY <2>2, <2>3, FS_EmptySet
<1>3. ASSUME NEW r \in Callers, Enqueue(r) PROVE AccountedOnce'
  <2>1. /\ \A x \in Callers : x # r => stage'[x] = stage[x]
        /\ stage[r] = "new" /\ stage'[r] \in {"dropped", "jobs"}
    BY <1>3 DEF Enqueue, ServerTypeOK
  <2>2. UNCHANGED <<starts, rejected_total, completed_total>>
    BY <1>3 DEF Enqueue, lifeVars, statVars
  <2>3. Cardinality(Answered)' = Cardinality(Answered)
    BY <2>1, AnsweredMove, AnsweredNat
  <2> QED
    BY <2>2, <2>3 DEF AccountedOnce, Answered
<1>4. ASSUME NEW r \in Callers, HandleCore(r) PROVE AccountedOnce'
  <2>1. /\ \A x \in Callers : x # r => stage'[x] = stage[x]
        /\ starts' = starts /\ stage[r] \notin {"served", "rejected"}
    BY <1>4, HandleCoreMoves DEF lifeVars, Active
  <2>2. rejected_total' + completed_total' = rejected_total + completed_total
          + (IF stage'[r] \in {"served", "rejected"} THEN 1 ELSE 0)
    BY <1>4, HandleCoreMoves
  <2>3. Cardinality(Answered)' = Cardinality(Answered)
          + (IF stage'[r] \in {"served", "rejected"} THEN 1 ELSE 0)
    BY <2>1, AnsweredMove, AnsweredNat
  <2> QED
    BY <2>1, <2>2, <2>3 DEF AccountedOnce, Answered
<1>5. ASSUME NEW w \in Workers, WorkerStep(w) PROVE AccountedOnce'
  <2>1. UNCHANGED <<starts, rejected_total, completed_total>>
    BY <1>5 DEF WorkerStep, WorkerSleep, WorkerPop, WorkerExit, JobDone, UncountJob, lifeVars,
       statVars
  <2>2. Answered' = Answered
    BY <1>5 DEF WorkerStep, WorkerSleep, WorkerPop, WorkerExit, JobDone, UncountJob, Answered,
       ServerTypeOK
  <2> QED
    BY <2>1, <2>2 DEF AccountedOnce, Answered
<1> QED
  BY <1>1, <1>2, <1>3, <1>4, <1>5 DEF ServerNext, WorkerStep

LEMMA LimitStep ==
  ASSUME IInv, ServerTypeOK, Crewed, Manned, AtGate, BelowLimit, PeakWithinLimit, ServerNext
  PROVE  BelowLimit' /\ PeakWithinLimit'
<1>1. CASE Configure
  <2>1. in_flight' = 0 /\ limit' \in Nat /\ phase' = "none"
    BY <1>1, NobodyAtGate DEF Configure, SetLimit, Crewed
  <2> QED
    BY <2>1 DEF BelowLimit, PeakWithinLimit
<1>2. CASE StartBackground \/ Bind \/ Listen \/ AcceptThreadEnds \/ Finished
  BY <1>2 DEF BelowLimit, PeakWithinLimit, ServerTypeOK, GateTypeOK,
     gateVars, lifeVars, queueVars, statVars, settings, serverVars, StartBackground, Bind, Reset, Listen, AcceptThreadEnds, Finished
<1>3. CASE Stop
  BY <1>3, StopMoves DEF BelowLimit, PeakWithinLimit, statVars, Stop, StopBegin, GiveUpAtOnce,
     DrainBegin, DrainWait, DrainExpires, DrainFailed, AfterDrain, CloseListener, StopEnd
<1>4. CASE CountJob
  BY <1>4 DEF BelowLimit, PeakWithinLimit, CountJob, gateVars, lifeVars
<1>5. ASSUME NEW r \in Callers, Enqueue(r) PROVE BelowLimit' /\ PeakWithinLimit'
  BY <1>5 DEF BelowLimit, PeakWithinLimit, Enqueue, gateVars, lifeVars, statVars
<1>6. ASSUME NEW r \in Callers, HandleCore(r) PROVE BelowLimit' /\ PeakWithinLimit'
  <2>1. /\ UNCHANGED <<phase, limit>> /\ max_active' \in {max_active, in_flight}
        /\ in_flight' <= in_flight \/ (in_flight' = in_flight + 1 /\ ~Full)
    BY <1>6, HandleCoreMoves DEF lifeVars
  <2>2. limit \in Nat /\ in_flight \in Nat /\ max_active \in Nat
    BY DEF ServerTypeOK, GateTypeOK
  <2>3. in_flight' \in Nat
    BY <1>6, StepUsesGate, GateStepInv DEF IInv, GateTypeOK
  <2> QED
    BY <2>1, <2>2, <2>3 DEF BelowLimit, PeakWithinLimit, Full
<1>7. ASSUME NEW w \in Workers, WorkerStep(w) PROVE BelowLimit' /\ PeakWithinLimit'
  BY <1>7 DEF BelowLimit, PeakWithinLimit, gateVars, lifeVars, queueVars, statVars, settings,
     serverVars, WorkerStep, WorkerSleep,
     WorkerPop, WorkerExit, UncountJob, JobDone
<1> QED
  BY <1>1, <1>2, <1>3, <1>4, <1>5, <1>6, <1>7 DEF ServerNext, WorkerStep

LEMMA ServerInitInv == ServerInit => ServerIInv
<1> SUFFICES ASSUME ServerInit PROVE ServerIInv
  OBVIOUS
<1>1. IInv
  BY GateInitInv DEF ServerInit
<1>2. ServerTypeOK
  <2>1. GateTypeOK
    BY <1>1 DEF IInv
  <2>2. jobs \in Seq(Callers)
    BY DEF ServerInit
  <2>3. stopping \in BOOLEAN
    BY DEF ServerInit
  <2>4. worker \in [Workers -> {"gone"}] /\ stage \in [Callers -> {"new"}]
    BY DEF ServerInit
  <2> QED
    BY <2>1, <2>2, <2>3, <2>4 DEF ServerInit, ServerTypeOK, Stages
<1>3. Manned /\ Crewed /\ Unstarted
  BY DEF ServerInit, Manned, Active, Crewed, Unstarted
<1>4. AtGate /\ ShutKnown
  BY DEF ServerInit, GateInit, AtGate, ShutKnown
<1>5. Backlog = {}
  BY DEF ServerInit, Backlog
<1>6. Covered
  BY <1>5, FS_EmptySet DEF ServerInit, Covered
<1>7. AccountedOnce /\ BelowLimit /\ PeakWithinLimit
  BY <1>2 DEF ServerInit, GateInit, AccountedOnce, BelowLimit, PeakWithinLimit, ServerTypeOK,
     GateTypeOK
<1> QED
  BY <1>1, <1>2, <1>3, <1>4, <1>6, <1>7 DEF ServerIInv

LEMMA ServerStepInv == ServerIInv /\ [ServerNext]_serverVars => ServerIInv'
<1> SUFFICES ASSUME ServerIInv, [ServerNext]_serverVars PROVE ServerIInv'
  OBVIOUS
<1>t. /\ IInv /\ ServerTypeOK /\ Manned /\ Crewed /\ AtGate /\ ShutKnown /\ Unstarted
      /\ Covered /\ AccountedOnce /\ BelowLimit /\ PeakWithinLimit
  BY DEF ServerIInv
<1>1. CASE UNCHANGED serverVars
  <2>1. UNCHANGED gateVars /\ UNCHANGED lifeVars /\ UNCHANGED queueVars
        /\ UNCHANGED statVars /\ UNCHANGED stage
    BY <1>1 DEF serverVars
  <2>2. IInv'
    BY <1>t, <2>1, GateStepInv
  <2>3. ServerTypeOK'
    BY <1>t, <2>1 DEF ServerTypeOK, GateTypeOK, gateVars, lifeVars, queueVars, statVars, settings
  <2>4. Manned' /\ Crewed' /\ AtGate' /\ ShutKnown' /\ Unstarted'
    BY <1>t, <2>1 DEF Manned, InJobs, InHands, Crewed, AtGate, ShutKnown, Unstarted,
       gateVars, lifeVars, queueVars, statVars, settings
  <2>5. Covered' /\ AccountedOnce' /\ BelowLimit' /\ PeakWithinLimit'
    BY <1>t, <2>1 DEF Covered, Backlog, AccountedOnce, BelowLimit, PeakWithinLimit,
       gateVars, lifeVars, queueVars, statVars, settings
  <2> QED
    BY <2>2, <2>3, <2>4, <2>5 DEF ServerIInv
<1>2. CASE ServerNext
  <2>1. IInv'
    BY <1>t, <1>2, StepUsesGate, GateStepInv
  <2>2. ServerTypeOK'
    BY <1>t, <1>2, <2>1, TypeStep DEF IInv
  <2>3. Manned' /\ Crewed' /\ AtGate'
    BY <1>t, <1>2, MannedStep, CrewedStep, AtGateStep
  <2>4. ShutKnown' /\ Unstarted'
    BY <1>t, <1>2, ShutKnownStep, UnstartedStep
  <2>5. Covered' /\ AccountedOnce'
    BY <1>t, <1>2, CoveredStep, AccountedStep
  <2>6. BelowLimit' /\ PeakWithinLimit'
    BY <1>t, <1>2, LimitStep
  <2> QED
    BY <2>1, <2>2, <2>3, <2>4, <2>5, <2>6 DEF ServerIInv
<1> QED
  BY <1>1, <1>2

\* What the inductive invariant says of a request and of a stopped server.
LEMMA ServerIInvSuffices == ServerIInv => ServerInv
<1> SUFFICES ASSUME ServerIInv PROVE ServerInv
  OBVIOUS
<1>t. /\ IInv /\ ServerTypeOK /\ Manned /\ Crewed /\ AtGate /\ ShutKnown
      /\ Covered /\ AccountedOnce /\ PeakWithinLimit
  BY DEF ServerIInv
<1>1. NeverUnderReports
  BY <1>t, BacklogNat DEF NeverUnderReports, Covered, ServerTypeOK
<1>2. StoppedIsEmpty
  <2> SUFFICES ASSUME phase \in {"none", "exited"}
               PROVE  /\ jobs = <<>> /\ in_flight = 0 /\ waiting = 0
                      /\ \A r \in Callers : stage[r] \in {"new", "served", "rejected", "dropped"}
    BY DEF StoppedIsEmpty
  <2>1. \A w \in Workers : worker[w] = "gone"
    BY <1>t DEF Crewed
  <2> QED
    BY <1>t, <2>1, NobodyInside, NobodyAtGate
<1>3. PatientDrain
  <2> SUFFICES ASSUME NEW r \in Callers, stop_waiting, at[r] = "waiting"
               PROVE  drain = "timeout" \/ ~drains
    BY DEF PatientDrain
  <2>1. ~ \A w \in Workers : worker[w] = "gone"
    BY <1>t, NobodyInside DEF AtGate
  <2>2. phase \in {"listening", "closing"}
    BY <1>t, <2>1 DEF Crewed
  <2> QED
    BY <1>t, <2>2 DEF ShutKnown
<1> QED
  BY <1>t, <1>1, <1>2, <1>3 DEF ServerInv, StatsExact

\* The server's own correctness, for any number of requests, workers, starts
\* and any limits: the counters account for every request once, the reported
\* backlog and peak can be relied on, a stop waits for those in the gate's
\* queue as long as it was told to, and leaves nothing behind.
THEOREM ServerInvariant == ServerSpec => []ServerInv
<1> QED
  BY ServerInitInv, ServerStepInv, ServerIInvSuffices, PTL DEF ServerSpec

=============================================================================
