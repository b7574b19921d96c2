----------------------------- MODULE JobService -----------------------------
(***************************************************************************)
(* The job scheduler of apps/jobsvc.cpp: a dispatcher scans the persisted  *)
(* table of jobs and queues those that are due, workers run them with      *)
(* retries and write the outcome back, the HTTP interface creates, removes *)
(* and triggers jobs, and the process may stop or die at any step.         *)
(***************************************************************************)
EXTENDS Integers, Sequences, FiniteSets

CONSTANTS
  Executors,      \* the worker threads
  MaxJobs,        \* bound on the jobs created
  MaxTriggers,    \* bound on POST /api/jobs/:id/run
  MaxCrashes,     \* bound on the deaths of the process
  LastMoment,     \* bound on the clock
  Interval,       \* of every job "every:..."
  Retries,        \* Job::retries
  TriggerOnce     \* once jobs may be triggered by hand as well

ASSUME JobAssumption ==
  /\ IsFiniteSet(Executors) /\ Executors # {}
  /\ MaxJobs \in Nat /\ MaxTriggers \in Nat /\ MaxCrashes \in Nat
  /\ LastMoment \in Nat /\ Interval \in Nat \ {0} /\ Retries \in Nat
  /\ TriggerOnce \in BOOLEAN

VARIABLES
  table,       \* the jobs table: what survives the process
  recorded,    \* the jobs with a row in job_runs
  clock,       \* current_timestamp_ms()
  pending,     \* queue_
  executor,    \* where each worker is
  task,        \* the Pending a worker holds, reduced to its id and origin
  attempt, started,  \* its locals in run_job()
  dispatcher,  \* where the dispatch thread is
  todo,        \* ids of its snapshot that were due and are not handled
  scanned,     \* its local now
  stop_flag,   \* stopping_
  stopper,     \* where stop() is
  dispatched,  \* history: how often each once job was queued by the dispatcher
  created, triggers, crashes   \* counters for the bounds

tableVars  == <<table, recorded>>
runVars    == <<task, attempt, started>>
queueVars  == <<pending, executor>>
scanVars   == <<dispatcher, todo, scanned>>
stopVars   == <<stop_flag, stopper>>
boundVars  == <<clock, created, triggers, crashes>>
jobVars    == <<tableVars, queueVars, runVars, scanVars, stopVars, dispatched, boundVars>>

Ids    == 1..MaxJobs
NoTask == [id |-> 0, manual |-> FALSE]
Kinds  == [kind : {"every"}, at : {0}] \cup [kind : {"once"}, at : 1..LastMoment]

\* Mutant: the moment itself counts as the next time.
ScheduleNextOrNow(schedule, from) ==
  IF schedule.kind = "every" THEN from + Interval
  ELSE IF schedule.at >= from THEN schedule.at ELSE 0

\* schedule_next(): 0 when there is no next time.
ScheduleNext(schedule, from) ==
  IF schedule.kind = "every" THEN from + Interval
  ELSE IF schedule.at > from THEN schedule.at ELSE 0

\* JobStore::update_after_run(): an UPDATE, so a removed job stays removed.
UpdateAfterRun(id, from) ==
  LET next == ScheduleNext(table[id].schedule, from) IN
  table' = IF id \in DOMAIN table
           THEN [table EXCEPT ![id].next = next, ![id].enabled = next # 0]
           ELSE table

\* No worker is between its test of the predicate and its sleep: the queue's
\* mutex is free.
QueueUnlocked == \A w \in Executors : executor[w] # "block"

\* Mutant: queueing without waking a worker.
NotifyNobody == UNCHANGED executor

\* notify_one() on queue_cv_.
NotifyOne ==
  \/ /\ \A w \in Executors : executor[w] # "asleep"
     /\ UNCHANGED executor
  \/ \E w \in Executors :
       executor[w] = "asleep" /\ executor' = [executor EXCEPT ![w] = "test"]

Enqueue(id, manual) ==
  /\ QueueUnlocked
  /\ pending' = Append(pending, [id |-> id, manual |-> manual])
  /\ NotifyOne

IsDue(job) == job.enabled /\ job.next # 0 /\ job.next <= clock
-----------------------------------------------------------------------------
JobInit ==
  /\ table = <<>> /\ recorded = {}
  /\ pending = <<>>
  /\ executor = [w \in Executors |-> "test"]
  /\ task = [w \in Executors |-> NoTask]
  /\ attempt = [w \in Executors |-> 0] /\ started = [w \in Executors |-> 0]
  /\ dispatcher = "scan" /\ todo = {} /\ scanned = 0
  /\ stop_flag = FALSE /\ stopper = "no"
  /\ dispatched = [id \in Ids |-> 0]
  /\ clock = 0 /\ created = 0 /\ triggers = 0 /\ crashes = 0

\* The HTTP interface is there until server.stop().
Serving == stopper = "no"

\* POST /api/jobs: a job without a next time is stored as disabled, and so is
\* one that is created so.
CreateJob ==
  /\ Serving /\ created < MaxJobs
  /\ \E s \in Kinds, enabled \in BOOLEAN :
       LET next == ScheduleNext(s, clock)
           row  == [schedule |-> s, next |-> next, enabled |-> enabled /\ next # 0] IN
       table' = [id \in DOMAIN table \cup {created + 1} |->
                  IF id \in DOMAIN table THEN table[id] ELSE row]
  /\ created' = created + 1
  /\ UNCHANGED <<recorded, queueVars, runVars, scanVars, stopVars, dispatched, clock, triggers, crashes>>

\* DELETE /api/jobs/:id removes its records as well.
RemoveJob ==
  /\ Serving
  /\ \E id \in DOMAIN table :
       /\ table' = [other \in DOMAIN table \ {id} |-> table[other]]
       /\ recorded' = recorded \ {id}
  /\ UNCHANGED <<queueVars, runVars, scanVars, stopVars, dispatched, boundVars>>

\* POST /api/jobs/:id/run: what trigger() reads before it queues the job never
\* changes (its id and schedule), so the two steps are one.
Trigger ==
  /\ Serving /\ triggers < MaxTriggers
  /\ \E id \in DOMAIN table :
       /\ TriggerOnce \/ table[id].schedule.kind # "once"
       /\ Enqueue(id, TRUE)
  /\ triggers' = triggers + 1
  /\ UNCHANGED <<tableVars, runVars, scanVars, stopVars, dispatched, clock, created, crashes>>
-----------------------------------------------------------------------------
\* dispatch_loop(): one pass over a snapshot of the table.
Scan ==
  /\ dispatcher = "scan" /\ ~stop_flag
  /\ todo' = {id \in DOMAIN table : IsDue(table[id])}
  /\ scanned' = clock
  /\ dispatcher' = "queue"
  /\ UNCHANGED <<tableVars, queueVars, runVars, stopVars, dispatched, boundVars>>

DispatchEnd ==
  /\ dispatcher = "scan" /\ stop_flag
  /\ dispatcher' = "gone"
  /\ UNCHANGED <<tableVars, queueVars, runVars, todo, scanned, stopVars, dispatched, boundVars>>

FirstDue(id) == id \in todo /\ \A other \in todo : id <= other

DispatchEnqueue ==
  /\ dispatcher = "queue"
  /\ \E id \in todo :
       /\ FirstDue(id)
       /\ Enqueue(id, FALSE)
       /\ dispatched' = IF id \in DOMAIN table /\ table[id].schedule.kind = "once"
                        THEN [dispatched EXCEPT ![id] = @ + 1] ELSE dispatched
  /\ dispatcher' = "advance"
  /\ UNCHANGED <<tableVars, runVars, todo, scanned, stopVars, boundVars>>

\* The next time is advanced after the job is queued.
DispatchAdvance ==
  /\ dispatcher = "advance"
  /\ \E id \in todo :
       /\ FirstDue(id)
       /\ UpdateAfterRun(id, scanned)
       /\ todo' = todo \ {id}
  /\ dispatcher' = "queue"
  /\ UNCHANGED <<recorded, queueVars, runVars, scanned, stopVars, dispatched, boundVars>>

\* The pass is over; after 200 ms comes the next one.
DispatchSleep ==
  /\ dispatcher = "queue" /\ todo = {}
  /\ dispatcher' = "scan" /\ scanned' = 0
  /\ UNCHANGED <<tableVars, queueVars, runVars, todo, stopVars, dispatched, boundVars>>

Dispatcher == Scan \/ DispatchEnd \/ DispatchEnqueue \/ DispatchAdvance \/ DispatchSleep
-----------------------------------------------------------------------------
Goto(w, place) == executor' = [executor EXCEPT ![w] = place]

\* worker_loop(): the predicate is evaluated under the mutex, which is released
\* by going to sleep in Block.
TestQueue(w) ==
  /\ executor[w] = "test" /\ QueueUnlocked
  /\ \/ /\ pending = <<>> /\ ~stop_flag
        /\ Goto(w, "block") /\ UNCHANGED <<pending, task>>
     \/ /\ pending = <<>> /\ stop_flag
        /\ Goto(w, "gone") /\ UNCHANGED <<pending, task>>
     \/ /\ pending # <<>>
        /\ task' = [task EXCEPT ![w] = Head(pending)]
        /\ pending' = Tail(pending)
        /\ Goto(w, "taken")
  /\ UNCHANGED <<tableVars, attempt, started, scanVars, stopVars, dispatched, boundVars>>

Block(w) ==
  /\ executor[w] = "block"
  /\ Goto(w, "asleep")
  /\ UNCHANGED <<tableVars, pending, runVars, scanVars, stopVars, dispatched, boundVars>>

\* A stopping scheduler leaves what it did not start, except manual triggers.
Drop(w) ==
  /\ executor[w] = "taken" /\ stop_flag /\ ~task[w].manual
  /\ Goto(w, "gone") /\ task' = [task EXCEPT ![w] = NoTask]
  /\ UNCHANGED <<tableVars, pending, attempt, started, scanVars, stopVars, dispatched, boundVars>>

\* run_job(): an attempt begins, the first one or the one after a pause.
BeginAttempt(w) ==
  /\ \/ executor[w] = "taken" /\ ~(stop_flag /\ ~task[w].manual)
     \/ executor[w] = "pause"
  /\ attempt' = [attempt EXCEPT ![w] = @ + 1]
  /\ started' = [started EXCEPT ![w] = clock]
  /\ Goto(w, "execute")
  /\ UNCHANGED <<tableVars, pending, task, scanVars, stopVars, dispatched, boundVars>>

\* It ends and is recorded, whether it succeeded or not ("failed", "timeout"
\* and "error" differ in the record only); then comes a pause and another
\* attempt, or the end of the run.
EndAttempt(w) ==
  /\ executor[w] = "execute"
  /\ recorded' = recorded \cup ({task[w].id} \cap DOMAIN table)
  /\ \/ Goto(w, "finish")
     \/ attempt[w] <= Retries /\ Goto(w, "pause")
  /\ UNCHANGED <<table, pending, runVars, scanVars, stopVars, dispatched, boundVars>>

\* finish_job(): the next time is computed from the start of the last attempt.
Finish(w) ==
  /\ executor[w] = "finish"
  /\ UpdateAfterRun(task[w].id, started[w])
  /\ Goto(w, "test")
  /\ task' = [task EXCEPT ![w] = NoTask]
  /\ attempt' = [attempt EXCEPT ![w] = 0] /\ started' = [started EXCEPT ![w] = 0]
  /\ UNCHANGED <<recorded, pending, scanVars, stopVars, dispatched, boundVars>>

Executor(w) ==
  TestQueue(w) \/ Block(w) \/ Drop(w) \/ BeginAttempt(w) \/ EndAttempt(w) \/ Finish(w)
-----------------------------------------------------------------------------
\* Ctrl+C: after server.stop(), stop() sets the flag without the queue's mutex
StopJobs ==
  /\ stopper = "no"
  /\ stop_flag' = TRUE /\ stopper' = "notify"
  /\ UNCHANGED <<tableVars, queueVars, runVars, scanVars, dispatched, boundVars>>

\* ... wakes whoever sleeps by then ...
StopNotify ==
  /\ stopper = "notify"
  /\ executor' = [w \in Executors |-> IF executor[w] = "asleep" THEN "test" ELSE executor[w]]
  /\ stopper' = "join"
  /\ UNCHANGED <<tableVars, pending, runVars, scanVars, stop_flag, dispatched, boundVars>>

\* ... and joins all threads.
StopJoined ==
  /\ stopper = "join" /\ dispatcher = "gone"
  /\ \A w \in Executors : executor[w] = "gone"
  /\ stopper' = "stopped"
  /\ UNCHANGED <<tableVars, queueVars, runVars, scanVars, stop_flag, dispatched, boundVars>>

\* The process dies and is started again on the same database.
Crash ==
  /\ crashes < MaxCrashes /\ stopper # "stopped"
  /\ crashes' = crashes + 1
  /\ pending' = <<>> /\ todo' = {}
  /\ executor' = [w \in Executors |-> "test"]
  /\ task' = [w \in Executors |-> NoTask]
  /\ attempt' = [w \in Executors |-> 0] /\ started' = [w \in Executors |-> 0]
  /\ dispatcher' = "scan" /\ scanned' = 0
  /\ stop_flag' = FALSE /\ stopper' = "no"
  /\ UNCHANGED <<tableVars, dispatched, clock, created, triggers>>

TimePasses ==
  /\ clock < LastMoment
  /\ clock' = clock + 1
  /\ UNCHANGED <<tableVars, queueVars, runVars, scanVars, stopVars, dispatched, created, triggers, crashes>>

JobNext ==
  \/ CreateJob \/ RemoveJob \/ Trigger
  \/ Dispatcher \/ \E w \in Executors : Executor(w)
  \/ StopJobs \/ StopNotify \/ StopJoined
  \/ Crash \/ TimePasses

JobSpec == JobInit /\ [][JobNext]_jobVars

\* Threads run, attempts end (run_process has a time limit) and so do pauses.
\* The queue's mutex is a lock that whoever waits for it gets in the end.
JobFairness ==
  /\ WF_jobVars(Dispatcher)
  /\ \A w \in Executors : SF_jobVars(TestQueue(w)) /\ WF_jobVars(Executor(w))
  /\ WF_jobVars(StopNotify) /\ WF_jobVars(StopJoined)

JobFairSpec == JobSpec /\ JobFairness
-----------------------------------------------------------------------------
Rows  == [schedule : Kinds, next : 0..LastMoment + Interval, enabled : BOOLEAN]
Items == [id : Ids, manual : BOOLEAN]

JobTypeOK ==
  /\ DOMAIN table \subseteq 1..created
  /\ \A id \in DOMAIN table : table[id] \in Rows
  /\ recorded \subseteq DOMAIN table
  /\ pending \in Seq(Items)
  /\ \A w \in Executors :
       task[w] \in Items \cup {NoTask} /\ attempt[w] \in 0..Retries + 1
  /\ executor \in [Executors -> {"test", "block", "asleep", "taken", "execute",
                                 "pause", "finish", "gone"}]
  /\ dispatcher \in {"scan", "queue", "advance", "gone"}
  /\ todo \subseteq Ids
  /\ stopper \in {"no", "notify", "join", "stopped"}

InQueue(id) == \E i \in 1..Len(pending) : pending[i].id = id
InHand(id)  == InQueue(id) \/ \E w \in Executors : task[w].id = id

\* A once job that has lost its next time is not forgotten: it is queued or
\* being run, or has a record.  Only a stop or a death of the process may lose
\* it.  (A job that was past its time when created never had a next time.)
OnceKept ==
  \A id \in DOMAIN table :
    crashes = 0 /\ ~stop_flag /\ dispatched[id] > 0 => InHand(id) \/ id \in recorded

\* "every" and cron jobs keep a next time, whatever is stopped, killed or
\* written back late, and no job waits for a time it does not have.
RepeatingGoesOn ==
  \A id \in DOMAIN table :
    table[id].schedule.kind = "every" \/ table[id].enabled => table[id].next # 0

\* "Advance the next time first, so that one task is not queued repeatedly"
\* (jobsvc.cpp:710): the dispatcher queues a once job once, and once more at
\* most for each death of the process.
OnceIsOnce ==
  \A id \in DOMAIN table :
    table[id].schedule.kind = "once" => dispatched[id] <= 1 + crashes

\* A stopped scheduler has run every manual trigger or left it in the queue
\* behind an automatic job, and no thread is left to write to the store.
StoppedIsQuiet ==
  stopper = "stopped" =>
    /\ dispatcher = "gone"
    /\ \A w \in Executors : executor[w] = "gone" /\ task[w] = NoTask

JobInv == JobTypeOK /\ OnceKept /\ RepeatingGoesOn /\ OnceIsOnce /\ StoppedIsQuiet

\* What has been queued is run, unless the scheduler is stopped or dies before.
QueuedIsRun ==
  \A id \in Ids :
    InQueue(id) ~> \/ \E w \in Executors : task[w].id = id /\ executor[w] = "execute"
                   \/ stop_flag \/ crashes > 0

\* "Ctrl+C: graceful exit" (jobsvc.cpp:9): stop() returns, or the process dies.
GracefulExit == stop_flag ~> stopper = "stopped" \/ ~stop_flag
=============================================================================
