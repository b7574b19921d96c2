----------------------------- MODULE ThreadPool -----------------------------
(***************************************************************************)
(* The thread pool of thread_utils.h and thread_utils.cpp: a queue of      *)
(* tasks, a fixed number of workers, wait_idle() and the destructor, which *)
(* lets the workers empty the queue before it joins them.  A task may      *)
(* submit further tasks.  Tasks are taken in the order of submission.      *)
(***************************************************************************)
EXTENDS Counting, Sequences

CONSTANTS
  Workers,     \* threads of the pool
  Clients,     \* threads that submit and wait
  MaxTasks     \* bound on the tasks submitted

ASSUME ThreadPoolAssumption ==
  /\ IsFiniteSet(Workers) /\ IsFiniteSet(Clients)
  /\ MaxTasks \in Nat

VARIABLES
  tasks,      \* tasks: the ids in the queue
  busy,       \* busy
  stop,       \* stop
  worker,     \* per worker: "loop", "asleep", "runs" or "gone"
  task,       \* per worker: the task it runs or ran last
  client,     \* per client: "out", or asleep or awake in wait_idle()
  submitted,  \* tasks submitted so far
  done        \* tasks that have run

poolVars == <<tasks, busy, stop, worker, task, client, submitted, done>>

Tasks == 1..MaxTasks
Idle == tasks = <<>> /\ busy = 0

PoolTypeOK ==
  /\ tasks \in Seq(Tasks)
  /\ busy \in 0..Cardinality(Workers)
  /\ stop \in BOOLEAN
  /\ worker \in [Workers -> {"loop", "asleep", "runs", "gone"}]
  /\ task \in [Workers -> 0..MaxTasks]
  /\ client \in [Clients -> {"out", "asleep", "awake"}]
  /\ submitted \in 0..MaxTasks
  /\ done \subseteq Tasks

PoolInit ==
  /\ tasks = <<>> /\ busy = 0 /\ stop = FALSE
  /\ worker = [w \in Workers |-> "loop"] /\ task = [w \in Workers |-> 0]
  /\ client = [c \in Clients |-> "out"]
  /\ submitted = 0 /\ done = {}

-----------------------------------------------------------------------------
Sleeping == In(Workers, worker, "asleep")

\* condition.notify_one(), after the unlock of submit().  Waking a worker a
\* little later is the same as the worker taking the mutex a little later.
WakeOne ==
  \/ Sleeping = {} /\ UNCHANGED worker
  \/ \E w \in Sleeping : worker' = [worker EXCEPT ![w] = "loop"]

\* submit(), submit_void() and submit_int(), called by a client or by a task.
Submit ==
  /\ ~stop /\ submitted < MaxTasks
  /\ submitted' = submitted + 1
  /\ tasks' = Append(tasks, submitted')
  /\ WakeOne
  /\ UNCHANGED <<busy, stop, task, client, done>>

\* Mutant: the worker leaves as soon as the pool stops.
LeavesAtStop == stop

MayLeave == stop /\ tasks = <<>>

\* The worker's wait, with its predicate.
SleepWorker(w) ==
  /\ worker[w] = "loop" /\ ~stop /\ tasks = <<>>
  /\ worker' = [worker EXCEPT ![w] = "asleep"]
  /\ UNCHANGED <<tasks, busy, stop, task, client, submitted, done>>

Leave(w) ==
  /\ worker[w] = "loop" /\ MayLeave
  /\ worker' = [worker EXCEPT ![w] = "gone"]
  /\ UNCHANGED <<tasks, busy, stop, task, client, submitted, done>>

TakeTask(w) ==
  /\ worker[w] = "loop" /\ ~MayLeave /\ tasks # <<>>
  /\ worker' = [worker EXCEPT ![w] = "runs"]
  /\ task' = [task EXCEPT ![w] = Head(tasks)]
  /\ tasks' = Tail(tasks)
  /\ busy' = busy + 1
  /\ UNCHANGED <<stop, client, submitted, done>>

\* idle_cv.notify_all() when the last worker finds nothing left.
TellWaiters ==
  client' = [c \in Clients |->
    IF client[c] = "asleep" /\ tasks = <<>> /\ busy' = 0 THEN "awake" ELSE client[c]]

\* The task returns and the worker counts itself out.
Finish(w) ==
  /\ worker[w] = "runs"
  /\ worker' = [worker EXCEPT ![w] = "loop"]
  /\ done' = done \cup {task[w]}
  /\ busy' = busy - 1
  /\ TellWaiters
  /\ UNCHANGED <<tasks, stop, task, submitted>>

\* wait_idle(): the caller sleeps, again after each wake-up that came too late.
WaitIdle(c) ==
  /\ client[c] \in {"out", "awake"} /\ ~Idle
  /\ ~stop \/ client[c] = "awake"
  /\ client' = [client EXCEPT ![c] = "asleep"]
  /\ UNCHANGED <<tasks, busy, stop, worker, task, submitted, done>>

ReturnIdle(c) ==
  /\ client[c] = "awake" /\ Idle
  /\ client' = [client EXCEPT ![c] = "out"]
  /\ UNCHANGED <<tasks, busy, stop, worker, task, submitted, done>>

\* The destructor; no client is in a call any more.
Stop ==
  /\ ~stop /\ \A c \in Clients : client[c] = "out"
  /\ stop' = TRUE
  /\ worker' = [w \in Workers |-> IF worker[w] = "asleep" THEN "loop" ELSE worker[w]]
  /\ UNCHANGED <<tasks, busy, task, client, submitted, done>>

Worker(w) == SleepWorker(w) \/ Leave(w) \/ TakeTask(w) \/ Finish(w)

PoolNext ==
  \/ Submit \/ Stop
  \/ \E w \in Workers : Worker(w)
  \/ \E c \in Clients : WaitIdle(c) \/ ReturnIdle(c)

PoolSpec == PoolInit /\ [][PoolNext]_poolVars

-----------------------------------------------------------------------------
\* wait_idle() goes by the counters, and they tell the truth: when they say
\* idle, every task ever submitted has run to its end.
IdleIsTrue == Idle => done = 1..submitted

\* No client sleeps in wait_idle() while the pool is idle.
NoLostIdle == (\E c \in Clients : client[c] = "asleep") => ~Idle

\* A worker is never left asleep in front of a task that no worker on its way
\* to the queue will take.
NoStrandedTask ==
  Sleeping # {} =>
    Len(tasks) <= Count(Workers, worker, "loop")

\* wait_idle() and the workers' queue: no answer too early, nobody asleep in
\* front of what they wait for.
PoolInv == IdleIsTrue /\ NoLostIdle /\ NoStrandedTask

\* Whatever was submitted runs, also when the pool is destroyed meanwhile.
AllRun == \A t \in Tasks : submitted = t ~> 1..t \subseteq done
=============================================================================
