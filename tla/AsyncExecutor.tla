---------------------------- MODULE AsyncExecutor ---------------------------
(***************************************************************************)
(* The executor of RpcClient's asynchronous calls (RpcAsyncExecutor in     *)
(* rpc.cpp): a pool of threads that is created by the first call_async(),  *)
(* replaced by set_async_workers() and drained by ~RpcClient().  Workers   *)
(* that look for a task and threads that wait for the pool to be idle      *)
(* sleep on the same condition variable.  A task runs a call and then its  *)
(* callback, which may make further asynchronous calls and may itself      *)
(* replace the pool.                                                       *)
(***************************************************************************)
EXTENDS Counting, Sequences

CONSTANTS
  Workers,        \* threads of each pool
  Submitters,     \* threads that make asynchronous calls
  MaxTasks,       \* bound on the calls
  MaxPools        \* bound on the pools created

ASSUME ExecutorAssumption ==
  /\ IsFiniteSet(Workers) /\ Workers # {}
  /\ MaxTasks \in Nat /\ MaxPools \in Nat

VARIABLES
  async_exec, \* the pool in use, 0 for none
  pools,      \* pools created so far
  tasks,      \* per pool: the queue
  inFlight,   \* per pool: in_flight
  stopping,   \* per pool: stopping
  worker,     \* per pool and worker: its place
  task,       \* per pool and worker: the task it runs or ran last
  posting,    \* per submitter: the pool it is about to post to, or 0
  owner,      \* what the owner does: "out", "swap" or "destroy"
  waiter,     \* per pool: the place of the thread in wait_idle(), or "none"
  submitted,  \* calls made
  done,       \* calls that have run
  freed       \* ~RpcClient() has deleted Impl

executorVars == <<async_exec, pools, tasks, inFlight, stopping, worker, task, posting,
          owner, waiter, submitted, done, freed>>

Pool == 1..MaxPools
Tasks == 1..MaxTasks
Places == {"loop", "asleep", "runs", "notify", "gone"}

ExecutorTypeOK ==
  /\ pools \in 0..MaxPools /\ async_exec \in 0..pools
  /\ tasks \in [Pool -> Seq(Tasks)]
  /\ inFlight \in [Pool -> 0..MaxTasks]
  /\ stopping \in [Pool -> BOOLEAN]
  /\ worker \in [Pool -> [Workers -> Places]]
  /\ task \in [Pool -> [Workers -> 0..MaxTasks]]
  /\ posting \in [Submitters -> 0..MaxPools]
  /\ owner \in {"out", "swap", "destroy"}
  /\ waiter \in [Pool -> {"none", "owner", "retire", "asleep owner", "asleep retire"}]
  /\ submitted \in 0..MaxTasks /\ done \subseteq Tasks
  /\ freed \in BOOLEAN

ExecutorInit ==
  /\ async_exec = 0 /\ pools = 0
  /\ tasks = [p \in Pool |-> <<>>]
  /\ inFlight = [p \in Pool |-> 0]
  /\ stopping = [p \in Pool |-> FALSE]
  /\ worker = [p \in Pool |-> [w \in Workers |-> "gone"]]
  /\ task = [p \in Pool |-> [w \in Workers |-> 0]]
  /\ posting = [s \in Submitters |-> 0]
  /\ owner = "out"
  /\ waiter = [p \in Pool |-> "none"]
  /\ submitted = 0 /\ done = {} /\ freed = FALSE

-----------------------------------------------------------------------------
(* The condition variable of a pool. *)

Asleep(place) == place \in {"asleep", "asleep owner", "asleep retire"}

Woken(place) ==
  CASE place = "asleep owner"  -> "owner"
    [] place = "asleep retire" -> "retire"
    [] place = "asleep"        -> "loop"
    [] OTHER                   -> place

\* Mutant: nobody is woken.
WakeNobody(p) == UNCHANGED <<worker, waiter>>

\* notify_one(): one sleeper, be it a worker or the thread in wait_idle().
WakeOne(p) ==
  IF ~Asleep(waiter[p]) /\ In(Workers, worker[p], "asleep") = {}
    THEN UNCHANGED <<worker, waiter>>
    ELSE \/ /\ Asleep(waiter[p])
            /\ waiter' = [waiter EXCEPT ![p] = Woken(@)]
            /\ UNCHANGED worker
         \/ \E w \in In(Workers, worker[p], "asleep") :
              /\ worker' = [worker EXCEPT ![p][w] = "loop"]
              /\ UNCHANGED waiter

-----------------------------------------------------------------------------
(* Making a call. *)

\* ensure_async_exec(), when there is no pool.
CreatePool ==
  /\ async_exec = 0 /\ pools < MaxPools
  /\ pools' = pools + 1 /\ async_exec' = pools'
  /\ worker' = [worker EXCEPT ![pools'] = [w \in Workers |-> "loop"]]

\* call_async() gets hold of a reference to the pool in use.
Ensure(s) ==
  /\ ~freed /\ posting[s] = 0 /\ submitted < MaxTasks
  /\ owner = "out"
  /\ CreatePool \/ (async_exec # 0 /\ UNCHANGED <<async_exec, pools, worker>>)
  /\ posting' = [posting EXCEPT ![s] = async_exec']
  /\ UNCHANGED <<tasks, inFlight, stopping, task, owner, waiter, submitted, done, freed>>

\* post(): the task is queued and, after the unlock, one sleeper woken.
PostTo(p) ==
  /\ submitted' = submitted + 1
  /\ tasks' = [tasks EXCEPT ![p] = Append(@, submitted')]
  /\ inFlight' = [inFlight EXCEPT ![p] = @ + 1]
  /\ WakeOne(p)

Post(s) ==
  /\ posting[s] # 0 /\ submitted < MaxTasks
  /\ PostTo(posting[s])
  /\ posting' = [posting EXCEPT ![s] = 0]
  /\ UNCHANGED <<async_exec, pools, stopping, task, owner, done, freed>>

\* A callback makes a call, which goes to the pool in use, or to a new one if
\* the pool was taken away.  What the calls of a callback on a replaced pool
\* do to a client that is being destroyed is left out: see FreedAfterCalls.
PostFromCallback(p, w) ==
  /\ worker[p][w] = "runs" /\ submitted < MaxTasks
  /\ owner = "destroy" => async_exec = p
  /\ \/ /\ async_exec # 0
        /\ PostTo(async_exec)
        /\ UNCHANGED <<async_exec, pools>>
     \/ /\ CreatePool
        /\ submitted' = submitted + 1
        /\ tasks' = [tasks EXCEPT ![pools'] = <<submitted'>>]
        /\ inFlight' = [inFlight EXCEPT ![pools'] = 1]
        /\ UNCHANGED waiter
  /\ UNCHANGED <<stopping, task, posting, owner, done, freed>>

-----------------------------------------------------------------------------
(* worker_loop() *)

Sleep(p, w) ==
  /\ worker[p][w] = "loop" /\ ~stopping[p] /\ tasks[p] = <<>>
  /\ worker' = [worker EXCEPT ![p][w] = "asleep"]
  /\ UNCHANGED <<async_exec, pools, tasks, inFlight, stopping, task, posting,
                 owner, waiter, submitted, done, freed>>

\* Mutant: the task counts as finished as soon as it is taken.
TakeUncounting(p, w) ==
  /\ worker[p][w] = "loop" /\ tasks[p] # <<>>
  /\ worker' = [worker EXCEPT ![p][w] = "runs"]
  /\ task' = [task EXCEPT ![p][w] = Head(tasks[p])]
  /\ tasks' = [tasks EXCEPT ![p] = Tail(@)]
  /\ inFlight' = [inFlight EXCEPT ![p] = IF @ > 0 THEN @ - 1 ELSE 0]
  /\ UNCHANGED <<async_exec, pools, stopping, posting, owner, waiter, submitted, done, freed>>

Take(p, w) ==
  /\ worker[p][w] = "loop" /\ tasks[p] # <<>>
  /\ worker' = [worker EXCEPT ![p][w] = "runs"]
  /\ task' = [task EXCEPT ![p][w] = Head(tasks[p])]
  /\ tasks' = [tasks EXCEPT ![p] = Tail(@)]
  /\ UNCHANGED <<async_exec, pools, inFlight, stopping, posting, owner, waiter,
                 submitted, done, freed>>

\* The task has returned and is no longer counted.
Finish(p, w) ==
  /\ worker[p][w] = "runs"
  /\ worker' = [worker EXCEPT ![p][w] = "notify"]
  /\ inFlight' = [inFlight EXCEPT ![p] = @ - 1]
  /\ done' = done \cup {task[p][w]}
  /\ UNCHANGED <<async_exec, pools, tasks, stopping, task, posting, owner, waiter,
                 submitted, freed>>

\* Mutant: only one sleeper is told.
NotifyWorker(p, w) ==
  /\ worker[p][w] = "notify"
  /\ worker' = [worker EXCEPT ![p][w] = "loop"]
  /\ UNCHANGED <<async_exec, pools, tasks, inFlight, stopping, task, posting, owner,
                 waiter, submitted, done, freed>>

\* cv.notify_all(), after the unlock.
Notify(p, w) ==
  /\ worker[p][w] = "notify"
  /\ worker' = [worker EXCEPT ![p] =
       [v \in Workers |-> IF v = w THEN "loop" ELSE Woken(worker[p][v])]]
  /\ waiter' = [waiter EXCEPT ![p] = Woken(@)]
  /\ UNCHANGED <<async_exec, pools, tasks, inFlight, stopping, task, posting, owner,
                 submitted, done, freed>>

\* The pool stops and its queue is empty.
Leave(p, w) ==
  /\ worker[p][w] = "loop" /\ stopping[p] /\ tasks[p] = <<>>
  /\ worker' = [worker EXCEPT ![p][w] = "gone"]
  /\ UNCHANGED <<async_exec, pools, tasks, inFlight, stopping, task, posting, owner,
                 waiter, submitted, done, freed>>

Worker(p, w) ==
  Sleep(p, w) \/ Take(p, w) \/ Finish(p, w) \/ Notify(p, w) \/ Leave(p, w)

-----------------------------------------------------------------------------
(* Replacing the pool and destroying the client. *)

\* set_async_workers() on the owner's thread: the pool is taken away and the
\* caller waits until it is idle.  rpc.h forbids it while a call is being made.
Swap ==
  /\ ~freed /\ owner = "out" /\ async_exec # 0
  /\ \A s \in Submitters : posting[s] = 0
  /\ owner' = "swap"
  /\ waiter' = [waiter EXCEPT ![async_exec] = "owner"]
  /\ async_exec' = 0
  /\ UNCHANGED <<pools, tasks, inFlight, stopping, worker, task, posting,
                 submitted, done, freed>>

\* set_async_workers() from a callback: a thread of its own drains the pool
\* on which the callback runs.  Left out is the callback that does it while
\* ~RpcClient() waits for that pool: two threads would then wait for it, and
\* the one of its own may destroy it under the other.
SwapFromCallback(p, w) ==
  /\ worker[p][w] = "runs" /\ async_exec = p /\ owner # "destroy"
  /\ \A s \in Submitters : posting[s] = 0
  /\ async_exec' = 0
  /\ waiter' = [waiter EXCEPT ![p] = "retire"]
  /\ UNCHANGED <<pools, tasks, inFlight, stopping, worker, task, posting, owner,
                 submitted, done, freed>>

\* ~RpcClient(): no other thread is in a call any more.
Destroy ==
  /\ ~freed /\ owner = "out"
  /\ \A s \in Submitters : posting[s] = 0
  /\ owner' = "destroy"
  /\ waiter' = IF async_exec = 0 THEN waiter ELSE [waiter EXCEPT ![async_exec] = "owner"]
  /\ UNCHANGED <<async_exec, pools, tasks, inFlight, stopping, worker, task, posting,
                 submitted, done, freed>>

MustWait(p) == inFlight[p] > 0

\* wait_idle() goes to sleep, ...
WaitIdle(p) ==
  /\ waiter[p] \in {"owner", "retire"} /\ ~stopping[p] /\ MustWait(p)
  /\ waiter' = [waiter EXCEPT ![p] = IF @ = "owner" THEN "asleep owner" ELSE "asleep retire"]
  /\ UNCHANGED <<async_exec, pools, tasks, inFlight, stopping, worker, task, posting,
                 owner, submitted, done, freed>>

\* ... and, once nothing is in flight, ~RpcAsyncExecutor() stops the workers.
StopPool(p) ==
  /\ waiter[p] \in {"owner", "retire"} /\ ~stopping[p] /\ ~MustWait(p)
  /\ stopping' = [stopping EXCEPT ![p] = TRUE]
  /\ worker' = [worker EXCEPT ![p] = [w \in Workers |-> Woken(worker[p][w])]]
  /\ UNCHANGED <<async_exec, pools, tasks, inFlight, task, posting, owner, waiter,
                 submitted, done, freed>>

\* The workers are joined and the pool is gone.
Join(p) ==
  /\ waiter[p] \in {"owner", "retire"} /\ stopping[p]
  /\ \A w \in Workers : worker[p][w] = "gone"
  /\ waiter' = [waiter EXCEPT ![p] = "none"]
  /\ IF waiter[p] = "owner" /\ owner = "swap"
       THEN owner' = "out" ELSE UNCHANGED owner
  /\ UNCHANGED <<async_exec, pools, tasks, inFlight, stopping, worker, task, posting,
                 submitted, done, freed>>

\* ~RpcClient() deletes Impl after the pool in use.
Free ==
  /\ owner = "destroy" /\ ~freed
  /\ \A p \in Pool : waiter[p] \notin {"owner", "asleep owner"}
  /\ freed' = TRUE
  /\ UNCHANGED <<async_exec, pools, tasks, inFlight, stopping, worker, task, posting,
                 owner, waiter, submitted, done>>

PoolStep(p) ==
  \/ \E w \in Workers : Worker(p, w)
  \/ WaitIdle(p) \/ StopPool(p) \/ Join(p)

ExecutorNext ==
  \/ \E s \in Submitters : Ensure(s) \/ Post(s)
  \/ Swap \/ Destroy \/ Free
  \/ \E p \in 1..pools :
       \/ PoolStep(p)
       \/ \E w \in Workers : PostFromCallback(p, w) \/ SwapFromCallback(p, w)

ExecutorSpec == ExecutorInit /\ [][ExecutorNext]_executorVars

-----------------------------------------------------------------------------
Running(p) == {w \in Workers : worker[p][w] = "runs"}

\* in_flight counts the calls that are queued or run, also while the waiters
\* and the workers compete for notifications.
InFlightExact == \A p \in Pool : inFlight[p] = Len(tasks[p]) + Cardinality(Running(p))

\* A notification that goes to the thread in wait_idle() instead of a worker is
\* not lost: while a call is queued some worker of the pool is not asleep.
NoStranded ==
  \A p \in 1..pools : tasks[p] # <<>> => \E w \in Workers : worker[p][w] \in {"loop", "runs", "notify"}

Retiring(p) == waiter[p] \in {"retire", "asleep retire"}

\* rpc.h, call_async(): the destructor of the client ends after all calls,
\* but for those on a pool that a callback has replaced and that a detached
\* thread still drains.
FreedAfterCalls == freed => \A p \in Pool : Retiring(p) \/ inFlight[p] = 0

\* The executors' counts and wake-ups, whatever happens to the pools, and no
\* client freed under a call.
ExecutorInv == ExecutorTypeOK /\ InFlightExact /\ NoStranded /\ FreedAfterCalls

\* Every call that was made is executed, also on a pool that is replaced.
EveryCallRuns == \A t \in Tasks : submitted >= t ~> t \in done

\* set_async_workers() and the destructor return.
OwnerReturns == owner # "out" ~> owner = "out" \/ freed

\* Nobody waits for ever for the executor: neither the calls nor its owner.
ExecutorLive == EveryCallRuns /\ OwnerReturns
=============================================================================
