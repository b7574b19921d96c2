----------------------------- MODULE Processes ------------------------------
(***************************************************************************)
(* A child process under the hand of the launcher: ChildProcess on POSIX   *)
(* (child_process.cpp), and the launcher's handle of one application,      *)
(* which its UI thread starts, polls, stops and starts again.              *)
(*                                                                         *)
(* The child writes into a pipe, and may have left the pipe to a process   *)
(* of its own.  A reader thread drains the pipe, and reaps the child only  *)
(* when the pipe is at its end.  Children are numbered by their start.     *)
(***************************************************************************)
EXTENDS Integers

CONSTANTS
  MaxChildren,   \* bound on the starts
  MaxChunks      \* bound on the output of one child

ASSUME ChildAssumption == MaxChildren \in Nat /\ MaxChunks \in Nat

VARIABLES
  child,      \* per start: "none", "alive", "zombie" or "reaped"
  heir,       \* per start: a process of the child's holds the pipe's other end
  written, captured,   \* chunks written to the pipe, and appended to Impl::all
  verdict,    \* how the child ended: "ok", "failed" or "signal"
  reader_at,  \* where Impl::reader is
  finished,   \* Impl::finished
  handle,     \* the start the launcher's handle is at, 0 before the first
  started,    \* Impl::started_flag of that handle
  ui_at,      \* where the UI thread is: idle, in kill(), or joining the reader
  ui_job,     \* what it does that for: "stop", "restart" or "quit"
  last_exit   \* Managed::last_exit and whose it is

childVars == <<child, heir, written, captured, verdict, reader_at, finished>>
uiVars    == <<handle, started, ui_at, ui_job, last_exit>>
processVars == <<childVars, uiVars>>

Children == 1..MaxChildren
NoExit   == [who |-> 0, how |-> "none"]     \* kNotExited

ChildInit ==
  /\ child = [c \in Children |-> "none"] /\ heir = [c \in Children |-> FALSE]
  /\ written = [c \in Children |-> 0] /\ captured = [c \in Children |-> 0]
  /\ verdict = [c \in Children |-> "none"]
  /\ reader_at = [c \in Children |-> "none"] /\ finished = [c \in Children |-> FALSE]
  /\ handle = 0 /\ started = FALSE /\ ui_at = "idle" /\ ui_job = "none" /\ last_exit = NoExit

\* running(): started and not finished.
Running == started /\ ~finished[handle]

-----------------------------------------------------------------------------
(* The child, and its heir. *)

Writes(c) ==
  /\ child[c] = "alive" \/ heir[c]
  /\ written[c] < MaxChunks
  /\ written' = [written EXCEPT ![c] = @ + 1]
  /\ UNCHANGED <<child, heir, captured, verdict, reader_at, finished, uiVars>>

Forks(c) ==
  /\ child[c] = "alive" /\ ~heir[c]
  /\ heir' = [heir EXCEPT ![c] = TRUE]
  /\ UNCHANGED <<child, written, captured, verdict, reader_at, finished, uiVars>>

HeirEnds(c) ==
  /\ heir[c]
  /\ heir' = [heir EXCEPT ![c] = FALSE]
  /\ UNCHANGED <<child, written, captured, verdict, reader_at, finished, uiVars>>

Dies(c, how) ==
  /\ child' = [child EXCEPT ![c] = "zombie"] /\ verdict' = [verdict EXCEPT ![c] = how]
  /\ UNCHANGED <<heir, written, captured, reader_at, finished>>

\* By itself, or because it heeds SIGTERM; a program that cannot be executed
\* ends with 127.
ChildEnds(c) ==
  /\ child[c] = "alive"
  /\ \E how \in {"ok", "failed"} \cup (IF ui_at = "term" THEN {"signal"} ELSE {}) : Dies(c, how)
  /\ UNCHANGED uiVars

-----------------------------------------------------------------------------
(* The reader thread. *)

Capture(c) ==
  /\ reader_at[c] = "read" /\ captured[c] < written[c]
  /\ captured' = [captured EXCEPT ![c] = @ + 1]
  /\ UNCHANGED <<child, heir, written, verdict, reader_at, finished, uiVars>>

\* Mutant: the child is reaped as soon as it is dead.
AtDeath(c) == child[c] # "alive"

\* read() returns 0 when nobody can write any more.
AtEof(c) == captured[c] = written[c] /\ child[c] # "alive" /\ ~heir[c]

EndOfPipe(c) ==
  /\ reader_at[c] = "read" /\ AtEof(c)
  /\ reader_at' = [reader_at EXCEPT ![c] = "reap"]
  /\ UNCHANGED <<child, heir, written, captured, verdict, finished, uiVars>>

\* waitpid(): from here on the pid is nobody's.
Reap(c) ==
  /\ reader_at[c] = "reap" /\ child[c] = "zombie"
  /\ child' = [child EXCEPT ![c] = "reaped"]
  /\ reader_at' = [reader_at EXCEPT ![c] = "note"]
  /\ UNCHANGED <<heir, written, captured, verdict, finished, uiVars>>

Note(c) ==
  /\ reader_at[c] = "note"
  /\ finished' = [finished EXCEPT ![c] = TRUE]
  /\ reader_at' = [reader_at EXCEPT ![c] = "done"]
  /\ UNCHANGED <<child, heir, written, captured, verdict, uiVars>>

ReaderThread(c) == Capture(c) \/ EndOfPipe(c) \/ Reap(c) \/ Note(c)

-----------------------------------------------------------------------------
(* The UI thread of the launcher. *)

\* start_selected(): a handle whose process is running is left alone; else the
\* old process is collected and a new one is started in its place.
StartApp ==
  /\ ui_at = "idle" /\ ~Running /\ handle < MaxChildren
  /\ ui_at' = (IF started THEN "join" ELSE "fork") /\ ui_job' = "restart"
  /\ UNCHANGED <<childVars, handle, started, last_exit>>

\* start(): fork, and the reader thread.
Fork ==
  /\ ui_at = "fork"
  /\ handle' = handle + 1
  /\ child' = [child EXCEPT ![handle + 1] = "alive"]
  /\ reader_at' = [reader_at EXCEPT ![handle + 1] = "read"]
  /\ started' = TRUE /\ ui_at' = "idle" /\ ui_job' = "none"
  /\ UNCHANGED <<heir, written, captured, verdict, finished, last_exit>>

\* No pipe or no process to be had: the handle is a new one, and not started.
ForkFails ==
  /\ ui_at = "fork"
  /\ started' = FALSE /\ ui_at' = "idle" /\ ui_job' = "none"
  /\ UNCHANGED <<childVars, handle, last_exit>>

\* kill(): SIGTERM.  It fails when the reader has reaped the child already.
Terminate(job, from) ==
  /\ ui_at = from /\ Running
  /\ ui_job' = job
  /\ ui_at' = (IF child[handle] = "reaped" THEN (IF job = "quit" THEN "join" ELSE "idle")
                                            ELSE "term")
  /\ UNCHANGED <<childVars, handle, started, last_exit>>

StopApp == Terminate("stop", "idle")

\* kill_children() at the end of the launcher, and ~ChildProcess(): kill() for
\* what still runs, which is done twice to the same effect, and the reader is
\* joined.
Quit ==
  \/ Terminate("quit", "idle")
  \/ /\ ui_at = "idle" /\ ~Running
     /\ ui_at' = "join" /\ ui_job' = "quit"
     /\ UNCHANGED <<childVars, handle, started, last_exit>>

AfterKill == ui_at' = (IF ui_job = "quit" THEN "join" ELSE "idle")

\* try_finish() is asked every 30 ms ...
Terminated ==
  /\ ui_at = "term" /\ finished[handle]
  /\ AfterKill
  /\ UNCHANGED <<childVars, handle, started, ui_job, last_exit>>

\* Mutant: the child is not killed.
KillNot ==
  /\ ui_at = "term" /\ ~finished[handle]
  /\ AfterKill
  /\ UNCHANGED <<childVars, handle, started, ui_job, last_exit>>

\* ... and after 1500 ms comes SIGKILL.
Kill ==
  /\ ui_at = "term" /\ ~finished[handle]
  /\ AfterKill
  /\ IF child[handle] = "alive" THEN Dies(handle, "signal") ELSE UNCHANGED childVars
  /\ UNCHANGED <<handle, started, ui_job, last_exit>>

Joined ==
  /\ ui_at = "join" /\ started => reader_at[handle] = "done"
  /\ ui_at = "join"
  /\ ui_at' = (IF ui_job = "quit" THEN "gone" ELSE "fork")
  /\ UNCHANGED <<childVars, handle, started, ui_job, last_exit>>

\* poll_all(): the exit code is noted once it is known.
PollExit ==
  /\ ui_at = "idle" /\ started /\ finished[handle]
  /\ last_exit' = [who |-> handle, how |-> verdict[handle]]
  /\ UNCHANGED <<childVars, handle, started, ui_at, ui_job>>

UiThread == Fork \/ ForkFails \/ Terminated \/ Kill \/ Joined

ProcessNext ==
  \/ \E c \in Children : Writes(c) \/ Forks(c) \/ HeirEnds(c) \/ ChildEnds(c) \/ ReaderThread(c)
  \/ StartApp \/ StopApp \/ Quit \/ PollExit \/ UiThread

ProcessSpec == ChildInit /\ [][ProcessNext]_processVars

\* Threads run, and whoever inherited the pipe ends some day.
ProcessFairness ==
  /\ \A c \in Children : WF_processVars(ReaderThread(c)) /\ WF_processVars(HeirEnds(c))
  /\ WF_processVars(UiThread)

-----------------------------------------------------------------------------
ProcessTypeOK ==
  /\ child \in [Children -> {"none", "alive", "zombie", "reaped"}]
  /\ reader_at \in [Children -> {"none", "read", "reap", "note", "done"}]
  /\ handle \in 0..MaxChildren
  /\ ui_at \in {"idle", "fork", "term", "join", "gone"}

\* The exit of a child is told only when all its output was captured, and what
\* its heirs wrote as well: a log view that stops there has missed nothing.
ToldWithAllOutput ==
  \A c \in Children : finished[c] => captured[c] = written[c] /\ child[c] = "reaped" /\ ~heir[c]

\* An application is started again only when its last process is collected: no
\* two of them run, no zombie and no reader is left, at the end either.
OneProcess ==
  \A c \in Children :
    c # handle \/ ui_at \in {"fork", "gone"} =>
      child[c] \in {"none", "reaped"} /\ reader_at[c] \in {"none", "done"}

\* The exit code shown is the one of the process it is said to be of.
ExitIsTrue == last_exit # NoExit => verdict[last_exit.who] = last_exit.how /\ finished[last_exit.who]

ProcessInv == ProcessTypeOK /\ ToldWithAllOutput /\ OneProcess /\ ExitIsTrue

\* The UI thread waits for a child, which may ignore SIGTERM, or for its reader.
UiAwaits == ui_at = "term" \/ (ui_job = "quit" /\ ui_at # "gone")
NoneAlive == \A c \in Children : child[c] # "alive"

-----------------------------------------------------------------------------
(***************************************************************************)
(* run_process() on POSIX (process.cpp): calls of several threads, each    *)
(* with a program of its own.  A call makes the pipes, marks them close-   *)
(* on-exec, forks, feeds the program's standard input by one thread and    *)
(* drains its output by others, polls for its end or its deadline, and     *)
(* returns when the drains have seen the end of the output.  The two       *)
(* output pipes are modelled as one.                                       *)
(***************************************************************************)

CONSTANTS
  Runs,        \* calls
  TimedRuns,   \* those with timeout_ms > 0
  Filters,     \* those whose program reads its input to the end before it ends
  Output,      \* what each program writes
  PipeRoom     \* what a pipe holds

ASSUME RunAssumption ==
  /\ TimedRuns \subseteq Runs /\ Filters \subseteq Runs
  /\ Output \in Nat /\ PipeRoom \in Nat \ {0}

VARIABLES
  call_at,     \* per call: where it is
  program,     \* per call: "none", "alive", "zombie" or "reaped"
  left,        \* output the program has still to write
  piped,       \* output in the pipe
  text,        \* output in out_text
  fed,         \* the input was written and its end closed
  orphan,      \* a process that the program started and left its output to
  kept,        \* the calls whose pipes this call's program holds by accident
  drained,     \* the drain has returned
  timed_out    \* result.timed_out

runVars == <<call_at, program, left, piped, text, fed, orphan, kept,
             drained, timed_out>>

RunTypeOK ==
  /\ call_at \in [Runs -> {"pipe", "mark", "fork", "wait", "join", "done"}]
  /\ program \in [Runs -> {"none", "alive", "zombie", "reaped"}]
  /\ left \in [Runs -> 0..Output] /\ piped \in [Runs -> 0..PipeRoom]
  /\ text \in [Runs -> 0..Output] /\ orphan \in [Runs -> {"none", "alive", "ended"}]
  /\ kept \in [Runs -> SUBSET Runs]

RunInit ==
  /\ call_at = [r \in Runs |-> "pipe"]
  /\ program = [r \in Runs |-> "none"]
  /\ left = [r \in Runs |-> Output] /\ piped = [r \in Runs |-> 0] /\ text = [r \in Runs |-> 0]
  /\ fed = [r \in Runs |-> FALSE] /\ orphan = [r \in Runs |-> "none"]
  /\ kept = [r \in Runs |-> {}] /\ drained = [r \in Runs |-> FALSE]
  /\ timed_out = [r \in Runs |-> FALSE]

\* A living program that holds the pipes of call r without knowing.
HeldElsewhere(r) == \E s \in Runs : program[s] = "alive" /\ r \in kept[s]

-----------------------------------------------------------------------------
(* The calling thread. *)

GoesTo(r, place) == call_at' = [call_at EXCEPT ![r] = place]

\* pipe(), three times; if one fails the call is over.
MakePipes(r) ==
  /\ call_at[r] = "pipe"
  /\ GoesTo(r, "mark") \/ GoesTo(r, "done")
  /\ UNCHANGED <<program, left, piped, text, fed, orphan, kept, drained, timed_out>>

\* FD_CLOEXEC comes after: a program of another thread that is forked before it
\* keeps the pipes.
MarkPipes(r) ==
  /\ call_at[r] = "mark" /\ GoesTo(r, "fork")
  /\ UNCHANGED <<program, left, piped, text, fed, orphan, kept, drained, timed_out>>

ForkProgram(r) ==
  /\ call_at[r] = "fork" /\ GoesTo(r, "wait")
  /\ program' = [program EXCEPT ![r] = "alive"]
  /\ kept' = [kept EXCEPT ![r] = {s \in Runs : call_at[s] = "mark"}]
  /\ UNCHANGED <<left, piped, text, fed, orphan, drained, timed_out>>

NoFork(r) ==
  /\ call_at[r] = "fork" /\ GoesTo(r, "done")
  /\ UNCHANGED <<program, left, piped, text, fed, orphan, kept, drained, timed_out>>

\* waitpid() finds the program dead.
PollProgram(r) ==
  /\ call_at[r] = "wait" /\ program[r] = "zombie"
  /\ program' = [program EXCEPT ![r] = "reaped"]
  /\ GoesTo(r, "join")
  /\ UNCHANGED <<left, piped, text, fed, orphan, kept, drained, timed_out>>

\* The deadline: SIGKILL, which may come after the program's own end.
Deadline(r) ==
  /\ call_at[r] = "wait" /\ r \in TimedRuns
  /\ program' = [program EXCEPT ![r] = "reaped"]
  /\ timed_out' = [timed_out EXCEPT ![r] = TRUE]
  /\ GoesTo(r, "join")
  /\ UNCHANGED <<left, piped, text, fed, orphan, kept, drained>>

\* Mutant: the call returns when the program has ended.
WithoutDrain(r) == TRUE

AfterDrain(r) == drained[r]

ReturnResult(r) ==
  /\ call_at[r] = "join" /\ AfterDrain(r)
  /\ GoesTo(r, "done")
  /\ UNCHANGED <<program, left, piped, text, fed, orphan, kept, drained, timed_out>>

-----------------------------------------------------------------------------
(* The threads of the call. *)

\* The detached writer has written everything, or nobody is left to read it.
FeedInput(r) ==
  /\ call_at[r] \in {"wait", "join", "done"} /\ program[r] # "none" /\ ~fed[r]
  /\ fed' = [fed EXCEPT ![r] = TRUE]
  /\ UNCHANGED <<call_at, program, left, piped, text, orphan, kept, drained, timed_out>>

\* Mutant: the output is read when the program has ended.
DrainLate(r) == call_at[r] = "join"

DrainAtOnce(r) == call_at[r] \in {"wait", "join"}

Drain(r) ==
  /\ DrainAtOnce(r) /\ piped[r] > 0
  /\ piped' = [piped EXCEPT ![r] = @ - 1] /\ text' = [text EXCEPT ![r] = @ + 1]
  /\ UNCHANGED <<call_at, program, left, fed, orphan, kept, drained, timed_out>>

\* read() returns 0: the pipe is empty and nobody can write.
DrainEnds(r) ==
  /\ call_at[r] \in {"wait", "join"} /\ ~drained[r]
  /\ piped[r] = 0 /\ program[r] # "alive" /\ orphan[r] # "alive" /\ ~HeldElsewhere(r)
  /\ drained' = [drained EXCEPT ![r] = TRUE]
  /\ UNCHANGED <<call_at, program, left, piped, text, fed, orphan, kept, timed_out>>

-----------------------------------------------------------------------------
(* The program, and what it leaves behind. *)

ProgramWrites(r) ==
  /\ program[r] = "alive" \/ orphan[r] = "alive"
  /\ left[r] > 0 /\ piped[r] < PipeRoom
  /\ left' = [left EXCEPT ![r] = @ - 1] /\ piped' = [piped EXCEPT ![r] = @ + 1]
  /\ UNCHANGED <<call_at, program, text, fed, orphan, kept, drained, timed_out>>

\* It ends when it has written its output, unless a process of its own does the
\* rest; a filter sees the end of its input before.
ProgramEnds(r) ==
  /\ program[r] = "alive" /\ (left[r] = 0 \/ orphan[r] = "alive")
  /\ r \in Filters => fed[r] /\ ~HeldElsewhere(r)
  /\ program' = [program EXCEPT ![r] = "zombie"]
  /\ UNCHANGED <<call_at, left, piped, text, fed, orphan, kept, drained, timed_out>>

LeavesOrphan(r) ==
  /\ program[r] = "alive" /\ orphan[r] = "none"
  /\ orphan' = [orphan EXCEPT ![r] = "alive"]
  /\ UNCHANGED <<call_at, program, left, piped, text, fed, kept, drained, timed_out>>

OrphanEnds(r) ==
  /\ orphan[r] = "alive" /\ (left[r] = 0 \/ program[r] = "alive")
  /\ orphan' = [orphan EXCEPT ![r] = "ended"]
  /\ UNCHANGED <<call_at, program, left, piped, text, fed, kept, drained, timed_out>>

-----------------------------------------------------------------------------
CallerThread(r) == MakePipes(r) \/ MarkPipes(r) \/ ForkProgram(r) \/ NoFork(r) \/ PollProgram(r)
                   \/ Deadline(r) \/ ReturnResult(r)
HelperThread(r) == FeedInput(r) \/ Drain(r) \/ DrainEnds(r)
Program(r)      == ProgramWrites(r) \/ ProgramEnds(r) \/ OrphanEnds(r)

RunNext == \E r \in Runs : CallerThread(r) \/ HelperThread(r) \/ Program(r) \/ LeavesOrphan(r)

RunSpec == RunInit /\ [][RunNext]_runVars

\* What is bound to go on: the threads of a call; its program, unless a deadline
\* guards the call; and what the program leaves behind.  Each has a bounded number
\* of steps, so that a call returns unless it is stuck.
GoesOn(r) ==
  \/ CallerThread(r) \/ HelperThread(r)
  \/ (r \notin TimedRuns \/ program[r] # "alive") /\ Program(r)

-----------------------------------------------------------------------------
\* A call that returns has reaped its program and has all of the output, up to
\* the end of whoever could still write it; the output of a program that was not
\* killed is complete.
RunInv ==
  /\ RunTypeOK
  /\ \A r \in Runs : call_at[r] = "done" /\ program[r] # "none" =>
       /\ program[r] = "reaped" /\ piped[r] = 0 /\ orphan[r] # "alive"
       /\ ~timed_out[r] => left[r] = 0
  /\ \A r \in Runs : timed_out[r] => r \in TimedRuns

\* No call is stuck: a program that writes more than the pipe holds does not stop
\* its call, and one that hangs only stops a call without a deadline.  The
\* exception: a program that was forked while the pipes of another call were not
\* marked yet keeps them, so that two calls may wait for each other.
NeverStuck ==
  (\A r \in Runs : ~ENABLED GoesOn(r)) =>
    (\A r \in Runs : call_at[r] = "done") \/ (\E s \in Runs : kept[s] # {})
=============================================================================
