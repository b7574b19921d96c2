---------------------------- MODULE TestRunner ------------------------------
(***************************************************************************)
(* The test runner (tools/): rounds of test programs, run by workers under *)
(* a supervisor (RunState of tr_model.cpp); the terminal that shows the    *)
(* progress until the round has ended and says how it went; and, when      *)
(* serving, a dashboard whose requests start and stop rounds from other    *)
(* threads.                                                                *)
(*                                                                         *)
(* A program's report lists its cases: "passed", "failed", "skipped", or   *)
(* "both" when it failed before it was skipped.  The test framework is     *)
(* external: its totals count the failed ones, and no skipped ones.        *)
(***************************************************************************)
EXTENDS Integers, Sequences, FiniteSets

CONSTANTS
  Suites,         \* 1..n: the programs, in the order of the table
  MaxJobs,        \* the most workers of a round
  Visitors,       \* the threads that serve the dashboard's requests
  MaxRounds,      \* bound on the rounds
  StartsOverlap   \* two requests may be within start() at once

ASSUME RunnerAssumption ==
  /\ IsFiniteSet(Suites) /\ Suites = 1..Cardinality(Suites)
  /\ MaxJobs \in Nat \ {0} /\ MaxRounds \in Nat /\ StartsOverlap \in BOOLEAN
  /\ "main" \notin Visitors

Starters == Visitors \cup {"main"}

VARIABLES
  outcome,       \* results_: per suite, whether it is selected and what became of it
  round_on,      \* running_
  halt,          \* stop_
  next_suite,    \* next_
  keep_going,    \* opts_.keep_going
  supervisor,    \* "none", "working", "ended": not joinable, running, to be joined
  hand,          \* per worker: where it is, and its suite
  starter,       \* per thread: where it is within start(), and its options
  main_at,       \* where main() is
  serving,       \* with the dashboard
  reported,      \* the suites whose line the terminal has printed
  summary,       \* "none", "good" or "bad": the summary, and the exit code
  late,          \* ghost: the suites begun after the stop, in this round
  ran,           \* ghost: how often each suite was run in this round
  rounds         \* bounds the rounds

runnerVars == <<outcome, round_on, halt, next_suite, keep_going, supervisor, hand, starter,
                main_at, serving, reported, summary, late, ran, rounds>>

States == {"pending", "running", "passed", "failed", "crashed", "not run"}
Final  == {"passed", "failed", "crashed", "not run"}

Idle   == [at |-> "off", suite |-> 0]
Ready  == [at |-> "take", suite |-> 0]
Away   == [at |-> "off", chosen |-> {}, jobs |-> 1, keep |-> TRUE]
Fresh  == [selected |-> FALSE, state |-> "pending", failing |-> FALSE]

RunnerTypeOK ==
  /\ outcome \in [Suites -> [selected : BOOLEAN, state : States, failing : BOOLEAN]]
  /\ supervisor \in {"none", "working", "ended"}
  /\ hand \in [1..MaxJobs -> [at : {"off", "take", "skip", "begin", "run", "judge"},
                              suite : Suites \cup {0}]]
  /\ \A c \in Starters : starter[c].at \in {"off", "join", "reset", "clear", "launch"}
  /\ main_at \in {"start", "render", "summary", "exit", "close", "destroy", "wait", "gone"}

RunnerInit ==
  /\ outcome = [s \in Suites |-> Fresh]
  /\ round_on = FALSE /\ halt = FALSE /\ next_suite = 1 /\ keep_going = TRUE
  /\ supervisor = "none" /\ hand = [w \in 1..MaxJobs |-> Idle]
  /\ starter = [c \in Starters |-> Away]
  /\ serving \in BOOLEAN
  /\ main_at \in (IF serving THEN {"start", "exit"} ELSE {"start"})   \* --no-run
  /\ reported = {} /\ summary = "none" /\ late = 0
  /\ ran = [s \in Suites |-> 0] /\ rounds = 0

-----------------------------------------------------------------------------
(* start(), by main() or by a request. *)

StartAt(c, place) == starter' = [starter EXCEPT ![c].at = place]

MayAsk(c) ==
  IF c = "main" THEN main_at = "start" ELSE serving /\ main_at \notin {"destroy", "wait", "gone"}

\* The flag is looked at; without a suite to run start() returns.
StartRound(c, chosen, n, keep) ==
  /\ MayAsk(c) /\ starter[c].at = "off" /\ ~round_on /\ rounds < MaxRounds
  /\ StartsOverlap \/ \A d \in Starters : starter[d].at = "off"
  /\ chosen # {}
  /\ c # "main" => keep       \* a request has no word for it
  /\ starter' = [starter EXCEPT ![c] = [at |-> "join", chosen |-> chosen, jobs |-> n, keep |-> keep]]
  /\ rounds' = rounds + 1
  /\ UNCHANGED <<outcome, round_on, halt, next_suite, keep_going, supervisor, hand, main_at,
                 serving, reported, summary, late, ran>>

\* A round is under way: main() says so and waits for the signal to leave, a
\* request is answered so.
StartRefused ==
  /\ main_at = "start" /\ starter["main"].at = "off" /\ round_on
  /\ main_at' = "exit"
  /\ UNCHANGED <<outcome, round_on, halt, next_suite, keep_going, supervisor, hand, starter,
                 serving, reported, summary, late, ran, rounds>>

\* The supervisor of the round before is joined.
JoinPrevious(c) ==
  /\ starter[c].at = "join" /\ supervisor # "working"
  /\ supervisor' = "none" /\ StartAt(c, "reset")
  /\ UNCHANGED <<outcome, round_on, halt, next_suite, keep_going, hand, main_at, serving,
                 reported, summary, late, ran, rounds>>

ResetResults(c) ==
  /\ starter[c].at = "reset" /\ StartAt(c, "clear")
  /\ outcome' = [s \in Suites |-> [Fresh EXCEPT !.selected = (s \in starter[c].chosen)]]
  /\ keep_going' = starter[c].keep
  /\ ran' = [s \in Suites |-> 0] /\ late' = 0
  /\ UNCHANGED <<round_on, halt, next_suite, supervisor, hand, main_at, serving, reported,
                 summary, rounds>>

ClearFlags(c) ==
  /\ starter[c].at = "clear" /\ StartAt(c, "launch")
  /\ halt' = FALSE /\ next_suite' = 1
  /\ UNCHANGED <<outcome, round_on, keep_going, supervisor, hand, main_at, serving, reported,
                 summary, late, ran, rounds>>

\* No more workers than suites.
Launch(c) ==
  /\ starter[c].at = "launch"
  /\ round_on' = TRUE /\ supervisor' = "working"
  /\ hand' = [w \in 1..MaxJobs |->
                IF w <= starter[c].jobs /\ w <= Cardinality(starter[c].chosen)
                  THEN Ready ELSE Idle]
  /\ starter' = [starter EXCEPT ![c] = Away]
  /\ main_at' = IF c = "main" THEN "render" ELSE main_at
  /\ UNCHANGED <<outcome, halt, next_suite, keep_going, serving, reported, summary, late, ran, rounds>>

-----------------------------------------------------------------------------
(* A round: worker_loop() and the supervisor. *)

HandAt(w, place) == hand' = [hand EXCEPT ![w].at = place]

\* Mutant: two workers may take the same suite.
TakenTwice == IF \E w \in 1..MaxJobs : hand[w].at = "begin" THEN next_suite ELSE next_suite + 1

Taken == next_suite + 1

\* A suite is taken; one that is not selected is passed over; and the stop is
\* looked at.
TakeSuite(w) ==
  /\ hand[w].at = "take" /\ next_suite' = Taken
  /\ hand' = [hand EXCEPT ![w] =
       IF next_suite \notin Suites THEN Idle
       ELSE IF ~outcome[next_suite].selected THEN Ready
       ELSE [suite |-> next_suite, at |-> IF halt THEN "skip" ELSE "begin"]]
  /\ UNCHANGED <<outcome, round_on, halt, keep_going, supervisor, starter, main_at, serving,
                 reported, summary, late, ran, rounds>>

SkipSuite(w) ==
  /\ hand[w].at = "skip" /\ hand' = [hand EXCEPT ![w] = Ready]
  /\ outcome' = [outcome EXCEPT ![hand[w].suite].state = "not run"]
  /\ UNCHANGED <<round_on, halt, next_suite, keep_going, supervisor, starter, main_at, serving,
                 reported, summary, late, ran, rounds>>

BeginSuite(w) ==
  /\ hand[w].at = "begin" /\ HandAt(w, "run")
  /\ outcome' = [outcome EXCEPT ![hand[w].suite].state = "running"]
  /\ ran' = [ran EXCEPT ![hand[w].suite] = @ + 1]
  /\ late' = IF halt THEN late + 1 ELSE late
  /\ UNCHANGED <<round_on, halt, next_suite, keep_going, supervisor, starter, main_at, serving,
                 reported, summary, rounds>>

CaseKinds == {"passed", "failed", "skipped", "both"}
HowMany(cases, kinds) == Cardinality({i \in DOMAIN cases : cases[i] \in kinds})

\* The totals at the head of a report.
Totals(cases) == [tests |-> Len(cases), failures |-> HowMany(cases, {"failed", "both"}),
                  disabled |-> 0]

\* parse_gtest_json(): the cases are counted, and the totals replace the counts.
CountByCase(cases) ==
  [total |-> Len(cases), failed |-> HowMany(cases, {"failed"}),
   skipped |-> HowMany(cases, {"skipped", "both"})]

ParseGtestJson(cases) ==
  LET head == Totals(cases) IN
  [CountByCase(cases) EXCEPT !.total = head.tests, !.failed = head.failures,
                             !.skipped = head.disabled]

\* What a program leaves: no file, no report or none that can be read, or its cases.
Remains == {"absent", "nothing", "garbled"} \cup {"cases"}

\* Mutant: the exit code counts for nothing once there is a report.
VerdictByReport(left, cases, code) ==
  IF left # "cases" THEN "crashed"
  ELSE IF ParseGtestJson(cases).failed > 0 THEN "failed" ELSE "passed"

\* run_suite().
Verdict(left, cases, code) ==
  IF left # "cases" THEN "crashed"
  ELSE IF ParseGtestJson(cases).failed > 0 \/ code # 0 THEN "failed" ELSE "passed"

\* The program ends; its output and exit code are its own affair, so that a failure
\* may show in either.
RunSuite(w, left, cases, code) ==
  /\ hand[w].at = "run" /\ HandAt(w, "judge")
  /\ outcome' = [outcome EXCEPT
       ![hand[w].suite].state = Verdict(left, cases, code),
       ![hand[w].suite].failing = (left # "cases" \/ code # 0
                                   \/ HowMany(cases, {"failed", "both"}) > 0)]
  /\ UNCHANGED <<round_on, halt, next_suite, keep_going, supervisor, starter, main_at, serving,
                 reported, summary, late, ran, rounds>>

\* With --fail-fast a failure stops the round; on_finished_ is called then.
JudgeSuite(w) ==
  /\ hand[w].at = "judge" /\ hand' = [hand EXCEPT ![w] = Ready]
  /\ halt' = (halt \/ (~keep_going /\ outcome[hand[w].suite].state \in {"failed", "crashed"}))
  /\ UNCHANGED <<outcome, round_on, next_suite, keep_going, supervisor, starter, main_at,
                 serving, reported, summary, late, ran, rounds>>

WorkersLeft == \E w \in 1..MaxJobs : hand[w].at # "off"

\* Mutant: the flag that a round is under way is not taken back.
RoundOverStillOn ==
  /\ supervisor = "working" /\ ~WorkersLeft
  /\ supervisor' = "ended"
  /\ UNCHANGED <<round_on, outcome, halt, next_suite, keep_going, hand, starter, main_at,
                 serving, reported, summary, late, ran, rounds>>

\* The supervisor has joined the workers.
RoundOver ==
  /\ supervisor = "working" /\ ~WorkersLeft
  /\ round_on' = FALSE /\ supervisor' = "ended"
  /\ UNCHANGED <<outcome, halt, next_suite, keep_going, hand, starter, main_at, serving,
                 reported, summary, late, ran, rounds>>

RequestStop(c) ==
  /\ c # "main" /\ MayAsk(c) /\ starter[c].at = "off"
  /\ halt' = TRUE
  /\ UNCHANGED <<outcome, round_on, next_suite, keep_going, supervisor, hand, starter, main_at,
                 serving, reported, summary, late, ran, rounds>>

-----------------------------------------------------------------------------
(* The terminal, and the end of main(). *)

Selected == {s \in Suites : outcome[s].selected}

\* run_until_done(): a snapshot, the lines of the suites that have ended, and the
\* look at whether the round has.
Render ==
  /\ main_at = "render"
  /\ reported' = reported \cup {s \in Selected : outcome[s].state \in Final}
  /\ main_at' = IF round_on THEN "render" ELSE "summary"
  /\ UNCHANGED <<outcome, round_on, halt, next_suite, keep_going, supervisor, hand, starter,
                 serving, summary, late, ran, rounds>>

\* snapshot(): suites that were not run are not among those that finished.
Finished == {s \in Selected : outcome[s].state \in {"passed", "failed", "crashed"}}

\* Mutant: a crash does not count.
AllGoodButCrashed ==
  /\ Selected # {} /\ Finished = Selected
  /\ \A s \in Selected : outcome[s].state # "failed"

AllGood ==
  /\ Selected # {} /\ Finished = Selected
  /\ \A s \in Selected : outcome[s].state \notin {"failed", "crashed"}

PrintSummary ==
  /\ main_at = "summary"
  /\ summary' = IF AllGood THEN "good" ELSE "bad"
  /\ main_at' = IF serving THEN "exit" ELSE "destroy"
  /\ UNCHANGED <<outcome, round_on, halt, next_suite, keep_going, supervisor, hand, starter,
                 serving, reported, late, ran, rounds>>

ExitSignal ==
  /\ main_at = "exit" /\ main_at' = "close"
  /\ UNCHANGED <<outcome, round_on, halt, next_suite, keep_going, supervisor, hand, starter,
                 serving, reported, summary, late, ran, rounds>>

\* stop_dashboard(): the server ends with its requests.
StopDashboard ==
  /\ main_at = "close" /\ \A c \in Visitors : starter[c].at = "off"
  /\ main_at' = "destroy"
  /\ UNCHANGED <<outcome, round_on, halt, next_suite, keep_going, supervisor, hand, starter,
                 serving, reported, summary, late, ran, rounds>>

\* ~RunState().
DestroyState ==
  /\ main_at = "destroy" /\ halt' = TRUE /\ main_at' = "wait"
  /\ UNCHANGED <<outcome, round_on, next_suite, keep_going, supervisor, hand, starter,
                 serving, reported, summary, late, ran, rounds>>

WaitRound ==
  /\ main_at = "wait" /\ supervisor # "working"
  /\ supervisor' = "none" /\ main_at' = "gone"
  /\ UNCHANGED <<outcome, round_on, halt, next_suite, keep_going, hand, starter,
                 serving, reported, summary, late, ran, rounds>>

-----------------------------------------------------------------------------
Starting(c) == JoinPrevious(c) \/ ResetResults(c) \/ ClearFlags(c) \/ Launch(c)

SuiteEnds(w) ==
  \E left \in Remains, cases \in {<<>>} \cup {<<k>> : k \in CaseKinds}, code \in {0, 1} :
    /\ left # "cases" => cases = <<>> /\ code = 1
    /\ RunSuite(w, left, cases, code)

RoundWorker(w) == TakeSuite(w) \/ SkipSuite(w) \/ BeginSuite(w) \/ SuiteEnds(w) \/ JudgeSuite(w)

MainEnds == StopDashboard \/ DestroyState \/ WaitRound

\* What is bound to go on: threads run, and so do test programs, each of which ends or
\* is killed when its time is up.  A round has a bounded number of such steps.
RunnerThreads ==
  RoundOver \/ MainEnds \/ (\E w \in 1..MaxJobs : RoundWorker(w)) \/ \E c \in Starters : Starting(c)

RunnerNext ==
  \/ \E c \in Starters : Starting(c) \/ RequestStop(c)
  \/ \E c \in Starters, chosen \in SUBSET Suites, n \in 1..MaxJobs, keep \in BOOLEAN :
       StartRound(c, chosen, n, keep)
  \/ StartRefused \/ RoundOver \/ Render \/ PrintSummary \/ ExitSignal \/ MainEnds
  \/ \E w \in 1..MaxJobs : RoundWorker(w)

-----------------------------------------------------------------------------
\* Each suite of a round is run once or said not to have been, by one worker; and
\* when the round has ended there is none that has not.
EachOnce ==
  /\ \A s \in Suites : ran[s] = (IF outcome[s].state \in {"pending", "not run"} THEN 0 ELSE 1)
  /\ \A s \in Suites : ~outcome[s].selected => outcome[s].state = "pending"
  /\ (~round_on /\ supervisor = "ended" /\ \A c \in Starters : starter[c].at \in {"off", "join"}) =>
       \A s \in Selected : outcome[s].state \in Final

\* A suite that passed has no failure in its report and none in its exit code, also
\* where a case failed before it was skipped.
PassedIsTrue == \A s \in Suites : outcome[s].state = "passed" => ~outcome[s].failing

\* A stop, asked for or brought about by a failure under --fail-fast, lets each
\* worker begin at most the suite it has in hand.
StopsSoon == late <= MaxJobs

\* A suite is not run only when a stop was asked for, or a failure asked for it.
SkippedForReason ==
  \A s \in Selected : outcome[s].state = "not run" => halt

\* In the terminal alone: when main() returns success every suite has passed and has
\* had its line; otherwise one has not passed.
VerdictIsTrue ==
  (~serving /\ summary # "none") =>
    /\ (summary = "good") = (\A s \in Selected : outcome[s].state = "passed")
    /\ reported = Selected

\* When main() is gone no thread of the runner is left.
NothingLeft == main_at = "gone" => supervisor = "none" /\ ~WorkersLeft /\ ~round_on

RunnerInv ==
  RunnerTypeOK /\ EachOnce /\ PassedIsTrue /\ StopsSoon /\ SkippedForReason /\ VerdictIsTrue /\ NothingLeft

\* A round is under way, or main() was told to end.
RoundAwaited == round_on \/ main_at \in {"close", "destroy", "wait"}
=============================================================================
