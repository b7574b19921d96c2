----------------------------- MODULE Telemetry ------------------------------
(***************************************************************************)
(* What the library measures itself with: a histogram and the registry of  *)
(* metrics (metrics.cpp), and the tracer (trace.cpp).                      *)
(*                                                                         *)
(* A histogram is a row of atomic counters without a mutex: observe()      *)
(* counts the bucket first and the total after it, a scrape reads the      *)
(* buckets first and the total after them, percentile() reads the total    *)
(* first, and reset() clears the buckets one by one.  Only scrapes and     *)
(* reset_all() exclude one another, by the registry's mutex.               *)
(***************************************************************************)
EXTENDS Integers, Sequences, FiniteSets

CONSTANTS
  Observers,    \* threads that observe values
  Buckets,      \* number of buckets, the last of which is +Inf
  MaxObserved,  \* bound on the observations
  MaxResets,    \* bound on the resets
  SpanThreads,  \* threads that start spans
  MaxSpans,     \* bound on the spans
  MaxScopes,    \* bound on the scopes a thread is in
  MaxFinished   \* max_finished, of the tracer

ASSUME TelemetryAssumption ==
  /\ IsFiniteSet(Observers) /\ IsFiniteSet(SpanThreads)
  /\ Buckets \in Nat \ {0} /\ MaxFinished \in Nat
  /\ MaxObserved \in Nat /\ MaxResets \in Nat
  /\ MaxSpans \in Nat /\ MaxScopes \in Nat

VARIABLES
  counts, total,    \* counts_ and count_
  observing,        \* per observer: the bucket it has yet to count in the total, or 0
  reader,           \* a reader: what it is, where it is, what it has summed up and read
  resetting,        \* reset(): the next bucket, Buckets + 1 for the total, or 0
  by_registry,      \* that reset() is reset_all()'s, under the registry's mutex
  begun, ended,     \* per bucket: the observations begun and ended
  settled,          \* ended, when the reader started
  resets            \* the resets begun

histogramVars == <<counts, total, observing, reader, resetting, by_registry,
                   begun, ended, settled, resets>>

VARIABLES
  entries, helps    \* Impl::entries and Impl::helps of the registry

registryVars == <<entries, helps>>

VARIABLES
  span,       \* per span: its parent, its trace, and whether it has ended
  scopes,     \* per thread: the scopes it is in, with what each restores
  current,    \* per thread: current_span_slot(), 0 for none
  finished_spans, dropped,   \* TracerImpl::finished and ::dropped
  ended_since     \* spans that ended since clear()

tracerVars == <<span, scopes, current, finished_spans, dropped, ended_since>>

VARIABLE instrument   \* the one that is used; they share nothing

telemetryVars == <<instrument, histogramVars, registryVars, tracerVars>>

BucketSet == 1..Buckets
NoReader  == [kind |-> "none", at |-> 0, run |-> 0, total |-> 0, read |-> <<>>]

\* Two families of one or two series, and the types.
Series  == {<<"requests", "a">>, <<"requests", "b">>, <<"latency", "a">>}
Types   == {"counter", "gauge"}
Family(series) == series[1]

HistogramInit ==
  /\ counts = [b \in BucketSet |-> 0] /\ total = 0
  /\ observing = [o \in Observers |-> 0]
  /\ reader = NoReader /\ resetting = 0 /\ by_registry = FALSE
  /\ begun = [b \in BucketSet |-> 0] /\ ended = [b \in BucketSet |-> 0]
  /\ settled = [b \in BucketSet |-> 0] /\ resets = 0

TracerInit ==
  /\ span = <<>> /\ finished_spans = <<>> /\ dropped = 0 /\ ended_since = 0
  /\ scopes = [t \in SpanThreads |-> <<>>]
  /\ current = [t \in SpanThreads |-> 0]

TelemetryInit ==
  /\ instrument \in {"histogram", "registry", "tracer"}
  /\ HistogramInit /\ TracerInit
  /\ entries = <<>> /\ helps = <<>>

\* f[1] + ... + f[n], as the number of the units that they stand for.
SumTo(f, n) == Cardinality(UNION {{b} \X (1..f[b]) : b \in 1..n})

-----------------------------------------------------------------------------
(* The histogram. *)

\* Mutant: the total first.
TotalFirst(step, b) ==
  IF step = 2 THEN counts' = [counts EXCEPT ![b] = @ + 1] /\ UNCHANGED total
              ELSE total' = total + 1 /\ UNCHANGED counts

CountStep(step, b) ==
  IF step = 1 THEN counts' = [counts EXCEPT ![b] = @ + 1] /\ UNCHANGED total
              ELSE total' = total + 1 /\ UNCHANGED counts

\* observe(): first the bucket the value falls into, then the total.  The sum of
\* the values is left out: it is one more total.
Observe(o, b) ==
  /\ observing[o] = 0 /\ SumTo(begun, Buckets) < MaxObserved
  /\ CountStep(1, b)
  /\ observing' = [observing EXCEPT ![o] = b]
  /\ begun' = [begun EXCEPT ![b] = @ + 1]
  /\ UNCHANGED <<reader, resetting, by_registry, ended, settled, resets>>

ObserveTotal(o) ==
  /\ observing[o] # 0
  /\ CountStep(2, observing[o])
  /\ observing' = [observing EXCEPT ![o] = 0]
  /\ ended' = [ended EXCEPT ![observing[o]] = @ + 1]
  /\ UNCHANGED <<reader, resetting, by_registry, begun, settled, resets>>

\* collect() locks the registry; percentile() of the histogram locks nothing.
Read(kind) ==
  /\ reader.kind \in {"none", "done"}
  /\ kind = "scrape" => ~by_registry
  /\ reader' = [NoReader EXCEPT !.kind = kind, !.total = total]
  /\ settled' = ended
  /\ UNCHANGED <<counts, total, observing, resetting, by_registry, begun, ended, resets>>

\* cumulative_counts(), or the loop of percentile(100), which ends where the
\* running sum reaches the total.
ReadBucket ==
  /\ reader.kind \in {"scrape", "percentile"} /\ reader.at < Buckets
  /\ LET run == reader.run + counts[reader.at + 1]
         last == reader.kind = "percentile" /\ (run >= reader.total \/ reader.at + 1 = Buckets)
     IN reader' = [reader EXCEPT !.at = @ + 1, !.run = run, !.read = Append(@, run),
                                 !.kind = IF last THEN "found" ELSE @]
  /\ UNCHANGED <<counts, total, observing, resetting, by_registry, begun, ended, settled, resets>>

\* The scrape's total_count, which is also its bucket +Inf.
ReadTotal ==
  /\ reader.kind = "scrape" /\ reader.at = Buckets
  /\ reader' = [reader EXCEPT !.kind = "done", !.total = total]
  /\ UNCHANGED <<counts, total, observing, resetting, by_registry, begun, ended, settled, resets>>

Answered ==
  /\ reader.kind = "found" /\ reader' = NoReader
  /\ UNCHANGED <<counts, total, observing, resetting, by_registry, begun, ended, settled, resets>>

ResetHistogram(all) ==
  /\ resetting = 0 /\ resets < MaxResets
  /\ all => reader.kind # "scrape"
  /\ resetting' = 1 /\ by_registry' = all /\ resets' = resets + 1
  /\ UNCHANGED <<counts, total, observing, reader, begun, ended, settled>>

ResetNext ==
  /\ resetting # 0
  /\ IF resetting <= Buckets
       THEN /\ counts' = [counts EXCEPT ![resetting] = 0]
            /\ resetting' = resetting + 1
            /\ UNCHANGED <<total, by_registry>>
       ELSE /\ total' = 0 /\ resetting' = 0 /\ by_registry' = FALSE
            /\ UNCHANGED counts
  /\ UNCHANGED <<observing, reader, begun, ended, settled, resets>>

-----------------------------------------------------------------------------
(* The registry. *)

\* Mutant: the family is not asked.
AnyFamily(series, type) == TRUE

\* families: the type of the family's first series.
FamilyAgrees(series, type) ==
  \A s \in DOMAIN entries : Family(s) = Family(series) => entries[s] = type

\* counter(), gauge(), histogram(): the same object again for the same type,
\* null for another one, and else a new entry.  The first help
\* of a family stays.
Register(series, type, help) ==
  /\ IF series \in DOMAIN entries
       THEN entries[series] = type /\ UNCHANGED entries
       ELSE /\ FamilyAgrees(series, type)
            /\ entries' = [s \in DOMAIN entries \cup {series} |->
                             IF s = series THEN type ELSE entries[s]]
  /\ helps' = IF help = "" \/ Family(series) \in DOMAIN helps THEN helps
              ELSE [f \in DOMAIN helps \cup {Family(series)} |->
                      IF f = Family(series) THEN help ELSE helps[f]]

HistogramNext ==
  \/ \E o \in Observers : (\E b \in BucketSet : Observe(o, b)) \/ ObserveTotal(o)
  \/ \E kind \in {"scrape", "percentile"} : Read(kind)
  \/ ReadBucket \/ ReadTotal \/ Answered
  \/ \E all \in BOOLEAN : ResetHistogram(all)
  \/ ResetNext

RegistryNext ==
  \E s \in Series, type \in Types, help \in {"", "x", "y"} : Register(s, type, help)

-----------------------------------------------------------------------------
(* The tracer. *)

Spans == DOMAIN span

\* start_span(): a new root, or a child of a span whose context arrived here,
\* from this thread or another, and which may have ended.
StartSpan(t, parent) ==
  /\ Len(span) < MaxSpans
  /\ span' = Append(span, [parent |-> parent, by |-> t, ended |-> FALSE,
                           trace |-> IF parent = 0 THEN Len(span) + 1 ELSE span[parent].trace])
  /\ UNCHANGED <<scopes, current, finished_spans, dropped, ended_since>>

StartChildSpan(t) == StartSpan(t, current[t])

\* SpanScope: the span becomes the thread's current one; a null span hides it.
EnterScope(t, s) ==
  /\ s # 0 => span[s].by = t
  /\ Len(scopes[t]) < MaxScopes
  /\ scopes' = [scopes EXCEPT ![t] = Append(@, [span |-> s, prev |-> current[t]])]
  /\ current' = [current EXCEPT ![t] = s]
  /\ UNCHANGED <<span, finished_spans, dropped, ended_since>>

\* end(), the first time: the snapshot enters the ring, which keeps the newest.
Ends(s) ==
  IF s = 0 THEN UNCHANGED <<span, finished_spans, dropped, ended_since>>
  ELSE IF span[s].ended THEN UNCHANGED <<span, finished_spans, dropped, ended_since>>
  ELSE LET all == Append(finished_spans, s)
           drops == IF Len(all) > MaxFinished THEN 1 ELSE 0 IN
       /\ span' = [span EXCEPT ![s].ended = TRUE]
       /\ finished_spans' = SubSeq(all, 1 + drops, Len(all))
       /\ dropped' = dropped + drops
       /\ ended_since' = ended_since + 1

EndSpan(t, s) ==
  /\ span[s].by = t /\ Ends(s)
  /\ UNCHANGED <<scopes, current>>

\* Mutant: no span is current after a scope.
ForgetsPrevious(scope) == 0

Restores(scope) == scope.prev

\* ~SpanScope(): scopes end in the reverse order of their begin.
LeaveScope(t) ==
  /\ scopes[t] # <<>>
  /\ LET scope == scopes[t][Len(scopes[t])] IN
       /\ Ends(scope.span)
       /\ current' = [current EXCEPT ![t] = Restores(scope)]
  /\ scopes' = [scopes EXCEPT ![t] = SubSeq(@, 1, Len(@) - 1)]

ClearSpans ==
  /\ finished_spans' = <<>> /\ dropped' = 0 /\ ended_since' = 0
  /\ UNCHANGED <<span, scopes, current>>

TracerNext ==
  \/ \E t \in SpanThreads :
       \/ \E parent \in {0} \cup Spans : StartSpan(t, parent) \/ EnterScope(t, parent)
       \/ StartChildSpan(t)
       \/ \E s \in Spans : EndSpan(t, s)
       \/ LeaveScope(t)
  \/ ClearSpans

TelemetryNext ==
  /\ UNCHANGED instrument
  /\ \/ instrument = "histogram" /\ HistogramNext /\ UNCHANGED <<registryVars, tracerVars>>
     \/ instrument = "registry" /\ RegistryNext /\ UNCHANGED <<histogramVars, tracerVars>>
     \/ instrument = "tracer" /\ TracerNext /\ UNCHANGED <<histogramVars, registryVars>>

TelemetrySpec == TelemetryInit /\ [][TelemetryNext]_telemetryVars

-----------------------------------------------------------------------------
TelemetryTypeOK ==
  /\ counts \in [BucketSet -> 0..MaxObserved] /\ total \in 0..MaxObserved
  /\ observing \in [Observers -> 0..Buckets]
  /\ reader.kind \in {"none", "scrape", "percentile", "found", "done"}
  /\ resetting \in 0..(Buckets + 1)
  /\ DOMAIN entries \subseteq Series /\ finished_spans \in Seq(Spans)

\* Nobody stopped anything for the scrape, and yet, if nothing is reset, every
\* number of it is one the histogram had while the scrape went on: it holds
\* what had ended before and nothing that begins after.  The bucket +Inf, which
\* is the total, may be smaller than the bucket before it, by no more than the
\* observations under way.
ScrapeInv ==
  (reader.kind = "done" /\ resets = 0) =>
    /\ \A b \in BucketSet : reader.read[b] \in SumTo(settled, b)..SumTo(begun, b)
    /\ reader.total \in SumTo(settled, Buckets)..SumTo(begun, Buckets)
    /\ reader.read[Buckets] - reader.total <= Cardinality(Observers)

\* Without a reset percentile() finds the bucket of every rank: the buckets it
\* reads later hold at least the total it read before.
PercentileInv == (reader.kind = "found" /\ resets = 0) => reader.run >= reader.total

\* At rest the total is the sum of the buckets and nothing is lost.  A reset that
\* crosses an observation leaves the two apart for good, hence the condition.
AtRestInv ==
  ((\A o \in Observers : observing[o] = 0) /\ resets = 0) =>
    counts = ended /\ total = SumTo(counts, Buckets)

\* All series of a family have one type.
FamilyInv ==
  \A r, s \in DOMAIN entries : Family(r) = Family(s) => entries[r] = entries[s]

\* Inside a scope its span is the current one, and outside none; a span is in
\* its parent's trace; and every span that ended is kept once or counted as
\* dropped, the newest being kept.
TracerInv ==
  /\ \A t \in SpanThreads :
       current[t] = IF scopes[t] = <<>> THEN 0 ELSE scopes[t][Len(scopes[t])].span
  /\ \A s \in Spans : span[s].parent # 0 =>
       span[s].trace = span[span[s].parent].trace
  /\ Len(finished_spans) + dropped = ended_since
  /\ Len(finished_spans) <= MaxFinished
  /\ \A i, j \in DOMAIN finished_spans :
       span[finished_spans[i]].ended /\ (i # j => finished_spans[i] # finished_spans[j])

TelemetryInv == ScrapeInv /\ PercentileInv /\ AtRestInv /\ FamilyInv /\ TracerInv
=============================================================================
