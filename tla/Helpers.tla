------------------------------- MODULE Helpers ------------------------------
(***************************************************************************)
(* Three helpers of the library that keep their own books: the LRU cache   *)
(* of lru_cache.h, polling with growing pauses as retry.h does it, and the *)
(* latency histogram of the RPC server with the reading of its             *)
(* percentiles (rpc.cpp).  A behaviour is one of a single helper.          *)
(*                                                                         *)
(* Calls of the cache and of the histogram hold its mutex from end to end, *)
(* so that each is one step; latency_stats() is several of them.           *)
(***************************************************************************)
EXTENDS Integers, Sequences, FiniteSets, SequencesExt, FiniteSetsExt

CONSTANTS
  CacheKeys, MaxCached, MaxCacheCalls,   \* keys, largest capacity, bound on calls
  PollTries,       \* max_attempts
  PollBase, PollCap, PollJitter,   \* base_delay_ms, max_delay_ms, and jitter in percent
  PollTime,        \* timeout_ms
  BucketCount,     \* kBucketCount of the histogram
  BucketRatio,     \* kBucketRatio: bounds[] grow by it, from 1
  Latencies,       \* the times that are recorded
  MaxRecorded      \* bound on the records

ASSUME HelpersAssumption ==
  /\ {MaxCached, MaxCacheCalls, PollTries, PollBase, PollCap, PollTime, MaxRecorded} \subseteq Nat
  /\ PollJitter \in 0..99
  /\ BucketCount \in Nat \ {0} /\ BucketRatio \in Nat \ {0, 1}
  /\ Latencies \subseteq Nat

-----------------------------------------------------------------------------
(* LruCache *)

VARIABLES
  capacity,        \* capacity_
  items,           \* items_: [key, value], the newest first
  index,           \* the keys of index_
  hits, lookups,   \* hits_, lookups_
  last_put,        \* history: per key, the value last put, 0 if none or erased
  touched,         \* history: per key, the call that used it last
  evicted,         \* history: keys that went to make room, and did not come back
  cache_calls      \* calls so far, which date them and are the values that are put

lruVars == <<capacity, items, index, hits, lookups, last_put, touched, evicted, cache_calls>>

\* The key's place in the list, which index_ keeps.
PlaceOf(key) == CHOOSE i \in DOMAIN items : items[i].key = key
Others(key) == RemoveAt(items, PlaceOf(key))

CacheCall == cache_calls < MaxCacheCalls /\ cache_calls' = cache_calls + 1
Touch(key) == touched' = [touched EXCEPT ![key] = cache_calls']

CacheGet(key) ==
  /\ CacheCall /\ lookups' = lookups + 1
  /\ IF key \in index
       THEN /\ hits' = hits + 1 /\ Touch(key)
            /\ items' = <<items[PlaceOf(key)]>> \o Others(key)
       ELSE UNCHANGED <<hits, items, touched>>
  /\ UNCHANGED <<capacity, index, last_put, evicted>>

\* Mutant: a value that is replaced stays where it is.
UpdatedInPlace(key, value) ==
  [i \in DOMAIN items |-> IF items[i].key = key THEN [key |-> key, value |-> value] ELSE items[i]]
Updated(key, value) == <<[key |-> key, value |-> value]>> \o Others(key)

CachePut(key) ==
  /\ CacheCall /\ UNCHANGED <<capacity, hits, lookups>>
  /\ IF key \in index
       THEN /\ items' = Updated(key, cache_calls') /\ Touch(key)
            /\ last_put' = [last_put EXCEPT ![key] = cache_calls'] /\ UNCHANGED <<index, evicted>>
     ELSE IF capacity = 0 THEN UNCHANGED <<items, index, last_put, touched, evicted>>
     ELSE LET longer == <<[key |-> key, value |-> cache_calls']>> \o items
              full   == Len(longer) > capacity
              oldest == IF full THEN {Last(longer).key} ELSE {}
          IN  /\ items' = IF full THEN Front(longer) ELSE longer
              /\ index' = (index \cup {key}) \ oldest
              /\ last_put' = [last_put EXCEPT ![key] = cache_calls'] /\ Touch(key)
              /\ evicted' = (evicted \cup oldest) \ {key}

CacheErase(key) ==
  /\ CacheCall /\ key \in index
  /\ items' = Others(key) /\ index' = index \ {key}
  /\ last_put' = [last_put EXCEPT ![key] = 0]
  /\ UNCHANGED <<capacity, hits, lookups, touched, evicted>>

CacheClear(clear_stats) ==
  /\ CacheCall
  /\ items' = <<>> /\ index' = {}
  /\ last_put' = [k \in CacheKeys |-> 0] /\ evicted' = {}
  /\ hits' = IF clear_stats THEN 0 ELSE hits
  /\ lookups' = IF clear_stats THEN 0 ELSE lookups
  /\ UNCHANGED <<capacity, touched>>

LruNext ==
  \/ \E key \in CacheKeys : CacheGet(key) \/ CachePut(key) \/ CacheErase(key)
  \/ \E clear_stats \in BOOLEAN : CacheClear(clear_stats)

\* List and index agree and fit; what is found is what was last put; the list is in the
\* order of use, and whatever made room was used before everything that is kept.
LruInv ==
  /\ index = {items[i].key : i \in DOMAIN items}
  /\ Cardinality(index) = Len(items) /\ Len(items) <= capacity
  /\ \A i \in DOMAIN items :
       /\ items[i].value = last_put[items[i].key]
       /\ \A j \in DOMAIN items : i < j => touched[items[j].key] < touched[items[i].key]
       /\ \A k \in evicted : touched[k] < touched[items[i].key]
  /\ {k \in CacheKeys : last_put[k] # 0} = index \cup evicted
  /\ evicted # {} => capacity > 0
  /\ hits <= lookups

-----------------------------------------------------------------------------
(* poll_until() and poll_until_deadline().  A step is a call of attempt(),   *)
(* or a pause.  Times are in milliseconds.                                   *)

VARIABLES
  by_deadline,     \* poll_until_deadline() was called
  poll_at,         \* "attempt", "pause", "true" or "false"
  try_index,       \* attempts made before this one
  now_ms,          \* the clock
  pause,           \* the pause to come, or that was the last
  told_of,         \* the indices on_attempt() was called with, and their outcome
  last_pause_end   \* history: when the last pause ended

pollVars == <<by_deadline, poll_at, try_index, now_ms, pause, told_of, last_pause_end>>

\* backoff_delay_ms() without its jitter.
DoubleOnce[n \in Nat] ==
  IF n = 0 THEN PollBase
  ELSE IF DoubleOnce[n - 1] * 2 >= PollCap THEN PollCap ELSE DoubleOnce[n - 1] * 2
CappedDelay(attempt) == IF DoubleOnce[attempt] < PollCap THEN DoubleOnce[attempt] ELSE PollCap

\* Mutant: the jitter may leave no pause at all.
JitterUnbounded(delay) == {0, (delay * (100 + PollJitter)) \div 100}
\* The longest, the shortest and the exact pause stand for all between.
Jittered(delay) ==
  {IF (f * delay) \div 100 > 1 THEN (f * delay) \div 100 ELSE 1
     : f \in {100 - PollJitter, 100, 100 + PollJitter}}
Delays_ms(attempt) ==
  LET delay == CappedDelay(attempt)
  IN  IF PollJitter = 0 \/ delay = 0 THEN {delay} ELSE Jittered(delay)

Attempt ==
  /\ poll_at = "attempt"
  /\ (~by_deadline => try_index < PollTries)
  /\ \E ok \in BOOLEAN, took \in 0..1 :
       /\ now_ms' = now_ms + took
       /\ told_of' = IF by_deadline THEN told_of ELSE Append(told_of, [index |-> try_index, ok |-> ok])
       /\ IF ok THEN poll_at' = "true" /\ UNCHANGED pause
          ELSE \E delay \in Delays_ms(try_index) :
                 LET last == IF by_deadline THEN now_ms' + delay >= PollTime
                                            ELSE try_index + 1 >= PollTries
                 IN  IF last THEN poll_at' = "false" /\ UNCHANGED pause
                             ELSE poll_at' = "pause" /\ pause' = delay
  /\ UNCHANGED <<by_deadline, try_index, last_pause_end>>

\* sleep_for().
Pause ==
  /\ poll_at = "pause"
  /\ now_ms' = now_ms + pause /\ last_pause_end' = now_ms'
  /\ poll_at' = "attempt" /\ try_index' = try_index + 1
  /\ UNCHANGED <<by_deadline, pause, told_of>>

\* max_attempts that are none.
NoAttempts ==
  /\ poll_at = "attempt" /\ ~by_deadline /\ try_index >= PollTries
  /\ poll_at' = "false"
  /\ UNCHANGED <<by_deadline, try_index, now_ms, pause, told_of, last_pause_end>>

PollNext == Attempt \/ Pause \/ NoAttempts

\* Without a deadline each attempt is told of once and in order, a success ends the
\* polling, and failures end it when the tries are used up.
ToldInv ==
  ~by_deadline =>
    /\ try_index <= PollTries
    /\ \A i \in DOMAIN told_of : told_of[i].index = i - 1
                                 /\ (told_of[i].ok <=> (i = Len(told_of) /\ poll_at = "true"))
    /\ poll_at = "false" => Len(told_of) = PollTries

\* Attempts are told of as they are made.  With a deadline no pause goes past it, and
\* the polling is given up only when the next pause would.  Pauses double up to the cap
\* and leave it by the jitter at most.
PollInv ==
  /\ ToldInv
  /\ by_deadline =>
       /\ last_pause_end < PollTime \/ last_pause_end = 0
       /\ poll_at = "false" => \E delay \in Delays_ms(try_index) : now_ms + delay >= PollTime
  /\ poll_at = "pause" =>
       LET full == IF PollBase * 2 ^ try_index < PollCap THEN PollBase * 2 ^ try_index ELSE PollCap
       IN  /\ pause >= 1
           /\ (100 - PollJitter) * full <= 100 * pause + 99
           /\ 100 * pause <= (100 + PollJitter) * full
-----------------------------------------------------------------------------
(* LatencyHistogram, and RpcServer's latency_stats() *)

LatencyBuckets == 0..(BucketCount - 1)
Edge(i) == BucketRatio ^ i

VARIABLES
  latency_counts,  \* counts[], per bucket
  latency_total,   \* total: the samples, those beyond the last bucket included
  min_ms, max_ms,  \* min_ms (or -1: none) and max_ms
  samples,         \* history: per latency, how often it was recorded
  reading,         \* latency_stats(): what is read next, or "idle"
  stats,           \* what it has read: [count, min, max, p50, p99]
  crossed          \* history: something was recorded or reset since the reading began

latencyVars == <<latency_counts, latency_total, min_ms, max_ms, samples, reading, stats, crossed>>

\* bucket_index(): bisection, lo and hi as in the code.
Bisect(ms) ==
  LET halve[lo, hi \in 1..BucketCount] ==
        LET mid == lo + ((hi - lo) \div 2) IN
        IF hi - lo <= 1 THEN lo
        ELSE IF ms < Edge(mid) THEN halve[lo, mid] ELSE halve[mid, hi]
  IN halve[1, BucketCount]

bucket_index(ms) ==
  IF ms < Edge(1) THEN 0
  ELSE IF ms >= Edge(BucketCount) THEN BucketCount
  ELSE Bisect(ms)

Recorded == FoldFunction(LAMBDA a, b : a + b, 0, samples)

RecordLatency(ms) ==
  /\ Recorded < MaxRecorded
  /\ latency_counts' = [i \in LatencyBuckets |-> latency_counts[i] + IF bucket_index(ms) = i THEN 1 ELSE 0]
  /\ latency_total' = latency_total + 1
  /\ min_ms' = IF min_ms = -1 \/ ms < min_ms THEN ms ELSE min_ms
  /\ max_ms' = IF ms > max_ms THEN ms ELSE max_ms
  /\ samples' = [samples EXCEPT ![ms] = @ + 1]
  /\ crossed' = (reading # "idle")
  /\ UNCHANGED <<reading, stats>>

\* The server starts again.
ResetLatency ==
  /\ latency_total > 0
  /\ latency_counts' = [i \in LatencyBuckets |-> 0] /\ latency_total' = 0 /\ min_ms' = -1 /\ max_ms' = 0
  /\ samples' = [ms \in Latencies |-> 0]
  /\ crossed' = (reading # "idle")
  /\ UNCHANGED <<reading, stats>>

\* percentile(), times 100 and rounded down, for p of 100.
Seen(i) == FoldSet(LAMBDA j, n : n + latency_counts[j], 0, {j \in LatencyBuckets : j < i})
Clamped(v) == IF v < 100 * min_ms THEN 100 * min_ms ELSE IF v > 100 * max_ms THEN 100 * max_ms ELSE v
InBucket(i, target) ==
  (Edge(i) * 100) + ((Edge(i + 1) - Edge(i)) * (target - 100 * Seen(i))) \div latency_counts[i]

\* Mutant: the rank is compared with the samples before the bucket.
HitBucketsLate(target) == {i \in LatencyBuckets : latency_counts[i] > 0 /\ target <= 100 * Seen(i)}
HitBuckets(target) == {i \in LatencyBuckets : latency_counts[i] > 0 /\ target <= 100 * (Seen(i) + latency_counts[i])}

percentile(p) ==
  LET rank   == p * latency_total
      target == IF rank < 100 THEN 100 ELSE rank
  IN  IF latency_total = 0 THEN -100
      ELSE IF latency_total = 1 THEN 100 * min_ms
      ELSE IF HitBuckets(target) = {} THEN 100 * max_ms
      ELSE Clamped(InBucket(Min(HitBuckets(target)), target))

NoStats == [count |-> 0, min |-> 0, max |-> 0, p50 |-> 0, p99 |-> 0]

ReadSnapshot ==
  /\ reading = "idle" /\ reading' = "p50" /\ crossed' = FALSE
  /\ stats' = [NoStats EXCEPT !.count = latency_total, !.min = IF latency_total = 0 THEN 0 ELSE min_ms,
                              !.max = max_ms]
  /\ UNCHANGED <<latency_counts, latency_total, min_ms, max_ms, samples>>

ReadPercentile ==
  /\ \/ reading = "p50" /\ reading' = "p99" /\ stats' = [stats EXCEPT !.p50 = percentile(50)]
     \/ reading = "p99" /\ reading' = "done" /\ stats' = [stats EXCEPT !.p99 = percentile(99)]
     \/ reading = "done" /\ reading' = "idle" /\ stats' = NoStats
  /\ UNCHANGED <<latency_counts, latency_total, min_ms, max_ms, samples, crossed>>

LatencyNext ==
  \/ \E ms \in Latencies : RecordLatency(ms)
  \/ ResetLatency \/ ReadSnapshot \/ ReadPercentile

\* The sample of that rank, counted from 1.
RankedSample(n) ==
  Min({ms \in Latencies :
         FoldSet(LAMBDA x, k : k + samples[x], 0, {x \in Latencies : x <= ms}) >= n})

\* What is told of p is from the bucket of the sample it is about, or is the greatest
\* sample if that one is beyond all buckets, and never beyond the samples.
EstimateIsNear(p, told) ==
  LET rank == p * latency_total
      n    == IF rank < 100 THEN 1 ELSE (rank + 99) \div 100
      ms   == RankedSample(n)
      i    == CHOOSE b \in 0..(BucketCount) :
                (b = 0 \/ Edge(b) <= ms) /\ (b = BucketCount \/ ms < Edge(b + 1))
  IN  /\ 100 * min_ms <= told /\ told <= 100 * max_ms
      /\ IF i = BucketCount THEN told = 100 * max_ms
         ELSE told <= 100 * Edge(i + 1) /\ (told >= 100 * Edge(i) \/ i = 0)

\* The histogram accounts for every sample, and a reading that nothing crossed is one of
\* one moment: ordered, near what was recorded, and empty together.
LatencyInv ==
  /\ latency_total = Recorded
  /\ latency_total = Seen(BucketCount)
               + FoldSet(LAMBDA x, k : k + samples[x], 0,
                         {x \in Latencies : x >= Edge(BucketCount)})
  /\ (reading = "done" /\ ~crossed) =>
       /\ stats.count = latency_total
       /\ stats.p50 <= stats.p99
       /\ IF latency_total = 0 THEN stats.p50 = -100 /\ stats.p99 = -100
          ELSE EstimateIsNear(50, stats.p50) /\ EstimateIsNear(99, stats.p99)

-----------------------------------------------------------------------------
VARIABLE helper   \* the one in use: "cache", "poll" or "latency"

helperVars == <<helper, lruVars, pollVars, latencyVars>>

HelpersInit ==
  /\ helper \in {"cache", "poll", "latency"}
  /\ capacity \in IF helper = "cache" THEN 0..MaxCached ELSE {0}
  /\ items = <<>> /\ index = {} /\ hits = 0 /\ lookups = 0
  /\ last_put = [k \in CacheKeys |-> 0] /\ touched = [k \in CacheKeys |-> 0]
  /\ evicted = {} /\ cache_calls = 0
  /\ by_deadline \in IF helper = "poll" THEN BOOLEAN ELSE {FALSE}
  /\ poll_at = "attempt" /\ try_index = 0 /\ now_ms = 0 /\ pause = 0
  /\ told_of = <<>> /\ last_pause_end = 0
  /\ latency_counts = [i \in LatencyBuckets |-> 0] /\ latency_total = 0 /\ min_ms = -1 /\ max_ms = 0
  /\ samples = [ms \in Latencies |-> 0]
  /\ reading = "idle" /\ stats = NoStats /\ crossed = FALSE

HelpersNext ==
  /\ UNCHANGED helper
  /\ \/ helper = "cache" /\ LruNext /\ UNCHANGED <<pollVars, latencyVars>>
     \/ helper = "poll" /\ PollNext /\ UNCHANGED <<lruVars, latencyVars>>
     \/ helper = "latency" /\ LatencyNext /\ UNCHANGED <<lruVars, pollVars>>

HelpersSpec == HelpersInit /\ [][HelpersNext]_helperVars

\* What the helpers keep is what they were given, and what they say of it is true.
HelpersInv == LruInv /\ PollInv /\ LatencyInv
=============================================================================
