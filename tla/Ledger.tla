-------------------------------- MODULE Ledger --------------------------------
(***************************************************************************)
(* The usage ledger (internal/ledger/ledger.go): every attempt the library *)
(* reports is added to a bucket of its UTC day, to a counter of its        *)
(* outcome and, when it succeeded, to a histogram of first-output waits.   *)
(* /stats reads the buckets (server/stats.go); /metrics reads the counters *)
(* and then the histograms, each under the lock but not both under one     *)
(* (server/metrics.go), so that attempts are recorded between the two.     *)
(*                                                                         *)
(* Labels are naturals ordered as the strings they stand for; 0 is the     *)
(* empty phase.  A day is a natural, and the clock moves by midnights.     *)
(***************************************************************************)
EXTENDS AttemptEvents, Integers, Sequences, FiniteSets, FiniteSetsExt,
        Functions, Bags, SequencesExt

CONSTANTS
    Calls,          \* the attempts the library may report
    Bounds,         \* the histogram's edges, the last bucket being +Inf
    Retention,      \* days a bucket is kept beside its own
    MaxAttempts,    \* bound: attempts recorded
    LastDay         \* bound: the clock

CallType ==
    [alias : Nat, provider : Nat, model : Nat, streaming : BOOLEAN,
     error : Errors, firstOutputTimeout : BOOLEAN, phase : Nat, wait : Nat,
     input : Nat, output : Nat, cacheRead : Nat, cacheWrite : Nat,
     cacheReadReported : BOOLEAN, estimated : BOOLEAN]

ASSUME LedgerAssumption ==
    /\ Calls \subseteq CallType
    /\ \A e \in Calls : e.firstOutputTimeout => e.error = "other"
    /\ Bounds \in Seq(Nat)
    /\ \A i, j \in DOMAIN Bounds : i < j => Bounds[i] < Bounds[j]
    /\ Retention \in Nat /\ MaxAttempts \in Nat /\ LastDay \in Nat

VARIABLES
    buckets,        \* l.buckets: a bucket for some keys
    attempts,       \* l.attempts: a bag of keys
    firstOutput,    \* l.firstOutput: a histogram for some legs
    today,          \* the UTC day
    log,            \* the attempts recorded with their days, a bag (history)
    stats,          \* the last /stats answer, and what it was computed from
    reader,         \* the scrape in progress
    page            \* the last /metrics answer

ledgerVars == <<buckets, attempts, firstOutput, log>>
vars == <<ledgerVars, today, stats, reader, page>>

-----------------------------------------------------------------------------
(* Buckets.                                                                *)

BucketKey(e, day) ==
    [day |-> day, alias |-> e.alias, provider |-> e.provider, model |-> e.model]

EmptyBucket ==
    [requests |-> 0, failures |-> 0, input |-> 0, output |-> 0, cacheRead |-> 0,
     cacheWrite |-> 0, reported |-> 0, reportedInput |-> 0, estimated |-> 0]

One(b) == IF b THEN 1 ELSE 0

\* Mutant: a report of writes alone counts as a report of reads.
Added_AnyReport(b, e) ==
    [requests      |-> b.requests + 1,
     failures      |-> b.failures + One(~Succeeded(e)),
     input         |-> b.input + e.input,
     output        |-> b.output + e.output,
     cacheRead     |-> b.cacheRead + e.cacheRead,
     cacheWrite    |-> b.cacheWrite + e.cacheWrite,
     reported      |-> b.reported + One(e.cacheReadReported \/ e.cacheWrite > 0),
     reportedInput |-> b.reportedInput +
         One(e.cacheReadReported \/ e.cacheWrite > 0) * e.input,
     estimated     |-> b.estimated + One(e.estimated)]

\* The denominator of a cache hit rate counts only calls that reported reads.
Added(b, e) ==
    [requests      |-> b.requests + 1,
     failures      |-> b.failures + One(~Succeeded(e)),
     input         |-> b.input + e.input,
     output        |-> b.output + e.output,
     cacheRead     |-> b.cacheRead + e.cacheRead,
     cacheWrite    |-> b.cacheWrite + e.cacheWrite,
     reported      |-> b.reported + One(e.cacheReadReported),
     reportedInput |-> b.reportedInput + One(e.cacheReadReported) * e.input,
     estimated     |-> b.estimated + One(e.estimated)]

WithBucket(k, b) == [j \in DOMAIN buckets \cup {k} |-> IF j = k THEN b ELSE buckets[j]]

BucketOf(k) == IF k \in DOMAIN buckets THEN buckets[k] ELSE EmptyBucket

\* pruneLocked: a bucket older than the cutoff day goes.
Pruned(bs) == [k \in {j \in DOMAIN bs : j.day >= today - Retention} |-> bs[k]]

-----------------------------------------------------------------------------
(* Counters and histograms.                                                *)

AttemptKey(e) ==
    [alias |-> e.alias, provider |-> e.provider, model |-> e.model,
     outcome |-> OutcomeOf(e), phase |-> IF e.firstOutputTimeout THEN e.phase ELSE 0,
     streaming |-> e.streaming]

Leg(e) ==
    [alias |-> e.alias, provider |-> e.provider, model |-> e.model,
     streaming |-> e.streaming]

Slots == 1..(Len(Bounds) + 1)

\* Mutant: no room for the waits beyond the last edge.
EmptyHistogram_NoInf == [counts |-> [i \in DOMAIN Bounds |-> 0], sum |-> 0, count |-> 0]

EmptyHistogram == [counts |-> [i \in Slots |-> 0], sum |-> 0, count |-> 0]

\* Mutant: an edge belongs to the bucket above it.
Slot_Strict(wait) ==
    Min({i \in DOMAIN Bounds : wait < Bounds[i]} \cup {Len(Bounds) + 1})

Slot(wait) == Min({i \in DOMAIN Bounds : wait <= Bounds[i]} \cup {Len(Bounds) + 1})

HistogramOf(leg) ==
    IF leg \in DOMAIN firstOutput THEN firstOutput[leg] ELSE EmptyHistogram

Waited(h, wait) ==
    [counts |-> [h.counts EXCEPT ![Slot(wait)] = @ + 1],
     sum    |-> h.sum + wait,
     count  |-> h.count + 1]

\* Mutant: an abandoned attempt adds its budget to the waits.
Measured_Abandoned(e) == OutcomeOf(e) \in {"ok", "first_output_timeout"} /\ e.wait > 0

\* Only a successful attempt has a first output to measure.
Measured(e) == OutcomeOf(e) = "ok" /\ e.wait > 0

\* Mutant: a hang-up is nobody's attempt.
CountAttempt_NoCanceled(e) ==
    /\ attempts' = IF OutcomeOf(e) = "canceled" THEN attempts
                   ELSE attempts (+) SetToBag({AttemptKey(e)})
    /\ firstOutput' =
           IF Measured(e)
           THEN [leg \in DOMAIN firstOutput \cup {Leg(e)} |->
                    IF leg = Leg(e) THEN Waited(HistogramOf(leg), e.wait)
                                    ELSE firstOutput[leg]]
           ELSE firstOutput

\* recordAttemptLocked.
CountAttempt(e) ==
    /\ attempts' = attempts (+) SetToBag({AttemptKey(e)})
    /\ firstOutput' =
           IF Measured(e)
           THEN [leg \in DOMAIN firstOutput \cup {Leg(e)} |->
                    IF leg = Leg(e) THEN Waited(HistogramOf(leg), e.wait)
                                    ELSE firstOutput[leg]]
           ELSE firstOutput

\* Cumulative, as Prometheus has them.
Cumulative(h) ==
    [h EXCEPT !.counts =
        [i \in DOMAIN h.counts |-> SumFunctionOnSet(h.counts, 1..i)]]

-----------------------------------------------------------------------------
(* The orders of the answers.                                              *)

\* The first difference decides.
Precedes(s, t) ==
    \E i \in DOMAIN s : s[i] < t[i] /\ \A j \in 1..(i - 1) : s[j] = t[j]

\* sort.Slice over a map's entries: any order that puts none before one that
\* precedes it; what compares equal may fall either way.
Sorted(rank) ==
    {s \in SetToSeqs(DOMAIN rank) :
        \A i, j \in DOMAIN s : i < j => ~Precedes(rank[s[j]], rank[s[i]])}

\* Mutant: the model does not take part.
BucketRank_NoModel(k) == <<k.day, k.alias, k.provider>>

BucketRank(k) == <<k.day, k.alias, k.provider, k.model>>

\* The outcomes, alphabetically.
OutcomeRank ==
    [canceled |-> 1, error |-> 2, first_output_timeout |-> 3, ok |-> 4]

AttemptRank(k) == <<k.alias, k.model, OutcomeRank[k.outcome], k.phase>>

-----------------------------------------------------------------------------

NoFunction == [x \in {} |-> x]

Init ==
    /\ buckets = NoFunction
    /\ attempts = EmptyBag
    /\ firstOutput = NoFunction
    /\ today = 0
    /\ log = EmptyBag
    /\ stats = [keys |-> <<>>, of |-> [log |-> EmptyBag, today |-> 0]]
    /\ reader = [at |-> 1, rows |-> <<>>, seen |-> EmptyBag, firstOutputs |-> NoFunction]
    /\ page = [rows |-> <<>>, seen |-> EmptyBag, firstOutputs |-> NoFunction]

\* Record, the hook of every request: an attempt may be of a day gone by.
Record ==
    \E e \in Calls, day \in 0..today :
        /\ BagCardinality(log) < MaxAttempts
        /\ LET k == BucketKey(e, day) IN
           buckets' = Pruned(WithBucket(k, Added(BucketOf(k), e)))
        /\ CountAttempt(e)
        /\ log' = log (+) SetToBag({[call |-> e, day |-> day]})
        /\ UNCHANGED <<today, stats, reader, page>>

Midnight ==
    /\ today < LastDay
    /\ today' = today + 1
    /\ UNCHANGED <<ledgerVars, stats, reader, page>>

\* Snapshot.
Stats ==
    /\ buckets' = Pruned(buckets)
    /\ \E s \in Sorted([k \in DOMAIN buckets' |-> BucketRank(k)]) :
          stats' = [keys |-> s, of |-> [log |-> log, today |-> today]]
    /\ UNCHANGED <<attempts, firstOutput, log, today, reader, page>>

\* Mutant: the histograms first.
ReadOrder_Swapped == <<"FirstOutputs", "Attempts">>

\* The arguments of writeMetrics, evaluated from left to right.
ReadOrder == <<"Attempts", "FirstOutputs">>

\* Attempts: its rows, and the attempts recorded by then.
ReadAttempts ==
    /\ reader.at \in DOMAIN ReadOrder /\ ReadOrder[reader.at] = "Attempts"
    /\ \E s \in Sorted([k \in DOMAIN attempts |-> AttemptRank(k)]) :
          reader' = [reader EXCEPT
              !.at = @ + 1,
              !.rows = [i \in DOMAIN s |-> [key |-> s[i], count |-> attempts[s[i]]]],
              !.seen = log]
    /\ UNCHANGED <<ledgerVars, today, stats, page>>

ReadFirstOutputs ==
    /\ reader.at \in DOMAIN ReadOrder /\ ReadOrder[reader.at] = "FirstOutputs"
    /\ reader' = [reader EXCEPT
           !.at = @ + 1,
           !.firstOutputs = [leg \in DOMAIN firstOutput |-> Cumulative(firstOutput[leg])]]
    /\ UNCHANGED <<ledgerVars, today, stats, page>>

\* The page is rendered in full, then sent.
Respond ==
    /\ reader.at > Len(ReadOrder)
    /\ page' = [rows |-> reader.rows, seen |-> reader.seen,
                firstOutputs |-> reader.firstOutputs]
    /\ reader' = [reader EXCEPT !.at = 1]
    /\ UNCHANGED <<ledgerVars, today, stats>>

Metrics == ReadAttempts \/ ReadFirstOutputs \/ Respond

Next == Record \/ Midnight \/ Stats \/ Metrics

Spec == Init /\ [][Next]_vars

-----------------------------------------------------------------------------
(* What the ledger promises.                                               *)

\* Every table keeps its shape: each histogram has a slot per edge and one more.
TypeOK ==
    /\ \A k \in DOMAIN buckets : k.day \in 0..today /\ buckets[k].requests > 0
    /\ IsABag(attempts)
    /\ \A leg \in DOMAIN firstOutput :
          firstOutput[leg] \in [counts : [Slots -> Nat], sum : Nat, count : Nat]
    /\ today \in 0..LastDay
    /\ reader.at \in 1..(Len(ReadOrder) + 1)

KeyOf(r) == BucketKey(r.call, r.day)

\* What a call is worth in each figure of a bucket.
Share(e) ==
    [requests |-> 1, failures |-> One(e.error # "none"), input |-> e.input,
     output |-> e.output, cacheRead |-> e.cacheRead, cacheWrite |-> e.cacheWrite,
     reported |-> One(e.cacheReadReported),
     reportedInput |-> One(e.cacheReadReported) * e.input,
     estimated |-> One(e.estimated)]

LoggedUnder(k, field) ==
    SumFunction([r \in {q \in DOMAIN log : KeyOf(q) = k} |->
                    log[r] * Share(r.call)[field]])

\* Whatever the order of records, midnights and reads, a bucket holds exactly
\* what was recorded under its key, and no bucket within the retention is gone:
\* pruning at each record and read never drops a day too many, and a hit rate's
\* denominator never takes in a call that said nothing about its cache reads.
BucketsMatchLog ==
    /\ \A r \in DOMAIN log : r.day >= today - Retention => KeyOf(r) \in DOMAIN buckets
    /\ \A k \in DOMAIN buckets, field \in DOMAIN EmptyBucket :
          buckets[k][field] = LoggedUnder(k, field)

SameModel(k, leg) ==
    k.alias = leg.alias /\ k.provider = leg.provider /\ k.model = leg.model

\* /stats and /metrics account for the same attempts: of one alias and model,
\* the buckets hold at most what the counters do, failures and successes
\* apart, and exactly that until the first bucket expires.
StatsAgreeWithAttempts ==
    \A leg \in {Leg(r.call) : r \in DOMAIN log} :
        LET counted(ok) ==
                SumFunctionOnSet(attempts,
                    {k \in DOMAIN attempts :
                        SameModel(k, leg) /\ (k.outcome = "ok" <=> ok)})
            kept == {k \in DOMAIN buckets : SameModel(k, leg)}
            failed == SumFunction([k \in kept |-> buckets[k].failures])
            succeeded ==
                SumFunction([k \in kept |-> buckets[k].requests - buckets[k].failures])
        IN  /\ failed <= counted(FALSE) /\ succeeded <= counted(TRUE)
            /\ today <= Retention =>
                  failed = counted(FALSE) /\ succeeded = counted(TRUE)

\* The successful attempts of a leg whose wait was measured.
Waiters(bag, leg) ==
    {r \in DOMAIN bag :
        Leg(r.call) = leg /\ r.call.error = "none" /\ r.call.wait > 0}

\* A bucket le of a histogram counts the successful attempts that waited at
\* most le, the last of them all, and the sum is what they waited together.
HistogramsCountWaits ==
    \A leg \in DOMAIN firstOutput :
        LET h == Cumulative(firstOutput[leg])
            waiters == Waiters(log, leg)
        IN  /\ \A i \in DOMAIN Bounds :
                  h.counts[i] =
                      SumFunctionOnSet(log, {r \in waiters : r.call.wait <= Bounds[i]})
            /\ h.counts[Len(Bounds) + 1] = h.count
            /\ h.count = SumFunctionOnSet(log, waiters)
            /\ h.sum = SumFunction([r \in waiters |-> log[r] * r.call.wait])

Covered(seen, firstOutputs, leg) ==
    Waiters(seen, leg) # {} =>
        /\ leg \in DOMAIN firstOutputs
        /\ firstOutputs[leg].count >= SumFunctionOnSet(seen, Waiters(seen, leg))

\* Although a page is read under two locks, its histograms cover every success
\* of its counters whose wait was measured: no first output is counted before it
\* is shown.  (A success the library gave no wait for is in the counters alone.)
HistogramsCoverCounters ==
    \A leg \in {Leg(r.call) : r \in DOMAIN page.seen} :
        Covered(page.seen, page.firstOutputs, leg)

\* The rows of a page that count a leg's successful attempts.
OkRows(rows, leg) ==
    {j \in DOMAIN rows : rows[j].key.outcome = "ok" /\ Leg(rows[j].key) = leg}

\* From one page to the next no counter falls, midnight or not, and what a
\* page's histograms ran ahead of its counters the next page's counters show.
PagesInterlock ==
    [][/\ \A i \in DOMAIN page.rows :
            \E j \in DOMAIN page'.rows :
                /\ page'.rows[j].key = page.rows[i].key
                /\ page'.rows[j].count >= page.rows[i].count
       /\ page' # page =>
            \A leg \in DOMAIN page.firstOutputs :
                page.firstOutputs[leg].count <=
                    SumFunction([j \in OkRows(page'.rows, leg) |->
                                    page'.rows[j].count])]_vars

\* Two answers of /stats with nothing recorded and no midnight between them are
\* the same, bucket by bucket ("a stable, sorted copy of retained buckets").
StatsRepeat == [][stats'.of = stats.of => stats' = stats]_vars
=============================================================================
