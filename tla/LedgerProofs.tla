---------------------------- MODULE LedgerProofs ----------------------------
(***************************************************************************)
(* What Ledger promises, proved for any calls, edges, retention and clock. *)
(*                                                                         *)
(* The tables are sums over the log, and a record adds one call to it, so  *)
(* every proof comes down to one fact about sums (SumGrows): when one      *)
(* entry changes by v, the sum changes by v.  Each invariant says of a     *)
(* table, or of what was read from one, what it owes the log:              *)
(*                                                                         *)
(*   Shapes        the tables and the log are finite and of their types    *)
(*   Histograms    a leg's slots, sum and count are those of its waiters,  *)
(*                 and a leg that somebody waited on has a histogram       *)
(*   Coverage      what a scrape has counted is part of the log, and the   *)
(*                 histograms it read afterwards cover that part           *)
(*   Agreement     buckets total what the counters do, less what expired   *)
(*   StatsSorted   an answer's keys are the sorted keys its log retained   *)
(*   Interlock     rows read never exceed the counters, and no histogram   *)
(*                 counts more waits than the counters do successes        *)
(***************************************************************************)
EXTENDS Ledger, SumTheorems, TLAPS

-----------------------------------------------------------------------------
(* Sums over bags.                                                         *)

\* A bag with one more x.
Plus(B, x) == B (+) SetToBag({x})

\* A bag of finitely many elements.
FiniteBag(B) == IsFiniteSet(DOMAIN B) /\ B \in [DOMAIN B -> Nat \ {0}]

\* What adding one copy does.
LEMMA BagGrows ==
    ASSUME NEW B, FiniteBag(B), NEW x
    PROVE  /\ FiniteBag(Plus(B, x))
           /\ DOMAIN Plus(B, x) = DOMAIN B \cup {x}
           /\ Plus(B, x)[x] = (IF x \in DOMAIN B THEN B[x] ELSE 0) + 1
           /\ \A y \in DOMAIN B \ {x} : Plus(B, x)[y] = B[y]
           /\ \A y \in DOMAIN B : Plus(B, x)[y] >= B[y]
<1>1. IsFiniteSet(DOMAIN B \cup {x})
  BY FS_AddElement DEF FiniteBag
<1>2. Plus(B, x) = [y \in DOMAIN B \cup {x} |->
                        (IF y \in DOMAIN B THEN B[y] ELSE 0) + (IF y = x THEN 1 ELSE 0)]
  BY DEF Plus, (+), SetToBag
<1>3. /\ Plus(B, x)[x] = (IF x \in DOMAIN B THEN B[x] ELSE 0) + 1
      /\ \A y \in DOMAIN B \ {x} : Plus(B, x)[y] = B[y]
  BY <1>2 DEF FiniteBag
<1>4. Plus(B, x) \in [DOMAIN B \cup {x} -> Nat \ {0}]
  BY <1>2 DEF FiniteBag
<1>5. \A y \in DOMAIN B : Plus(B, x)[y] >= B[y]
  BY <1>3 DEF FiniteBag
<1> QED
  BY <1>1, <1>2, <1>3, <1>4, <1>5 DEF FiniteBag

\* A sum in which one entry alone changes, by v.
LEMMA SumGrows ==
    ASSUME NEW S, IsFiniteSet(S), NEW T, IsFiniteSet(T), NEW x, NEW v \in Int,
           NEW f, NEW g, S \ {x} = T \ {x}, x \in S => x \in T,
           \A y \in S : f[y] \in Int,
           \A y \in S \ {x} : g[y] = f[y],
           x \in T => g[x] = (IF x \in S THEN f[x] ELSE 0) + v
    PROVE  SumFunctionOnSet(g, T) = SumFunctionOnSet(f, S) + (IF x \in T THEN v ELSE 0)
<1>1. \A y \in T : g[y] \in Int
  <2>1. x \in T => g[x] \in Int
    OBVIOUS
  <2>2. \A y \in T \ {x} : y \in S \ {x}
    OBVIOUS
  <2> QED
    BY <2>1, <2>2
<1>2. SumFunctionOnSet(g, T) =
          SumFunctionOnSet(f, S) - (IF x \in S THEN f[x] ELSE 0)
                                 + (IF x \in T THEN g[x] ELSE 0)
  BY <1>1, OnSetUpdate
<1>3. SumFunctionOnSet(f, S) \in Int
  BY OnSetInt
<1>4. CASE x \in S
  BY <1>2, <1>3, <1>4
<1>5. CASE x \in T /\ x \notin S
  BY <1>2, <1>3, <1>5
<1>6. CASE x \notin T
  BY <1>2, <1>3, <1>6
<1> QED
  BY <1>4, <1>5, <1>6

\* What part of a bag holds grows by one when what is added belongs to it.
LEMMA BagCount ==
    ASSUME NEW B, FiniteBag(B), NEW x, NEW S, NEW T,
           S \subseteq DOMAIN B, T \subseteq DOMAIN B \cup {x},
           S \ {x} = T \ {x}, x \in S <=> x \in T /\ x \in DOMAIN B
    PROVE  SumFunctionOnSet(Plus(B, x), T) =
               SumFunctionOnSet(B, S) + (IF x \in T THEN 1 ELSE 0)
<1>0. /\ FiniteBag(Plus(B, x))
      /\ DOMAIN Plus(B, x) = DOMAIN B \cup {x}
      /\ Plus(B, x)[x] = (IF x \in DOMAIN B THEN B[x] ELSE 0) + 1
      /\ \A y \in DOMAIN B \ {x} : Plus(B, x)[y] = B[y]
  BY BagGrows
<1> DEFINE g == Plus(B, x)
<1>1. IsFiniteSet(S) /\ IsFiniteSet(T)
  BY <1>0, FS_Subset DEF FiniteBag
<1>2. (\A y \in S : B[y] \in Int) /\ (\A y \in T : g[y] \in Int)
  BY <1>0 DEF FiniteBag
<1>3. \A y \in S \ {x} : g[y] = B[y]
  BY <1>0
<1> HIDE DEF g
<1>4. SumFunctionOnSet(g, T) =
          SumFunctionOnSet(B, S) - (IF x \in S THEN B[x] ELSE 0)
                                 + (IF x \in T THEN g[x] ELSE 0)
  BY <1>1, <1>2, <1>3, OnSetUpdate
<1>5. SumFunctionOnSet(B, S) \in Int
  BY <1>1, <1>2, OnSetInt
<1>6. /\ x \in S => B[x] \in Int /\ g[x] = B[x] + 1
      /\ x \in T /\ x \notin S => g[x] = 1
  BY <1>0, <1>2 DEF g
<1> QED
  BY <1>4, <1>5, <1>6 DEF g

\* Part of a smaller bag holds less.
LEMMA BagPart ==
    ASSUME NEW B, FiniteBag(B), NEW C, FiniteBag(C),
           NEW S, S \subseteq DOMAIN B, NEW T, T \subseteq DOMAIN C, S \subseteq T,
           \A y \in S : B[y] <= C[y]
    PROVE  /\ SumFunctionOnSet(B, S) <= SumFunctionOnSet(C, T)
           /\ SumFunctionOnSet(B, S) \in Nat /\ SumFunctionOnSet(C, T) \in Nat
<1>1. IsFiniteSet(S) /\ IsFiniteSet(T)
  BY FS_Subset DEF FiniteBag
<1>2. (\A y \in S : B[y] \in Nat) /\ (\A y \in T : C[y] \in Nat)
  BY DEF FiniteBag
<1> QED
  BY <1>1, <1>2, OnSetMonotone, OnSetNat

-----------------------------------------------------------------------------
(* Slots, and what a call is recorded under.                               *)

\* Min of a set of naturals is in it, and no more than any other.
LEMMA MinIsSmallest ==
    ASSUME NEW S \in SUBSET Nat, S # {}
    PROVE  Min(S) \in S /\ \A n \in S : Min(S) <= n
  BY SmallestNat DEF Min

\* The slot of a wait is at or below an edge exactly when the wait is.
LEMMA SlotSplitsWaits ==
    ASSUME NEW wait \in Nat
    PROVE  /\ Slot(wait) \in Slots
           /\ \A i \in DOMAIN Bounds : Slot(wait) <= i <=> wait <= Bounds[i]
<1> DEFINE last == Len(Bounds) + 1
           S == {i \in DOMAIN Bounds : wait <= Bounds[i]} \cup {last}
<1>1. /\ Len(Bounds) \in Nat /\ DOMAIN Bounds = 1..Len(Bounds)
      /\ \A i \in DOMAIN Bounds : Bounds[i] \in Nat
      /\ \A i, j \in DOMAIN Bounds : i < j => Bounds[i] < Bounds[j]
  BY LedgerAssumption
<1>2. S \in SUBSET Nat /\ last \in S
  BY <1>1
<1>3. Slot(wait) = Min(S)
  BY DEF Slot
<1>4. Min(S) \in S /\ \A n \in S : Min(S) <= n
  <2> HIDE DEF S, last
  <2> QED
    BY <1>2, MinIsSmallest
<1> DEFINE m == Min(S)
<1> HIDE DEF m
<1>5. m \in S /\ (\A n \in S : m <= n) /\ Slot(wait) = m
  BY <1>3, <1>4 DEF m
<1>6. m \in Slots
  BY <1>1, <1>5 DEF Slots
<1>7. ASSUME NEW i \in DOMAIN Bounds, m <= i PROVE wait <= Bounds[i]
  <2>1. m \in DOMAIN Bounds /\ wait <= Bounds[m]
    BY <1>1, <1>5, <1>7
  <2>2. m = i \/ m < i
    BY <1>1, <1>7, <2>1
  <2>3. Bounds[m] \in Nat /\ Bounds[i] \in Nat /\ Bounds[m] <= Bounds[i]
    BY <1>1, <2>1, <2>2
  <2> QED
    BY <2>1, <2>3
<1>8. ASSUME NEW i \in DOMAIN Bounds, wait <= Bounds[i] PROVE m <= i
  BY <1>5, <1>8
<1> QED
  BY <1>5, <1>6, <1>7, <1>8

\* The keys of buckets.
Keys == [day : Nat, alias : Nat, provider : Nat, model : Nat]

\* The legs histograms are kept for.
Legs == [alias : Nat, provider : Nat, model : Nat, streaming : BOOLEAN]

\* The keys of counters.
AttemptKeys ==
    [alias : Nat, provider : Nat, model : Nat, outcome : Outcomes, phase : Nat,
     streaming : BOOLEAN]

\* A bucket.
Figures ==
    [requests : Nat, failures : Nat, input : Nat, output : Nat, cacheRead : Nat,
     cacheWrite : Nat, reported : Nat, reportedInput : Nat, estimated : Nat]

\* A histogram.
HistogramType == [counts : [Slots -> Nat], sum : Nat, count : Nat]

\* What a call is recorded under.
LEMMA CallLabels ==
    ASSUME NEW e \in Calls, NEW day \in Nat
    PROVE  /\ e \in CallType
           /\ BucketKey(e, day) \in Keys /\ BucketKey(e, day).day = day
           /\ SameModel(BucketKey(e, day), Leg(e))
           /\ Leg(e) \in Legs
           /\ AttemptKey(e) \in AttemptKeys
           /\ Leg(AttemptKey(e)) = Leg(e)
           /\ OutcomeOf(e) = "ok" <=> e.error = "none"
           /\ AttemptKey(e).outcome = "ok" <=> e.error = "none"
           /\ Succeeded(e) <=> e.error = "none"
<1>1. /\ e \in CallType
      /\ e.firstOutputTimeout => e.error = "other"
  BY LedgerAssumption
<1>2. /\ e.alias \in Nat /\ e.provider \in Nat /\ e.model \in Nat /\ e.phase \in Nat
      /\ e.streaming \in BOOLEAN /\ e.error \in Errors
  BY <1>1 DEF CallType
<1>3. OutcomeOf(e) \in Outcomes /\ (OutcomeOf(e) = "ok" <=> e.error = "none")
  BY <1>1, <1>2 DEF OutcomeOf, Outcomes, Errors
<1>4. BucketKey(e, day) \in Keys /\ BucketKey(e, day).day = day
  BY <1>2 DEF BucketKey, Keys
<1>5. SameModel(BucketKey(e, day), Leg(e))
  BY DEF SameModel, BucketKey, Leg
<1>6. Leg(e) \in Legs
  BY <1>2 DEF Leg, Legs
<1>7. (IF e.firstOutputTimeout THEN e.phase ELSE 0) \in Nat
  BY <1>2
<1>8. AttemptKey(e) \in AttemptKeys
  BY <1>2, <1>3, <1>7 DEF AttemptKey, AttemptKeys
<1>9. Leg(AttemptKey(e)) = Leg(e) /\ AttemptKey(e).outcome = OutcomeOf(e)
  BY DEF Leg, AttemptKey
<1> QED
  BY <1>1, <1>3, <1>4, <1>5, <1>6, <1>8, <1>9 DEF Succeeded

\* What a call adds is what it is worth, figure by figure.
LEMMA AddedIsShare ==
    ASSUME NEW e \in Calls, NEW b \in Figures
    PROVE  /\ Added(b, e) \in Figures /\ Share(e) \in Figures
           /\ Added(b, e).requests > 0
           /\ \A field \in DOMAIN EmptyBucket :
                 Added(b, e)[field] = b[field] + Share(e)[field]
<1>1. /\ e.input \in Nat /\ e.output \in Nat /\ e.cacheRead \in Nat
      /\ e.cacheWrite \in Nat
  BY LedgerAssumption DEF CallType
<1>2. /\ One(e.cacheReadReported) \in {0, 1} /\ One(e.estimated) \in {0, 1}
      /\ One(e.error # "none") \in {0, 1}
      /\ One(~Succeeded(e)) = One(e.error # "none")
  BY DEF One, Succeeded
<1>3. One(e.cacheReadReported) * e.input \in Nat
  BY <1>1, <1>2
<1>4. Share(e) \in Figures
  BY <1>1, <1>2, <1>3 DEF Share, Figures
<1>5. /\ b.requests \in Nat /\ b.failures \in Nat /\ b.input \in Nat /\ b.output \in Nat
      /\ b.cacheRead \in Nat /\ b.cacheWrite \in Nat /\ b.reported \in Nat
      /\ b.reportedInput \in Nat /\ b.estimated \in Nat
  BY DEF Figures
<1> DEFINE p == One(e.cacheReadReported) * e.input
<1>6. Added(b, e) =
         [requests |-> b.requests + 1,
          failures |-> b.failures + One(e.error # "none"),
          input |-> b.input + e.input, output |-> b.output + e.output,
          cacheRead |-> b.cacheRead + e.cacheRead,
          cacheWrite |-> b.cacheWrite + e.cacheWrite,
          reported |-> b.reported + One(e.cacheReadReported),
          reportedInput |-> b.reportedInput + p,
          estimated |-> b.estimated + One(e.estimated)]
  BY <1>2 DEF Added
<1>7. Share(e) =
         [requests |-> 1, failures |-> One(e.error # "none"), input |-> e.input,
          output |-> e.output, cacheRead |-> e.cacheRead,
          cacheWrite |-> e.cacheWrite, reported |-> One(e.cacheReadReported),
          reportedInput |-> p, estimated |-> One(e.estimated)]
  BY DEF Share
<1>8. p \in Nat
  BY <1>3
<1> HIDE DEF p
<1>9. Added(b, e) \in Figures /\ Added(b, e).requests > 0
  BY <1>1, <1>2, <1>5, <1>6, <1>8 DEF Figures
<1>10. ASSUME NEW field \in DOMAIN EmptyBucket
       PROVE  Added(b, e)[field] = b[field] + Share(e)[field]
  <2>1. field \in {"requests", "failures", "input", "output", "cacheRead",
                   "cacheWrite", "reported", "reportedInput", "estimated"}
    BY DEF EmptyBucket
  <2> QED
    BY <2>1, <1>6, <1>7
<1> QED
  BY <1>4, <1>9, <1>10

-----------------------------------------------------------------------------
(* Types.                                                                  *)

\* The tables, the log and the scrape are of their types.
Shapes ==
    /\ today \in 0..LastDay
    /\ FiniteBag(log) /\ DOMAIN log \subseteq [call : Calls, day : 0..today]
    /\ FiniteBag(attempts) /\ DOMAIN attempts \subseteq AttemptKeys
    /\ IsFiniteSet(DOMAIN buckets) /\ DOMAIN buckets \subseteq Keys
    /\ \A k \in DOMAIN buckets :
          /\ k.day \in 0..today
          /\ buckets[k] \in Figures /\ buckets[k].requests > 0
    /\ \A leg \in DOMAIN firstOutput : firstOutput[leg] \in HistogramType
    /\ reader.at \in 1..3
    /\ reader = [at |-> reader.at, rows |-> reader.rows, seen |-> reader.seen,
                 firstOutputs |-> reader.firstOutputs]

\* These types are those that the run checks.
LEMMA ShapesAreTypes == Shapes => TypeOK
<1> SUFFICES ASSUME Shapes PROVE TypeOK
  OBVIOUS
<1>1. IsABag(attempts)
  BY DEF Shapes, FiniteBag, IsABag
<1>2. Len(ReadOrder) = 2
  BY DEF ReadOrder
<1> QED
  BY <1>1, <1>2 DEF Shapes, TypeOK, HistogramType

\* Record, for one attempt of one day.
RecordOf(e, day) ==
    /\ LET k == BucketKey(e, day) IN
       buckets' = Pruned(WithBucket(k, Added(BucketOf(k), e)))
    /\ CountAttempt(e)
    /\ log' = Plus(log, [call |-> e, day |-> day])
    /\ UNCHANGED <<today, stats, reader, page>>

\* Every record is of some attempt and day.
LEMMA RecordIsOf == Record => \E e \in Calls, day \in 0..today : RecordOf(e, day)
  BY DEF Record, RecordOf, Plus

\* A new bucket is a bucket.
LEMMA EmptyFigures == EmptyBucket \in Figures
  BY DEF EmptyBucket, Figures

\* So is whatever a record adds to.
LEMMA BucketOfFigures ==
    ASSUME Shapes, NEW k
    PROVE  BucketOf(k) \in Figures
  BY EmptyFigures DEF Shapes, BucketOf

\* The buckets after a record.
LEMMA RecordBuckets ==
    ASSUME Shapes, NEW e \in Calls, NEW day \in 0..today, RecordOf(e, day),
           NEW k, k = BucketKey(e, day)
    PROVE  /\ k \in Keys /\ k.day = day
           /\ DOMAIN buckets' =
                  {j \in DOMAIN buckets \cup {k} : j.day >= today - Retention}
           /\ k \in DOMAIN buckets' => buckets'[k] = Added(BucketOf(k), e)
           /\ \A j \in DOMAIN buckets' \ {k} : buckets'[j] = buckets[j]
<1>1. k \in Keys /\ k.day = day
  BY CallLabels DEF Shapes
<1>2. buckets' = Pruned(WithBucket(k, Added(BucketOf(k), e)))
  BY DEF RecordOf
<1> DEFINE b == Added(BucketOf(k), e)
<1> HIDE DEF b
<1>3. WithBucket(k, b) =
          [j \in DOMAIN buckets \cup {k} |-> IF j = k THEN b ELSE buckets[j]]
  BY DEF WithBucket
<1>4. Pruned(WithBucket(k, b)) =
          [j \in {i \in DOMAIN buckets \cup {k} : i.day >= today - Retention} |->
              IF j = k THEN b ELSE buckets[j]]
  BY <1>3 DEF Pruned
<1> QED
  BY <1>1, <1>2, <1>4 DEF b

\* The buckets after /stats.
LEMMA PrunedBuckets ==
    ASSUME buckets' = Pruned(buckets)
    PROVE  /\ DOMAIN buckets' = {j \in DOMAIN buckets : j.day >= today - Retention}
           /\ \A j \in DOMAIN buckets' : buckets'[j] = buckets[j]
  BY DEF Pruned

\* The histograms after a record.
LEMMA RecordHistograms ==
    ASSUME NEW e \in Calls, CountAttempt(e)
    PROVE  /\ Measured(e) <=> e.error = "none" /\ e.wait > 0
           /\ Measured(e) =>
                 /\ DOMAIN firstOutput' = DOMAIN firstOutput \cup {Leg(e)}
                 /\ firstOutput'[Leg(e)] = Waited(HistogramOf(Leg(e)), e.wait)
                 /\ \A leg \in DOMAIN firstOutput \ {Leg(e)} :
                       firstOutput'[leg] = firstOutput[leg]
           /\ ~Measured(e) => firstOutput' = firstOutput
<1>1. Measured(e) <=> e.error = "none" /\ e.wait > 0
  BY CallLabels DEF Measured
<1>2. CASE Measured(e)
  <2>1. firstOutput' = [leg \in DOMAIN firstOutput \cup {Leg(e)} |->
                           IF leg = Leg(e) THEN Waited(HistogramOf(leg), e.wait)
                                           ELSE firstOutput[leg]]
    BY <1>2 DEF CountAttempt
  <2> QED
    BY <1>1, <1>2, <2>1
<1>3. CASE ~Measured(e)
  BY <1>1, <1>3 DEF CountAttempt
<1> QED
  BY <1>2, <1>3

\* What a wait is added to is a histogram.
LEMMA HistogramOfType ==
    ASSUME Shapes, NEW leg
    PROVE  HistogramOf(leg) \in HistogramType
<1>1. EmptyHistogram \in HistogramType
  BY DEF EmptyHistogram, HistogramType
<1> QED
  BY <1>1 DEF Shapes, HistogramOf

\* One more wait, in its slot.
LEMMA WaitedType ==
    ASSUME NEW h \in HistogramType, NEW wait \in Nat
    PROVE  /\ Waited(h, wait) \in HistogramType
           /\ Waited(h, wait).sum = h.sum + wait
           /\ Waited(h, wait).count = h.count + 1
           /\ Waited(h, wait).counts[Slot(wait)] = h.counts[Slot(wait)] + 1
           /\ \A i \in Slots \ {Slot(wait)} : Waited(h, wait).counts[i] = h.counts[i]
           /\ Waited(h, wait).counts \in [Slots -> Nat]
<1>1. Slot(wait) \in Slots
  BY SlotSplitsWaits
<1>2. h.counts \in [Slots -> Nat] /\ h.sum \in Nat /\ h.count \in Nat
  BY DEF HistogramType
<1>3. [h.counts EXCEPT ![Slot(wait)] = @ + 1] \in [Slots -> Nat]
  BY <1>1, <1>2
<1> QED
  BY <1>1, <1>2, <1>3 DEF Waited, HistogramType

\* The rows a scrape makes of sorted keys.
RowsOf(s) == [i \in DOMAIN s |-> [key |-> s[i], count |-> attempts[s[i]]]]

\* What the scrape puts into its record.
LEMMA ReaderExcept ==
    ASSUME NEW a, NEW b, NEW c, NEW d, NEW x, NEW y, NEW p, NEW q,
           x = [at |-> a, rows |-> b, seen |-> c, firstOutputs |-> d]
    PROVE  /\ y = [x EXCEPT !.at = @ + 1, !.rows = p, !.seen = q] =>
                  y = [at |-> a + 1, rows |-> p, seen |-> q, firstOutputs |-> d]
           /\ y = [x EXCEPT !.at = @ + 1, !.firstOutputs = p] =>
                  y = [at |-> a + 1, rows |-> b, seen |-> c, firstOutputs |-> p]
           /\ y = [x EXCEPT !.at = 1] =>
                  y = [at |-> 1, rows |-> b, seen |-> c, firstOutputs |-> d]
  OBVIOUS

\* The three steps of a scrape.
LEMMA ReadAttemptsIs ==
    ASSUME Shapes, ReadAttempts
    PROVE  /\ reader.at = 1
           /\ \E s \in Sorted([k \in DOMAIN attempts |-> AttemptRank(k)]) :
                 reader' = [at |-> 2, rows |-> RowsOf(s), seen |-> log,
                            firstOutputs |-> reader.firstOutputs]
           /\ UNCHANGED <<ledgerVars, today, stats, page>>
<1>1. reader.at \in {1, 2} /\ ReadOrder[reader.at] = "Attempts"
  BY DEF ReadAttempts, ReadOrder
<1>2. reader.at = 1
  BY <1>1 DEF ReadOrder
<1>3. PICK s \in Sorted([k \in DOMAIN attempts |-> AttemptRank(k)]) :
         reader' = [reader EXCEPT !.at = @ + 1, !.rows = RowsOf(s), !.seen = log]
  BY DEF ReadAttempts, RowsOf
<1> DEFINE rows == RowsOf(s)
<1> HIDE DEF rows
<1>4. reader' = [at |-> 2, rows |-> rows, seen |-> log,
                 firstOutputs |-> reader.firstOutputs]
  <2>1. reader' = [reader EXCEPT !.at = @ + 1, !.rows = rows, !.seen = log]
    BY <1>3 DEF rows
  <2>2. reader = [at |-> reader.at, rows |-> reader.rows, seen |-> reader.seen,
                  firstOutputs |-> reader.firstOutputs]
    BY DEF Shapes
  <2>3. reader' = [at |-> reader.at + 1, rows |-> rows, seen |-> log,
                   firstOutputs |-> reader.firstOutputs]
    BY <2>1, <2>2, ReaderExcept
  <2> QED
    BY <1>2, <2>3
<1> QED
  BY <1>2, <1>4 DEF ReadAttempts, rows

\* The second step: the histograms, cumulative.
LEMMA ReadFirstOutputsIs ==
    ASSUME Shapes, ReadFirstOutputs
    PROVE  /\ reader.at = 2
           /\ reader' = [at |-> 3, rows |-> reader.rows, seen |-> reader.seen,
                         firstOutputs |-> [leg \in DOMAIN firstOutput |->
                                              Cumulative(firstOutput[leg])]]
           /\ UNCHANGED <<ledgerVars, today, stats, page>>
<1>1. reader.at \in {1, 2} /\ ReadOrder[reader.at] = "FirstOutputs"
  BY DEF ReadFirstOutputs, ReadOrder
<1>2. reader.at = 2
  BY <1>1 DEF ReadOrder
<1> DEFINE h == [leg \in DOMAIN firstOutput |-> Cumulative(firstOutput[leg])]
<1>3. reader' = [reader EXCEPT !.at = @ + 1, !.firstOutputs = h]
  BY DEF ReadFirstOutputs
<1>4. reader = [at |-> reader.at, rows |-> reader.rows, seen |-> reader.seen,
                firstOutputs |-> reader.firstOutputs]
  BY DEF Shapes
<1> HIDE DEF h
<1>5. reader' = [at |-> 3, rows |-> reader.rows, seen |-> reader.seen,
                 firstOutputs |-> h]
  <2>1. reader' = [at |-> reader.at + 1, rows |-> reader.rows, seen |-> reader.seen,
                   firstOutputs |-> h]
    BY <1>3, <1>4, ReaderExcept
  <2> QED
    BY <1>2, <2>1
<1> QED
  BY <1>2, <1>5 DEF ReadFirstOutputs, h

\* The third: what was read is the page.
LEMMA RespondIs ==
    ASSUME Shapes, Respond
    PROVE  /\ reader.at = 3
           /\ reader' = [at |-> 1, rows |-> reader.rows, seen |-> reader.seen,
                         firstOutputs |-> reader.firstOutputs]
           /\ page' = [rows |-> reader.rows, seen |-> reader.seen,
                       firstOutputs |-> reader.firstOutputs]
           /\ UNCHANGED <<ledgerVars, today, stats>>
<1>1. reader.at = 3
  BY DEF Respond, ReadOrder, Shapes
<1>2. reader' = [at |-> 1, rows |-> reader.rows, seen |-> reader.seen,
                 firstOutputs |-> reader.firstOutputs]
  <2>1. reader' = [reader EXCEPT !.at = 1]
    BY DEF Respond
  <2>2. reader = [at |-> reader.at, rows |-> reader.rows, seen |-> reader.seen,
                  firstOutputs |-> reader.firstOutputs]
    BY DEF Shapes
  <2> QED
    BY <2>1, <2>2
<1> QED
  BY <1>1, <1>2 DEF Respond

\* A record keeps the types.
LEMMA RecordShapes ==
    ASSUME Shapes, NEW e \in Calls, NEW day \in 0..today, RecordOf(e, day)
    PROVE  Shapes'
<1> DEFINE k == BucketKey(e, day)
           r == [call |-> e, day |-> day]
<1>1. today' = today /\ today \in Nat /\ day \in Nat
  BY DEF Shapes, RecordOf
<1>2. FiniteBag(log') /\ DOMAIN log' \subseteq [call : Calls, day : 0..today]
  <2>1. r \in [call : Calls, day : 0..today]
    OBVIOUS
  <2> HIDE DEF r
  <2>2. DOMAIN Plus(log, r) = DOMAIN log \cup {r} /\ FiniteBag(Plus(log, r))
    BY BagGrows DEF Shapes
  <2> QED
    BY <2>1, <2>2 DEF Shapes, RecordOf, r
<1>3. FiniteBag(attempts') /\ DOMAIN attempts' \subseteq AttemptKeys
  <2>1. attempts' = Plus(attempts, AttemptKey(e))
    BY DEF RecordOf, CountAttempt, Plus
  <2>2. AttemptKey(e) \in AttemptKeys
    BY <1>1, CallLabels
  <2>3. /\ FiniteBag(Plus(attempts, AttemptKey(e)))
        /\ DOMAIN Plus(attempts, AttemptKey(e)) = DOMAIN attempts \cup {AttemptKey(e)}
    BY BagGrows DEF Shapes
  <2> QED
    BY <2>1, <2>2, <2>3 DEF Shapes
<1>4. /\ k \in Keys /\ k.day = day
      /\ DOMAIN buckets' = {j \in DOMAIN buckets \cup {k} : j.day >= today - Retention}
      /\ k \in DOMAIN buckets' => buckets'[k] = Added(BucketOf(k), e)
      /\ \A j \in DOMAIN buckets' \ {k} : buckets'[j] = buckets[j]
  BY RecordBuckets
<1>5. /\ Added(BucketOf(k), e) \in Figures
      /\ Added(BucketOf(k), e).requests > 0
  BY AddedIsShare, BucketOfFigures
<1> HIDE DEF k
<1>6. IsFiniteSet(DOMAIN buckets') /\ DOMAIN buckets' \subseteq Keys
  BY <1>4, FS_AddElement, FS_Subset DEF Shapes
<1>7. ASSUME NEW j \in DOMAIN buckets'
      PROVE  j.day \in 0..today /\ buckets'[j] \in Figures /\ buckets'[j].requests > 0
  BY <1>4, <1>5 DEF Shapes
<1>8. ASSUME NEW leg \in DOMAIN firstOutput' PROVE firstOutput'[leg] \in HistogramType
  <2>1. e.wait \in Nat
    BY LedgerAssumption DEF CallType
  <2>2. Waited(HistogramOf(Leg(e)), e.wait) \in HistogramType
    BY <2>1, WaitedType, HistogramOfType
  <2>3. CountAttempt(e)
    BY DEF RecordOf
  <2> QED
    BY <2>2, <2>3, RecordHistograms DEF Shapes
<1>9. reader' = reader
  BY DEF RecordOf
<1> QED
  BY <1>1, <1>2, <1>3, <1>6, <1>7, <1>8, <1>9 DEF Shapes

\* So does every step.
LEMMA NextShapes == Shapes /\ [Next]_vars => Shapes'
<1> SUFFICES ASSUME Shapes, [Next]_vars PROVE Shapes'
  OBVIOUS
<1> USE DEF ledgerVars
<1>1. CASE UNCHANGED vars
  BY <1>1 DEF vars, Shapes
<1>2. CASE Record
  BY <1>2, RecordIsOf, RecordShapes
<1>3. CASE Midnight
  <2>1. today' = today + 1 /\ today < LastDay /\ today \in Nat /\ LastDay \in Nat
    BY <1>3, LedgerAssumption DEF Midnight, Shapes
  <2>2. today' \in 0..LastDay /\ 0..today \subseteq 0..today'
    BY <2>1
  <2>3. [call : Calls, day : 0..today] \subseteq [call : Calls, day : 0..today']
    BY <2>2
  <2>4. UNCHANGED <<buckets, attempts, firstOutput, log, reader>>
    BY <1>3 DEF Midnight
  <2> QED
    BY <2>2, <2>3, <2>4 DEF Shapes
<1>4. CASE Stats
  <2>1. /\ buckets' = Pruned(buckets)
        /\ UNCHANGED <<attempts, firstOutput, log, today, reader>>
    BY <1>4 DEF Stats
  <2>2. /\ DOMAIN buckets' = {j \in DOMAIN buckets : j.day >= today - Retention}
        /\ \A j \in DOMAIN buckets' : buckets'[j] = buckets[j]
    BY <2>1, PrunedBuckets
  <2>3. IsFiniteSet(DOMAIN buckets')
    BY <2>2, FS_Subset DEF Shapes
  <2> QED
    BY <2>1, <2>2, <2>3 DEF Shapes
<1>5. CASE Metrics
  <2>1. UNCHANGED <<buckets, attempts, firstOutput, log, today>>
    BY <1>5 DEF Metrics, ReadAttempts, ReadFirstOutputs, Respond
  <2>2. /\ reader'.at \in 1..3
        /\ reader' = [at |-> reader'.at, rows |-> reader'.rows, seen |-> reader'.seen,
                      firstOutputs |-> reader'.firstOutputs]
    <3>1. CASE ReadAttempts
      <4>1. PICK s : reader' = [at |-> 2, rows |-> RowsOf(s), seen |-> log,
                                firstOutputs |-> reader.firstOutputs]
        BY <3>1, ReadAttemptsIs
      <4> QED
        BY <4>1
    <3>2. CASE ReadFirstOutputs
      BY <3>2, ReadFirstOutputsIs
    <3>3. CASE Respond
      BY <3>3, RespondIs
    <3> QED
      BY <1>5, <3>1, <3>2, <3>3 DEF Metrics
  <2> QED
    BY <2>1, <2>2 DEF Shapes
<1> QED
  BY <1>1, <1>2, <1>3, <1>4, <1>5 DEF Next

\* They hold at the start.
LEMMA InitShapes == Init => Shapes
<1> SUFFICES ASSUME Init PROVE Shapes
  OBVIOUS
<1>1. FiniteBag(EmptyBag) /\ DOMAIN EmptyBag = {}
  BY FS_EmptySet DEF FiniteBag, EmptyBag, SetToBag
<1>2. DOMAIN NoFunction = {}
  BY DEF NoFunction
<1> QED
  BY <1>1, <1>2, LedgerAssumption, FS_EmptySet DEF Init, Shapes

\* And so always.
LEMMA SpecShapes == Spec => []Shapes
  BY InitShapes, NextShapes, PTL DEF Spec

\* TypeOK: no sequence of records, midnights, reads and scrapes takes a table
\* of ledger.go out of its shape, whatever the edges and the retention are.
THEOREM LedgerTypes == Spec => []TypeOK
  BY SpecShapes, ShapesAreTypes, PTL

-----------------------------------------------------------------------------
(* Buckets.                                                                *)

\* A figure is a natural.
LEMMA FigureIsNat ==
    ASSUME NEW b \in Figures, NEW field \in DOMAIN EmptyBucket
    PROVE  b[field] \in Nat /\ EmptyBucket[field] = 0
<1>1. field \in {"requests", "failures", "input", "output", "cacheRead",
                 "cacheWrite", "reported", "reportedInput", "estimated"}
  BY DEF EmptyBucket
<1> QED
  BY <1>1 DEF Figures, EmptyBucket

\* What is logged under a key.
Under(k) == {q \in DOMAIN log : KeyOf(q) = k}

\* What each of those is worth in a figure.
Worth(k, field) == [r \in Under(k) |-> log[r] * Share(r.call)[field]]

\* What is logged under a key grows by what the call is worth.
LEMMA LoggedUnderGrows ==
    ASSUME Shapes, NEW e \in Calls, NEW day \in 0..today,
           log' = Plus(log, [call |-> e, day |-> day]),
           NEW k, NEW field \in DOMAIN EmptyBucket
    PROVE  LoggedUnder(k, field)' =
               LoggedUnder(k, field) +
                   (IF k = BucketKey(e, day) THEN Share(e)[field] ELSE 0)
<1> DEFINE x == [call |-> e, day |-> day]
           S == Under(k)
           T == Under(k)'
           w == [r \in T |-> Share(r.call)[field]]
           f == Worth(k, field)
           g == Worth(k, field)'
<1>0. LoggedUnder(k, field) = SumFunctionOnSet(f, S)
  BY DEF LoggedUnder, SumFunction, Worth, Under
<1>1. LoggedUnder(k, field)' = SumFunctionOnSet(g, T)
  BY DEF LoggedUnder, SumFunction, Worth, Under
<1>2. /\ FiniteBag(log) /\ FiniteBag(log') /\ DOMAIN log' = DOMAIN log \cup {x}
      /\ log'[x] = (IF x \in DOMAIN log THEN log[x] ELSE 0) + 1
      /\ \A y \in DOMAIN log \ {x} : log'[y] = log[y]
  <2>1. FiniteBag(log) /\ log' = Plus(log, x)
    BY DEF Shapes
  <2> HIDE DEF x
  <2>2. /\ FiniteBag(Plus(log, x))
        /\ DOMAIN Plus(log, x) = DOMAIN log \cup {x}
        /\ Plus(log, x)[x] = (IF x \in DOMAIN log THEN log[x] ELSE 0) + 1
        /\ \A y \in DOMAIN log \ {x} : Plus(log, x)[y] = log[y]
    BY <2>1, BagGrows
  <2> QED
    BY <2>1, <2>2
<1>3. KeyOf(x) = BucketKey(e, day) /\ (x \in T <=> k = BucketKey(e, day))
  BY <1>2 DEF KeyOf, Under
<1>4. /\ S \subseteq DOMAIN log /\ T \subseteq DOMAIN log \cup {x}
      /\ S \ {x} = T \ {x} /\ (x \in S <=> x \in T /\ x \in DOMAIN log)
  BY <1>2 DEF Under, KeyOf
<1>5. \A r \in T : r.call \in Calls
  <2>1. DOMAIN log \subseteq [call : Calls, day : 0..today] /\ x.call = e
    BY DEF Shapes
  <2> HIDE DEF x
  <2> QED
    BY <1>4, <2>1
<1>6. \A r \in T : w[r] = Share(r.call)[field] /\ w[r] \in Nat
  <2>1. TAKE r \in T
  <2>2. Share(r.call) \in Figures
    BY <1>5, AddedIsShare, EmptyFigures
  <2>3. Share(r.call)[field] \in Nat
    BY <2>2, FigureIsNat
  <2> QED
    BY <2>3
<1>7. IsFiniteSet(S) /\ IsFiniteSet(T)
  BY <1>2, <1>4, FS_Subset DEF FiniteBag
<1>8. \A y \in S : f[y] \in Int
  <2>1. TAKE y \in S
  <2>2. log[y] \in Nat /\ w[y] \in Nat /\ f[y] = log[y] * w[y]
    BY <1>2, <1>4, <1>6 DEF FiniteBag, Worth
  <2> QED
    BY <2>2
<1>9. \A y \in S \ {x} : g[y] = f[y]
  <2>1. TAKE y \in S \ {x}
  <2>2. y \in T /\ log'[y] = log[y]
    BY <1>2, <1>4
  <2> QED
    BY <2>2 DEF Worth
<1>10. x \in T => Share(e)[field] \in Nat /\ w[x] = Share(e)[field]
  BY <1>6
<1>11. x \in T => g[x] = (IF x \in S THEN f[x] ELSE 0) + Share(e)[field]
  <2>0. SUFFICES ASSUME x \in T
                 PROVE  g[x] = (IF x \in S THEN f[x] ELSE 0) + Share(e)[field]
    OBVIOUS
  <2> DEFINE v == Share(e)[field]
  <2>1. g[x] = log'[x] * v /\ (x \in S => f[x] = log[x] * v) /\ v \in Nat
    BY <2>0, <1>10 DEF Worth
  <2>2. log'[x] = (IF x \in S THEN log[x] ELSE 0) + 1
    BY <2>0, <1>2, <1>4
  <2>3. x \in S => log[x] \in Nat
    BY <1>2, <1>4 DEF FiniteBag
  <2>4. CASE x \in S
    <3> DEFINE a == log[x]
               q == a * v
    <3>1. a \in Nat /\ v \in Nat /\ g[x] = (a + 1) * v /\ f[x] = q
      BY <2>1, <2>2, <2>3, <2>4
    <3> HIDE DEF f, g, S, T, x, v, w, a
    <3>2. (a + 1) * v = q + v
      BY <3>1
    <3> QED
      BY <2>4, <3>1, <3>2 DEF v
  <2>5. CASE x \notin S
    <3>1. g[x] = 1 * v /\ v \in Nat
      BY <2>1, <2>2, <2>5
    <3> HIDE DEF f, g, S, T, x, v, w
    <3>2. g[x] = v
      BY <3>1
    <3> QED
      BY <2>5, <3>1, <3>2 DEF v
  <2> QED
    BY <2>4, <2>5
<1>12. Share(e)[field] \in Int
  <2>1. Share(e) \in Figures
    BY AddedIsShare, EmptyFigures
  <2> QED
    BY <2>1, FigureIsNat
<1>13. SumFunctionOnSet(g, T) =
           SumFunctionOnSet(f, S) + (IF x \in T THEN Share(e)[field] ELSE 0)
  <2> DEFINE v == Share(e)[field]
  <2>1. x \in S => x \in T
    BY <1>4
  <2>2. S \ {x} = T \ {x}
    BY <1>4
  <2> HIDE DEF f, g, S, T, w, x, v
  <2> QED
    BY <1>7, <1>8, <1>9, <1>11, <1>12, <2>1, <2>2, SumGrows DEF v
<1> HIDE DEF f, g, S, T, w, x
<1> QED
  BY <1>0, <1>1, <1>3, <1>13

\* Where nothing is logged, no figure is worth anything.
LEMMA NothingLogged ==
    ASSUME NEW k, NEW field, Under(k) = {}
    PROVE  LoggedUnder(k, field) = 0
<1>1. LoggedUnder(k, field) = SumFunctionOnSet(Worth(k, field), Under(k))
  BY DEF LoggedUnder, SumFunction, Worth, Under
<1> QED
  BY <1>1, OnSetEmpty

\* A record changes the bucket of its key as it changes the log under it; a
\* bucket that was pruned is not missed, since its day is not retained.
LEMMA RecordMatches ==
    ASSUME Shapes, BucketsMatchLog, NEW e \in Calls, NEW day \in 0..today,
           RecordOf(e, day)
    PROVE  BucketsMatchLog'
<1> DEFINE k == BucketKey(e, day)
           x == [call |-> e, day |-> day]
<1>0. log' = Plus(log, x) /\ DOMAIN log' = DOMAIN log \cup {x} /\ today' = today
  BY BagGrows DEF Shapes, RecordOf
<1>1. /\ k \in Keys /\ k.day = day
      /\ DOMAIN buckets' = {j \in DOMAIN buckets \cup {k} : j.day >= today - Retention}
      /\ k \in DOMAIN buckets' => buckets'[k] = Added(BucketOf(k), e)
      /\ \A j \in DOMAIN buckets' \ {k} : buckets'[j] = buckets[j]
  BY RecordBuckets
<1>2. \A r \in DOMAIN log : KeyOf(r).day = r.day
  BY DEF KeyOf, BucketKey
<1>3. KeyOf(x) = k /\ x.day = day
  BY DEF KeyOf
<1>4. \A r \in DOMAIN log' :
         r.day >= today' - Retention => KeyOf(r)' \in DOMAIN buckets'
  <2>1. \A r : KeyOf(r)' = KeyOf(r)
    BY DEF KeyOf, BucketKey
  <2>2. \A r \in DOMAIN log : r.day >= today - Retention => KeyOf(r) \in DOMAIN buckets
    BY DEF BucketsMatchLog
  <2> HIDE DEF k, x
  <2> QED
    BY <1>0, <1>1, <1>2, <1>3, <2>1, <2>2
<1>5. ASSUME NEW j \in DOMAIN buckets', NEW field \in DOMAIN EmptyBucket
      PROVE  buckets'[j][field] = LoggedUnder(j, field)'
  <2>1. LoggedUnder(j, field)' =
            LoggedUnder(j, field) + (IF j = k THEN Share(e)[field] ELSE 0)
    BY <1>0, LoggedUnderGrows
  <2>2. CASE j # k
    <3>1. j \in DOMAIN buckets /\ buckets'[j] = buckets[j]
      BY <1>1, <2>2
    <3>2. buckets[j][field] = LoggedUnder(j, field) /\ buckets[j][field] \in Nat
      BY <3>1, FigureIsNat DEF BucketsMatchLog, Shapes
    <3> QED
      BY <2>1, <2>2, <3>1, <3>2
  <2>3. CASE j = k
    <3>1. buckets'[k] = Added(BucketOf(k), e) /\ BucketOf(k) \in Figures
      BY <1>1, <2>3, BucketOfFigures
    <3>2. buckets'[k][field] = BucketOf(k)[field] + Share(e)[field]
      BY <3>1, AddedIsShare
    <3>3. BucketOf(k)[field] = LoggedUnder(k, field)
      <4>1. CASE k \in DOMAIN buckets
        BY <4>1 DEF BucketOf, BucketsMatchLog
      <4>2. CASE k \notin DOMAIN buckets
        <5>1. ASSUME NEW r \in DOMAIN log, KeyOf(r) = k PROVE FALSE
          BY <1>1, <1>2, <2>3, <4>2, <5>1 DEF BucketsMatchLog
        <5>2. Under(k) = {}
          BY <5>1 DEF Under
        <5>3. BucketOf(k)[field] = 0
          BY <4>2, EmptyFigures, FigureIsNat DEF BucketOf
        <5> QED
          BY <5>2, <5>3, NothingLogged
      <4> QED
        BY <4>1, <4>2
    <3> QED
      BY <2>1, <2>3, <3>2, <3>3
  <2> QED
    BY <2>2, <2>3
<1> QED
  BY <1>4, <1>5 DEF BucketsMatchLog

\* Every other step leaves buckets and log, or prunes.
LEMMA NextMatches == Shapes /\ BucketsMatchLog /\ [Next]_vars => BucketsMatchLog'
<1> SUFFICES ASSUME Shapes, BucketsMatchLog, [Next]_vars PROVE BucketsMatchLog'
  OBVIOUS
<1>1. CASE UNCHANGED <<buckets, log, today>>
  BY <1>1 DEF BucketsMatchLog, LoggedUnder, KeyOf
<1>2. CASE Record
  BY <1>2, RecordIsOf, RecordMatches
<1>3. CASE Midnight
  <2>1. UNCHANGED <<buckets, log>> /\ today' = today + 1 /\ today \in Nat
    BY <1>3 DEF Midnight, ledgerVars, Shapes
  <2>2. \A k, field : LoggedUnder(k, field)' = LoggedUnder(k, field)
    BY <2>1 DEF LoggedUnder, KeyOf
  <2>3. \A r \in DOMAIN log : r.day \in Nat /\ KeyOf(r)' = KeyOf(r)
    BY <2>1 DEF Shapes, KeyOf
  <2>4. \A r \in DOMAIN log' :
           r.day >= today' - Retention => KeyOf(r)' \in DOMAIN buckets'
    BY <2>1, <2>3, LedgerAssumption DEF BucketsMatchLog
  <2> QED
    BY <2>1, <2>2, <2>4 DEF BucketsMatchLog
<1>4. CASE Stats
  <2>1. buckets' = Pruned(buckets) /\ UNCHANGED <<log, today>>
    BY <1>4 DEF Stats
  <2>2. /\ DOMAIN buckets' = {j \in DOMAIN buckets : j.day >= today - Retention}
        /\ \A j \in DOMAIN buckets' : buckets'[j] = buckets[j]
    BY <2>1, PrunedBuckets
  <2>3. \A k, field : LoggedUnder(k, field)' = LoggedUnder(k, field)
    BY <2>1 DEF LoggedUnder, KeyOf
  <2>4. \A r \in DOMAIN log : KeyOf(r).day = r.day /\ KeyOf(r)' = KeyOf(r)
    BY DEF KeyOf, BucketKey
  <2> QED
    BY <2>1, <2>2, <2>3, <2>4 DEF BucketsMatchLog
<1>5. CASE Metrics
  BY <1>1, <1>5 DEF Metrics, ReadAttempts, ReadFirstOutputs, Respond, ledgerVars
<1> QED
  BY <1>1, <1>2, <1>3, <1>4, <1>5 DEF Next, vars, ledgerVars

\* Nothing is logged at the start.
LEMMA InitMatches == Init => BucketsMatchLog
<1> SUFFICES ASSUME Init PROVE BucketsMatchLog
  OBVIOUS
<1>1. DOMAIN log = {} /\ DOMAIN buckets = {}
  BY DEF Init, EmptyBag, SetToBag, NoFunction
<1> QED
  BY <1>1 DEF BucketsMatchLog

\* BucketsMatchLog, for any sequence of records, midnights and reads: pruneLocked
\* never costs a bucket its figures, and no retained bucket is missing.
THEOREM BucketsHoldTheLog == Spec => []BucketsMatchLog
  BY SpecShapes, InitMatches, NextMatches, PTL DEF Spec

-----------------------------------------------------------------------------
(* Histograms.                                                             *)

\* A leg that somebody waited on has a histogram.
WaitsHaveHistograms ==
    \A r \in DOMAIN log :
        r.call.error = "none" /\ r.call.wait > 0 => Leg(r.call) \in DOMAIN firstOutput

\* What a log holds.
Records == [call : Calls, day : Nat]

\* The waiters of a leg that waited at most le.
WaitsUpTo(B, leg, le) == {r \in Waiters(B, leg) : r.call.wait <= le}

\* What the waiters of a leg waited together.
TotalWait(B, leg) == SumFunction([r \in Waiters(B, leg) |-> B[r] * r.call.wait])

\* A cumulative histogram, slot by slot.
LEMMA CumulativeIs ==
    ASSUME NEW h \in HistogramType
    PROVE  /\ \A i \in Slots :
                  Cumulative(h).counts[i] = SumFunctionOnSet(h.counts, 1..i)
           /\ Cumulative(h).sum = h.sum /\ Cumulative(h).count = h.count
<1>1. DOMAIN h.counts = Slots
  BY DEF HistogramType
<1>2. h = [counts |-> h.counts, sum |-> h.sum, count |-> h.count]
  BY DEF HistogramType
<1> DEFINE c == [i \in Slots |-> SumFunctionOnSet(h.counts, 1..i)]
<1>3. Cumulative(h) = [counts |-> c, sum |-> h.sum, count |-> h.count]
  BY <1>1, <1>2 DEF Cumulative
<1> QED
  BY <1>3

\* One more wait is in every bucket from its slot on.
LEMMA WaitedCumulative ==
    ASSUME NEW h \in HistogramType, NEW wait \in Nat, NEW i \in Slots
    PROVE  SumFunctionOnSet(Waited(h, wait).counts, 1..i) =
               SumFunctionOnSet(h.counts, 1..i) + (IF Slot(wait) <= i THEN 1 ELSE 0)
<1> DEFINE f == h.counts
           g == Waited(h, wait).counts
           x == Slot(wait)
           S == 1..i
<1>0. Len(Bounds) \in Nat /\ Slots = 1..(Len(Bounds) + 1) /\ i \in Nat
  BY LedgerAssumption DEF Slots
<1>1. IsFiniteSet(S) /\ S \subseteq Slots
  BY <1>0, FS_Interval
<1>2. x \in Slots /\ (x \in S <=> x <= i)
  <2>1. Slot(wait) \in Slots
    BY SlotSplitsWaits
  <2> HIDE DEF x
  <2>2. x \in Slots
    BY <2>1 DEF x
  <2> QED
    BY <1>0, <2>2
<1>3. f \in [Slots -> Nat]
  BY DEF HistogramType
<1>4. g[x] = f[x] + 1 /\ \A j \in Slots \ {x} : g[j] = f[j]
  BY WaitedType
<1> HIDE DEF f, g, x, S
<1>5. \A j \in S : f[j] \in Int
  BY <1>1, <1>3
<1>6. \A j \in S \ {x} : g[j] = f[j]
  BY <1>1, <1>4
<1>7. x \in S => g[x] = (IF x \in S THEN f[x] ELSE 0) + 1
  BY <1>4
<1>8. SumFunctionOnSet(g, S) = SumFunctionOnSet(f, S) + (IF x \in S THEN 1 ELSE 0)
  BY <1>1, <1>5, <1>6, <1>7, SumGrows
<1> QED
  BY <1>2, <1>8 DEF f, g, x, S

\* A cumulative bucket is a natural.
LEMMA CountsAreNat ==
    ASSUME NEW h \in HistogramType, NEW i \in Slots
    PROVE  SumFunctionOnSet(h.counts, 1..i) \in Nat
<1>1. Len(Bounds) \in Nat /\ Slots = 1..(Len(Bounds) + 1) /\ i \in Nat
  BY LedgerAssumption DEF Slots
<1>2. IsFiniteSet(1..i) /\ 1..i \subseteq Slots
  BY <1>1, FS_Interval
<1>3. \A j \in 1..i : h.counts[j] \in Nat
  BY <1>2 DEF HistogramType
<1> QED
  BY <1>2, <1>3, OnSetNat

\* Nobody has waited yet.
LEMMA EmptySums ==
    ASSUME NEW i \in Slots
    PROVE  SumFunctionOnSet(EmptyHistogram.counts, 1..i) = 0
<1>1. Len(Bounds) \in Nat /\ Slots = 1..(Len(Bounds) + 1) /\ i \in Nat
  BY LedgerAssumption DEF Slots
<1>2. 1..i \subseteq Slots
  BY <1>1
<1>3. IsFiniteSet(1..i)
  BY <1>1, FS_Interval
<1> DEFINE f == EmptyHistogram.counts
           S == 1..i
<1>4. \A j \in S : f[j] = 0
  BY <1>2 DEF EmptyHistogram
<1> HIDE DEF f, S
<1>5. IsFiniteSet(S)
  BY <1>3 DEF S
<1>6. SumFunctionOnSet(f, S) = 0
  BY <1>4, <1>5, OnSetNat
<1> QED
  BY <1>6 DEF f, S

\* The call waits on the leg and succeeds.
Waits(e, leg) == e.error = "none" /\ e.wait > 0 /\ Leg(e) = leg

\* What a record adds to the waiters of a leg.
LEMMA WaitersGrow ==
    ASSUME NEW B, FiniteBag(B), DOMAIN B \subseteq Records,
           NEW e \in Calls, NEW day \in Nat,
           NEW C, C = Plus(B, [call |-> e, day |-> day]), NEW leg
    PROVE  /\ SumFunctionOnSet(C, Waiters(C, leg)) =
                  SumFunctionOnSet(B, Waiters(B, leg)) +
                      (IF Waits(e, leg) THEN 1 ELSE 0)
           /\ \A le : SumFunctionOnSet(C, WaitsUpTo(C, leg, le)) =
                  SumFunctionOnSet(B, WaitsUpTo(B, leg, le)) +
                      (IF Waits(e, leg) /\ e.wait <= le THEN 1 ELSE 0)
           /\ TotalWait(C, leg) =
                  TotalWait(B, leg) + (IF Waits(e, leg) THEN e.wait ELSE 0)
<1> DEFINE x == [call |-> e, day |-> day]
           S == Waiters(B, leg)
           T == Waiters(C, leg)
<1>1. /\ FiniteBag(B) /\ FiniteBag(C) /\ C = Plus(B, x)
      /\ DOMAIN C = DOMAIN B \cup {x}
      /\ C[x] = (IF x \in DOMAIN B THEN B[x] ELSE 0) + 1
      /\ \A y \in DOMAIN B \ {x} : C[y] = B[y]
  <2>1. FiniteBag(B) /\ C = Plus(B, x)
    OBVIOUS
  <2> HIDE DEF x
  <2>2. /\ FiniteBag(Plus(B, x))
        /\ DOMAIN Plus(B, x) = DOMAIN B \cup {x}
        /\ Plus(B, x)[x] = (IF x \in DOMAIN B THEN B[x] ELSE 0) + 1
        /\ \A y \in DOMAIN B \ {x} : Plus(B, x)[y] = B[y]
    BY <2>1, BagGrows
  <2> QED
    BY <2>1, <2>2
<1>2. x.call = e /\ (x \in T <=> Waits(e, leg))
  BY <1>1 DEF Waiters, Waits
<1>3. /\ S \subseteq DOMAIN B /\ T \subseteq DOMAIN B \cup {x}
      /\ S \ {x} = T \ {x} /\ (x \in S <=> x \in T /\ x \in DOMAIN B)
  BY <1>1 DEF Waiters
<1>4. SumFunctionOnSet(C, T) = SumFunctionOnSet(B, S) + (IF x \in T THEN 1 ELSE 0)
  <2> HIDE DEF x, S, T
  <2> QED
    BY <1>1, <1>3, BagCount
<1>5. ASSUME NEW le
      PROVE  SumFunctionOnSet(C, WaitsUpTo(C, leg, le)) =
                 SumFunctionOnSet(B, WaitsUpTo(B, leg, le)) +
                     (IF Waits(e, leg) /\ e.wait <= le THEN 1 ELSE 0)
  <2> DEFINE S2 == WaitsUpTo(B, leg, le)
             T2 == WaitsUpTo(C, leg, le)
  <2>1. /\ S2 \subseteq DOMAIN B /\ T2 \subseteq DOMAIN B \cup {x}
        /\ S2 \ {x} = T2 \ {x} /\ (x \in S2 <=> x \in T2 /\ x \in DOMAIN B)
    BY <1>3 DEF WaitsUpTo
  <2>2. x \in T2 <=> Waits(e, leg) /\ e.wait <= le
    BY <1>2 DEF WaitsUpTo
  <2>3. SumFunctionOnSet(C, T2) =
            SumFunctionOnSet(B, S2) + (IF x \in T2 THEN 1 ELSE 0)
    <3> HIDE DEF x, S, T, S2, T2
    <3> QED
      BY <1>1, <2>1, BagCount
  <2> QED
    BY <2>2, <2>3
<1> DEFINE f == [r \in S |-> B[r] * r.call.wait]
           g == [r \in T |-> C[r] * r.call.wait]
           v == e.wait
<1>6. \A r \in DOMAIN B \cup {x} : r.call.wait \in Nat
  <2>1. x \in Records
    BY DEF Records
  <2> HIDE DEF x
  <2>2. TAKE r \in DOMAIN B \cup {x}
  <2>3. r.call \in Calls
    BY <2>1 DEF Records
  <2> QED
    BY <2>3, LedgerAssumption DEF CallType
<1>7. v \in Nat
  BY LedgerAssumption DEF CallType
<1>8. IsFiniteSet(S) /\ IsFiniteSet(T)
  BY <1>1, <1>3, FS_Subset DEF FiniteBag
<1>9. \A y \in S : f[y] \in Int
  <2>1. TAKE y \in S
  <2>2. B[y] \in Nat /\ y.call.wait \in Nat /\ f[y] = B[y] * y.call.wait
    BY <1>1, <1>3, <1>6 DEF FiniteBag
  <2> QED
    BY <2>2
<1>10. \A y \in S \ {x} : g[y] = f[y]
  BY <1>1, <1>3
<1>11. x \in T => g[x] = (IF x \in S THEN f[x] ELSE 0) + v
  <2>0. SUFFICES ASSUME x \in T PROVE g[x] = (IF x \in S THEN f[x] ELSE 0) + v
    OBVIOUS
  <2>1. g[x] = C[x] * v /\ (x \in S => f[x] = B[x] * v)
    BY <2>0, <1>2
  <2>2. C[x] = (IF x \in S THEN B[x] ELSE 0) + 1
    BY <2>0, <1>1, <1>3
  <2>3. x \in S => B[x] \in Nat
    BY <1>1, <1>3 DEF FiniteBag
  <2>4. CASE x \in S
    <3> DEFINE a == B[x]
               q == a * v
    <3>1. a \in Nat /\ g[x] = (a + 1) * v /\ f[x] = q
      BY <2>1, <2>2, <2>3, <2>4
    <3> HIDE DEF f, g, S, T, x, v, a
    <3>2. (a + 1) * v = q + v
      BY <3>1, <1>7
    <3> QED
      BY <2>4, <3>1, <3>2
  <2>5. CASE x \notin S
    <3>1. g[x] = 1 * v
      BY <2>1, <2>2, <2>5
    <3> HIDE DEF f, g, S, T, x, v
    <3> QED
      BY <2>5, <3>1, <1>7
  <2> QED
    BY <2>4, <2>5
<1>12. SumFunctionOnSet(g, T) = SumFunctionOnSet(f, S) + (IF x \in T THEN v ELSE 0)
  <2>1. x \in S => x \in T
    BY <1>3
  <2>2. S \ {x} = T \ {x}
    BY <1>3
  <2>3. v \in Int
    BY <1>7
  <2> HIDE DEF f, g, S, T, x, v
  <2> QED
    BY <1>8, <1>9, <1>10, <1>11, <2>1, <2>2, <2>3, SumGrows
<1>13. TotalWait(B, leg) = SumFunctionOnSet(f, S)
  BY DEF TotalWait, SumFunction
<1>14. TotalWait(C, leg) = SumFunctionOnSet(g, T)
  BY DEF TotalWait, SumFunction
<1>15. SumFunctionOnSet(C, Waiters(C, leg)) =
           SumFunctionOnSet(B, S) + (IF Waits(e, leg) THEN 1 ELSE 0)
  BY <1>2, <1>4
<1>16. TotalWait(C, leg) = TotalWait(B, leg) + (IF Waits(e, leg) THEN e.wait ELSE 0)
  <2> HIDE DEF f, g, S, T, x
  <2> QED
    BY <1>2, <1>12, <1>13, <1>14
<1> QED
  BY <1>5, <1>15, <1>16

\* A leg's histogram is what its waiters of the log waited.
WaitsMatch(h, leg, B) ==
    /\ \A i \in DOMAIN Bounds :
          SumFunctionOnSet(h.counts, 1..i) =
              SumFunctionOnSet(B, WaitsUpTo(B, leg, Bounds[i]))
    /\ SumFunctionOnSet(h.counts, 1..(Len(Bounds) + 1)) = h.count
    /\ h.count = SumFunctionOnSet(B, Waiters(B, leg))
    /\ h.sum = TotalWait(B, leg)

\* Every histogram is true to the log, and none is missing.
Histograms ==
    /\ WaitsHaveHistograms
    /\ \A leg \in DOMAIN firstOutput : WaitsMatch(firstOutput[leg], leg, log)

\* This is what the run checks of the answers.
LEMMA HistogramsCount == Shapes /\ Histograms => HistogramsCountWaits
<1> SUFFICES ASSUME Shapes, Histograms, NEW leg \in DOMAIN firstOutput
             PROVE  LET h == Cumulative(firstOutput[leg])
                        waiters == Waiters(log, leg)
                    IN  /\ \A i \in DOMAIN Bounds :
                              h.counts[i] =
                                  SumFunctionOnSet(log,
                                      {r \in waiters : r.call.wait <= Bounds[i]})
                        /\ h.counts[Len(Bounds) + 1] = h.count
                        /\ h.count = SumFunctionOnSet(log, waiters)
                        /\ h.sum = SumFunction([r \in waiters |-> log[r] * r.call.wait])
  BY DEF HistogramsCountWaits
<1> DEFINE f == firstOutput[leg]
           h == Cumulative(f)
<1>1. f \in HistogramType /\ WaitsMatch(f, leg, log)
  BY DEF Shapes, Histograms
<1> HIDE DEF f
<1>2. /\ \A i \in Slots : h.counts[i] = SumFunctionOnSet(f.counts, 1..i)
      /\ h.sum = f.sum /\ h.count = f.count
  BY <1>1, CumulativeIs
<1>3. DOMAIN Bounds \subseteq Slots /\ Len(Bounds) + 1 \in Slots
  BY LedgerAssumption DEF Slots
<1> HIDE DEF h
<1>4. /\ \A i \in DOMAIN Bounds :
            h.counts[i] = SumFunctionOnSet(log, WaitsUpTo(log, leg, Bounds[i]))
      /\ h.counts[Len(Bounds) + 1] = h.count
      /\ h.count = SumFunctionOnSet(log, Waiters(log, leg))
      /\ h.sum = TotalWait(log, leg)
  BY <1>1, <1>2, <1>3 DEF WaitsMatch
<1> QED
  BY <1>4 DEF h, f, WaitsUpTo, TotalWait

\* The waits of a leg that has none.
LEMMA NoWaits ==
    ASSUME NEW B, NEW leg, Waiters(B, leg) = {}
    PROVE  WaitsMatch(EmptyHistogram, leg, B)
<1>1. Len(Bounds) + 1 \in Slots /\ DOMAIN Bounds \subseteq Slots
  BY LedgerAssumption DEF Slots
<1>2. \A le : WaitsUpTo(B, leg, le) = {}
  BY DEF WaitsUpTo
<1>3. SumFunctionOnSet(B, Waiters(B, leg)) = 0
  BY OnSetEmpty
<1>4. \A le : SumFunctionOnSet(B, WaitsUpTo(B, leg, le)) = 0
  BY <1>2, OnSetEmpty
<1>5. TotalWait(B, leg) = 0
  <2> DEFINE f == [r \in Waiters(B, leg) |-> B[r] * r.call.wait]
  <2>1. TotalWait(B, leg) = SumFunctionOnSet(f, Waiters(B, leg))
    BY DEF TotalWait, SumFunction
  <2> HIDE DEF f
  <2> QED
    BY <2>1, OnSetEmpty
<1>6. \A i \in Slots : SumFunctionOnSet(EmptyHistogram.counts, 1..i) = 0
  BY EmptySums
<1>7. EmptyHistogram.count = 0 /\ EmptyHistogram.sum = 0
  BY DEF EmptyHistogram
<1> QED
  BY <1>1, <1>3, <1>4, <1>5, <1>6, <1>7 DEF WaitsMatch

\* A record keeps a leg's histogram true to the log.
LEMMA WaitsGrow ==
    ASSUME NEW B, FiniteBag(B), DOMAIN B \subseteq Records,
           NEW e \in Calls, NEW day \in Nat,
           NEW C, C = Plus(B, [call |-> e, day |-> day]), NEW leg,
           NEW h \in HistogramType, WaitsMatch(h, leg, B)
    PROVE  WaitsMatch(IF Waits(e, leg) THEN Waited(h, e.wait) ELSE h, leg, C)
<1> DEFINE u == Waited(h, e.wait)
           g == IF Waits(e, leg) THEN u ELSE h
           last == Len(Bounds) + 1
<1>1. /\ SumFunctionOnSet(C, Waiters(C, leg)) =
             SumFunctionOnSet(B, Waiters(B, leg)) + (IF Waits(e, leg) THEN 1 ELSE 0)
      /\ \A le : SumFunctionOnSet(C, WaitsUpTo(C, leg, le)) =
             SumFunctionOnSet(B, WaitsUpTo(B, leg, le)) +
                 (IF Waits(e, leg) /\ e.wait <= le THEN 1 ELSE 0)
      /\ TotalWait(C, leg) = TotalWait(B, leg) + (IF Waits(e, leg) THEN e.wait ELSE 0)
  BY WaitersGrow
<1>2. e.wait \in Nat
  BY LedgerAssumption DEF CallType
<1>3. /\ Len(Bounds) \in Nat /\ last \in Slots /\ DOMAIN Bounds \subseteq Slots
      /\ \A i \in Slots : i <= last
  BY LedgerAssumption DEF Slots
<1>4. /\ Slot(e.wait) \in Slots
      /\ \A i \in DOMAIN Bounds : Slot(e.wait) <= i <=> e.wait <= Bounds[i]
  BY <1>2, SlotSplitsWaits
<1>5. /\ \A i \in Slots : SumFunctionOnSet(u.counts, 1..i) =
             SumFunctionOnSet(h.counts, 1..i) + (IF Slot(e.wait) <= i THEN 1 ELSE 0)
      /\ u.sum = h.sum + e.wait /\ u.count = h.count + 1
  BY <1>2, WaitedCumulative, WaitedType
<1>6. h.sum \in Nat /\ h.count \in Nat
  BY DEF HistogramType
<1> HIDE DEF u, last
<1>7. CASE Waits(e, leg)
  <2>1. \A i \in DOMAIN Bounds :
           SumFunctionOnSet(u.counts, 1..i) =
               SumFunctionOnSet(C, WaitsUpTo(C, leg, Bounds[i]))
    BY <1>1, <1>3, <1>4, <1>5, <1>7 DEF WaitsMatch
  <2>2. SumFunctionOnSet(u.counts, 1..last) = u.count
    BY <1>3, <1>4, <1>5 DEF WaitsMatch, last
  <2>3. u.count = SumFunctionOnSet(C, Waiters(C, leg)) /\ u.sum = TotalWait(C, leg)
    BY <1>1, <1>5, <1>7 DEF WaitsMatch
  <2> QED
    BY <1>7, <2>1, <2>2, <2>3 DEF WaitsMatch, last, u
<1>8. CASE ~Waits(e, leg)
  <2>1. \A i \in DOMAIN Bounds :
           SumFunctionOnSet(h.counts, 1..i) =
               SumFunctionOnSet(C, WaitsUpTo(C, leg, Bounds[i]))
    <3>1. TAKE i \in DOMAIN Bounds
    <3>2. SumFunctionOnSet(h.counts, 1..i) =
              SumFunctionOnSet(B, WaitsUpTo(B, leg, Bounds[i]))
      BY DEF WaitsMatch
    <3>3. SumFunctionOnSet(h.counts, 1..i) \in Int
      BY <1>3, CountsAreNat
    <3> QED
      BY <1>1, <1>8, <3>2, <3>3
  <2>2. h.count = SumFunctionOnSet(C, Waiters(C, leg)) /\ h.sum = TotalWait(C, leg)
    BY <1>1, <1>6, <1>8 DEF WaitsMatch
  <2> QED
    BY <1>8, <2>1, <2>2 DEF WaitsMatch
<1> QED
  BY <1>7, <1>8

\* The log and its days, without the state they are of.
LEMMA LogIsRecords ==
    ASSUME Shapes
    PROVE  FiniteBag(log) /\ DOMAIN log \subseteq Records /\ 0..today \subseteq Nat
<1>1. today \in Nat
  BY DEF Shapes
<1> QED
  BY <1>1 DEF Shapes, Records

\* Whether or not anybody waited on a leg, what stands for its histogram counts
\* the waits of the log.
LEMMA HistogramOfWaits ==
    ASSUME Histograms, NEW leg
    PROVE  WaitsMatch(HistogramOf(leg), leg, log)
<1>1. CASE leg \in DOMAIN firstOutput
  BY <1>1 DEF Histograms, HistogramOf
<1>2. CASE leg \notin DOMAIN firstOutput
  <2>1. Waiters(log, leg) = {}
    BY <1>2 DEF Histograms, WaitsHaveHistograms, Waiters
  <2> QED
    BY <1>2, <2>1, NoWaits DEF HistogramOf
<1> QED
  BY <1>1, <1>2

\* A record keeps the histograms true, those it adds to and those it does not.
LEMMA RecordHistogramsMatch ==
    ASSUME Shapes, Histograms, NEW e \in Calls, NEW day \in 0..today, RecordOf(e, day)
    PROVE  Histograms'
<1> DEFINE x == [call |-> e, day |-> day]
<1>1. FiniteBag(log) /\ DOMAIN log \subseteq Records /\ day \in Nat
  BY LogIsRecords
<1>2. log' = Plus(log, [call |-> e, day |-> day]) /\ CountAttempt(e)
  BY DEF RecordOf
<1>3. DOMAIN log' = DOMAIN log \cup {x}
  <2>1. DOMAIN Plus(log, x) = DOMAIN log \cup {x}
    BY <1>1, BagGrows
  <2> QED
    BY <1>2, <2>1
<1>4. /\ Measured(e) <=> e.error = "none" /\ e.wait > 0
      /\ Measured(e) =>
            /\ DOMAIN firstOutput' = DOMAIN firstOutput \cup {Leg(e)}
            /\ firstOutput'[Leg(e)] = Waited(HistogramOf(Leg(e)), e.wait)
            /\ \A leg \in DOMAIN firstOutput \ {Leg(e)} :
                  firstOutput'[leg] = firstOutput[leg]
      /\ ~Measured(e) => firstOutput' = firstOutput
  BY <1>2, RecordHistograms
<1>5. WaitsHaveHistograms'
  <2>1. x.call = e
    OBVIOUS
  <2>2. \A r : Leg(r.call)' = Leg(r.call)
    BY DEF Leg
  <2>3. \A r \in DOMAIN log :
           r.call.error = "none" /\ r.call.wait > 0 =>
               Leg(r.call) \in DOMAIN firstOutput
    BY DEF Histograms, WaitsHaveHistograms
  <2> HIDE DEF x
  <2>4. ASSUME NEW r \in DOMAIN log', r.call.error = "none", r.call.wait > 0
        PROVE  Leg(r.call) \in DOMAIN firstOutput'
    <3>1. CASE r = x
      BY <1>4, <2>1, <2>4, <3>1
    <3>2. CASE r \in DOMAIN log
      BY <1>4, <2>3, <2>4, <3>2
    <3> QED
      BY <1>3, <3>1, <3>2
  <2> QED
    BY <2>2, <2>4 DEF WaitsHaveHistograms
<1>6. ASSUME NEW leg \in DOMAIN firstOutput'
      PROVE  WaitsMatch(firstOutput'[leg], leg, log')
  <2> DEFINE h == HistogramOf(leg)
  <2>1. h \in HistogramType /\ WaitsMatch(h, leg, log)
    BY HistogramOfType, HistogramOfWaits
  <2>2. firstOutput'[leg] = IF Waits(e, leg) THEN Waited(h, e.wait) ELSE h
    BY <1>4 DEF Waits, HistogramOf
  <2> HIDE DEF h
  <2>3. WaitsMatch(IF Waits(e, leg) THEN Waited(h, e.wait) ELSE h, leg, log')
    BY <1>1, <1>2, <2>1, WaitsGrow
  <2> QED
    BY <2>2, <2>3
<1> QED
  BY <1>5, <1>6 DEF Histograms

\* No other step touches them.
LEMMA NextHistograms == Shapes /\ Histograms /\ [Next]_vars => Histograms'
<1> SUFFICES ASSUME Shapes, Histograms, [Next]_vars PROVE Histograms'
  OBVIOUS
<1>1. CASE Record
  BY <1>1, RecordIsOf, RecordHistogramsMatch
<1>2. CASE UNCHANGED <<firstOutput, log>>
  BY <1>2 DEF Histograms, WaitsHaveHistograms
<1>3. Record \/ UNCHANGED <<firstOutput, log>>
  BY DEF Next, vars, ledgerVars, Midnight, Stats, Metrics, ReadAttempts,
         ReadFirstOutputs, Respond
<1> QED
  BY <1>1, <1>2, <1>3

\* Nobody has waited at the start.
LEMMA InitHistograms == Init => Histograms
<1> SUFFICES ASSUME Init PROVE Histograms
  OBVIOUS
<1>1. DOMAIN log = {} /\ DOMAIN firstOutput = {}
  BY DEF Init, EmptyBag, SetToBag, NoFunction
<1> QED
  BY <1>1 DEF Histograms, WaitsHaveHistograms

\* And so always.
LEMMA SpecHistograms == Spec => []Histograms
  BY SpecShapes, InitHistograms, NextHistograms, PTL DEF Spec

\* HistogramsCountWaits: recordAttemptLocked puts every wait in the slot of the
\* least edge that holds it, so that each cumulative bucket of writeMetrics, the
\* count and the sum are exactly those of the successful attempts that waited.
THEOREM WaitsCounted == Spec => []HistogramsCountWaits
  BY SpecShapes, SpecHistograms, HistogramsCount, PTL


-----------------------------------------------------------------------------
(* A page.                                                                 *)

\* A bag that is part of another.
PartOf(B, C) ==
    /\ FiniteBag(B) /\ DOMAIN B \subseteq DOMAIN C
    /\ \A y \in DOMAIN B : B[y] <= C[y]

\* A scrape in progress has counted part of the log; one that has read the
\* histograms too has covered what it counted; so has the last page.
Coverage ==
    /\ reader.at \in {2, 3} => PartOf(reader.seen, log)
    /\ reader.at = 3 => \A leg : Covered(reader.seen, reader.firstOutputs, leg)
    /\ \A leg : Covered(page.seen, page.firstOutputs, leg)

\* A bag that only grows keeps what was part of it.
LEMMA SubBagGrows ==
    ASSUME NEW B, NEW C, PartOf(B, C), FiniteBag(C), NEW x
    PROVE  PartOf(B, Plus(C, x))
<1>1. /\ DOMAIN Plus(C, x) = DOMAIN C \cup {x}
      /\ \A y \in DOMAIN C : Plus(C, x)[y] >= C[y]
      /\ FiniteBag(Plus(C, x))
  BY BagGrows
<1>2. \A y \in DOMAIN B : B[y] <= Plus(C, x)[y]
  <2>1. TAKE y \in DOMAIN B
  <2>2. B[y] \in Nat /\ C[y] \in Nat /\ Plus(C, x)[y] \in Nat
    BY <1>1 DEF PartOf, FiniteBag
  <2>3. B[y] <= C[y] /\ C[y] <= Plus(C, x)[y]
    BY <1>1, <2>2 DEF PartOf
  <2> QED
    BY <2>2, <2>3
<1> QED
  BY <1>1, <1>2 DEF PartOf

\* The histograms of now cover whatever was counted before.
LEMMA HistogramsCover ==
    ASSUME Shapes, Histograms, NEW B, PartOf(B, log), NEW leg
    PROVE  Covered(B, [l \in DOMAIN firstOutput |-> Cumulative(firstOutput[l])], leg)
<1> DEFINE F == [l \in DOMAIN firstOutput |-> Cumulative(firstOutput[l])]
<1>1. SUFFICES ASSUME Waiters(B, leg) # {}
               PROVE  /\ leg \in DOMAIN F
                      /\ F[leg].count >= SumFunctionOnSet(B, Waiters(B, leg))
  BY DEF Covered
<1>2. Waiters(B, leg) \subseteq Waiters(log, leg)
  BY DEF Waiters, PartOf
<1>3. leg \in DOMAIN firstOutput
  BY <1>1, <1>2 DEF Waiters, Histograms, WaitsHaveHistograms
<1>4. F[leg].count = firstOutput[leg].count
  BY <1>3, CumulativeIs DEF Shapes
<1>5. firstOutput[leg].count = SumFunctionOnSet(log, Waiters(log, leg))
  BY <1>3 DEF Histograms, WaitsMatch
<1>6. /\ SumFunctionOnSet(B, Waiters(B, leg)) <=
             SumFunctionOnSet(log, Waiters(log, leg))
      /\ SumFunctionOnSet(B, Waiters(B, leg)) \in Nat
      /\ SumFunctionOnSet(log, Waiters(log, leg)) \in Nat
  <2> DEFINE S == Waiters(B, leg)
             T == Waiters(log, leg)
  <2>1. /\ S \subseteq DOMAIN B /\ T \subseteq DOMAIN log
        /\ FiniteBag(B) /\ FiniteBag(log)
        /\ \A y \in S : B[y] <= log[y]
    BY DEF Waiters, PartOf, Shapes
  <2> HIDE DEF S, T
  <2>2. S \subseteq T
    BY <1>2 DEF S, T
  <2>3. /\ SumFunctionOnSet(B, S) <= SumFunctionOnSet(log, T)
        /\ SumFunctionOnSet(B, S) \in Nat /\ SumFunctionOnSet(log, T) \in Nat
    BY <2>1, <2>2, BagPart
  <2> QED
    BY <2>3 DEF S, T
<1> QED
  BY <1>3, <1>4, <1>5, <1>6

\* The log only grows between the two reads, and the histograms come second.
LEMMA NextCoverage == Shapes /\ Histograms /\ Coverage /\ [Next]_vars => Coverage'
<1> SUFFICES ASSUME Shapes, Histograms, Coverage, [Next]_vars PROVE Coverage'
  OBVIOUS
<1>1. CASE Record
  <2>1. PICK e \in Calls, day \in 0..today : RecordOf(e, day)
    BY <1>1, RecordIsOf
  <2>2. UNCHANGED <<reader, page>> /\ log' = Plus(log, [call |-> e, day |-> day])
    BY <2>1 DEF RecordOf
  <2>3. \A B : PartOf(B, log) => PartOf(B, log')
    BY <2>2, SubBagGrows DEF Shapes
  <2> QED
    BY <2>2, <2>3 DEF Coverage
<1>2. CASE UNCHANGED <<log, reader, page>>
  BY <1>2 DEF Coverage
<1>3. CASE ReadAttempts
  <2>1. PICK s : reader' = [at |-> 2, rows |-> RowsOf(s), seen |-> log,
                            firstOutputs |-> reader.firstOutputs]
    BY <1>3, ReadAttemptsIs
  <2>2. UNCHANGED <<log, page>>
    BY <1>3 DEF ReadAttempts, ledgerVars
  <2>3. PartOf(log, log)
    BY DEF Shapes, PartOf, FiniteBag
  <2> QED
    BY <2>1, <2>2, <2>3 DEF Coverage
<1>4. CASE ReadFirstOutputs
  <2>1. /\ reader.at = 2
        /\ reader' = [at |-> 3, rows |-> reader.rows, seen |-> reader.seen,
                      firstOutputs |-> [leg \in DOMAIN firstOutput |->
                                           Cumulative(firstOutput[leg])]]
        /\ UNCHANGED <<log, page>>
    BY <1>4, ReadFirstOutputsIs DEF ledgerVars
  <2>2. PartOf(reader.seen, log)
    BY <2>1 DEF Coverage
  <2>3. \A leg : Covered(reader.seen,
                         [l \in DOMAIN firstOutput |-> Cumulative(firstOutput[l])], leg)
    BY <2>2, HistogramsCover
  <2> QED
    BY <2>1, <2>2, <2>3 DEF Coverage
<1>5. CASE Respond
  <2>1. /\ reader.at = 3 /\ reader'.at = 1
        /\ page'.seen = reader.seen /\ page'.firstOutputs = reader.firstOutputs
    BY <1>5, RespondIs
  <2> QED
    BY <2>1 DEF Coverage
<1>6. CASE Midnight \/ Stats \/ UNCHANGED vars
  BY <1>2, <1>6 DEF Midnight, Stats, vars, ledgerVars
<1> QED
  BY <1>1, <1>3, <1>4, <1>5, <1>6 DEF Next, Metrics

\* There is nothing to cover at the start.
LEMMA InitCoverage == Init => Coverage
<1> SUFFICES ASSUME Init PROVE Coverage
  OBVIOUS
<1>1. reader.at = 1 /\ DOMAIN page.seen = {}
  BY DEF Init, EmptyBag, SetToBag
<1> QED
  BY <1>1 DEF Coverage, Covered, Waiters

\* And so always.
LEMMA SpecCoverage == Spec => []Coverage
  BY SpecShapes, SpecHistograms, InitCoverage, NextCoverage, PTL DEF Spec

\* This is what the run checks of a page.
LEMMA CoverageCovers == Coverage => HistogramsCoverCounters
  BY DEF Coverage, HistogramsCoverCounters

\* HistogramsCoverCounters: measured waits recorded between the two locks of a
\* scrape are in its histograms and not in its counters, never the other way round.
THEOREM PagesCovered == Spec => []HistogramsCoverCounters
  BY SpecCoverage, CoverageCovers, PTL

-----------------------------------------------------------------------------
(* The buckets against the counters.                                       *)

\* Successes or failures of a bucket.
Figure(b, ok) == IF ok THEN b.requests - b.failures ELSE b.failures

\* The buckets of a leg's model.
Kept(bs, leg) == {k \in DOMAIN bs : SameModel(k, leg)}

\* Their successes or failures.
Total(bs, leg, ok) == SumFunction([k \in Kept(bs, leg) |-> Figure(bs[k], ok)])

\* The counters of a leg's model, of successes or of failures.
Counting(A, leg, ok) ==
    {k \in DOMAIN A : SameModel(k, leg) /\ (k.outcome = "ok" <=> ok)}

\* What they count.
Counted(A, leg, ok) == SumFunctionOnSet(A, Counting(A, leg, ok))

\* Buckets whose failures are among their requests.
Sound(bs) ==
    /\ IsFiniteSet(DOMAIN bs)
    /\ \A k \in DOMAIN bs :
          k.day \in Nat /\ bs[k] \in Figures /\ bs[k].failures <= bs[k].requests

\* Buckets total what counters count, less what has expired.
Agreement ==
    /\ Sound(buckets)
    /\ \A leg : \A ok \in BOOLEAN :
          /\ Total(buckets, leg, ok) <= Counted(attempts, leg, ok)
          /\ today <= Retention => Total(buckets, leg, ok) = Counted(attempts, leg, ok)

\* Both figures of a sound bucket are naturals.
LEMMA FigureNat ==
    ASSUME NEW b \in Figures, b.failures <= b.requests, NEW ok \in BOOLEAN
    PROVE  Figure(b, ok) \in Nat
<1>1. b.failures \in Nat /\ b.requests \in Nat
  BY DEF Figures
<1> QED
  BY <1>1 DEF Figure

\* So are the sums of them.
LEMMA TotalNat ==
    ASSUME NEW bs, Sound(bs), NEW leg, NEW ok \in BOOLEAN
    PROVE  /\ IsFiniteSet(Kept(bs, leg)) /\ Kept(bs, leg) \subseteq DOMAIN bs
           /\ \A k \in Kept(bs, leg) : Figure(bs[k], ok) \in Nat
           /\ Total(bs, leg, ok) \in Nat
<1> DEFINE S == Kept(bs, leg)
           f == [k \in S |-> Figure(bs[k], ok)]
<1>1. IsFiniteSet(S) /\ S \subseteq DOMAIN bs
  BY FS_Subset DEF Sound, Kept
<1>2. \A k \in S : Figure(bs[k], ok) \in Nat
  BY <1>1, FigureNat DEF Sound
<1>3. Total(bs, leg, ok) = SumFunctionOnSet(f, S)
  BY DEF Total, SumFunction
<1>4. \A k \in S : f[k] \in Nat
  BY <1>2
<1> HIDE DEF S, f
<1>5. SumFunctionOnSet(f, S) \in Nat
  BY <1>1, <1>4, OnSetNat
<1> QED
  BY <1>1, <1>2, <1>3, <1>5 DEF S

\* A record adds its call to the bucket, as a success or as a failure.
LEMMA FigureAdded ==
    ASSUME NEW e \in Calls, NEW b \in Figures, b.failures <= b.requests,
           NEW ok \in BOOLEAN
    PROVE  /\ Added(b, e) \in Figures /\ Added(b, e).failures <= Added(b, e).requests
           /\ Figure(Added(b, e), ok) =
                  Figure(b, ok) + (IF e.error = "none" <=> ok THEN 1 ELSE 0)
<1>1. Added(b, e) \in Figures
  BY AddedIsShare
<1>2. /\ Added(b, e).requests = b.requests + 1
      /\ Added(b, e).failures = b.failures + (IF e.error = "none" THEN 0 ELSE 1)
  BY DEF Added, One, Succeeded
<1>3. b.failures \in Nat /\ b.requests \in Nat
  BY DEF Figures
<1> QED
  BY <1>1, <1>2, <1>3 DEF Figure

\* A record adds one to the successes or to the failures of its model.
LEMMA WithBucketTotal ==
    ASSUME Sound(buckets), NEW e \in Calls, NEW k, k.day \in Nat,
           NEW b, b = Added(BucketOf(k), e), NEW leg, NEW ok \in BOOLEAN
    PROVE  /\ Sound(WithBucket(k, b))
           /\ Total(WithBucket(k, b), leg, ok) =
                  Total(buckets, leg, ok) +
                      (IF SameModel(k, leg) /\ (e.error = "none" <=> ok) THEN 1 ELSE 0)
<1> DEFINE bs == WithBucket(k, b)
           S == Kept(buckets, leg)
           T == Kept(bs, leg)
           f == [j \in S |-> Figure(buckets[j], ok)]
           g == [j \in T |-> Figure(bs[j], ok)]
           v == IF e.error = "none" <=> ok THEN 1 ELSE 0
<1>1. /\ DOMAIN bs = DOMAIN buckets \cup {k} /\ bs[k] = b
      /\ \A j \in DOMAIN buckets \ {k} : bs[j] = buckets[j]
  BY DEF WithBucket
<1>2. BucketOf(k) \in Figures /\ BucketOf(k).failures <= BucketOf(k).requests
  <2>1. CASE k \in DOMAIN buckets
    BY <2>1 DEF BucketOf, Sound
  <2>2. CASE k \notin DOMAIN buckets
    BY <2>2, EmptyFigures DEF BucketOf, EmptyBucket
  <2> QED
    BY <2>1, <2>2
<1>3. /\ b \in Figures /\ b.failures <= b.requests
      /\ Figure(b, ok) = Figure(BucketOf(k), ok) + v
  BY <1>2, FigureAdded
<1>4. Sound(bs)
  <2>1. IsFiniteSet(DOMAIN bs)
    BY <1>1, FS_AddElement DEF Sound
  <2> HIDE DEF bs
  <2> QED
    BY <1>1, <1>3, <2>1 DEF Sound
<1>5. /\ IsFiniteSet(S) /\ IsFiniteSet(T)
      /\ \A j \in S : Figure(buckets[j], ok) \in Nat
  <2> HIDE DEF bs
  <2> QED
    BY <1>4, TotalNat
<1>6. S \ {k} = T \ {k} /\ (k \in S => k \in T) /\ (k \in T <=> SameModel(k, leg))
  BY <1>1 DEF Kept
<1>7. \A j \in S : f[j] \in Int
  BY <1>5
<1>8. \A j \in S \ {k} : g[j] = f[j]
  <2>1. TAKE j \in S \ {k}
  <2>2. j \in T /\ bs[j] = buckets[j]
    BY <1>1, <1>6 DEF Kept
  <2> QED
    BY <2>2
<1>9. k \in T => g[k] = (IF k \in S THEN f[k] ELSE 0) + v
  <2>0. SUFFICES ASSUME k \in T PROVE g[k] = (IF k \in S THEN f[k] ELSE 0) + v
    OBVIOUS
  <2>1. g[k] = Figure(BucketOf(k), ok) + v
    BY <2>0, <1>1, <1>3
  <2>2. CASE k \in S
    <3>1. BucketOf(k) = buckets[k]
      BY <2>2 DEF BucketOf, Kept
    <3> QED
      BY <2>1, <2>2, <3>1
  <2>3. CASE k \notin S
    <3>1. k \notin DOMAIN buckets
      BY <2>0, <2>3, <1>6 DEF Kept
    <3>2. Figure(BucketOf(k), ok) = 0
      BY <3>1 DEF BucketOf, EmptyBucket, Figure
    <3> QED
      BY <2>1, <2>3, <3>2
  <2> QED
    BY <2>2, <2>3
<1>10. v \in Int
  OBVIOUS
<1>11. SumFunctionOnSet(g, T) = SumFunctionOnSet(f, S) + (IF k \in T THEN v ELSE 0)
  <2> HIDE DEF f, g, S, T, v
  <2> QED
    BY <1>5, <1>6, <1>7, <1>8, <1>9, <1>10, SumGrows
<1>12. Total(buckets, leg, ok) = SumFunctionOnSet(f, S)
  BY DEF Total, SumFunction
<1>13. Total(bs, leg, ok) = SumFunctionOnSet(g, T)
  BY DEF Total, SumFunction
<1>14. (IF k \in T THEN v ELSE 0) =
           IF SameModel(k, leg) /\ (e.error = "none" <=> ok) THEN 1 ELSE 0
  BY <1>6
<1> HIDE DEF f, g, S, T, v
<1> QED
  BY <1>4, <1>11, <1>12, <1>13, <1>14

\* Pruning takes from a total, and nothing while no day has expired.
LEMMA PrunedTotal ==
    ASSUME NEW bs, Sound(bs), today \in Nat, NEW leg, NEW ok \in BOOLEAN
    PROVE  /\ Sound(Pruned(bs))
           /\ Total(Pruned(bs), leg, ok) <= Total(bs, leg, ok)
           /\ today <= Retention => Total(Pruned(bs), leg, ok) = Total(bs, leg, ok)
<1> DEFINE ps == Pruned(bs)
           S == Kept(ps, leg)
           T == Kept(bs, leg)
           f == [k \in S |-> Figure(ps[k], ok)]
           g == [k \in T |-> Figure(bs[k], ok)]
<1>1. /\ DOMAIN ps = {k \in DOMAIN bs : k.day >= today - Retention}
      /\ \A k \in DOMAIN ps : ps[k] = bs[k]
  BY DEF Pruned
<1>2. Sound(ps)
  <2>1. IsFiniteSet(DOMAIN ps)
    BY <1>1, FS_Subset DEF Sound
  <2> HIDE DEF ps
  <2> QED
    BY <1>1, <2>1 DEF Sound
<1>3. /\ IsFiniteSet(S) /\ IsFiniteSet(T)
      /\ \A k \in S : Figure(ps[k], ok) \in Nat
      /\ \A k \in T : Figure(bs[k], ok) \in Nat
  <2> HIDE DEF ps
  <2> QED
    BY <1>2, TotalNat
<1>4. S \subseteq T
  BY <1>1 DEF Kept
<1>5. (\A k \in S : f[k] \in Nat) /\ (\A k \in T : g[k] \in Nat)
  BY <1>3
<1>6. \A k \in S : f[k] = g[k]
  <2>1. TAKE k \in S
  <2>2. k \in T /\ ps[k] = bs[k]
    BY <1>1, <1>4 DEF Kept
  <2> QED
    BY <2>2
<1>7. today <= Retention => S = T
  <2>1. ASSUME today <= Retention, NEW k \in DOMAIN bs PROVE k.day >= today - Retention
    <3>1. k.day \in Nat /\ Retention \in Nat
      BY LedgerAssumption DEF Sound
    <3> QED
      BY <2>1, <3>1
  <2> QED
    BY <1>1, <2>1 DEF Kept
<1>8. /\ SumFunctionOnSet(f, S) <= SumFunctionOnSet(g, T)
      /\ S = T => SumFunctionOnSet(f, S) = SumFunctionOnSet(g, T)
  <2> HIDE DEF f, g, S, T
  <2>1. \A k \in S : f[k] <= g[k]
    BY <1>4, <1>5, <1>6
  <2>2. SumFunctionOnSet(f, S) <= SumFunctionOnSet(g, T)
    BY <1>3, <1>4, <1>5, <2>1, OnSetMonotone
  <2>3. SumFunctionOnSet(f, S) = SumFunctionOnSet(g, S)
    BY <1>3, <1>6, OnSetAgree
  <2> QED
    BY <2>2, <2>3
<1>9. Total(ps, leg, ok) = SumFunctionOnSet(f, S)
  BY DEF Total, SumFunction
<1>10. Total(bs, leg, ok) = SumFunctionOnSet(g, T)
  BY DEF Total, SumFunction
<1> HIDE DEF f, g, S, T
<1> QED
  BY <1>2, <1>7, <1>8, <1>9, <1>10

\* What is counted is a natural.
LEMMA CountedNat ==
    ASSUME NEW A, FiniteBag(A), NEW leg, NEW ok \in BOOLEAN
    PROVE  Counted(A, leg, ok) \in Nat
<1> DEFINE S == Counting(A, leg, ok)
<1>1. S \subseteq DOMAIN A
  BY DEF Counting
<1>2. \A y \in S : A[y] \in Nat
  BY <1>1 DEF FiniteBag
<1>3. IsFiniteSet(S)
  BY <1>1, FS_Subset DEF FiniteBag
<1> HIDE DEF S
<1>4. SumFunctionOnSet(A, S) \in Nat
  BY <1>2, <1>3, OnSetNat
<1> QED
  BY <1>4 DEF S, Counted

\* A record is counted once.
LEMMA CountedGrows ==
    ASSUME FiniteBag(attempts), NEW e \in Calls, NEW leg, NEW ok \in BOOLEAN,
           NEW day \in Nat
    PROVE  Counted(Plus(attempts, AttemptKey(e)), leg, ok) =
               Counted(attempts, leg, ok) +
                   (IF SameModel(BucketKey(e, day), leg) /\ (e.error = "none" <=> ok)
                    THEN 1 ELSE 0)
<1> DEFINE x == AttemptKey(e)
           B == attempts
           C == Plus(B, x)
           S == Counting(B, leg, ok)
           T == Counting(C, leg, ok)
<1>1. FiniteBag(C) /\ DOMAIN C = DOMAIN B \cup {x}
  <2> HIDE DEF x
  <2> QED
    BY BagGrows
<1>2. /\ x.outcome = "ok" <=> e.error = "none"
      /\ SameModel(x, leg) <=> SameModel(BucketKey(e, day), leg)
  <2>1. SameModel(x, leg) <=> SameModel(BucketKey(e, day), leg)
    BY DEF SameModel, BucketKey, AttemptKey
  <2> QED
    BY <2>1, CallLabels
<1>3. /\ S \subseteq DOMAIN B /\ T \subseteq DOMAIN B \cup {x}
      /\ S \ {x} = T \ {x} /\ (x \in S <=> x \in T /\ x \in DOMAIN B)
      /\ x \in T <=> SameModel(x, leg) /\ (x.outcome = "ok" <=> ok)
  <2> HIDE DEF x, C
  <2> QED
    BY <1>1 DEF Counting
<1>4. SumFunctionOnSet(C, T) = SumFunctionOnSet(B, S) + (IF x \in T THEN 1 ELSE 0)
  <2> HIDE DEF S, T, x
  <2> QED
    BY <1>3, BagCount
<1> QED
  BY <1>2, <1>3, <1>4 DEF Counted

\* A record counts once in each table, under the same model and outcome.
LEMMA RecordAgrees ==
    ASSUME Shapes, Agreement, NEW e \in Calls, NEW day \in 0..today, RecordOf(e, day)
    PROVE  Agreement'
<1> DEFINE k == BucketKey(e, day)
           b == Added(BucketOf(k), e)
           bs == WithBucket(k, b)
<1>1. today \in Nat /\ day \in Nat /\ k.day = day /\ FiniteBag(attempts)
  BY DEF Shapes, BucketKey
<1>2. /\ buckets' = Pruned(bs) /\ attempts' = Plus(attempts, AttemptKey(e))
      /\ today' = today
  BY DEF RecordOf, CountAttempt, Plus
<1> HIDE DEF k
<1>3. ASSUME NEW leg, NEW ok \in BOOLEAN
      PROVE  /\ Sound(Pruned(bs))
             /\ Total(Pruned(bs), leg, ok) <= Counted(attempts', leg, ok)
             /\ today <= Retention =>
                   Total(Pruned(bs), leg, ok) = Counted(attempts', leg, ok)
  <2> DEFINE d == IF SameModel(k, leg) /\ (e.error = "none" <=> ok) THEN 1 ELSE 0
  <2>1. Sound(bs) /\ Total(bs, leg, ok) = Total(buckets, leg, ok) + d
    <3> HIDE DEF b
    <3>1. k.day \in Nat /\ b = Added(BucketOf(k), e) /\ Sound(buckets)
      BY <1>1 DEF b, Agreement
    <3> QED
      BY <3>1, WithBucketTotal
  <2>2. Counted(attempts', leg, ok) = Counted(attempts, leg, ok) + d
    BY <1>1, <1>2, CountedGrows DEF k
  <2> HIDE DEF bs, d
  <2>3. /\ Sound(Pruned(bs))
        /\ Total(Pruned(bs), leg, ok) <= Total(bs, leg, ok)
        /\ today <= Retention => Total(Pruned(bs), leg, ok) = Total(bs, leg, ok)
    BY <1>1, <2>1, PrunedTotal
  <2>4. /\ Total(buckets, leg, ok) <= Counted(attempts, leg, ok)
        /\ today <= Retention => Total(buckets, leg, ok) = Counted(attempts, leg, ok)
    BY DEF Agreement
  <2>5. /\ Total(buckets, leg, ok) \in Nat /\ Total(bs, leg, ok) \in Nat
        /\ Total(Pruned(bs), leg, ok) \in Nat
    BY <2>1, <2>3, TotalNat DEF Agreement
  <2>6. Counted(attempts, leg, ok) \in Nat /\ d \in Nat
    BY <1>1, CountedNat DEF d
  <2> QED
    BY <2>1, <2>2, <2>3, <2>4, <2>5, <2>6
<1> HIDE DEF bs
<1> QED
  BY <1>2, <1>3 DEF Agreement

\* Reads prune; midnights only bring the retention nearer.
LEMMA NextAgrees == Shapes /\ Agreement /\ [Next]_vars => Agreement'
<1> SUFFICES ASSUME Shapes, Agreement, [Next]_vars PROVE Agreement'
  OBVIOUS
<1>0. today \in Nat /\ Retention \in Nat
  BY LedgerAssumption DEF Shapes
<1>1. CASE Record
  BY <1>1, RecordIsOf, RecordAgrees
<1>2. CASE UNCHANGED <<buckets, attempts, today>>
  BY <1>2 DEF Agreement
<1>3. CASE Midnight
  <2>1. UNCHANGED <<buckets, attempts>> /\ today' = today + 1
    BY <1>3 DEF Midnight, ledgerVars
  <2> QED
    BY <1>0, <2>1 DEF Agreement
<1>4. CASE Stats
  <2>1. buckets' = Pruned(buckets) /\ UNCHANGED <<attempts, today>>
    BY <1>4 DEF Stats
  <2>2. ASSUME NEW leg, NEW ok \in BOOLEAN
        PROVE  /\ Sound(Pruned(buckets))
               /\ Total(Pruned(buckets), leg, ok) <= Counted(attempts, leg, ok)
               /\ today <= Retention =>
                     Total(Pruned(buckets), leg, ok) = Counted(attempts, leg, ok)
    <3>1. /\ Sound(Pruned(buckets))
          /\ Total(Pruned(buckets), leg, ok) <= Total(buckets, leg, ok)
          /\ today <= Retention =>
                Total(Pruned(buckets), leg, ok) = Total(buckets, leg, ok)
      BY <1>0, PrunedTotal DEF Agreement
    <3>2. /\ Total(buckets, leg, ok) <= Counted(attempts, leg, ok)
          /\ today <= Retention => Total(buckets, leg, ok) = Counted(attempts, leg, ok)
      BY DEF Agreement
    <3>3. /\ Total(buckets, leg, ok) \in Nat /\ Total(Pruned(buckets), leg, ok) \in Nat
      BY <3>1, TotalNat DEF Agreement
    <3>4. Counted(attempts, leg, ok) \in Int
      BY CountedNat DEF Shapes
    <3> QED
      BY <3>1, <3>2, <3>3, <3>4
  <2> QED
    BY <2>1, <2>2 DEF Agreement
<1>5. CASE Metrics
  BY <1>2, <1>5 DEF Metrics, ReadAttempts, ReadFirstOutputs, Respond, ledgerVars
<1> QED
  BY <1>1, <1>2, <1>3, <1>4, <1>5 DEF Next, vars, ledgerVars

\* Nothing is counted at the start.
LEMMA InitAgrees == Init => Agreement
<1> SUFFICES ASSUME Init PROVE Agreement
  OBVIOUS
<1>1. DOMAIN buckets = {} /\ DOMAIN attempts = {}
  BY DEF Init, EmptyBag, SetToBag, NoFunction
<1>2. Sound(buckets)
  BY <1>1, FS_EmptySet DEF Sound
<1>3. ASSUME NEW leg, NEW ok \in BOOLEAN
      PROVE  Total(buckets, leg, ok) = 0 /\ Counted(attempts, leg, ok) = 0
  <2>1. Kept(buckets, leg) = {} /\ Counting(attempts, leg, ok) = {}
    BY <1>1 DEF Kept, Counting
  <2> DEFINE f == [k \in Kept(buckets, leg) |-> Figure(buckets[k], ok)]
  <2>2. Total(buckets, leg, ok) = SumFunctionOnSet(f, Kept(buckets, leg))
    BY DEF Total, SumFunction
  <2> HIDE DEF f
  <2> QED
    BY <2>1, <2>2, OnSetEmpty DEF Counted
<1> QED
  BY <1>2, <1>3 DEF Agreement

\* And so always.
LEMMA SpecAgrees == Spec => []Agreement
  BY SpecShapes, InitAgrees, NextAgrees, PTL DEF Spec

\* This is what the run checks, for the legs of the log.
LEMMA AgreementAgrees == Agreement => StatsAgreeWithAttempts
<1> SUFFICES ASSUME Agreement, NEW leg
             PROVE  LET counted(ok) ==
                            SumFunctionOnSet(attempts,
                                {k \in DOMAIN attempts :
                                    SameModel(k, leg) /\ (k.outcome = "ok" <=> ok)})
                        kept == {k \in DOMAIN buckets : SameModel(k, leg)}
                        failed == SumFunction([k \in kept |-> buckets[k].failures])
                        succeeded == SumFunction([k \in kept |->
                                         buckets[k].requests - buckets[k].failures])
                    IN  /\ failed <= counted(FALSE) /\ succeeded <= counted(TRUE)
                        /\ today <= Retention =>
                              failed = counted(FALSE) /\ succeeded = counted(TRUE)
  BY DEF StatsAgreeWithAttempts
<1>1. \A ok \in BOOLEAN :
         /\ Total(buckets, leg, ok) <= Counted(attempts, leg, ok)
         /\ today <= Retention => Total(buckets, leg, ok) = Counted(attempts, leg, ok)
  BY DEF Agreement
<1>2. /\ Total(buckets, leg, FALSE) =
             SumFunction([k \in Kept(buckets, leg) |-> buckets[k].failures])
      /\ Total(buckets, leg, TRUE) =
             SumFunction([k \in Kept(buckets, leg) |->
                             buckets[k].requests - buckets[k].failures])
  BY DEF Total, Figure
<1> QED
  BY <1>1, <1>2 DEF Kept, Counted, Counting

\* StatsAgreeWithAttempts: Record keeps both tables in step, although one is
\* pruned and keyed by day and the other by outcome, phase and streaming.
THEOREM StatsAgree == Spec => []StatsAgreeWithAttempts
  BY SpecAgrees, AgreementAgrees, PTL

-----------------------------------------------------------------------------
(* Two answers alike.                                                      *)

\* An enumeration takes each element once.
LEMMA SequencesEnumerate ==
    ASSUME NEW D, IsFiniteSet(D), NEW s \in SetToSeqs(D)
    PROVE  /\ Cardinality(D) \in Nat /\ DOMAIN s = 1..Cardinality(D)
           /\ IsFiniteSet(DOMAIN s)
           /\ s \in Bijection(DOMAIN s, D)
           /\ \A i \in DOMAIN s : s[i] \in D
           /\ \A i, j \in DOMAIN s : s[i] = s[j] => i = j
           /\ \A x \in D : \E i \in DOMAIN s : s[i] = x
<1> DEFINE n == Cardinality(D)
<1>1. n \in Nat /\ IsFiniteSet(1..n) /\ Cardinality(1..n) = n
  BY FS_CardinalityType, FS_Interval
<1>2. s \in [1..n -> D] /\ \A i, j \in 1..n : i # j => s[i] # s[j]
  BY DEF SetToSeqs
<1> HIDE DEF n
<1>3. s \in Injection(1..n, D)
  BY <1>2 DEF Injection, IsInjective
<1>4. s \in Surjection(1..n, D)
  BY <1>1, <1>3, FS_Injection DEF n
<1>5. DOMAIN s = 1..n
  BY <1>2
<1>6. s \in Bijection(DOMAIN s, D)
  BY <1>3, <1>4, <1>5 DEF Bijection
<1>7. \A x \in D : \E i \in DOMAIN s : s[i] = x
  BY <1>4, <1>5 DEF Surjection
<1> QED
  BY <1>1, <1>2, <1>5, <1>6, <1>7 DEF n

\* The rank of a bucket tells it from every other.
LEMMA RanksAreTotal ==
    ASSUME NEW a \in Keys, NEW b \in Keys,
           ~ Precedes(BucketRank(a), BucketRank(b)),
           ~ Precedes(BucketRank(b), BucketRank(a))
    PROVE  a = b
<1> DEFINE s == BucketRank(a)
           t == BucketRank(b)
<1>1. /\ DOMAIN s = 1..4 /\ DOMAIN t = 1..4
      /\ s[1] = a.day /\ s[2] = a.alias /\ s[3] = a.provider /\ s[4] = a.model
      /\ t[1] = b.day /\ t[2] = b.alias /\ t[3] = b.provider /\ t[4] = b.model
  BY DEF BucketRank
<1>2. /\ a.day \in Nat /\ a.alias \in Nat /\ a.provider \in Nat /\ a.model \in Nat
      /\ b.day \in Nat /\ b.alias \in Nat /\ b.provider \in Nat /\ b.model \in Nat
  BY DEF Keys
<1> HIDE DEF s, t
<1>3. \A i \in 1..4 : s[i] \in Nat /\ t[i] \in Nat
  BY <1>1, <1>2
<1>4. \A i \in 1..4 : (\A j \in 1..(i - 1) : s[j] = t[j]) => s[i] = t[i]
  <2>1. TAKE i \in 1..4
  <2>2. (\A j \in 1..(i - 1) : s[j] = t[j]) => ~ (s[i] < t[i]) /\ ~ (t[i] < s[i])
    BY <1>1 DEF Precedes, s, t
  <2> QED
    BY <1>3, <2>2
<1>5. s[1] = t[1]
  BY <1>4
<1>6. s[2] = t[2]
  BY <1>4, <1>5
<1>7. s[3] = t[3]
  BY <1>4, <1>5, <1>6
<1>8. s[4] = t[4]
  BY <1>4, <1>5, <1>6, <1>7
<1>9. /\ a.day = b.day /\ a.alias = b.alias /\ a.provider = b.provider
      /\ a.model = b.model
  BY <1>1, <1>5, <1>6, <1>7, <1>8
<1>10. /\ a = [day |-> a.day, alias |-> a.alias, provider |-> a.provider, model |-> a.model]
       /\ b = [day |-> b.day, alias |-> b.alias, provider |-> b.provider, model |-> b.model]
  BY DEF Keys
<1> QED
  BY <1>9, <1>10

\* There is one way to sort buckets.
LEMMA OneOrder ==
    ASSUME NEW D, IsFiniteSet(D), D \subseteq Keys,
           NEW s \in Sorted([k \in D |-> BucketRank(k)]),
           NEW t \in Sorted([k \in D |-> BucketRank(k)])
    PROVE  s = t
<1>1. /\ s \in SetToSeqs(D)
      /\ \A i, j \in DOMAIN s : i < j => ~ Precedes(BucketRank(s[j]), BucketRank(s[i]))
  <2>1. s \in SetToSeqs(D)
    BY DEF Sorted
  <2>2. \A i \in DOMAIN s : s[i] \in D
    BY <2>1, SequencesEnumerate
  <2> QED
    BY <2>1, <2>2 DEF Sorted
<1>2. /\ t \in SetToSeqs(D)
      /\ \A i, j \in DOMAIN t : i < j => ~ Precedes(BucketRank(t[j]), BucketRank(t[i]))
  <2>1. t \in SetToSeqs(D)
    BY DEF Sorted
  <2>2. \A i \in DOMAIN t : t[i] \in D
    BY <2>1, SequencesEnumerate
  <2> QED
    BY <2>1, <2>2 DEF Sorted
<1> DEFINE n == Cardinality(D)
           Differ == {i \in 1..n : s[i] # t[i]}
<1>3. /\ n \in Nat /\ DOMAIN s = 1..n
      /\ \A i \in 1..n : s[i] \in D
      /\ \A i, j \in 1..n : s[i] = s[j] => i = j
      /\ \A x \in D : \E i \in 1..n : s[i] = x
  BY <1>1, SequencesEnumerate
<1>4. /\ DOMAIN t = 1..n
      /\ \A i \in 1..n : t[i] \in D
      /\ \A i, j \in 1..n : t[i] = t[j] => i = j
      /\ \A x \in D : \E i \in 1..n : t[i] = x
  BY <1>2, SequencesEnumerate
<1> HIDE DEF n
<1>5. ASSUME Differ # {} PROVE FALSE
  <2>1. Differ \in SUBSET Nat
    BY <1>3
  <2>2. PICK i \in Differ : \A m \in Differ : i <= m
    <3> HIDE DEF Differ
    <3> QED
      BY <1>5, <2>1, SmallestNat
  <2>3. i \in 1..n /\ s[i] # t[i]
    OBVIOUS
  <2>4. \A j \in 1..n : j < i => s[j] = t[j]
    BY <1>3, <2>2
  <2>5. PICK j \in 1..n : s[j] = t[i]
    BY <1>4, <1>3, <2>3
  <2>6. PICK k \in 1..n : t[k] = s[i]
    BY <1>4, <1>3, <2>3
  <2>7. i < j
    <3>1. ~ (j < i)
      BY <1>4, <2>3, <2>4, <2>5
    <3>2. j # i
      BY <2>3, <2>5
    <3> QED
      BY <1>3, <2>3, <3>1, <3>2
  <2>8. i < k
    <3>1. ~ (k < i)
      BY <1>3, <2>3, <2>4, <2>6
    <3>2. k # i
      BY <2>3, <2>6
    <3> QED
      BY <1>3, <2>3, <3>1, <3>2
  <2>9. ~ Precedes(BucketRank(t[i]), BucketRank(s[i]))
    BY <1>1, <1>3, <2>3, <2>5, <2>7
  <2>10. ~ Precedes(BucketRank(s[i]), BucketRank(t[i]))
    BY <1>2, <1>4, <2>3, <2>6, <2>8
  <2>11. s[i] \in Keys /\ t[i] \in Keys
    BY <1>3, <1>4, <2>3
  <2> QED
    BY <2>3, <2>9, <2>10, <2>11, RanksAreTotal
<1>6. \A i \in 1..n : s[i] = t[i]
  BY <1>5
<1>7. s = [i \in 1..n |-> s[i]] /\ t = [i \in 1..n |-> t[i]]
  BY <1>1, <1>2 DEF SetToSeqs, n
<1> QED
  BY <1>6, <1>7

\* The keys a log retains at a day.
Retained(B, day) == {KeyOf(r) : r \in {q \in DOMAIN B : q.day >= day - Retention}}

\* The last answer lists the sorted keys that its log retained on its day.
StatsSorted ==
    /\ stats = [keys |-> stats.keys, of |-> stats.of]
    /\ stats.keys \in Sorted([k \in Retained(stats.of.log, stats.of.today) |->
                                 BucketRank(k)])

\* The keys of the buckets within the retention are those of the log.
LEMMA BucketsRetained ==
    ASSUME Shapes, BucketsMatchLog
    PROVE  {k \in DOMAIN buckets : k.day >= today - Retention} = Retained(log, today)
<1>1. \A r \in DOMAIN log : KeyOf(r).day = r.day
  BY DEF KeyOf, BucketKey
<1>2. ASSUME NEW k \in DOMAIN buckets PROVE \E r \in DOMAIN log : KeyOf(r) = k
  <2>1. "requests" \in DOMAIN EmptyBucket
    BY DEF EmptyBucket
  <2>2. buckets[k]["requests"] = LoggedUnder(k, "requests")
    BY <2>1 DEF BucketsMatchLog
  <2>3. buckets[k].requests \in Nat /\ buckets[k].requests > 0
    BY DEF Shapes, Figures
  <2>4. Under(k) # {}
    BY <2>2, <2>3, NothingLogged
  <2> QED
    BY <2>4 DEF Under
<1>3. \A r \in DOMAIN log : r.day >= today - Retention => KeyOf(r) \in DOMAIN buckets
  BY DEF BucketsMatchLog
<1> QED
  BY <1>1, <1>2, <1>3 DEF Retained

\* What Stats answers.
LEMMA StatsIs ==
    ASSUME Shapes, BucketsMatchLog, Stats
    PROVE  /\ IsFiniteSet(Retained(log, today)) /\ Retained(log, today) \subseteq Keys
           /\ \E s \in Sorted([k \in Retained(log, today) |-> BucketRank(k)]) :
                 stats' = [keys |-> s, of |-> [log |-> log, today |-> today]]
<1>1. DOMAIN buckets' = {j \in DOMAIN buckets : j.day >= today - Retention}
  BY PrunedBuckets DEF Stats
<1>2. DOMAIN buckets' = Retained(log, today)
  BY <1>1, BucketsRetained
<1>3. IsFiniteSet(DOMAIN buckets') /\ DOMAIN buckets' \subseteq Keys
  BY <1>1, FS_Subset DEF Shapes
<1>4. \E s \in Sorted([k \in DOMAIN buckets' |-> BucketRank(k)]) :
         stats' = [keys |-> s, of |-> [log |-> log, today |-> today]]
  BY DEF Stats
<1> QED
  BY <1>2, <1>3, <1>4

\* An answer is made of what the log retains at that moment.
LEMMA NextStatsSorted ==
    Shapes /\ BucketsMatchLog /\ StatsSorted /\ [Next]_vars => StatsSorted'
<1> SUFFICES ASSUME Shapes, BucketsMatchLog, StatsSorted, [Next]_vars PROVE StatsSorted'
  OBVIOUS
<1>1. CASE Stats
  <2>1. PICK s \in Sorted([k \in Retained(log, today) |-> BucketRank(k)]) :
           stats' = [keys |-> s, of |-> [log |-> log, today |-> today]]
    BY <1>1, StatsIs
  <2>2. stats'.keys = s /\ stats'.of.log = log /\ stats'.of.today = today
    BY <2>1
  <2>3. stats' = [keys |-> stats'.keys, of |-> stats'.of]
    BY <2>1
  <2>4. stats'.keys \in Sorted([k \in Retained(stats'.of.log, stats'.of.today) |->
                                   BucketRank(k)])
    BY <2>1, <2>2
  <2> QED
    BY <2>3, <2>4
       DEF StatsSorted, Sorted, Retained, KeyOf, BucketKey, BucketRank, Precedes
<1>2. CASE UNCHANGED stats
  <2>1. stats' = [keys |-> stats'.keys, of |-> stats'.of]
    BY <1>2 DEF StatsSorted
  <2>2. stats'.keys \in Sorted([k \in Retained(stats'.of.log, stats'.of.today) |->
                                   BucketRank(k)])
    BY <1>2 DEF StatsSorted
  <2> QED
    BY <2>1, <2>2
       DEF StatsSorted, Sorted, Retained, KeyOf, BucketKey, BucketRank, Precedes
<1>3. Stats \/ UNCHANGED stats
  BY DEF Next, vars, Record, Midnight, Metrics, ReadAttempts, ReadFirstOutputs, Respond
<1> QED
  BY <1>1, <1>2, <1>3

\* The first answer is of an empty log.
LEMMA InitStatsSorted == Init => StatsSorted
<1> SUFFICES ASSUME Init PROVE StatsSorted
  OBVIOUS
<1>1. stats = [keys |-> <<>>, of |-> [log |-> EmptyBag, today |-> 0]]
  BY DEF Init
<1>2. DOMAIN EmptyBag = {}
  BY DEF EmptyBag, SetToBag
<1>3. Retained(stats.of.log, stats.of.today) = {}
  BY <1>1, <1>2 DEF Retained
<1> DEFINE rank == [k \in {} |-> BucketRank(k)]
<1>4. <<>> \in Sorted(rank)
  <2>1. Cardinality({}) = 0 /\ 1..0 = {} /\ DOMAIN rank = {}
    BY FS_EmptySet
  <2>2. <<>> \in SetToSeqs({})
    BY <2>1 DEF SetToSeqs
  <2> QED
    BY <2>1, <2>2 DEF Sorted
<1> QED
  BY <1>1, <1>3, <1>4 DEF StatsSorted

\* And so always.
LEMMA SpecStatsSorted == Spec => []StatsSorted
  BY SpecShapes, BucketsHoldTheLog, InitStatsSorted, NextStatsSorted, PTL DEF Spec

\* An answer made of the same log and day is the same.
LEMMA StepRepeats ==
    Shapes /\ BucketsMatchLog /\ StatsSorted /\ [Next]_vars
        => [stats'.of = stats.of => stats' = stats]_vars
<1> SUFFICES ASSUME Shapes, BucketsMatchLog, StatsSorted, [Next]_vars,
                    stats'.of = stats.of
             PROVE  stats' = stats
  OBVIOUS
<1>1. CASE Stats
  <2>1. /\ IsFiniteSet(Retained(log, today)) /\ Retained(log, today) \subseteq Keys
        /\ \E s \in Sorted([k \in Retained(log, today) |-> BucketRank(k)]) :
              stats' = [keys |-> s, of |-> [log |-> log, today |-> today]]
    BY <1>1, StatsIs
  <2>2. PICK s \in Sorted([k \in Retained(log, today) |-> BucketRank(k)]) :
           stats' = [keys |-> s, of |-> [log |-> log, today |-> today]]
    BY <2>1
  <2>3. stats.of = [log |-> log, today |-> today]
    BY <2>2
  <2>4. stats.keys \in Sorted([k \in Retained(log, today) |-> BucketRank(k)])
    BY <2>3 DEF StatsSorted
  <2>5. stats.keys = s
    BY <2>1, <2>2, <2>4, OneOrder
  <2> QED
    BY <2>2, <2>3, <2>5 DEF StatsSorted
<1>2. CASE UNCHANGED stats
  BY <1>2
<1>3. Stats \/ UNCHANGED stats
  BY DEF Next, vars, Record, Midnight, Metrics, ReadAttempts, ReadFirstOutputs, Respond
<1> QED
  BY <1>1, <1>2, <1>3

\* StatsRepeat: although Snapshot ranges over a map and sort.Slice is not stable,
\* its order leaves no choice, so that answers with nothing between them agree.
THEOREM AnswersRepeat == Spec => StatsRepeat
  BY SpecShapes, BucketsHoldTheLog, SpecStatsSorted, StepRepeats, PTL
     DEF Spec, StatsRepeat

-----------------------------------------------------------------------------
(* Two pages.                                                              *)

\* The counters of a leg's successes.
OkKeys(A, leg) == {k \in DOMAIN A : k.outcome = "ok" /\ Leg(k) = leg}

\* What they count.
OkCount(A, leg) == SumFunctionOnSet(A, OkKeys(A, leg))

\* What the rows of a page count of them.
OkRowCount(rows, leg) == SumFunction([j \in OkRows(rows, leg) |-> rows[j].count])

\* Rows that count no more than the counters do.
RowsFit(rows, A) ==
    \A i \in DOMAIN rows :
        /\ rows[i].key \in DOMAIN A
        /\ rows[i].count \in Nat /\ rows[i].count <= A[rows[i].key]

\* Rows that later rows carry on.
RowsFollow(rows, later) ==
    \A i \in DOMAIN rows :
        \E j \in DOMAIN later :
            later[j].key = rows[i].key /\ later[j].count >= rows[i].count

\* Histograms that count no more waits than the counters do successes.
WaitsFit(F, A) ==
    \A leg \in DOMAIN F : F[leg].count \in Nat /\ F[leg].count <= OkCount(A, leg)

\* What the tables, the scrape in progress and the last page owe each other.
Interlock ==
    /\ \A leg : HistogramOf(leg).count <= OkCount(attempts, leg)
    /\ RowsFit(page.rows, attempts) /\ WaitsFit(page.firstOutputs, attempts)
    /\ reader.at \in {2, 3} =>
          /\ RowsFit(reader.rows, attempts) /\ RowsFollow(page.rows, reader.rows)
          /\ \A leg \in DOMAIN page.firstOutputs :
                page.firstOutputs[leg].count <= OkRowCount(reader.rows, leg)
    /\ reader.at = 3 => WaitsFit(reader.firstOutputs, attempts)

\* A success of the leg is counted once, and nothing else is.
LEMMA OkGrows ==
    ASSUME NEW A, FiniteBag(A), NEW e \in Calls, NEW leg
    PROVE  /\ OkCount(A, leg) \in Nat
           /\ OkCount(Plus(A, AttemptKey(e)), leg) =
                  OkCount(A, leg) + (IF e.error = "none" /\ Leg(e) = leg THEN 1 ELSE 0)
<1> DEFINE x == AttemptKey(e)
           C == Plus(A, x)
           S == OkKeys(A, leg)
           T == OkKeys(C, leg)
<1>1. FiniteBag(C) /\ DOMAIN C = DOMAIN A \cup {x}
  <2> HIDE DEF x
  <2> QED
    BY BagGrows
<1>2. (x.outcome = "ok" <=> e.error = "none") /\ Leg(x) = Leg(e)
  <2>1. 0 \in Nat
    OBVIOUS
  <2> QED
    BY <2>1, CallLabels
<1>3. /\ S \subseteq DOMAIN A /\ T \subseteq DOMAIN A \cup {x}
      /\ S \ {x} = T \ {x} /\ (x \in S <=> x \in T /\ x \in DOMAIN A)
      /\ x \in T <=> x.outcome = "ok" /\ Leg(x) = leg
  <2> HIDE DEF x, C
  <2> QED
    BY <1>1 DEF OkKeys
<1>4. SumFunctionOnSet(C, T) = SumFunctionOnSet(A, S) + (IF x \in T THEN 1 ELSE 0)
  <2> HIDE DEF S, T, x
  <2> QED
    BY <1>3, BagCount
<1>5. SumFunctionOnSet(A, S) \in Nat
  <2>1. IsFiniteSet(S) /\ \A y \in S : A[y] \in Nat
    BY <1>3, FS_Subset DEF FiniteBag
  <2> HIDE DEF S
  <2> QED
    BY <2>1, OnSetNat
<1> QED
  BY <1>2, <1>3, <1>4, <1>5 DEF OkCount

\* What fits the counters still does after a record.
LEMMA FitsGrow ==
    ASSUME NEW A, FiniteBag(A), NEW e \in Calls
    PROVE  /\ \A rows : RowsFit(rows, A) => RowsFit(rows, Plus(A, AttemptKey(e)))
           /\ \A F : WaitsFit(F, A) => WaitsFit(F, Plus(A, AttemptKey(e)))
<1> DEFINE x == AttemptKey(e)
           C == Plus(A, x)
<1>1. /\ FiniteBag(C) /\ DOMAIN C = DOMAIN A \cup {x}
      /\ \A y \in DOMAIN A : C[y] >= A[y]
  <2> HIDE DEF x
  <2> QED
    BY BagGrows
<1>2. \A leg : /\ OkCount(A, leg) \in Nat /\ OkCount(C, leg) \in Nat
               /\ OkCount(A, leg) <= OkCount(C, leg)
  <2>1. TAKE leg
  <2>2. /\ OkCount(A, leg) \in Nat
        /\ OkCount(C, leg) =
              OkCount(A, leg) + (IF e.error = "none" /\ Leg(e) = leg THEN 1 ELSE 0)
    BY OkGrows
  <2> QED
    BY <2>2
<1> HIDE DEF C
<1>3. ASSUME NEW rows, RowsFit(rows, A) PROVE RowsFit(rows, C)
  <2>1. \A y \in DOMAIN A : A[y] \in Nat /\ C[y] \in Nat
    BY <1>1 DEF FiniteBag
  <2>2. ASSUME NEW i \in DOMAIN rows
        PROVE  /\ rows[i].key \in DOMAIN C
               /\ rows[i].count \in Nat /\ rows[i].count <= C[rows[i].key]
    <3> DEFINE y == rows[i].key
               n == rows[i].count
    <3>1. y \in DOMAIN A /\ n \in Nat /\ n <= A[y]
      BY <1>3 DEF RowsFit
    <3> HIDE DEF y, n
    <3>2. y \in DOMAIN C /\ n <= C[y]
      BY <1>1, <2>1, <3>1
    <3> QED
      BY <3>1, <3>2 DEF y, n
  <2> QED
    BY <2>2 DEF RowsFit
<1>4. ASSUME NEW F, WaitsFit(F, A) PROVE WaitsFit(F, C)
  <2>1. ASSUME NEW leg \in DOMAIN F
        PROVE  F[leg].count \in Nat /\ F[leg].count <= OkCount(C, leg)
    <3>1. F[leg].count \in Nat /\ F[leg].count <= OkCount(A, leg)
      BY <1>4 DEF WaitsFit
    <3> QED
      BY <1>2, <3>1
  <2> QED
    BY <2>1 DEF WaitsFit
<1> QED
  BY <1>3, <1>4 DEF C

\* The rows of an answer are the counters, in some order.
LEMMA RowsAreAttempts ==
    ASSUME FiniteBag(attempts),
           NEW s \in Sorted([k \in DOMAIN attempts |-> AttemptRank(k)])
    PROVE  /\ RowsFit(RowsOf(s), attempts)
           /\ \A rows : RowsFit(rows, attempts) => RowsFollow(rows, RowsOf(s))
           /\ \A leg : OkRowCount(RowsOf(s), leg) = OkCount(attempts, leg)
<1> DEFINE A == attempts
           rows == RowsOf(s)
<1>1. IsFiniteSet(DOMAIN A) /\ \A k \in DOMAIN A : A[k] \in Nat
  BY DEF FiniteBag
<1>2. s \in SetToSeqs(DOMAIN A)
  BY DEF Sorted
<1>3. /\ IsFiniteSet(DOMAIN s)
      /\ \A i \in DOMAIN s : s[i] \in DOMAIN A
      /\ \A i, j \in DOMAIN s : s[i] = s[j] => i = j
      /\ \A x \in DOMAIN A : \E i \in DOMAIN s : s[i] = x
  BY <1>1, <1>2, SequencesEnumerate
<1>4. /\ DOMAIN rows = DOMAIN s
      /\ \A i \in DOMAIN s : rows[i].key = s[i] /\ rows[i].count = A[s[i]]
  BY DEF RowsOf
<1> HIDE DEF rows
<1>5. RowsFit(rows, A)
  BY <1>1, <1>3, <1>4 DEF RowsFit
<1>6. ASSUME NEW earlier, RowsFit(earlier, A) PROVE RowsFollow(earlier, rows)
  <2>1. ASSUME NEW i \in DOMAIN earlier
        PROVE  \E j \in DOMAIN rows :
                  rows[j].key = earlier[i].key /\ rows[j].count >= earlier[i].count
    <3> DEFINE y == earlier[i].key
               n == earlier[i].count
    <3>1. y \in DOMAIN A /\ n \in Nat /\ n <= A[y]
      BY <1>6 DEF RowsFit
    <3> HIDE DEF y, n
    <3>2. PICK j \in DOMAIN s : s[j] = y
      BY <1>3, <3>1
    <3>3. rows[j].key = y /\ rows[j].count >= n
      BY <1>1, <1>4, <3>1, <3>2
    <3> QED
      BY <1>4, <3>3 DEF y, n
  <2> QED
    BY <2>1 DEF RowsFollow
<1>7. ASSUME NEW leg PROVE OkRowCount(rows, leg) = OkCount(A, leg)
  <2> DEFINE I == OkRows(rows, leg)
             D == OkKeys(A, leg)
             t == [i \in I |-> s[i]]
             f == [j \in I |-> rows[j].count]
  <2>1. I = {i \in DOMAIN s : s[i].outcome = "ok" /\ Leg(s[i]) = leg}
    BY <1>4 DEF OkRows
  <2>2. I \subseteq DOMAIN s /\ IsFiniteSet(I) /\ D \subseteq DOMAIN A
    BY <1>3, <2>1, FS_Subset DEF OkKeys
  <2>3. t \in [I -> D]
    BY <1>3, <2>1 DEF OkKeys
  <2>4. t \in Injection(I, D)
    BY <1>3, <2>2, <2>3 DEF Injection, IsInjective
  <2>5. t \in Surjection(I, D)
    BY <1>3, <2>1, <2>3 DEF Surjection, OkKeys
  <2>6. t \in Bijection(I, D)
    BY <2>4, <2>5 DEF Bijection
  <2>7. \A i \in I : f[i] = A[t[i]]
    BY <1>4, <2>2
  <2>8. OkRowCount(rows, leg) = SumFunctionOnSet(f, I)
    BY DEF OkRowCount, SumFunction
  <2>9. \A x \in D : A[x] \in Int
    BY <1>1, <2>2
  <2> HIDE DEF t, f, I, D
  <2>10. SumFunctionOnSet(f, I) = SumFunctionOnSet(A, D)
    BY <2>2, <2>6, <2>7, <2>9, OnSetReindex
  <2> QED
    BY <2>8, <2>10 DEF OkCount, D
<1> QED
  BY <1>5, <1>6, <1>7 DEF rows

\* A record adds a wait only with a success of the same leg.
LEMMA RecordInterlocks ==
    ASSUME Shapes, Interlock, NEW e \in Calls, NEW day \in 0..today, RecordOf(e, day)
    PROVE  Interlock'
<1>1. /\ attempts' = Plus(attempts, AttemptKey(e)) /\ FiniteBag(attempts)
      /\ UNCHANGED <<reader, page>> /\ CountAttempt(e)
  BY DEF RecordOf, CountAttempt, Plus, Shapes
<1>2. /\ \A rows : RowsFit(rows, attempts) => RowsFit(rows, attempts')
      /\ \A F : WaitsFit(F, attempts) => WaitsFit(F, attempts')
  BY <1>1, FitsGrow
<1>3. /\ Measured(e) <=> e.error = "none" /\ e.wait > 0
      /\ Measured(e) =>
            /\ DOMAIN firstOutput' = DOMAIN firstOutput \cup {Leg(e)}
            /\ firstOutput'[Leg(e)] = Waited(HistogramOf(Leg(e)), e.wait)
            /\ \A leg \in DOMAIN firstOutput \ {Leg(e)} :
                  firstOutput'[leg] = firstOutput[leg]
      /\ ~Measured(e) => firstOutput' = firstOutput
  BY <1>1, RecordHistograms
<1>4. ASSUME NEW leg
      PROVE  (IF leg \in DOMAIN firstOutput'
              THEN firstOutput'[leg] ELSE EmptyHistogram).count
                <= OkCount(attempts', leg)
  <2> DEFINE h == HistogramOf(leg)
             g == IF leg \in DOMAIN firstOutput' THEN firstOutput'[leg] ELSE EmptyHistogram
  <2>1. h \in HistogramType /\ h.count <= OkCount(attempts, leg)
    BY HistogramOfType DEF Interlock
  <2>2. h.count \in Nat
    BY <2>1 DEF HistogramType
  <2>3. /\ OkCount(attempts, leg) \in Nat
        /\ OkCount(attempts', leg) = OkCount(attempts, leg) +
              (IF e.error = "none" /\ Leg(e) = leg THEN 1 ELSE 0)
    BY <1>1, OkGrows
  <2>4. CASE Measured(e) /\ leg = Leg(e)
    <3>1. g = Waited(h, e.wait)
      BY <1>3, <2>4
    <3>2. g.count = h.count + 1
      BY <3>1 DEF Waited
    <3>3. e.error = "none" /\ Leg(e) = leg
      BY <1>3, <2>4
    <3> HIDE DEF g, h
    <3>4. g.count <= OkCount(attempts', leg)
      BY <2>1, <2>2, <2>3, <3>2, <3>3
    <3> QED
      BY <3>4 DEF g
  <2>5. CASE ~ (Measured(e) /\ leg = Leg(e))
    <3>1. g = h
      BY <1>3, <2>5 DEF HistogramOf
    <3> HIDE DEF g, h
    <3>2. g.count <= OkCount(attempts', leg)
      BY <2>1, <2>2, <2>3, <3>1
    <3> QED
      BY <3>2 DEF g
  <2> QED
    BY <2>4, <2>5
<1>5. \A leg : HistogramOf(leg)'.count <= OkCount(attempts', leg)
  BY <1>4 DEF HistogramOf, EmptyHistogram
<1> QED
  BY <1>1, <1>2, <1>5 DEF Interlock

\* Each step of a scrape reads what bounds the next.
LEMMA NextInterlock == Shapes /\ Interlock /\ [Next]_vars => Interlock'
<1> SUFFICES ASSUME Shapes, Interlock, [Next]_vars PROVE Interlock'
  OBVIOUS
<1>1. CASE Record
  BY <1>1, RecordIsOf, RecordInterlocks
<1>2. CASE UNCHANGED <<attempts, firstOutput, reader, page>>
  BY <1>2 DEF Interlock, HistogramOf
<1>3. CASE ReadAttempts
  <2>1. PICK s \in Sorted([k \in DOMAIN attempts |-> AttemptRank(k)]) :
           reader' = [at |-> 2, rows |-> RowsOf(s), seen |-> log,
                      firstOutputs |-> reader.firstOutputs]
    BY <1>3, ReadAttemptsIs
  <2>2. UNCHANGED <<attempts, firstOutput, page>>
    BY <1>3 DEF ReadAttempts, ledgerVars
  <2>3. /\ RowsFit(RowsOf(s), attempts)
        /\ \A rows : RowsFit(rows, attempts) => RowsFollow(rows, RowsOf(s))
        /\ \A leg : OkRowCount(RowsOf(s), leg) = OkCount(attempts, leg)
    BY RowsAreAttempts DEF Shapes
  <2>4. reader'.at = 2 /\ reader'.rows = RowsOf(s)
    BY <2>1
  <2>5. RowsFollow(page.rows, RowsOf(s))
    BY <2>3 DEF Interlock
  <2>6. \A leg \in DOMAIN page.firstOutputs :
           page.firstOutputs[leg].count <= OkRowCount(RowsOf(s), leg)
    BY <2>3 DEF Interlock, WaitsFit
  <2>7. \A leg : HistogramOf(leg)' = HistogramOf(leg)
    BY <2>2 DEF HistogramOf
  <2> HIDE DEF RowsOf
  <2> QED
    BY <2>2, <2>3, <2>4, <2>5, <2>6, <2>7 DEF Interlock
<1>4. CASE ReadFirstOutputs
  <2> DEFINE F == [leg \in DOMAIN firstOutput |-> Cumulative(firstOutput[leg])]
  <2>1. /\ reader.at = 2
        /\ reader' = [at |-> 3, rows |-> reader.rows, seen |-> reader.seen,
                      firstOutputs |-> F]
        /\ UNCHANGED <<attempts, firstOutput, page>>
    BY <1>4, ReadFirstOutputsIs DEF ledgerVars
  <2>2. WaitsFit(F, attempts)
    <3>1. ASSUME NEW leg \in DOMAIN firstOutput
          PROVE  F[leg].count \in Nat /\ F[leg].count <= OkCount(attempts, leg)
      <4>1. firstOutput[leg] \in HistogramType /\ HistogramOf(leg) = firstOutput[leg]
        BY DEF Shapes, HistogramOf
      <4>2. F[leg].count = firstOutput[leg].count
        BY <4>1, CumulativeIs
      <4>3. firstOutput[leg].count \in Nat
        BY <4>1 DEF HistogramType
      <4>4. HistogramOf(leg).count <= OkCount(attempts, leg)
        BY DEF Interlock
      <4> QED
        BY <4>1, <4>2, <4>3, <4>4
    <3> QED
      BY <3>1 DEF WaitsFit
  <2> HIDE DEF F
  <2>3. reader'.at = 3 /\ reader'.rows = reader.rows /\ reader'.firstOutputs = F
    BY <2>1
  <2>4. \A leg : HistogramOf(leg)' = HistogramOf(leg)
    BY <2>1 DEF HistogramOf
  <2> QED
    BY <2>1, <2>2, <2>3, <2>4 DEF Interlock
<1>5. CASE Respond
  <2>1. /\ reader.at = 3 /\ reader'.at = 1
        /\ page'.rows = reader.rows /\ page'.firstOutputs = reader.firstOutputs
        /\ UNCHANGED <<attempts, firstOutput>>
    BY <1>5, RespondIs DEF ledgerVars
  <2>2. \A leg : HistogramOf(leg)' = HistogramOf(leg)
    BY <2>1 DEF HistogramOf
  <2> QED
    BY <2>1, <2>2 DEF Interlock
<1>6. CASE Midnight \/ Stats \/ UNCHANGED vars
  BY <1>2, <1>6 DEF Midnight, Stats, vars, ledgerVars
<1> QED
  BY <1>1, <1>3, <1>4, <1>5, <1>6 DEF Next, Metrics

\* There is no page at the start.
LEMMA InitInterlock == Init => Interlock
<1> SUFFICES ASSUME Init PROVE Interlock
  OBVIOUS
<1>1. /\ reader.at = 1 /\ DOMAIN page.rows = {} /\ DOMAIN page.firstOutputs = {}
      /\ DOMAIN firstOutput = {} /\ DOMAIN attempts = {}
  BY DEF Init, EmptyBag, SetToBag, NoFunction
<1>2. ASSUME NEW leg PROVE HistogramOf(leg).count <= OkCount(attempts, leg)
  <2>1. HistogramOf(leg).count = 0
    BY <1>1 DEF HistogramOf, EmptyHistogram
  <2>2. OkKeys(attempts, leg) = {}
    BY <1>1 DEF OkKeys
  <2>3. OkCount(attempts, leg) = 0
    BY <2>2, OnSetEmpty DEF OkCount
  <2> QED
    BY <2>1, <2>3
<1> QED
  BY <1>1, <1>2 DEF Interlock, RowsFit, WaitsFit

\* And so always.
LEMMA SpecInterlock == Spec => []Interlock
  BY SpecShapes, InitInterlock, NextInterlock, PTL DEF Spec

\* What a page owes the page before it.
PagesStep ==
    /\ RowsFollow(page.rows, page'.rows)
    /\ page' # page =>
          \A leg \in DOMAIN page.firstOutputs :
              page.firstOutputs[leg].count <= OkRowCount(page'.rows, leg)

\* A response keeps it, and no other step makes a page.
LEMMA StepInterlocks == Shapes /\ Interlock /\ [Next]_vars => [PagesStep]_vars
<1> SUFFICES ASSUME Shapes, Interlock, [Next]_vars PROVE PagesStep
  OBVIOUS
<1>1. CASE Respond
  <2>1. reader.at = 3 /\ page'.rows = reader.rows
    BY <1>1, RespondIs
  <2> QED
    BY <2>1 DEF Interlock, PagesStep
<1>2. CASE UNCHANGED page
  <2>1. \A i \in DOMAIN page.rows : page.rows[i].count \in Nat
    BY DEF Interlock, RowsFit
  <2>2. RowsFollow(page.rows, page.rows)
    BY <2>1 DEF RowsFollow
  <2> QED
    BY <1>2, <2>2 DEF PagesStep
<1>3. Respond \/ UNCHANGED page
  BY DEF Next, vars, Record, Midnight, Stats, Metrics, ReadAttempts, ReadFirstOutputs
<1> QED
  BY <1>1, <1>2, <1>3

\* PagesInterlock: the counters of writeMetrics never fall from one page to the
\* next, and the histograms of a page, read after its counters, run ahead by no
\* more than the counters of the next page show.
THEOREM PagesInterlocked == Spec => PagesInterlock
<1>1. [PagesStep]_vars =>
         [/\ \A i \in DOMAIN page.rows :
                \E j \in DOMAIN page'.rows :
                   /\ page'.rows[j].key = page.rows[i].key
                   /\ page'.rows[j].count >= page.rows[i].count
          /\ page' # page =>
                \A leg \in DOMAIN page.firstOutputs :
                   page.firstOutputs[leg].count <=
                      SumFunction([j \in OkRows(page'.rows, leg) |->
                                      page'.rows[j].count])]_vars
  BY DEF PagesStep, RowsFollow, OkRowCount
<1> QED
  BY <1>1, SpecShapes, SpecInterlock, StepInterlocks, PTL DEF Spec, PagesInterlock
=============================================================================
