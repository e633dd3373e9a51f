---------------------------- MODULE ExporterProofs ----------------------------
(***************************************************************************)
(* For any number of series, observations, deploys and crashes: the values *)
(* the exporter hands out never count an observation twice, and what       *)
(* Prometheus reads implements LifetimeCounter.                            *)
(***************************************************************************)
EXTENDS Exporter, TLAPS

\* What earlier incarnations of the server counted.
Retired(s) == count[s] - raw[s]

\* A baseline and a last value that cannot overcount: either both are of
\* earlier incarnations, or the last value is of this one.
Sound(s, b, l) ==
    b + l <= Retired(s) \/ (b <= Retired(s) /\ l <= raw[s])

\* A body in flight is of this incarnation, and so no less than a last value
\* of this incarnation; or of an earlier one, and then what it will be turned
\* into counts nothing of this one.
SoundBody(s) ==
    LET v == body.value[s] IN
    \/ /\ v <= raw[s]
       /\ \/ base[s] + last[s] <= Retired(s)
          \/ base[s] <= Retired(s) /\ last[s] <= v
    \/ Folded(s) + v <= Retired(s)

\* Where the state is that the next payload starts from.
CurBase(s) == IF poll = "down" THEN disk.base[s] ELSE base[s]
CurLast(s) == IF poll = "down" THEN disk.last[s] ELSE last[s]

\* The state of one series.
SoundSeries(s) ==
    /\ raw[s] <= count[s]
    /\ poll # "down" => Sound(s, base[s], last[s])
    /\ Sound(s, disk.base[s], disk.last[s])
    /\ poll = "fetched" => SoundBody(s)
    /\ s \in payload.lines =>
         poll # "down" /\ payload.value[s] = base[s] + last[s]
    /\ shown[s] <= count[s]
    /\ kept[s] => shown[s] <= CurBase(s) + CurLast(s)

IInv == TypeOK /\ \A s \in Series : SoundSeries(s)

\* Whatever is kept or read of a series is a natural.
LEMMA ValuesAreNat ==
    ASSUME TypeOK, NEW s \in Series
    PROVE  /\ raw[s] \in Nat /\ count[s] \in Nat /\ body.value[s] \in Nat
           /\ base[s] \in Nat /\ last[s] \in Nat /\ shown[s] \in Nat
           /\ disk.base[s] \in Nat /\ disk.last[s] \in Nat
           /\ payload.value[s] \in Nat
  BY DEF TypeOK, Values, Bodies, States

\* Before the exporter has started.
LEMMA InitIInv == Init => IInv
<1> SUFFICES ASSUME Init PROVE IInv
  OBVIOUS
<1>1. TypeOK
  BY DEF Init, TypeOK, Values, Bodies, States, Zero, NoLines
<1>2. ASSUME NEW s \in Series PROVE SoundSeries(s)
  BY DEF Init, SoundSeries, Sound, Retired, CurBase, CurLast, Zero
<1> QED
  BY <1>1, <1>2 DEF IInv

\* The server counts: what was read before is bounded all the more.
LEMMA ObserveStep ==
    ASSUME IInv, NEW o \in Observations, Observe(o)
    PROVE  IInv' /\ Lifetime!Grow
<1> USE DEF memoryVars
<1>1. raw' \in Values /\ count' \in Values
  BY DEF IInv, TypeOK, Values, Observe
<1>2. TypeOK'
  BY <1>1 DEF IInv, TypeOK, Observe
<1>3. ASSUME NEW s \in Series PROVE SoundSeries(s)'
  <2>1. \/ raw'[s] = raw[s] /\ count'[s] = count[s]
        \/ raw'[s] = raw[s] + 1 /\ count'[s] = count[s] + 1
    <3>1. CASE s \in Feeds[o]
      BY <3>1 DEF Observe
    <3>2. CASE s \notin Feeds[o]
      BY <3>2 DEF Observe
    <3> QED
      BY <3>1, <3>2
  <2>2. SoundSeries(s)
    BY DEF IInv
  <2>3. UNCHANGED <<poll, body, base, last, disk, payload, shown, kept>>
    BY DEF Observe
  <2>4. Retired(s)' = Retired(s) /\ raw'[s] >= raw[s] /\ count'[s] >= count[s]
        /\ raw'[s] <= count'[s]
    BY <2>1, <2>2, ValuesAreNat DEF IInv, Retired, SoundSeries
  <2>5. Retired(s) \in Int /\ raw'[s] \in Nat /\ count'[s] \in Nat
    BY <1>1, ValuesAreNat DEF IInv, Retired, Values
  <2> HIDE DEF Retired
  <2>6. Folded(s)' = Folded(s) /\ CurBase(s)' = CurBase(s) /\ CurLast(s)' = CurLast(s)
    BY <2>3 DEF Folded, CurBase, CurLast
  <2> QED
    BY <2>2, <2>3, <2>4, <2>5, <2>6, ValuesAreNat
       DEF IInv, SoundSeries, Sound, SoundBody
<1>4. Lifetime!Grow
  BY <1>1, ValuesAreNat DEF Observe, Lifetime!Grow, Values, IInv
<1> QED
  BY <1>2, <1>3, <1>4 DEF IInv

\* A deploy retires what the server had counted.
LEMMA DeployStep ==
    ASSUME IInv, Deploy
    PROVE  IInv'
<1> USE DEF memoryVars
<1>1. TypeOK'
  BY DEF IInv, TypeOK, Values, Zero, Deploy
<1>2. ASSUME NEW s \in Series PROVE SoundSeries(s)'
  <2>1. UNCHANGED <<count, poll, body, base, last, disk, payload, shown, kept>>
    BY DEF Deploy
  <2>2. raw'[s] = 0
    BY DEF Deploy, Zero
  <2>3. SoundSeries(s)
    BY DEF IInv
  <2>4. Retired(s)' = Retired(s) + raw[s]
    BY <2>1, <2>2, ValuesAreNat DEF IInv, Retired
  <2>5. Retired(s) \in Nat
    BY <2>3, ValuesAreNat DEF IInv, Retired, SoundSeries
  <2> HIDE DEF Retired
  <2>6. Sound(s, base[s], last[s]) => Sound(s, base[s], last[s])'
    BY <2>1, <2>2, <2>4, <2>5, ValuesAreNat DEF IInv, Sound
  <2>7. Sound(s, disk.base[s], disk.last[s]) => Sound(s, disk.base[s], disk.last[s])'
    BY <2>1, <2>2, <2>4, <2>5, ValuesAreNat DEF IInv, Sound
  <2>8. SoundBody(s) => SoundBody(s)'
    BY <2>1, <2>2, <2>4, <2>5, ValuesAreNat DEF IInv, SoundBody, Folded
  <2> QED
    BY <2>1, <2>2, <2>3, <2>6, <2>7, <2>8, ValuesAreNat
       DEF IInv, SoundSeries, CurBase, CurLast
<1> QED
  BY <1>1, <1>2 DEF IInv

\* fetch takes the counters of the running server.
LEMMA FetchStep ==
    ASSUME IInv, Fetch
    PROVE  IInv'
<1> USE DEF memoryVars, serverVars
<1>1. Exposed \subseteq Series
  BY FeedsAssumption DEF Exposed
<1>2. body' \in Bodies
  BY <1>1 DEF IInv, TypeOK, Bodies, Fetch
<1>3. TypeOK'
  BY <1>2 DEF IInv, TypeOK, Fetch
<1>4. ASSUME NEW s \in Series PROVE SoundSeries(s)'
  <2>1. SoundSeries(s)
    BY DEF IInv
  <2>2. body'.value[s] = raw[s]
    BY DEF Fetch
  <2>3. poll = "idle" /\ poll' = "fetched"
    BY DEF Fetch
  <2>4. UNCHANGED <<raw, count, base, last, disk, payload, shown, kept>>
    BY DEF Fetch
  <2>5. SoundBody(s)'
    BY <2>1, <2>2, <2>3, <2>4, ValuesAreNat
       DEF IInv, SoundSeries, Sound, SoundBody, Retired
  <2> QED
    BY <2>1, <2>3, <2>4, <2>5 DEF SoundSeries, Sound, Retired, CurBase, CurLast
<1> QED
  BY <1>3, <1>4 DEF IInv

\* transform folds at most what was retired, and save_state writes that or
\* nothing.
LEMMA AbsorbStep ==
    ASSUME IInv, Absorb
    PROVE  IInv'
<1> USE DEF memoryVars, serverVars
<1>1. NewBase \in Values /\ NewLast \in Values
  BY ValuesAreNat DEF IInv, Values, NewBase, NewLast, Folded
<1>2. TypeOK'
  <2>1. payload' \in [lines : SUBSET Series, value : Values, ok : BOOLEAN]
    <3>1. [s \in Series |-> NewBase[s] + NewLast[s]] \in Values
      BY <1>1 DEF Values
    <3>2. body.lines \in SUBSET Series
      BY DEF IInv, TypeOK, Bodies
    <3> HIDE DEF NewBase, NewLast
    <3> QED
      BY <3>1, <3>2 DEF Absorb
  <2>2. disk' \in States
    <3>1. [base |-> NewBase, last |-> NewLast] \in States
      BY <1>1 DEF States
    <3> QED
      BY <3>1 DEF IInv, TypeOK, Absorb
  <2>3. body' \in Bodies
    BY DEF Absorb, NoLines, Zero, Bodies, Values
  <2> QED
    BY <1>1, <2>1, <2>2, <2>3 DEF IInv, TypeOK, Absorb
<1>3. ASSUME NEW s \in Series PROVE SoundSeries(s)'
  <2>1. SoundSeries(s)
    BY DEF IInv
  <2>2. poll = "fetched" /\ poll' = "idle"
    BY DEF Absorb
  <2>3. UNCHANGED <<raw, count, shown, kept>>
    BY DEF Absorb
  <2>4. /\ base'[s] = IF s \in body.lines THEN Folded(s) ELSE base[s]
        /\ last'[s] = IF s \in body.lines THEN body.value[s] ELSE last[s]
    BY DEF Absorb, NewBase, NewLast
  <2>5. Sound(s, base'[s], last'[s])
    BY <2>1, <2>2, <2>4, ValuesAreNat
       DEF IInv, SoundSeries, Sound, SoundBody, Folded, Retired
  <2>6. base'[s] + last'[s] >= base[s] + last[s]
    BY <2>4, ValuesAreNat DEF IInv, Folded
  <2>7. disk' = disk \/ (disk'.base[s] = base'[s] /\ disk'.last[s] = last'[s])
    BY DEF Absorb
  <2>8. s \in payload'.lines => payload'.value[s] = base'[s] + last'[s]
    BY DEF Absorb
  <2>9. Sound(s, disk'.base[s], disk'.last[s])
    BY <2>1, <2>5, <2>7 DEF SoundSeries
  <2>10. base'[s] \in Nat /\ last'[s] \in Nat
    BY <1>2, ValuesAreNat, <1>1 DEF Absorb, Values
  <2>11. kept[s] => shown[s] <= base'[s] + last'[s]
    BY <2>1, <2>2, <2>6, <2>10, ValuesAreNat DEF IInv, SoundSeries, CurBase, CurLast
  <2> QED
    BY <2>1, <2>2, <2>3, <2>5, <2>8, <2>9, <2>11
       DEF SoundSeries, Sound, Retired, CurBase, CurLast
<1> QED
  BY <1>2, <1>3 DEF IInv

\* A failed scrape serves no counter.
LEMMA ScrapeFailsStep ==
    ASSUME IInv, ScrapeFails
    PROVE  IInv'
<1> USE DEF memoryVars, serverVars
<1>1. TypeOK'
  BY DEF IInv, TypeOK, Values, Zero, ScrapeFails
<1>2. payload'.lines = {}
  BY DEF ScrapeFails
<1>3. ASSUME NEW s \in Series PROVE SoundSeries(s)'
  BY <1>2 DEF IInv, SoundSeries, Sound, SoundBody, Folded, Retired, CurBase,
              CurLast, ScrapeFails
<1> QED
  BY <1>1, <1>3 DEF IInv

\* A stop forgets the memory and keeps the file.
LEMMA CrashStep ==
    ASSUME IInv, Crash
    PROVE  IInv' /\ Lifetime!Lose
<1> USE DEF memoryVars, serverVars
<1>1. kept' \in [Series -> BOOLEAN]
  BY DEF Crash
<1>2. TypeOK'
  BY <1>1 DEF IInv, TypeOK, Values, Zero, NoLines, Bodies, Crash
<1>3. ASSUME NEW s \in Series PROVE SoundSeries(s)'
  <2>1. SoundSeries(s)
    BY DEF IInv
  <2>2. poll # "down" /\ poll' = "down" /\ payload'.lines = {}
    BY DEF Crash
  <2>3. UNCHANGED <<raw, count, disk, shown>>
    BY DEF Crash
  <2>4. kept'[s] => kept[s] /\ disk.base[s] = base[s] /\ disk.last[s] = last[s]
    BY DEF Crash
  <2> QED
    BY <2>1, <2>2, <2>3, <2>4
       DEF SoundSeries, Sound, Retired, CurBase, CurLast
<1>4. Lifetime!Lose
  BY <1>1 DEF Crash, Lifetime!Lose
<1> QED
  BY <1>2, <1>3, <1>4 DEF IInv

\* main continues from the file.
LEMMA StartStep ==
    ASSUME IInv, Start
    PROVE  IInv'
<1> USE DEF memoryVars, serverVars
<1>1. TypeOK'
  BY DEF IInv, TypeOK, States, Start
<1>2. ASSUME NEW s \in Series PROVE SoundSeries(s)'
  BY DEF IInv, SoundSeries, Sound, Retired, CurBase, CurLast, Start
<1> QED
  BY <1>1, <1>2 DEF IInv

\* load_state skips entries, which only lowers what is continued from.
LEMMA LoseStateStep ==
    ASSUME IInv, LoseState
    PROVE  IInv' /\ (Lifetime!Lose \/ UNCHANGED Lifetime!LCvars)
<1> USE DEF memoryVars, serverVars
<1>1. PICK b, l \in SUBSET Series :
        disk' = [base |-> [s \in Series |-> IF s \in b THEN 0 ELSE disk.base[s]],
                 last |-> [s \in Series |-> IF s \in l THEN 0 ELSE disk.last[s]]]
  BY DEF LoseState
<1>2. UNCHANGED <<raw, count, deploys, poll, body, base, last, payload, shown>>
  BY DEF LoseState
<1>3. IF poll = "down"
      THEN kept' = [s \in Series |-> kept[s] /\ disk'.base[s] = disk.base[s]
                                             /\ disk'.last[s] = disk.last[s]]
      ELSE kept' = kept
  BY DEF LoseState
<1>4. disk' \in States
  BY <1>1, ValuesAreNat DEF IInv, States, Values
<1>5. kept' \in [Series -> BOOLEAN]
  BY <1>3 DEF IInv, TypeOK
<1>6. TypeOK'
  BY <1>2, <1>4, <1>5 DEF IInv, TypeOK
<1>7. ASSUME NEW s \in Series PROVE SoundSeries(s)'
  <2>1. SoundSeries(s)
    BY DEF IInv
  <2>2. /\ disk'.base[s] \in {0, disk.base[s]}
        /\ disk'.last[s] \in {0, disk.last[s]}
    BY <1>1
  <2>3. Sound(s, disk'.base[s], disk'.last[s])
    BY <2>1, <2>2, ValuesAreNat DEF IInv, SoundSeries, Sound, Retired
  <2>4. kept'[s] => kept[s] /\ (poll = "down" => disk'.base[s] = disk.base[s]
                                                /\ disk'.last[s] = disk.last[s])
    BY <1>3
  <2> QED
    BY <1>2, <2>1, <2>3, <2>4
       DEF SoundSeries, Sound, SoundBody, Folded, Retired, CurBase, CurLast
<1>8. Lifetime!Lose \/ UNCHANGED Lifetime!LCvars
  BY <1>2, <1>3, <1>5 DEF Lifetime!Lose, Lifetime!LCvars
<1> QED
  BY <1>6, <1>7, <1>8 DEF IInv

\* do_GET shows a value that LifetimeCounter allows.
LEMMA ServeStep ==
    ASSUME IInv, Serve
    PROVE  IInv' /\ Lifetime!Show
<1> USE DEF memoryVars, serverVars
<1>1. shown' \in Values /\ kept' \in [Series -> BOOLEAN]
  BY ValuesAreNat DEF IInv, Values, Serve
<1>2. TypeOK'
  BY <1>1 DEF IInv, TypeOK, Serve
<1>3. UNCHANGED <<raw, count, poll, body, base, last, disk, payload>>
  BY DEF Serve
<1>4. ASSUME NEW s \in Series
      PROVE  /\ SoundSeries(s)'
             /\ \/ shown'[s] = shown[s] /\ kept'[s] = kept[s]
                \/ /\ shown'[s] <= count[s]
                   /\ kept[s] => shown'[s] >= shown[s]
                   /\ kept'[s]
  <2>1. SoundSeries(s)
    BY DEF IInv
  <2>2. CASE s \in payload.lines
    <3>1. shown'[s] = base[s] + last[s] /\ kept'[s] /\ poll # "down"
      BY <2>1, <2>2 DEF Serve, SoundSeries
    <3>2. shown'[s] <= count[s]
      BY <2>1, <3>1, ValuesAreNat DEF IInv, SoundSeries, Sound, Retired
    <3>3. kept[s] => shown'[s] >= shown[s]
      BY <2>1, <3>1, ValuesAreNat DEF IInv, SoundSeries, CurBase, CurLast
    <3>4. shown'[s] <= CurBase(s)' + CurLast(s)'
      BY <1>1, <1>3, <3>1 DEF CurBase, CurLast, Values
    <3> QED
      BY <1>3, <2>1, <3>1, <3>2, <3>3, <3>4
         DEF SoundSeries, Sound, SoundBody, Folded, Retired
  <2>3. CASE s \notin payload.lines
    <3>1. shown'[s] = shown[s] /\ kept'[s] = kept[s]
      BY <2>3 DEF IInv, TypeOK, Serve
    <3> QED
      BY <1>3, <2>1, <3>1
         DEF SoundSeries, Sound, SoundBody, Folded, Retired, CurBase, CurLast
  <2> QED
    BY <2>2, <2>3
<1>5. Lifetime!Show
  BY <1>1, <1>3, <1>4 DEF Lifetime!Show, Values
<1> QED
  BY <1>2, <1>4, <1>5 DEF IInv

\* Every step keeps the invariant and is a step of LifetimeCounter or a
\* stutter.
LEMMA NextIInv ==
    ASSUME IInv, [Next]_vars
    PROVE  IInv' /\ [Lifetime!LCNext]_(Lifetime!LCvars)
<1> USE DEF memoryVars, serverVars, Lifetime!LCNext, Lifetime!LCvars
<1>1. CASE \E o \in Observations : Observe(o)
  BY <1>1, ObserveStep
<1>2. CASE Deploy
  BY <1>2, DeployStep DEF Deploy
<1>3. CASE Fetch
  BY <1>3, FetchStep DEF Fetch
<1>4. CASE Absorb
  BY <1>4, AbsorbStep DEF Absorb
<1>5. CASE ScrapeFails
  BY <1>5, ScrapeFailsStep DEF ScrapeFails
<1>6. CASE Crash
  BY <1>6, CrashStep
<1>7. CASE Start
  BY <1>7, StartStep DEF Start
<1>8. CASE LoseState
  BY <1>8, LoseStateStep
<1>9. CASE Serve
  BY <1>9, ServeStep
<1>10. CASE UNCHANGED vars
  BY <1>10 DEF vars, IInv, TypeOK, SoundSeries, Sound, SoundBody, Folded,
               Retired, CurBase, CurLast
<1> QED
  BY <1>1, <1>2, <1>3, <1>4, <1>5, <1>6, <1>7, <1>8, <1>9, <1>10 DEF Next

\* The inductive invariant of the exporter.
THEOREM SpecIInv == Spec => []IInv
<1>1. IInv /\ [Next]_vars => IInv'
  BY NextIInv
<1> QED
  BY <1>1, InitIInv, PTL DEF Spec

\* The variables keep their types.
THEOREM TypeCorrect == Spec => []TypeOK
<1>1. IInv => TypeOK
  BY DEF IInv
<1> QED
  BY <1>1, SpecIInv, PTL

\* No payload ever counts an observation twice, whatever the order of deploys,
\* crashes, failed saves and lost files.
THEOREM PayloadsNeverOvercount == Spec => []NeverOvercounts
<1>1. ASSUME IInv PROVE NeverOvercounts
  <2> SUFFICES ASSUME NEW s \in payload.lines
               PROVE  payload.value[s] <= count[s]
    BY DEF NeverOvercounts
  <2>1. s \in Series
    BY <1>1 DEF IInv, TypeOK
  <2> QED
    BY <1>1, <2>1, ValuesAreNat DEF IInv, SoundSeries, Sound, Retired
<1> QED
  BY <1>1, SpecIInv, PTL

\* What Prometheus reads of each series is a lifetime counter.
THEOREM ImplementsLifetimeCounters == Spec => LifetimeCounters
<1>1. Init => Lifetime!LCInit
  BY DEF Init, Zero, Lifetime!LCInit
<1>2. IInv /\ [Next]_vars => [Lifetime!LCNext]_(Lifetime!LCvars)
  BY NextIInv
<1> QED
  BY <1>1, <1>2, SpecIInv, PTL DEF Spec, LifetimeCounters, Lifetime!LCSpec
=============================================================================
