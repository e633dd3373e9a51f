------------------------------- MODULE Exporter -------------------------------
(***************************************************************************)
(* scripts/smolllm_exporter.py between a server whose counters start from  *)
(* zero at every deploy and a Prometheus that reads lifetime counters.     *)
(* One poll thread fetches, absorbs and persists; the serving thread hands *)
(* out the last payload; either process may stop at any moment.            *)
(*                                                                         *)
(* A series is one line of /metrics.  An observation raises every series   *)
(* of Feeds[o]: one line for a counter, every bucket from its own upwards  *)
(* for a histogram.                                                        *)
(***************************************************************************)
EXTENDS Integers, FiniteSets

CONSTANTS
    Series,        \* the lines the exporter's patterns match
    Observations,  \* what the server may count
    Feeds,         \* the series an observation raises
    Families,      \* the lines that appear together, as the buckets of a histogram
    MaxCount,      \* bound: observations per series
    MaxDeploys     \* bound: deploys of the server

ASSUME FeedsAssumption ==
    /\ Feeds \in [Observations -> SUBSET Series]
    /\ Families \subseteq SUBSET Series
    /\ MaxCount \in Nat
    /\ MaxDeploys \in Nat

VARIABLES
    raw,      \* the counters of the running server
    count,    \* every observation there ever was (history)
    deploys,  \* deploys so far
    poll,     \* the exporter: down, idle between polls, or with a body fetched
    body,     \* the body fetched
    base,     \* _baseline
    last,     \* _last_raw; a missing entry and 0 act alike
    disk,     \* the state file
    payload,  \* the lines of _payload that carry counters, and scrape_ok
    shown,    \* what Prometheus read last (history)
    kept      \* nothing the last value rested on was lost since (history)

serverVars == <<raw, count, deploys>>
memoryVars == <<base, last>>
vars == <<raw, count, deploys, poll, body, base, last, disk, payload, shown, kept>>

Values  == [Series -> Nat]
Bodies  == [lines : SUBSET Series, value : Values]
States  == [base : Values, last : Values]
Zero    == [s \in Series |-> 0]
NoLines == [lines |-> {}, value |-> Zero]

Init ==
    /\ raw = Zero
    /\ count = Zero
    /\ deploys = 0
    /\ poll = "down"
    /\ body = NoLines
    /\ base = Zero
    /\ last = Zero
    /\ disk = [base |-> Zero, last |-> Zero]
    /\ payload = [lines |-> {}, value |-> Zero, ok |-> FALSE]
    /\ shown = Zero
    /\ kept = [s \in Series |-> TRUE]

-----------------------------------------------------------------------------
(* The server.                                                             *)

Observe(o) ==
    /\ \A s \in Feeds[o] : count[s] < MaxCount
    /\ raw' = [s \in Series |-> IF s \in Feeds[o] THEN raw[s] + 1 ELSE raw[s]]
    /\ count' = [s \in Series |-> IF s \in Feeds[o] THEN count[s] + 1 ELSE count[s]]
    /\ UNCHANGED <<deploys, poll, body, memoryVars, disk, payload, shown, kept>>

\* A deploy, or any other restart of the server: its ledger is in memory.
Deploy ==
    /\ deploys < MaxDeploys
    /\ deploys' = deploys + 1
    /\ raw' = Zero
    /\ UNCHANGED <<count, poll, body, memoryVars, disk, payload, shown, kept>>

\* The server has no line for a family it has not counted in yet.
Exposed == UNION {f \in Families : \E s \in f : raw[s] > 0}

-----------------------------------------------------------------------------
(* The poll thread.                                                        *)

Fetch ==
    /\ poll = "idle"
    /\ poll' = "fetched"
    /\ body' = [lines |-> Exposed, value |-> raw]
    /\ UNCHANGED <<serverVars, memoryVars, disk, payload, shown, kept>>

\* Mutant: every scrape folds the value before it.
Folded_Always(s) == base[s] + last[s]

\* Mutant: the baseline takes the change since the last scrape.
Folded_Change(s) == base[s] + body.value[s] - last[s]

\* restart_safe_counter: a value below the last one means a restart.
Folded(s) == IF body.value[s] < last[s] THEN base[s] + last[s] ELSE base[s]

\* transform: every line of the body is rewritten, under the lock.
NewBase == [s \in Series |-> IF s \in body.lines THEN Folded(s) ELSE base[s]]

NewLast == [s \in Series |-> IF s \in body.lines THEN body.value[s] ELSE last[s]]

\* Mutant: the payload is handed over after the file is written.
Absorb_SavedFirst ==
    /\ poll = "fetched"
    /\ poll' = "idle"
    /\ base' = NewBase
    /\ last' = NewLast
    /\ body' = NoLines
    /\ disk' \in {disk, [base |-> NewBase, last |-> NewLast]}
    /\ payload' = IF disk' # disk
                  THEN [lines |-> body.lines,
                        value |-> [s \in Series |-> NewBase[s] + NewLast[s]],
                        ok    |-> TRUE]
                  ELSE payload
    /\ UNCHANGED <<serverVars, shown, kept>>

\* transform, the payload and save_state, which may fail and leave the file.
Absorb ==
    /\ poll = "fetched"
    /\ poll' = "idle"
    /\ base' = NewBase
    /\ last' = NewLast
    /\ payload' = [lines |-> body.lines,
                   value |-> [s \in Series |-> NewBase[s] + NewLast[s]],
                   ok    |-> TRUE]
    /\ body' = NoLines
    /\ disk' \in {disk, [base |-> NewBase, last |-> NewLast]}
    /\ UNCHANGED <<serverVars, shown, kept>>

\* fetch raised: the payload becomes the down signal alone.
ScrapeFails ==
    /\ poll = "idle"
    /\ payload' = [lines |-> {}, value |-> Zero, ok |-> FALSE]
    /\ UNCHANGED <<serverVars, poll, body, memoryVars, disk, shown, kept>>

-----------------------------------------------------------------------------
(* The exporter process, and its state file.                               *)

\* The process stops; what it had not written is gone.
Crash ==
    /\ poll # "down"
    /\ poll' = "down"
    /\ body' = NoLines
    /\ base' = Zero
    /\ last' = Zero
    /\ payload' = [lines |-> {}, value |-> Zero, ok |-> FALSE]
    /\ kept' = [s \in Series |-> kept[s] /\ disk.base[s] = base[s]
                                        /\ disk.last[s] = last[s]]
    /\ UNCHANGED <<serverVars, disk, shown>>

\* Mutant: the restart restores the baseline and forgets the last values.
Start_BaselineOnly ==
    /\ poll = "down"
    /\ poll' = "idle"
    /\ base' = disk.base
    /\ last' = Zero
    /\ UNCHANGED <<serverVars, body, disk, payload, shown, kept>>

\* main: load_state, then the poll and serving threads.
Start ==
    /\ poll = "down"
    /\ poll' = "idle"
    /\ base' = disk.base
    /\ last' = disk.last
    /\ UNCHANGED <<serverVars, body, disk, payload, shown, kept>>

\* The file is lost or damaged: load_state skips what it cannot read, entry by
\* entry, and all of it when the file does not parse.
LoseState ==
    \E b, l \in SUBSET Series :
        /\ disk' = [base |-> [s \in Series |-> IF s \in b THEN 0 ELSE disk.base[s]],
                    last |-> [s \in Series |-> IF s \in l THEN 0 ELSE disk.last[s]]]
        /\ kept' = IF poll = "down"
                   THEN [s \in Series |-> kept[s] /\ disk'.base[s] = disk.base[s]
                                                  /\ disk'.last[s] = disk.last[s]]
                   ELSE kept
        /\ UNCHANGED <<serverVars, poll, body, memoryVars, payload, shown>>

\* Handler.do_GET, for Prometheus.
Serve ==
    /\ poll # "down"
    /\ shown' = [s \in Series |->
           IF s \in payload.lines THEN payload.value[s] ELSE shown[s]]
    /\ kept' = [s \in Series |-> kept[s] \/ s \in payload.lines]
    /\ UNCHANGED <<serverVars, poll, body, memoryVars, disk, payload>>

-----------------------------------------------------------------------------

Next ==
    \/ \E o \in Observations : Observe(o)
    \/ Deploy
    \/ Fetch \/ Absorb \/ ScrapeFails
    \/ Crash \/ Start \/ LoseState
    \/ Serve

Spec == Init /\ [][Next]_vars

\* The poll loop and Prometheus go on, and the exporter's supervisor restarts it.
Fairness ==
    /\ WF_vars(Fetch) /\ WF_vars(Absorb)
    /\ WF_vars(Serve)
    /\ WF_vars(Start)

FairSpec == Spec /\ Fairness

-----------------------------------------------------------------------------
(* What the exporter promises.                                             *)

\* Counters, memory, file and payload stay in their ranges.
TypeOK ==
    /\ raw \in Values
    /\ count \in Values
    /\ deploys \in Nat
    /\ poll \in {"down", "idle", "fetched"}
    /\ body \in Bodies
    /\ base \in Values
    /\ last \in Values
    /\ disk \in States
    /\ payload \in [lines : SUBSET Series, value : Values, ok : BOOLEAN]
    /\ shown \in Values
    /\ kept \in [Series -> BOOLEAN]

\* No value handed out counts an observation twice: not after a deploy, not
\* after a crash with an older file, not when a deploy falls between a fetch
\* and its absorption (restart_safe_counter; load_state, "importing a wrong
\* number and serving it as truth").
NeverOvercounts ==
    \A s \in payload.lines : payload.value[s] <= count[s]

\* The lines Prometheus reads are lifetime counters.
Lifetime == INSTANCE LifetimeCounter WITH
    Series <- Series,
    count <- count,
    shown <- shown,
    kept <- kept

LifetimeCounters == Lifetime!LCSpec

\* An observation that reaches `s` also reaches `t`, as the cumulative buckets
\* of one histogram.
Within(s, t) == \A o \in Observations : s \in Feeds[o] => t \in Feeds[o]

\* The cumulative buckets served stay cumulative across a restart (transform:
\* "so a restart resets the whole histogram at once instead of producing a
\* mixed-bucket artefact").
BucketsStayCumulative ==
    \A s, t \in payload.lines : Within(s, t) => payload.value[s] <= payload.value[t]

\* Once nothing fails any more, what Prometheus reads of every line settles at
\* the server's count on top of the exporter's baseline, whatever deploys,
\* crashes and unsaved states came before.
Calm == ~ (Deploy \/ ScrapeFails \/ Crash \/ LoseState)

CountsAreShown ==
    <>[][Calm]_vars =>
        <>[](\A s \in Exposed : shown[s] = base[s] + raw[s])

\* A failed scrape leaves the last good payload to be served (poll_loop:
\* "Serve the last good payload plus a down signal rather than nothing").
LastGoodPayloadServed ==
    [][ScrapeFails => payload'.lines = payload.lines]_vars
=============================================================================
