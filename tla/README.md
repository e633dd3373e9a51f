# smolllm-server, specified

TLA+ modules of the gateway in `src/`, the configurations with which TLC checks
them on small instances, and TLAPS proofs of the properties that hold for every
instance. `PROJECT.json` maps each definition to the lines it stands for, lists
the runs, the mutants that show each property can fail, the hazards of the code
and the places where the code and its documentation disagree.

    tlc -workers 2 -config ChatTurn.cfg MCChatTurn.tla     # one run
    tlapm ChatTurnProofs.tla                               # one module of proofs

## 1. The system

A Go process, `smolllm-server`, answers OpenAI-style requests by handing them
to a library, `smolllm-go`, which tries the legs of an alias chain one after
the other. Beside it run a metrics exporter (Python), the scripts that build,
deploy and restart it, and the monitoring rules. The library is not in this
repository: it appears in the models as an external actor that does what
`chat.go` and the tests of `internal/server` rely on, and no less.

| Component | State | Operations | Talks to |
|---|---|---|---|
| chat turns, `server/chat.go` | per request: where its handler is, what was written | blocking answer, stream, hang-up, error and finish tails | library (call, channel, hook), store (three reads), ledger and tally (hook), client |
| credit reports, `server/credit.go` | a tally per request, behind a mutex | record, report as usage, body or headers | fed by the hook, read by the handler |
| ledger, `ledger/ledger.go` | daily buckets, attempt counters, first-output histograms, behind one mutex | Record, Snapshot, Attempts, FirstOutputs; pruning inside | fed by hooks of all requests; read by `/stats` and `/metrics` |
| stats and metrics, `server/stats.go`, `metrics.go` | none | one read, two reads | ledger, account metrics |
| configuration store, `config/config.go` | an atomic pointer to a validated snapshot | Load, Validate, Reload, ResolveModel | read by every handler, swapped by reloads |
| watcher and main, `cmd/server/main.go` | the watch, the debounce timer, the log level | watchConfig, doReload, watchdog | store, file system, supervisor |
| authentication, `auth/auth.go` | none | compare the token with the key of this moment | store |
| account breaker, `server/account_metrics.go` | event counters, accounts seen, behind one mutex; the circuits are the library's | record, write; the kill switch in `chat.go` | fed by the library's account hook, from all chat requests; read by `/metrics` beside the breaker |
| server, `server/server.go`, `middleware.go`, `handlers.go` | the listener | New, Run, Shutdown | supervisor |
| adapter, `llm/` | none | body to options and extra body, messages to the wire, answers to the client | chat turns, library, through the client back to itself |
| embeddings, models, errors, build information | none | one call or one constant | library, store |
| exporter, `scripts/smolllm_exporter.py` | baseline, last raw values, payload; a state file | poll loop, transform, save, load, serve | server's `/metrics`, Prometheus |
| deployment, `scripts/deploy-remote.sh`, `launch/service.sh` | the installed binary, its predecessor, the port of the smoke test | deploy, reload, install, start, stop | supervisor, server |
| reproducible build, `launch/build.py` | none that outlives it | checks, one exclusive create | toolchain |
| monitoring | none | queries | exporter's counters |

What is hard in it, by component:

* *chat turns.* A handler, the library's goroutines, their hook and the client
  run at once. The chunk channel closes before the last hook returns; a client
  may leave while the library is blocked sending; a stream may fail after
  status 200. To be right: a report never misses an attempt, no work outlives
  its handler, what the client reads is in order and its tail is honest, and a
  turn that has a deadline or has lost its client ends, unless a write to a
  client that does not read holds it up.
* *account breaker.* All chat requests share the circuits, embeddings and
  requests under the kill switch do not; the library decides first and reports
  later, from many goroutines; `/metrics` reads circuits and counters apart. To
  be right: counters agree with circuits once nothing is owed, a page explains
  what it shows, no account drops out, and the kill switch is a kill switch.
* *adapter.* The union of openai-go drops what it does not model; two restorers
  share out what to put back; lists of keys are kept in step by hand; a client
  replays what it was answered. To be right: nothing is lost, doubled, or sent
  where the library panics on it.
* *credit.* Debits come as numbers of any scale. To be right: the sum is exact.
* *ledger.* Late records meet midnights and pruning; `/metrics` takes the lock
  twice; maps in random order go through an unstable sort. To be right: tables
  hold exactly what was recorded, agree with each other, and answers with
  nothing recorded between them are the same.
* *configuration.* Requests read several times what a reload swaps; timers
  start reloads in goroutines of their own; files are read half-written. To be
  right: only valid snapshots are live, the last edit wins, the logger follows.
* *exporter.* The server starts from zero at each deploy, the exporter may stop
  between absorbing and saving, the file may be lost in parts. To be right:
  nothing is ever counted twice, and a counter never falls without a loss.
* *deployment.* Nothing keeps two scripts apart on one host, and each of their
  commands may fail, some unnoticed. To be right: the service ends up running
  what is installed, comes back, and can be rolled back.

## 2. Modules

    AttemptEvents --+-- ChatTurn ------ ChatTurnProofs
                    +-- Ledger -------- LedgerProofs
                    +-- CreditAccount
    CreditTally --------+
    RequestAdapter -----+-- ChatPayload --- ChatPayloadProofs
    ConfigStore ------- ChatAdmission ----- ChatAdmissionProofs
    LifetimeCounter
    Exporter ------------------------------ ExporterProofs
    AccountRouting ------------------------ AccountRoutingProofs
    Deployment ---------------------------- DeploymentProofs

CreditAccount and LifetimeCounter are abstract: ChatTurn and ChatPayload
implement the first, Exporter the second. The proofs of ChatTurn, ChatPayload
and Ledger rest on **SumTheorems**, what sums over finite sets do.

Every `MC<Module>` gives constants values for TLC. A definition named
`<Definition>_<Bug>` is that definition as a plausible mistake would have it;
nothing uses it but the mutants in `PROJECT.json`.

**AttemptEvents** is what one attempt reports through the hook and how the
code files it: `OutcomeOf` is the classification of `recordAttemptLocked` (a
leg abandoned for want of output before a cancellation before any other
error), `Billed` is `creditTally.record`, `Report` what a client is told.

**ChatTurn** has one action per step that another actor can see. The handler
is `pc`: `start`, `calling` (inside `Ask` or `Stream`), `relaying` (the select
loop of `chatStream`), `abandoning` (after `ctx.Done`: Close, Wait),
`draining` (the channel has closed; Wait, then the tail), `done`. The hook is
two steps, `HookLedger` and `HookTally`, since the two structures have a lock
each. `WaitReturns` is the library's promise that Wait outlasts the last hook.
`upstream` is history: what the request was really billed so far. The
library's `Produce` has a chunk to send (`offer`) and `Send` puts it into the
channel once there is room; `result` is the finish reason and the tool calls the
provider gave the turn, and frames and bodies carry the reason the handler makes
of it. A client may stop reading without hanging up (`deaf`): the server sets no
write timeout (`server.go:64`), so a write to it may block for good, which is
that the handler then has no fairness. `logMW`'s recorder always has a `Flush`
(`middleware.go:24-28`), so `chatStream`'s answer for a writer that has none
(`chat.go:89-93`) is never taken and has no action.

**Ledger** holds the three tables as functions of their keys and adds history:
`log`, the bag of recorded attempts. `Record`, `Stats` (Snapshot), and the two
halves of `/metrics`, `ReadAttempts` and `ReadFirstOutputs`, are atomic, as
under the mutex; `ReadOrder` is the order in which the arguments of
`writeMetrics` are evaluated. `Sorted` is `sort.Slice` over a map: *any* order
that the comparison allows. An attempt's day is its start and may be any day
gone by.

**ConfigStore** is the file, the env file, the environment, the live snapshot,
the watcher (`watching`, `events`, `timer`) and the goroutines of `doReload`,
each in steps: load, swap, set the level, source the env file. A snapshot
carries `gen`, the edit it was read after. `Loads` is Load: decode, apply the
override of the access key from the environment, validate. Start-up loads the
file under the environment the process inherits and sources the env file
without overwriting (`Init`). `Validate` has the checks of the access key, the
level and the first-output budget as such; those of the bind address, the signs
of timeouts and the spelling of aliases are one bit, `spelt`. A timer that fires
starts a reload whatever others are doing (`Fire`); `overlapped` is history: two
have run at once, which a reload shorter than the debounce of 200 ms never does.
Properties that an overlap breaks say so by naming it. **ChatAdmission** composes
the store with requests: authentication and the three reads of the store in the
arguments of `BuildOptions`, one action each. A model that is no alias is used as
the chain itself (`config.go:235`), of any length in `RawLegs`.

**Exporter** is both threads, the state file and the server's counters behind
them. `Absorb` is `transform`, the new payload and `save_state`, which may
fail; `LoseState` loses any entries of either half of the file. `count`,
`shown` and `kept` are history. **LifetimeCounter** is what an exporter owes
Prometheus: the value read rises by no more than what happened, and falls only
when what it rested on was lost. `Exporter` implements it with the values read
as its state.

**AccountRouting** is the breaker as the server uses it. `circuit` is the
library's, one per account; a request walks the `todo` legs of its chain and
defers those skipped for an open circuit, which it tries anyway when no other
leg succeeded. What the library decides on a leg (`Skip`, `CallLeg`, `Probe`,
`CallAnyway`, `Succeed`, `RejectQuota`, `Fail`) is external, taken from
`README.md` ("Account quota exhaustion is shared across requests") and
`account_breaker_test.go`. Assumed of it: it changes the circuit before it
calls the hook, and a request's hooks return before the request goes on. Left
open: whether a success admitted before the opening closes the circuit, whether
a failed probe reports another opening, and how long a cooldown is. The
server's part is `UsesBreaker` (the kill switch, read once), `Record` and
`Hook` (`pending` holds what is still owed), and a page in two reads,
`ReadOrder`: the circuits are an argument, evaluated before `write` takes the
lock. `called` is history.

**RequestAdapter** is pure: a body is a function from keys to the kinds of
value the code tells apart, a message a set of leaves, each the path to a
scalar, null or empty value. `Modelled` is the part the openai-go union keeps,
a parameter. `Options`, `ExtraBody` and `Refused` are `BuildOptions` and
`UnmarshalJSON`; `Wire` is what two restorers and `SetExtraFields` make of a
message; `DeltaToolCalls` is what a stream adds to a call. **CreditTally** is
`credit.go` with its decimals: `Accepts`, `ScaleOf` and `Amount` for a debit's
text, sums in units of 10^-`Fine`, `FloatString` with its rounding; `Power` is a
function, since the provers know nothing of exponents.
**ChatPayload** drives both through turns: `Receive`, `Build` (or a 400),
`Attempt` (the hook), `Respond` (streamed or not, or an error), `Return`; the
client may replay the calls it was answered. **CreditAccount** is the tally as
ChatTurn knows it, amounts without decimals. ChatPayload implements it with the
code's decimals and ChatTurn, for each request, with the code's interleavings.

**Deployment** is any number of scripts on one host: `deploy-remote.sh` over
ssh and `service.sh reload` on a Mac. Its files are `installed` and
`predecessor`, its service `proc` and `wanted`. What a script builds (`built`)
is a commit's binary, so two scripts may install the same one; `placed` is
history: who has put a binary into place. The remote commands of a script are
separate steps and the connection may be lost between two of them; inside one
the remote shell goes on.

* A smoke test launches a process (`Stage`) that listens when it can (`Bind`),
  so two tests can meet on port 11499. The script's `kill` does not wait: the
  server is `leaving` and holds the port until its own shutdown closes the
  listener (`Release`), long after the script went on or ended if need be.
* The copy of the predecessor may fail unnoticed or half-way. A move that fails
  ends the script (`unmoved`, `set -e`) and may leave no binary, since `/tmp`
  can be another file system.
* A stop that fails is ignored (`StopFails`, `|| true`): the start that follows
  does nothing for a unit that is up, and the deploy reports success (`kept`).
  A failed start or kickstart ends the script.
* A signalled process may stall (`stalled`) and remembers whether its supervisor
  sent the signal (`told`): `Shutdown` ends one that does not stall, `Watchdog`
  any after ten seconds, `Kill` one whose supervisor is losing patience
  (`TimeoutStopSec`, launchd's own). A signal from someone else (`Signal`) leaves
  only the first two, which is the case `main.go:71-74` is about.
* `kickstart -k` may kill at once or signal first; `Respawn` starts the next
  process when launchd's throttle lets it. Under systemd `Respawn` is
  `Restart=on-failure`: a clean exit nobody asked for (`exited`) stays.

## 3. Runs

| Run | Instance | Shows |
|---|---|---|
| ChatTurn | 2 requests, 2 attempts each, no chunks; 634,023 states | types, `ReportIsFinal`, `NoWorkAfterReturn`, `LedgerAgreesWithTallies` |
| ChatStream | 1 request, 3 chunks, channel of 2, every result, a client that may stop reading; 609,232 states | `StreamDeliversInOrder`, `StreamTailIsHonest`, `EveryBoundedTurnEnds` |
| Exporter | 1 series, 6 observations, 2 deploys; 113,140 states | types, `NeverOvercounts`, refinement of LifetimeCounter, `CountsAreShown` |
| ConfigReload | 3 edits, 2 reloaders that may overlap, 1 request, for an alias or a chain of 5 legs; 1,142,889 states | types, `LiveConfigValid`, `LevelFollowsLive`, `SettingsReadInOrder`, `UntornCallsFit`, `EditsArePickedUp` |
| Ledger | 5 kinds of attempt, 2 attempts, 3 midnights, retention of a day; 131,238 states | types, `BucketsMatchLog`, `StatsAgreeWithAttempts`, `HistogramsCountWaits`, `HistogramsCoverCounters`, `PagesInterlock`, `StatsRepeat` |
| Deployment | 2 scripts, 2 binaries, 1 crash or foreign signal, each supervisor; 380,188 states | `RunsWhatIsInstalled`, `SmokeTestGuards`, `RollbackUndoes`, `SmokeServersEnd`, `ServiceReturns` |
| AccountRouting | 2 requests, 2 accounts, 3 legs, 2 chains, the switch turned once; 106,598 states | types, `CountsFollowCircuits`, `PlainFallback`, `OpeningIsShown`, `AccountsStayListed` |
| ChatPayload | 2 turns, any value under any two keys of a body, every mixture of two calls in a message, 11 debits, 3 attempts; 68,585 states | types, `KeysAccountedFor`, `MessagesArriveWhole`, `CallsReplayVerbatim`, refinement of CreditAccount |
| ExporterHistogram | 2 buckets of a histogram | violated: `BucketsStayCumulative` |
| ExporterOutage | as Exporter | violated: `LastGoodPayloadServed` |
| ConfigOverlap | 2 edits, 2 reloaders | violated: `LastEditIsLive` |
| TornConfig | a reload between two reads of a request | violated: `WorstCaseFits` |

Why the bounds are enough. Turns touch each other only through the ledger's
counters, and a counter cannot tell a third request from the second; two
attempts are the least that has a retry; three chunks are more than the channel
holds, so that the library blocks on a full one whose reader has left. What a series' baseline does depends on the
order of its new, last and file values, which two deploys and six observations
produce in every order. A reload's effect is decided against the one before
and the one beside it, hence two reloaders and three edits. A bucket is pruned
one day after it is out of the retention of one, hence three midnights. One
request opens a circuit and another runs into it, with a chain that stays on
one account and one that leaves it, hence two of each. A turn's data meets
nothing of another turn's but through a replay, hence two turns; whether a key
is applied depends on itself and on whatever refuses the body, hence any two
keys; a mixture of calls is seen in two; scales carry in both directions with
exponents of -2 to 2 and three debits. Two
scripts are the least that can interleave; they may build the old binary again,
one new one, or, in an instance tried once, two new ones (1,647,434 states, the
same result). Where a bound could still hide something, section 5 proves the
property without it.

Deadlock is checked in the exporter's runs, which never end. In the others the
actors stop when their requests, edits, attempts or scripts are used up, and
the configurations say `CHECK_DEADLOCK FALSE`; that nothing is stuck earlier
is what the liveness properties say.

## 4. Fairness

* `ChatTurn!FairSpec`: the handler's goroutine runs as long as its client reads
  or has hung up (`Reads`), since nothing else bounds a write to it; a hook in
  progress runs; the library sends a chunk once there is room. It ends a call
  whose attempts have a deadline, whose context is cancelled or whose stream is
  closed (`Bounded`); of a send that waits for room only the last two are
  assumed to end it (`Unblocked`), so a deadline alone does not. A request with
  `timeout: 0` and a client that stays has no such promise, and no property
  claims one. `MaxChunks` bounds the stream, so a provider cannot postpone a
  deadline by sending for ever; the deadline is the attempt's as a whole
  (`README.md:68`). Go's `select` picks at random between `ctx.Done` and the channel, so
  nothing assumes that a hang-up is noticed at once: relaying ends because the
  channel does.
* `StoreFairness`: the watcher, the timer and the reload goroutines run.
  Setting up the watch is assumed to succeed; where it fails the server says so
  and reloads nothing. The operator owes nothing. An edit made before the watch
  exists raises no event: `unseen` excuses it until the next. Of runs in which
  two reloads have overlapped `EditsArePickedUp` says nothing; `LastEditIsLive`
  says it of all runs, and fails (section 6).
* `Deployment!Fairness`: a restart that has begun on the host runs to its end,
  a process on its way out gets there (by its shutdown, the watchdog or its
  supervisor's patience), the supervisor respawns. Operators and scripts owe
  nothing else. `ServiceReturns` names what ends a service for good all the same:
  an installed binary that does not run, under systemd a clean exit nobody asked
  for, and a stop whose start failed.

* `Exporter!Fairness`: the poll loop is `while True` around a handler that
  catches everything, Prometheus scrapes on a period, and the supervisor starts
  the exporter again (`Restart=always` in `launch/smolllm-exporter.service`,
  KeepAlive in the plist). `CountsAreShown` is about runs in which deploys,
  failures and losses stop at some point (`Calm`); nothing says that they do.

The ledger, the account counters, the data of turns and the requests of
ChatAdmission have no fairness; their properties are safety.

## 5. Proofs

All theorems are checked by TLAPS for every value of the constants under the
named assumptions of the modules (bounds are naturals, names are distinct,
feeds are functions into the series).

**ChatTurnProofs.** `TypeCorrect`, `ReportsAreFinal`, `HandlersOutliveTheirWork`.
`ReportIsFinal` relates a report written once to billing that may go on, so it
is not inductive: it needs that `upstream` is the tally with the event the hook
still holds (`TallyFollows`), where the library and the hook may be when a
handler starts and when it is done (`CallMatchesHandler`), and that a report is
the tally of a handler that has returned (`ReportedWhenDone`). One lemma says
what an attempt's report does to the first; then one step per action. The same
invariant gives `TurnsKeepTheirAccounts`: whatever the other requests do, each
turn's tally and report move as CreditAccount's. That one is no run's property,
its instance being a family of refinements that TLC does not take as one.

`StreamsInOrder` and `StreamTailsAreHonest` need a second invariant
(`StreamInv`), over any number of chunks and any capacity: the texts the client
has, followed by those in the channel, are all that was produced, once and in
order (`OrderAt`); and which frames, channel and state of the library go with
each step of the handler (`PhaseAt`), above all that the channel is empty before
the tail. What a finish frame says is related to `result` by a lemma on the frame
itself (`EndFrame`). `LedgersAgree` assumes finitely many requests (`RequestsAssumption`):
a sum over all tallies moves by what the one hook adds.

**LedgerProofs.** `LedgerTypes`, `BucketsHoldTheLog`, `WaitsCounted`,
`PagesCovered`, `StatsAgree`, `AnswersRepeat`, `PagesInterlocked`: everything the
run Ledger checks, for any calls, edges, retention, last day and number of
attempts. Each table is a sum over the log, and a record adds one call to it, so
one lemma carries most of it: a sum in which one entry changes by v changes by v
(`SumGrows`). The invariant says of each table, or of what was read from one,
what it owes the log: `Histograms` (the slots, sum and count of a leg are those
of its waiters), `Coverage` (what a scrape has counted is part of the log, and
the histograms read afterwards cover that part), `Agreement` (buckets total what
the counters do, less what expired: exactly so until something can expire),
`StatsSorted` (an answer's keys are the sorted keys its log retained, and
`OneOrder`: there is one such sequence, whatever order the map gave) and
`Interlock` (the rows a page shows never exceed the counters, and no histogram
counts more waits than the counters do successes).

**SumTheorems.** The library defines a sum by a recursive function over a set,
and its induction theorems are out of the provers' reach, so these proofs take
a smallest counterexample instead: the subset ordering of a finite set is well
founded, so if a claim fails of some subset it fails of one all of whose smaller
subsets satisfy it. That gives tables of sums (`SumsExist`), their independence
of the order in which elements are taken (`SumsAnyOrder`), and from there
`OnSetOut`, `OnSetUpdate`, `OnSetReindex`, `OnSetMonotone`.

**ExporterProofs.** `TypeCorrect`, `PayloadsNeverOvercount`,
`ImplementsLifetimeCounters`. The invariant bounds, for each series, what every
place holds (memory, file, fetched body, payload) by what the server had
counted when it was read: baseline plus last value never exceeds what happened
up to the restart after the last value. Losing either half of a state only
lowers it. The same invariant, with `kept`, gives that each `Serve` is a `Show`
of LifetimeCounter and every other step an observation or a stutter.

**ChatAdmissionProofs.** `StoreTypeCorrect`, `HandlersReadValidConfig` and
`SameFileCallsFit` hold whatever reloads do: the invariant carries validity from
the loaded file through the reload's hands to the live snapshot and the
request's copies, that two copies of one `gen` have the same chain, budget and
patience (`SameSettings`; an override may have changed the key between), and that a request that is not raw calls with its alias' legs. A raw chain is
outside `SameFileCallsFit`: `Validate` has never seen it. `ReadsMoveForward` and
`LevelIsLive` hold as long as nothing has `overlapped`: then there is at most one
reload, what it holds is at least as new as what is live, the level lags the
live one only inside it, and requests hold nothing newer. The run ConfigOverlap
shows what an overlap does.

**DeploymentProofs.** `ServiceRunsInstalled`, `SmokeTestIsTheGuard`,
`RollbackAlwaysUndoes`, `SmokeTestsCleanUp`, `TypeCorrect`, for any number of
scripts and builds. What the induction adds: each file that executes was put
there by a script in `placed` or is the old one, only scripts past their
move or build are in `placed`, a staged process serves or is starting only while its test is
in progress, and whatever answered a probe was a server that runs.

**AccountRoutingProofs.** `RoutingTypes`, `CountersTellCircuits`,
`PlainRequestsFallBack`, `PagesShowOpenings`, `GaugeKeepsAccounts`, for any
requests, accounts, legs and chains. The counters lag behind the circuits by
what hooks are still owed, so the invariant counts both: openings counted or
owed are ahead of closings counted or owed by one while a circuit is not closed
(`Balance`, with the cardinality of the set of requests that owe an event);
everything that only happens on an opened account, down to the page in progress
and the legs a request deferred, is preceded by an opening counted or owed
(`OpeningsFirst`); what was counted or listed was noticed by a hook (`Notices`);
a plain request keeps to its chain (`Walks`). One lemma says for every step of
the library which circuit it moves and which event it then owes
(`LibraryFacts`), and the parts of the invariant follow from that instead of
from the seven actions. It rests on `RoutingAssumption`: finitely many
requests, and every leg has an account.

**ChatPayloadProofs.** `EveryKeyIsAccountedFor`, `EveryMessageArrives`,
`EveryReplayIsVerbatim`, for any bodies, messages, answers and any part of them
the union models. Most of it is about operators: what `Wire` makes of one leaf,
by which restorer its key belongs to, and which keys `Options` and `ExtraBody`
apply. The induction only carries that a call went out with what `Build` made
of its body, and that the answer a client holds is the provider's up to the
index. `EveryReplayIsVerbatim` excepts, like the property, the extras inside a
`function` that `LostLeaves` names. It rests on `ModelledAssumption` (inside a call the union models its id,
type, function and custom part only) and `PayloadAssumption` (messages are
ones the union decodes; providers send no index in whole calls; the words the
server adds are strings, which no axiom of the provers says).

`PayloadTypes` and `CreditsAreExact` are about the tally, for debits of any
digits, decimals and exponents and any limits on them. The invariant (`Exact`)
is that the sum is a whole number of units of the scale kept with it; a debit of
a finer scale makes both finer (`Rescaled`), since a power of ten of a sum of
exponents is a product (`PowerSum`, by smallest counterexample like the sums).
A whole number of units is not rounded (`NoRounding`), so what `FloatString`
renders is the sum, and each hook is a `Bill` of CreditAccount, each answer a
`Tell` and each return an `Open`.

Only model-checked: liveness under fairness (`EveryBoundedTurnEnds`,
`EditsArePickedUp`, `ServiceReturns`, `CountsAreShown`), which is out of the
prover's reach. Every safety property of a passing run is a theorem.

## 6. Where the code and its words disagree

1. *Histogram buckets after a restart* (`ExporterHistogram`). Each bucket is
   folded on its own, although `hist_prev` was meant to reset them together and
   is never read. A deploy after which one bucket is below its last value and a
   higher one is not leaves a lower bucket above a higher one for good.
2. *The last good payload* (`ExporterOutage`). A failed scrape serves the down
   signal without the payload that the comment says is kept.
3. *Overlapping reloads* (`ConfigOverlap`). Stopping a debounce timer does not
   stop the reload it started; a slow one swaps an older file over a newer one
   and no event is left (`LastEditIsLive`).
4. *Torn settings* (`TornConfig`). One request reads chain and budget from two
   snapshots, a combination no validation has seen.

Smaller ones met while modelling, for which no run is kept:

* `Attempts` is called "a stable, sorted copy" (`ledger.go:278`) but does not
  compare provider and streaming (290-302), so two keys that differ there alone
  may change places between two pages.
* `README.md:298` says the deploy stops the service before it swaps the binary;
  the script swaps (182) and then stops (189). `Deployment` models that order,
  and a supervisor that respawns in between.
* The rollback the deploy prints (`cp .pre-deploy`) undoes nothing after a retry
  of the same commit, say because the connection was lost after the swap: the
  retry copies the new binary over the old one's copy. Nor does it when the move
  fails after the copy. `RollbackUndoes` lets through exactly these.
* A chain that a request spells out itself reaches the library with the default
  first-output budget that `validateFirstOutputBudget` has compared with aliases
  only; `UntornCallsFit` is therefore about aliases.
* Keys the union does not model *inside* the `function` of a call are lost when
  every call of the message is one of a function, which
  `restoreToolCallExtras` (`adapter.go:105-107`, "must reach the provider with
  it intact") does not say: `LostLeaves` names exactly these.
* encoding/json matches field names without regard to case, the lists of keys
  (`types.go:59-74`) do not: a body's `Seed` is decoded into the option *and*
  forwarded, against "never forwarded through the extra-body path" (57). The
  model's keys are spelt as the struct's.
* `timeout` is a float multiplied into nanoseconds (`adapter.go:93`): one below
  a nanosecond becomes 0, which means no timeout, and a very large one
  overflows. The model has no magnitudes.

## 7. Not modelled

Models, errors, build information and `build.py` have no state that outlives a
call. Of embeddings only the routing is modelled: decoding the input and
building the answer are one conversion each. Of the adapter, the magnitudes of
options, ids and the shape of answers are left out. The middleware
(`recoverMW`, `logMW`) is left out: it writes a 500 after a panic, which no
modelled handler raises. The breaker is the library's and appears as what the
repository's README and tests say of it; cooldowns have no length, aliases no
label of their own. Names, paths, formatting and logging are left out. Access
keys are model values: the comparison's timing is no behaviour of the model,
and the exporter's copy of the key is not modelled, since nothing promises that
it follows a rotation. Streams in flight when the process stops are not
modelled. `install`, `uninstall` and the rendering of the plist are not
modelled.

## 8. Plan

Done, in this order: AttemptEvents and ChatTurn, the heart of the gateway;
Exporter against LifetimeCounter; ConfigStore, and ChatAdmission as its
composition with requests; Ledger; Deployment; AccountRouting; RequestAdapter,
CreditTally and ChatPayload, with CreditAccount between them and ChatTurn.

Then the proofs: of every safety property the runs check, the refinements of
LifetimeCounter and CreditAccount among them.

Next:

1. **Gateway**: ChatTurn composed with ChatAdmission and the ledger's real
   tables, so that what a request bills is what `/stats` and `/metrics` show.
2. An abstract specification of the ledger (a log, and what each read owes it),
   with Ledger shown to implement it.
