---------------------------- MODULE AccountRouting ----------------------------
(***************************************************************************)
(* The account breaker as the server uses it: one breaker of the           *)
(* smolllm-go library for every chat request (server.go, handlers.go), a   *)
(* kill switch each chat request reads once (chat.go), embeddings that     *)
(* never use it (embed.go), and the counters of its decisions that         *)
(* /metrics renders (account_metrics.go, metrics.go).                      *)
(*                                                                         *)
(* A request walks the legs of its alias.  What the library decides on a   *)
(* leg is modelled from the README ("Account quota exhaustion is shared    *)
(* across requests") and from account_breaker_test.go: it changes the      *)
(* circuit first and then calls the request's hooks, in the request's      *)
(* goroutine, while other requests and the scrape go on.  Cooldowns are    *)
(* not timed: an open circuit may let a probe through at any moment.  The  *)
(* alias label, which splits the counters of a leg, is left out.           *)
(***************************************************************************)
EXTENDS Naturals, Sequences, FiniteSets

CONSTANTS
    Requests,      \* chat and embedding requests, each made once
    Accounts,      \* provider credentials
    Legs,          \* "provider/model" legs
    AccountOf,     \* the account a leg calls
    Chains,        \* the chains the aliases resolve to
    MaxSwitches    \* bound: reloads that turn the kill switch

ASSUME RoutingAssumption ==
    /\ AccountOf \in [Legs -> Accounts]
    /\ Chains \subseteq Seq(Legs)
    /\ IsFiniteSet(Requests)
    /\ MaxSwitches \in Nat

VARIABLES
    disabled,     \* server.disable_account_breaker of the live configuration
    switches,     \* how often it was turned
    circuit,      \* the breaker: the circuit of every account
    request,      \* where every request is
    pending,      \* the events its hooks have yet to be called with
    called,       \* the legs it called so far, in order (history)
    transitions,  \* m.transitions
    legCounts,    \* m.skips by reason, m.probes, m.failOpens, m.unrecognized429
    seen,         \* m.seen
    parts,        \* how much of the page in progress has been read
    draft,        \* the page in progress
    listed        \* the accounts the last page listed

liveVars == <<disabled, switches>>
hookVars == <<transitions, legCounts, seen>>
pageVars == <<parts, draft, listed>>
requestVars == <<request, pending, called>>
vars == <<liveVars, circuit, requestVars, hookVars, pageVars>>

Circuits    == {"closed", "open", "half_open"}
Transitions == {"opened", "closed"}
SkipReasons == {"exhausted_in_request", "circuit_open"}
LegKinds    == SkipReasons \cup {"probing", "fail_open", "unrecognized_429"}

\* What the account hook is called with.  The hook of the attempts, which feeds
\* the ledger, is ChatTurn's.
Events == [kind : Transitions \cup LegKinds, leg : Legs]

Event(kind, leg) == [kind |-> kind, leg |-> leg]

RequestStates ==
    [phase     : {"new", "choosing", "calling", "done"},
     plain     : BOOLEAN,           \* for an embedding, or admitted under the
                                    \* kill switch (history)
     breaker   : BOOLEAN,           \* WithAccountBreaker was among its options
     todo      : Seq(Legs),         \* legs not decided yet; the first is called
     deferred  : Seq(Legs),         \* legs skipped for an open circuit
     exhausted : SUBSET Accounts,   \* accounts that rejected this request
     failOpen  : BOOLEAN,           \* the deferred legs are being tried anyway
     probing   : BOOLEAN]           \* the call is the probe of its account

Fresh ==
    [phase |-> "new", plain |-> FALSE, breaker |-> FALSE, todo |-> <<>>,
     deferred |-> <<>>, exhausted |-> {}, failOpen |-> FALSE,
     probing |-> FALSE]

Over == [Fresh EXCEPT !.phase = "done"]

\* The lines of /metrics about accounts: the circuits read, m.seen, the opened
\* transitions and the accounts with a leg skipped for its circuit, probed or
\* tried anyway.  `late`: their opening was still owed to a hook (history).
Pages ==
    [state : [Accounts -> Circuits], seen : SUBSET Accounts,
     opened : [Accounts -> Nat], traced : SUBSET Accounts, late : SUBSET Accounts]

NoPage ==
    [state |-> [a \in Accounts |-> "closed"], seen |-> {},
     opened |-> [a \in Accounts |-> 0], traced |-> {}, late |-> {}]

\* Mutant: newAccountMetrics leaves out a map.
NoLegCounts_Partial == [k \in LegKinds \ {"fail_open"} |-> [l \in Legs |-> 0]]

NoLegCounts == [k \in LegKinds |-> [l \in Legs |-> 0]]

Init ==
    /\ disabled \in BOOLEAN
    /\ switches = 0
    /\ circuit = [a \in Accounts |-> "closed"]
    /\ request = [r \in Requests |-> Fresh]
    /\ pending = [r \in Requests |-> {}]
    /\ called = [r \in Requests |-> <<>>]
    /\ transitions = [a \in Accounts |-> [t \in Transitions |-> 0]]
    /\ legCounts = NoLegCounts
    /\ seen = {}
    /\ parts = 0
    /\ draft = NoPage
    /\ listed = {}

-----------------------------------------------------------------------------
(* The server admits requests.                                             *)

\* A reload of the configuration.
TurnSwitch ==
    /\ switches < MaxSwitches
    /\ switches' = switches + 1
    /\ disabled' = ~ disabled
    /\ UNCHANGED <<circuit, requestVars, hookVars, pageVars>>

\* Mutant: the kill switch of the start is the kill switch for good.
UsesBreaker_Cached(chat) == chat

\* chat appends the breaker and its hook unless the switch is on; embeddings
\* append the ledger's hook alone.
UsesBreaker(chat) == chat /\ ~ disabled

\* The handler resolves the alias and starts the call.
Admit(r, chat, chain) ==
    /\ request[r].phase = "new"
    /\ request' = [request EXCEPT ![r] =
           [Fresh EXCEPT !.phase = "choosing", !.plain = disabled \/ ~ chat,
                         !.breaker = UsesBreaker(chat), !.todo = chain]]
    /\ UNCHANGED <<liveVars, circuit, pending, called, hookVars, pageVars>>

-----------------------------------------------------------------------------
(* The library chooses a leg.  Hooks return before it goes on.             *)

Deciding(r) ==
    /\ request[r].phase = "choosing"
    /\ request[r].todo # <<>>
    /\ pending[r] = {}

LegOf(r) == Head(request[r].todo)
AccountOn(r) == AccountOf[LegOf(r)]

Exhausted(r) == request[r].breaker /\ AccountOn(r) \in request[r].exhausted

Barred(r) ==
    /\ request[r].breaker /\ ~ request[r].failOpen
    /\ circuit[AccountOn(r)] # "closed"

\* Where a request goes from `next`: on to the legs left; without any, to the
\* legs on open accounts, tried anyway since no admitted leg succeeded; to its
\* end without those.
Onward(next) ==
    IF next.todo # <<>> THEN next
    ELSE IF next.deferred = <<>> THEN Over
    ELSE [next EXCEPT !.todo = next.deferred, !.deferred = <<>>, !.failOpen = TRUE]

\* A leg is skipped: its account rejected this request, or its circuit is open.
Skip(r) ==
    /\ Deciding(r)
    /\ Exhausted(r) \/ Barred(r)
    /\ LET reason == IF Exhausted(r) THEN "exhausted_in_request" ELSE "circuit_open"
           next == [request[r] EXCEPT
                       !.todo = Tail(@),
                       !.deferred = IF reason = "circuit_open"
                                    THEN Append(@, LegOf(r)) ELSE @]
       IN  /\ pending' = [pending EXCEPT ![r] = {Event(reason, LegOf(r))}]
           /\ request' = [request EXCEPT ![r] = Onward(next)]
           /\ called' = IF Onward(next) = Over THEN [called EXCEPT ![r] = <<>>] ELSE called
    /\ UNCHANGED <<liveVars, circuit, hookVars, pageVars>>

\* The leg goes upstream, with an event `before` the call or none.
Calling(r, probing, before) ==
    /\ request' = [request EXCEPT ![r].phase = "calling", ![r].probing = probing]
    /\ called' = [called EXCEPT ![r] = Append(@, LegOf(r))]
    /\ pending' = [pending EXCEPT ![r] = before]
    /\ UNCHANGED <<liveVars, hookVars, pageVars>>

CallLeg(r) ==
    /\ Deciding(r)
    /\ ~ Exhausted(r) /\ ~ Barred(r) /\ ~ request[r].failOpen
    /\ Calling(r, FALSE, {})
    /\ UNCHANGED circuit

\* The cooldown of an open account is over: this request probes it.
Probe(r) ==
    /\ Deciding(r)
    /\ ~ Exhausted(r) /\ Barred(r)
    /\ circuit[AccountOn(r)] = "open"
    /\ circuit' = [circuit EXCEPT ![AccountOn(r)] = "half_open"]
    /\ Calling(r, TRUE, {Event("probing", LegOf(r))})

\* Fail-open.
CallAnyway(r) ==
    /\ Deciding(r)
    /\ request[r].failOpen /\ ~ Exhausted(r)
    /\ Calling(r, FALSE, {Event("fail_open", LegOf(r))})
    /\ UNCHANGED circuit

-----------------------------------------------------------------------------
(* The leg answers, and the hooks are called.                              *)

Answering(r) == request[r].phase = "calling" /\ pending[r] = {}

\* The attempt ends with the events `more`, and the request goes on or, `over`,
\* ends.
Ended(r, more, over, exhausted) ==
    LET next == [request[r] EXCEPT !.phase = "choosing", !.probing = FALSE,
                                   !.todo = Tail(@), !.exhausted = exhausted]
    IN  /\ request' = [request EXCEPT ![r] = IF over THEN Over ELSE Onward(next)]
        /\ called' = IF over \/ Onward(next) = Over
                     THEN [called EXCEPT ![r] = <<>>] ELSE called
        /\ pending' = [pending EXCEPT ![r] = more]
        /\ UNCHANGED <<liveVars, hookVars, pageVars>>

\* A success closes the circuit; whether one does that was admitted before
\* another request opened the circuit is left to the library.
Succeed(r) ==
    /\ Answering(r)
    /\ \E closes \in BOOLEAN :
        /\ closes => request[r].breaker /\ circuit[AccountOn(r)] # "closed"
        /\ (request[r].probing \/ request[r].failOpen)
               /\ circuit[AccountOn(r)] # "closed" => closes
        /\ Ended(r, IF closes THEN {Event("closed", LegOf(r))} ELSE {},
                 TRUE, request[r].exhausted)
        /\ circuit' = IF closes THEN [circuit EXCEPT ![AccountOn(r)] = "closed"]
                      ELSE circuit

\* A structured quota rejection opens it.  On an open circuit that is no new
\* opening; whether a failed probe reports one is left to the library.
RejectQuota(r) ==
    /\ Answering(r)
    /\ request[r].breaker
    /\ \E more \in {{}, {Event("opened", LegOf(r))}} :
        /\ circuit[AccountOn(r)] = "closed" => more # {}
        /\ circuit[AccountOn(r)] = "open" => more = {}
        /\ Ended(r, more, FALSE, request[r].exhausted \cup {AccountOn(r)})
    /\ circuit' = [circuit EXCEPT ![AccountOn(r)] = "open"]

\* Any other failure, the one of a caller that hung up included, is the leg's
\* own; a failed probe leaves its account open.
Fail(r) ==
    /\ Answering(r)
    /\ \E more \in {{}, {Event("unrecognized_429", LegOf(r))}}, over \in BOOLEAN :
        /\ ~ request[r].breaker => more = {}
        /\ over => more = {}
        /\ Ended(r, more, over, request[r].exhausted)
    /\ circuit' = IF request[r].probing /\ circuit[AccountOn(r)] = "half_open"
                  THEN [circuit EXCEPT ![AccountOn(r)] = "open"]
                  ELSE circuit

\* Mutant: an opening is not counted.
Record_NoOpening(e) ==
    /\ seen' = seen \cup {AccountOf[e.leg]}
    /\ transitions' = IF e.kind = "closed"
                      THEN [transitions EXCEPT ![AccountOf[e.leg]][e.kind] = @ + 1]
                      ELSE transitions
    /\ legCounts' = IF e.kind \in LegKinds
                    THEN [legCounts EXCEPT ![e.kind][e.leg] = @ + 1]
                    ELSE legCounts

\* record: one event, under the lock of the account counters.
Record(e) ==
    /\ seen' = seen \cup {AccountOf[e.leg]}
    /\ transitions' = IF e.kind \in Transitions
                      THEN [transitions EXCEPT ![AccountOf[e.leg]][e.kind] = @ + 1]
                      ELSE transitions
    /\ legCounts' = IF e.kind \in LegKinds
                    THEN [legCounts EXCEPT ![e.kind][e.leg] = @ + 1]
                    ELSE legCounts

\* The account hook is called with an event that request `r` owes it.
Hook(r) ==
    \E e \in pending[r] :
        /\ pending' = [pending EXCEPT ![r] = @ \ {e}]
        /\ Record(e)
        /\ UNCHANGED <<liveVars, circuit, request, called, pageVars>>

-----------------------------------------------------------------------------
(* GET /metrics: the circuits are the last argument evaluated before write *)
(* takes the lock of the account counters.                                 *)

InHooks == UNION {pending[r] : r \in Requests}

InHook(kind) == {AccountOf[e.leg] : e \in {e \in InHooks : e.kind = kind}}

\* Counters that only move once the account's circuit has been opened.
OpenTraces == {"circuit_open", "probing", "fail_open"}

\* Mutant: the counters are read before the circuits.
ReadOrder_CountersFirst == <<"counters", "circuits">>

ReadOrder == <<"circuits", "counters">>

\* Mutant: the gauge has the accounts the breaker lists alone.
Listed_OpenOnly(p) == {a \in Accounts : p.state[a] # "closed"}

\* The accounts of the gauge: those the hook has seen and those Circuits lists.
Listed(p) == p.seen \cup {a \in Accounts : p.state[a] # "closed"}

\* The page in progress with the part that is read next.
Page ==
    IF ReadOrder[parts + 1] = "circuits"
    THEN [draft EXCEPT !.state = circuit]
    ELSE [draft EXCEPT
             !.seen = seen,
             !.opened = [a \in Accounts |-> transitions[a]["opened"]],
             !.traced = {AccountOf[l] : l \in
                           {l \in Legs : \E k \in OpenTraces : legCounts[k][l] > 0}},
             !.late = InHook("opened")]

Completes == parts + 1 = Len(ReadOrder)

Metrics ==
    /\ parts' = IF Completes THEN 0 ELSE parts + 1
    /\ draft' = IF Completes THEN NoPage ELSE Page
    /\ listed' = IF Completes THEN Listed(Page) ELSE listed
    /\ UNCHANGED <<liveVars, circuit, requestVars, hookVars>>

-----------------------------------------------------------------------------

Request(r) ==
    \/ \E chat \in BOOLEAN, chain \in Chains : Admit(r, chat, chain)
    \/ Skip(r) \/ CallLeg(r) \/ Probe(r) \/ CallAnyway(r)
    \/ Succeed(r) \/ RejectQuota(r) \/ Fail(r)
    \/ Hook(r)

Next ==
    \/ TurnSwitch
    \/ \E r \in Requests : Request(r)
    \/ Metrics

Spec == Init /\ [][Next]_vars

-----------------------------------------------------------------------------
(* What the server promises of the breaker.                                *)

\* Switch, circuits, requests, events, counters and pages stay in their ranges.
TypeOK ==
    /\ disabled \in BOOLEAN
    /\ switches \in Nat
    /\ circuit \in [Accounts -> Circuits]
    /\ request \in [Requests -> RequestStates]
    /\ pending \in [Requests -> SUBSET Events]
    /\ called \in [Requests -> Seq(Legs)]
    /\ transitions \in [Accounts -> [Transitions -> Nat]]
    /\ legCounts \in [LegKinds -> [Legs -> Nat]]
    /\ seen \in SUBSET Accounts
    /\ parts \in {0, 1}
    /\ draft \in Pages
    /\ listed \in SUBSET Accounts

\* The transition counters follow the circuits, whatever the order in which
\* hooks of different requests are called: once no transition of an account is
\* still owed to a hook, it was opened at least as often as closed, and once
\* more while it is not closed (write: "opened on a structured quota
\* rejection, closed on a later success").
CountsFollowCircuits ==
    \A a \in Accounts : a \notin InHook("opened") \cup InHook("closed") =>
        LET t == transitions[a]
        IN  IF circuit[a] = "closed" THEN t["opened"] >= t["closed"]
            ELSE t["opened"] > t["closed"]

\* A page on which an account is open, or on which a leg of it was skipped,
\* probed or tried anyway, counts its opening, unless the hook of the request
\* that opened it was still running (metrics: circuits read before counters).
OpeningIsShown ==
    [][Metrics /\ Completes =>
        \A a \in Accounts :
            Page.state[a] # "closed" \/ a \in Page.traced =>
                Page.opened[a] > 0 \/ a \in Page.late]_vars

\* An account leaves the state gauge only while its events are still owed to
\* hooks (accountMetrics.seen: "so the state gauge can show closed accounts
\* too instead of only the ones currently open").
AccountsStayListed ==
    [][\A a \in listed \ listed' :
           \E e \in InHooks : AccountOf[e.leg] = a]_vars

\* A request admitted under the kill switch, or for an embedding, calls its
\* chain leg by leg until one succeeds or its caller leaves, whatever the
\* circuits say and however the switch is turned meanwhile (README: "restores
\* plain per-request fallback").
PlainFallback ==
    \A r \in Requests :
        request[r].plain =>
        LET ahead == IF request[r].phase = "calling" THEN Tail(request[r].todo)
                     ELSE request[r].todo
        IN  /\ called[r] \o ahead \in Chains
            /\ pending[r] = {}
=============================================================================
