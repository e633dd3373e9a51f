---------------------------- MODULE ChatAdmission ----------------------------
(***************************************************************************)
(* A chat request reads the live configuration several times while reloads *)
(* swap it: the access key in auth.Middleware, then in chat, one after the *)
(* other, the snapshot whose aliases resolve the model, the request        *)
(* timeout and the first-output budget (chat.go, the arguments of          *)
(* BuildOptions).  The chain and the budget it calls the library with may  *)
(* thus be of two snapshots.  A request may also spell its chain out,       *)
(* which no file and no validation knows of.                               *)
(***************************************************************************)
EXTENDS ConfigStore

CONSTANTS
    Clients,    \* the requests
    RawLegs     \* the lengths of the chains a request may spell out itself

ASSUME RawAssumption == RawLegs \subseteq Nat \ {0} /\ RawLegs # {}

VARIABLE request    \* each request: its step and what it has read so far

vars == <<storeVars, request>>

Steps == {"arrived", "authorized", "resolved", "timed", "called", "refused"}

\* What a request has read; legs is the length of the chain it calls the library
\* with, and raw whether it spelt that out.
Requested ==
    [at : Steps, raw : BOOLEAN, legs : Nat, chain : Snapshots, budget : Snapshots]

AdmissionInit ==
    /\ Init
    /\ request = [q \in Clients |->
           [at |-> "arrived", raw |-> FALSE, legs |-> 0, chain |-> live, budget |-> live]]

\* auth.Middleware: the token is compared with the key of this moment.
Authorize(q) ==
    /\ request[q].at = "arrived"
    /\ \E token \in Keys \ {NoKey} :
          request' = [request EXCEPT ![q].at =
              IF token = live.content.key THEN "authorized" ELSE "refused"]
    /\ UNCHANGED storeVars

\* h.cfg().ResolveModel, a method value: it keeps the snapshot it was taken of.
\* A model that is no alias is used as it is.
Resolve(q) ==
    /\ request[q].at = "authorized"
    /\ \E raw \in BOOLEAN, n \in RawLegs :
          request' = [request EXCEPT
              ![q].at = "resolved", ![q].chain = live, ![q].raw = raw,
              ![q].legs = IF raw THEN n ELSE live.content.legs]
    /\ UNCHANGED storeVars

\* h.cfg().Server.RequestTimeout.
ReadTimeout(q) ==
    /\ request[q].at = "resolved"
    /\ request' = [request EXCEPT ![q].at = "timed"]
    /\ UNCHANGED storeVars

\* Mutant: the budget is the default of another snapshot, the one at arrival.
ReadBudget_AtArrival(q) ==
    /\ request[q].at = "timed"
    /\ request' = [request EXCEPT ![q].at = "called"]
    /\ UNCHANGED storeVars

\* h.cfg().Server.FirstOutputTimeout; then the library is called.
ReadBudget(q) ==
    /\ request[q].at = "timed"
    /\ request' = [request EXCEPT ![q].at = "called", ![q].budget = live]
    /\ UNCHANGED storeVars

Admission(q) == Authorize(q) \/ Resolve(q) \/ ReadTimeout(q) \/ ReadBudget(q)

AdmissionNext ==
    \/ StoreNext /\ UNCHANGED request
    \/ \E q \in Clients : Admission(q)

AdmissionSpec ==
    /\ AdmissionInit
    /\ [][AdmissionNext]_vars
    /\ StoreFairness

-----------------------------------------------------------------------------

\* Requests stay in their range.
AdmissionTypeOK == request \in [Clients -> Requested]

\* How long the chain can take before its first output, and how long its
\* snapshot says the clients wait.
WorstCase(q) == request[q].budget.content.budget * request[q].legs

Patience(q) == request[q].chain.content.limit

\* The library has been called for an alias, with a first-output budget.
CalledForAlias(q) ==
    /\ request[q].at = "called" /\ ~request[q].raw
    /\ request[q].budget.content.budget # 0

\* Settings of one request are read in the order they were adopted, so the
\* budget is never older than the chain it is applied to, as long as no two
\* reloads have run at once.
SettingsReadInOrder ==
    \A q \in Clients :
        request[q].at = "called" /\ ~overlapped =>
            request[q].chain.gen <= request[q].budget.gen

\* A call for an alias whose chain and budget are of the same file keeps its
\* worst case within the clients' patience, overlapping reloads or not.  (One
\* whose chain the request spells out may not: Validate sees aliases only.)
UntornCallsFit ==
    \A q \in Clients :
        CalledForAlias(q) /\ request[q].chain.gen = request[q].budget.gen
            => WorstCase(q) <= Patience(q)

\* Every call for an alias does ("keeps the worst case of a first-output-only
\* chain inside the client's header timeout", validateFirstOutputBudget).
WorstCaseFits ==
    \A q \in Clients : CalledForAlias(q) => WorstCase(q) <= Patience(q)
=============================================================================
