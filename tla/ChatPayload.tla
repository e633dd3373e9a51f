------------------------------ MODULE ChatPayload ------------------------------
(***************************************************************************)
(* The data of chat turns (internal/server/chat.go): a body is decoded and *)
(* converted into the call of the library, the attempts of the call report *)
(* their debits, and the answer takes the tool calls and the sum back to   *)
(* the client, who may replay the calls in its next body.                  *)
(*                                                                         *)
(* One turn at a time: turns share none of this state.  What the call went *)
(* out with is forgotten when its first attempt ends.  One message stands  *)
(* for all of a body, since each is converted alone.                       *)
(***************************************************************************)
EXTENDS RequestAdapter, CreditTally, FiniteSets

CONSTANTS
    Requests,      \* what a client may send: a body and a message of it
    ReplayBody,    \* the body it replays an answer in
    Answers,       \* the tool calls a provider may answer with
    Debits,        \* the "credit" values an attempt may report
    MaxAttempts,   \* bound: attempts of a call
    MaxTurns,      \* bound: turns
    NoCredit       \* a debit the tally does not accept

IsBody(b) == \A k \in DOMAIN b : k \in STRING /\ b[k] \in Values
IsMessage(m) == \A p \in m : p \in Seq(STRING) /\ p # <<>>

\* What the leaves a client or the server adds are made of: true, but no axiom
\* of the provers.
OwnWords == {"role", "assistant", "content", "null", "tool_calls", "index", "int"}

ASSUME PayloadAssumption ==
    /\ OwnWords \subseteq STRING
    /\ \A q \in Requests :
           IsBody(q.body) /\ IsMessage(q.message) /\ WellTyped(q.message)
    /\ IsBody(ReplayBody)
    /\ \A a \in Answers : IsMessage(a) /\ WellTyped(a)
    /\ \A a \in Answers : \A p \in a : InCall(p) /\ ~ IsIndex(p)
    /\ Debits \subseteq Texts
    /\ MaxAttempts \in Nat /\ MaxTurns \in Nat
    /\ NoCredit \notin Nat

VARIABLES
    turns,     \* turns begun
    stage,     \* where the turn is
    body,      \* the keys of its body
    message,   \* its message
    wire,      \* the message the provider gets
    keys,      \* the keys that became options, and those of the extra body
    tally,     \* creditTally
    report,    \* the credit fields of the answer or of its headers, or nothing yet
    answered,  \* the tool calls of the last answer, as the provider wrote them
    reply      \* the same as the client read them

sentVars == <<body, message, wire, keys>>
replyVars == <<answered, reply>>
vars == <<turns, stage, sentVars, tally, report, replyVars>>

NoKeys == [options |-> {}, extra |-> {}]

Init ==
    /\ turns = 0
    /\ stage = "idle"
    /\ body = <<>> /\ message = {} /\ wire = {} /\ keys = NoKeys
    /\ tally = NewTally /\ report = <<>>
    /\ answered = {} /\ reply = {}

\* The messages of a client that has seen tool calls: its assistant turn.
Replayed ==
    {reply \cup c : c \in {{<<"role", "assistant">>},
                           {<<"role", "assistant">>, <<"content", "null">>}}}

Receive(b, m) ==
    /\ stage = "idle" /\ turns < MaxTurns
    /\ turns' = turns + 1
    /\ stage' = "received"
    /\ body' = b /\ message' = m
    /\ UNCHANGED <<wire, keys, tally, report, replyVars>>

\* UnmarshalJSON and BuildOptions, or a 400.
Build ==
    /\ stage = "received"
    /\ IF Undecodable(body) \/ Refused(body)
       THEN /\ stage' = "idle"
            /\ body' = <<>> /\ message' = {}
            /\ UNCHANGED <<wire, keys>>
       ELSE /\ stage' = "calling"
            /\ wire' = Wire(message)
            /\ keys' = [options |-> Options(body), extra |-> ExtraBody(body)]
            /\ UNCHANGED <<body, message>>
    /\ UNCHANGED <<turns, tally, report, replyVars>>

\* The hook of an attempt; a failed attempt can be billed as well.
Attempt(x) ==
    /\ stage \in {"calling", "billing"} /\ tally.attempts < MaxAttempts
    /\ stage' = "billing"
    /\ body' = <<>> /\ message' = {} /\ wire' = {} /\ keys' = NoKeys
    /\ tally' = Record(tally, x)
    /\ UNCHANGED <<turns, report, replyVars>>

\* The answer, streamed or not, or the error with its headers: no tool calls
\* then.
Respond(calls) ==
    /\ stage = "billing"
    /\ stage' = "answered"
    /\ report' = <<Apply(tally)>>
    /\ answered' = calls
    /\ reply' \in {calls, DeltaToolCalls(calls)}
    /\ UNCHANGED <<turns, sentVars, tally>>

\* The handler returns, and the next turn has a tally of its own.
Return ==
    /\ stage = "answered"
    /\ stage' = "idle"
    /\ tally' = NewTally /\ report' = <<>>
    /\ UNCHANGED <<turns, sentVars, replyVars>>

Next ==
    \/ \E q \in Requests : Receive(q.body, q.message)
    \/ \E m \in Replayed : Receive(ReplayBody, m)
    \/ Build
    \/ \E x \in Debits : Attempt(x)
    \/ \E calls \in Answers \cup {{}} : Respond(calls)
    \/ Return

Spec == Init /\ [][Next]_vars

-----------------------------------------------------------------------------
(* What the server promises of the data it converts.                       *)

\* Keys, leaves, tallies and reports stay in their ranges.
TypeOK ==
    /\ turns \in 0 .. MaxTurns
    /\ stage \in {"idle", "received", "calling", "billing", "answered"}
    /\ IsBody(body) /\ IsMessage(message \cup wire \cup answered \cup reply)
    /\ keys.options \subseteq DOMAIN body /\ keys.extra \subseteq DOMAIN body
    /\ tally \in DecimalTallies
    /\ report = <<>> \/ report = <<Apply(tally)>>

\* Keys smolllm.WithExtraBody panics on, and keys the server acts on itself.
Reserved == {"stream", "stream_options", "messages", "model"}
Consumed == Reserved \cup {"n"}

\* Every key a client gives a value is applied once, as an option or in the
\* extra body, or consumed; and nothing reserved or never sent is applied
\* (types.go: "Forwarding a client's stream_options would therefore take the
\* process down").  The struct, its two lists of keys and BuildOptions are
\* kept in step by hand.
KeysAccountedFor ==
    stage = "calling" =>
        LET applied == keys.options \cup keys.extra
        IN  /\ keys.options \cap keys.extra = {}
            /\ applied \cap Reserved = {}
            /\ applied \subseteq DOMAIN body
            /\ {k \in DOMAIN body : body[k] \in {"good", "bad", "other"}}
                   \subseteq applied \cup Consumed

\* Keys inside the function of a call that the union does not model are lost
\* with it when every call of the message is one of a function.
LostLeaves(m) ==
    {p \in m \ Modelled : InCall(p) /\ p[3] = "function" /\ restorerOwnsToolCalls(m)}

\* The provider gets every leaf of the client's message, whatever its role and
\* mixture of calls, but for the index of a call, and nothing else
\* (restoreMessageExtras; CONTEXT.md, "Message extra").
MessagesArriveWhole ==
    stage = "calling" =>
        wire = {p \in message : ~ IsIndex(p)} \ LostLeaves(message)

\* Tool calls a client got streamed or whole and replays reach the provider as
\* the provider wrote them: without the index DeltaToolCall added, with the
\* extras the union knows nothing of (restoreToolCallExtras: "A caller replaying
\* an assistant turn must reach the provider with it intact"), except that extras
\* inside a `function` are lost, as in every message, when all its calls are of
\* functions.
CallsReplayVerbatim ==
    stage = "calling" /\ message \in Replayed =>
        answered \ LostLeaves(message) = {p \in wire : p[1] = "tool_calls"}

\* The credit a turn reports is the exact sum of the debits accepted, however
\* their decimals and exponents differ, with the attempts it does not cover.
Amounts == {Amount(x) : x \in {x \in Debits : Accepts(x)}}

Account == INSTANCE CreditAccount WITH
    Debits <- Amounts,
    NoCredit <- NoCredit,
    tally <- [attempts |-> tally.attempts, known |-> tally.known, total |-> tally.total],
    report <- report

CreditIsExact == Account!CASpec
=============================================================================
