------------------------------ MODULE ChatTurn ------------------------------
(***************************************************************************)
(* Chat turns of the gateway (internal/server/chat.go): the handler of     *)
(* each request runs beside the library call that works for it, and both   *)
(* beside the client, who may hang up at any moment.  The library reports  *)
(* every attempt through a hook that first feeds the ledger shared by all  *)
(* requests, then the credit tally of its own request; the handler reads   *)
(* the tally once, when it answers.                                        *)
(*                                                                         *)
(* The library is external: its actions are what chat.go and the tests of  *)
(* internal/server rely on.                                                *)
(***************************************************************************)
EXTENDS AttemptEvents, Sequences, SequencesExt, FiniteSets

CONSTANTS
    Requests,      \* the chat requests
    Asks,          \* what a request may ask for
    Results,       \* what a provider may say of a turn: reason and tool calls
    StopClients,   \* bound: the requests whose client may stop reading
    MaxAttempts,   \* bound: upstream attempts of one request
    MaxChunks,     \* bound: chunks of one stream
    ChanCap        \* capacity of the library's chunk channel

\* `timed` is FALSE when the client sent `timeout: 0`, which lifts the limit
\* on an attempt.
AskType == [stream : BOOLEAN, includeUsage : BOOLEAN, timed : BOOLEAN]

ASSUME RequestsAssumption == IsFiniteSet(Requests)

\* The finish reason, "" when there is none, and whether it calls tools.
ResultType == [reason : STRING, tools : BOOLEAN]

ASSUME InputsAssumption == Asks \subseteq AskType /\ Results \subseteq ResultType

ASSUME BoundsAssumption ==
    /\ MaxAttempts \in Nat \ {0}
    /\ MaxChunks \in Nat
    /\ ChanCap \in Nat \ {0}

VARIABLES
    pc,         \* where the handler of a request is
    ask,        \* what the request asked for
    gone,       \* the client has hung up: the request's context is cancelled
    deaf,       \* the client keeps its connection and does not read from it
    closed,     \* the handler has called Close on the stream
    lib,        \* what the library call is doing
    result,     \* what the provider said of the turn
    offer,      \* the chunk the library is about to send
    chan,       \* chunks in the channel: 0 is empty, n is the n-th with text
    sent,       \* chunks the library has put into the channel
    hook,       \* the hook call in progress
    upstream,   \* what the attempts so far were really billed (history)
    tally,      \* the creditTally of the request
    bucket,     \* the ledger's bucket: requests and failures
    outcomes,   \* the ledger's attempt counters, by outcome
    status,     \* HTTP status written, 0 before
    out,        \* frames (or the one body) written to the client
    report      \* the credit report the client was given

clientVars  == <<gone, deaf>>
libVars     == <<lib, result, offer, chan, sent, upstream>>
hookVars    == <<hook, tally, bucket, outcomes>>
handlerVars == <<pc, ask, closed, status, out, report>>
vars == <<pc, ask, gone, deaf, closed, lib, result, offer, chan, sent, hook,
          upstream, tally, bucket, outcomes, status, out, report>>

-----------------------------------------------------------------------------

NoAsk == [stream |-> FALSE, includeUsage |-> FALSE, timed |-> FALSE]

Ended      == {"answered", "failed", "closedOk", "closedErr"}
LibStates  == {"idle", "trying", "streaming"} \cup Ended
Opened     == {"streaming", "closedOk", "closedErr"}
PCs        == {"start", "calling", "relaying", "abandoning", "draining", "done"}

NoHook == [at |-> "none", event |-> [error |-> "none",
              firstOutputTimeout |-> FALSE, credit |-> NoCredit]]
Hooks  == {NoHook} \cup [at : {"ledger", "tally"}, event : Events]

NoReport == [credit |-> <<>>, attempts |-> 0, known |-> 0, complete |-> TRUE]

NoResult == [reason |-> "", tools |-> FALSE]

\* What the library offers its channel, if anything: a chunk with or without text.
Offers == {"none", "text", "blank"}

Frames ==
    [kind : {"body", "role", "text", "error", "tools", "finish", "usage", "[DONE]"},
     n : Nat, reason : {x.reason : x \in Results} \cup {"", "stop", "tool_calls"}]

Frame(kind)    == [kind |-> kind, n |-> 0, reason |-> ""]
TextFrame(k)   == [kind |-> "text", n |-> k, reason |-> ""]

\* A body or a finish frame: both carry a finish reason.
LastFrame(kind, s) == [kind |-> kind, n |-> 0, reason |-> s]

\* Mutant: the provider's reason always passes through.
FinishReasonForTurn_Verbatim(reason, toolCalls) ==
    IF reason = "" THEN "stop" ELSE reason

FinishReasonForTurn(reason, toolCalls) ==
    IF toolCalls THEN "tool_calls" ELSE IF reason = "" THEN "stop" ELSE reason

ReasonOf(x) == FinishReasonForTurn(x.reason, x.tools)

Init ==
    /\ pc       = [r \in Requests |-> "start"]
    /\ ask      = [r \in Requests |-> NoAsk]
    /\ gone     = [r \in Requests |-> FALSE]
    /\ deaf     = [r \in Requests |-> FALSE]
    /\ closed   = [r \in Requests |-> FALSE]
    /\ lib      = [r \in Requests |-> "idle"]
    /\ result   = [r \in Requests |-> NoResult]
    /\ offer    = [r \in Requests |-> "none"]
    /\ chan     = [r \in Requests |-> <<>>]
    /\ sent     = [r \in Requests |-> [chunks |-> 0, texts |-> 0]]
    /\ hook     = [r \in Requests |-> NoHook]
    /\ upstream = [r \in Requests |-> EmptyTally]
    /\ tally    = [r \in Requests |-> EmptyTally]
    /\ bucket   = [requests |-> 0, failures |-> 0]
    /\ outcomes = [o \in Outcomes |-> 0]
    /\ status   = [r \in Requests |-> 0]
    /\ out      = [r \in Requests |-> <<>>]
    /\ report   = [r \in Requests |-> NoReport]

-----------------------------------------------------------------------------
(* The client.                                                             *)

HangUp(r) ==
    /\ pc[r] # "done"
    /\ ~gone[r]
    /\ gone' = [gone EXCEPT ![r] = TRUE]
    /\ UNCHANGED <<deaf, libVars, hookVars, handlerVars>>

\* The client stops reading, or takes it up again.
TurnDeaf(r) ==
    /\ r \in StopClients
    /\ pc[r] # "done"
    /\ ~gone[r]
    /\ deaf' = [deaf EXCEPT ![r] = ~@]
    /\ UNCHANGED <<gone, libVars, hookVars, handlerVars>>

-----------------------------------------------------------------------------
(* The library.                                                            *)

HookIdle(r) == hook[r].at = "none"

\* An attempt reports what became of it and what it cost; the library goes
\* on, or lets the handler go on, only when the hook has returned.
Emit(r, e) ==
    /\ HookIdle(r)
    /\ hook' = [hook EXCEPT ![r] = [at |-> "ledger", event |-> e]]
    /\ upstream' = [upstream EXCEPT ![r] = Billed(@, e.credit)]
    /\ UNCHANGED <<tally, bucket, outcomes>>

\* Only the client's leaving or the handler's Close cancels an attempt.
Cancellable(r, e) == e.error = "canceled" => gone[r] \/ closed[r]

\* A leg fails before it answers: the next leg is tried, or the call gives up.
AttemptFails(r) ==
    /\ lib[r] = "trying"
    /\ \E e \in Events :
        /\ ~Succeeded(e)
        /\ Cancellable(r, e)
        /\ Emit(r, e)
        /\ \/ lib' = [lib EXCEPT ![r] = "failed"]
           \/ /\ e.error # "canceled"
              /\ upstream[r].attempts + 1 < MaxAttempts
              /\ UNCHANGED lib
    /\ UNCHANGED <<result, offer, chan, sent, clientVars, handlerVars>>

AttemptAnswers(r) ==
    /\ lib[r] = "trying"
    /\ ~ask[r].stream
    /\ \E e \in Events : Succeeded(e) /\ Emit(r, e)
    /\ \E x \in Results : result' = [result EXCEPT ![r] = x]
    /\ lib' = [lib EXCEPT ![r] = "answered"]
    /\ UNCHANGED <<offer, chan, sent, clientVars, handlerVars>>

StreamOpens(r) ==
    /\ lib[r] = "trying"
    /\ ask[r].stream
    /\ HookIdle(r)
    /\ lib' = [lib EXCEPT ![r] = "streaming"]
    /\ UNCHANGED <<result, offer, chan, sent, upstream, clientVars, hookVars, handlerVars>>

\* The provider's next chunk.
Produce(r) ==
    /\ lib[r] = "streaming"
    /\ offer[r] = "none"
    /\ sent[r].chunks < MaxChunks
    /\ offer' \in {[offer EXCEPT ![r] = k] : k \in {"text", "blank"}}
    /\ UNCHANGED <<lib, result, chan, sent, upstream, clientVars, hookVars, handlerVars>>

\* It goes into the channel, once there is room.
Send(r) ==
    /\ lib[r] = "streaming"
    /\ offer[r] # "none"
    /\ Len(chan[r]) < ChanCap
    /\ LET n == sent[r].texts + 1
           text == offer[r] = "text"
       IN
        /\ chan' = [chan EXCEPT ![r] = Append(@, IF text THEN n ELSE 0)]
        /\ sent' = [sent EXCEPT ![r] =
               [chunks |-> @.chunks + 1, texts |-> IF text THEN n ELSE @.texts]]
    /\ offer' = [offer EXCEPT ![r] = "none"]
    /\ UNCHANGED <<lib, result, upstream, clientVars, hookVars, handlerVars>>

\* The channel closes at once; the hook of the last attempt may still run.  A
\* chunk that waits for room is given up only when the call fails.
StreamEnds(r) ==
    /\ lib[r] = "streaming"
    /\ \E e \in Events :
        /\ Cancellable(r, e)
        /\ Succeeded(e) => offer[r] = "none"
        /\ Emit(r, e)
        /\ IF Succeeded(e)
           THEN /\ lib' = [lib EXCEPT ![r] = "closedOk"]
                /\ \E x \in Results : result' = [result EXCEPT ![r] = x]
           ELSE /\ lib' = [lib EXCEPT ![r] = "closedErr"]
                /\ UNCHANGED result
    /\ offer' = [offer EXCEPT ![r] = "none"]
    /\ UNCHANGED <<chan, sent, clientVars, handlerVars>>

LibraryEnds(r) ==
    AttemptFails(r) \/ AttemptAnswers(r) \/ StreamEnds(r)

-----------------------------------------------------------------------------
(* The hook of chat: ledgerHook(e), then billing.record(e).                *)

HookLedger(r) ==
    /\ hook[r].at = "ledger"
    /\ LET e == hook[r].event IN
        /\ bucket' = [requests |-> bucket.requests + 1,
                      failures |-> bucket.failures + (IF Succeeded(e) THEN 0 ELSE 1)]
        /\ outcomes' = [outcomes EXCEPT ![OutcomeOf(e)] = @ + 1]
    /\ hook' = [hook EXCEPT ![r].at = "tally"]
    /\ UNCHANGED <<tally, clientVars, libVars, handlerVars>>

HookTally(r) ==
    /\ hook[r].at = "tally"
    /\ tally' = [tally EXCEPT ![r] = Billed(@, hook[r].event.credit)]
    /\ hook' = [hook EXCEPT ![r] = NoHook]
    /\ UNCHANGED <<bucket, outcomes, clientVars, libVars, handlerVars>>

-----------------------------------------------------------------------------
(* The handler.                                                            *)

\* The body does not decode, or BuildOptions refuses it.
Reject(r) ==
    /\ pc[r] = "start"
    /\ pc' = [pc EXCEPT ![r] = "done"]
    /\ status' = [status EXCEPT ![r] = 400]
    /\ UNCHANGED <<ask, closed, out, report, clientVars, libVars, hookVars>>

Call(r) ==
    /\ pc[r] = "start"
    /\ pc' = [pc EXCEPT ![r] = "calling"]
    /\ \E a \in Asks : ask' = [ask EXCEPT ![r] = a]
    /\ lib' = [lib EXCEPT ![r] = "trying"]
    /\ UNCHANGED <<closed, status, out, report, result, offer, chan, sent, upstream,
                   clientVars, hookVars>>

\* Mutant: an upstream failure is answered as one of the server's own.
FailCall_AsInternalError(r) ==
    /\ pc[r] = "calling"
    /\ lib[r] = "failed"
    /\ HookIdle(r)
    /\ pc' = [pc EXCEPT ![r] = "done"]
    /\ status' = [status EXCEPT ![r] = 500]
    /\ report' = [report EXCEPT ![r] = Report(tally[r])]
    /\ UNCHANGED <<ask, closed, out, clientVars, libVars, hookVars>>

\* Ask or Stream returned an error: errorHeaders, then 502.
FailCall(r) ==
    /\ pc[r] = "calling"
    /\ lib[r] = "failed"
    /\ HookIdle(r)
    /\ pc' = [pc EXCEPT ![r] = "done"]
    /\ status' = [status EXCEPT ![r] = 502]
    /\ report' = [report EXCEPT ![r] = Report(tally[r])]
    /\ UNCHANGED <<ask, closed, out, clientVars, libVars, hookVars>>

RespondBlocking(r) ==
    /\ pc[r] = "calling"
    /\ lib[r] = "answered"
    /\ HookIdle(r)
    /\ pc' = [pc EXCEPT ![r] = "done"]
    /\ status' = [status EXCEPT ![r] = 200]
    /\ report' = [report EXCEPT ![r] = Report(tally[r])]
    /\ out' = [out EXCEPT ![r] = <<LastFrame("body", ReasonOf(result[r]))>>]
    /\ UNCHANGED <<ask, closed, clientVars, libVars, hookVars>>

\* Stream returned: 200 and the role chunk go out.
OpenStream(r) ==
    /\ pc[r] = "calling"
    /\ lib[r] \in Opened
    /\ pc' = [pc EXCEPT ![r] = "relaying"]
    /\ status' = [status EXCEPT ![r] = 200]
    /\ out' = [out EXCEPT ![r] = <<Frame("role")>>]
    /\ UNCHANGED <<ask, closed, report, clientVars, libVars, hookVars>>

RelayChunk(r) ==
    /\ pc[r] = "relaying"
    /\ chan[r] # <<>>
    /\ chan' = [chan EXCEPT ![r] = Tail(@)]
    /\ IF Head(chan[r]) = 0
       THEN UNCHANGED out
       ELSE out' = [out EXCEPT ![r] = Append(@, TextFrame(Head(chan[r])))]
    /\ UNCHANGED <<pc, ask, closed, status, report, lib, result, offer, sent, upstream,
                   clientVars, hookVars>>

\* select took ctx.Done: Close, then wait.
NoticeHangUp(r) ==
    /\ pc[r] = "relaying"
    /\ gone[r]
    /\ pc' = [pc EXCEPT ![r] = "abandoning"]
    /\ closed' = [closed EXCEPT ![r] = TRUE]
    /\ UNCHANGED <<ask, status, out, report, clientVars, libVars, hookVars>>

\* Mutant: the final frames do not wait for the last hook.
WaitReturns_BeforeHook(r) == lib[r] \in Ended

\* Wait returns when the call has ended and its last hook has returned.
WaitReturns(r) == lib[r] \in Ended /\ HookIdle(r)

\* Mutant: the handler of a client that left returns without Wait.
AbandonStream_WithoutWait(r) ==
    /\ pc[r] = "abandoning"
    /\ pc' = [pc EXCEPT ![r] = "done"]
    /\ UNCHANGED <<ask, closed, status, out, report, clientVars, libVars, hookVars>>

\* Mutant: it waits for a channel that nobody reads any more.
AbandonStream_AwaitingDrain(r) ==
    /\ pc[r] = "abandoning"
    /\ WaitReturns(r)
    /\ chan[r] = <<>>
    /\ pc' = [pc EXCEPT ![r] = "done"]
    /\ UNCHANGED <<ask, closed, status, out, report, clientVars, libVars, hookVars>>

AbandonStream(r) ==
    /\ pc[r] = "abandoning"
    /\ WaitReturns(r)
    /\ pc' = [pc EXCEPT ![r] = "done"]
    /\ UNCHANGED <<ask, closed, status, out, report, clientVars, libVars, hookVars>>

\* Mutant: the loop stops when the call ends, chunks left in the channel.
ChannelClosed_Undrained(r) ==
    /\ pc[r] = "relaying"
    /\ lib[r] \in Ended
    /\ pc' = [pc EXCEPT ![r] = "draining"]
    /\ UNCHANGED <<ask, closed, status, out, report, clientVars, libVars, hookVars>>

ChannelClosed(r) ==
    /\ pc[r] = "relaying"
    /\ chan[r] = <<>>
    /\ lib[r] \in Ended
    /\ pc' = [pc EXCEPT ![r] = "draining"]
    /\ UNCHANGED <<ask, closed, status, out, report, clientVars, libVars, hookVars>>

UsageFrame(r) ==
    IF ask[r].includeUsage THEN <<Frame("usage")>> ELSE <<>>

ErrorTail(r) == <<Frame("error")>> \o UsageFrame(r) \o <<Frame("[DONE]")>>

FinishTail(r) ==
    (IF result[r].tools THEN <<Frame("tools")>> ELSE <<>>)
        \o <<LastFrame("finish", ReasonOf(result[r]))>>
        \o UsageFrame(r) \o <<Frame("[DONE]")>>

\* After Wait: the error frame, or tool calls and finish reason; then usage.
FinishStream(r) ==
    /\ pc[r] = "draining"
    /\ WaitReturns(r)
    /\ out' = [out EXCEPT ![r] =
           @ \o IF lib[r] = "closedErr" THEN ErrorTail(r) ELSE FinishTail(r)]
    /\ report' = IF ask[r].includeUsage
                 THEN [report EXCEPT ![r] = Report(tally[r])]
                 ELSE report
    /\ pc' = [pc EXCEPT ![r] = "done"]
    /\ closed' = [closed EXCEPT ![r] = TRUE]
    /\ UNCHANGED <<ask, status, clientVars, libVars, hookVars>>

Handler(r) ==
    \/ FailCall(r) \/ RespondBlocking(r) \/ OpenStream(r) \/ RelayChunk(r)
    \/ NoticeHangUp(r) \/ AbandonStream(r) \/ ChannelClosed(r) \/ FinishStream(r)

-----------------------------------------------------------------------------

Turn(r) ==
    \/ HangUp(r)
    \/ TurnDeaf(r)
    \/ Reject(r)
    \/ Call(r)
    \/ Handler(r)
    \/ HookLedger(r)
    \/ HookTally(r)
    \/ StreamOpens(r)
    \/ Produce(r)
    \/ Send(r)
    \/ LibraryEnds(r)

Next == \E r \in Requests : Turn(r)

Spec == Init /\ [][Next]_vars

\* The library ends a call whose attempts have a deadline, or whose context is
\* cancelled, or whose stream is closed.  Nothing ends any other call.
Bounded(r) == ask[r].timed \/ gone[r] \/ closed[r]

\* A send that waits for room is interrupted by a hang-up or by Close; that a
\* deadline interrupts it too is allowed, and not relied on.
Unblocked(r) == offer[r] = "none" \/ gone[r] \/ closed[r]

\* The server has no write timeout: what it writes to a client that neither reads
\* nor hangs up may block for good.
Reads(r) == ~deaf[r] \/ gone[r]

Fairness ==
    \A r \in Requests :
        /\ WF_vars(Reads(r) /\ Handler(r))
        /\ WF_vars(HookLedger(r) \/ HookTally(r))
        /\ WF_vars(Send(r))
        /\ WF_vars(Bounded(r) /\ Unblocked(r) /\ LibraryEnds(r))

FairSpec == Spec /\ Fairness

-----------------------------------------------------------------------------
(* What the turns promise.                                                 *)

\* Every variable of the handlers, the library, the hooks and the ledger
\* stays in its range.
TypeOK ==
    /\ pc \in [Requests -> PCs]
    /\ ask \in [Requests -> AskType]
    /\ gone \in [Requests -> BOOLEAN]
    /\ deaf \in [Requests -> BOOLEAN]
    /\ closed \in [Requests -> BOOLEAN]
    /\ lib \in [Requests -> LibStates]
    /\ result \in [Requests -> Results \cup {NoResult}]
    /\ offer \in [Requests -> Offers]
    /\ chan \in [Requests -> Seq(Nat)]
    /\ sent \in [Requests -> [chunks : Nat, texts : Nat]]
    /\ hook \in [Requests -> Hooks]
    /\ upstream \in [Requests -> Tallies]
    /\ tally \in [Requests -> Tallies]
    /\ bucket \in [requests : Nat, failures : Nat]
    /\ outcomes \in [Outcomes -> Nat]
    /\ status \in [Requests -> {0, 200, 400, 502}]
    /\ out \in [Requests -> Seq(Frames)]
    /\ report \in [Requests -> [credit : Seq(Nat), attempts : Nat,
                                known : Nat, complete : BOOLEAN]]

\* The credit report a client gets, as body, usage frame or error headers,
\* counts every attempt the request was ever billed for: it is written once
\* the last hook has returned, and nothing is billed after it
\* (credit_test.go, TestFinalUsageWaitsForDelayedAttemptHook).
ReportIsFinal ==
    \A r \in Requests : report[r] # NoReport => report[r] = Report(upstream[r])

\* The handler returns only when its library call has ended and its hook has
\* returned: nothing works, bills or records for a request already answered,
\* on the path of a client that hung up included (chatStream, ctx.Done).
NoWorkAfterReturn ==
    \A r \in Requests :
        pc[r] = "done" => lib[r] \in Ended \cup {"idle"} /\ HookIdle(r)

\* The ledger and the tallies, fed by the same hook one after the other, never
\* disagree by more than the hooks between the two: attempts are neither lost
\* nor counted twice when requests share the ledger, every attempt has exactly
\* one outcome, and the failures of the bucket are those not "ok".
LedgerAgreesWithTallies ==
    LET between == {r \in Requests : hook[r].at = "tally"}
        attempts == SumFunction([r \in Requests |-> tally[r].attempts])
        total == outcomes["ok"] + outcomes["first_output_timeout"]
                     + outcomes["error"] + outcomes["canceled"]
    IN  /\ bucket.requests = attempts + Cardinality(between)
        /\ total = bucket.requests
        /\ bucket.failures = total - outcomes["ok"]

Kinds(r) == {out[r][i].kind : i \in DOMAIN out[r]}

TextsAt(r) == {i \in DOMAIN out[r] : out[r][i].kind = "text"}

\* What the client has is, in order and once, the first chunks with text that
\* the library sent; and all of them when the stream tells the client that it has
\* finished, or failed.
StreamDeliversInOrder ==
    \A r \in Requests :
        LET texts == {out[r][i].n : i \in TextsAt(r)} IN
        /\ \A i, j \in TextsAt(r) : i < j => out[r][i].n < out[r][j].n
        /\ \E m \in 0..sent[r].texts : texts = 1..m
        /\ Kinds(r) \cap {"finish", "error"} # {} => texts = 1..sent[r].texts

\* The last frames, and the order they come in.
TailKinds == {"tools", "error", "finish", "usage", "[DONE]"}

Place(kind) ==
    CASE kind = "tools"  -> 1
      [] kind \in {"error", "finish"} -> 2
      [] kind = "usage"  -> 3
      [] kind = "[DONE]" -> 4
      [] OTHER -> 0

\* A reason given for a turn is the provider's but for tool calls and silence.
ReasonFits(given, x) ==
    /\ x.tools => given = "tool_calls"
    /\ ~x.tools /\ x.reason # "" => given = x.reason
    /\ ~x.tools /\ x.reason = "" => given = "stop"

TailIsHonest(r) ==
    LET tail == Kinds(r) \cap TailKinds IN
    /\ tail # {} =>
          /\ pc[r] = "done"
          /\ "[DONE]" \in tail
          /\ ("error" \in tail) <=> (lib[r] = "closedErr")
          /\ ("finish" \in tail) <=> (lib[r] = "closedOk")
          /\ ("tools" \in tail) <=> (lib[r] = "closedOk" /\ result[r].tools)
          /\ ("usage" \in tail) <=> ask[r].includeUsage
    /\ \A i, j \in DOMAIN out[r] :
          i < j /\ out[r][i].kind \in TailKinds =>
              Place(out[r][i].kind) < Place(out[r][j].kind)
    /\ \A i \in DOMAIN out[r] :
          out[r][i].kind \in {"body", "finish"} => ReasonFits(out[r][i].reason, result[r])
    /\ pc[r] = "done" /\ lib[r] \in Opened /\ tail = {} => gone[r]

\* What a turn says of its end is what became of the call.  The last frames of
\* a stream are tool calls exactly when the provider made some, an error exactly
\* when the library failed or a finish exactly when it did not, usage exactly
\* when the client asked for it, and [DONE], each once and in this order.  The
\* reason in a finish frame or a body is "tool_calls" for a turn with tool calls
\* whatever the provider said, for any other what the provider said, or "stop"
\* when it said nothing (finishReasonForTurn).  A stream that ends without these
\* frames ends so only for a client that has hung up.
StreamTailIsHonest == \A r \in Requests : TailIsHonest(r)

\* A turn whose attempts have a deadline ends, and so does one whose client
\* hangs up, whatever the provider does: a send blocked on a full channel, an
\* attempt that hangs and a hook in progress never keep the handler for good.
\* Only a client that stays and does not read can: nothing bounds a write to it.
EveryBoundedTurnEnds ==
    \A r \in Requests :
        (pc[r] \notin {"start", "done"} /\ Bounded(r)) ~>
            (pc[r] = "done" \/ ~Reads(r))
=============================================================================
