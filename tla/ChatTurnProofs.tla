---------------------------- MODULE ChatTurnProofs ----------------------------
(***************************************************************************)
(* For any number of requests and any bounds: the variables stay in their  *)
(* types, the credit report a client is given is final, no library call or *)
(* hook outlives its handler, streams arrive in order and end honestly,    *)
(* and the ledger agrees with the tallies of all requests.                 *)
(***************************************************************************)
EXTENDS ChatTurn, SumTheorems, TLAPS

\* The events and the tallies that the types are made of.
LEMMA BilledType ==
    ASSUME NEW t \in Tallies, NEW credit \in Debits \cup {NoCredit}
    PROVE  Billed(t, credit) \in Tallies
  BY DebitsAssumption DEF Tallies, Billed

\* What creditTally.report answers is a report, and never the absence of one.
LEMMA ReportType ==
    ASSUME NEW t \in Tallies
    PROVE  /\ Report(t) \in [credit : Seq(Nat), attempts : Nat, known : Nat,
                             complete : BOOLEAN]
           /\ Report(t) # NoReport
<1> DEFINE credit == IF t.known > 0 THEN <<t.total>> ELSE <<>>
<1>1. /\ t.attempts \in Nat
      /\ t.known \in Nat
      /\ t.total \in Nat
  BY DEF Tallies
<1>2. credit \in Seq(Nat)
  BY <1>1
<1>3. Report(t) = [credit |-> credit, attempts |-> t.attempts,
                   known |-> t.known,
                   complete |-> t.attempts > 0 /\ t.known = t.attempts]
  BY DEF Report
<1> HIDE DEF credit
<1>4. (t.attempts > 0 /\ t.known = t.attempts) \in BOOLEAN
  OBVIOUS
<1>5. Report(t) \in [credit : Seq(Nat), attempts : Nat, known : Nat,
                     complete : BOOLEAN]
  BY <1>1, <1>2, <1>3, <1>4
<1>6. Report(t).attempts = t.attempts
  BY <1>3
<1>7. Report(t).complete = (t.attempts > 0 /\ t.known = t.attempts)
  BY Zenon DEF Report
<1>8. NoReport.complete = TRUE /\ NoReport.attempts = 0
  BY DEF NoReport
<1>9. Report(t) # NoReport
  <2> SUFFICES ASSUME Report(t) = NoReport PROVE FALSE
    OBVIOUS
  <2>1. t.attempts = 0
    BY <1>6, <1>8
  <2>2. t.attempts > 0
    BY <1>7, <1>8, Zenon
  <2> QED
    BY <2>1, <2>2
<1> QED
  BY <1>5, <1>9

\* The tally of a request is what upstream billed it for, less the event its
\* hook still holds.
TallyFollows ==
    \A r \in Requests :
        upstream[r] = IF hook[r].at = "none" THEN tally[r]
                      ELSE Billed(tally[r], hook[r].event.credit)

\* Where the library may be at each step of the handler.
CallMatchesHandler ==
    \A r \in Requests :
        /\ pc[r] = "start" => lib[r] = "idle" /\ HookIdle(r)
        /\ pc[r] = "done" => lib[r] \in Ended \cup {"idle"} /\ HookIdle(r)

\* A report is given by a handler that returns.
ReportedWhenDone ==
    \A r \in Requests :
        report[r] # NoReport => pc[r] = "done" /\ report[r] = Report(tally[r])

IInv == TypeOK /\ TallyFollows /\ CallMatchesHandler /\ ReportedWhenDone

\* Before any request has called the library.
LEMMA InitIInv == Init => IInv
<1> SUFFICES ASSUME Init PROVE IInv
  OBVIOUS
<1>1. TypeOK
  BY DEF Init, TypeOK, PCs, NoAsk, AskType, LibStates, Offers, Hooks, EmptyTally,
         Tallies, Outcomes, NoReport
<1>2. TallyFollows
  BY DEF Init, TallyFollows, NoHook
<1>3. CallMatchesHandler
  BY DEF Init, CallMatchesHandler, HookIdle, NoHook
<1>4. ReportedWhenDone
  BY DEF Init, ReportedWhenDone
<1> QED
  BY <1>1, <1>2, <1>3, <1>4 DEF IInv

\* The steps that move neither the library nor a hook nor a tally keep the
\* tally beside upstream.
LEMMA QuietSteps ==
    ASSUME TallyFollows, UNCHANGED <<hook, tally, upstream>>
    PROVE  TallyFollows'
  BY DEF TallyFollows

\* An attempt handed to the hook is billed upstream before the tally has it.
LEMMA EmitStep ==
    ASSUME IInv, NEW r \in Requests, NEW e \in Events, Emit(r, e)
    PROVE  /\ hook' \in [Requests -> Hooks]
           /\ upstream' \in [Requests -> Tallies]
           /\ TallyFollows'
<1>1. e.credit \in Debits \cup {NoCredit}
  BY DEF Events
<1>2. Billed(upstream[r], e.credit) \in Tallies
  BY <1>1, BilledType DEF IInv, TypeOK
<1>3. [at |-> "ledger", event |-> e] \in Hooks
  BY DEF Hooks
<1>4. hook' \in [Requests -> Hooks] /\ upstream' \in [Requests -> Tallies]
  BY <1>2, <1>3 DEF IInv, TypeOK, Emit
<1>5. TallyFollows'
  BY DEF IInv, TypeOK, TallyFollows, Emit, HookIdle
<1> QED
  BY <1>4, <1>5

\* A client that leaves, or stops reading, touches nothing else.
LEMMA ClientStep ==
    ASSUME IInv, NEW r \in Requests, HangUp(r) \/ TurnDeaf(r)
    PROVE  IInv'
<1> USE DEF libVars, hookVars, handlerVars
<1>1. TypeOK'
  <2>1. CASE HangUp(r)
    BY <2>1 DEF IInv, TypeOK, HangUp
  <2>2. CASE TurnDeaf(r)
    <3> DEFINE other == ~deaf[r]
    <3>1. other \in BOOLEAN /\ deaf' = [deaf EXCEPT ![r] = other]
      BY <2>2 DEF TurnDeaf
    <3> HIDE DEF other
    <3>2. deaf' \in [Requests -> BOOLEAN]
      BY <3>1 DEF IInv, TypeOK
    <3> QED
      BY <2>2, <3>2 DEF IInv, TypeOK, TurnDeaf
  <2> QED
    BY <2>1, <2>2
<1>2. TallyFollows' /\ CallMatchesHandler' /\ ReportedWhenDone'
  BY DEF IInv, TallyFollows, CallMatchesHandler, ReportedWhenDone, HookIdle,
         HangUp, TurnDeaf
<1> QED
  BY <1>1, <1>2 DEF IInv

\* Each step of the library, one by one.
LEMMA LibraryStep ==
    ASSUME IInv, NEW r \in Requests,
           StreamOpens(r) \/ Produce(r) \/ Send(r) \/ LibraryEnds(r)
    PROVE  IInv'
<1> USE DEF clientVars, hookVars, handlerVars
<1>1. CASE StreamOpens(r)
  <2>1. TypeOK'
    BY <1>1 DEF IInv, TypeOK, StreamOpens, LibStates, Ended
  <2>2. pc[r] \notin {"start", "done"}
    BY <1>1 DEF IInv, CallMatchesHandler, StreamOpens, Ended
  <2>3. CallMatchesHandler'
    BY <1>1, <2>2 DEF IInv, TypeOK, CallMatchesHandler, HookIdle, StreamOpens
  <2>4. TallyFollows' /\ ReportedWhenDone'
    BY <1>1 DEF IInv, TallyFollows, ReportedWhenDone, StreamOpens
  <2> QED
    BY <2>1, <2>3, <2>4 DEF IInv
<1>2. CASE Send(r)
  <2>1. TypeOK'
    <3> DEFINE text == offer[r] = "text"
    <3>1. /\ chan' = [chan EXCEPT ![r] =
                 Append(@, IF text THEN sent[r].texts + 1 ELSE 0)]
          /\ sent' = [sent EXCEPT ![r] =
                 [chunks |-> @.chunks + 1,
                  texts |-> IF text THEN sent[r].texts + 1 ELSE @.texts]]
      BY <1>2 DEF Send
    <3>2. chan' \in [Requests -> Seq(Nat)]
      BY <3>1 DEF IInv, TypeOK
    <3>3. sent' \in [Requests -> [chunks : Nat, texts : Nat]]
      <4>1. sent[r].chunks + 1 \in Nat /\ sent[r].texts + 1 \in Nat /\ sent[r].texts \in Nat
        BY DEF IInv, TypeOK
      <4>2. sent' = [sent EXCEPT ![r] =
                [chunks |-> sent[r].chunks + 1,
                 texts |-> IF text THEN sent[r].texts + 1 ELSE sent[r].texts]]
        BY <3>1
      <4> QED
        BY <4>1, <4>2 DEF IInv, TypeOK
    <3> QED
      BY <1>2, <3>2, <3>3 DEF IInv, TypeOK, Send, Offers
  <2>2. TallyFollows' /\ CallMatchesHandler' /\ ReportedWhenDone'
    BY <1>2 DEF IInv, TypeOK, TallyFollows, CallMatchesHandler,
                ReportedWhenDone, HookIdle, Send
  <2> QED
    BY <2>1, <2>2 DEF IInv
<1>4. CASE Produce(r)
  <2>1. TypeOK'
    <3>1. PICK k \in Offers : offer' = [offer EXCEPT ![r] = k]
      BY <1>4 DEF Produce, Offers
    <3>2. offer' \in [Requests -> Offers]
      BY <3>1 DEF IInv, TypeOK
    <3> QED
      BY <1>4, <3>2 DEF IInv, TypeOK, Produce
  <2>2. TallyFollows' /\ CallMatchesHandler' /\ ReportedWhenDone'
    BY <1>4 DEF IInv, TypeOK, TallyFollows, CallMatchesHandler,
                ReportedWhenDone, HookIdle, Produce
  <2> QED
    BY <2>1, <2>2 DEF IInv
<1>3. CASE LibraryEnds(r)
  <2>1. PICK e \in Events : Emit(r, e)
    BY <1>3 DEF LibraryEnds, AttemptFails, AttemptAnswers, StreamEnds
  <2>2. /\ lib[r] \in {"trying", "streaming"}
        /\ \E s \in {"trying", "failed", "answered", "closedOk", "closedErr"} :
                lib' = [lib EXCEPT ![r] = s]
        /\ result' \in [Requests -> Results \cup {NoResult}]
        /\ offer' \in [Requests -> Offers]
        /\ UNCHANGED <<pc, ask, gone, deaf, closed, chan, sent, tally, bucket,
                       outcomes, status, out, report>>
    <3>1. CASE AttemptFails(r)
      <4>1. lib' = [lib EXCEPT ![r] = "failed"] \/ lib' = lib
        BY <3>1 DEF AttemptFails
      <4>2. lib' = [lib EXCEPT ![r] = "failed"] \/ lib' = [lib EXCEPT ![r] = "trying"]
        BY <3>1, <4>1 DEF AttemptFails, IInv, TypeOK
      <4> QED
        BY <3>1, <4>2 DEF AttemptFails, Emit, IInv, TypeOK
    <3>2. CASE AttemptAnswers(r)
      <4>1. PICK x \in Results : result' = [result EXCEPT ![r] = x]
        BY <3>2 DEF AttemptAnswers
      <4>2. result' \in [Requests -> Results \cup {NoResult}]
        BY <4>1 DEF IInv, TypeOK
      <4> QED
        BY <3>2, <4>2 DEF AttemptAnswers, Emit, IInv, TypeOK
    <3>3. CASE StreamEnds(r)
      <4>1. \/ result' = result
            \/ \E x \in Results : result' = [result EXCEPT ![r] = x]
        BY <3>3 DEF StreamEnds
      <4>2. result' \in [Requests -> Results \cup {NoResult}]
        <5>1. result \in [Requests -> Results \cup {NoResult}]
          BY DEF IInv, TypeOK
        <5>2. ASSUME NEW x \in Results, result' = [result EXCEPT ![r] = x]
              PROVE  result' \in [Requests -> Results \cup {NoResult}]
          BY <5>1, <5>2
        <5> QED
          BY <4>1, <5>1, <5>2
      <4>3. offer' \in [Requests -> Offers]
        BY <3>3 DEF StreamEnds, IInv, TypeOK, Offers
      <4> QED
        BY <3>3, <4>2, <4>3 DEF StreamEnds, Emit
    <3> QED
      BY <1>3, <3>1, <3>2, <3>3 DEF LibraryEnds
  <2>3. TypeOK'
    <3>1. lib' \in [Requests -> LibStates]
      BY <2>2 DEF IInv, TypeOK, LibStates, Ended
    <3>2. hook' \in [Requests -> Hooks] /\ upstream' \in [Requests -> Tallies]
      BY <2>1, EmitStep
    <3> QED
      BY <2>2, <3>1, <3>2 DEF IInv, TypeOK
  <2>4. TallyFollows'
    BY <2>1, EmitStep
  <2>5. pc[r] \notin {"start", "done"}
    BY <2>2 DEF IInv, CallMatchesHandler, Ended
  <2>6. CallMatchesHandler'
    BY <2>1, <2>2, <2>5 DEF IInv, TypeOK, CallMatchesHandler, HookIdle, Emit
  <2>7. ReportedWhenDone'
    BY <2>2 DEF IInv, ReportedWhenDone
  <2> QED
    BY <2>3, <2>4, <2>6, <2>7 DEF IInv
<1> QED
  BY <1>1, <1>2, <1>3, <1>4

\* The hook moves an event from its hands to the ledger, then to the tally.
LEMMA HookStep ==
    ASSUME IInv, NEW r \in Requests, HookLedger(r) \/ HookTally(r)
    PROVE  IInv'
<1> USE DEF clientVars, libVars, handlerVars
<1>0. hook[r] \in [at : {"ledger", "tally"}, event : Events]
  BY DEF IInv, TypeOK, Hooks, NoHook, HookLedger, HookTally
<1>1. CASE HookLedger(r)
  <2> DEFINE e == hook[r].event
  <2>1. OutcomeOf(e) \in Outcomes
    BY DEF OutcomeOf, Outcomes
  <2>2. hook' \in [Requests -> Hooks]
    BY <1>0, <1>1 DEF IInv, TypeOK, HookLedger, Hooks
  <2>3. bucket' \in [requests : Nat, failures : Nat]
    BY <1>1 DEF IInv, TypeOK, HookLedger
  <2>4. outcomes' \in [Outcomes -> Nat]
    BY <1>1, <2>1 DEF IInv, TypeOK, HookLedger
  <2>5. TypeOK'
    BY <1>1, <2>2, <2>3, <2>4 DEF IInv, TypeOK, HookLedger
  <2>6. TallyFollows'
    BY <1>0, <1>1 DEF IInv, TypeOK, TallyFollows, HookLedger
  <2>7. CallMatchesHandler' /\ ReportedWhenDone'
    BY <1>1 DEF IInv, TypeOK, CallMatchesHandler, ReportedWhenDone, HookIdle,
                HookLedger
  <2> QED
    BY <2>5, <2>6, <2>7 DEF IInv
<1>2. CASE HookTally(r)
  <2>1. hook[r].event.credit \in Debits \cup {NoCredit}
    BY <1>0 DEF Events
  <2>2. tally' \in [Requests -> Tallies]
    BY <1>2, <2>1, BilledType DEF IInv, TypeOK, HookTally
  <2>3. hook' \in [Requests -> Hooks]
    BY <1>2 DEF IInv, TypeOK, HookTally, Hooks
  <2>4. TypeOK'
    BY <1>2, <2>2, <2>3 DEF IInv, TypeOK, HookTally
  <2>5. TallyFollows'
    <3>1. upstream' = upstream /\ hook'[r].at = "none"
      BY <1>2 DEF IInv, TypeOK, HookTally, NoHook
    <3>2. upstream[r] = tally'[r]
      BY <1>2 DEF IInv, TypeOK, TallyFollows, HookTally
    <3>3. \A q \in Requests \ {r} : hook'[q] = hook[q] /\ tally'[q] = tally[q]
      BY <1>2 DEF IInv, TypeOK, HookTally
    <3> QED
      BY <3>1, <3>2, <3>3 DEF IInv, TallyFollows
  <2>6. pc[r] # "done" /\ pc[r] # "start"
    BY <1>2 DEF IInv, CallMatchesHandler, HookIdle, HookTally
  <2>7. CallMatchesHandler'
    BY <1>2, <2>6 DEF IInv, TypeOK, CallMatchesHandler, HookIdle, HookTally, NoHook
  <2>8. ReportedWhenDone'
    BY <1>2, <2>6 DEF IInv, TypeOK, ReportedWhenDone, HookTally
  <2> QED
    BY <2>4, <2>5, <2>7, <2>8 DEF IInv
<1> QED
  BY <1>1, <1>2

\* A handler step that gives no report.
LEMMA HandlerStep ==
    ASSUME IInv, NEW r \in Requests,
           \/ OpenStream(r) \/ RelayChunk(r) \/ NoticeHangUp(r)
           \/ AbandonStream(r) \/ ChannelClosed(r)
    PROVE  IInv'
<1> USE DEF clientVars, libVars, hookVars
<1>0. UNCHANGED <<lib, hook, upstream, tally, report>>
  BY DEF OpenStream, RelayChunk, NoticeHangUp, AbandonStream, ChannelClosed
<1>1. TallyFollows'
  BY <1>0, QuietSteps DEF IInv
<1>2. pc[r] \notin {"start", "done"}
  BY DEF OpenStream, RelayChunk, NoticeHangUp, AbandonStream, ChannelClosed
<1>3. \A q \in Requests \ {r} : pc'[q] = pc[q]
  BY DEF OpenStream, RelayChunk, NoticeHangUp, AbandonStream, ChannelClosed,
         IInv, TypeOK
<1>4. pc'[r] = "done" => lib[r] \in Ended /\ HookIdle(r)
  BY <1>2 DEF OpenStream, RelayChunk, NoticeHangUp, AbandonStream,
              ChannelClosed, WaitReturns, IInv, TypeOK
<1>5. pc'[r] # "start"
  BY <1>2 DEF OpenStream, RelayChunk, NoticeHangUp, AbandonStream,
              ChannelClosed, IInv, TypeOK
<1>6. CallMatchesHandler'
  BY <1>0, <1>3, <1>4, <1>5 DEF IInv, CallMatchesHandler, HookIdle
<1>7. ReportedWhenDone'
  BY <1>0, <1>2, <1>3 DEF IInv, ReportedWhenDone
<1>8. TypeOK'
  <2>1. CASE OpenStream(r)
    <3>1. Frame("role") \in Frames
      BY DEF Frame, Frames
    <3> HIDE DEF Frame
    <3>2. out' \in [Requests -> Seq(Frames)]
      BY <2>1, <3>1 DEF IInv, TypeOK, OpenStream
    <3> QED
      BY <2>1, <3>2 DEF IInv, TypeOK, OpenStream, PCs
  <2>2. CASE RelayChunk(r)
    <3>1. Head(chan[r]) \in Nat /\ Tail(chan[r]) \in Seq(Nat)
      BY <2>2 DEF IInv, TypeOK, RelayChunk
    <3>2. TextFrame(Head(chan[r])) \in Frames
      BY <3>1 DEF TextFrame, Frames
    <3>3. out' \in [Requests -> Seq(Frames)]
      <4> DEFINE f == TextFrame(Head(chan[r]))
      <4>1. out' = out \/ out' = [out EXCEPT ![r] = Append(out[r], f)]
        BY <2>2 DEF RelayChunk
      <4> HIDE DEF f
      <4>2. Append(out[r], f) \in Seq(Frames)
        BY <3>2 DEF f, IInv, TypeOK
      <4>3. out \in [Requests -> Seq(Frames)]
        BY DEF IInv, TypeOK
      <4> QED
        BY <4>1, <4>2, <4>3
    <3>4. chan' \in [Requests -> Seq(Nat)]
      BY <2>2, <3>1 DEF IInv, TypeOK, RelayChunk
    <3> QED
      BY <2>2, <3>3, <3>4 DEF IInv, TypeOK, RelayChunk
  <2>3. CASE NoticeHangUp(r)
    BY <2>3 DEF IInv, TypeOK, NoticeHangUp, PCs
  <2>4. CASE AbandonStream(r)
    BY <2>4 DEF IInv, TypeOK, AbandonStream, PCs
  <2>5. CASE ChannelClosed(r)
    BY <2>5 DEF IInv, TypeOK, ChannelClosed, PCs
  <2> QED
    BY <2>1, <2>2, <2>3, <2>4, <2>5
<1> QED
  BY <1>1, <1>6, <1>7, <1>8 DEF IInv

\* The frames that carry a reason.
LEMMA ReasonFrames ==
    ASSUME NEW x \in Results \cup {NoResult}, NEW kind \in {"body", "finish"}
    PROVE  LastFrame(kind, ReasonOf(x)) \in Frames
<1>1. ReasonOf(x) \in {y.reason : y \in Results} \cup {"", "stop", "tool_calls"}
  <2>1. ReasonOf(x) \in {x.reason, "stop", "tool_calls"}
    BY DEF ReasonOf, FinishReasonForTurn
  <2>2. x.reason \in {y.reason : y \in Results} \cup {""}
    <3>1. CASE x \in Results
      BY <3>1
    <3>2. CASE x = NoResult
      BY <3>2 DEF NoResult
    <3> QED
      BY <3>1, <3>2
  <2> QED
    BY <2>1, <2>2
<1> HIDE DEF ReasonOf
<1> QED
  BY <1>1 DEF LastFrame, Frames

\* A handler step that ends the request, with a report or before the call.
LEMMA ReplyStep ==
    ASSUME IInv, NEW r \in Requests,
           Reject(r) \/ FailCall(r) \/ RespondBlocking(r) \/ FinishStream(r)
    PROVE  IInv'
<1> USE DEF clientVars, libVars, hookVars
<1>0. UNCHANGED <<ask, lib, result, offer, chan, sent, hook, upstream, tally, bucket,
                  outcomes, gone, deaf>>
  BY DEF Reject, FailCall, RespondBlocking, FinishStream
<1>1. TallyFollows'
  BY <1>0, QuietSteps DEF IInv
<1>2. pc' = [pc EXCEPT ![r] = "done"]
  BY DEF Reject, FailCall, RespondBlocking, FinishStream
<1>3. lib[r] \in Ended \cup {"idle"} /\ HookIdle(r)
  BY DEF IInv, CallMatchesHandler, Reject, FailCall, RespondBlocking,
         FinishStream, WaitReturns, Ended
<1>4. CallMatchesHandler'
  BY <1>0, <1>2, <1>3 DEF IInv, TypeOK, CallMatchesHandler, HookIdle
<1>5. report' = report \/ report' = [report EXCEPT ![r] = Report(tally[r])]
  BY DEF Reject, FailCall, RespondBlocking, FinishStream
<1>6. ReportedWhenDone'
  BY <1>0, <1>2, <1>5 DEF IInv, TypeOK, ReportedWhenDone
<1>7. report' \in [Requests -> [credit : Seq(Nat), attempts : Nat,
                               known : Nat, complete : BOOLEAN]]
  <2>1. Report(tally[r]) \in [credit : Seq(Nat), attempts : Nat,
                               known : Nat, complete : BOOLEAN]
    BY ReportType DEF IInv, TypeOK
  <2>2. report \in [Requests -> [credit : Seq(Nat), attempts : Nat,
                                known : Nat, complete : BOOLEAN]]
    BY DEF IInv, TypeOK
  <2> QED
    BY <1>5, <2>1, <2>2
<1>8. out' \in [Requests -> Seq(Frames)]
  <2>1. CASE UNCHANGED out
    BY <2>1 DEF IInv, TypeOK
  <2>2. CASE RespondBlocking(r)
    <3> DEFINE body == LastFrame("body", ReasonOf(result[r]))
    <3>1. body \in Frames
      BY ReasonFrames DEF IInv, TypeOK
    <3>2. out' = [out EXCEPT ![r] = <<body>>]
      BY <2>2 DEF RespondBlocking
    <3> HIDE DEF body
    <3> QED
      BY <3>1, <3>2 DEF IInv, TypeOK
  <2>3. CASE FinishStream(r)
    <3>1. UsageFrame(r) \in Seq(Frames)
      <4>1. Frame("usage") \in Frames
        BY DEF Frame, Frames
      <4>2. <<Frame("usage")>> \in Seq(Frames) /\ <<>> \in Seq(Frames)
        BY <4>1
      <4> QED
        BY <4>2 DEF UsageFrame
    <3>2. ErrorTail(r) \in Seq(Frames)
      <4>1. Frame("error") \in Frames /\ Frame("[DONE]") \in Frames
        BY DEF Frame, Frames
      <4> QED
        BY <3>1, <4>1 DEF ErrorTail
    <3>3. FinishTail(r) \in Seq(Frames)
      <4> DEFINE tools == IF result[r].tools THEN <<Frame("tools")>> ELSE <<>>
                 finish == LastFrame("finish", ReasonOf(result[r]))
      <4>1. tools \in Seq(Frames)
        <5>1. Frame("tools") \in Frames
          BY DEF Frame, Frames
        <5>2. <<Frame("tools")>> \in Seq(Frames) /\ <<>> \in Seq(Frames)
          BY <5>1
        <5> QED
          BY <5>2
      <4>2. finish \in Frames
        BY ReasonFrames DEF IInv, TypeOK
      <4>3. Frame("[DONE]") \in Frames
        BY DEF Frame, Frames
      <4>4. FinishTail(r) =
              tools \o <<finish>> \o UsageFrame(r) \o <<Frame("[DONE]")>>
        BY DEF FinishTail
      <4> HIDE DEF tools, finish
      <4> QED
        BY <3>1, <4>1, <4>2, <4>3, <4>4
    <3>4. \E tail \in Seq(Frames) : out' = [out EXCEPT ![r] = @ \o tail]
      <4> DEFINE tail == IF lib[r] = "closedErr" THEN ErrorTail(r) ELSE FinishTail(r)
      <4>1. tail \in Seq(Frames)
        BY <3>2, <3>3
      <4>2. out' = [out EXCEPT ![r] = @ \o tail]
        BY <2>3 DEF FinishStream
      <4> HIDE DEF tail
      <4> QED
        BY <4>1, <4>2
    <3> QED
      BY <3>4 DEF IInv, TypeOK
  <2> QED
    BY <2>1, <2>2, <2>3 DEF Reject, FailCall
<1>9. TypeOK'
  <2>1. pc' \in [Requests -> PCs]
    BY <1>2 DEF IInv, TypeOK, PCs
  <2>2. closed' \in [Requests -> BOOLEAN] /\ status' \in [Requests -> {0, 200, 400, 502}]
    <3>1. closed' = closed \/ closed' = [closed EXCEPT ![r] = TRUE]
      BY DEF Reject, FailCall, RespondBlocking, FinishStream
    <3>2. \E n \in {200, 400, 502} : status' = status \/ status' = [status EXCEPT ![r] = n]
      <4>1. CASE Reject(r)
        BY <4>1 DEF Reject
      <4>2. CASE FailCall(r)
        BY <4>2 DEF FailCall
      <4>3. CASE RespondBlocking(r)
        BY <4>3 DEF RespondBlocking
      <4>4. CASE FinishStream(r)
        BY <4>4 DEF FinishStream
      <4> QED
        BY <4>1, <4>2, <4>3, <4>4
    <3>3. closed \in [Requests -> BOOLEAN] /\ status \in [Requests -> {0, 200, 400, 502}]
      BY DEF IInv, TypeOK
    <3>4. closed' \in [Requests -> BOOLEAN]
      <4>1. [closed EXCEPT ![r] = TRUE] \in [Requests -> BOOLEAN]
        BY <3>3
      <4>2. CASE closed' = closed
        BY <3>3, <4>2
      <4>3. CASE closed' = [closed EXCEPT ![r] = TRUE]
        BY <4>1, <4>3
      <4> QED
        BY <3>1, <4>2, <4>3
    <3>5. status' \in [Requests -> {0, 200, 400, 502}]
      BY <3>2, <3>3
    <3> QED
      BY <3>4, <3>5
  <2> QED
    BY <1>0, <1>7, <1>8, <2>1, <2>2 DEF IInv, TypeOK
<1> QED
  BY <1>1, <1>4, <1>6, <1>9 DEF IInv

\* Calling the library starts an attempt of a request that has none.
LEMMA CallStep ==
    ASSUME IInv, NEW r \in Requests, Call(r)
    PROVE  IInv'
<1> USE DEF clientVars, hookVars
<1>1. ask' \in [Requests -> AskType]
  BY InputsAssumption DEF IInv, TypeOK, Call
<1>2. TypeOK'
  BY <1>1 DEF IInv, TypeOK, Call, PCs, LibStates
<1>3. TallyFollows' /\ CallMatchesHandler'
  BY DEF IInv, TypeOK, TallyFollows, CallMatchesHandler, HookIdle, Call
<1>4. ReportedWhenDone'
  BY DEF IInv, TypeOK, ReportedWhenDone, Call
<1> QED
  BY <1>2, <1>3, <1>4 DEF IInv

\* Every step of client, library, hook and handler keeps the invariant.
LEMMA NextIInv == IInv /\ [Next]_vars => IInv'
<1> SUFFICES ASSUME IInv, [Next]_vars PROVE IInv'
  OBVIOUS
<1>1. ASSUME NEW r \in Requests, Turn(r) PROVE IInv'
  BY <1>1, ClientStep, LibraryStep, HookStep, HandlerStep, ReplyStep, CallStep
     DEF Turn, Handler
<1>2. CASE UNCHANGED vars
  BY <1>2 DEF vars, IInv, TypeOK, TallyFollows, CallMatchesHandler,
              ReportedWhenDone, HookIdle
<1> QED
  BY <1>1, <1>2 DEF Next

\* The inductive invariant of the chat turns.
THEOREM SpecIInv == Spec => []IInv
  BY InitIInv, NextIInv, PTL DEF Spec

\* The variables keep their types, for any requests and any bounds.
THEOREM TypeCorrect == Spec => []TypeOK
<1>1. IInv => TypeOK
  BY DEF IInv
<1> QED
  BY <1>1, SpecIInv, PTL

\* Every credit report a client is given counts every attempt the request was
\* billed for, whatever the library, the client and other requests do.
THEOREM ReportsAreFinal == Spec => []ReportIsFinal
<1>1. IInv => ReportIsFinal
  BY DEF IInv, TallyFollows, CallMatchesHandler, ReportedWhenDone,
         ReportIsFinal, HookIdle
<1> QED
  BY <1>1, SpecIInv, PTL

\* No library call and no hook outlives the handler that started it.
THEOREM HandlersOutliveTheirWork == Spec => []NoWorkAfterReturn
<1>1. IInv => NoWorkAfterReturn
  BY DEF IInv, CallMatchesHandler, NoWorkAfterReturn
<1> QED
  BY <1>1, SpecIInv, PTL

-----------------------------------------------------------------------------
(* Streams.                                                                *)

\* The chunks with text that the client does not have yet.
Pending(r) == {chan[r][i] : i \in DOMAIN chan[r]} \ {0}

\* The frames and the channel together: in order and without a gap, what the
\* client has of the text and then what it will get.
OrderAt(r) ==
    /\ \A i, j \in DOMAIN chan[r] :
          i < j /\ chan[r][j] # 0 => chan[r][i] < chan[r][j]
    /\ \A i, j \in TextsAt(r) : i < j => out[r][i].n < out[r][j].n
    /\ \E m \in 0..sent[r].texts :
          /\ {out[r][i].n : i \in TextsAt(r)} = 1..m
          /\ Pending(r) = (m + 1)..sent[r].texts

\* What a stream may hold at each step of its handler.
PhaseAt(r) ==
    /\ pc[r] \in {"start", "calling"} => out[r] = <<>>
    /\ pc[r] \in {"relaying", "abandoning", "draining"} =>
          Kinds(r) \subseteq {"role", "text"} /\ lib[r] \in Opened
    /\ pc[r] = "abandoning" => gone[r]
    /\ pc[r] = "draining" => chan[r] = <<>> /\ lib[r] \in Ended
    /\ Kinds(r) \cap {"finish", "error"} # {} => chan[r] = <<>>

\* The order alone is not inductive: that the last frames follow all of the text
\* needs the channel to be empty by then.
StreamInv == \A r \in Requests : OrderAt(r) /\ PhaseAt(r) /\ TailIsHonest(r)

\* The order speaks of frames, channel and chunks sent alone.
LEMMA OrderKept ==
    ASSUME NEW r, OrderAt(r), out'[r] = out[r], chan'[r] = chan[r],
           sent'[r] = sent[r]
    PROVE  OrderAt(r)'
  BY DEF OrderAt, TextsAt, Pending

\* The other conjuncts speak of what they mention alone.
LEMMA RestKept ==
    ASSUME NEW r, PhaseAt(r), TailIsHonest(r), out'[r] = out[r],
           chan'[r] = chan[r], pc'[r] = pc[r], lib'[r] = lib[r],
           ask'[r] = ask[r], result'[r] = result[r], gone'[r] = gone[r]
    PROVE  PhaseAt(r)' /\ TailIsHonest(r)'
<1>1. Kinds(r)' = Kinds(r)
  BY DEF Kinds
<1>2. PhaseAt(r)'
  BY <1>1 DEF PhaseAt
<1>3. TailIsHonest(r)'
  BY <1>1 DEF TailIsHonest
<1> QED
  BY <1>2, <1>3

\* A stream that has sent nothing but text says nothing of its end.
LEMMA OnlyText ==
    ASSUME NEW r, Kinds(r)' \subseteq {"role", "text"},
           pc'[r] = "done" /\ lib'[r] \in Opened => gone'[r]
    PROVE  TailIsHonest(r)'
<1>1. \A i \in DOMAIN out'[r] : out'[r][i].kind \in {"role", "text"}
  BY DEF Kinds
<1>2. Kinds(r)' \cap TailKinds = {}
  BY DEF TailKinds
<1> QED
  BY <1>1, <1>2 DEF TailIsHonest, TailKinds

\* Until the handler returns, nothing but text has been sent.
LEMMA TextBeforeReturn ==
    ASSUME IInv, StreamInv, NEW r \in Requests, pc[r] # "done"
    PROVE  Kinds(r) \subseteq {"role", "text"}
<1>1. pc[r] \in PCs /\ PhaseAt(r)
  BY DEF IInv, TypeOK, StreamInv
<1>2. CASE pc[r] \in {"start", "calling"}
  BY <1>1, <1>2 DEF PhaseAt, Kinds
<1>3. CASE pc[r] \in {"relaying", "abandoning", "draining"}
  BY <1>1, <1>3 DEF PhaseAt
<1> QED
  BY <1>1, <1>2, <1>3 DEF PCs

\* A step of one request leaves the streams of the others alone.
LEMMA OthersKept ==
    ASSUME IInv, NEW r \in Requests, Turn(r), NEW q \in Requests \ {r}
    PROVE  /\ out'[q] = out[q] /\ chan'[q] = chan[q] /\ sent'[q] = sent[q]
           /\ pc'[q] = pc[q] /\ lib'[q] = lib[q] /\ ask'[q] = ask[q]
           /\ result'[q] = result[q] /\ gone'[q] = gone[q]
<1> USE DEF IInv, TypeOK, clientVars, libVars, hookVars, handlerVars
<1>1. CASE HangUp(r) \/ TurnDeaf(r) \/ HookLedger(r) \/ HookTally(r)
  BY <1>1 DEF HangUp, TurnDeaf, HookLedger, HookTally
<1>2. CASE StreamOpens(r) \/ Produce(r) \/ Send(r)
  BY <1>2 DEF StreamOpens, Produce, Send
<1>3. CASE LibraryEnds(r)
  <2>1. result'[q] = result[q]
    <3>1. result' = result \/ \E x \in Results : result' = [result EXCEPT ![r] = x]
      BY <1>3 DEF LibraryEnds, AttemptFails, AttemptAnswers, StreamEnds
    <3> QED
      BY <3>1
  <2> QED
    BY <1>3, <2>1 DEF LibraryEnds, AttemptFails, AttemptAnswers, StreamEnds
<1>4. CASE Reject(r) \/ Call(r) \/ FailCall(r)
  BY <1>4 DEF Reject, Call, FailCall
<1>8. CASE RespondBlocking(r)
  <2>1. \E s : out' = [out EXCEPT ![r] = s]
    BY <1>8 DEF RespondBlocking
  <2>2. out'[q] = out[q]
    BY <2>1
  <2> QED
    BY <1>8, <2>2 DEF RespondBlocking
<1>5. CASE OpenStream(r) \/ NoticeHangUp(r) \/ AbandonStream(r) \/ ChannelClosed(r)
  BY <1>5 DEF OpenStream, NoticeHangUp, AbandonStream, ChannelClosed
<1>6. CASE RelayChunk(r)
  <2>1. out'[q] = out[q]
    <3>1. out' = out \/ \E s : out' = [out EXCEPT ![r] = s]
      BY <1>6 DEF RelayChunk
    <3> QED
      BY <3>1
  <2> QED
    BY <1>6, <2>1 DEF RelayChunk
<1>7. CASE FinishStream(r)
  BY <1>7 DEF FinishStream
<1> QED
  BY <1>1, <1>2, <1>3, <1>4, <1>5, <1>6, <1>7, <1>8 DEF Turn, Handler

\* Steps that leave the channel and the frames alone.
LEMMA SilentStep ==
    ASSUME IInv, StreamInv, NEW r \in Requests,
           \/ HangUp(r) \/ TurnDeaf(r) \/ HookLedger(r) \/ HookTally(r)
           \/ StreamOpens(r) \/ Produce(r) \/ LibraryEnds(r)
           \/ Reject(r) \/ Call(r) \/ FailCall(r)
           \/ NoticeHangUp(r) \/ AbandonStream(r) \/ ChannelClosed(r)
    PROVE  OrderAt(r)' /\ PhaseAt(r)' /\ TailIsHonest(r)'
<1> USE DEF clientVars, libVars, hookVars, handlerVars
<1>0. /\ OrderAt(r) /\ PhaseAt(r)
      /\ pc \in [Requests -> PCs] /\ lib \in [Requests -> LibStates]
      /\ ask \in [Requests -> AskType] /\ gone \in [Requests -> BOOLEAN]
  BY DEF StreamInv, IInv, TypeOK
<1>1. UNCHANGED <<out, chan, sent>>
  BY DEF HangUp, TurnDeaf, HookLedger, HookTally, StreamOpens, Produce, LibraryEnds,
         AttemptFails, AttemptAnswers, StreamEnds, Reject, Call, FailCall,
         NoticeHangUp, AbandonStream, ChannelClosed
<1>2. OrderAt(r)'
  BY <1>0, <1>1, OrderKept
<1>3. pc[r] # "done"
  BY DEF IInv, CallMatchesHandler, HookIdle, HangUp, TurnDeaf, HookLedger, HookTally,
         StreamOpens, Produce, LibraryEnds, AttemptFails, AttemptAnswers, StreamEnds,
         Reject, Call, FailCall, NoticeHangUp, AbandonStream, ChannelClosed, Ended
<1>4. Kinds(r) \subseteq {"role", "text"} /\ Kinds(r)' = Kinds(r)
  BY <1>1, <1>3, TextBeforeReturn DEF Kinds
<1>5. CASE \/ HangUp(r) \/ TurnDeaf(r) \/ HookLedger(r) \/ HookTally(r)
           \/ StreamOpens(r) \/ Produce(r) \/ LibraryEnds(r)
  <2>1. pc' = pc /\ (gone[r] => gone'[r])
    BY <1>0, <1>5 DEF HangUp, TurnDeaf, HookLedger, HookTally, StreamOpens, Produce,
       LibraryEnds, AttemptFails, AttemptAnswers, StreamEnds
  <2>2. /\ lib[r] \in Opened => lib'[r] \in Opened
        /\ lib[r] \in Ended => lib'[r] \in Ended
    BY <1>0, <1>5 DEF HangUp, TurnDeaf, HookLedger, HookTally, StreamOpens, Produce,
       LibraryEnds, AttemptFails, AttemptAnswers, StreamEnds, Opened, Ended
  <2>3. PhaseAt(r)'
    BY <1>0, <1>1, <1>4, <2>1, <2>2 DEF PhaseAt
  <2>4. TailIsHonest(r)'
    BY <1>3, <1>4, <2>1, OnlyText
  <2> QED
    BY <1>2, <2>3, <2>4
<1>6. CASE \/ Reject(r) \/ Call(r) \/ FailCall(r)
           \/ NoticeHangUp(r) \/ AbandonStream(r) \/ ChannelClosed(r)
  <2>1. PhaseAt(r)'
    BY <1>0, <1>1, <1>4, <1>6 DEF PhaseAt, Reject, Call, FailCall, NoticeHangUp,
       AbandonStream, ChannelClosed
  <2>2. pc'[r] = "done" /\ lib'[r] \in Opened => gone'[r]
    BY <1>0, <1>6 DEF PhaseAt, IInv, CallMatchesHandler, Reject, Call, FailCall,
       NoticeHangUp, AbandonStream, ChannelClosed, Opened
  <2>3. TailIsHonest(r)'
    BY <1>4, <2>2, OnlyText
  <2> QED
    BY <1>2, <2>1, <2>3
<1> QED
  BY <1>5, <1>6

\* A chunk with text is one more than the last one sent.
LEMMA SendStep ==
    ASSUME IInv, StreamInv, NEW r \in Requests, Send(r)
    PROVE  OrderAt(r)' /\ PhaseAt(r)' /\ TailIsHonest(r)'
<1> DEFINE c == chan[r]
           N == sent[r].texts
<1>0. /\ OrderAt(r) /\ PhaseAt(r)
      /\ c \in Seq(Nat) /\ N \in Nat
      /\ chan \in [Requests -> Seq(Nat)]
      /\ sent \in [Requests -> [chunks : Nat, texts : Nat]]
  BY DEF StreamInv, IInv, TypeOK
<1>1. lib[r] = "streaming" /\ pc[r] # "done"
  BY DEF Send, IInv, CallMatchesHandler, Ended
<1>2. UNCHANGED <<out, pc, lib, ask, gone>>
  BY DEF Send, handlerVars, clientVars
<1>3. PICK x \in {0, N + 1} : /\ chan'[r] = Append(c, x)
                             /\ sent'[r].texts = IF x = 0 THEN N ELSE N + 1
  BY <1>0 DEF Send
<1>4. Kinds(r) \subseteq {"role", "text"} /\ Kinds(r)' = Kinds(r)
  BY <1>1, <1>2, TextBeforeReturn DEF Kinds
<1>5. TailIsHonest(r)'
  BY <1>1, <1>2, <1>4, OnlyText
<1>6. PhaseAt(r)'
  BY <1>0, <1>1, <1>2, <1>4 DEF PhaseAt, Ended
<1>7. PICK m \in 0..N : /\ {out[r][i].n : i \in TextsAt(r)} = 1..m
                        /\ Pending(r) = (m + 1)..N
  BY <1>0 DEF OrderAt
<1>8. \A i \in DOMAIN c : c[i] \in 0..N
  <2> SUFFICES ASSUME NEW i \in DOMAIN c, c[i] # 0 PROVE c[i] \in 0..N
    BY <1>0
  <2>1. c[i] \in Pending(r)
    BY DEF Pending
  <2> QED
    BY <1>0, <1>7, <2>1
<1>9. TextsAt(r)' = TextsAt(r)
  BY <1>2 DEF TextsAt
<1> DEFINE d == Append(c, x)
           M == IF x = 0 THEN N ELSE N + 1
<1>10. /\ DOMAIN c = 1..Len(c) /\ DOMAIN d = 1..(Len(c) + 1) /\ Len(c) \in Nat
       /\ \A i \in DOMAIN c : d[i] = c[i]
       /\ d[Len(c) + 1] = x
  BY <1>0
<1>11. /\ \A i, j \in DOMAIN c : i < j /\ c[j] # 0 => c[i] < c[j]
       /\ {c[i] : i \in DOMAIN c} \ {0} = (m + 1)..N
  BY <1>0, <1>7 DEF OrderAt, Pending
<1>12. chan'[r] = d /\ sent'[r].texts = M /\ M \in Nat /\ m \in 0..M
  BY <1>0, <1>3
<1> HIDE DEF c, d, N
<1>13. ASSUME NEW i \in DOMAIN d, NEW j \in DOMAIN d, i < j, d[j] # 0
       PROVE  d[i] < d[j]
  <2>1. i \in DOMAIN c
    BY <1>10, <1>13
  <2>2. CASE j \in DOMAIN c
    BY <1>10, <1>11, <1>13, <2>1, <2>2
  <2>3. CASE j = Len(c) + 1
    <3>1. d[j] = N + 1 /\ d[i] = c[i] /\ c[i] \in 0..N
      BY <1>8, <1>10, <1>13, <2>1, <2>3
    <3> QED
      BY <1>0, <3>1
  <2> QED
    BY <1>10, <2>2, <2>3
<1>14. {d[i] : i \in DOMAIN d} \ {0} = (m + 1)..M
  <2>1. {d[i] : i \in DOMAIN d} = {c[i] : i \in DOMAIN c} \cup {x}
    BY <1>10
  <2>2. (m + 1)..(N + 1) = ((m + 1)..N) \cup {N + 1} /\ N + 1 # 0
    BY <1>0
  <2> QED
    BY <1>11, <2>1, <2>2
<1>15. /\ {out'[r][i].n : i \in TextsAt(r)'} = 1..m
       /\ \A i, j \in TextsAt(r)' : i < j => out'[r][i].n < out'[r][j].n
  BY <1>0, <1>2, <1>7, <1>9 DEF OrderAt
<1>16. OrderAt(r)'
  BY <1>12, <1>13, <1>14, <1>15 DEF OrderAt, Pending
<1> QED
  BY <1>5, <1>6, <1>16

\* A chunk with text leaves the channel for the client, one without is dropped.
LEMMA RelayStep ==
    ASSUME IInv, StreamInv, NEW r \in Requests, RelayChunk(r)
    PROVE  OrderAt(r)' /\ PhaseAt(r)' /\ TailIsHonest(r)'
<1> DEFINE c == chan[r]
           d == Tail(c)
           o == out[r]
           h == Head(c)
           N == sent[r].texts
<1>0. /\ OrderAt(r) /\ PhaseAt(r)
      /\ c \in Seq(Nat) /\ N \in Nat /\ o \in Seq(Frames)
      /\ chan \in [Requests -> Seq(Nat)] /\ out \in [Requests -> Seq(Frames)]
  BY DEF StreamInv, IInv, TypeOK
<1>1. /\ UNCHANGED <<pc, lib, ask, gone, sent>> /\ pc[r] = "relaying" /\ c # <<>>
      /\ chan'[r] = d
  BY <1>0 DEF RelayChunk, libVars, clientVars
<1>2. /\ DOMAIN c = 1..Len(c) /\ DOMAIN d = 1..(Len(c) - 1) /\ Len(c) \in Nat \ {0}
      /\ \A i \in DOMAIN d : i + 1 \in DOMAIN c /\ d[i] = c[i + 1]
      /\ \A i \in DOMAIN c : i = 1 \/ (i - 1 \in DOMAIN d /\ c[i] = d[i - 1])
      /\ c[1] = h /\ 1 \in DOMAIN c /\ \A i \in DOMAIN c : c[i] \in Nat
  BY <1>0, <1>1
<1>3. /\ \A i, j \in DOMAIN c : i < j /\ c[j] # 0 => c[i] < c[j]
      /\ \A i, j \in TextsAt(r) : i < j => o[i].n < o[j].n
  BY <1>0 DEF OrderAt
<1>4. PICK m \in 0..N : /\ {o[i].n : i \in TextsAt(r)} = 1..m
                        /\ {c[i] : i \in DOMAIN c} \ {0} = (m + 1)..N
  BY <1>0 DEF OrderAt, Pending
<1>5. \A i, j \in DOMAIN d : i < j /\ d[j] # 0 => d[i] < d[j]
  <2> HIDE DEF c, d
  <2> QED
    BY <1>2, <1>3
<1>6. {c[i] : i \in DOMAIN c} = {d[i] : i \in DOMAIN d} \cup {h}
  <2> HIDE DEF c, d, h
  <2>1. {c[i] : i \in DOMAIN c} \subseteq {d[i] : i \in DOMAIN d} \cup {h}
    BY <1>2
  <2>2. {d[i] : i \in DOMAIN d} \cup {h} \subseteq {c[i] : i \in DOMAIN c}
    BY <1>2
  <2> QED
    BY <2>1, <2>2
<1>7. Kinds(r) \subseteq {"role", "text"}
  BY <1>0, <1>1 DEF PhaseAt
<1>8. CASE h = 0
  <2>1. out' = out
    BY <1>8 DEF RelayChunk
  <2>2. {d[i] : i \in DOMAIN d} \ {0} = (m + 1)..N
    BY <1>4, <1>6, <1>8
  <2>3. TextsAt(r)' = TextsAt(r) /\ Kinds(r)' = Kinds(r)
    BY <2>1 DEF TextsAt, Kinds
  <2>4. OrderAt(r)'
    <3> HIDE DEF d
    <3> QED
      BY <1>1, <1>3, <1>4, <1>5, <2>1, <2>2, <2>3 DEF OrderAt, Pending
  <2>5. PhaseAt(r)' /\ TailIsHonest(r)'
    BY <1>0, <1>1, <1>7, <2>3, OnlyText DEF PhaseAt
  <2> QED
    BY <2>4, <2>5
<1>9. CASE h # 0
  <2> DEFINE p == Append(o, TextFrame(h))
  <2>1. out'[r] = p
    BY <1>0, <1>9 DEF RelayChunk
  <2>2. /\ DOMAIN o = 1..Len(o) /\ DOMAIN p = 1..(Len(o) + 1) /\ Len(o) \in Nat
        /\ \A i \in DOMAIN o : p[i] = o[i]
        /\ p[Len(o) + 1].kind = "text" /\ p[Len(o) + 1].n = h
    <3>1. p[Len(o) + 1] = TextFrame(h) /\ \A i \in DOMAIN o : p[i] = o[i]
      BY <1>0
    <3>2. TextFrame(h).kind = "text" /\ TextFrame(h).n = h
      BY DEF TextFrame
    <3>3. DOMAIN o = 1..Len(o) /\ DOMAIN p = 1..(Len(o) + 1) /\ Len(o) \in Nat
      BY <1>0
    <3> QED
      BY <3>1, <3>2, <3>3
  <2> HIDE DEF c, d, o, p, h, N
  <2>3. h = m + 1 /\ m + 1 <= N
    <3>1. h \in (m + 1)..N
      BY <1>2, <1>4, <1>9
    <3>2. m + 1 \in (m + 1)..N
      BY <1>0, <3>1
    <3>3. PICK k \in DOMAIN c : c[k] = m + 1
      BY <1>4, <3>2
    <3>4. CASE k = 1
      BY <1>2, <3>1, <3>3, <3>4
    <3>5. CASE k # 1
      <4>0. c[k] # 0 /\ 1 < k
        BY <1>0, <1>2, <3>3, <3>5
      <4>1. c[1] < c[k]
        BY <1>2, <1>3, <4>0
      <4> QED
        BY <1>0, <1>2, <3>1, <3>3, <4>1
    <3> QED
      BY <3>1, <3>4, <3>5
  <2>4. {d[i] : i \in DOMAIN d} \ {0} = ((m + 1) + 1)..N
    <3>1. h \notin {d[i] : i \in DOMAIN d}
      <4> SUFFICES ASSUME NEW i \in DOMAIN d, d[i] = h PROVE FALSE
        OBVIOUS
      <4>1. i + 1 \in DOMAIN c /\ c[i + 1] = h /\ 1 < i + 1
        BY <1>2
      <4>2. c[1] < c[i + 1]
        BY <1>2, <1>3, <1>9, <4>1
      <4> QED
        BY <1>2, <4>1, <4>2
    <3>2. {d[i] : i \in DOMAIN d} \ {0} = ((m + 1)..N) \ {m + 1}
      BY <1>4, <1>6, <2>3, <3>1
    <3>3. ((m + 1)..N) \ {m + 1} = ((m + 1) + 1)..N
      BY <1>0
    <3> QED
      BY <3>2, <3>3
  <2>5. TextsAt(r)' = TextsAt(r) \cup {Len(o) + 1} /\ TextsAt(r) \subseteq 1..Len(o)
    <3>1. TextsAt(r)' = {i \in DOMAIN p : p[i].kind = "text"}
      BY <2>1 DEF TextsAt
    <3>2. TextsAt(r) = {i \in DOMAIN o : o[i].kind = "text"}
      BY DEF TextsAt, o
    <3> QED
      BY <2>2, <3>1, <3>2
  <2>6. {p[i].n : i \in TextsAt(r)'} = 1..(m + 1)
    <3>1. {p[i].n : i \in TextsAt(r)'} = {o[i].n : i \in TextsAt(r)} \cup {m + 1}
      BY <2>2, <2>3, <2>5
    <3>2. (1..m) \cup {m + 1} = 1..(m + 1)
      BY <1>0
    <3> QED
      BY <1>4, <3>1, <3>2
  <2>7. ASSUME NEW i \in TextsAt(r)', NEW j \in TextsAt(r)', i < j
        PROVE  p[i].n < p[j].n
    <3>1. i \in TextsAt(r) /\ p[i] = o[i]
      BY <2>2, <2>5, <2>7
    <3>2. CASE j \in TextsAt(r)
      BY <1>3, <2>2, <2>5, <2>7, <3>1, <3>2
    <3>3. CASE j = Len(o) + 1
      <4>1. o[i].n \in 1..m
        BY <1>4, <3>1
      <4>2. p[j].n = m + 1
        BY <2>2, <2>3, <3>3
      <4> QED
        BY <3>1, <4>1, <4>2
    <3> QED
      BY <2>5, <3>2, <3>3
  <2>8. sent'[r].texts = N /\ m + 1 \in 0..N
    <3>1. sent'[r].texts = N
      BY <1>1 DEF N
    <3> QED
      BY <1>0, <2>3, <3>1
  <2>9. OrderAt(r)'
    BY <1>1, <1>5, <2>1, <2>4, <2>6, <2>7, <2>8 DEF OrderAt, Pending
  <2>10. Kinds(r)' \subseteq {"role", "text"}
    <3>1. Kinds(r)' = {p[i].kind : i \in DOMAIN p} /\ Kinds(r) = {o[i].kind : i \in DOMAIN o}
      BY <2>1 DEF Kinds, o
    <3> QED
      BY <1>7, <2>2, <3>1
  <2>11. PhaseAt(r)' /\ TailIsHonest(r)'
    BY <1>0, <1>1, <2>10, OnlyText DEF PhaseAt
  <2> QED
    BY <2>9, <2>11
<1> QED
  BY <1>8, <1>9

\* A reason worked out as finishReasonForTurn does fits what the provider said.
LEMMA ReasonFitsTurn == ASSUME NEW x PROVE ReasonFits(ReasonOf(x), x)
  BY DEF ReasonFits, ReasonOf, FinishReasonForTurn

\* The first frame of an answer.
LEMMA OpeningStep ==
    ASSUME IInv, StreamInv, NEW r \in Requests, RespondBlocking(r) \/ OpenStream(r)
    PROVE  OrderAt(r)' /\ PhaseAt(r)' /\ TailIsHonest(r)'
<1>0. /\ OrderAt(r) /\ PhaseAt(r) /\ pc \in [Requests -> PCs]
      /\ out \in [Requests -> Seq(Frames)]
  BY DEF StreamInv, IInv, TypeOK
<1>1. out[r] = <<>> /\ UNCHANGED <<chan, sent, lib, ask, result, gone>>
  BY <1>0 DEF PhaseAt, RespondBlocking, OpenStream, libVars, clientVars
<1>2. PICK f :
        /\ out'[r] = <<f>>
        /\ \/ /\ f = LastFrame("body", ReasonOf(result[r]))
              /\ pc'[r] = "done" /\ lib[r] = "answered"
           \/ f = Frame("role") /\ pc'[r] = "relaying" /\ lib[r] \in Opened
  BY <1>0 DEF RespondBlocking, OpenStream
<1>3. \/ /\ f.kind = "body" /\ f.reason = ReasonOf(result[r])
         /\ pc'[r] = "done" /\ lib[r] = "answered"
      \/ f.kind = "role" /\ pc'[r] = "relaying" /\ lib[r] \in Opened
  <2>1. \A s : LastFrame("body", s).kind = "body" /\ LastFrame("body", s).reason = s
    BY DEF LastFrame
  <2>2. Frame("role").kind = "role"
    BY DEF Frame
  <2> QED
    BY <1>2, <2>1, <2>2
<1>4. DOMAIN out'[r] = {1} /\ out'[r][1] = f /\ Kinds(r)' = {f.kind}
  BY <1>2 DEF Kinds
<1>5. TextsAt(r)' = {} /\ TextsAt(r) = {}
  BY <1>1, <1>3, <1>4 DEF TextsAt
<1>6. OrderAt(r)'
  BY <1>0, <1>1, <1>5 DEF OrderAt, Pending
<1>7. PhaseAt(r)'
  BY <1>1, <1>3, <1>4 DEF PhaseAt
<1>8. TailIsHonest(r)'
  <2>1. ReasonFits(ReasonOf(result[r]), result[r])
    BY ReasonFitsTurn
  <2>2. Kinds(r)' \cap TailKinds = {}
    BY <1>3, <1>4 DEF TailKinds
  <2>3. \A i \in DOMAIN out'[r] : out'[r][i].kind \notin TailKinds
    BY <2>2 DEF Kinds
  <2>4. ~(pc'[r] = "done" /\ lib'[r] \in Opened)
    BY <1>1, <1>3 DEF Opened
  <2>5. \A i \in DOMAIN out'[r] : out'[r][i].kind \in {"body", "finish"} =>
           ReasonFits(out'[r][i].reason, result'[r])
    BY <1>1, <1>3, <1>4, <2>1
  <2> QED
    BY <2>2, <2>3, <2>4, <2>5 DEF TailIsHonest
<1> QED
  BY <1>6, <1>7, <1>8

\* What a sequence holds after another is put behind it.
LEMMA ConcatRange ==
    ASSUME NEW S, NEW s \in Seq(S), NEW t \in Seq(S)
    PROVE  s \o t \in Seq(S) /\ Range(s \o t) = Range(s) \cup Range(t)
<1> DEFINE st == s \o t
<1>1. /\ DOMAIN s = 1..Len(s) /\ DOMAIN t = 1..Len(t)
      /\ DOMAIN st = 1..(Len(s) + Len(t))
      /\ Len(s) \in Nat /\ Len(t) \in Nat /\ st \in Seq(S)
  OBVIOUS
<1>2. \A i \in DOMAIN s : i \in DOMAIN st /\ st[i] = s[i]
  BY <1>1
<1>3. \A i \in DOMAIN t : Len(s) + i \in DOMAIN st /\ st[Len(s) + i] = t[i]
  BY <1>1
<1>4. \A i \in DOMAIN st :
         i \in DOMAIN s \/ (i - Len(s) \in DOMAIN t /\ st[i] = t[i - Len(s)])
  BY <1>1
<1> HIDE DEF st
<1>5. Range(st) \subseteq Range(s) \cup Range(t)
  BY <1>2, <1>4 DEF Range
<1>6. Range(s) \subseteq Range(st)
  BY <1>2 DEF Range
<1>7. Range(t) \subseteq Range(st)
  BY <1>3 DEF Range
<1> QED
  BY <1>1, <1>5, <1>6, <1>7 DEF st

\* The ranges of the pieces the last frames are put together from.
LEMMA SingleFrames ==
    /\ \A f \in Frames : <<f>> \in Seq(Frames) /\ Range(<<f>>) = {f}
    /\ <<>> \in Seq(Frames) /\ Range(<<>>) = {}
    /\ \A k \in {"error", "tools", "usage", "[DONE]"} : Frame(k) \in Frames
<1>1. \A k \in {"error", "tools", "usage", "[DONE]"} : Frame(k) \in Frames
  BY DEF Frame, Frames
<1>2. \A f \in Frames : <<f>> \in Seq(Frames) /\ Range(<<f>>) = {f}
  BY DEF Range
<1>3. <<>> \in Seq(Frames) /\ Range(<<>>) = {}
  BY DEF Range
<1> QED
  BY <1>1, <1>2, <1>3

\* A last frame behind some others.
LEMMA EndFrame ==
    ASSUME NEW s \in Seq(Frames), NEW t \in Seq(Frames), NEW f \in Frames
    PROVE  LET u == s \o (t \o <<f>>)
           IN  u[Len(u)] = f
  OBVIOUS

\* Frames in the order of Place, none twice.
Rising(s) == \A i, j \in DOMAIN s : i < j => Place(s[i].kind) < Place(s[j].kind)

\* The places of the last frames.
LEMMA Places ==
    /\ Place("tools") = 1 /\ Place("error") = 2 /\ Place("finish") = 2
    /\ Place("usage") = 3 /\ Place("[DONE]") = 4
  BY DEF Place

\* Frames that rise, before others that rise from there.
LEMMA RisingJoin ==
    ASSUME NEW s \in Seq(Frames), NEW t \in Seq(Frames), Rising(s), Rising(t),
           \A f \in Range(s), g \in Range(t) : Place(f.kind) < Place(g.kind)
    PROVE  Rising(s \o t)
<1> DEFINE st == s \o t
<1>1. /\ DOMAIN s = 1..Len(s) /\ DOMAIN t = 1..Len(t)
      /\ DOMAIN st = 1..(Len(s) + Len(t))
      /\ Len(s) \in Nat /\ Len(t) \in Nat
      /\ \A i \in DOMAIN st : st[i] = IF i <= Len(s) THEN s[i] ELSE t[i - Len(s)]
  OBVIOUS
<1> HIDE DEF st
<1> SUFFICES ASSUME NEW i \in DOMAIN st, NEW j \in DOMAIN st, i < j
             PROVE  Place(st[i].kind) < Place(st[j].kind)
  BY DEF Rising, st
<1>2. CASE j <= Len(s)
  <2>1. i \in DOMAIN s /\ j \in DOMAIN s /\ st[i] = s[i] /\ st[j] = s[j]
    BY <1>1, <1>2
  <2> QED
    BY <2>1 DEF Rising
<1>3. CASE i <= Len(s) /\ j > Len(s)
  <2>1. /\ i \in DOMAIN s /\ st[i] = s[i]
        /\ j - Len(s) \in DOMAIN t /\ st[j] = t[j - Len(s)]
    BY <1>1, <1>3
  <2>2. st[i] \in Range(s) /\ st[j] \in Range(t)
    BY <2>1 DEF Range
  <2> QED
    BY <2>2
<1>4. CASE i > Len(s)
  <2>1. /\ i - Len(s) \in DOMAIN t /\ st[i] = t[i - Len(s)]
        /\ j - Len(s) \in DOMAIN t /\ st[j] = t[j - Len(s)]
        /\ i - Len(s) < j - Len(s)
    BY <1>1, <1>4
  <2> QED
    BY <2>1 DEF Rising
<1> QED
  BY <1>1, <1>2, <1>3, <1>4

\* No frame or one rises.
LEMMA RisingShort == Rising(<<>>) /\ \A f : Rising(<<f>>)
  BY DEF Rising

\* The frame with the usage, as a set.
UsageFrames(r) == IF ask[r].includeUsage THEN {Frame("usage")} ELSE {}

\* UsageFrame holds what the set says.
LEMMA UsageRange ==
    ASSUME NEW r
    PROVE  /\ UsageFrame(r) \in Seq(Frames) /\ Range(UsageFrame(r)) = UsageFrames(r)
           /\ Rising(UsageFrame(r))
           /\ \A f \in UsageFrames(r) : f.kind = "usage"
<1>1. UsageFrame(r) \in Seq(Frames) /\ Range(UsageFrame(r)) = UsageFrames(r)
  BY SingleFrames DEF UsageFrame, UsageFrames
<1>2. Rising(UsageFrame(r))
  BY RisingShort DEF UsageFrame
<1>3. \A f \in UsageFrames(r) : f.kind = "usage"
  <2>1. Frame("usage").kind = "usage"
    BY DEF Frame
  <2> QED
    BY <2>1 DEF UsageFrames
<1> QED
  BY <1>1, <1>2, <1>3

\* The frames that tell of a failure.
LEMMA ErrorTailRange ==
    ASSUME NEW r
    PROVE  \E s \in Seq(Frames) :
             /\ ErrorTail(r) = s \o <<Frame("[DONE]")>>
             /\ Range(s) = {Frame("error")} \cup UsageFrames(r)
             /\ Rising(s)
<1> DEFINE e == <<Frame("error")>>
           s == e \o UsageFrame(r)
<1>1. e \in Seq(Frames) /\ Range(e) = {Frame("error")} /\ Rising(e)
  BY SingleFrames, RisingShort
<1>2. ErrorTail(r) = s \o <<Frame("[DONE]")>>
  BY DEF ErrorTail
<1>3. \A f \in Range(e) : Place(f.kind) = 2
  <2>1. Frame("error").kind = "error"
    BY DEF Frame
  <2> QED
    BY <1>1, <2>1, Places
<1> HIDE DEF e
<1>4. s \in Seq(Frames) /\ Range(s) = Range(e) \cup UsageFrames(r)
  BY <1>1, UsageRange, ConcatRange
<1>5. \A f \in Range(e), g \in Range(UsageFrame(r)) : Place(f.kind) < Place(g.kind)
  BY <1>3, UsageRange, Places
<1>6. Rising(s)
  BY <1>1, <1>5, UsageRange, RisingJoin
<1> HIDE DEF s
<1> QED
  BY <1>1, <1>2, <1>4, <1>6

\* The set of the frame with the tool calls.
ToolFrames(r) == IF result[r].tools THEN {Frame("tools")} ELSE {}

\* The frames that tell of a finish.
LEMMA FinishTailRange ==
    ASSUME IInv, NEW r \in Requests
    PROVE  \E s \in Seq(Frames) :
             /\ FinishTail(r) = s \o <<Frame("[DONE]")>>
             /\ Range(s) = {LastFrame("finish", ReasonOf(result[r]))}
                    \cup ToolFrames(r) \cup UsageFrames(r)
             /\ Rising(s)
<1> DEFINE tools == IF result[r].tools THEN <<Frame("tools")>> ELSE <<>>
           f == LastFrame("finish", ReasonOf(result[r]))
           e == <<f>>
           s1 == tools \o e
           s == s1 \o UsageFrame(r)
<1>1. tools \in Seq(Frames) /\ Range(tools) = ToolFrames(r) /\ Rising(tools)
  BY SingleFrames, RisingShort DEF ToolFrames
<1>2. f \in Frames
  BY ReasonFrames DEF IInv, TypeOK
<1>3. FinishTail(r) = s \o <<Frame("[DONE]")>>
  BY DEF FinishTail
<1>4. \A g \in ToolFrames(r) : Place(g.kind) = 1
  <2>1. Frame("tools").kind = "tools"
    BY DEF Frame
  <2> QED
    BY <2>1, Places DEF ToolFrames
<1>5. Place(f.kind) = 2
  BY Places DEF LastFrame
<1> HIDE DEF tools, f
<1>6. e \in Seq(Frames) /\ Range(e) = {f} /\ Rising(e)
  BY <1>2, SingleFrames, RisingShort
<1> HIDE DEF e
<1>7. s1 \in Seq(Frames) /\ Range(s1) = ToolFrames(r) \cup {f}
  BY <1>1, <1>6, ConcatRange
<1>8. Rising(s1)
  <2>1. \A g \in Range(tools), h \in Range(e) : Place(g.kind) < Place(h.kind)
    BY <1>1, <1>4, <1>5, <1>6
  <2> QED
    BY <1>1, <1>6, <2>1, RisingJoin
<1> HIDE DEF s1
<1>9. s \in Seq(Frames) /\ Range(s) = {f} \cup ToolFrames(r) \cup UsageFrames(r)
  BY <1>7, UsageRange, ConcatRange
<1>10. Rising(s)
  <2>1. \A g \in Range(s1), h \in Range(UsageFrame(r)) : Place(g.kind) < Place(h.kind)
    BY <1>4, <1>5, <1>7, UsageRange, Places
  <2> QED
    BY <1>7, <1>8, <2>1, UsageRange, RisingJoin
<1> HIDE DEF s
<1> QED
  BY <1>3, <1>9, <1>10 DEF f

\* The last frames of a stream: the channel is empty, so that nothing of the
\* stream is left behind them.
LEMMA FinishStep ==
    ASSUME IInv, StreamInv, NEW r \in Requests, FinishStream(r)
    PROVE  OrderAt(r)' /\ PhaseAt(r)' /\ TailIsHonest(r)'
<1> DEFINE o == out[r]
           p == out'[r]
           D == <<Frame("[DONE]")>>
<1>0. /\ OrderAt(r) /\ PhaseAt(r) /\ o \in Seq(Frames)
      /\ out \in [Requests -> Seq(Frames)] /\ pc \in [Requests -> PCs]
      /\ sent[r].texts \in Nat /\ ask[r].includeUsage \in BOOLEAN
  BY DEF StreamInv, IInv, TypeOK, AskType
<1>1. /\ UNCHANGED <<chan, sent, lib, ask, result>>
      /\ pc[r] = "draining" /\ pc'[r] = "done"
  BY <1>0 DEF FinishStream, libVars
<1>2. /\ chan[r] = <<>> /\ lib[r] \in {"closedOk", "closedErr"}
      /\ Kinds(r) \subseteq {"role", "text"}
  BY <1>0, <1>1 DEF PhaseAt, Ended, Opened
<1>3. PICK t \in Seq(Frames) :
        /\ p = o \o (t \o D)
        /\ Rising(t)
        /\ \/ /\ lib[r] = "closedErr"
              /\ Range(t) = {Frame("error")} \cup UsageFrames(r)
           \/ /\ lib[r] = "closedOk"
              /\ Range(t) = {LastFrame("finish", ReasonOf(result[r]))}
                      \cup ToolFrames(r) \cup UsageFrames(r)
  <2>1. CASE lib[r] = "closedErr"
    <3>1. p = o \o ErrorTail(r)
      BY <1>0, <2>1 DEF FinishStream
    <3> QED
      BY <2>1, <3>1, ErrorTailRange
  <2>2. CASE lib[r] = "closedOk"
    <3>1. p = o \o FinishTail(r)
      BY <1>0, <2>2 DEF FinishStream
    <3> QED
      BY <2>2, <3>1, FinishTailRange
  <2> QED
    BY <1>2, <2>1, <2>2
<1> DEFINE u == t \o D
<1>4. /\ u \in Seq(Frames) /\ Range(u) = Range(t) \cup {Frame("[DONE]")}
      /\ p[Len(p)] = Frame("[DONE]")
  <2>1. D \in Seq(Frames) /\ Range(D) = {Frame("[DONE]")} /\ Frame("[DONE]") \in Frames
    BY SingleFrames
  <2>2. p[Len(p)] = Frame("[DONE]")
    <3> HIDE DEF o, p
    <3> QED
      BY <1>0, <1>3, <2>1, EndFrame
  <2> HIDE DEF D, p
  <2> QED
    BY <2>1, <2>2, ConcatRange
<1>5. p = o \o u
  BY <1>3
<1> HIDE DEF u
<1>6. Range(p) = Range(o) \cup Range(u)
  <2> HIDE DEF o, p
  <2> QED
    BY <1>0, <1>4, <1>5, ConcatRange
<1>7. /\ \A i \in DOMAIN o : i \in DOMAIN p /\ p[i] = o[i]
      /\ \A i \in DOMAIN p : i \in DOMAIN o \/ p[i] \in Range(u)
  <2> HIDE DEF o, p
  <2>1. /\ DOMAIN o = 1..Len(o) /\ DOMAIN u = 1..Len(u) /\ Len(o) \in Nat /\ Len(u) \in Nat
        /\ DOMAIN p = 1..(Len(o) + Len(u))
        /\ \A i \in DOMAIN p : p[i] = IF i <= Len(o) THEN o[i] ELSE u[i - Len(o)]
    BY <1>0, <1>4, <1>5
  <2>2. \A i \in DOMAIN o : i \in DOMAIN p /\ p[i] = o[i]
    BY <2>1
  <2>3. ASSUME NEW i \in DOMAIN p, i \notin DOMAIN o PROVE p[i] \in Range(u)
    <3>1. i - Len(o) \in DOMAIN u /\ p[i] = u[i - Len(o)]
      BY <2>1, <2>3
    <3> QED
      BY <3>1 DEF Range
  <2> QED
    BY <2>2, <2>3
<1>8. /\ Kinds(r)' = {f.kind : f \in Range(p)}
      /\ Kinds(r) = {f.kind : f \in Range(o)}
  BY DEF Kinds, Range
<1>9. /\ \A k \in {"error", "tools", "usage", "[DONE]"} : Frame(k).kind = k
      /\ \A x : LastFrame("finish", x).kind = "finish" /\ LastFrame("finish", x).reason = x
  BY DEF Frame, LastFrame
<1>10. /\ "[DONE]" \in Kinds(r)' /\ Kinds(r)' = Kinds(r) \cup {f.kind : f \in Range(t)} \cup {"[DONE]"}
  <2> HIDE DEF o, p
  <2> QED
    BY <1>4, <1>6, <1>8, <1>9
<1>11. {f.kind : f \in UsageFrames(r)} = IF ask[r].includeUsage THEN {"usage"} ELSE {}
  BY <1>9 DEF UsageFrames
<1>12. \A f \in Range(u) : f.kind \in TailKinds
  BY <1>3, <1>4, <1>9 DEF UsageFrames, ToolFrames, TailKinds
<1>13. TextsAt(r)' = TextsAt(r)
  <2>1. TextsAt(r)' = {i \in DOMAIN p : p[i].kind = "text"}
    BY DEF TextsAt
  <2>2. TextsAt(r) = {i \in DOMAIN o : o[i].kind = "text"}
    BY DEF TextsAt
  <2> HIDE DEF o, p
  <2> QED
    BY <1>7, <1>12, <2>1, <2>2 DEF TailKinds
<1>14. \A i \in TextsAt(r) : p[i] = o[i]
  <2>1. TextsAt(r) \subseteq DOMAIN o
    BY DEF TextsAt
  <2> HIDE DEF o, p
  <2> QED
    BY <1>7, <2>1
<1>15. OrderAt(r)'
  <2>1. /\ \A i, j \in TextsAt(r) : i < j => o[i].n < o[j].n
        /\ \E m \in 0..sent[r].texts : /\ {o[i].n : i \in TextsAt(r)} = 1..m
                                     /\ Pending(r) = (m + 1)..sent[r].texts
    BY <1>0 DEF OrderAt
  <2>2. Pending(r)' = Pending(r)
    BY <1>1 DEF Pending
  <2>3. \A i, j \in TextsAt(r)' : i < j => p[i].n < p[j].n
    BY <1>13, <1>14, <2>1
  <2>4. {p[i].n : i \in TextsAt(r)'} = {o[i].n : i \in TextsAt(r)}
    BY <1>13, <1>14
  <2>5. \E m \in 0..sent'[r].texts : /\ {p[i].n : i \in TextsAt(r)'} = 1..m
                                   /\ Pending(r)' = (m + 1)..sent'[r].texts
    BY <1>1, <2>1, <2>2, <2>4
  <2>6. DOMAIN chan'[r] = {}
    BY <1>1, <1>2
  <2> QED
    BY <2>3, <2>5, <2>6 DEF OrderAt
<1>16. PhaseAt(r)'
  BY <1>1, <1>2 DEF PhaseAt
<1>17. /\ ("error" \in Kinds(r)') <=> (lib[r] = "closedErr")
       /\ ("finish" \in Kinds(r)') <=> (lib[r] = "closedOk")
       /\ ("tools" \in Kinds(r)') <=> (lib[r] = "closedOk" /\ result[r].tools)
       /\ ("usage" \in Kinds(r)') <=> ask[r].includeUsage
  <2>1. CASE lib[r] = "closedErr"
    <3>1. Range(t) = {Frame("error")} \cup UsageFrames(r)
      BY <1>3, <2>1
    <3>2. {f.kind : f \in Range(t)} = {"error"} \cup {f.kind : f \in UsageFrames(r)}
      BY <1>9, <3>1
    <3> HIDE DEF o, p
    <3> QED
      BY <1>2, <1>10, <1>11, <2>1, <3>2
  <2>2. CASE lib[r] = "closedOk"
    <3>1. Range(t) = {LastFrame("finish", ReasonOf(result[r]))}
              \cup ToolFrames(r) \cup UsageFrames(r)
      BY <1>3, <2>2
    <3>2. {f.kind : f \in ToolFrames(r)} = IF result[r].tools THEN {"tools"} ELSE {}
      BY <1>9 DEF ToolFrames
    <3>3. {f.kind : f \in Range(t)} =
             {"finish"} \cup {f.kind : f \in ToolFrames(r)}
                       \cup {f.kind : f \in UsageFrames(r)}
      BY <1>9, <3>1
    <3> HIDE DEF o, p
    <3> QED
      BY <1>2, <1>10, <1>11, <2>2, <3>2, <3>3
  <2> QED
    BY <1>2, <2>1, <2>2
<1>18. ASSUME NEW i \in DOMAIN p, p[i].kind \in {"body", "finish"}
       PROVE  ReasonFits(p[i].reason, result[r])
  <2>1. p[i] \in Range(t) /\ p[i].kind = "finish"
    <3>1. p[i] \in Range(p)
      BY DEF Range
    <3>2. p[i] \notin Range(o)
      BY <1>2, <1>8, <1>18
    <3>3. p[i] \in Range(u)
      <4> HIDE DEF o, p
      <4> QED
        BY <1>6, <3>1, <3>2
    <3> HIDE DEF o, p
    <3> QED
      BY <1>4, <1>9, <1>12, <1>18, <3>3 DEF TailKinds
  <2>2. p[i] = LastFrame("finish", ReasonOf(result[r]))
    <3> HIDE DEF o, p
    <3> QED
      BY <1>3, <1>9, <2>1 DEF UsageFrames, ToolFrames
  <2> QED
    BY <1>9, <2>2, ReasonFitsTurn
<1>19. Rising(u)
  <2>1. \A f \in Range(t) : Place(f.kind) < 4
    BY <1>3, <1>9, Places DEF UsageFrames, ToolFrames
  <2>2. D \in Seq(Frames) /\ Range(D) = {Frame("[DONE]")} /\ Rising(D)
    BY SingleFrames, RisingShort
  <2>3. \A f \in Range(t), g \in Range(D) : Place(f.kind) < Place(g.kind)
    BY <1>9, <2>1, <2>2, Places
  <2> HIDE DEF D
  <2> QED
    BY <1>3, <2>2, <2>3, RisingJoin DEF u
<1>20. ASSUME NEW i \in DOMAIN p, NEW j \in DOMAIN p, i < j, p[i].kind \in TailKinds
       PROVE  Place(p[i].kind) < Place(p[j].kind)
  <2>1. i \notin DOMAIN o
    <3> SUFFICES ASSUME i \in DOMAIN o PROVE FALSE
      OBVIOUS
    <3>1. p[i].kind \in Kinds(r)
      BY <1>7 DEF Kinds
    <3> QED
      BY <1>2, <1>20, <3>1 DEF TailKinds
  <2> HIDE DEF o, p
  <2>2. /\ DOMAIN o = 1..Len(o) /\ DOMAIN u = 1..Len(u) /\ Len(o) \in Nat /\ Len(u) \in Nat
        /\ DOMAIN p = 1..(Len(o) + Len(u))
        /\ \A k \in DOMAIN p : p[k] = IF k <= Len(o) THEN o[k] ELSE u[k - Len(o)]
    BY <1>0, <1>4, <1>5
  <2>3. /\ i - Len(o) \in DOMAIN u /\ p[i] = u[i - Len(o)]
        /\ j - Len(o) \in DOMAIN u /\ p[j] = u[j - Len(o)]
        /\ i - Len(o) < j - Len(o)
    BY <1>20, <2>1, <2>2
  <2> QED
    BY <1>19, <2>3 DEF Rising
<1>21. TailIsHonest(r)'
  <2> DEFINE tail == Kinds(r)' \cap TailKinds
  <2>1. /\ "[DONE]" \in tail
        /\ \A k \in TailKinds : k \in tail <=> k \in Kinds(r)'
    BY <1>10 DEF TailKinds
  <2>2. /\ ("error" \in tail) <=> (lib'[r] = "closedErr")
        /\ ("finish" \in tail) <=> (lib'[r] = "closedOk")
        /\ ("tools" \in tail) <=> (lib'[r] = "closedOk" /\ result'[r].tools)
        /\ ("usage" \in tail) <=> ask'[r].includeUsage
    BY <1>1, <1>17, <2>1 DEF TailKinds
  <2>3. tail # {}
    BY <2>1
  <2>4. \A i, j \in DOMAIN out'[r] :
          i < j /\ out'[r][i].kind \in TailKinds =>
              Place(out'[r][i].kind) < Place(out'[r][j].kind)
    BY <1>20
  <2>5. \A i \in DOMAIN out'[r] :
          out'[r][i].kind \in {"body", "finish"} => ReasonFits(out'[r][i].reason, result'[r])
    BY <1>1, <1>18
  <2>6. pc'[r] = "done"
    BY <1>1
  <2> QED
    BY <2>1, <2>2, <2>3, <2>4, <2>5, <2>6 DEF TailIsHonest
<1> QED
  BY <1>15, <1>16, <1>21

\* Nothing is sent before the first step.
LEMMA InitStreamInv == Init => StreamInv
<1> SUFFICES ASSUME Init, NEW r \in Requests
             PROVE  OrderAt(r) /\ PhaseAt(r) /\ TailIsHonest(r)
  BY DEF StreamInv
<1>1. /\ out[r] = <<>> /\ chan[r] = <<>> /\ sent[r].texts = 0 /\ pc[r] = "start"
  BY DEF Init
<1>2. Kinds(r) = {} /\ TextsAt(r) = {} /\ Pending(r) = {} /\ DOMAIN chan[r] = {}
  BY <1>1 DEF Kinds, TextsAt, Pending
<1>3. OrderAt(r)
  <2>1. 0 \in 0..sent[r].texts /\ 1..0 = {} /\ (0 + 1)..sent[r].texts = {}
    BY <1>1
  <2> QED
    BY <1>2, <2>1 DEF OrderAt
<1> QED
  BY <1>1, <1>2, <1>3 DEF PhaseAt, TailIsHonest

\* Every step keeps the order and the end of every stream.
LEMMA NextStreamInv == IInv /\ StreamInv /\ [Next]_vars => StreamInv'
<1> SUFFICES ASSUME IInv, StreamInv, [Next]_vars PROVE StreamInv'
  OBVIOUS
<1>1. ASSUME NEW r \in Requests, Turn(r) PROVE StreamInv'
  <2>1. OrderAt(r)' /\ PhaseAt(r)' /\ TailIsHonest(r)'
    BY <1>1, SilentStep, SendStep, RelayStep, OpeningStep, FinishStep
       DEF Turn, Handler
  <2>2. ASSUME NEW q \in Requests \ {r}
        PROVE  OrderAt(q)' /\ PhaseAt(q)' /\ TailIsHonest(q)'
    <3>1. /\ out'[q] = out[q] /\ chan'[q] = chan[q] /\ sent'[q] = sent[q]
          /\ pc'[q] = pc[q] /\ lib'[q] = lib[q] /\ ask'[q] = ask[q]
          /\ result'[q] = result[q] /\ gone'[q] = gone[q]
      BY <1>1, OthersKept
    <3>2. OrderAt(q) /\ PhaseAt(q) /\ TailIsHonest(q)
      BY DEF StreamInv
    <3> QED
      BY <3>1, <3>2, OrderKept, RestKept
  <2> QED
    BY <2>1, <2>2 DEF StreamInv
<1>2. CASE UNCHANGED vars
  <2> SUFFICES ASSUME NEW q \in Requests
               PROVE  OrderAt(q)' /\ PhaseAt(q)' /\ TailIsHonest(q)'
    BY DEF StreamInv
  <2>1. OrderAt(q) /\ PhaseAt(q) /\ TailIsHonest(q)
    BY DEF StreamInv
  <2> QED
    BY <1>2, <2>1, OrderKept, RestKept DEF vars
<1> QED
  BY <1>1, <1>2 DEF Next

\* The order and the end of every stream, always.
LEMMA SpecStreamInv == Spec => []StreamInv
  BY SpecIInv, InitStreamInv, NextStreamInv, PTL DEF Spec

\* StreamDeliversInOrder: whatever the sizes of the channel and of the streams,
\* the client has the first chunks with text, in order and once, and all of
\* them when a finish or an error frame says that the stream is over.
THEOREM StreamsInOrder == Spec => []StreamDeliversInOrder
<1>1. IInv /\ StreamInv => StreamDeliversInOrder
  <2> SUFFICES ASSUME IInv, StreamInv, NEW r \in Requests
               PROVE  LET texts == {out[r][i].n : i \in TextsAt(r)} IN
                      /\ \A i, j \in TextsAt(r) : i < j => out[r][i].n < out[r][j].n
                      /\ \E m \in 0..sent[r].texts : texts = 1..m
                      /\ Kinds(r) \cap {"finish", "error"} # {} =>
                            texts = 1..sent[r].texts
    BY DEF StreamDeliversInOrder
  <2>1. OrderAt(r) /\ PhaseAt(r) /\ sent[r].texts \in Nat
    BY DEF StreamInv, IInv, TypeOK
  <2>2. PICK m \in 0..sent[r].texts :
          /\ {out[r][i].n : i \in TextsAt(r)} = 1..m
          /\ Pending(r) = (m + 1)..sent[r].texts
    BY <2>1 DEF OrderAt
  <2>3. ASSUME Kinds(r) \cap {"finish", "error"} # {} PROVE m = sent[r].texts
    <3>1. Pending(r) = {}
      BY <2>1, <2>3 DEF PhaseAt, Pending
    <3>2. sent[r].texts \notin (m + 1)..sent[r].texts
      BY <2>2, <3>1
    <3> QED
      BY <2>1, <3>2
  <2> QED
    BY <2>1, <2>2, <2>3 DEF OrderAt
<1> QED
  BY <1>1, SpecIInv, SpecStreamInv, PTL

\* StreamTailIsHonest: the last frames are those the end of the call asks for, in
\* their order; the finish reason of a stream or a body is the one this provider
\* gave this turn, but for tool calls and silence; and a stream without last frames
\* ended for a client that had hung up.  For any results of any providers.
THEOREM StreamTailsAreHonest == Spec => []StreamTailIsHonest
<1>1. StreamInv => StreamTailIsHonest
  BY DEF StreamInv, StreamTailIsHonest
<1> QED
  BY <1>1, SpecStreamInv, PTL

-----------------------------------------------------------------------------
(* The ledger shared by all requests.                                      *)

\* The three quantities the ledger and the tallies are compared by.
Attempts == [r \in Requests |-> tally[r].attempts]
Between == {r \in Requests : hook[r].at = "tally"}
Total == outcomes["ok"] + outcomes["first_output_timeout"]
             + outcomes["error"] + outcomes["canceled"]

\* The invariant in their terms.
LEMMA AgreementIs ==
    LedgerAgreesWithTallies <=>
        /\ bucket.requests = SumFunction(Attempts) + Cardinality(Between)
        /\ Total = bucket.requests
        /\ bucket.failures = Total - outcomes["ok"]
  BY DEF LedgerAgreesWithTallies, Attempts, Between, Total

\* The sums and the hooks between two records are finite.
LEMMA LedgerSums ==
    ASSUME TypeOK
    PROVE  /\ Attempts \in [Requests -> Nat]
           /\ SumFunction(Attempts) = SumFunctionOnSet(Attempts, Requests)
           /\ SumFunction(Attempts) \in Nat
           /\ IsFiniteSet(Between) /\ Cardinality(Between) \in Nat
<1>1. Attempts \in [Requests -> Nat]
  BY DEF TypeOK, Tallies, Attempts
<1>0. SumFunction(Attempts) = SumFunctionOnSet(Attempts, Requests)
  BY DEF SumFunction, Attempts
<1>2. IsFiniteSet(Between)
  BY RequestsAssumption, FS_Subset DEF Between
<1>3. SumFunctionOnSet(Attempts, Requests) \in Nat
  BY <1>1, RequestsAssumption, OnSetNat
<1> QED
  BY <1>0, <1>1, <1>2, <1>3, FS_CardinalityType

\* Nothing is recorded before the first step.
LEMMA InitAgreement == Init => LedgerAgreesWithTallies
<1> SUFFICES ASSUME Init PROVE LedgerAgreesWithTallies
  OBVIOUS
<1>1. Attempts = [r \in Requests |-> 0] /\ Between = {}
  BY DEF Init, Attempts, Between, EmptyTally, NoHook
<1>2. SumFunction(Attempts) = 0 /\ Cardinality(Between) = 0
  <2>1. SumFunction(Attempts) = SumFunctionOnSet(Attempts, Requests)
    BY <1>1 DEF SumFunction
  <2>2. \A r \in Requests : Attempts[r] \in Nat /\ Attempts[r] = 0
    BY <1>1
  <2> QED
    BY <1>1, <2>1, <2>2, RequestsAssumption, OnSetNat, FS_EmptySet
<1>3. Total = 0 /\ bucket.requests = 0 /\ bucket.failures = 0 /\ outcomes["ok"] = 0
  BY DEF Init, Total, Outcomes
<1> QED
  BY <1>2, <1>3, AgreementIs

\* An event in a hook is one the library reports.
LEMMA HookedEvent ==
    ASSUME TypeOK, NEW r \in Requests, hook[r].at # "none"
    PROVE  hook[r].event \in Events
<1>1. hook[r] \in Hooks /\ hook[r] # NoHook
  BY DEF TypeOK, NoHook
<1>2. hook[r] \in [at : {"ledger", "tally"}, event : Events]
  BY <1>1 DEF Hooks
<1> QED
  BY <1>2

\* The first half of the hook: the ledger is one attempt ahead of the tally.
LEMMA LedgerFirst ==
    ASSUME TypeOK, LedgerAgreesWithTallies, NEW r \in Requests, HookLedger(r)
    PROVE  LedgerAgreesWithTallies'
<1> DEFINE o == OutcomeOf(hook[r].event)
           ok == Succeeded(hook[r].event)
<1>1. Attempts' = Attempts
  BY DEF HookLedger, Attempts
<1>2. r \notin Between /\ Between' = Between \cup {r}
  <2>1. hook \in [Requests -> Hooks] /\ hook[r].at = "ledger"
    BY DEF HookLedger, TypeOK
  <2>2. hook' = [hook EXCEPT ![r] = [hook[r] EXCEPT !.at = "tally"]]
    BY DEF HookLedger
  <2>3. hook[r] \in [at : {"ledger", "tally"}, event : Events]
    BY <2>1 DEF Hooks, NoHook
  <2>4. hook'[r].at = "tally"
    BY <2>1, <2>2, <2>3
  <2>5. \A q \in Requests \ {r} : hook'[q] = hook[q]
    BY <2>1, <2>2
  <2> QED
    BY <2>1, <2>4, <2>5 DEF Between
<1>3. Cardinality(Between') = Cardinality(Between) + 1
  BY <1>2, LedgerSums, FS_AddElement
<1>4. /\ bucket'.requests = bucket.requests + 1
      /\ bucket'.failures = bucket.failures + (IF ok THEN 0 ELSE 1)
      /\ outcomes' = [outcomes EXCEPT ![o] = @ + 1]
  BY DEF HookLedger
<1>5. o \in Outcomes /\ (o = "ok" <=> ok)
  <2>1. hook[r].event \in Events
    BY HookedEvent DEF HookLedger
  <2>2. hook[r].event.firstOutputTimeout => hook[r].event.error = "other"
    BY <2>1 DEF Events
  <2> QED
    BY <2>2 DEF OutcomeOf, Outcomes, Succeeded
<1>6. /\ \A p \in Outcomes : outcomes[p] \in Nat
      /\ \A p \in Outcomes : outcomes'[p] = IF p = o THEN outcomes[p] + 1 ELSE outcomes[p]
      /\ bucket.requests \in Nat /\ bucket.failures \in Nat
  BY <1>4, <1>5 DEF TypeOK
<1> HIDE DEF o, ok
<1>7. Total' = Total + 1 /\ (outcomes'["ok"] = outcomes["ok"] + IF ok THEN 1 ELSE 0)
  BY <1>5, <1>6 DEF Total, Outcomes
<1>8. Total \in Nat /\ outcomes["ok"] \in Nat
  BY <1>6 DEF Total, Outcomes
<1>9. /\ bucket.requests = SumFunction(Attempts) + Cardinality(Between)
      /\ Total = bucket.requests
      /\ bucket.failures = Total - outcomes["ok"]
  BY AgreementIs
<1>10. /\ bucket'.requests = SumFunction(Attempts') + Cardinality(Between')
       /\ Total' = bucket'.requests
       /\ bucket'.failures = Total' - outcomes'["ok"]
  BY <1>1, <1>3, <1>4, <1>6, <1>7, <1>8, <1>9, LedgerSums
<1> QED
  BY <1>10 DEF LedgerAgreesWithTallies, Attempts, Between, Total

\* The second half: the tally has caught up.
LEMMA TallySecond ==
    ASSUME TypeOK, LedgerAgreesWithTallies, NEW r \in Requests, HookTally(r)
    PROVE  LedgerAgreesWithTallies'
<1>1. UNCHANGED <<bucket, outcomes>> /\ Total' = Total
  BY DEF HookTally, Total
<1>2. r \in Between /\ Between' = Between \ {r}
  BY DEF HookTally, TypeOK, Between, NoHook
<1>3. Cardinality(Between') = Cardinality(Between) - 1
  BY <1>2, LedgerSums, FS_RemoveElement
<1>4. /\ tally'[r].attempts = tally[r].attempts + 1
      /\ tally' \in [Requests -> Tallies]
      /\ \A q \in Requests \ {r} : tally'[q] = tally[q]
  <2>1. hook[r].event.credit \in Debits \cup {NoCredit}
    BY HookedEvent DEF HookTally, Events
  <2>2. tally[r] \in Tallies /\ tally \in [Requests -> Tallies]
    BY DEF TypeOK
  <2>3. tally' = [tally EXCEPT ![r] = Billed(tally[r], hook[r].event.credit)]
    BY DEF HookTally
  <2>4. Billed(tally[r], hook[r].event.credit) \in Tallies
    BY <2>1, <2>2, BilledType
  <2>5. Billed(tally[r], hook[r].event.credit).attempts = tally[r].attempts + 1
    BY <2>2 DEF Billed, Tallies
  <2> QED
    BY <2>2, <2>3, <2>4, <2>5
<1>5. SumFunction(Attempts') = SumFunction(Attempts) + 1
  <2>1. /\ \A q \in Requests : Attempts[q] \in Nat /\ Attempts'[q] \in Nat
        /\ \A q \in Requests \ {r} : Attempts'[q] = Attempts[q]
        /\ Attempts'[r] = Attempts[r] + 1
    BY <1>4 DEF Attempts, TypeOK, Tallies
  <2>2. SumFunction(Attempts') = SumFunctionOnSet(Attempts', Requests)
    BY DEF SumFunction, Attempts
  <2>3. SumFunctionOnSet(Attempts', Requests) =
            SumFunctionOnSet(Attempts, Requests) - (IF r \in Requests THEN Attempts[r] ELSE 0)
                + (IF r \in Requests THEN Attempts'[r] ELSE 0)
    BY <2>1, RequestsAssumption, OnSetUpdate
  <2>4. SumFunctionOnSet(Attempts, Requests) \in Nat
    BY LedgerSums
  <2> QED
    BY <2>1, <2>2, <2>3, <2>4, LedgerSums
<1>6. /\ bucket.requests = SumFunction(Attempts) + Cardinality(Between)
      /\ Total = bucket.requests
      /\ bucket.failures = Total - outcomes["ok"]
  BY AgreementIs
<1>7. /\ bucket'.requests = SumFunction(Attempts') + Cardinality(Between')
      /\ Total' = bucket'.requests
      /\ bucket'.failures = Total' - outcomes'["ok"]
  BY <1>1, <1>3, <1>5, <1>6, LedgerSums
<1> QED
  BY <1>7 DEF LedgerAgreesWithTallies, Attempts, Between, Total

\* Every other step leaves ledger and tallies alone and puts no hook between
\* the two.
LEMMA NoRecord ==
    ASSUME TypeOK, LedgerAgreesWithTallies,
           UNCHANGED <<bucket, outcomes, tally>>, Between' = Between
    PROVE  LedgerAgreesWithTallies'
<1>1. Attempts' = Attempts /\ Total' = Total
  BY DEF Attempts, Total
<1>2. /\ bucket.requests = SumFunction(Attempts) + Cardinality(Between)
      /\ Total = bucket.requests
      /\ bucket.failures = Total - outcomes["ok"]
  BY AgreementIs
<1>3. /\ bucket'.requests = SumFunction(Attempts') + Cardinality(Between')
      /\ Total' = bucket'.requests
      /\ bucket'.failures = Total' - outcomes'["ok"]
  BY <1>1, <1>2
<1> QED
  BY <1>3 DEF LedgerAgreesWithTallies, Attempts, Between, Total

\* Each step.
LEMMA NextAgreement ==
    ASSUME TypeOK, LedgerAgreesWithTallies, [Next]_vars
    PROVE  LedgerAgreesWithTallies'
<1>1. CASE UNCHANGED vars
  BY <1>1, NoRecord DEF vars, Between
<1>2. ASSUME NEW r \in Requests, Turn(r) PROVE LedgerAgreesWithTallies'
  <2>1. CASE HookLedger(r)
    BY <2>1, LedgerFirst
  <2>2. CASE HookTally(r)
    BY <2>2, TallySecond
  <2>3. ASSUME NEW e \in Events, Emit(r, e) PROVE LedgerAgreesWithTallies'
    <3>1. Between' = Between
      BY <2>3 DEF TypeOK, Emit, HookIdle, Between
    <3> QED
      BY <2>3, <3>1, NoRecord DEF Emit
  <2>4. CASE LibraryEnds(r)
    BY <2>3, <2>4 DEF LibraryEnds, AttemptFails, AttemptAnswers, StreamEnds
  <2>5. CASE UNCHANGED hookVars
    BY <2>5, NoRecord DEF hookVars, Between
  <2>6. \/ HangUp(r) \/ TurnDeaf(r) \/ Reject(r) \/ Call(r) \/ Handler(r)
        \/ StreamOpens(r) \/ Produce(r) \/ Send(r)
        => UNCHANGED hookVars
    BY DEF HangUp, TurnDeaf, Reject, Call, StreamOpens, Produce, Send, Handler, FailCall,
           RespondBlocking, OpenStream, RelayChunk, NoticeHangUp, AbandonStream,
           ChannelClosed, FinishStream
  <2> QED
    BY <1>2, <2>1, <2>2, <2>4, <2>5, <2>6 DEF Turn
<1> QED
  BY <1>1, <1>2 DEF Next

\* LedgerAgreesWithTallies: the ledger all requests share and the tallies each
\* keeps for itself never disagree by more than the hooks between the two, with
\* every attempt under exactly one outcome, for any number of requests.
THEOREM LedgersAgree == Spec => []LedgerAgreesWithTallies
<1>1. Init => LedgerAgreesWithTallies
  BY InitAgreement
<1>2. TypeOK /\ LedgerAgreesWithTallies /\ [Next]_vars => LedgerAgreesWithTallies'
  BY NextAgreement
<1> QED
  BY <1>1, <1>2, TypeCorrect, PTL DEF Spec

-----------------------------------------------------------------------------
(* Every turn keeps an account of CreditAccount.                           *)

\* What the client of r was told, or nothing yet.
Reported(r) == IF report[r] = NoReport THEN <<>> ELSE <<report[r]>>

\* The account of r.
Account(r) == INSTANCE CreditAccount WITH tally <- tally[r], report <- Reported(r)

\* Beside its stream, its client and the other requests, each turn bills and
\* tells as CreditAccount does: nothing is billed once a report is out, and what
\* is told is the tally of the moment (chat.go: the hook, then apply or
\* errorHeaders).
TurnsKeepAccounts == \A r \in Requests : Account(r)!CASpec

\* Every step is one of the account of r, or leaves it alone.
LEMMA StepAccounts ==
    ASSUME NEW r \in Requests, IInv, [Next]_vars
    PROVE  Account(r)!CANext \/ UNCHANGED <<tally[r], report[r]>>
<1>0. DOMAIN tally = Requests /\ DOMAIN report = Requests
  BY DEF IInv, TypeOK
<1>1. ASSUME NEW s \in Requests, HookTally(s), s = r
      PROVE  Account(r)!Bill
  <2>1. /\ hook[r].at = "tally" /\ report' = report
        /\ tally'[r] = Billed(tally[r], hook[r].event.credit)
    BY <1>0, <1>1 DEF HookTally, handlerVars
  <2>2. hook[r].event.credit \in Debits \cup {NoCredit}
    <3>1. hook[r] \in Hooks /\ hook[r] # NoHook
      BY <2>1 DEF IInv, TypeOK, NoHook
    <3> QED
      BY <3>1 DEF Hooks, Events
  <2>3. report[r] = NoReport
    BY <2>1 DEF IInv, ReportedWhenDone, CallMatchesHandler, HookIdle
  <2> QED
    BY <2>1, <2>2, <2>3 DEF Account!Bill, Account!Billed, Billed, Reported
<1>2. ASSUME tally' = tally, report' = [report EXCEPT ![r] = Report(tally[r])]
      PROVE  Account(r)!Tell
  <2>1. Report(tally[r]) # NoReport
    BY ReportType DEF IInv, TypeOK
  <2> QED
    BY <1>0, <1>2, <2>1 DEF Account!Tell, Account!Report, Report, Reported
<1>3. ASSUME NEW s \in Requests, FailCall(s) \/ RespondBlocking(s) \/ FinishStream(s)
      PROVE  /\ tally' = tally
             /\ report' \in {report, [report EXCEPT ![s] = Report(tally[s])]}
  BY <1>3 DEF FailCall, RespondBlocking, FinishStream, hookVars
<1>4. ASSUME NEW s \in Requests, Turn(s)
      PROVE  \/ HookTally(s)
             \/ FailCall(s) \/ RespondBlocking(s) \/ FinishStream(s)
             \/ tally' = tally /\ report' = report
  <2> USE DEF clientVars, libVars, hookVars, handlerVars
  <2>1. CASE HangUp(s) \/ TurnDeaf(s) \/ Reject(s) \/ Call(s) \/ HookLedger(s)
    BY <2>1 DEF HangUp, TurnDeaf, Reject, Call, HookLedger
  <2>2. CASE StreamOpens(s) \/ Produce(s) \/ Send(s) \/ LibraryEnds(s)
    BY <2>2 DEF StreamOpens, Produce, Send, LibraryEnds, AttemptFails, AttemptAnswers,
                StreamEnds, Emit
  <2>3. CASE Handler(s)
    BY <2>3 DEF Handler, OpenStream, RelayChunk, NoticeHangUp, AbandonStream,
                ChannelClosed
  <2> QED
    BY <1>4, <2>1, <2>2, <2>3 DEF Turn
<1>5. ASSUME NEW s \in Requests, Turn(s)
      PROVE  Account(r)!CANext \/ UNCHANGED <<tally[r], report[r]>>
  <2>1. CASE HookTally(s) /\ s = r
    BY <1>1, <2>1 DEF Account!CANext
  <2>2. CASE HookTally(s) /\ s # r
    BY <1>0, <2>2 DEF HookTally, handlerVars
  <2>3. CASE /\ tally' = tally
             /\ report' \in {report, [report EXCEPT ![s] = Report(tally[s])]}
    BY <1>0, <1>2, <2>3 DEF Account!CANext
  <2> QED
    BY <1>3, <1>4, <1>5, <2>1, <2>2, <2>3
<1>6. CASE UNCHANGED vars
  BY <1>6 DEF vars, hookVars, handlerVars
<1> QED
  BY <1>5, <1>6 DEF Next

\* ChatTurn implements CreditAccount once for each request, and ChatPayload does
\* with the decimals of the code.
THEOREM TurnsKeepTheirAccounts == Spec => TurnsKeepAccounts
<1> SUFFICES ASSUME NEW r \in Requests
             PROVE  Spec => Account(r)!CASpec
  BY DEF TurnsKeepAccounts
<1>1. Init => Account(r)!CAInit
  BY DEF Init, Account!CAInit, Reported, Account!EmptyTally, EmptyTally
<1>2. IInv /\ [Next]_vars => [Account(r)!CANext]_(Account(r)!CAvars)
  <2> SUFFICES ASSUME IInv, [Next]_vars
               PROVE  Account(r)!CANext \/ UNCHANGED Account(r)!CAvars
    OBVIOUS
  <2>1. ASSUME UNCHANGED <<tally[r], report[r]>>
        PROVE  UNCHANGED Account(r)!CAvars
    BY <2>1 DEF Account!CAvars, Reported
  <2> QED
    BY <2>1, StepAccounts
<1> QED
  BY <1>1, <1>2, SpecIInv, PTL DEF Spec, Account!CASpec
=============================================================================
