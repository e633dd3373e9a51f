---------------------------- MODULE RequestAdapter ----------------------------
(***************************************************************************)
(* What becomes of a chat request on its way to the provider               *)
(* (internal/llm/types.go, adapter.go): which of its top-level keys are    *)
(* applied as options, forwarded in the extra body, consumed or refused,   *)
(* and how the messages get back the keys the openai-go union drops.       *)
(*                                                                         *)
(* A message is the set of its leaves.  A leaf is the path to a scalar,    *)
(* null or empty value and ends in what is there, as <<"content", "text">> *)
(* or <<"tool_calls", "0", "index", "int">>; array positions are elements  *)
(* of the path like keys are.  A body is a function from the keys sent to  *)
(* what the code tells apart in their values.                              *)
(***************************************************************************)
EXTENDS Naturals, Sequences

CONSTANTS
    Modelled    \* the leaves the union decodes and encodes again

ASSUME ModelledAssumption ==
    \A p \in Modelled :
        /\ p \in Seq(STRING) /\ p # <<>>
        \* ChatCompletionMessage(Function|Custom)ToolCallParam
        /\ p[1] = "tool_calls" =>
               Len(p) > 2 /\ p[3] \in {"id", "type", "function", "custom"}

-----------------------------------------------------------------------------
(* The keys of the body.                                                   *)

\* Pointers of ChatRequest that become options; null is as good as absent.
Pointers == {"temperature", "top_p", "max_tokens", "seed", "reasoning_effort", "timeout"}

\* Raw fields forwarded verbatim unless null, [] or {}.
Verbatim == {"tools", "tool_choice", "parallel_tool_calls", "response_format"}

\* Mutant: stop is missing from the list, though the struct decodes it.
modeledTopLevelKeys_NoStop ==
    {"model", "messages", "stream", "n", "functions"} \cup Pointers \cup Verbatim

modeledTopLevelKeys ==
    {"model", "messages", "stream", "stop", "n", "functions"} \cup Pointers \cup Verbatim

droppedTopLevelKeys == {"stream", "stream_options", "messages", "model"}

\* What the code tells apart in a value: null; [] or {} where the key takes
\* one; a value of its type it accepts ("good"); one it does not ("bad": n or
\* max_tokens out of range, a negative timeout, a blank entry of stop); a blank
\* string; a value of another type.
Values == {"null", "empty", "good", "bad", "blank", "other"}

NullOrEmpty(b, k) == k \notin DOMAIN b \/ b[k] \in {"null", "empty"}

Absent(b, k) == k \notin DOMAIN b \/ b[k] = "null"

Typed == (modeledTopLevelKeys \cup {"stream_options"}) \ (Verbatim \cup {"stop", "functions"})

\* json.Decode of ChatRequest: a struct field of another type is an error, and
\* so is [] or {} for a scalar.
Undecodable(b) ==
    \E k \in Typed \cap DOMAIN b :
        \/ b[k] = "other"
        \/ b[k] = "empty" /\ k \notin {"messages", "stream_options"}

\* decodeStop: absent, or a string or an array of strings, none of them blank.
StopDecodes(b) == NullOrEmpty(b, "stop") \/ b["stop"] = "good"

\* The refusals of BuildOptions, in its order; prompt.Validate is the library's.
Refused(b) ==
    \/ Absent(b, "model") \/ b["model"] = "blank"
    \/ NullOrEmpty(b, "messages")
    \/ ~ NullOrEmpty(b, "functions")
    \/ ~ Absent(b, "n") /\ b["n"] # "good"
    \/ ~ Absent(b, "max_tokens") /\ b["max_tokens"] = "bad"
    \/ ~ StopDecodes(b)
    \/ ~ Absent(b, "timeout") /\ b["timeout"] = "bad"

\* The keys whose values become options of the call.
Options(b) ==
    {k \in Pointers : ~ Absent(b, k) /\ ~ (k = "reasoning_effort" /\ b[k] = "blank")}
    \cup (IF NullOrEmpty(b, "stop") THEN {} ELSE {"stop"})

\* UnmarshalJSON: what is neither modelled nor reserved.
ExtraFields(b) == DOMAIN b \ (modeledTopLevelKeys \cup droppedTopLevelKeys)

\* Mutant: absent and empty fields are forwarded too.
ExtraBody_Unfiltered(b) == Verbatim \cup ExtraFields(b)

\* passThroughFields: the keys given to smolllm.WithExtraBody.
ExtraBody(b) == {k \in Verbatim : ~ NullOrEmpty(b, k)} \cup ExtraFields(b)

-----------------------------------------------------------------------------
(* The leaves of a message.                                                *)

Keys(m) == {p[1] : p \in m}

InCall(p) == p[1] = "tool_calls" /\ Len(p) > 2

\* The streaming-only key of a call.
IsIndex(p) == InCall(p) /\ p[3] = "index"

Assistant(m) == <<"role", "assistant">> \in m

\* A message the union decodes: tool_calls is either an array of calls or not,
\* and the id and the type of a call are of the types it models.
WellTyped(m) ==
    /\ \A p, q \in m : InCall(p) /\ q[1] = "tool_calls" => InCall(q)
    /\ \A p \in m : InCall(p) /\ p[3] \in {"id", "type"} => p \in Modelled

\* What the union decodes, and would encode again; calls, for an assistant.
Decoded(m) == {p \in m \cap Modelled : p[1] = "tool_calls" => Assistant(m)}

\* The calls decoded, and those decoded as calls of a function.
CallsOf(m) == IF Assistant(m) THEN {p[2] : p \in {p \in m : InCall(p)}} ELSE {}

FunctionCalls(m) ==
    {j \in CallsOf(m) : \E p \in m : InCall(p) /\ p[2] = j /\ p[3] = "function"}

\* Mutant: every key of a call but "function" is put back.
CallExtras_WithIndex(m) ==
    {p \in m : InCall(p) /\ p[2] \in FunctionCalls(m) /\ p[3] # "function"}

\* restoreToolCallExtras: the keys of a function call it puts back.
CallExtras(m) ==
    {p \in m : /\ InCall(p) /\ p[2] \in FunctionCalls(m)
               /\ p[3] \notin {"id", "type", "function", "index"}}

Encoded(m) == Decoded(m) \cup CallExtras(m)

\* Mutant: any call is enough.
restorerOwnsToolCalls_AnyCall(m) == CallsOf(m) # {}

restorerOwnsToolCalls(m) == CallsOf(m) # {} /\ CallsOf(m) \subseteq FunctionCalls(m)

\* stripToolCallIndexes, of a value forwarded verbatim.
Stripped(m, k) == {p \in m : p[1] = k /\ ~ IsIndex(p)}

\* jsonSubset, of what is under a key of the message sent and of the encoded one.
Survives(m, k) == \A p \in m : p[1] = k => p \in Encoded(m)

\* restoreMessageExtras: the keys that did not survive the union, and tool_calls
\* the other restorer does not own.
MessageExtras(m) ==
    {k \in Keys(m) :
        IF k = "tool_calls" THEN ~ restorerOwnsToolCalls(m)
        ELSE ~ Survives(m, k)}

\* SetExtraFields replaces the keys of the message by the raw ones.
Wire(m) ==
    {p \in Encoded(m) : p[1] \notin MessageExtras(m)}
    \cup UNION {Stripped(m, k) : k \in MessageExtras(m)}

\* DeltaToolCall.MarshalJSON: a streamed call carries its position.
DeltaToolCalls(calls) ==
    calls \cup {<<"tool_calls", p[2], "index", "int">> : p \in calls}
=============================================================================
