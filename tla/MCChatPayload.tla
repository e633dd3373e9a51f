---------------------------- MODULE MCChatPayload ----------------------------
(* ChatPayload for TLC: a turn varies up to two keys of its body, or its   *)
(* message, from plain ones.                                               *)
EXTENDS ChatPayload

Content ==
    {{}, {<<"content", "text">>}, {<<"content", "null">>},
     {<<"content", "0", "text", "str">>},
     {<<"content", "0", "text", "str">>, <<"content", "0", "cache_control", "obj">>}}

\* A call of a function or a custom one, and what may come with it.
Call(j, kind) ==
    {<<"tool_calls", j, "id", "str">>, <<"tool_calls", j, "type", kind>>,
     <<"tool_calls", j, kind, "name">>}

More(j) ==
    {<<"tool_calls", j, "index", "int">>, <<"tool_calls", j, "extra_content", "str">>,
     <<"tool_calls", j, "function", "signature">>}

OneCall(j) ==
    {Call(j, "function") \cup x : x \in SUBSET More(j)}
    \cup {Call(j, "custom") \cup x : x \in SUBSET {x \in More(j) : x[3] # "function"}}

Calls ==
    {{}, {<<"tool_calls", "null">>}, {<<"tool_calls", "empty">>}}
    \cup OneCall("0") \cup {x \cup y : x \in OneCall("0"), y \in OneCall("1")}

MCMessages ==
    {{<<"role", r>>} \cup c \cup x \cup t :
        r \in {"user", "assistant"}, c \in Content, t \in Calls,
        x \in {{}, {<<"reasoning_content", "text">>}}}

MCModelled ==
    {<<"role", "user">>, <<"role", "assistant">>, <<"content", "text">>,
     <<"content", "0", "text", "str">>}
    \cup UNION {Call(j, k) : j \in {"0", "1"}, k \in {"function", "custom"}}

PlainMessage == {<<"role", "user">>, <<"content", "text">>}

Scalars == {"temperature", "max_tokens", "timeout", "n", "stream"}
Lists   == {"tools", "functions", "stop"}

ValuesOf(k) ==
    CASE k \in {"model", "reasoning_effort"} -> {"null", "good", "blank", "other"}
      [] k \in {"n", "max_tokens", "timeout"} -> {"null", "good", "bad", "other"}
      [] k \in {"temperature", "stream"} -> {"null", "good", "other"}
      [] k = "stop" -> {"null", "empty", "good", "bad", "other"}
      [] OTHER -> {"null", "empty", "good", "other"}

MCKeys ==
    {"model", "messages", "reasoning_effort", "stream_options", "metadata",
     "response_format"} \cup Scalars \cup Lists

PlainBody == [k \in {"model", "messages"} |-> "good"]

Set(b, k, v) == [j \in DOMAIN b \cup {k} |-> IF j = k THEN v ELSE b[j]]

\* The plain body with any value under two of its keys, or without one.
MCBodies ==
    UNION {UNION {{Set(Set(PlainBody, k, v), j, w) : v \in ValuesOf(k), w \in ValuesOf(j)} :
                      j \in MCKeys} : k \in MCKeys}
    \cup {[k \in {"model", "messages"} \ {j} |-> "good"] : j \in {"model", "none"}}

MCRequests ==
    {[body |-> b, message |-> PlainMessage] : b \in MCBodies}
    \cup {[body |-> PlainBody, message |-> m] : m \in MCMessages}

MCAnswers == {Call("0", "function") \cup x :
    x \in SUBSET {<<"tool_calls", "0", "extra_content", "str">>}}
    \cup {Call("0", "function") \cup Call("1", "custom")
              \cup {<<"tool_calls", "1", "extra_content", "str">>}}

Number(digits, decimals, exponent) ==
    [form |-> "number", negative |-> FALSE, digits |-> digits,
     decimals |-> decimals, exponent |-> exponent, long |-> FALSE]

\* 0, 2.62, 1.5, 1e-2, 1.5e1, 2e2, and ones the tally does not take.
MCDebits ==
    {Number(0, 0, 0), Number(262, 2, 0), Number(15, 1, 0), Number(1, 0, -2),
     Number(15, 1, 1), Number(2, 0, 2), Number(1, 1, -2), Number(1, 0, 3),
     [Number(15, 1, 0) EXCEPT !.negative = TRUE],
     [Number(15, 1, 0) EXCEPT !.form = "quoted"],
     [Number(0, 0, 0) EXCEPT !.form = "absent"]}
=============================================================================
