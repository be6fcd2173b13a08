--------------------------- MODULE ResponseCodecs ---------------------------
(***************************************************************************)
(* The codecs for complete (non-streaming) responses of                    *)
(* internal/protocol/translate: response.go and the second half of         *)
(* openai_responses.go.  An absent finish or stop reason is "null".  The   *)
(* usage counters are the subject of module Usage and left out.            *)
(***************************************************************************)
EXTENDS RequestCodecs

IRResponse(content, stop) == [content |-> content, stop |-> stop]

HasKind(kind, cs) == OfKind(kind, cs) # <<>>

(* Arguments that are no JSON are kept as a string under "_raw".           *)
Kept(args) == ArgumentsOr(args, "_raw")

-----------------------------------------------------------------------------
AnthropicStopToIR(s) ==
    CASE s \in {"end_turn", "pause_turn"} -> "end_turn"
      [] s \in {"max_tokens", "tool_use", "stop_sequence"} -> s
      [] s = "refusal" -> "content_filter"
      [] OTHER -> "other"

AnthropicStopFromIR(s) ==
    CASE s \in {"end_turn", "max_tokens", "tool_use", "stop_sequence"} -> s
      [] s = "content_filter" -> "refusal"
      [] OTHER -> "end_turn"

AnthropicResponseToIR(w) ==
    IRResponse(MapSeq(AnthropicBlockToIR, w.content), AnthropicStopToIR(w.stop_reason))

AnthropicResponseFromIR(r) ==
    [content |-> IRContentToAnthropic(r.content), stop_reason |-> AnthropicStopFromIR(r.stop)]

-----------------------------------------------------------------------------
(* "stop" with tool calls is what some servers say for "tool_calls".       *)
ChatFinishToIR_Trusting(s, hasToolCalls) ==
    CASE s = "stop" -> "end_turn"
      [] s = "length" -> "max_tokens"
      [] s = "tool_calls" -> "tool_use"
      [] s = "content_filter" -> s
      [] OTHER -> "other"

ChatFinishToIR(s, hasToolCalls) ==
    CASE s = "null" -> IF hasToolCalls THEN "tool_use" ELSE "other"
      [] s = "stop" -> IF hasToolCalls THEN "tool_use" ELSE "end_turn"
      [] s = "length" -> "max_tokens"
      [] s \in {"tool_calls", "function_call"} -> "tool_use"
      [] s = "content_filter" -> s
      [] OTHER -> "other"

ChatFinishFromIR(s, hasToolCalls) ==
    CASE s = "tool_use" -> "tool_calls"
      [] s = "max_tokens" -> "length"
      [] s = "content_filter" -> s
      [] OTHER -> IF hasToolCalls THEN "tool_calls" ELSE "stop"

(* The first choice's message; its refusal is decoded and not read.        *)
ChatResponseToIR(w) ==
    IRResponse(
        (IF w.reasoning = <<>> THEN <<>> ELSE <<Thinking(w.reasoning, "", NoRaw)>>)
        \o (IF w.content = <<>> THEN <<>> ELSE <<Text(w.content)>>)
        \o MapSeq(LAMBDA tc : ToolUse(tc.id, Kept(tc.arguments)), w.tool_calls),
        ChatFinishToIR(w.finish_reason, w.tool_calls # <<>>))

(* Texts are joined; of several thinking texts the last one is shown.      *)
ChatResponseFromIR(r) ==
    LET calls   == OfKind("tool_use", r.content)
        visible == SelectSeq(OfKind("thinking", r.content), LAMBDA c : c.text # <<>>)
    IN  [content    |-> JoinText(r.content),
         tool_calls |-> MapSeq(LAMBDA c : [id |-> c.id, arguments |-> ArgumentsOr(c.input, "{}")],
                               calls),
         reasoning  |-> IF visible = <<>> THEN <<>> ELSE Last(visible).text,
         finish_reason |-> ChatFinishFromIR(r.stop, calls # <<>>)]

-----------------------------------------------------------------------------
ResponsesStatusToIR(status, hasTool) ==
    CASE status = "completed" -> IF hasTool THEN "tool_use" ELSE "end_turn"
      [] status = "max_output_tokens" -> "max_tokens"
      [] status = "content_filter" -> status
      [] OTHER -> "other"

(* An incomplete status is named by its reason.                            *)
ResponsesStatusFromIR(s) ==
    CASE s = "max_tokens" -> "max_output_tokens"
      [] s = "content_filter" -> s
      [] OTHER -> "completed"

ResponsesOutputToIR(it) ==
    CASE it.type = "message"       -> ResponsesContentToIR(it.content)
      [] it.type = "function_call" -> <<ToolUse(it.call, Kept(it.arguments))>>
      [] it.type = "reasoning"     -> <<ReasoningToIR(it)>>
      [] OTHER                     -> <<>>

ResponsesResponseToIR(w) ==
    LET content == FlatMap(ResponsesOutputToIR, w.output)
    IN  IRResponse(content, ResponsesStatusToIR(w.status, HasKind("tool_use", content)))

(* As in a request, except that reasoning of another protocol is shown as  *)
(* a reasoning item with a summary only.                                   *)
MadeUp == 0

AddOutput(s, c) ==
    IF c.kind = "thinking" /\ c.raw.type # "reasoning" /\ c.text # <<>>
    THEN [items |-> Append(Flush(s), ReasoningItem(c.text, MadeUp)), parts |-> <<>>]
    ELSE AddBlock(s, c)

ResponsesResponseFromIR(r) ==
    [output |-> Flush(FoldLeft(AddOutput, [items |-> <<>>, parts |-> <<>>], r.content)),
     status |-> ResponsesStatusFromIR(r.stop)]

-----------------------------------------------------------------------------
ResponseToIR(protocol, w) ==
    CASE protocol = "anthropic"        -> AnthropicResponseToIR(w)
      [] protocol = "openai_chat"      -> ChatResponseToIR(w)
      [] protocol = "openai_responses" -> ResponsesResponseToIR(w)

ResponseFromIR(protocol, r) ==
    CASE protocol = "anthropic"        -> AnthropicResponseFromIR(r)
      [] protocol = "openai_chat"      -> ChatResponseFromIR(r)
      [] protocol = "openai_responses" -> ResponsesResponseFromIR(r)

(* Translator.Response: from the upstream's protocol to the client's.      *)
TranslateResponse(from, to, w) == ResponseFromIR(from, ResponseToIR(to, w))
=============================================================================
