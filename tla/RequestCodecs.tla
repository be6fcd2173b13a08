---------------------------- MODULE RequestCodecs ---------------------------
(***************************************************************************)
(* The request codecs of internal/protocol/translate: from each of the     *)
(* three wire protocols into the IR (ir.go), and from the IR into each.    *)
(*                                                                         *)
(* A text is the sequence of the utterances (numbers) it is made of, so    *)
(* that joining texts is concatenation and the empty text is <<>>; a JSON  *)
(* string of content is the array with that one text in it, absent content *)
(* the empty array.  Ids, arguments and schemas are values.  Sampling      *)
(* parameters, stop sequences and names of models are carried along as     *)
(* they are and left out.                                                  *)
(***************************************************************************)
EXTENDS Naturals, Sequences, SequencesExt

CONSTANTS DefaultMaxTokens, (* Options.DefaultMaxTokens; 0 is "no default" *)
          MaxNesting        (* how deep the namespaces of tools are nested  *)

ASSUME CodecsAssumption == DefaultMaxTokens \in Nat /\ MaxNesting \in Nat

MapSeq(F(_), s)  == [i \in DOMAIN s |-> F(s[i])]
FlatMap(F(_), s) == FlattenSeq(MapSeq(F, s))

OfKinds(kinds, cs) == FlatMap(LAMBDA c : IF c.kind \in kinds THEN <<c>> ELSE <<>>, cs)
OfKind(kind, cs)   == OfKinds({kind}, cs)
OfType(type, bs)   == FlatMap(LAMBDA b : IF b.type = type THEN <<b>> ELSE <<>>, bs)

-----------------------------------------------------------------------------
(***************************************************************************)
(* The IR.  max = 0 stands for MaxTokens nil or not positive, which every  *)
(* FromIR treats alike; choice "auto" is the zero ToolChoice.              *)
(***************************************************************************)
Raw(type, data) == [type |-> type, data |-> data]
NoRaw           == Raw("none", 0)
IsOpaque(c)     == c.raw.type # "none"

Text(s)                == [kind |-> "text", text |-> s]
Image                  == [kind |-> "image"]
Thinking(s, sig, raw)  == [kind |-> "thinking", text |-> s, signature |-> sig, raw |-> raw]
ToolUse(id, input)     == [kind |-> "tool_use", id |-> id, input |-> input]
(* out: [json |-> whether it is other than a JSON string, text |-> ...]    *)
ToolResult(id, out, e) == [kind |-> "tool_result", id |-> id, out |-> out, is_error |-> e]

Message(role, content) == [role |-> role, content |-> content]

JoinText(cs) == FlatMap(LAMBDA c : c.text, OfKind("text", cs))

(* The arguments "none" and "invalid" are no JSON object.                  *)
ArgumentsOr(args, other) == IF args \in {"none", "invalid"} THEN other ELSE args

(* Hosted tools mean nothing to another provider; namespaces are flattened.*)
FlattenTools(tools) ==
    LET unfolded[n \in 0..MaxNesting] ==
            IF n = 0 THEN tools
            ELSE FlatMap(LAMBDA t : IF t.type = "namespace" THEN t.tools ELSE <<t>>,
                         unfolded[n - 1])
    IN  MapSeq(LAMBDA t : t.name, OfType("function", unfolded[MaxNesting]))

-----------------------------------------------------------------------------
(***************************************************************************)
(* Anthropic Messages.                                                     *)
(***************************************************************************)
AnthropicBlockToIR(b) ==
    CASE b.type = "text"              -> Text(b.text)
      [] b.type = "thinking"          -> Thinking(b.text, b.signature, NoRaw)
      [] b.type = "redacted_thinking" -> Thinking(<<>>, "", Raw("redacted_thinking", b.data))
      [] b.type = "tool_use"          -> ToolUse(b.id, ArgumentsOr(b.input, "{}"))
      [] b.type = "tool_result"       -> ToolResult(b.id, b.content, b.is_error)
      [] b.type = "image"             -> Image

AnthropicRequestToIR(w) ==
    [system   |-> MapSeq(AnthropicBlockToIR, w.system),
     messages |-> MapSeq(LAMBDA m : Message(m.role, MapSeq(AnthropicBlockToIR, m.content)),
                         w.messages),
     tools    |-> MapSeq(LAMBDA t : t.name, w.tools),
     choice   |-> CASE w.choice = "any"  -> "required"
                    [] w.choice = "tool" -> "named"
                    [] OTHER             -> w.choice,
     max      |-> w.max,
     stream   |-> w.stream]

(* One block or none.  Opaque reasoning is emitted only as Anthropic's own *)
(* redacted_thinking, thinking only with its signature.                    *)
IRThinkingToAnthropic(c) ==
    IF IsOpaque(c)
    THEN IF c.raw.type = "redacted_thinking"
         THEN <<[type |-> "redacted_thinking", data |-> c.raw.data]>>
         ELSE <<>>
    ELSE IF c.signature = ""
         THEN <<>>
         ELSE <<[type |-> "thinking", text |-> c.text, signature |-> c.signature]>>

(* What is no JSON string is made one.                                     *)
AnthropicOutput(out) == [json |-> FALSE, text |-> out.text]

IRBlockToAnthropic(c) ==
    CASE c.kind = "text"        -> <<[type |-> "text", text |-> c.text]>>
      [] c.kind = "thinking"    -> IRThinkingToAnthropic(c)
      [] c.kind = "tool_use"    -> <<[type |-> "tool_use", id |-> c.id, input |-> c.input]>>
      [] c.kind = "tool_result" -> <<[type |-> "tool_result", id |-> c.id, is_error |-> c.is_error,
                                      content |-> AnthropicOutput(c.out)]>>
      [] c.kind = "image"       -> <<[type |-> "image"]>>

IRContentToAnthropic(cs) == FlatMap(IRBlockToAnthropic, cs)

(* Adjacent messages of one role become one, mid-conversation system       *)
(* messages excepted.                                                      *)
MergeNext(out, m) ==
    IF out # <<>> /\ Last(out).role = m.role /\ m.role # "system"
    THEN Append(Front(out), Message(m.role, Last(out).content \o m.content))
    ELSE Append(out, m)

MergeAdjacentAnthropic(msgs) == FoldLeft(MergeNext, <<>>, msgs)

(* The system messages before the first other message, and the rest.       *)
SplitSystem_Everywhere(msgs) ==
    [system |-> SelectSeq(msgs, LAMBDA m : m.role = "system"),
     rest   |-> SelectSeq(msgs, LAMBDA m : m.role # "system")]

SplitSystem(msgs) ==
    LET n == CHOOSE k \in 0..Len(msgs) :
                /\ \A i \in 1..k : msgs[i].role = "system"
                /\ k < Len(msgs) => msgs[k + 1].role # "system"
    IN  [system |-> SubSeq(msgs, 1, n), rest |-> SubSeq(msgs, n + 1, Len(msgs))]

ContentOf(msgs) == FlatMap(LAMBDA m : m.content, msgs)

MaxTokens(r) == IF r.max > 0 THEN r.max ELSE DefaultMaxTokens

Expressible(to, r) == to # "anthropic" \/ MaxTokens(r) > 0

AnthropicRequestFromIR(r) ==
    LET split   == SplitSystem(r.messages)
        Role(m) == IF m.role = "tool" THEN "user" ELSE m.role
    IN  [system   |-> MapSeq(LAMBDA c : [type |-> "text", text |-> c.text],
                             OfKind("text", r.system \o ContentOf(split.system))),
         messages |-> MergeAdjacentAnthropic(
                          MapSeq(LAMBDA m : Message(Role(m), IRContentToAnthropic(m.content)),
                                 split.rest)),
         tools    |-> MapSeq(LAMBDA t : [type |-> "function", name |-> t], r.tools),
         choice   |-> CASE r.choice = "required" -> "any"
                        [] r.choice = "named"    -> "tool"
                        [] OTHER                 -> r.choice,
         max      |-> MaxTokens(r),
         stream   |-> r.stream]

-----------------------------------------------------------------------------
(***************************************************************************)
(* OpenAI Chat Completions.  A message has every field; those it does not  *)
(* carry are empty.                                                        *)
(***************************************************************************)
ChatMsg(role, content)    == [role |-> role, content |-> content, tool_calls |-> <<>>, call |-> 0]
ToolMsg(id, content)      == [role |-> "tool", content |-> content, tool_calls |-> <<>>, call |-> id]
AsPart(c)                 == IF c.kind = "image" THEN [type |-> "image_url"]
                                                 ELSE [type |-> "text", text |-> c.text]
AsString(s)               == <<[type |-> "text", text |-> s]>>

ChatPartToIR(p)     == IF p.type = "image_url" THEN Image ELSE Text(p.text)
ChatContentToIR(ps) == MapSeq(ChatPartToIR, ps)

(* Parts that are all text become one string.                              *)
ChatContent(ps) ==
    IF ps = <<>> \/ \E i \in DOMAIN ps : ps[i].type # "text"
    THEN ps ELSE AsString(FlatMap(LAMBDA p : p.text, ps))

(* The word that marks a failed tool call where no field does.             *)
ErrorWord == 0

Prefixed(c) ==
    IF c.is_error /\ (c.out.text = <<>> \/ Head(c.out.text) # ErrorWord)
    THEN <<ErrorWord>> \o c.out.text ELSE c.out.text

ToolResultsToChat(cs) == MapSeq(LAMBDA c : ToolMsg(c.id, AsString(Prefixed(c))), cs)

IRUserToChat_TextFirst(cs) ==
    LET parts   == MapSeq(AsPart, OfKinds({"text", "image"}, cs))
        results == ToolResultsToChat(OfKind("tool_result", cs))
    IN  (IF parts = <<>> THEN <<>> ELSE <<ChatMsg("user", ChatContent(parts))>>) \o results

IRUserToChat(cs) ==
    LET parts   == MapSeq(AsPart, OfKinds({"text", "image"}, cs))
        results == ToolResultsToChat(OfKind("tool_result", cs))
    IN  results \o (IF parts = <<>> THEN <<>> ELSE <<ChatMsg("user", ChatContent(parts))>>)

IRAssistantToChat(cs) ==
    LET parts == MapSeq(AsPart, OfKind("text", cs))
        calls == MapSeq(LAMBDA c : [id |-> c.id, arguments |-> ArgumentsOr(c.input, "{}")],
                        OfKind("tool_use", cs))
    IN  [role |-> "assistant", tool_calls |-> calls, call |-> 0,
         content |-> IF parts = <<>> /\ calls = <<>> THEN AsString(<<>>) ELSE ChatContent(parts)]

IRMessageToChat(m) ==
    CASE m.role = "system"    -> <<ChatMsg("system", AsString(JoinText(m.content)))>>
      [] m.role = "tool"      -> ToolResultsToChat(m.content)
      [] m.role = "user"      -> IRUserToChat(m.content)
      [] m.role = "assistant" -> <<IRAssistantToChat(m.content)>>

ChatChoice(choice) == IF choice = "named" THEN "function" ELSE choice

(* A stream carries its usage only on request.                             *)
IncludeUsage_Unasked(r) == FALSE

IncludeUsage(r) == r.stream

ChatRequestFromIR(r) ==
    [messages |-> (IF r.system = <<>> THEN <<>>
                   ELSE <<ChatMsg("system", AsString(JoinText(r.system)))>>)
                  \o FlatMap(IRMessageToChat, r.messages),
     tools    |-> MapSeq(LAMBDA t : [type |-> "function", name |-> t], r.tools),
     choice   |-> ChatChoice(r.choice),
     max      |-> r.max,
     stream   |-> r.stream,
     include_usage |-> IncludeUsage(r)]

ChatMessageToIR(m) ==
    CASE m.role \in {"system", "developer"} -> Message("system", ChatContentToIR(m.content))
      [] m.role = "user"      -> Message("user", ChatContentToIR(m.content))
      [] m.role = "assistant" ->
            Message("assistant",
                    ChatContentToIR(m.content)
                    \o MapSeq(LAMBDA tc : ToolUse(tc.id, ArgumentsOr(tc.arguments, "{}")),
                              m.tool_calls))
      [] m.role = "tool"      ->
            Message("tool", <<ToolResult(m.call, [json |-> FALSE,
                                                  text |-> JoinText(ChatContentToIR(m.content))],
                                         FALSE)>>)

(* Chat and Responses write tool_choice alike.                             *)
ChoiceToIR(choice) == IF choice = "function" THEN "named" ELSE choice

ChatRequestToIR(w) ==
    LET split == SplitSystem(MapSeq(ChatMessageToIR, w.messages))
    IN  [system   |-> ContentOf(split.system),
         messages |-> split.rest,
         tools    |-> MapSeq(LAMBDA t : t.name, OfType("function", w.tools)),
         choice   |-> ChoiceToIR(w.choice),
         max      |-> w.max,
         stream   |-> w.stream]

-----------------------------------------------------------------------------
(***************************************************************************)
(* OpenAI Responses.  A conversation is a list of items; what an assistant *)
(* did in one turn is spread over several.                                 *)
(***************************************************************************)
MessageItem(role, content)  == [type |-> "message", role |-> role, content |-> content]
CallItem(id, args)          == [type |-> "function_call", call |-> id, arguments |-> args]
OutputItem(id, out)         == [type |-> "function_call_output", call |-> id, output |-> out]
ReasoningItem(text, data)   == [type |-> "reasoning", summary |-> text, data |-> data]

(* input_text, output_text and refusal are all text.                       *)
ResponsesPartToIR(p)     == IF p.type = "input_image" THEN Image
                            ELSE IF p.type = "refusal" THEN Text(p.refusal) ELSE Text(p.text)
ResponsesContentToIR(ps) == MapSeq(ResponsesPartToIR, ps)

(* A reasoning item is kept byte for byte.                                 *)
ReasoningToIR(it) == Thinking(it.summary, "", Raw("reasoning", it))

AppendAssistant(msgs, cs) ==
    IF msgs # <<>> /\ Last(msgs).role = "assistant"
    THEN Append(Front(msgs), Message("assistant", Last(msgs).content \o cs))
    ELSE Append(msgs, Message("assistant", cs))

AddItem(msgs, it) ==
    CASE it.type = "message" /\ it.role \in {"developer", "system"} ->
            Append(msgs, Message("system", ResponsesContentToIR(it.content)))
      [] it.type = "message" /\ it.role = "user" ->
            Append(msgs, Message("user", ResponsesContentToIR(it.content)))
      [] it.type = "message" /\ it.role = "assistant" ->
            AppendAssistant(msgs, ResponsesContentToIR(it.content))
      [] it.type = "function_call" ->
            AppendAssistant(msgs, <<ToolUse(it.call, ArgumentsOr(it.arguments, "{}"))>>)
      [] it.type = "function_call_output" ->
            Append(msgs, Message("tool", <<ToolResult(it.call, it.output, FALSE)>>))
      [] it.type = "reasoning" -> AppendAssistant(msgs, <<ReasoningToIR(it)>>)

ResponsesRequestToIR(w) ==
    [system   |-> IF w.instructions = <<>> THEN <<>> ELSE <<Text(w.instructions)>>,
     messages |-> FoldLeft(AddItem, <<>>, w.input),
     tools    |-> FlattenTools(w.tools),
     choice   |-> ChoiceToIR(w.choice),
     max      |-> w.max,
     stream   |-> w.stream]

(* toolResultString: only a JSON string gets the error word.               *)
ResponsesOutput(c) ==
    [json |-> FALSE, text |-> IF c.out.json THEN c.out.text ELSE Prefixed(c)]

OutputItems(cs) == MapSeq(LAMBDA c : OutputItem(c.id, ResponsesOutput(c)), OfKind("tool_result", cs))

MessageItems(role, parts) == IF parts = <<>> THEN <<>> ELSE <<MessageItem(role, parts)>>

TextParts(type, cs) == MapSeq(LAMBDA c : [type |-> type, text |-> c.text], OfKind("text", cs))

IRUserToItems(cs) ==
    OutputItems(cs)
    \o MessageItems("user",
           MapSeq(LAMBDA c : IF c.kind = "image" THEN [type |-> "input_image"]
                             ELSE [type |-> "input_text", text |-> c.text],
                  OfKinds({"text", "image"}, cs)))

(* The text parts gathered so far are flushed before a call or reasoning.  *)
Flush(s) == s.items \o MessageItems("assistant", s.parts)

AddBlock(s, c) ==
    CASE c.kind = "text" ->
            [s EXCEPT !.parts = Append(@, [type |-> "output_text", text |-> c.text])]
      [] c.kind = "tool_use" ->
            [items |-> Append(Flush(s), CallItem(c.id, ArgumentsOr(c.input, "{}"))), parts |-> <<>>]
      [] c.kind = "thinking" ->
            [items |-> Flush(s) \o (IF c.raw.type = "reasoning" THEN <<c.raw.data>> ELSE <<>>),
             parts |-> <<>>]
      [] OTHER -> s

IRAssistantToItems(cs) == Flush(FoldLeft(AddBlock, [items |-> <<>>, parts |-> <<>>], cs))

IRMessageToItems(m) ==
    CASE m.role = "system"    -> MessageItems("developer", TextParts("input_text", m.content))
      [] m.role = "user"      -> IRUserToItems(m.content)
      [] m.role = "tool"      -> OutputItems(m.content)
      [] m.role = "assistant" -> IRAssistantToItems(m.content)

ResponsesRequestFromIR(r) ==
    [instructions |-> JoinText(r.system),
     input    |-> FlatMap(IRMessageToItems, r.messages),
     tools    |-> MapSeq(LAMBDA t : [type |-> "function", name |-> t], r.tools),
     choice   |-> ChatChoice(r.choice),
     max      |-> r.max,
     stream   |-> r.stream,
     previous |-> FALSE]

-----------------------------------------------------------------------------
(***************************************************************************)
(* The two lookups, and Translator.Request.                                *)
(***************************************************************************)
RequestToIR(protocol, w) ==
    CASE protocol = "anthropic"        -> AnthropicRequestToIR(w)
      [] protocol = "openai_chat"      -> ChatRequestToIR(w)
      [] protocol = "openai_responses" -> ResponsesRequestToIR(w)

RequestFromIR(protocol, r) ==
    CASE protocol = "anthropic"        -> AnthropicRequestFromIR(r)
      [] protocol = "openai_chat"      -> ChatRequestFromIR(r)
      [] protocol = "openai_responses" -> ResponsesRequestFromIR(r)

(* The directions' inputs Request refuses: server-side state cannot be     *)
(* reproduced, and Anthropic needs max_tokens.                             *)
Translatable_Stateful(from, to, w) == Expressible(to, RequestToIR(from, w))

Translatable(from, to, w) ==
    /\ from = "openai_responses" => ~w.previous
    /\ Expressible(to, RequestToIR(from, w))

TranslateRequest(from, to, w) == RequestFromIR(to, RequestToIR(from, w))

(* Request's second result: the default was written.                       *)
Defaulted(from, to, w) ==
    to = "anthropic" /\ RequestToIR(from, w).max = 0 /\ DefaultMaxTokens > 0
=============================================================================
