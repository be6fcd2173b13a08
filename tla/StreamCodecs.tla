---------------------------- MODULE StreamCodecs ----------------------------
(***************************************************************************)
(* The streaming codecs of internal/protocol/translate: what each decoder  *)
(* (ToIR) makes of an upstream event, and what each encoder (FromIR) makes *)
(* of an IR event, as operators from a codec's state and an event to its   *)
(* next state and what it emits.                                           *)
(*                                                                         *)
(* Content is a fragment number: what matters is which fragments arrive,   *)
(* in which order, and in which block.  Usage is "none", "input" (what     *)
(* message_start knows) or "final".  Ids, names, signatures and the frames *)
(* that only repeat what was said before are left out, and so are the      *)
(* branches only a same-protocol direction would reach, which Supported    *)
(* rules out.                                                              *)
(***************************************************************************)
EXTENDS Integers, Sequences

CONSTANT MaxBlocks            (* blocks, items or tool calls of a message  *)

ASSUME CodecsAssumption == MaxBlocks \in Nat

Protocols == {"anthropic", "openai_chat", "openai_responses"}
Kinds     == {"text", "thinking", "tool"}

(* translate.Supported: the six cross-protocol directions.                 *)
Supported(from, to) == from \in Protocols /\ to \in Protocols /\ from # to

(* An upstream event: its type, the kind, index and fragment of the        *)
(* content it is about, and the usage it carries.                          *)
Up(type, kind, index, frag, usage) ==
    [type |-> type, kind |-> kind, index |-> index, frag |-> frag, usage |-> usage]

(* An IR event (StreamEvent).                                              *)
IR(kind, index, frag, usage) ==
    [kind |-> kind, index |-> index, frag |-> frag, usage |-> usage]
Plain(kind)           == IR(kind, 0, 0, "none")
On(kind, index)       == IR(kind, index, 0, "none")
Piece(kind, index, f) == IR(kind, index, f, "none")

DeltaOf(kind) ==
    CASE kind = "text" -> "text_delta" [] kind = "thinking" -> "thinking_delta"
      [] OTHER -> "tool_input_delta"

-----------------------------------------------------------------------------
(***************************************************************************)
(* Decoders.  blocks says what is known at an index; the rest is the state *)
(* of chatStreamIn and the flags of the others.                            *)
(***************************************************************************)
NewDecoder ==
    [blocks |-> [i \in 0..MaxBlocks - 1 |-> "none"], started |-> FALSE, stopped |-> FALSE,
     curTool |-> -1, finish |-> FALSE, reasonOpen |-> FALSE, usage |-> "none"]

Decoded(d, evs) == [dec |-> d, evs |-> evs, err |-> FALSE]
Undecodable(d)  == [dec |-> d, evs |-> <<>>, err |-> TRUE]

(* One step of a decoder after another; an error takes the events along.   *)
Join(a, b) ==
    IF a.err \/ b.err THEN Undecodable(IF a.err THEN a.dec ELSE b.dec)
    ELSE Decoded(b.dec, a.evs \o b.evs)
AndThen(a, Step(_)) == Join(a, Step(a.dec))

AnthropicToIR(d, e) ==
    CASE e.type = "start" ->
            Decoded([d EXCEPT !.usage = e.usage], <<IR("message_start", 0, 0, e.usage)>>)
      [] e.type = "block_start" ->
            CASE e.kind = "unknown" -> Undecodable(d)
              [] e.kind = "redacted" -> Decoded([d EXCEPT !.blocks[e.index] = "thinking"],
                                                <<On("thinking_done", e.index)>>)
              [] OTHER -> Decoded([d EXCEPT !.blocks[e.index] = e.kind],
                                  IF e.kind = "tool" THEN <<On("tool_use_start", e.index)>> ELSE <<>>)
      [] e.type = "delta" -> Decoded(d, <<Piece(DeltaOf(e.kind), e.index, e.frag)>>)
      [] e.type = "block_stop" ->
            Decoded([d EXCEPT !.blocks[e.index] = "none"],
                    CASE d.blocks[e.index] = "tool"     -> <<On("tool_use_stop", e.index)>>
                      [] d.blocks[e.index] = "thinking" -> <<On("thinking_done", e.index)>>
                      [] OTHER                          -> <<>>)
      [] e.type = "closing" -> Decoded([d EXCEPT !.usage = e.usage], <<>>)
      [] e.type = "stop"    -> Decoded(d, <<IR("message_stop", 0, 0, d.usage)>>)
      [] e.type = "error"   -> Decoded(d, <<Plain("error")>>)
      [] OTHER              -> Decoded(d, <<>>)

(* chatStreamIn.  Tool blocks sit at index + 1, text at 0, thinking at -1. *)
CloseCurrentTool_Again(d) ==
    IF d.curTool < 0 THEN Decoded(d, <<>>)
    ELSE Decoded([d EXCEPT !.blocks[d.curTool] = "closed"],
                 <<On("tool_use_stop", d.curTool + 1)>>)

CloseCurrentTool(d) ==
    IF d.curTool < 0 THEN Decoded(d, <<>>)
    ELSE Decoded([d EXCEPT !.curTool = -1, !.blocks[d.curTool] = "closed"],
                 <<On("tool_use_stop", d.curTool + 1)>>)

CloseReasoning(d) ==
    Decoded([d EXCEPT !.reasonOpen = FALSE],
            IF d.reasonOpen THEN <<On("thinking_done", -1)>> ELSE <<>>)

StopMessage(d) == Decoded(d, <<IR("message_stop", 0, 0, d.usage)>>)

FinishIfNeeded(d) ==
    IF d.stopped \/ ~d.started THEN Decoded(d, <<>>)
    ELSE AndThen(AndThen(CloseCurrentTool([d EXCEPT !.stopped = TRUE]), CloseReasoning), StopMessage)

(* One entry of choices[0].delta.tool_calls.                               *)
OpenTool(d, index) ==
    Decoded([d EXCEPT !.blocks[index] = "tool", !.curTool = index],
            <<On("tool_use_start", index + 1)>>)

StartTool(d, index) ==
    AndThen(AndThen(CloseCurrentTool(d), CloseReasoning), LAMBDA x : OpenTool(x, index))

ToolInput(d, e) ==
    Decoded(d, IF e.frag = 0 THEN <<>> ELSE <<Piece("tool_input_delta", e.index + 1, e.frag)>>)

ToolFragment_DropsFirst(d, e) ==
    CASE d.blocks[e.index] = "closed" -> Undecodable(d)
      [] d.blocks[e.index] = "none"   -> StartTool(d, e.index)
      [] OTHER                        -> ToolInput(d, e)

ToolFragment(d, e) ==
    CASE d.blocks[e.index] = "closed" -> Undecodable(d)
      [] d.blocks[e.index] = "none"   -> AndThen(StartTool(d, e.index), LAMBDA x : ToolInput(x, e))
      [] OTHER                        -> ToolInput(d, e)

ChatChoice(d, e) ==
    CASE e.type = "chunk" /\ e.kind = "thinking" ->
            Decoded([d EXCEPT !.reasonOpen = TRUE], <<Piece("thinking_delta", -1, e.frag)>>)
      [] e.type = "chunk" /\ e.kind = "text" ->
            AndThen(CloseReasoning(d), LAMBDA x : Decoded(x, <<Piece("text_delta", 0, e.frag)>>))
      [] e.type = "chunk" /\ e.kind = "tool" -> ToolFragment(d, e)
      [] e.type = "finish"                   -> CloseCurrentTool([d EXCEPT !.finish = TRUE])
      [] OTHER                               -> Decoded(d, <<>>)

ChatStart(d, e) ==
    Decoded([d EXCEPT !.started = TRUE, !.usage = IF e.usage # "none" THEN e.usage ELSE @],
            IF d.started THEN <<>> ELSE <<Plain("message_start")>>)

ChatToIR_StopsAtFinish(d, e) ==
    CASE e.type = "done"  -> FinishIfNeeded(d)
      [] e.type = "error" -> Decoded(d, <<Plain("error")>>)
      [] OTHER ->
            AndThen(AndThen(ChatStart(d, e), LAMBDA x : ChatChoice(x, e)),
                    LAMBDA x : IF x.finish THEN FinishIfNeeded(x) ELSE Decoded(x, <<>>))

ChatToIR(d, e) ==
    CASE e.type = "done"  -> FinishIfNeeded(d)
      [] e.type = "error" -> Decoded(d, <<Plain("error")>>)
      [] OTHER ->
            AndThen(AndThen(ChatStart(d, e), LAMBDA x : ChatChoice(x, e)),
                    LAMBDA x : IF x.finish /\ e.usage # "none" THEN FinishIfNeeded(x)
                               ELSE Decoded(x, <<>>))

ResponsesToIR(d, e) ==
    CASE e.type = "start" ->
            Decoded([d EXCEPT !.started = TRUE],
                    IF d.started THEN <<>> ELSE <<Plain("message_start")>>)
      [] e.type = "block_start" ->
            Decoded([d EXCEPT !.blocks[e.index] = e.kind],
                    IF e.kind = "tool" THEN <<On("tool_use_start", e.index)>> ELSE <<>>)
      [] e.type = "delta" -> Decoded(d, <<Piece(DeltaOf(e.kind), e.index, e.frag)>>)
      [] e.type = "block_stop" ->
            Decoded(d, CASE d.blocks[e.index] = "tool"     -> <<On("tool_use_stop", e.index)>>
                         [] d.blocks[e.index] = "thinking" -> <<On("reasoning_done", e.index)>>
                         [] OTHER                          -> <<>>)
      [] e.type = "stop" ->
            Decoded([d EXCEPT !.stopped = TRUE],
                    IF d.stopped THEN <<>> ELSE <<IR("message_stop", 0, 0, e.usage)>>)
      [] e.type = "error" -> Decoded(d, <<Plain("error")>>)
      [] OTHER            -> Decoded(d, <<>>)

ToIR(protocol, d, e) ==
    CASE protocol = "anthropic"   -> AnthropicToIR(d, e)
      [] protocol = "openai_chat" -> ChatToIR(d, e)
      [] OTHER                    -> ResponsesToIR(d, e)

-----------------------------------------------------------------------------
(***************************************************************************)
(* Encoders.  open is the block (item) open at the client, -1 for none;    *)
(* src maps an IR index to the client's index of its tool block.           *)
(***************************************************************************)
NewEncoder ==
    [next |-> 0, open |-> -1, kind |-> "none", openSrc |-> -1,
     src |-> [i \in -1..MaxBlocks |-> -1], items |-> <<>>, output |-> <<>>, usage0 |-> "none"]

Out(type, index, kind, frag) == [type |-> type, index |-> index, kind |-> kind, frag |-> frag]
Encoded(s, out)   == [enc |-> s, out |-> out]
Both(a, b)        == Encoded(b.enc, a.out \o b.out)
Then(a, Step(_))  == Both(a, Step(a.enc))

(* A terminal event: what it says of usage and, for Responses, of output.  *)
Final(type, usage, output) == [type |-> type, index |-> 0, kind |-> usage, frag |-> 0, output |-> output]

Opened(s, kind, srcIndex) ==
    [s EXCEPT !.open = s.next, !.kind = kind, !.openSrc = srcIndex, !.next = @ + 1,
              !.items = Append(@, [kind |-> kind, frags |-> <<>>]),
              !.src = IF kind = "tool" THEN [@ EXCEPT ![srcIndex] = s.next] ELSE @]

Closed(s) == [s EXCEPT !.open = -1, !.kind = "none", !.openSrc = -1]

(* closeOpen of the Anthropic and the Responses encoder: a tool block that *)
(* is closed implicitly also loses its entry in src.                       *)
CloseOpen_KeepsSrc(s) ==
    IF s.open < 0 THEN Encoded(s, <<>>)
    ELSE Encoded([Closed(s) EXCEPT !.output = Append(@, s.items[s.open + 1])],
                 <<Out("block_stop", s.open, s.kind, 0)>>)

CloseOpen(s) ==
    IF s.open < 0 THEN Encoded(s, <<>>)
    ELSE Encoded([Closed(s) EXCEPT
                    !.src = IF s.kind = "tool" THEN [@ EXCEPT ![s.openSrc] = -1] ELSE @,
                    !.output = Append(@, s.items[s.open + 1])],
                 <<Out("block_stop", s.open, s.kind, 0)>>)

NewBlock(s, kind, srcIndex) ==
    Encoded(Opened(s, kind, srcIndex), <<Out("block_start", s.next, kind, 0)>>)

Open(s, kind, srcIndex) == Then(CloseOpen(s), LAMBDA x : NewBlock(x, kind, srcIndex))

EnsureOpen(s, kind) ==
    IF s.open >= 0 /\ s.kind = kind THEN Encoded(s, <<>>) ELSE Open(s, kind, -1)

Delta(s, index, kind, frag) ==
    Encoded([s EXCEPT !.items[index + 1].frags = Append(@, frag)],
            <<Out("delta", index, kind, frag)>>)

StopTool(s, srcIndex, index) ==
    Encoded([(IF s.open = index THEN Closed(s) ELSE s) EXCEPT
                !.src[srcIndex] = -1, !.output = Append(@, s.items[index + 1])],
            <<Out("block_stop", index, "tool", 0)>>)

(* Both encoders synthesise the same block structure; they differ in when  *)
(* a reasoning item closes its block and in how the message ends.          *)
BlockFromIR(s, ev) ==
    CASE ev.kind = "text_delta" ->
            Then(EnsureOpen(s, "text"), LAMBDA x : Delta(x, x.open, "text", ev.frag))
      [] ev.kind = "thinking_delta" ->
            Then(EnsureOpen(s, "thinking"), LAMBDA x : Delta(x, x.open, "thinking", ev.frag))
      [] ev.kind = "thinking_done" /\ s.kind = "thinking" -> CloseOpen(s)
      [] ev.kind = "tool_use_start" -> Open(s, "tool", ev.index)
      [] ev.kind = "tool_input_delta" ->
            Then(IF s.src[ev.index] >= 0 THEN Encoded(s, <<>>) ELSE Open(s, "tool", ev.index),
                 LAMBDA x : Delta(x, x.src[ev.index], "tool", ev.frag))
      [] ev.kind = "tool_use_stop" /\ s.src[ev.index] >= 0 ->
            StopTool(s, ev.index, s.src[ev.index])
      [] OTHER -> Encoded(s, <<>>)

AnthropicFromIR(s, ev) ==
    CASE ev.kind = "message_start" ->
            Encoded([s EXCEPT !.usage0 = ev.usage], <<Out("start", 0, "none", 0)>>)
      [] ev.kind = "message_stop" ->
            Then(CloseOpen(s), LAMBDA x : Encoded(x,
                <<Final("stop", IF ev.usage = "none" THEN x.usage0 ELSE ev.usage, <<>>)>>))
      [] ev.kind = "error" ->
            Then(CloseOpen(s), LAMBDA x : Encoded(x, <<Final("error", "none", <<>>)>>))
      [] OTHER -> BlockFromIR(s, ev)

ResponsesFromIR(s, ev) ==
    CASE ev.kind = "message_start" -> Encoded(s, <<Out("start", 0, "none", 0)>>)
      [] ev.kind = "message_stop" ->
            Then(CloseOpen(s), LAMBDA x : Encoded(x, <<Final("stop", ev.usage, x.output)>>))
      [] ev.kind = "error" ->
            Then(CloseOpen(s), LAMBDA x : Encoded(x, <<Final("error", "none", x.output)>>))
      [] OTHER -> BlockFromIR(s, ev)

(* Chat has no blocks: a text or reasoning chunk stands for itself, a tool *)
(* call has the next dense index.                                          *)
ChatTool(s, index) ==
    Encoded([s EXCEPT !.next = @ + 1, !.src[index] = s.next],
            <<Out("block_start", s.next, "tool", 0)>>)

ChatFromIR(s, ev) ==
    CASE ev.kind = "message_start"  -> Encoded(s, <<Out("start", 0, "none", 0)>>)
      [] ev.kind = "text_delta"     -> Encoded(s, <<Out("delta", 0, "text", ev.frag)>>)
      [] ev.kind = "thinking_delta" -> Encoded(s, <<Out("delta", 0, "thinking", ev.frag)>>)
      [] ev.kind = "tool_use_start" -> ChatTool(s, ev.index)
      [] ev.kind = "tool_input_delta" ->
            Then(IF s.src[ev.index] >= 0 THEN Encoded(s, <<>>) ELSE ChatTool(s, ev.index),
                 LAMBDA x : Encoded(x, <<Out("delta", x.src[ev.index], "tool", ev.frag)>>))
      [] ev.kind = "message_stop"   -> Encoded(s, <<Final("stop", ev.usage, <<>>)>>)
      [] ev.kind = "error"          -> Encoded(s, <<Final("error", "none", <<>>)>>)
      [] OTHER                      -> Encoded(s, <<>>)

FromIR(protocol, s, ev) ==
    CASE protocol = "anthropic"   -> AnthropicFromIR(s, ev)
      [] protocol = "openai_chat" -> ChatFromIR(s, ev)
      [] OTHER                    -> ResponsesFromIR(s, ev)
=============================================================================
