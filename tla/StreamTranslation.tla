------------------------- MODULE StreamTranslation --------------------------
(***************************************************************************)
(* A translated stream: an upstream speaking one protocol, translate.Stream*)
(* (Feed of internal/protocol/translate/translate.go) with the two codecs, *)
(* and a client that assembles a message in another protocol, the way the  *)
(* SDKs of that protocol do.                                               *)
(*                                                                         *)
(* The upstream follows its protocol: Anthropic and Responses open, fill   *)
(* and close blocks by index; Chat sends chunks, one content each.  An     *)
(* autoregressive upstream works on one block at a time; with Interleaving *)
(* several are under way, which the protocols' indices allow.  An event    *)
(* that cannot be decoded, an error event, or the end may come at any time.*)
(***************************************************************************)
EXTENDS StreamCodecs, SequencesExt, FiniteSets

CONSTANTS
    MaxFrags,       (* content fragments of a message                      *)
    Interleaving    (* whether blocks may overlap                          *)

ASSUME TranslationAssumption == MaxFrags \in Nat /\ Interleaving \in BOOLEAN

VARIABLES
    from,      \* the upstream's protocol
    to,        \* the client's
    phase,     \* of the upstream: "start", "body", "closing", "ended"
    said,      \* the upstream's blocks, in order: kind, fragments, under way?
    frags,     \* how many fragments were sent
    usage,     \* the usage the upstream has sent
    dec,       \* decoder state
    enc,       \* encoder state
    ended,     \* Stream.ended
    failed,    \* Feed returned an error
    ir,        \* tool blocks open in the IR stream
    view       \* the message as the client has assembled it

upVars == <<from, to, phase, said, frags, usage>>
vars   == <<upVars, dec, enc, ended, failed, ir, view>>

-----------------------------------------------------------------------------
(***************************************************************************)
(* The client.  A frame its protocol does not allow at this point makes    *)
(* the view illegal.                                                       *)
(***************************************************************************)
NewView == [legal |-> TRUE, end |-> "none", blocks |-> <<>>, open |-> -1, usage |-> "none"]

AddBlock(v, kind) == [v EXCEPT !.blocks = Append(@, [kind |-> kind, frags |-> <<>>])]
Illegal(v)        == [v EXCEPT !.legal = FALSE]

TakeFramed(v, f) ==
    CASE f.type = "block_start" ->
            IF v.open # -1 \/ f.index # Len(v.blocks) THEN Illegal(v)
            ELSE [AddBlock(v, f.kind) EXCEPT !.open = f.index]
      [] f.type = "delta" ->
            IF v.open # f.index \/ v.blocks[f.index + 1].kind # f.kind THEN Illegal(v)
            ELSE [v EXCEPT !.blocks[f.index + 1].frags = Append(@, f.frag)]
      [] f.type = "block_stop" -> IF v.open # f.index THEN Illegal(v) ELSE [v EXCEPT !.open = -1]

ToolBlocks(blocks) == {k \in DOMAIN blocks : blocks[k].kind = "tool"}

(* Chat: content and reasoning are strings, tool calls a list.             *)
TakeChat(v, f) ==
    LET n == Len(v.blocks) IN
    CASE f.type = "block_start" ->
            IF f.index # Cardinality(ToolBlocks(v.blocks)) THEN Illegal(v) ELSE AddBlock(v, "tool")
      [] f.type = "delta" /\ f.kind = "tool" ->
            LET tools == ToolBlocks(v.blocks)
                mine  == {k \in tools : Cardinality({m \in tools : m < k}) = f.index}
            IN  IF mine = {} THEN Illegal(v)
                ELSE [v EXCEPT !.blocks[CHOOSE k \in mine : TRUE].frags = Append(@, f.frag)]
      [] f.type = "delta" /\ f.kind # "tool" ->
            LET w == IF n > 0 /\ v.blocks[n].kind = f.kind THEN v ELSE AddBlock(v, f.kind)
            IN  [w EXCEPT !.blocks[Len(w.blocks)].frags = Append(@, f.frag)]

Take(v, f) ==
    IF v.end # "none" \/ (f.type = "start" /\ v.blocks # <<>>) THEN Illegal(v)
    ELSE CASE f.type = "start" -> v
      [] f.type \in {"stop", "error"} ->
            [v EXCEPT !.end = f.type, !.usage = f.kind,
                      !.legal = @ /\ v.open = -1 /\
                                (to = "openai_responses" => f.output = v.blocks)]
      [] OTHER -> IF to = "openai_chat" THEN TakeChat(v, f) ELSE TakeFramed(v, f)

TakeAll(v, out) == FoldLeft(Take, v, out)

-----------------------------------------------------------------------------
(***************************************************************************)
(* Stream.Feed: decode, encode event by event, note the end.  Fail renders *)
(* an error event when either codec gives up.                              *)
(***************************************************************************)
FeedEvent(a, ev) ==
    LET encoded == FromIR(to, a.enc, ev) IN
    [enc   |-> encoded.enc,
     view  |-> TakeAll(a.view, encoded.out),
     ended |-> a.ended \/ ev.kind \in {"message_stop", "error"},
     ir    |-> CASE ev.kind = "tool_use_start" -> a.ir + 1
                 [] ev.kind = "tool_use_stop"  -> a.ir - 1
                 [] OTHER                      -> a.ir]

FeedAll(a, evs) == FoldLeft(FeedEvent, a, evs)

Deliver(decoded, fed) ==
    /\ dec' = decoded.dec /\ failed' = decoded.err
    /\ enc' = fed.enc /\ view' = fed.view /\ ended' = fed.ended /\ ir' = fed.ir

Events(decoded) == IF decoded.err THEN <<Plain("error")>> ELSE decoded.evs

Feed(e) ==
    \E decoded \in {ToIR(from, dec, e)} :
        Deliver(decoded, FeedAll([enc |-> enc, view |-> view, ended |-> ended, ir |-> ir],
                                 Events(decoded)))

-----------------------------------------------------------------------------
(***************************************************************************)
(* The upstream.                                                           *)
(***************************************************************************)
Init ==
    /\ from \in Protocols /\ to \in Protocols /\ Supported(from, to)
    /\ phase = "start" /\ said = <<>> /\ frags = 0 /\ usage = "none"
    /\ dec = NewDecoder /\ enc = NewEncoder /\ ended = FALSE /\ failed = FALSE
    /\ ir = 0 /\ view = NewView

Blocky    == from # "openai_chat"
UnderWay  == {k \in DOMAIN said : said[k].open}
Index(k)  == k - 1
ToolIndex(k) == Cardinality({m \in 1..k - 1 : said[m].kind = "tool"})
SayBlock(kind, fs) == said' = Append(said, [kind |-> kind, frags |-> fs, open |-> TRUE])
Unchanged(vs) == UNCHANGED <<from, to, vs>>

(* message_start, response.created, or the chunk with the role.            *)
StartMessage ==
    /\ ~ended /\ phase = "start"
    /\ phase' = "body"
    /\ usage' = IF from = "anthropic" THEN "input" ELSE usage
    /\ Feed(Up(IF Blocky THEN "start" ELSE "chunk", "none", 0, 0, usage'))
    /\ Unchanged(<<said, frags>>)

StartBlock(kind) ==
    /\ ~ended /\ phase = "body" /\ Blocky /\ Len(said) < MaxBlocks
    /\ UnderWay # {} => Interleaving
    /\ kind \in {"redacted", "unknown"} => from = "anthropic"
    /\ SayBlock(kind, <<>>)
    /\ Feed(Up("block_start", kind, Index(Len(said) + 1), 0, "none"))
    /\ Unchanged(<<phase, frags, usage>>)

(* A fragment of a block under way.                                        *)
SendDelta(k) ==
    /\ ~ended /\ phase = "body" /\ Blocky /\ frags < MaxFrags
    /\ k \in UnderWay /\ said[k].kind \in Kinds
    /\ said' = [said EXCEPT ![k].frags = Append(@, frags + 1)]
    /\ frags' = frags + 1
    /\ Feed(Up("delta", said[k].kind, Index(k), frags + 1, "none"))
    /\ Unchanged(<<phase, usage>>)

StopBlock(k) ==
    /\ ~ended /\ phase = "body" /\ Blocky /\ k \in UnderWay
    /\ said' = [said EXCEPT ![k].open = FALSE]
    /\ Feed(Up("block_stop", said[k].kind, Index(k), 0, "none"))
    /\ Unchanged(<<phase, frags, usage>>)

(* A Chat chunk with a new content, tool call or reasoning.                *)
ChunkNew(kind) ==
    /\ ~ended /\ phase = "body" /\ ~Blocky /\ Len(said) < MaxBlocks /\ frags < MaxFrags
    /\ SayBlock(kind, <<frags + 1>>)
    /\ frags' = frags + 1
    /\ Feed(Up("chunk", kind, IF kind = "tool" THEN ToolIndex(Len(said) + 1) ELSE 0, frags + 1, "none"))
    /\ Unchanged(<<phase, usage>>)

(* A Chat chunk that continues one, the last one unless interleaving.      *)
ChunkMore(k) ==
    /\ ~ended /\ phase = "body" /\ ~Blocky /\ frags < MaxFrags
    /\ k = Len(said) \/ (Interleaving /\ said[k].kind = "tool")
    /\ said' = [said EXCEPT ![k].frags = Append(@, frags + 1)]
    /\ frags' = frags + 1
    /\ Feed(Up("chunk", said[k].kind, IF said[k].kind = "tool" THEN ToolIndex(k) ELSE 0, frags + 1, "none"))
    /\ Unchanged(<<phase, usage>>)

(* message_delta, or the chunk with finish_reason, which may have usage.   *)
SendClosing(u) ==
    /\ ~ended /\ phase = "body" /\ from # "openai_responses"
    /\ Blocky => UnderWay = {} /\ u = "final"
    /\ phase' = "closing"
    /\ usage' = IF u = "final" THEN u ELSE usage
    /\ Feed(Up(IF Blocky THEN "closing" ELSE "finish", "none", 0, 0, u))
    /\ Unchanged(<<said, frags>>)

(* Chat: usage in a chunk of its own.                                      *)
SendUsage ==
    /\ ~ended /\ phase = "closing" /\ ~Blocky /\ usage # "final"
    /\ usage' = "final"
    /\ Feed(Up("usage", "none", 0, 0, "final"))
    /\ Unchanged(<<phase, said, frags>>)

(* message_stop, [DONE], response.completed or response.incomplete.        *)
SendEnd ==
    /\ ~ended /\ phase = (IF from = "openai_responses" THEN "body" ELSE "closing")
    /\ Blocky => UnderWay = {}
    /\ phase' = "ended"
    /\ usage' = IF from = "openai_responses" THEN "final" ELSE usage
    /\ Feed(Up(IF Blocky THEN "stop" ELSE "done", "none", 0, 0,
               IF from = "openai_responses" THEN "final" ELSE "none"))
    /\ Unchanged(<<said, frags>>)

SendError ==
    /\ ~ended /\ phase \in {"body", "closing"}
    /\ phase' = "ended"
    /\ Feed(Up("error", "none", 0, 0, "none"))
    /\ Unchanged(<<said, frags, usage>>)

Next ==
    \/ StartMessage \/ SendUsage \/ SendEnd \/ SendError
    \/ \E kind \in Kinds \union {"redacted", "unknown"} : StartBlock(kind)
    \/ \E kind \in Kinds : ChunkNew(kind)
    \/ \E k \in DOMAIN said : SendDelta(k) \/ StopBlock(k) \/ ChunkMore(k)
    \/ \E u \in {"none", "final"} : SendClosing(u)

Spec == Init /\ [][Next]_vars

-----------------------------------------------------------------------------
(***************************************************************************)
(* Properties.                                                             *)
(***************************************************************************)
(* What a message says: its text and its reasoning, each in order, and its *)
(* tool calls, each with its arguments.                                    *)
Adding(content, b) ==
    IF b.kind \notin Kinds THEN content
    ELSE [content EXCEPT ![b.kind] = IF b.kind = "tool" THEN Append(@, b.frags) ELSE @ \o b.frags]

AddingAll(content, blocks) == FoldLeft(Adding, content, blocks)

Content(blocks) == AddingAll([kind \in Kinds |-> <<>>], blocks)

TypeOK ==
    /\ Supported(from, to)
    /\ phase \in {"start", "body", "closing", "ended"} /\ frags \in 0..MaxFrags
    /\ Len(said) <= MaxBlocks /\ usage \in {"none", "input", "final"}
    /\ dec.curTool \in -1..MaxBlocks - 1 /\ enc.open \in -1..MaxBlocks - 1
    /\ {ended, failed} \subseteq BOOLEAN /\ ir \in 0..MaxBlocks
    /\ view.end \in {"none", "stop", "error"}

(* What the client receives is a stream of its own protocol: blocks start  *)
(* in sequence and do not overlap, a delta belongs to the open block, and  *)
(* nothing is open at, or follows, the end; response.completed lists the   *)
(* items that were streamed.                                               *)
ClientStreamIsLegal == view.legal

(* A message that ended well has arrived as it was said: text and          *)
(* reasoning in order, every tool call once and with all its arguments.    *)
MessageIsIntact == view.end = "stop" => Content(view.blocks) = Content(said)

(* What the encoders and the handler rely on.  Tool blocks never overlap   *)
(* in the IR stream (ir.go); and "by construction every codec has seen the *)
(* usage-bearing event before it emits MessageStop" (handler.go): when the *)
(* stream counts as ended the client has the usage sent, and no more of it *)
(* is to come.                                                             *)
DecoderContract ==
    /\ ir <= 1
    /\ view.end = "stop" => view.usage = usage /\ (usage # "final" => phase = "ended")

(* stream_openai_chat.go: "Fail loudly [...] rather than silently          *)
(* splitting the arguments across two blocks".  No codec does so for a     *)
(* tool call that goes on after other content began.                       *)
NeverSplitsSilently ==
    ~failed /\ ToolBlocks(view.blocks) # {} =>
        Cardinality(ToolBlocks(view.blocks)) <= Cardinality(ToolBlocks(said))
=============================================================================
