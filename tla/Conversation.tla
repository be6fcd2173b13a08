---------------------------- MODULE Conversation ----------------------------
(***************************************************************************)
(* An agentic conversation through the gateway.  A client keeps the        *)
(* history of the conversation in its own protocol and sends all of it     *)
(* with every request; the route may lead each request to an upstream of   *)
(* another protocol (Translator.Request and Translator.Response of         *)
(* internal/protocol/translate), or of the client's own, which passes both *)
(* bodies through.  The client appends what it is answered, runs the tools *)
(* it finds called there, and asks again with their results.               *)
(*                                                                         *)
(* The gateway keeps no state between requests: what an upstream gets to   *)
(* read of the past is what survived its way to the client, in the         *)
(* client's protocol, and back.                                            *)
(***************************************************************************)
EXTENDS ResponseCodecs

CONSTANT MaxTurns   (* how many answers a conversation has                 *)

ASSUME ConversationAssumption == MaxTurns \in Nat /\ MaxNesting >= 1

Protocols == {"anthropic", "openai_chat", "openai_responses"}

VARIABLES
    client,    \* the client's protocol
    stateful,  \* it relies on previous_response_id and sends what is new only
    request,   \* the request it sends next, in its protocol
    upstream,  \* the protocol of the upstream asked last
    asked,     \* asked[p]: the last translated request to an upstream of p
    said,      \* what was said so far: words, calls and results, in order
    pending,   \* the calls the client found in the answer, to be run
    told,      \* why generation ended, as the client was told
    original,  \* history variable: the calls and the end of the upstream's answer
    turn,      \* the number of answers so far
    phase      \* "composed", "waiting", "answered" or "refused"

vars == <<client, stateful, request, upstream, asked, said, pending, told, original,
          turn, phase>>

-----------------------------------------------------------------------------
(***************************************************************************)
(* What is said: words (and pictures), calls of tools, and their results.  *)
(***************************************************************************)
Word(n)           == [kind |-> "word", n |-> n, failed |-> FALSE]
Picture           == [kind |-> "word", n |-> 0, failed |-> FALSE]
Called(id)        == [kind |-> "tool", n |-> id, failed |-> FALSE]
Returned(id, bad) == [kind |-> "tool", n |-> id, failed |-> bad]

Words(text)       == MapSeq(Word, text)
ReadsFailed(text) == text # <<>> /\ Head(text) = ErrorWord

(* What a reader of a request in each protocol finds in it.                *)
InBlock(b) ==
    CASE b.type = "text"        -> Words(b.text)
      [] b.type = "image"       -> <<Picture>>
      [] b.type = "tool_use"    -> <<Called(b.id)>>
      [] b.type = "tool_result" -> <<Returned(b.id, b.is_error \/ ReadsFailed(b.content.text))>>
      [] OTHER                  -> <<>>

InPart(p) ==
    CASE p.type \in {"image_url", "input_image"} -> <<Picture>>
      [] p.type = "refusal"                      -> Words(p.refusal)
      [] OTHER                                   -> Words(p.text)

InParts(ps) == FlatMap(InPart, ps)

InChatMessage(m) ==
    IF m.role = "tool"
    THEN <<Returned(m.call, ReadsFailed(JoinText(ChatContentToIR(m.content))))>>
    ELSE InParts(m.content) \o MapSeq(LAMBDA tc : Called(tc.id), m.tool_calls)

InItem(it) ==
    CASE it.type = "message"              -> InParts(it.content)
      [] it.type = "function_call"        -> <<Called(it.call)>>
      [] it.type = "function_call_output" -> <<Returned(it.call, ReadsFailed(it.output.text))>>
      [] OTHER                            -> <<>>

InHistory(p, h) ==
    CASE p = "anthropic"        -> FlatMap(LAMBDA m : FlatMap(InBlock, m.content), h)
      [] p = "openai_chat"      -> FlatMap(InChatMessage, h)
      [] p = "openai_responses" -> FlatMap(InItem, h)

InSystem(p, w) ==
    CASE p = "anthropic"        -> FlatMap(InBlock, w.system)
      [] p = "openai_chat"      -> <<>>
      [] p = "openai_responses" -> Words(w.instructions)

InAnswer(p, w) ==
    CASE p = "anthropic"        -> FlatMap(InBlock, w.content)
      [] p = "openai_chat"      -> Words(w.content) \o MapSeq(LAMBDA tc : Called(tc.id), w.tool_calls)
      [] p = "openai_responses" -> FlatMap(InItem, w.output)

History(p, w)        == IF p = "openai_responses" THEN w.input ELSE w.messages
WithHistory(p, w, h) == IF p = "openai_responses" THEN [w EXCEPT !.input = h]
                                                  ELSE [w EXCEPT !.messages = h]

Heard(p, w) == InSystem(p, w) \o InHistory(p, History(p, w))

(* The order of words and calls within one turn is not Chat's to express.  *)
OnlyWords(things) == OfKind("word", things)
OnlyTools(things) == OfKind("tool", things)

-----------------------------------------------------------------------------
(***************************************************************************)
(* The client: its first request, and how it goes on.                      *)
(***************************************************************************)
Function(name) == [type |-> "function", name |-> name]

(* What a client may ask for: no limit and tools at the model's choice, or *)
(* a limit and a tool it must call.                                        *)
Settings(p) ==
    LET offered == IF p = "openai_responses"
                   THEN <<[type |-> "namespace", tools |-> <<Function("read")>>], [type |-> "hosted"]>>
                   ELSE <<Function("read")>>
        must    == IF p = "anthropic" THEN "tool" ELSE "function"
    IN  {[tools |-> offered, choice |-> "auto", max |-> 0, stream |-> TRUE],
         [tools |-> offered, choice |-> must, max |-> 5, stream |-> FALSE]}

(* The conversation begins with the system's words, a developer's where    *)
(* the protocol has them, and the user's.                                  *)
FirstRequest(p, s) ==
    CASE p = "anthropic" ->
            [system   |-> <<[type |-> "text", text |-> <<1>>], [type |-> "text", text |-> <<2>>]>>,
             messages |-> <<Message("user", <<[type |-> "text", text |-> <<3>>]>>)>>,
             tools |-> s.tools, choice |-> s.choice, max |-> s.max, stream |-> s.stream]
      [] p = "openai_chat" ->
            [messages |-> <<ChatMsg("system", AsString(<<1>>)), ChatMsg("developer", AsString(<<2>>)),
                            ChatMsg("user", AsString(<<3>>))>>,
             tools |-> s.tools, choice |-> s.choice, max |-> s.max, stream |-> s.stream]
      [] p = "openai_responses" ->
            [instructions |-> <<1>>,
             input    |-> <<MessageItem("developer", <<[type |-> "input_text", text |-> <<2>>]>>),
                            MessageItem("user", <<[type |-> "input_text", text |-> <<3>>]>>)>>,
             tools |-> s.tools, choice |-> s.choice, max |-> s.max, stream |-> s.stream,
             previous |-> FALSE]

(* The answer as the client puts it into its history.                      *)
Remembered(p, w) ==
    CASE p = "anthropic" ->
            IF w.content = <<>> THEN <<>> ELSE <<Message("assistant", w.content)>>
      [] p = "openai_chat" ->
            <<[role |-> "assistant", tool_calls |-> w.tool_calls, call |-> 0,
               content |-> IF w.content = <<>> /\ w.tool_calls # <<>> THEN <<>>
                           ELSE AsString(w.content)]>>
      [] p = "openai_responses" -> w.output

CallsIn(p, w) ==
    CASE p = "anthropic" ->
            MapSeq(LAMBDA b : b.id, OfType("tool_use", w.content))
      [] p = "openai_chat" -> MapSeq(LAMBDA tc : tc.id, w.tool_calls)
      [] p = "openai_responses" ->
            MapSeq(LAMBDA it : it.call, OfType("function_call", w.output))

EndIn(p, w) ==
    CASE p = "anthropic"        -> w.stop_reason
      [] p = "openai_chat"      -> w.finish_reason
      [] p = "openai_responses" -> w.status

(* The results of the calls, of which those in "bad" failed: only Anthropic*)
(* has a field for it.  A result may be a picture there, no string.        *)
Results(p, ids, bad) ==
    LET out(id) == [json |-> FALSE, text |-> IF id \in bad THEN <<ErrorWord>> ELSE <<>>]
    IN  CASE p = "anthropic" ->
                <<Message("user", MapSeq(LAMBDA id : [type |-> "tool_result", id |-> id,
                                                     is_error |-> id \in bad,
                                                     content |-> [json |-> id \notin bad, text |-> <<>>]],
                                         ids))>>
          [] p = "openai_chat"      -> MapSeq(LAMBDA id : ToolMsg(id, AsString(out(id).text)), ids)
          [] p = "openai_responses" -> MapSeq(LAMBDA id : OutputItem(id, out(id)), ids)

UserSays(p, n, picture) ==
    CASE p = "anthropic" ->
            <<Message("user", (IF picture THEN <<[type |-> "image"]>> ELSE <<>>)
                              \o <<[type |-> "text", text |-> <<n>>]>>)>>
      [] p = "openai_chat" ->
            <<ChatMsg("user", (IF picture THEN <<[type |-> "image_url"]>> ELSE <<>>)
                              \o AsString(<<n>>))>>
      [] p = "openai_responses" ->
            <<MessageItem("user", (IF picture THEN <<[type |-> "input_image"]>> ELSE <<>>)
                                  \o <<[type |-> "input_text", text |-> <<n>>]>>)>>

SystemSays(p, n) ==
    CASE p = "anthropic"        -> <<Message("system", <<[type |-> "text", text |-> <<n>>]>>)>>
      [] p = "openai_chat"      -> <<ChatMsg("system", AsString(<<n>>))>>
      [] p = "openai_responses" -> <<MessageItem("developer", <<[type |-> "input_text", text |-> <<n>>]>>)>>

(* Anthropic wants results and the user's words in one message.            *)
Together(p, a, b) ==
    IF p = "anthropic" /\ a # <<>> /\ b # <<>>
    THEN <<Message("user", a[1].content \o b[1].content)>> ELSE a \o b

-----------------------------------------------------------------------------
(***************************************************************************)
(* What an upstream of each protocol may answer in turn t: text, reasoning,*)
(* one or two calls, and beside any of these any reason to have ended, the *)
(* limit and the filter that cut calls short and one the codec does not    *)
(* know ("new") included; "failed" stands for cancelled, and for           *)
(* incomplete without a known reason, too (responsesStatusToIR).           *)
(***************************************************************************)
AnthropicStops  == {"end_turn", "pause_turn", "stop_sequence", "max_tokens", "tool_use", "refusal",
                    "new"}
ChatFinishes    == {"stop", "length", "tool_calls", "function_call", "content_filter", "null", "new"}
ResponsesStatus == {"completed", "max_output_tokens", "content_filter", "failed"}

AnthropicAnswers(t) ==
    LET say(k)  == [type |-> "text", text |-> <<10 * t + k>>]
        call(k) == [type |-> "tool_use", id |-> 10 * t + k, input |-> "object"]
        think   == [type |-> "thinking", text |-> <<10 * t + 9>>, signature |-> "signed"]
        hidden  == [type |-> "redacted_thinking", data |-> t]
    IN  [content     : {<<>>, <<say(1)>>, <<think, say(1)>>, <<think, say(1), call(1), call(2)>>,
                        <<hidden, call(1), say(2)>>},
         stop_reason : AnthropicStops]

ChatAnswers(t) ==
    LET call(k, args) == [id |-> 10 * t + k, arguments |-> args]
    IN  [content       : {<<>>, <<10 * t + 1>>},
         tool_calls    : {<<>>, <<call(1, "object")>>, <<call(1, "invalid"), call(2, "none")>>},
         reasoning     : {<<>>, <<10 * t + 9>>},
         finish_reason : ChatFinishes]

ResponsesAnswers(t) ==
    LET say(k, type)  == MessageItem("assistant", <<[type |-> type, text |-> <<10 * t + k>>]>>)
        no(k)         == MessageItem("assistant", <<[type |-> "refusal", refusal |-> <<10 * t + k>>]>>)
        call(k, args) == CallItem(10 * t + k, args)
        think         == ReasoningItem(<<10 * t + 9>>, t)
    IN  [output : {<<>>, <<think, say(1, "output_text")>>, <<no(1)>>, <<say(1, "output_text")>>,
                   <<think, say(1, "output_text"), call(1, "object"), think, call(2, "invalid")>>},
         status : ResponsesStatus]

Answers(p, t) ==
    CASE p = "anthropic"        -> AnthropicAnswers(t)
      [] p = "openai_chat"      -> ChatAnswers(t)
      [] p = "openai_responses" -> ResponsesAnswers(t)

-----------------------------------------------------------------------------
NotAsked == [messages |-> <<>>]

Init ==
    /\ client \in Protocols
    /\ stateful \in (IF client = "openai_responses" THEN BOOLEAN ELSE {FALSE})
    /\ \E s \in Settings(client) : request = FirstRequest(client, s)
    /\ upstream = client
    /\ asked = [p \in Protocols |-> NotAsked]
    /\ said = Heard(client, request)
    /\ pending = <<>>
    /\ told = "nothing"
    /\ original = [calls |-> <<>>, stop |-> "nothing"]
    /\ turn = 0
    /\ phase = "composed"

Translated == upstream # client

(* The request goes to an upstream of protocol p, as it is or translated.  *)
Ask(p) ==
    /\ phase = "composed"
    /\ p = client \/ Translatable(client, p, request)
    /\ upstream' = p
    /\ asked' = IF p = client THEN asked
                ELSE [asked EXCEPT ![p] = TranslateRequest(client, p, request)]
    /\ phase' = "waiting"
    /\ UNCHANGED <<client, stateful, request, said, pending, told, original, turn>>

(* Translator.Request returns an error: the client is answered 400.        *)
Refuse(p) ==
    /\ phase = "composed"
    /\ p # client /\ ~Translatable(client, p, request)
    /\ phase' = "refused"
    /\ UNCHANGED <<client, stateful, request, upstream, asked, said, pending, told, original, turn>>

(* The upstream answers; the client gets the answer in its own protocol.   *)
Answer ==
    /\ phase = "waiting"
    /\ turn < MaxTurns
    /\ \E w \in Answers(upstream, turn + 1) :
          LET seen == IF Translated THEN TranslateResponse(client, upstream, w) ELSE w
          IN  /\ request' = WithHistory(client, request,
                               IF stateful THEN <<>>
                               ELSE History(client, request) \o Remembered(client, seen))
              /\ pending' = CallsIn(client, seen)
              /\ told' = EndIn(client, seen)
              /\ original' = [calls |-> CallsIn(upstream, w), stop |-> EndIn(upstream, w)]
              /\ said' = said \o InAnswer(upstream, w)
    /\ turn' = turn + 1
    /\ phase' = "answered"
    /\ UNCHANGED <<client, stateful, upstream, asked>>

(* The client goes on: with the results of the calls, or with the user's   *)
(* words, or both, and perhaps with words of the system.                   *)
Reply ==
    /\ phase = "answered"
    /\ \E user, note, picture \in BOOLEAN, bad \in {{}, {10 * turn + 1}} :
          /\ pending = <<>> => user /\ bad = {}
          /\ picture => user /\ ~note
          /\ LET results == IF pending = <<>> THEN <<>> ELSE Results(client, pending, bad)
                 words   == IF user THEN UserSays(client, 10 * turn + 5, picture) ELSE <<>>
                 more    == Together(client, results, words)
                            \o (IF note THEN SystemSays(client, 10 * turn + 6) ELSE <<>>)
                 next    == WithHistory(client, request, History(client, request) \o more)
             IN  /\ request' = IF stateful THEN [next EXCEPT !.previous = TRUE] ELSE next
                 /\ said' = said \o InHistory(client, more)
    /\ pending' = <<>>
    /\ told' = "nothing"
    /\ original' = [calls |-> <<>>, stop |-> "nothing"]
    /\ phase' = "composed"
    /\ UNCHANGED <<client, stateful, upstream, asked, turn>>

Next ==
    \/ \E p \in Protocols : Ask(p) \/ Refuse(p)
    \/ Answer
    \/ Reply

Spec == Init /\ [][Next]_vars

-----------------------------------------------------------------------------
(***************************************************************************)
(* Properties.                                                             *)
(***************************************************************************)
JustAsked == phase = "waiting" /\ Translated

TypeOK ==
    /\ client \in Protocols /\ upstream \in Protocols
    /\ stateful \in BOOLEAN
    /\ DOMAIN asked = Protocols
    /\ turn \in 0..MaxTurns
    /\ \A i \in DOMAIN pending : pending[i] \in Nat
    /\ \A i \in DOMAIN said : said[i].kind \in {"word", "tool"} /\ said[i].failed \in BOOLEAN
    /\ phase \in {"composed", "waiting", "answered", "refused"}

Ids(type, cs) == MapSeq(LAMBDA b : b.id, OfType(type, cs))
Lawful(args)  == args \notin {"none", "invalid"}

(* The Messages API: roles alternate, system messages aside; the calls of  *)
(* an assistant message are answered, all of them and nothing else, at the *)
(* head of the message after it; thinking carries its signature.           *)
AnthropicAccepts(w) ==
    LET msgs     == w.messages
        calls(i) == IF i = 0 THEN <<>> ELSE Ids("tool_use", msgs[i].content)
        results(i) == Ids("tool_result", msgs[i].content)
    IN  /\ msgs # <<>> /\ msgs[1].role = "user"
        /\ \A i \in DOMAIN w.system : w.system[i].type = "text"
        /\ \A i \in 2..Len(msgs) : msgs[i].role = msgs[i - 1].role => msgs[i].role = "system"
        /\ Last(msgs).role # "assistant"
        /\ \A i \in DOMAIN msgs :
              /\ msgs[i].role # "assistant" => calls(i) = <<>>
              /\ ToSet(results(i)) = ToSet(calls(i - 1)) /\ Len(results(i)) = Len(calls(i - 1))
              /\ \A j \in 1..Len(results(i)) : msgs[i].content[j].type = "tool_result"
              /\ \A j \in DOMAIN msgs[i].content :
                    LET b == msgs[i].content[j]
                    IN  /\ b.type = "thinking" => b.signature # ""
                        /\ b.type = "tool_use" => Lawful(b.input)
                        /\ b.type = "tool_result" => ~b.content.json

(* Chat Completions: the tool messages for an assistant's calls follow it  *)
(* directly, one each, and there are no others.                            *)
ChatAccepts(w) ==
    LET msgs == w.messages
        SinceAssistant(i) == i - (CHOOSE k \in 0..i - 1 :
                                     /\ k > 0 => msgs[k].role # "tool"
                                     /\ \A j \in k + 1..i - 1 : msgs[j].role = "tool")
        Follows(i, n) == i + n <= Len(msgs)
    IN  /\ \A i \in DOMAIN msgs :
              LET calls == msgs[i].tool_calls
              IN  /\ msgs[i].role = "assistant" => calls # <<>> \/ msgs[i].content # <<>>
                  /\ Follows(i, Len(calls))
                  /\ {msgs[i + k].call : k \in 1..Len(calls)} = {calls[k].id : k \in DOMAIN calls}
                  /\ \A k \in DOMAIN calls : Lawful(calls[k].arguments)
        /\ \A i \in DOMAIN msgs : msgs[i].role = "tool" =>
              LET k == i - SinceAssistant(i)
              IN  k > 0 /\ \E j \in DOMAIN msgs[k].tool_calls : msgs[k].tool_calls[j].id = msgs[i].call

(* Responses: every call has one output after it, every output a call      *)
(* before it, and reasoning is an item of OpenAI's own making.             *)
ResponsesAccepts(w) ==
    LET items == w.input
        At(type, id) == {i \in DOMAIN items : items[i].type = type /\ items[i].call = id}
        ids == {items[i].call : i \in {j \in DOMAIN items :
                                          items[j].type \in {"function_call", "function_call_output"}}}
    IN  /\ \A id \in ids :
              \E i \in At("function_call", id), j \in At("function_call_output", id) :
                 /\ At("function_call", id) = {i} /\ At("function_call_output", id) = {j}
                 /\ i < j
        /\ \A i \in DOMAIN items :
              /\ items[i].type = "reasoning" => items[i].data # MadeUp
              /\ items[i].type = "function_call" => Lawful(items[i].arguments)

(* Whatever the client and earlier upstreams of other protocols have put   *)
(* into the history, a translated request keeps the rules of the protocol  *)
(* it is translated to, and carries no other family's reasoning            *)
(* (mergeAdjacentAnthropic, irMessageToChat, irContentToAnthropic).        *)
UpstreamAccepts ==
    JustAsked =>
        CASE upstream = "anthropic"        -> AnthropicAccepts(asked[upstream])
          [] upstream = "openai_chat"      -> ChatAccepts(asked[upstream])
          [] upstream = "openai_responses" -> ResponsesAccepts(asked[upstream])

(* An upstream that is asked hears everything said so far, once and in     *)
(* order: all words and pictures, its own and other upstreams' included,   *)
(* and all calls and results, the failed ones as such.                     *)
NothingIsLostOnTheWay ==
    JustAsked =>
        /\ OnlyWords(Heard(upstream, asked[upstream])) = OnlyWords(said)
        /\ OnlyTools(Heard(upstream, asked[upstream])) = OnlyTools(said)

(* An answer reaches the client with all its calls, once and in order, and *)
(* with its end: cut by a limit or a filter if the upstream's was, whether *)
(* or not there are calls beside it.  Otherwise a client with calls is     *)
(* told to run tools (in Responses: the response is completed), however    *)
(* the upstream put it, "stop" beside calls or no reason at all, and       *)
(* nobody is told to without calls, unless the upstream said so            *)
(* (chatFinishToIR, chatFinishFromIR, responsesStatusToIR).  The exception *)
(* is the code's: calls that come with a reason their codec does not know, *)
(* or in a failed response, are told an Anthropic client as the ordinary   *)
(* end of a turn (anthropicResponse.FromIR).                               *)
Cut(stop) ==
    CASE stop \in {"max_tokens", "length", "max_output_tokens"} -> "limit"
      [] stop \in {"content_filter", "refusal"} -> "filter"
      [] OTHER -> "no"

RunTools == {"tool_use", "tool_calls", "function_call"}
NoReason == {"new", "failed"}

CallsAreAnnounced ==
    phase = "answered" /\ Translated =>
        /\ pending = original.calls
        /\ Cut(told) = Cut(original.stop)
        /\ told \in RunTools => pending # <<>> \/ original.stop \in RunTools
        /\ pending # <<>> /\ Cut(told) = "no" =>
              CASE client = "openai_responses" -> told = "completed"
                [] client = "openai_chat"      -> told = "tool_calls"
                [] client = "anthropic"        -> told = "tool_use" \/ original.stop \in NoReason

(* What limits and steers generation arrives: a positive limit wherever    *)
(* the protocol requires one, the client's if it set one; the choice of    *)
(* tools, with tools to choose from; and a Chat upstream that streams is   *)
(* asked for the usage that is billed.                                     *)
ParametersArrive ==
    JustAsked =>
        LET w == asked[upstream]
            ir(choice) == CASE choice \in {"tool", "function"} -> "named"
                            [] OTHER -> choice
        IN  /\ request.max > 0 => w.max = request.max
            /\ upstream = "anthropic" =>
                  w.max > 0 /\ (Defaulted(client, upstream, request) = (w.max # request.max))
            /\ ir(w.choice) = ir(request.choice)
            /\ w.tools = <<Function("read")>>
            /\ upstream = "openai_chat" => w.include_usage = request.stream

(* What an upstream has been sent of the conversation does not change      *)
(* afterwards, which its prompt cache and its reader rely on: the next     *)
(* translated request to an upstream of the same protocol extends the one  *)
(* before, whoever has answered in between.                                *)
Extends(p, old, new) ==
    LET a == History(p, old)
        b == History(p, new)
    IN  /\ InSystem(p, old) = InSystem(p, new)
        /\ a # <<>> => /\ Len(a) <= Len(b)
                       /\ IsPrefix(Front(a), b)
                       /\ \/ b[Len(a)] = Last(a)
                          \/ p = "anthropic" /\ IsPrefix(Last(a).content, b[Len(a)].content)

HistoryOnlyGrows ==
    [][\A p \in Protocols :
          asked[p] # NotAsked /\ asked'[p] # asked[p] => Extends(p, asked[p], asked'[p])]_vars
=============================================================================
