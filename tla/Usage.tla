------------------------------- MODULE Usage --------------------------------
(***************************************************************************)
(* Token accounting of one response: what the gateway bills, and what it   *)
(* shows a client that speaks another protocol.                            *)
(*                                                                         *)
(* Two readers follow the same upstream events.  The usage parser of       *)
(* internal/protocol keeps the account that is billed; the stream decoder  *)
(* of internal/protocol/translate keeps the one its encoder renders for    *)
(* the client.  A whole (non-streaming) body goes through ParseUsage for   *)
(* both.                                                                   *)
(*                                                                         *)
(* The upstream has counted something ("truth") and states it, in its own  *)
(* protocol's terms, all at once or bit by bit.  A usage object is a       *)
(* function from the fields it has; a field it lacks reads as 0.           *)
(* Reasoning tokens are left out: they are carried along and enter no sum. *)
(***************************************************************************)
EXTENDS Integers, Sequences

CONSTANTS MaxTokens,      (* the largest count of any one kind of token      *)
          MaxEvents       (* how many events with usage a stream has at most *)

ASSUME UsageAssumption == MaxTokens \in Nat /\ MaxEvents \in Nat \ {0}

VARIABLES
    up, client,   \* the protocols of the upstream and of the client
    truth,        \* what the upstream has counted; -1 is "unknown"
    writeField,   \* the field an OpenAI upstream states cache writes in
    told,         \* the counters the upstream has stated correctly by now
    whole,        \* no message_delta stated only some input-side counters
    sent,         \* events with usage sent so far
    meter,        \* what the usage parser has found (before clamp)
    dec,          \* the decoder's usage, and whether it saw finish_reason
    shown,        \* the usage object of the client's final event
    state         \* "open", "complete" or "failed"

vars == <<up, client, truth, writeField, told, whole, sent, meter, dec, shown, state>>

Protocols == {"anthropic", "openai_chat", "openai_responses"}
InputSide == {"input", "read", "write"}
Counters  == InputSide \cup {"output"}

NoObject == [f \in {"absent"} |-> 0]
At(object, field) == IF field \in DOMAIN object THEN object[field] ELSE 0

-----------------------------------------------------------------------------
(***************************************************************************)
(* Usage, and how each protocol's object is normalised into it.            *)
(***************************************************************************)
Found(n) == [found |-> TRUE, n |-> n]
NoUsage  == [found |-> FALSE, n |-> [c \in Counters |-> 0]]

AtLeastZero(i) == IF i < 0 THEN 0 ELSE i

Clamp_OutputOnly(u) == [u EXCEPT !.n["output"] = AtLeastZero(@)]

Clamp(u) == [u EXCEPT !.n = [c \in Counters |-> AtLeastZero(u.n[c])]]

Total(u) == u.n["input"] + u.n["read"] + u.n["write"] + u.n["output"]

FirstNonZero(vals) ==
    LET nonZero == {i \in DOMAIN vals : vals[i] # 0}
    IN  IF nonZero = {} THEN 0 ELSE vals[CHOOSE i \in nonZero : \A j \in nonZero : i <= j]

(* prompt includes what was read from and written to the cache.            *)
Split(prompt, read, write, output) ==
    Found([input  |-> AtLeastZero(prompt - read - write),
           read   |-> read, write |-> write, output |-> output])

NormalizeChat(o) ==
    Split(At(o, "prompt_tokens"), At(o, "cached_tokens"),
          FirstNonZero(<<At(o, "details.cache_write_tokens"),
                         At(o, "cache_creation_input_tokens"), At(o, "cache_write_tokens")>>),
          At(o, "completion_tokens"))

NormalizeResponses(o) ==
    Split(At(o, "input_tokens"), At(o, "cached_tokens"),
          At(o, "details.cache_write_tokens"), At(o, "output_tokens"))

FromAnthropic(o) == Found([c \in Counters |-> At(o, c)])

Normalize(p, o) ==
    CASE p = "anthropic"        -> FromAnthropic(o)
      [] p = "openai_chat"      -> NormalizeChat(o)
      [] p = "openai_responses" -> NormalizeResponses(o)

ParseUsage(p, o) == IF o = NoObject THEN NoUsage ELSE Clamp(Normalize(p, o))

-----------------------------------------------------------------------------
(***************************************************************************)
(* The usage parsers: StreamParser.Feed.                                   *)
(***************************************************************************)
FeedAnthropic_TakesDelta(u, e) ==
    IF e.usage = NoObject THEN u ELSE FromAnthropic(e.usage)

FeedAnthropic(u, e) ==
    IF e.usage = NoObject THEN u
    ELSE CASE e.type = "message_start" -> FromAnthropic(e.usage)
           [] e.type = "message_delta" ->
                Found([c \in Counters |-> IF c \in DOMAIN e.usage THEN e.usage[c] ELSE u.n[c]])
           [] OTHER                    -> u

FeedChat(u, e) == IF e.usage = NoObject THEN u ELSE NormalizeChat(e.usage)

FeedResponses(u, e) ==
    IF e.usage = NoObject \/ e.type \notin {"response.completed", "response.failed"}
    THEN u ELSE NormalizeResponses(e.usage)

FeedParser(p, u, e) ==
    CASE p = "anthropic"        -> FeedAnthropic(u, e)
      [] p = "openai_chat"      -> FeedChat(u, e)
      [] p = "openai_responses" -> FeedResponses(u, e)

-----------------------------------------------------------------------------
(***************************************************************************)
(* The decoders, as far as usage goes.  emits is "nothing", "stop" (a      *)
(* MessageStop with the decoder's usage) or "error".                       *)
(***************************************************************************)
Decodes(usage, finish, emits) == [dec |-> [usage |-> usage, finish |-> finish], emits |-> emits]

(* The decoder reads the same fields into plain integers: one that is      *)
(* omitted and one that is 0 look alike.                                   *)
DecodeAnthropic(d, e) ==
    CASE e.type = "message_start" ->
            Decodes(Clamp(FromAnthropic(e.usage)), FALSE, "nothing")
      [] e.type = "message_delta" ->
            LET u     == ParseUsage("anthropic", e.usage)
                keeps == \A c \in InputSide : At(e.usage, c) = 0
            IN  Decodes(IF e.usage = NoObject THEN d.usage
                        ELSE IF keeps THEN [u EXCEPT !.n = [d.usage.n EXCEPT !["output"] = u.n["output"]]]
                        ELSE u,
                        FALSE, "nothing")
      [] e.type = "message_stop"  -> Decodes(d.usage, FALSE, "stop")
      [] OTHER                    -> Decodes(d.usage, FALSE, "error")

DecodeChat_TypedUsage(d, e) ==
    LET known  == DOMAIN e.usage \ {"cache_creation_input_tokens"}
        usage  == IF e.usage = NoObject THEN d.usage
                  ELSE ParseUsage("openai_chat", [f \in known |-> e.usage[f]])
        finish == d.finish \/ e.type = "finish"
    IN  Decodes(usage, finish,
                IF e.type = "error" THEN "error"
                ELSE IF e.type = "[DONE]" \/ (finish /\ e.usage # NoObject) THEN "stop" ELSE "nothing")

DecodeChat(d, e) ==
    LET usage  == IF e.usage = NoObject THEN d.usage ELSE ParseUsage("openai_chat", e.usage)
        finish == d.finish \/ e.type = "finish"
    IN  CASE e.type = "error"                -> Decodes(d.usage, d.finish, "error")
          [] e.type = "[DONE]"               -> Decodes(d.usage, d.finish, "stop")
          [] OTHER -> Decodes(usage, finish,
                              IF finish /\ e.usage # NoObject THEN "stop" ELSE "nothing")

(* "response.completed" also stands for response.incomplete and for a      *)
(* response.failed without an error object, which end the message alike.   *)
DecodeResponses(d, e) ==
    CASE e.type = "response.completed" ->
            Decodes(ParseUsage("openai_responses", e.usage), FALSE, "stop")
      [] e.type \in {"response.failed", "error"} -> Decodes(d.usage, FALSE, "error")
      [] OTHER                                   -> Decodes(d.usage, FALSE, "nothing")

Decode(p, d, e) ==
    CASE p = "anthropic"        -> DecodeAnthropic(d, e)
      [] p = "openai_chat"      -> DecodeChat(d, e)
      [] p = "openai_responses" -> DecodeResponses(d, e)

(* The encoders: the usage object of the client's last event or body.      *)
(* OpenAI objects have no field for cache writes; they stay in the prompt. *)
RenderOpenAI(prompt, completion, u) ==
    [f \in {prompt, completion, "cached_tokens"} |->
        CASE f = prompt          -> u.n["input"] + u.n["read"] + u.n["write"]
          [] f = completion      -> u.n["output"]
          [] f = "cached_tokens" -> u.n["read"]]

Render(p, u) ==
    CASE p = "anthropic" -> u.n
      [] p = "openai_chat" /\ u.found -> RenderOpenAI("prompt_tokens", "completion_tokens", u)
      [] p = "openai_responses" /\ u.found -> RenderOpenAI("input_tokens", "output_tokens", u)
      [] OTHER -> NoObject

-----------------------------------------------------------------------------
(***************************************************************************)
(* The upstream (external): it states its counts in its protocol's terms.  *)
(***************************************************************************)
WriteFields(p) ==
    CASE p = "anthropic"   -> {"none"}
      [] p = "openai_chat" -> {"details.cache_write_tokens", "cache_creation_input_tokens",
                               "cache_write_tokens"}
      [] p = "openai_responses" -> {"details.cache_write_tokens", "cache_creation_input_tokens"}

AnthropicObject(fields, output) ==
    [c \in fields \cup {"output"} |-> IF c = "output" THEN output ELSE truth[c]]

OpenAIObject(output) ==
    LET prompt     == IF up = "openai_chat" THEN "prompt_tokens" ELSE "input_tokens"
        completion == IF up = "openai_chat" THEN "completion_tokens" ELSE "output_tokens"
    IN  [f \in {prompt, completion, "cached_tokens", writeField} |->
            CASE f = prompt          -> truth["input"] + AtLeastZero(truth["read"])
                                                       + AtLeastZero(truth["write"])
              [] f = completion      -> output
              [] f = "cached_tokens" -> truth["read"]
              [] f = writeField      -> truth["write"]]

(* What an object says correctly.                                          *)
Tells(object) ==
    IF object = NoObject THEN {}
    ELSE CASE up = "anthropic"   -> {c \in DOMAIN object : object[c] = truth[c]}
           [] up = "openai_chat" -> InputSide \cup
                (IF object["completion_tokens"] = truth["output"] THEN {"output"} ELSE {})
           [] OTHER              -> InputSide \cup
                (IF object["output_tokens"] = truth["output"] THEN {"output"} ELSE {})

(* While it generates, an upstream states a running output count, at last  *)
(* the final one, and does not go back.                                    *)
OutputCounts == IF "output" \in told THEN {truth["output"]} ELSE {0, truth["output"]}

Init ==
    /\ up \in Protocols /\ client \in Protocols
    /\ truth \in {t \in [Counters -> -1..MaxTokens] : t["input"] >= 0 /\ t["output"] >= 0}
    /\ writeField \in WriteFields(up)
    /\ told = {} /\ whole = TRUE /\ sent = 0
    /\ meter = NoUsage /\ dec = [usage |-> NoUsage, finish |-> FALSE]
    /\ shown = NoObject /\ state = "open"

-----------------------------------------------------------------------------
(***************************************************************************)
(* relay's dispatch: the parser is fed first, then the decoder; the stream *)
(* is over with the event that the decoder turns into a stop or an error,  *)
(* or, passed through, with the protocol's own last event.                 *)
(***************************************************************************)
Translated == client # up

Last == {"message_stop", "[DONE]", "response.completed"}

Dispatch(type, usage) ==
    LET e == [type |-> type, usage |-> usage]
        d == Decode(up, dec, e)
    IN  /\ state = "open"
        /\ meter' = FeedParser(up, meter, e)
        /\ told' = told \cup Tells(usage)
        /\ sent' = sent + 1
        /\ IF Translated
           THEN /\ dec' = d.dec
                /\ shown' = IF d.emits = "stop" THEN Render(client, d.dec.usage) ELSE shown
                /\ state' = CASE d.emits = "stop"  -> "complete"
                              [] d.emits = "error" -> "failed"
                              [] OTHER             -> "open"
           ELSE /\ state' = CASE type \in Last                       -> "complete"
                              [] type \in {"error", "response.failed"} -> "failed"
                              [] OTHER                                -> "open"
                /\ UNCHANGED <<dec, shown>>
        /\ UNCHANGED <<up, client, truth, writeField>>

AnthropicStart ==
    /\ up = "anthropic" /\ sent = 0
    /\ \E usage \in {NoObject, [c \in Counters |-> 0], AnthropicObject(InputSide, 0)} :
          Dispatch("message_start", usage)
    /\ UNCHANGED whole

AnthropicDelta ==
    /\ up = "anthropic" /\ sent \in 1..MaxEvents - 1
    /\ \E fields \in SUBSET InputSide, output \in OutputCounts :
          /\ Dispatch("message_delta", AnthropicObject(fields, output))
          /\ whole' = (whole /\ fields \in {{}, InputSide})

AnthropicStop ==
    /\ up = "anthropic" /\ sent > 0
    /\ Dispatch("message_stop", NoObject)
    /\ UNCHANGED whole

(* Chat may state usage before, with or after finish_reason, or never.     *)
ChatChunk ==
    /\ up = "openai_chat" /\ sent < MaxEvents
    /\ \E type \in {"chunk", "finish"},
          usage \in {NoObject} \cup {OpenAIObject(o) : o \in OutputCounts} :
          Dispatch(type, usage)
    /\ UNCHANGED whole

ChatDone ==
    /\ up = "openai_chat" /\ sent > 0
    /\ Dispatch("[DONE]", NoObject)
    /\ UNCHANGED whole

ResponsesCreated ==
    /\ up = "openai_responses" /\ sent = 0
    /\ Dispatch("response.created", NoObject)
    /\ UNCHANGED whole

ResponsesEnd ==
    /\ up = "openai_responses" /\ sent > 0
    /\ \E type \in {"response.completed", "response.failed"},
          usage \in {NoObject, OpenAIObject(truth["output"])} :
          Dispatch(type, usage)
    /\ UNCHANGED whole

ErrorEvent ==
    /\ sent > 0
    /\ Dispatch("error", NoObject)
    /\ UNCHANGED whole

(* A whole body: both readers parse the same object once.                  *)
WholeBody ==
    /\ state = "open" /\ sent = 0
    /\ \E usage \in {NoObject, IF up = "anthropic" THEN AnthropicObject(InputSide, truth["output"])
                                ELSE OpenAIObject(truth["output"])} :
          /\ meter' = ParseUsage(up, usage)
          /\ shown' = IF Translated THEN Render(client, ParseUsage(up, usage)) ELSE shown
          /\ told' = told \cup Tells(usage)
    /\ state' = "complete" /\ sent' = 1
    /\ UNCHANGED <<up, client, truth, writeField, whole, dec>>

Next ==
    \/ AnthropicStart \/ AnthropicDelta \/ AnthropicStop
    \/ ChatChunk \/ ChatDone
    \/ ResponsesCreated \/ ResponsesEnd
    \/ ErrorEvent \/ WholeBody

Spec == Init /\ [][Next]_vars

-----------------------------------------------------------------------------
(***************************************************************************)
(* What the accounts must be.                                              *)
(***************************************************************************)
Billed == Clamp(meter)
Seen   == ParseUsage(client, shown)

(* No counter that leaves the package is negative, whatever an upstream    *)
(* states: a negative one would panic the Prometheus counter it is added   *)
(* to, after the response was written (protocol.go, clamp).                *)
NoNegativeCounters ==
    {Billed, dec.usage, Seen} \subseteq [found : BOOLEAN, n : [Counters -> Nat]]

(* The types of the variables.                                             *)
TypeOK ==
    /\ up \in Protocols /\ client \in Protocols /\ told \subseteq Counters /\ whole \in BOOLEAN
    /\ sent \in 0..MaxEvents + 1 /\ state \in {"open", "complete", "failed"}

(* A complete response whose upstream has stated every counter is billed   *)
(* for exactly those, in whatever portions, order and field they came:     *)
(* what was once stated is neither lost to a later event that omits it nor *)
(* counted twice as prompt and cache.  Responses upstreams must state      *)
(* cache writes in input_tokens_details, the one place that is read.       *)
BilledIsCounted ==
    state = "complete" /\ told = Counters
      /\ (up = "openai_responses" => writeField = "details.cache_write_tokens")
      /\ (\A c \in Counters : truth[c] >= 0)
      => Billed = Found(truth)

SameAccount ==
    /\ Total(Seen) = Total(Billed)
    /\ \A c \in {"output", "read"} : Seen.n[c] = Billed.n[c]
    /\ client = "anthropic" => Seen.n["write"] = Billed.n["write"]

(* What a translated client reads off its own protocol's usage object is   *)
(* what is billed: the same total, the same split as far as its protocol   *)
(* has one.  Two parsers that never meet must agree (the usage comment of  *)
(* chatChunk).  For Anthropic upstreams this takes a message_delta that    *)
(* repeats the input side as a whole or not at all: the decoder takes a    *)
(* counter omitted beside one that is stated for 0, the parser keeps it.   *)
ShownIsBilled ==
    state = "complete" /\ Translated /\ whole => SameAccount
=============================================================================
