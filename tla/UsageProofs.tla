----------------------------- MODULE UsageProofs ------------------------------
(***************************************************************************)
(* What is proved of Usage, for counts of any size and streams of any      *)
(* length: no negative counter leaves the package, a complete response is  *)
(* billed for what was counted, and a translated client reads the account  *)
(* that is billed.                                                         *)
(*                                                                         *)
(* The two readers never meet, so the invariant has to say of each by      *)
(* itself what it has understood, and of both that they agree after every  *)
(* event; and a Responses upstream's usage comes with the last event only. *)
(***************************************************************************)
EXTENDS Usage, TLAPS

Account  == [found : BOOLEAN, n : [Counters -> Int]]
Readable == [found : BOOLEAN, n : [Counters -> Nat]]

IsObject(o) == \A f \in DOMAIN o : o[f] \in Int

Empty(u) == \A c \in Counters : u.n[c] = 0

Types ==
    /\ up \in Protocols /\ client \in Protocols
    /\ truth \in [Counters -> Int] /\ truth["input"] >= 0 /\ truth["output"] >= 0
    /\ writeField \in WriteFields(up)
    /\ told \subseteq Counters /\ whole \in BOOLEAN
    /\ sent \in 0..MaxEvents + 1 /\ state \in {"open", "complete", "failed"}
    /\ state = "open" => sent <= MaxEvents
    /\ meter \in Account
    /\ dec \in [usage : Readable, finish : BOOLEAN]
    /\ dec.usage.found \/ Empty(dec.usage)
    /\ IsObject(shown)

(* Nothing is known before the first event, and of a Responses upstream    *)
(* not before the last.                                                    *)
Fresh ==
    /\ sent = 0 => told = {}
    /\ sent = 0 \/ (up = "openai_responses" /\ state = "open")
          => meter = NoUsage /\ dec.usage = NoUsage

(* Every counter is known, and in a place that is read.                    *)
Known ==
    /\ \A c \in Counters : truth[c] >= 0
    /\ up = "openai_responses" => writeField = "details.cache_write_tokens"

(* The parser has what it was told.                                        *)
Metered ==
    Known => /\ \A c \in told : meter.n[c] = truth[c]
             /\ told # {} => meter.found

(* The decoder has, apart from its clamping, what the parser has.          *)
Same(u, v) == \A c \in Counters : u.n[c] = AtLeastZero(v.n[c])

Agreement ==
    Translated /\ whole =>
        /\ state = "open" => Same(dec.usage, meter)
        /\ up = "anthropic" => \A c \in InputSide : meter.n[c] \in {0, truth[c]}
        /\ state = "complete" => SameAccount

IInv == Types /\ Fresh /\ Metered /\ Agreement

-----------------------------------------------------------------------------
(***************************************************************************)
(* Reading an object.                                                      *)
(***************************************************************************)
LEMMA AtIsInt ==
    ASSUME NEW o, IsObject(o), NEW f
    PROVE  At(o, f) \in Int
  BY DEF At, IsObject

LEMMA FirstOfThree ==
    ASSUME NEW a \in Int, NEW b \in Int, NEW c \in Int
    PROVE  FirstNonZero(<<a, b, c>>) = IF a # 0 THEN a ELSE IF b # 0 THEN b ELSE c
<1> DEFINE vals == <<a, b, c>>
           nonZero == {i \in DOMAIN vals : vals[i] # 0}
           first == CHOOSE i \in nonZero : \A j \in nonZero : i <= j
<1>1. nonZero \subseteq 1..3 /\ \A i \in 1..3 : i \in nonZero <=> vals[i] # 0
  OBVIOUS
<1>2. vals[1] = a /\ vals[2] = b /\ vals[3] = c
  OBVIOUS
<1>3. ASSUME NEW i \in nonZero, \A j \in nonZero : i <= j
      PROVE  first = i
  <2>1. first \in nonZero /\ \A j \in nonZero : first <= j
    BY <1>3
  <2>2. first <= i /\ i <= first
    BY <1>3, <2>1
  <2>. HIDE DEF first
  <2>. QED
    BY <1>1, <2>1, <2>2
<1>4. CASE a # 0
  <2>1. 1 \in nonZero /\ \A j \in nonZero : 1 <= j
    BY <1>1, <1>2, <1>4
  <2>. HIDE DEF nonZero, vals
  <2>2. first = 1
    BY <1>3, <2>1
  <2>. QED
    BY <1>2, <1>4, <2>1, <2>2 DEF FirstNonZero, first, nonZero, vals
<1>5. CASE a = 0 /\ b # 0
  <2>1. 2 \in nonZero /\ \A j \in nonZero : 2 <= j
    BY <1>1, <1>2, <1>5
  <2>. HIDE DEF nonZero, vals
  <2>2. first = 2
    BY <1>3, <2>1
  <2>. QED
    BY <1>2, <1>5, <2>1, <2>2 DEF FirstNonZero, first, nonZero, vals
<1>6. CASE a = 0 /\ b = 0 /\ c # 0
  <2>1. 3 \in nonZero /\ \A j \in nonZero : 3 <= j
    BY <1>1, <1>2, <1>6
  <2>. HIDE DEF nonZero, vals
  <2>2. first = 3
    BY <1>3, <2>1
  <2>. QED
    BY <1>2, <1>6, <2>1, <2>2 DEF FirstNonZero, first, nonZero, vals
<1>7. CASE a = 0 /\ b = 0 /\ c = 0
  <2>1. nonZero = {}
    BY <1>1, <1>2, <1>7
  <2>. QED
    BY <1>7, <2>1 DEF FirstNonZero
<1>. QED
  BY <1>4, <1>5, <1>6, <1>7

LEMMA ClampFacts ==
    ASSUME NEW u \in Account
    PROVE  /\ Clamp(u) \in Readable
           /\ Clamp(u).found = u.found
           /\ \A c \in Counters : Clamp(u).n[c] = AtLeastZero(u.n[c])
  BY DEF Clamp, Account, Readable, AtLeastZero

LEMMA SplitFields ==
    ASSUME NEW p, NEW r, NEW w, NEW o
    PROVE  LET s == Split(p, r, w, o) IN
           /\ s.n["input"] = AtLeastZero(p - r - w) /\ s.n["read"] = r
           /\ s.n["write"] = w /\ s.n["output"] = o
  BY DEF Split, Found

LEMMA SplitType ==
    ASSUME NEW p \in Int, NEW r \in Int, NEW w \in Int, NEW o \in Int
    PROVE  Split(p, r, w, o) \in Account /\ Split(p, r, w, o).found
<1> DEFINE n == [input |-> AtLeastZero(p - r - w), read |-> r, write |-> w, output |-> o]
<1>1. n \in [Counters -> Int]
  BY DEF Counters, InputSide, AtLeastZero
<1>. QED
  BY <1>1 DEF Split, Found, Account

LEMMA AnthropicFacts ==
    ASSUME NEW o, IsObject(o)
    PROVE  /\ FromAnthropic(o) \in Account /\ FromAnthropic(o).found
           /\ \A c \in Counters : FromAnthropic(o).n[c] = At(o, c)
<1>1. \A c \in Counters : At(o, c) \in Int
  BY AtIsInt
<1>. QED
  BY <1>1 DEF FromAnthropic, Found, Account

LEMMA NormalizeFacts ==
    ASSUME NEW p \in Protocols, NEW o, IsObject(o)
    PROVE  Normalize(p, o) \in Account /\ Normalize(p, o).found
<1>1. CASE p = "anthropic"
  BY <1>1, AnthropicFacts DEF Normalize
<1>2. CASE p = "openai_chat"
  <2> DEFINE a == At(o, "details.cache_write_tokens")
             b == At(o, "cache_creation_input_tokens")
             c == At(o, "cache_write_tokens")
  <2>1. a \in Int /\ b \in Int /\ c \in Int
    BY AtIsInt
  <2>2. FirstNonZero(<<a, b, c>>) \in Int
    <3>. HIDE DEF a, b, c
    <3>. QED
      BY <2>1, FirstOfThree
  <2>3. /\ At(o, "prompt_tokens") \in Int /\ At(o, "cached_tokens") \in Int
        /\ At(o, "completion_tokens") \in Int
    BY AtIsInt
  <2>. QED
    BY <1>2, <2>2, <2>3, SplitType DEF Normalize, NormalizeChat
<1>3. CASE p = "openai_responses"
  <2>1. /\ At(o, "input_tokens") \in Int /\ At(o, "cached_tokens") \in Int
        /\ At(o, "details.cache_write_tokens") \in Int /\ At(o, "output_tokens") \in Int
    BY AtIsInt
  <2>. QED
    BY <1>3, <2>1, SplitType DEF Normalize, NormalizeResponses
<1>. QED
  BY <1>1, <1>2, <1>3 DEF Protocols

LEMMA ParseFacts ==
    ASSUME NEW p \in Protocols, NEW o, IsObject(o)
    PROVE  /\ ParseUsage(p, o) \in Readable
           /\ o = NoObject => ParseUsage(p, o) = NoUsage
           /\ o # NoObject =>
                 /\ ParseUsage(p, o).found
                 /\ \A c \in Counters : ParseUsage(p, o).n[c] = AtLeastZero(Normalize(p, o).n[c])
<1>1. NoUsage \in Readable
  BY DEF NoUsage, Readable
<1>. QED
  BY <1>1, NormalizeFacts, ClampFacts DEF ParseUsage

-----------------------------------------------------------------------------
(***************************************************************************)
(* What the upstream's objects say to a reader.                            *)
(***************************************************************************)
LEMMA AnthropicObjectFacts ==
    ASSUME NEW fields \in SUBSET InputSide, NEW output \in Int, truth \in [Counters -> Int]
    PROVE  LET o == AnthropicObject(fields, output) IN
           /\ DOMAIN o = fields \cup {"output"} /\ o # NoObject /\ IsObject(o)
           /\ \A c \in fields : o[c] = truth[c]
           /\ o["output"] = output
<1> DEFINE o == AnthropicObject(fields, output)
<1>1. DOMAIN o = fields \cup {"output"}
  BY DEF AnthropicObject
<1>2. DOMAIN NoObject = {"absent"}
  BY DEF NoObject
<1>3. o # NoObject
  BY <1>1, <1>2, "output" # "absent"
<1>4. \A c \in fields : o[c] = truth[c] /\ truth[c] \in Int
  BY DEF AnthropicObject, InputSide, Counters
<1>5. o["output"] = output
  BY DEF AnthropicObject
<1>6. IsObject(o)
  BY <1>1, <1>4, <1>5 DEF IsObject
<1>. HIDE DEF o
<1>. QED
  BY <1>1, <1>3, <1>4, <1>5, <1>6 DEF o

LEMMA WholeObjectFacts ==
    ASSUME NEW output \in Int, truth \in [Counters -> Int]
    PROVE  LET o == AnthropicObject(InputSide, output) IN
           /\ DOMAIN o = Counters /\ o # NoObject /\ IsObject(o)
           /\ \A c \in InputSide : o[c] = truth[c]
           /\ o["output"] = output
<1> DEFINE fields == InputSide
<1>1. fields \in SUBSET InputSide
  OBVIOUS
<1>. HIDE DEF fields
<1>2. LET o == AnthropicObject(fields, output) IN
      /\ DOMAIN o = fields \cup {"output"} /\ o # NoObject /\ IsObject(o)
      /\ \A c \in fields : o[c] = truth[c]
      /\ o["output"] = output
  BY <1>1, AnthropicObjectFacts
<1>. QED
  BY <1>2 DEF fields, Counters

(* A prompt holds what was read from and written to the cache; a reader    *)
(* that looks where the writes are stated gets the counts back.            *)
LEMMA OpenAIObjectFacts ==
    ASSUME up \in {"openai_chat", "openai_responses"}, Types, NEW output \in Int
    PROVE  LET o == OpenAIObject(output) IN
           /\ o # NoObject /\ IsObject(o)
           /\ up = "openai_chat" => o["completion_tokens"] = output
           /\ up = "openai_responses" => o["output_tokens"] = output
           /\ Known =>
                 /\ \A c \in InputSide : Normalize(up, o).n[c] = truth[c]
                 /\ Normalize(up, o).n["output"] = output
<1> DEFINE o == OpenAIObject(output)
           prompt == truth["input"] + AtLeastZero(truth["read"]) + AtLeastZero(truth["write"])
<1>1. /\ truth["input"] \in Int /\ truth["read"] \in Int /\ truth["write"] \in Int
      /\ prompt \in Int
  BY DEF Types, Counters, InputSide, AtLeastZero
<1>2. DOMAIN NoObject = {"absent"}
  BY DEF NoObject
<1>3. Known => prompt - truth["read"] - truth["write"] = truth["input"] /\ truth["input"] >= 0
  BY <1>1 DEF Known, AtLeastZero, Counters, InputSide
<1>4. CASE up = "openai_chat"
  <2>1. writeField \in {"details.cache_write_tokens", "cache_creation_input_tokens", "cache_write_tokens"}
    BY <1>4 DEF Types, WriteFields
  <2>2. DOMAIN o = {"prompt_tokens", "completion_tokens", "cached_tokens", writeField}
    BY <1>4 DEF OpenAIObject
  <2>3. /\ o["prompt_tokens"] = prompt /\ o["completion_tokens"] = output
        /\ o["cached_tokens"] = truth["read"] /\ o[writeField] = truth["write"]
    BY <1>4, <2>1 DEF OpenAIObject
  <2>4. IsObject(o)
    BY <1>1, <2>2, <2>3 DEF IsObject
  <2>5. o # NoObject
    BY <1>2, <2>2, "cached_tokens" # "absent"
  <2>. HIDE DEF o, prompt
  <2> DEFINE a == At(o, "details.cache_write_tokens")
             b == At(o, "cache_creation_input_tokens")
             c == At(o, "cache_write_tokens")
  <2>6. /\ a = IF writeField = "details.cache_write_tokens" THEN truth["write"] ELSE 0
        /\ b = IF writeField = "cache_creation_input_tokens" THEN truth["write"] ELSE 0
        /\ c = IF writeField = "cache_write_tokens" THEN truth["write"] ELSE 0
    BY <2>1, <2>2, <2>3 DEF At
  <2>7. FirstNonZero(<<a, b, c>>) = truth["write"]
    <3>1. a \in Int /\ b \in Int /\ c \in Int
      BY <1>1, <2>6
    <3>2. FirstNonZero(<<a, b, c>>) = IF a # 0 THEN a ELSE IF b # 0 THEN b ELSE c
      <4>. HIDE DEF a, b, c
      <4>. QED
        BY <3>1, FirstOfThree
    <3>. QED
      BY <1>1, <2>1, <2>6, <3>2
  <2>8. /\ At(o, "prompt_tokens") = prompt /\ At(o, "cached_tokens") = truth["read"]
        /\ At(o, "completion_tokens") = output
    BY <2>2, <2>3 DEF At
  <2>9. Normalize(up, o) = Split(prompt, truth["read"], truth["write"], output)
    BY <1>4, <2>7, <2>8 DEF Normalize, NormalizeChat
  <2>10. Known => /\ \A f \in InputSide : Normalize(up, o).n[f] = truth[f]
                  /\ Normalize(up, o).n["output"] = output
    <3>1. SUFFICES ASSUME Known
          PROVE  /\ \A f \in InputSide : Normalize(up, o).n[f] = truth[f]
                 /\ Normalize(up, o).n["output"] = output
      OBVIOUS
    <3> DEFINE s == Split(prompt, truth["read"], truth["write"], output)
    <3>2. /\ s.n["input"] = AtLeastZero(prompt - truth["read"] - truth["write"])
          /\ s.n["read"] = truth["read"] /\ s.n["write"] = truth["write"]
          /\ s.n["output"] = output
      BY SplitFields
    <3>3. AtLeastZero(prompt - truth["read"] - truth["write"]) = truth["input"]
      BY <1>1, <1>3, <3>1 DEF AtLeastZero
    <3>. HIDE DEF s
    <3>4. Normalize(up, o) = s
      BY <2>9, <3>1 DEF s
    <3>. QED
      BY <3>2, <3>3, <3>4 DEF InputSide
  <2>. QED
    BY <1>4, <2>3, <2>4, <2>5, <2>10 DEF o
<1>5. CASE up = "openai_responses"
  <2>1. writeField \in {"details.cache_write_tokens", "cache_creation_input_tokens"}
    BY <1>5 DEF Types, WriteFields
  <2>2. DOMAIN o = {"input_tokens", "output_tokens", "cached_tokens", writeField}
    BY <1>5 DEF OpenAIObject
  <2>3. /\ o["input_tokens"] = prompt /\ o["output_tokens"] = output
        /\ o["cached_tokens"] = truth["read"] /\ o[writeField] = truth["write"]
    BY <1>5, <2>1 DEF OpenAIObject
  <2>4. IsObject(o)
    BY <1>1, <2>2, <2>3 DEF IsObject
  <2>5. o # NoObject
    BY <1>2, <2>2, "cached_tokens" # "absent"
  <2>. HIDE DEF o, prompt
  <2>6. /\ At(o, "input_tokens") = prompt /\ At(o, "cached_tokens") = truth["read"]
        /\ At(o, "output_tokens") = output
        /\ Known => At(o, "details.cache_write_tokens") = truth["write"]
    BY <1>5, <2>2, <2>3 DEF At, Known
  <2>7. Known => Normalize(up, o) = Split(prompt, truth["read"], truth["write"], output)
    BY <1>5, <2>6 DEF Normalize, NormalizeResponses
  <2>8. Known => /\ \A f \in InputSide : Normalize(up, o).n[f] = truth[f]
                 /\ Normalize(up, o).n["output"] = output
    <3>1. SUFFICES ASSUME Known
          PROVE  /\ \A f \in InputSide : Normalize(up, o).n[f] = truth[f]
                 /\ Normalize(up, o).n["output"] = output
      OBVIOUS
    <3> DEFINE s == Split(prompt, truth["read"], truth["write"], output)
    <3>2. /\ s.n["input"] = AtLeastZero(prompt - truth["read"] - truth["write"])
          /\ s.n["read"] = truth["read"] /\ s.n["write"] = truth["write"]
          /\ s.n["output"] = output
      BY SplitFields
    <3>3. AtLeastZero(prompt - truth["read"] - truth["write"]) = truth["input"]
      BY <1>1, <1>3, <3>1 DEF AtLeastZero
    <3>. HIDE DEF s
    <3>4. Normalize(up, o) = s
      BY <2>7, <3>1 DEF s
    <3>. QED
      BY <3>2, <3>3, <3>4 DEF InputSide
  <2>. QED
    BY <1>5, <2>3, <2>4, <2>5, <2>8 DEF o
<1>. QED
  BY <1>4, <1>5

-----------------------------------------------------------------------------
(***************************************************************************)
(* An account that is rendered for a client and read again.                *)
(***************************************************************************)
LEMMA RoundTrip ==
    ASSUME NEW p \in Protocols, NEW u \in Readable, u.found \/ Empty(u)
    PROVE  LET o    == Render(p, u)
               seen == ParseUsage(p, o)
           IN  /\ IsObject(o)
               /\ Total(seen) = Total(u)
               /\ seen.n["output"] = u.n["output"] /\ seen.n["read"] = u.n["read"]
               /\ p = "anthropic" => seen.n["write"] = u.n["write"]
<1> DEFINE o == Render(p, u)
           prompt == u.n["input"] + u.n["read"] + u.n["write"]
<1>1. /\ u.n["input"] \in Nat /\ u.n["read"] \in Nat /\ u.n["write"] \in Nat
      /\ u.n["output"] \in Nat /\ DOMAIN u.n = Counters /\ \A c \in Counters : u.n[c] \in Nat
  BY DEF Readable, Counters, InputSide
<1>2. DOMAIN NoObject = {"absent"} /\ IsObject(NoObject)
  BY DEF NoObject, IsObject
<1>3. CASE p = "anthropic"
  <2>1. o = u.n
    BY <1>3 DEF Render
  <2>2. IsObject(o) /\ o # NoObject
    BY <1>1, <1>2, <2>1, "output" # "absent" DEF IsObject, Counters
  <2>. HIDE DEF o
  <2>3. \A c \in Counters : Normalize(p, o).n[c] = u.n[c]
    BY <1>1, <1>3, <2>1, <2>2, AnthropicFacts DEF Normalize, At
  <2>4. \A c \in Counters : ParseUsage(p, o).n[c] = u.n[c]
    BY <1>1, <2>2, <2>3, ParseFacts DEF AtLeastZero
  <2>. QED
    BY <2>2, <2>4 DEF o, Total, Counters, InputSide
<1>4. ASSUME u.found, p # "anthropic"
      PROVE  /\ IsObject(o) /\ o # NoObject
             /\ Normalize(p, o) = Split(prompt, u.n["read"], 0, u.n["output"])
  <2>1. CASE p = "openai_chat"
    <3>1. o = RenderOpenAI("prompt_tokens", "completion_tokens", u)
      BY <1>4, <2>1 DEF Render
    <3>2. /\ DOMAIN o = {"prompt_tokens", "completion_tokens", "cached_tokens"}
          /\ o["prompt_tokens"] = prompt /\ o["completion_tokens"] = u.n["output"]
          /\ o["cached_tokens"] = u.n["read"]
      BY <3>1 DEF RenderOpenAI
    <3>3. IsObject(o)
      BY <1>1, <3>2 DEF IsObject
    <3>4. o # NoObject
      BY <1>2, <3>2, "cached_tokens" # "absent"
    <3>. HIDE DEF o, prompt
    <3>5. /\ At(o, "prompt_tokens") = prompt /\ At(o, "completion_tokens") = u.n["output"]
          /\ At(o, "cached_tokens") = u.n["read"]
          /\ At(o, "details.cache_write_tokens") = 0
          /\ At(o, "cache_creation_input_tokens") = 0 /\ At(o, "cache_write_tokens") = 0
      BY <3>2 DEF At
    <3>6. FirstNonZero(<<0, 0, 0>>) = 0
      BY FirstOfThree
    <3>. QED
      BY <2>1, <3>3, <3>4, <3>5, <3>6 DEF Normalize, NormalizeChat
  <2>2. CASE p = "openai_responses"
    <3>1. o = RenderOpenAI("input_tokens", "output_tokens", u)
      BY <1>4, <2>2 DEF Render
    <3>2. /\ DOMAIN o = {"input_tokens", "output_tokens", "cached_tokens"}
          /\ o["input_tokens"] = prompt /\ o["output_tokens"] = u.n["output"]
          /\ o["cached_tokens"] = u.n["read"]
      BY <3>1 DEF RenderOpenAI
    <3>3. IsObject(o)
      BY <1>1, <3>2 DEF IsObject
    <3>4. o # NoObject
      BY <1>2, <3>2, "cached_tokens" # "absent"
    <3>. HIDE DEF o, prompt
    <3>5. /\ At(o, "input_tokens") = prompt /\ At(o, "output_tokens") = u.n["output"]
          /\ At(o, "cached_tokens") = u.n["read"]
          /\ At(o, "details.cache_write_tokens") = 0
      BY <3>2 DEF At
    <3>. QED
      BY <2>2, <3>3, <3>4, <3>5 DEF Normalize, NormalizeResponses
  <2>. QED
    BY <1>4, <2>1, <2>2 DEF Protocols
<1>5. CASE u.found /\ p # "anthropic"
  <2> DEFINE s == Split(prompt, u.n["read"], 0, u.n["output"])
             seen == ParseUsage(p, o)
  <2>1. /\ s.n["input"] = AtLeastZero(prompt - u.n["read"] - 0)
        /\ s.n["read"] = u.n["read"] /\ s.n["write"] = 0 /\ s.n["output"] = u.n["output"]
    BY SplitFields
  <2>2. AtLeastZero(prompt - u.n["read"] - 0) = u.n["input"] + u.n["write"]
    BY <1>1 DEF AtLeastZero
  <2>. HIDE DEF s, o, prompt
  <2>3. \A c \in Counters : seen.n[c] = AtLeastZero(s.n[c])
    BY <1>4, <1>5, ParseFacts DEF s
  <2>. HIDE DEF seen
  <2>4. /\ seen.n["input"] = u.n["input"] + u.n["write"] /\ seen.n["read"] = u.n["read"]
        /\ seen.n["write"] = 0 /\ seen.n["output"] = u.n["output"]
    BY <1>1, <2>1, <2>2, <2>3 DEF Counters, InputSide, AtLeastZero
  <2>5. Total(seen) = Total(u)
    BY <1>1, <2>4 DEF Total
  <2>. QED
    BY <1>4, <1>5, <2>4, <2>5 DEF o, seen
<1>6. CASE ~u.found /\ p # "anthropic"
  <2>1. o = NoObject
    BY <1>6 DEF Render, Protocols
  <2>2. ParseUsage(p, o) = NoUsage
    BY <2>1 DEF ParseUsage
  <2>3. \A c \in Counters : u.n[c] = 0 /\ NoUsage.n[c] = 0
    BY <1>6 DEF NoUsage, Empty
  <2>. HIDE DEF o
  <2>. QED
    BY <1>2, <1>6, <2>1, <2>2, <2>3 DEF o, Total, Counters, InputSide
<1>. QED
  BY <1>3, <1>5, <1>6

(* An account the decoder agrees on is shown as it is billed.              *)
LEMMA Agreed ==
    ASSUME client' \in Protocols, meter' \in Account, NEW u \in Readable, Same(u, meter'),
           u.found \/ Empty(u), shown' = Render(client', u)
    PROVE  SameAccount'
<1>1. \A c \in Counters : Billed'.n[c] = u.n[c]
  BY ClampFacts DEF Billed, Same
<1>2. Total(Billed') = Total(u)
  BY <1>1 DEF Total, Counters, InputSide
<1>3. /\ Total(Seen') = Total(u)
      /\ Seen'.n["output"] = u.n["output"] /\ Seen'.n["read"] = u.n["read"]
      /\ client' = "anthropic" => Seen'.n["write"] = u.n["write"]
  BY RoundTrip DEF Seen
<1>. QED
  BY <1>1, <1>2, <1>3 DEF SameAccount, Counters, InputSide

-----------------------------------------------------------------------------
(***************************************************************************)
(* What an event does to the two readers.                                  *)
(***************************************************************************)
LEMMA FeedType ==
    ASSUME NEW p \in Protocols, NEW u \in Account, NEW type, NEW usage, IsObject(usage)
    PROVE  /\ FeedParser(p, u, [type |-> type, usage |-> usage]) \in Account
           /\ usage = NoObject => FeedParser(p, u, [type |-> type, usage |-> usage]) = u
<1> DEFINE e == [type |-> type, usage |-> usage]
<1>1. e.type = type /\ e.usage = usage
  OBVIOUS
<1>. HIDE DEF e
<1>2. FeedAnthropic(u, e) \in Account /\ (usage = NoObject => FeedAnthropic(u, e) = u)
  <2> DEFINE n == [c \in Counters |-> IF c \in DOMAIN usage THEN usage[c] ELSE u.n[c]]
  <2>1. n \in [Counters -> Int]
    BY DEF IsObject, Account
  <2>. HIDE DEF n
  <2>2. Found(n) \in Account
    BY <2>1 DEF Found, Account
  <2>3. FromAnthropic(usage) \in Account
    BY AnthropicFacts
  <2>. QED
    BY <1>1, <2>2, <2>3 DEF FeedAnthropic, n
<1>3. FeedChat(u, e) \in Account /\ (usage = NoObject => FeedChat(u, e) = u)
  <2>1. NormalizeChat(usage) \in Account
    BY NormalizeFacts DEF Normalize, Protocols
  <2>. QED
    BY <1>1, <2>1 DEF FeedChat
<1>4. FeedResponses(u, e) \in Account /\ (usage = NoObject => FeedResponses(u, e) = u)
  <2>1. NormalizeResponses(usage) \in Account
    BY NormalizeFacts DEF Normalize, Protocols
  <2>. QED
    BY <1>1, <2>1 DEF FeedResponses
<1>. QED
  BY <1>2, <1>3, <1>4 DEF FeedParser, Protocols, e

LEMMA ParseDecodes ==
    ASSUME NEW p \in Protocols, NEW o, IsObject(o)
    PROVE  ParseUsage(p, o) \in Readable /\ (ParseUsage(p, o).found \/ Empty(ParseUsage(p, o)))
<1>1. Empty(NoUsage)
  BY DEF NoUsage, Empty
<1>. QED
  BY <1>1, ParseFacts

LEMMA DecodeType ==
    ASSUME NEW p \in Protocols, NEW d \in [usage : Readable, finish : BOOLEAN],
           d.usage.found \/ Empty(d.usage), NEW type, NEW usage, IsObject(usage)
    PROVE  LET r == Decode(p, d, [type |-> type, usage |-> usage]) IN
           /\ r.dec \in [usage : Readable, finish : BOOLEAN]
           /\ r.dec.usage.found \/ Empty(r.dec.usage)
           /\ r.emits \in {"nothing", "stop", "error"}
<1> DEFINE e == [type |-> type, usage |-> usage]
           Fine(r) == /\ r.dec \in [usage : Readable, finish : BOOLEAN]
                      /\ r.dec.usage.found \/ Empty(r.dec.usage)
                      /\ r.emits \in {"nothing", "stop", "error"}
<1>1. e.type = type /\ e.usage = usage
  OBVIOUS
<1>2. d.usage \in Readable /\ d.finish \in BOOLEAN
  OBVIOUS
<1>. HIDE DEF e
<1>3. ASSUME NEW u \in Readable, u.found \/ Empty(u), NEW f \in BOOLEAN,
             NEW m \in {"nothing", "stop", "error"}
      PROVE  Fine(Decodes(u, f, m))
  BY <1>3 DEF Decodes
<1>. HIDE DEF Fine
<1>4. Fine(DecodeAnthropic(d, e))
  <2> DEFINE v == FromAnthropic(usage)
             u == ParseUsage("anthropic", usage)
             kept == [u EXCEPT !.n = [d.usage.n EXCEPT !["output"] = u.n["output"]]]
  <2>1. v \in Account /\ v.found
    BY AnthropicFacts
  <2>. HIDE DEF v
  <2>2. Clamp(v) \in Readable /\ Clamp(v).found
    BY <2>1, ClampFacts
  <2>3. u \in Readable /\ (usage # NoObject => u.found)
    BY ParseFacts DEF Protocols
  <2>. HIDE DEF u
  <2>4. kept \in Readable /\ kept.found = u.found
    BY <1>2, <2>3 DEF Readable, Counters
  <2>. HIDE DEF kept
  <2>5. Fine(Decodes(Clamp(v), FALSE, "nothing"))
    BY <1>3, <2>2
  <2>6. usage # NoObject => /\ Fine(Decodes(kept, FALSE, "nothing"))
                            /\ Fine(Decodes(u, FALSE, "nothing"))
    BY <1>3, <2>3, <2>4
  <2>7. /\ Fine(Decodes(d.usage, FALSE, "nothing")) /\ Fine(Decodes(d.usage, FALSE, "stop"))
        /\ Fine(Decodes(d.usage, FALSE, "error"))
    BY <1>2, <1>3
  <2>. QED
    BY <1>1, <2>5, <2>6, <2>7 DEF DecodeAnthropic, kept, u, v
<1>5. Fine(DecodeChat(d, e))
  <2> DEFINE u == IF usage = NoObject THEN d.usage ELSE ParseUsage("openai_chat", usage)
             finish == d.finish \/ type = "finish"
             emits == IF finish /\ usage # NoObject THEN "stop" ELSE "nothing"
  <2>1. u \in Readable /\ (u.found \/ Empty(u))
    BY <1>2, ParseDecodes DEF Protocols
  <2>2. finish \in BOOLEAN /\ emits \in {"nothing", "stop", "error"}
    BY <1>2
  <2>. HIDE DEF u, finish, emits
  <2>3. /\ Fine(Decodes(u, finish, emits)) /\ Fine(Decodes(d.usage, d.finish, "error"))
        /\ Fine(Decodes(d.usage, d.finish, "stop"))
    BY <1>2, <1>3, <2>1, <2>2
  <2>. QED
    BY <1>1, <2>3 DEF DecodeChat, u, finish, emits
<1>6. Fine(DecodeResponses(d, e))
  <2> DEFINE u == ParseUsage("openai_responses", usage)
  <2>1. u \in Readable /\ (u.found \/ Empty(u))
    BY ParseDecodes DEF Protocols
  <2>. HIDE DEF u
  <2>2. /\ Fine(Decodes(u, FALSE, "stop")) /\ Fine(Decodes(d.usage, FALSE, "error"))
        /\ Fine(Decodes(d.usage, FALSE, "nothing"))
    BY <1>2, <1>3, <2>1
  <2>. QED
    BY <1>1, <2>2 DEF DecodeResponses, u
<1>7. Fine(Decode(p, d, e))
  BY <1>4, <1>5, <1>6 DEF Decode, Protocols
<1>. QED
  BY <1>7 DEF Fine, e

-----------------------------------------------------------------------------
(***************************************************************************)
(* The invariant.                                                          *)
(***************************************************************************)

(* What an action has yet to show of its event: m and d are what the two   *)
(* readers make of it.                                                     *)
Understood(m, d) ==
    /\ Known => /\ \A c \in told' : m.n[c] = truth[c]
                /\ told' # {} => m.found
    /\ up = "openai_responses" /\ state' = "open" => m = NoUsage /\ d.dec.usage = NoUsage
    /\ Translated /\ whole' =>
         /\ d.emits # "error" => Same(d.dec.usage, m)
         /\ up = "anthropic" => \A c \in InputSide : m.n[c] \in {0, truth[c]}

LEMMA DispatchPreserves ==
    ASSUME IInv, NEW type, NEW usage, IsObject(usage), Dispatch(type, usage),
           whole' \in BOOLEAN, told' \subseteq Counters,
           sent < MaxEvents \/ state' # "open",
           LET e == [type |-> type, usage |-> usage]
           IN  Understood(FeedParser(up, meter, e), Decode(up, dec, e))
    PROVE  IInv'
<1> DEFINE e == [type |-> type, usage |-> usage]
           m == FeedParser(up, meter, e)
           d == Decode(up, dec, e)
<1>1. /\ up' = up /\ client' = client /\ truth' = truth /\ writeField' = writeField
      /\ meter' = m /\ sent' = sent + 1 /\ state = "open"
  BY DEF Dispatch
<1>2. m \in Account /\ (usage = NoObject => m = meter)
  BY FeedType DEF IInv, Types
<1>3. /\ d.dec \in [usage : Readable, finish : BOOLEAN]
      /\ d.dec.usage.found \/ Empty(d.dec.usage)
      /\ d.emits \in {"nothing", "stop", "error"}
  BY DecodeType DEF IInv, Types
<1>4. Understood(m, d)
  OBVIOUS
<1>. HIDE DEF m, d
<1>5. CASE Translated
  <2>1. /\ dec' = d.dec
        /\ shown' = IF d.emits = "stop" THEN Render(client, d.dec.usage) ELSE shown
        /\ state' = CASE d.emits = "stop"  -> "complete"
                      [] d.emits = "error" -> "failed"
                      [] OTHER             -> "open"
    BY <1>5 DEF Dispatch, d
  <2>2. /\ state' \in {"open", "complete", "failed"}
        /\ state' = "complete" => d.emits = "stop"
        /\ state' = "open" => d.emits # "error"
    BY <1>3, <2>1
  <2> DEFINE u == d.dec.usage
  <2>3. u \in Readable /\ (u.found \/ Empty(u)) /\ dec'.usage = u
    BY <1>3, <2>1
  <2>. HIDE DEF u
  <2>4. IsObject(shown')
    <3>1. IsObject(Render(client, u)) /\ IsObject(shown)
      BY <2>3, RoundTrip DEF IInv, Types
    <3>. QED
      BY <2>1, <3>1 DEF u
  <2>5. Types'
    <3>1. state' = "open" => sent' <= MaxEvents
      BY <1>1, UsageAssumption DEF IInv, Types
    <3>2. sent' \in 0..MaxEvents + 1
      BY <1>1, UsageAssumption DEF IInv, Types
    <3>3. dec' \in [usage : Readable, finish : BOOLEAN] /\ (dec'.usage.found \/ Empty(dec'.usage))
      BY <1>3, <2>1
    <3>. QED
      BY <1>1, <1>2, <2>2, <2>4, <3>1, <3>2, <3>3 DEF IInv, Types
  <2>6. Fresh'
    <3>1. sent' # 0
      BY <1>1 DEF IInv, Types
    <3>. QED
      BY <1>1, <1>4, <2>1, <3>1 DEF Fresh, Understood
  <2>7. Metered'
    BY <1>1, <1>4 DEF Metered, Understood, Known
  <2>8. Agreement'
    <3>1. SUFFICES ASSUME whole'
          PROVE  /\ state' = "open" => Same(u, m)
                 /\ up = "anthropic" => \A c \in InputSide : m.n[c] \in {0, truth[c]}
                 /\ state' = "complete" => SameAccount'
      BY <1>1, <2>3 DEF Agreement, Translated
    <3>2. d.emits # "error" => Same(u, m)
      BY <1>4, <1>5, <3>1 DEF Understood, u
    <3>3. up = "anthropic" => \A c \in InputSide : m.n[c] \in {0, truth[c]}
      BY <1>4, <1>5, <3>1 DEF Understood
    <3>4. ASSUME state' = "complete"
          PROVE  SameAccount'
      <4>1. Same(u, meter') /\ shown' = Render(client', u)
        BY <1>1, <2>1, <2>2, <3>2, <3>4 DEF u
      <4>2. client' \in Protocols /\ meter' \in Account
        BY <1>1, <1>2 DEF IInv, Types
      <4>. QED
        BY <2>3, <4>1, <4>2, Agreed
    <3>. QED
      BY <2>2, <3>2, <3>3, <3>4
  <2>. QED
    BY <2>5, <2>6, <2>7, <2>8 DEF IInv
<1>6. CASE ~Translated
  <2>1. /\ dec' = dec /\ shown' = shown /\ state' \in {"open", "complete", "failed"}
    BY <1>6 DEF Dispatch
  <2>2. Types'
    <3>1. state' = "open" => sent' <= MaxEvents
      BY <1>1, UsageAssumption DEF IInv, Types
    <3>2. sent' \in 0..MaxEvents + 1
      BY <1>1, UsageAssumption DEF IInv, Types
    <3>. QED
      BY <1>1, <1>2, <2>1, <3>1, <3>2 DEF IInv, Types
  <2>3. Fresh'
    <3>1. sent' # 0
      BY <1>1 DEF IInv, Types
    <3>. QED
      BY <1>1, <1>4, <2>1, <3>1 DEF IInv, Fresh, Understood
  <2>4. Metered'
    BY <1>1, <1>4 DEF Metered, Understood, Known
  <2>5. Agreement'
    BY <1>1, <1>6 DEF Agreement, Translated
  <2>. QED
    BY <2>2, <2>3, <2>4, <2>5 DEF IInv
<1>. QED
  BY <1>5, <1>6

(* An event without a usage object changes neither reader's account.       *)
LEMMA SilentEvent ==
    ASSUME IInv, NEW type, type # "message_start", Dispatch(type, NoObject), whole' = whole,
           sent < MaxEvents \/ state' # "open"
    PROVE  IInv'
<1> DEFINE e == [type |-> type, usage |-> NoObject]
           m == FeedParser(up, meter, e)
           d == Decode(up, dec, e)
<1>1. IsObject(NoObject)
  BY DEF IsObject, NoObject
<1>2. m = meter
  BY <1>1, FeedType DEF IInv, Types
<1>3. told' = told
  BY DEF Dispatch, Tells
<1>4. state = "open" /\ whole' \in BOOLEAN /\ told' \subseteq Counters
  BY <1>3 DEF Dispatch, IInv, Types
<1>5. d.dec.usage = dec.usage
  <2>1. e.type = type /\ e.usage = NoObject
    OBVIOUS
  <2>. HIDE DEF e
  <2>2. CASE up = "anthropic"
    <3>1. DecodeAnthropic(dec, e).dec.usage = dec.usage
      BY <2>1 DEF DecodeAnthropic, Decodes
    <3>. QED
      BY <2>2, <3>1 DEF Decode
  <2>3. CASE up = "openai_chat"
    <3>1. DecodeChat(dec, e).dec.usage = dec.usage
      BY <2>1 DEF DecodeChat, Decodes
    <3>. QED
      BY <2>3, <3>1 DEF Decode
  <2>4. CASE up = "openai_responses"
    <3>1. ParseUsage("openai_responses", NoObject) = dec.usage
      BY <1>4, <2>4 DEF ParseUsage, IInv, Fresh
    <3>2. DecodeResponses(dec, e).dec.usage = dec.usage
      BY <2>1, <3>1 DEF DecodeResponses, Decodes
    <3>. QED
      BY <2>4, <3>2 DEF Decode
  <2>. QED
    BY <2>2, <2>3, <2>4 DEF IInv, Types, Protocols
<1>6. Understood(m, d)
  BY <1>2, <1>3, <1>4, <1>5 DEF Understood, IInv, Fresh, Metered, Agreement
<1>. QED
  BY <1>1, <1>4, <1>6, DispatchPreserves

LEMMA SilentActions ==
    ASSUME IInv, AnthropicStop \/ ChatDone \/ ResponsesCreated \/ ErrorEvent
    PROVE  IInv'
<1>1. ASSUME NEW type, NEW p \in {"stop", "error"}, Dispatch(type, NoObject),
             Decode(up, dec, [type |-> type, usage |-> NoObject]).emits = p,
             type \in Last \cup {"error"}
      PROVE  state' # "open"
  BY <1>1 DEF Dispatch, Last
<1>2. CASE AnthropicStop
  <2>1. /\ Decode(up, dec, [type |-> "message_stop", usage |-> NoObject]).emits = "stop"
        /\ Dispatch("message_stop", NoObject) /\ whole' = whole
    BY <1>2 DEF AnthropicStop, Decode, DecodeAnthropic, Decodes
  <2>2. state' # "open"
    BY <1>1, <2>1 DEF Last
  <2>. QED
    BY <2>1, <2>2, SilentEvent
<1>3. CASE ChatDone
  <2>1. /\ Decode(up, dec, [type |-> "[DONE]", usage |-> NoObject]).emits = "stop"
        /\ Dispatch("[DONE]", NoObject) /\ whole' = whole
    BY <1>3 DEF ChatDone, Decode, DecodeChat, Decodes
  <2>2. state' # "open"
    BY <1>1, <2>1 DEF Last
  <2>. QED
    BY <2>1, <2>2, SilentEvent
<1>4. CASE ResponsesCreated
  <2>1. Dispatch("response.created", NoObject) /\ whole' = whole /\ sent < MaxEvents
    BY <1>4, UsageAssumption DEF ResponsesCreated
  <2>. QED
    BY <2>1, SilentEvent
<1>5. CASE ErrorEvent
  <2>1. Dispatch("error", NoObject) /\ whole' = whole
    BY <1>5 DEF ErrorEvent
  <2>2. Decode(up, dec, [type |-> "error", usage |-> NoObject]).emits = "error"
    BY DEF IInv, Types, Protocols, Decode, DecodeAnthropic, DecodeChat, DecodeResponses, Decodes
  <2>3. state' # "open"
    BY <1>1, <2>1, <2>2
  <2>. QED
    BY <2>1, <2>3, SilentEvent
<1>. QED
  BY <1>2, <1>3, <1>4, <1>5

LEMMA OutputIsInt ==
    ASSUME IInv, NEW output \in OutputCounts
    PROVE  output \in Int /\ ("output" \in told => output = truth["output"])
<1>1. truth["output"] \in Int
  BY DEF IInv, Types, Counters
<1>. QED
  BY <1>1 DEF OutputCounts

(* What an OpenAI upstream has stated is what its reader normalises.       *)
LEMMA OpenAITells ==
    ASSUME IInv, up \in {"openai_chat", "openai_responses"}, NEW output \in OutputCounts,
           told' = told \cup Tells(OpenAIObject(output))
    PROVE  /\ told' \subseteq Counters
           /\ Known => \A c \in told' : Normalize(up, OpenAIObject(output)).n[c] = truth[c]
<1> DEFINE o == OpenAIObject(output)
<1>1. output \in Int /\ ("output" \in told => output = truth["output"])
  BY OutputIsInt
<1>2. /\ o # NoObject
      /\ up = "openai_chat" => o["completion_tokens"] = output
      /\ up = "openai_responses" => o["output_tokens"] = output
      /\ Known =>
            /\ \A c \in InputSide : Normalize(up, o).n[c] = truth[c]
            /\ Normalize(up, o).n["output"] = output
  BY <1>1, OpenAIObjectFacts DEF IInv
<1>. HIDE DEF o
<1>3. Tells(o) = InputSide \cup (IF output = truth["output"] THEN {"output"} ELSE {})
  BY <1>2 DEF Tells
<1>4. told' = told \cup Tells(o) /\ told \subseteq Counters
  BY DEF o, IInv, Types
<1>5. told' \subseteq Counters
  BY <1>3, <1>4 DEF Counters
<1>6. \A c \in told' : c \in InputSide \/ (c = "output" /\ output = truth["output"])
  BY <1>1, <1>3, <1>4 DEF Counters
<1>. QED
  BY <1>2, <1>5, <1>6 DEF o

LEMMA ChatChunkPreserves ==
    ASSUME IInv, ChatChunk
    PROVE  IInv'
<1>1. up = "openai_chat" /\ sent < MaxEvents /\ whole' = whole /\ up \in Protocols
  BY DEF ChatChunk, Protocols
<1>2. ASSUME NEW type \in {"chunk", "finish"}, Dispatch(type, NoObject)
      PROVE  IInv'
  BY <1>1, <1>2, SilentEvent
<1>3. ASSUME NEW type \in {"chunk", "finish"}, NEW output \in OutputCounts,
             Dispatch(type, OpenAIObject(output))
      PROVE  IInv'
  <2> DEFINE usage == OpenAIObject(output)
             e == [type |-> type, usage |-> usage]
             m == FeedParser(up, meter, e)
             d == Decode(up, dec, e)
  <2>1. output \in Int
    BY OutputIsInt
  <2>2. usage # NoObject /\ IsObject(usage)
    BY <1>1, <2>1, OpenAIObjectFacts DEF IInv
  <2>3. told' = told \cup Tells(usage)
    BY <1>3 DEF Dispatch
  <2>4. /\ told' \subseteq Counters
        /\ Known => \A c \in told' : Normalize(up, usage).n[c] = truth[c]
    BY <1>1, <2>3, OpenAITells
  <2>. HIDE DEF usage
  <2>5. m = Normalize(up, usage) /\ m.found
    BY <1>1, <2>2, NormalizeFacts DEF FeedParser, FeedChat, Normalize
  <2>6. d.dec.usage = ParseUsage(up, usage)
    BY <1>1, <1>3, <2>2 DEF Decode, DecodeChat, Decodes
  <2>7. Same(d.dec.usage, m)
    <3>. HIDE DEF m, d
    <3>. QED
      BY <1>1, <2>2, <2>5, <2>6, ParseFacts DEF Same
  <2>8. Understood(m, d)
    BY <1>1, <2>4, <2>5, <2>7 DEF Understood
  <2>9. whole' \in BOOLEAN /\ Dispatch(type, usage)
    BY <1>1, <1>3 DEF IInv, Types, usage
  <2>. QED
    BY <1>1, <2>2, <2>4, <2>8, <2>9, DispatchPreserves
<1>. QED
  BY <1>2, <1>3 DEF ChatChunk

LEMMA ResponsesEndPreserves ==
    ASSUME IInv, ResponsesEnd
    PROVE  IInv'
<1>1. up = "openai_responses" /\ whole' = whole /\ up \in Protocols
  BY DEF ResponsesEnd, Protocols
<1>2. ASSUME NEW type \in {"response.completed", "response.failed"}, NEW usage,
             Dispatch(type, usage)
      PROVE  /\ state' # "open"
             /\ Decode(up, dec, [type |-> type, usage |-> usage]).emits # "error"
                  => type = "response.completed"
  BY <1>1, <1>2 DEF Dispatch, Last, Decode, DecodeResponses, Decodes
<1>3. ASSUME NEW type \in {"response.completed", "response.failed"}, Dispatch(type, NoObject)
      PROVE  IInv'
  BY <1>1, <1>2, <1>3, SilentEvent
<1>4. ASSUME NEW type \in {"response.completed", "response.failed"},
             Dispatch(type, OpenAIObject(truth["output"]))
      PROVE  IInv'
  <2> DEFINE usage == OpenAIObject(truth["output"])
             e == [type |-> type, usage |-> usage]
             m == FeedParser(up, meter, e)
             d == Decode(up, dec, e)
  <2>1. truth["output"] \in OutputCounts /\ truth["output"] \in Int
    BY DEF OutputCounts, IInv, Types, Counters
  <2>2. usage # NoObject /\ IsObject(usage)
    BY <1>1, <2>1, OpenAIObjectFacts DEF IInv
  <2>3. told' = told \cup Tells(usage)
    BY <1>4 DEF Dispatch
  <2>4. /\ told' \subseteq Counters
        /\ Known => \A c \in told' : Normalize(up, usage).n[c] = truth[c]
    BY <1>1, <2>1, <2>3, OpenAITells
  <2>. HIDE DEF usage
  <2>5. m = Normalize(up, usage) /\ m.found
    BY <1>1, <2>2, NormalizeFacts DEF FeedParser, FeedResponses, Normalize
  <2>6. d.emits # "error" => Same(d.dec.usage, m)
    <3>1. d.emits # "error" => d.dec.usage = ParseUsage(up, usage)
      BY <1>1 DEF Decode, DecodeResponses, Decodes
    <3>. HIDE DEF m, d
    <3>. QED
      BY <1>1, <2>2, <2>5, <3>1, ParseFacts DEF Same
  <2>7. whole' \in BOOLEAN /\ Dispatch(type, usage)
    BY <1>1, <1>4 DEF IInv, Types, usage
  <2>8. state' # "open"
    BY <1>2, <2>7
  <2>9. Understood(m, d)
    BY <1>1, <2>4, <2>5, <2>6, <2>8 DEF Understood
  <2>. QED
    BY <2>2, <2>4, <2>7, <2>8, <2>9, DispatchPreserves
<1>. QED
  BY <1>3, <1>4 DEF ResponsesEnd

LEMMA AnthropicStartPreserves ==
    ASSUME IInv, AnthropicStart
    PROVE  IInv'
<1>1. /\ up = "anthropic" /\ sent = 0 /\ sent < MaxEvents /\ whole' = whole
      /\ told = {} /\ meter = NoUsage
  BY UsageAssumption DEF AnthropicStart, IInv, Fresh
<1>2. truth \in [Counters -> Int] /\ whole' \in BOOLEAN
  BY <1>1 DEF IInv, Types
<1>3. ASSUME NEW usage, Dispatch("message_start", usage), IsObject(usage),
             usage = NoObject \/ (usage # NoObject /\ DOMAIN usage = Counters),
             \A c \in InputSide : At(usage, c) \in {0, truth[c]}
      PROVE  IInv'
  <2> DEFINE e == [type |-> "message_start", usage |-> usage]
             m == FeedParser(up, meter, e)
             d == Decode(up, dec, e)
             v == FromAnthropic(usage)
  <2>1. told' = Tells(usage)
    BY <1>1, <1>3 DEF Dispatch
  <2>2. v \in Account /\ v.found /\ \A c \in Counters : v.n[c] = At(usage, c)
    BY <1>3, AnthropicFacts
  <2>3. usage = NoObject => m = NoUsage /\ \A c \in Counters : At(usage, c) = 0
    BY <1>1 DEF FeedParser, FeedAnthropic, At, NoObject, Counters, InputSide
  <2>4. usage # NoObject => m = v
    BY <1>1 DEF FeedParser, FeedAnthropic
  <2>5. \A c \in Counters : m.n[c] = At(usage, c)
    <3>1. \A c \in Counters : NoUsage.n[c] = 0
      BY DEF NoUsage
    <3>. HIDE DEF m, v
    <3>. QED
      BY <1>3, <2>2, <2>3, <2>4, <3>1
  <2>6. d.dec.usage = Clamp(v)
    BY <1>1 DEF Decode, DecodeAnthropic, Decodes
  <2>. HIDE DEF m, d, v
  <2>7. Same(d.dec.usage, m)
    BY <2>2, <2>5, <2>6, ClampFacts DEF Same
  <2>8. /\ told' \subseteq Counters
        /\ \A c \in told' : m.n[c] = truth[c]
        /\ told' # {} => m.found
    <3>1. CASE usage = NoObject
      BY <2>1, <3>1 DEF Tells
    <3>2. CASE usage # NoObject
      <4>1. DOMAIN usage = Counters /\ told' = {c \in DOMAIN usage : usage[c] = truth[c]}
        BY <1>1, <1>3, <2>1, <3>2 DEF Tells
      <4>. QED
        BY <2>2, <2>4, <2>5, <3>2, <4>1 DEF At
    <3>. QED
      BY <3>1, <3>2
  <2>9. Understood(m, d)
    BY <1>1, <1>3, <2>5, <2>7, <2>8 DEF Understood, Counters
  <2>. QED
    BY <1>1, <1>2, <1>3, <2>8, <2>9, DispatchPreserves DEF m, d
<1>4. CASE Dispatch("message_start", NoObject)
  <2>1. IsObject(NoObject) /\ \A c \in InputSide : At(NoObject, c) = 0
    BY DEF IsObject, NoObject, At, InputSide
  <2>. QED
    BY <1>3, <1>4, <2>1
<1>5. CASE Dispatch("message_start", [c \in Counters |-> 0])
  <2> DEFINE o == [c \in Counters |-> 0]
  <2>1. /\ DOMAIN o = Counters /\ IsObject(o) /\ \A c \in InputSide : At(o, c) = 0
        /\ DOMAIN NoObject = {"absent"}
    BY DEF IsObject, At, Counters, NoObject
  <2>2. Dispatch("message_start", o)
    BY <1>5
  <2>. HIDE DEF o
  <2>3. o # NoObject
    BY <2>1, "output" # "absent" DEF Counters
  <2>. QED
    BY <1>3, <2>1, <2>2, <2>3
<1>6. CASE Dispatch("message_start", AnthropicObject(InputSide, 0))
  <2> DEFINE o == AnthropicObject(InputSide, 0)
  <2>1. /\ DOMAIN o = Counters /\ o # NoObject /\ IsObject(o)
        /\ \A c \in InputSide : o[c] = truth[c]
    BY <1>2, WholeObjectFacts
  <2>. HIDE DEF o
  <2>2. \A c \in InputSide : At(o, c) = truth[c]
    BY <2>1 DEF Counters, At
  <2>. QED
    BY <1>3, <1>6, <2>1, <2>2 DEF o
<1>. QED
  BY <1>4, <1>5, <1>6 DEF AnthropicStart

LEMMA AnthropicDeltaPreserves ==
    ASSUME IInv, AnthropicDelta
    PROVE  IInv'
<1>1. up = "anthropic" /\ sent < MaxEvents
  BY UsageAssumption DEF AnthropicDelta
<1>2. PICK fields \in SUBSET InputSide, output \in OutputCounts :
         /\ Dispatch("message_delta", AnthropicObject(fields, output))
         /\ whole' = (whole /\ fields \in {{}, InputSide})
  BY DEF AnthropicDelta
<1> DEFINE o == AnthropicObject(fields, output)
           e == [type |-> "message_delta", usage |-> o]
           m == FeedParser(up, meter, e)
           d == Decode(up, dec, e)
           u == ParseUsage("anthropic", o)
<1>3. truth \in [Counters -> Int] /\ whole' \in BOOLEAN /\ state = "open" /\ told \subseteq Counters
  BY <1>2 DEF Dispatch, IInv, Types
<1>4. output \in Int /\ ("output" \in told => output = truth["output"])
  BY OutputIsInt
<1>5. /\ DOMAIN o = fields \cup {"output"} /\ o # NoObject /\ IsObject(o)
      /\ \A c \in fields : o[c] = truth[c]
      /\ o["output"] = output
  BY <1>3, <1>4, AnthropicObjectFacts
<1>6. told' = told \cup Tells(o)
  BY <1>2 DEF Dispatch
<1>. HIDE DEF o
<1>7. Tells(o) = {c \in DOMAIN o : o[c] = truth[c]}
  BY <1>1, <1>5 DEF Tells
<1>8. m.found /\ \A c \in Counters : m.n[c] = IF c \in DOMAIN o THEN o[c] ELSE meter.n[c]
  BY <1>1, <1>5 DEF FeedParser, FeedAnthropic, Found
<1>9. /\ u \in Readable
      /\ \A c \in Counters : u.n[c] = AtLeastZero(At(o, c))
  BY <1>5, ParseFacts, AnthropicFacts DEF Protocols, Normalize
<1>. HIDE DEF m
<1>10. told' \subseteq Counters
  BY <1>3, <1>5, <1>6, <1>7 DEF Counters
<1>11. Known => \A c \in told' : m.n[c] = truth[c]
  <2>1. SUFFICES ASSUME Known, NEW c \in told'
        PROVE  m.n[c] = truth[c]
    OBVIOUS
  <2>2. c \in Counters /\ (c \in told => meter.n[c] = truth[c])
    BY <1>10, <2>1 DEF IInv, Metered
  <2>3. CASE c \in DOMAIN o
    BY <1>4, <1>5, <1>6, <1>7, <1>8, <2>2, <2>3
  <2>4. CASE c \notin DOMAIN o
    BY <1>6, <1>7, <1>8, <2>1, <2>2, <2>4
  <2>. QED
    BY <2>3, <2>4
<1>12. ASSUME Translated, whole'
       PROVE  /\ Same(d.dec.usage, m)
              /\ \A c \in InputSide : m.n[c] \in {0, truth[c]}
  <2>1. fields = {} \/ fields = InputSide
    BY <1>2, <1>12
  <2>2. whole
    BY <1>2, <1>12
  <2>3. /\ \A c \in Counters : dec.usage.n[c] = AtLeastZero(meter.n[c])
        /\ \A c \in InputSide : meter.n[c] \in {0, truth[c]}
    BY <1>1, <1>3, <1>12, <2>2 DEF IInv, Agreement, Same
  <2>4. \A c \in InputSide : c # "output" /\ c \in Counters
    BY DEF InputSide, Counters
  <2>5. \A c \in InputSide : m.n[c] \in {0, truth[c]}
    BY <1>5, <1>8, <2>3, <2>4
  <2> DEFINE keeps == \A c \in InputSide : At(o, c) = 0
             kept  == [u EXCEPT !.n = [dec.usage.n EXCEPT !["output"] = u.n["output"]]]
  <2>6. d.dec.usage = IF keeps THEN kept ELSE u
    BY <1>1, <1>5 DEF Decode, DecodeAnthropic, Decodes
  <2>7. kept.n["output"] = u.n["output"] /\ \A c \in InputSide : kept.n[c] = dec.usage.n[c]
    <3>1. dec.usage \in Readable
      BY DEF IInv, Types
    <3>. QED
      BY <1>9, <2>4, <3>1 DEF Readable, Counters
  <2>. HIDE DEF keeps, kept, d, u
  <2>8. At(o, "output") = o["output"] /\ m.n["output"] = o["output"]
    BY <1>5, <1>8 DEF At, Counters
  <2>9. d.dec.usage.n["output"] = AtLeastZero(m.n["output"])
    BY <1>9, <2>6, <2>7, <2>8 DEF Counters
  <2>10. ASSUME NEW c \in InputSide
         PROVE  d.dec.usage.n[c] = AtLeastZero(m.n[c])
    <3>1. CASE fields = {}
      <4>1. keeps /\ m.n[c] = meter.n[c]
        BY <1>5, <1>8, <2>4, <3>1 DEF keeps, At
      <4>. QED
        BY <2>3, <2>4, <2>6, <2>7, <4>1
    <3>2. CASE fields = InputSide
      <4>1. \A f \in InputSide : At(o, f) = truth[f] /\ m.n[f] = truth[f]
        BY <1>5, <1>8, <2>4, <3>2 DEF At
      <4>2. CASE keeps
        <5>1. m.n[c] = 0 /\ meter.n[c] = 0
          BY <2>3, <4>1, <4>2 DEF keeps
        <5>. QED
          BY <2>3, <2>4, <2>6, <2>7, <4>2, <5>1
      <4>3. CASE ~keeps
        BY <1>9, <2>4, <2>6, <4>1, <4>3
      <4>. QED
        BY <4>2, <4>3
    <3>. QED
      BY <2>1, <3>1, <3>2
  <2>. QED
    BY <2>5, <2>9, <2>10 DEF Same, Counters
<1>. HIDE DEF d
<1>13. Understood(m, d)
  BY <1>1, <1>8, <1>11, <1>12 DEF Understood
<1>. QED
  BY <1>1, <1>2, <1>3, <1>5, <1>10, <1>13, DispatchPreserves DEF o, m, d

LEMMA WholeBodyPreserves ==
    ASSUME IInv, WholeBody
    PROVE  IInv'
<1>1. /\ up' = up /\ client' = client /\ truth' = truth /\ writeField' = writeField
      /\ whole' = whole /\ dec' = dec /\ state' = "complete" /\ sent' = 1
      /\ told = {} /\ up \in Protocols /\ truth \in [Counters -> Int]
  BY DEF WholeBody, IInv, Types, Fresh
<1>2. PICK usage \in {NoObject, IF up = "anthropic" THEN AnthropicObject(InputSide, truth["output"])
                               ELSE OpenAIObject(truth["output"])} :
          /\ meter' = ParseUsage(up, usage)
          /\ shown' = IF Translated THEN Render(client, ParseUsage(up, usage)) ELSE shown
          /\ told' = told \cup Tells(usage)
  BY DEF WholeBody
<1> DEFINE u == ParseUsage(up, usage)
<1>3. truth["output"] \in OutputCounts /\ truth["output"] \in Int
  BY <1>1 DEF OutputCounts, Counters
<1>4. /\ IsObject(usage) /\ told' \subseteq Counters
      /\ Known => \A c \in told' : u.n[c] = truth[c]
      /\ told' # {} => u.found
      /\ up = "anthropic" => \A c \in InputSide : u.n[c] \in {0, AtLeastZero(truth[c])}
  <2>1. CASE usage = NoObject
    <3>1. told' = {} /\ u = NoUsage /\ IsObject(usage)
      BY <1>1, <1>2, <2>1 DEF Tells, ParseUsage, IsObject, NoObject
    <3>2. \A c \in Counters : NoUsage.n[c] = 0
      BY DEF NoUsage
    <3>. HIDE DEF u
    <3>. QED
      BY <3>1, <3>2 DEF Counters
  <2>2. CASE up = "anthropic" /\ usage = AnthropicObject(InputSide, truth["output"])
    <3>1. /\ DOMAIN usage = Counters /\ usage # NoObject /\ IsObject(usage)
          /\ \A c \in InputSide : usage[c] = truth[c]
          /\ usage["output"] = truth["output"]
      <4> DEFINE o == AnthropicObject(InputSide, truth["output"])
      <4>1. /\ DOMAIN o = Counters /\ o # NoObject /\ IsObject(o)
            /\ \A c \in InputSide : o[c] = truth[c]
            /\ o["output"] = truth["output"]
        BY <1>1, <1>3, WholeObjectFacts
      <4>. HIDE DEF o
      <4>. QED
        BY <2>2, <4>1 DEF o
    <3>2. told' \subseteq Counters
      BY <1>1, <1>2, <2>2, <3>1 DEF Tells, Counters
    <3>3. u.found /\ \A c \in Counters : u.n[c] = AtLeastZero(At(usage, c))
      BY <1>1, <2>2, <3>1, ParseFacts, AnthropicFacts DEF Normalize
    <3>. HIDE DEF u
    <3>4. \A c \in Counters : At(usage, c) = truth[c]
      BY <3>1 DEF At, Counters
    <3>5. Known => \A c \in Counters : AtLeastZero(truth[c]) = truth[c]
      BY <1>1 DEF Known, AtLeastZero
    <3>. QED
      BY <3>1, <3>2, <3>3, <3>4, <3>5 DEF Counters
  <2>3. CASE up # "anthropic" /\ usage = OpenAIObject(truth["output"])
    <3>1. up \in {"openai_chat", "openai_responses"}
      BY <1>1, <2>3 DEF Protocols
    <3>2. usage # NoObject /\ IsObject(usage)
      BY <1>3, <2>3, <3>1, OpenAIObjectFacts DEF IInv
    <3>3. /\ told' \subseteq Counters
          /\ Known => \A c \in told' : Normalize(up, usage).n[c] = truth[c]
      BY <1>2, <1>3, <2>3, <3>1, OpenAITells
    <3>4. u.found /\ \A c \in Counters : u.n[c] = AtLeastZero(Normalize(up, usage).n[c])
      BY <1>1, <3>2, ParseFacts
    <3>. HIDE DEF u
    <3>5. Known => \A c \in Counters : AtLeastZero(truth[c]) = truth[c]
      BY <1>1 DEF Known, AtLeastZero
    <3>. QED
      BY <2>3, <3>2, <3>3, <3>4, <3>5
  <2>. QED
    BY <1>2, <2>1, <2>2, <2>3
<1>5. u \in Readable /\ (u.found \/ Empty(u))
  BY <1>1, <1>4, ParseDecodes
<1>6. u \in Account
  BY <1>5 DEF Readable, Account
<1>. HIDE DEF u
<1>7. /\ meter' = u /\ shown' = IF Translated THEN Render(client, u) ELSE shown
  BY <1>2 DEF u
<1>8. Types'
  <2>1. IsObject(shown')
    BY <1>5, <1>7, RoundTrip DEF IInv, Types
  <2>2. sent' \in 0..MaxEvents + 1
    BY <1>1, UsageAssumption
  <2>. QED
    BY <1>1, <1>4, <1>6, <1>7, <2>1, <2>2 DEF IInv, Types
<1>9. Fresh'
  BY <1>1 DEF Fresh
<1>10. Metered'
  BY <1>1, <1>4, <1>7 DEF Metered, Known
<1>11. Agreement'
  <2>1. SUFFICES ASSUME Translated
        PROVE  /\ up = "anthropic" => \A c \in InputSide : u.n[c] \in {0, truth[c]}
               /\ SameAccount'
    BY <1>1, <1>7 DEF Agreement, Translated
  <2>2. up = "anthropic" => \A c \in InputSide : u.n[c] \in {0, truth[c]}
    BY <1>1, <1>4 DEF AtLeastZero, Counters
  <2>3. Same(u, meter') /\ shown' = Render(client', u)
    BY <1>1, <1>5, <1>7, <2>1 DEF Same, Readable, AtLeastZero
  <2>4. client' \in Protocols /\ meter' \in Account
    BY <1>1, <1>6, <1>7 DEF IInv, Types
  <2>. QED
    BY <1>5, <2>2, <2>3, <2>4, Agreed
<1>. QED
  BY <1>8, <1>9, <1>10, <1>11 DEF IInv

LEMMA Initially == Init => IInv
<1>. SUFFICES ASSUME Init PROVE IInv
  OBVIOUS
<1>1. /\ NoUsage \in Account /\ NoUsage \in Readable /\ Empty(NoUsage)
      /\ \A c \in Counters : NoUsage.n[c] = 0
  BY DEF NoUsage, Account, Readable, Empty
<1>2. truth \in [Counters -> Int] /\ truth["input"] >= 0 /\ truth["output"] >= 0
  BY DEF Init
<1>3. /\ meter = NoUsage /\ dec = [usage |-> NoUsage, finish |-> FALSE]
      /\ told = {} /\ sent = 0 /\ state = "open" /\ IsObject(shown)
  BY DEF Init, IsObject, NoObject
<1>4. dec.usage = NoUsage /\ dec \in [usage : Readable, finish : BOOLEAN]
  BY <1>1, <1>3
<1>5. Types
  BY <1>1, <1>2, <1>3, <1>4, UsageAssumption DEF Init, Types
<1>6. Fresh /\ Metered
  BY <1>3, <1>4 DEF Fresh, Metered
<1>7. Agreement
  BY <1>1, <1>3, <1>4 DEF Agreement, Same, AtLeastZero, Counters
<1>. QED
  BY <1>5, <1>6, <1>7 DEF IInv

LEMMA Step ==
    ASSUME IInv, [Next]_vars
    PROVE  IInv'
<1>1. CASE UNCHANGED vars
  BY <1>1 DEF vars, IInv, Types, Fresh, Metered, Known, Agreement, Translated,
              SameAccount, Seen, Billed, Empty, Same
<1>2. CASE Next
  BY <1>2, AnthropicStartPreserves, AnthropicDeltaPreserves, ChatChunkPreserves,
     ResponsesEndPreserves, SilentActions, WholeBodyPreserves DEF Next
<1>. QED
  BY <1>1, <1>2

LEMMA Invariant == Spec => []IInv
<1>1. IInv /\ [Next]_vars => IInv'
  BY Step
<1>. QED
  BY Initially, <1>1, PTL DEF Spec

-----------------------------------------------------------------------------
(***************************************************************************)
(* What follows.                                                           *)
(***************************************************************************)

(* No counter that leaves the package is negative, whatever an upstream    *)
(* states, in the account that is billed, in the decoder's and in the one  *)
(* a client reads off its last event (clamp in internal/protocol).         *)
THEOREM NoneNegative == Spec => []NoNegativeCounters
<1>1. IInv => NoNegativeCounters
  <2>1. SUFFICES ASSUME IInv PROVE NoNegativeCounters
    OBVIOUS
  <2>2. Billed \in Readable
    BY <2>1, ClampFacts DEF Billed, IInv, Types
  <2>3. Seen \in Readable
    BY <2>1, ParseFacts DEF Seen, IInv, Types
  <2>4. dec.usage \in Readable
    BY <2>1 DEF IInv, Types
  <2>5. {Billed, dec.usage, Seen} \subseteq [found : BOOLEAN, n : [Counters -> Nat]]
    BY <2>2, <2>3, <2>4 DEF Readable
  <2>. QED
    BY <2>5 DEF NoNegativeCounters
<1>. QED
  BY Invariant, <1>1, PTL

(* Every variable keeps its type (StreamParser, the decoder and encoder of *)
(* one response).                                                          *)
THEOREM TypeCorrect == Spec => []TypeOK
<1>1. IInv => TypeOK
  BY DEF IInv, Types, TypeOK
<1>. QED
  BY Invariant, <1>1, PTL

(* A complete response whose upstream has stated every counter is billed   *)
(* for exactly those, in whatever portions, order and field they came      *)
(* (the StreamParsers of internal/protocol).                               *)
THEOREM CountedIsBilled == Spec => []BilledIsCounted
<1>1. IInv => BilledIsCounted
  <2>1. SUFFICES ASSUME IInv, told = Counters, Known
        PROVE  Billed = Found(truth)
    BY DEF BilledIsCounted, Known
  <2>2. /\ meter \in Account /\ truth \in [Counters -> Int] /\ meter.found
        /\ \A c \in Counters : meter.n[c] = truth[c]
    BY <2>1 DEF IInv, Types, Metered, Counters
  <2>3. /\ Billed \in Readable /\ Billed.found = meter.found
        /\ \A c \in Counters : Billed.n[c] = AtLeastZero(meter.n[c])
    BY <2>2, ClampFacts DEF Billed
  <2>4. \A c \in Counters : Billed.n[c] = truth[c]
    BY <2>1, <2>2, <2>3 DEF Known, AtLeastZero
  <2>. HIDE DEF Billed
  <2>5. Billed.n = truth /\ Billed.found = TRUE
    BY <2>2, <2>3, <2>4 DEF Readable
  <2>. QED
    BY <2>3, <2>5 DEF Found, Readable
<1>. QED
  BY Invariant, <1>1, PTL

(* What a translated client reads off its own protocol's usage object is   *)
(* what is billed (the decoders and encoders of internal/protocol/         *)
(* translate against the parsers of internal/protocol).                    *)
THEOREM ShownAsBilled == Spec => []ShownIsBilled
<1>1. IInv => ShownIsBilled
  BY DEF IInv, Agreement, ShownIsBilled
<1>. QED
  BY Invariant, <1>1, PTL
=============================================================================
