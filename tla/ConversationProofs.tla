-------------------------- MODULE ConversationProofs --------------------------
(***************************************************************************)
(* What is proved of conversations through the gateway, of any number of   *)
(* turns, through upstreams of any protocols: nothing that was said is     *)
(* lost on the way, calls are announced, parameters arrive, what an        *)
(* upstream was sent stays as it was, and every upstream accepts what it   *)
(* is sent.                                                                *)
(*                                                                         *)
(* ConvInv says that the client's next request is well formed and says     *)
(* what was said, and that the request under way is its translation.       *)
(* GrowInv adds what the growth of requests needs: an earlier request is   *)
(* the translation of a beginning of the client's history, cut where no    *)
(* assistant's turn was open.                                              *)
(*                                                                         *)
(* OrderInv is about the order of messages.  In the IR the client's        *)
(* history is a sequence of rounds: at most one assistant message, then    *)
(* the results of all its calls, in their order, with the user's words.    *)
(* What a round becomes keeps the order that each protocol asks for, since *)
(* the ids of a round's calls are later than those of earlier rounds.      *)
(***************************************************************************)
EXTENDS CodecProofs

-----------------------------------------------------------------------------
(***************************************************************************)
(* The invariant.                                                          *)
(***************************************************************************)
Typed ==
    /\ client \in Protocols /\ upstream \in Protocols
    /\ stateful \in BOOLEAN
    /\ DOMAIN asked = Protocols
    /\ turn \in Nat /\ turn <= MaxTurns
    /\ pending \in Seq(Nat)
    /\ said \in Seq(Things)
    /\ phase \in {"composed", "waiting", "answered", "refused"}

Sound ==
    /\ stateful => client = "openai_responses"
    /\ phase = "answered" => turn > 0
    /\ \E s \in Settings(client) : request \in Reqs(client, s)
    /\ (stateful /\ turn > 0) \/ SameThings(Heard(client, request), said)
    /\ stateful /\ turn > 0 /\ phase \in {"composed", "waiting"} => request.previous
    /\ JustAsked => /\ asked[upstream] = TranslateRequest(client, upstream, request)
                    /\ Translatable(client, upstream, request)

ConvInv == Typed /\ Sound

(* The invariant holds at first.                                           *)
LEMMA InitInv == Init => ConvInv
<1> SUFFICES ASSUME Init PROVE ConvInv
  OBVIOUS
<1>1. PICK s \in Settings(client) : request = FirstRequest(client, s)
  BY DEF Init
<1>2. /\ client \in Protocols /\ upstream = client /\ asked = [p \in Protocols |-> NotAsked]
      /\ said = Heard(client, request) /\ pending = <<>> /\ turn = 0 /\ phase = "composed"
      /\ stateful \in (IF client = "openai_responses" THEN BOOLEAN ELSE {FALSE})
  BY DEF Init
<1>3. request \in Reqs(client, s)
  BY <1>1, <1>2, FirstFacts
<1>4. said \in Seq(Things)
  BY <1>2, <1>3, SystemHeard
<1>5. Typed
  <2>1. <<>> \in Seq(Nat) /\ DOMAIN [p \in Protocols |-> NotAsked] = Protocols
    OBVIOUS
  <2>2. turn \in Nat /\ turn <= MaxTurns
    BY <1>2, ConversationAssumption
  <2>. QED
    BY <1>2, <1>4, <2>1, <2>2 DEF Typed
<1>6. Sound
  <2>1. SameThings(Heard(client, request), said)
    BY <1>2, SameFacts
  <2>2. \E t \in Settings(client) : request \in Reqs(client, t)
    BY <1>1, <1>3
  <2>3. stateful => client = "openai_responses"
    BY <1>2
  <2>4. ~JustAsked /\ phase = "composed" /\ ~(turn > 0)
    BY <1>2 DEF JustAsked
  <2>. QED
    BY <2>1, <2>2, <2>3, <2>4 DEF Sound
<1>. QED
  BY <1>5, <1>6 DEF ConvInv

(* Translator.Request keeps it,                                            *)
LEMMA AskInv ==
    ASSUME ConvInv, NEW p \in Protocols, Ask(p)
    PROVE  ConvInv'
<1>1. /\ phase = "composed" /\ (p = client \/ Translatable(client, p, request))
      /\ upstream' = p /\ phase' = "waiting"
      /\ asked' = IF p = client THEN asked
                  ELSE [asked EXCEPT ![p] = TranslateRequest(client, p, request)]
      /\ client' = client /\ stateful' = stateful /\ request' = request /\ said' = said
      /\ pending' = pending /\ turn' = turn
  BY DEF Ask
<1>2. Typed'
  <2>1. DOMAIN asked' = Protocols
    BY <1>1 DEF ConvInv, Typed
  <2>. QED
    BY <1>1, <2>1 DEF ConvInv, Typed
<1>3. Sound'
  <2>1. JustAsked' => /\ asked'[upstream'] = TranslateRequest(client', upstream', request')
                      /\ Translatable(client', upstream', request')
    BY <1>1 DEF ConvInv, Typed, JustAsked, Translated
  <2>2. \E s \in Settings(client') : request' \in Reqs(client', s)
    BY <1>1 DEF ConvInv, Sound
  <2>3. (stateful' /\ turn' > 0) \/ SameThings(Heard(client', request'), said')
    BY <1>1 DEF ConvInv, Sound
  <2>4. stateful' /\ turn' > 0 /\ phase' \in {"composed", "waiting"} => request'.previous
    BY <1>1 DEF ConvInv, Sound
  <2>. QED
    BY <1>1, <2>1, <2>2, <2>3, <2>4 DEF ConvInv, Sound
<1>. QED
  BY <1>2, <1>3 DEF ConvInv

(* a refused request keeps it,                                             *)
LEMMA RefuseInv ==
    ASSUME ConvInv, NEW p \in Protocols, Refuse(p)
    PROVE  ConvInv'
<1>1. /\ phase' = "refused" /\ upstream' = upstream /\ asked' = asked
      /\ client' = client /\ stateful' = stateful /\ request' = request /\ said' = said
      /\ pending' = pending /\ turn' = turn
  BY DEF Refuse
<1>2. Typed'
  BY <1>1 DEF ConvInv, Typed
<1>3. Sound'
  <2>1. \E s \in Settings(client') : request' \in Reqs(client', s)
    BY <1>1 DEF ConvInv, Sound
  <2>2. (stateful' /\ turn' > 0) \/ SameThings(Heard(client', request'), said')
    BY <1>1 DEF ConvInv, Sound
  <2>. QED
    BY <1>1, <2>1, <2>2 DEF ConvInv, Sound, JustAsked
<1>. QED
  BY <1>2, <1>3 DEF ConvInv

(* What the client makes of any answer.                                    *)
LEMMA AnswerSeen ==
    ASSUME NEW p \in Protocols, NEW q \in Protocols, NEW t \in Nat, NEW w \in Answers(p, t)
    PROVE  LET seen == IF p # q THEN TranslateResponse(q, p, w) ELSE w
           IN  /\ IsAnswer(q, seen)
               /\ SameThings(InAnswer(q, seen), InAnswer(p, w))
               /\ InAnswer(q, seen) \in Seq(Things) /\ InAnswer(p, w) \in Seq(Things)
               /\ CallsIn(q, seen) \in Seq(Nat)
               /\ p # q => Told(q, EndIn(q, seen), EndIn(p, w), CallsIn(q, seen) # <<>>)
<1> DEFINE s == TranslateResponse(q, p, w)
<1>1. IsAnswer(p, w)
  BY AnswersToIR
<1>2. InAnswer(p, w) \in Seq(Things)
  BY <1>1, RememberedFacts
<1>3. CASE p # q
  <2>1. /\ IsAnswer(q, s) /\ SameThings(InAnswer(q, s), InAnswer(p, w)) /\ CallsIn(q, s) \in Seq(Nat)
        /\ Told(q, EndIn(q, s), EndIn(p, w), CallsIn(q, s) # <<>>)
    BY <1>3, AnswerTranslated
  <2> HIDE DEF s
  <2>2. InAnswer(q, s) \in Seq(Things)
    BY <2>1, RememberedFacts
  <2>. QED
    BY <1>2, <1>3, <2>1, <2>2 DEF s
<1>4. CASE p = q
  <2>1. CallsIn(q, w) = Each(IdF, OnlyTools(InAnswer(q, w)))
    BY <1>1, <1>4, CallsInAnswer
  <2>2. CallsIn(q, w) \in Seq(Nat)
    BY <1>2, <1>4, <2>1, IdFacts
  <2>. QED
    BY <1>1, <1>2, <1>4, <2>2, SameFacts
<1>. QED
  BY <1>3, <1>4

-----------------------------------------------------------------------------
(***************************************************************************)
(* The steps of a conversation, and the theorems.                          *)
(***************************************************************************)

(* Translator.Response and the client's remembering do,                    *)
LEMMA AnswerInv ==
    ASSUME ConvInv, Answer
    PROVE  ConvInv'
<1>1. PICK w \in Answers(upstream, turn + 1) :
         LET seen == IF Translated THEN TranslateResponse(client, upstream, w) ELSE w
         IN  /\ request' = WithHistory(client, request,
                              IF stateful THEN <<>>
                              ELSE History(client, request) \o Remembered(client, seen))
             /\ pending' = CallsIn(client, seen)
             /\ told' = EndIn(client, seen)
             /\ original' = [calls |-> CallsIn(upstream, w), stop |-> EndIn(upstream, w)]
             /\ said' = said \o InAnswer(upstream, w)
  BY DEF Answer
<1> DEFINE seen == IF upstream # client THEN TranslateResponse(client, upstream, w) ELSE w
<1>2. /\ phase = "waiting" /\ turn < MaxTurns /\ turn' = turn + 1 /\ phase' = "answered"
      /\ client' = client /\ stateful' = stateful /\ upstream' = upstream /\ asked' = asked
  BY DEF Answer
<1>3. /\ request' = WithHistory(client, request,
                       IF stateful THEN <<>> ELSE History(client, request) \o Remembered(client, seen))
      /\ pending' = CallsIn(client, seen)
      /\ said' = said \o InAnswer(upstream, w)
  BY <1>1 DEF Translated
<1>4. /\ client \in Protocols /\ upstream \in Protocols /\ turn \in Nat /\ turn + 1 \in Nat
      /\ said \in Seq(Things) /\ turn + 1 <= MaxTurns /\ stateful \in BOOLEAN
      /\ DOMAIN asked = Protocols /\ turn + 1 > 0
  BY <1>2, ConversationAssumption DEF ConvInv, Typed
<1>5. /\ IsAnswer(client, seen)
      /\ SameThings(InAnswer(client, seen), InAnswer(upstream, w))
      /\ InAnswer(client, seen) \in Seq(Things) /\ InAnswer(upstream, w) \in Seq(Things)
      /\ CallsIn(client, seen) \in Seq(Nat)
  BY <1>4, AnswerSeen
<1> HIDE DEF seen
<1>6. PICK s \in Settings(client) : request \in Reqs(client, s)
  BY DEF ConvInv, Sound
<1>7. Remembered(client, seen) \in Past(client)
      /\ InHistory(client, Remembered(client, seen)) = InAnswer(client, seen)
  BY <1>4, <1>5, RememberedFacts
<1>8. Typed'
  <2>1. said \o InAnswer(upstream, w) \in Seq(Things)
    BY <1>4, <1>5, ConcatProperties
  <2>. QED
    BY <1>2, <1>3, <1>4, <1>5, <2>1 DEF Typed
<1>9. /\ request' \in Reqs(client, s)
      /\ (stateful /\ turn + 1 > 0) \/ SameThings(Heard(client, request'), said')
  <2>1. CASE stateful
    <3>1. request' = WithHistory(client, request, <<>>)
      BY <1>3, <2>1
    <3>2. <<>> \in Past(client)
      BY <1>4, PastFacts
    <3>3. request' \in Reqs(client, s)
      BY <1>4, <1>6, <3>1, <3>2, HistoryReplaced
    <3>. QED
      BY <1>4, <2>1, <3>3
  <2>2. CASE ~stateful
    <3>1. request' = WithHistory(client, request, History(client, request) \o Remembered(client, seen))
      BY <1>3, <2>2
    <3>2. /\ request' \in Reqs(client, s)
          /\ Heard(client, request') = Heard(client, request) \o InAnswer(client, seen)
      <4> DEFINE k == Remembered(client, seen)
      <4>1. k \in Past(client) /\ InHistory(client, k) = InAnswer(client, seen)
        BY <1>7
      <4>2. request' = WithHistory(client, request, History(client, request) \o k)
        BY <3>1
      <4> HIDE DEF k
      <4>3. /\ WithHistory(client, request, History(client, request) \o k) \in Reqs(client, s)
            /\ Heard(client, WithHistory(client, request, History(client, request) \o k))
                 = Heard(client, request) \o InHistory(client, k)
        BY <1>4, <1>6, <4>1, MoreIsHeard
      <4>. QED
        BY <4>1, <4>2, <4>3
    <3>3. SameThings(Heard(client, request), said)
      BY <2>2 DEF ConvInv, Sound
    <3>4. Heard(client, request) \in Seq(Things)
      BY <1>4, <1>6, SystemHeard
    <3>5. SameThings(Heard(client, request) \o InAnswer(client, seen), said \o InAnswer(upstream, w))
      BY <1>4, <1>5, <3>3, <3>4, SameFacts
    <3>. QED
      BY <1>3, <3>2, <3>5
  <2>. QED
    BY <2>1, <2>2
<1>10. Sound'
  <2>1. stateful' => client' = "openai_responses"
    BY <1>2 DEF ConvInv, Sound
  <2>2. \E t \in Settings(client') : request' \in Reqs(client', t)
    BY <1>2, <1>6, <1>9
  <2>3. (stateful' /\ turn' > 0) \/ SameThings(Heard(client', request'), said')
    BY <1>2, <1>9
  <2>4. ~JustAsked' /\ turn' > 0 /\ phase' \notin {"composed", "waiting"}
    BY <1>2, <1>4 DEF JustAsked
  <2>. QED
    BY <2>1, <2>2, <2>3, <2>4 DEF Sound
<1>. QED
  BY <1>8, <1>10 DEF ConvInv

(* and the client's going on.                                              *)
LEMMA ReplyInv ==
    ASSUME ConvInv, Reply
    PROVE  ConvInv'
<1>1. PICK user, note, picture \in BOOLEAN, bad \in {{}, {10 * turn + 1}} :
      /\ pending = <<>> => user /\ bad = {}
      /\ picture => user /\ ~note
      /\ LET results == IF pending = <<>> THEN <<>> ELSE Results(client, pending, bad)
             words   == IF user THEN UserSays(client, 10 * turn + 5, picture) ELSE <<>>
             more    == Together(client, results, words)
                        \o (IF note THEN SystemSays(client, 10 * turn + 6) ELSE <<>>)
             next    == WithHistory(client, request, History(client, request) \o more)
         IN  /\ request' = IF stateful THEN [next EXCEPT !.previous = TRUE] ELSE next
             /\ said' = said \o InHistory(client, more)
  BY DEF Reply
<1> DEFINE results == IF pending = <<>> THEN <<>> ELSE Results(client, pending, bad)
           words   == IF user THEN UserSays(client, 10 * turn + 5, picture) ELSE <<>>
           notes   == IF note THEN SystemSays(client, 10 * turn + 6) ELSE <<>>
           more    == Together(client, results, words) \o notes
           next    == WithHistory(client, request, History(client, request) \o more)
<1>2. /\ phase = "answered" /\ turn' = turn /\ phase' = "composed" /\ pending' = <<>>
      /\ client' = client /\ stateful' = stateful /\ upstream' = upstream /\ asked' = asked
  BY DEF Reply
<1>3. /\ request' = IF stateful THEN [next EXCEPT !.previous = TRUE] ELSE next
      /\ said' = said \o InHistory(client, more)
  BY <1>1
<1>4. /\ client \in Protocols /\ upstream \in Protocols /\ turn \in Nat /\ turn <= MaxTurns
      /\ said \in Seq(Things) /\ stateful \in BOOLEAN
      /\ DOMAIN asked = Protocols /\ pending \in Seq(Nat)
      /\ 10 * turn + 5 \in Nat /\ 10 * turn + 6 \in Nat
  <2>1. turn \in Nat
    BY DEF ConvInv, Typed
  <2>2. 10 * turn + 5 \in Nat /\ 10 * turn + 6 \in Nat
    BY <2>1
  <2>. QED
    BY <2>1, <2>2 DEF ConvInv, Typed
<1>5. PICK s \in Settings(client) : request \in Reqs(client, s)
  BY DEF ConvInv, Sound
<1>6. more \in Past(client)
  <2>1. <<>> \in Past(client) /\ <<>> \in OneUser
    BY <1>4, PastFacts DEF OneUser
  <2>2. results \in Past(client) /\ (client = "anthropic" => results \in OneUser)
    BY <1>4, <2>1, ResultsFacts
  <2>3. words \in Past(client) /\ (client = "anthropic" => words \in OneUser)
    BY <1>4, <2>1, UserSaysFacts
  <2>4. notes \in Past(client)
    BY <1>4, <2>1, SystemSaysFacts
  <2> HIDE DEF results, words, notes
  <2>5. Together(client, results, words) \in Past(client)
    BY <1>4, <2>2, <2>3, TogetherFacts
  <2>. QED
    BY <1>4, <2>4, <2>5, PastFacts
<1> HIDE DEF more
<1>7. next \in Reqs(client, s) /\ Heard(client, next) = Heard(client, request) \o InHistory(client, more)
  BY <1>4, <1>5, <1>6, MoreIsHeard
<1>8. InHistory(client, more) \in Seq(Things)
  BY <1>4, <1>6, PastFacts
<1> HIDE DEF next
<1>9. Typed'
  <2>1. said \o InHistory(client, more) \in Seq(Things)
    BY <1>4, <1>8, ConcatProperties
  <2>2. pending' \in Seq(Nat)
    BY <1>2
  <2>. QED
    BY <1>2, <1>3, <1>4, <2>1, <2>2 DEF Typed
<1>10. turn > 0
  BY <1>2 DEF ConvInv, Sound
<1>11. /\ request' \in Reqs(client, s)
       /\ (stateful /\ turn > 0) \/ SameThings(Heard(client, request'), said')
       /\ stateful => request'.previous
  <2>1. CASE stateful
    <3>1. client = "openai_responses" /\ request' = [next EXCEPT !.previous = TRUE]
      BY <1>3, <2>1 DEF ConvInv, Sound
    <3>. QED
      BY <1>7, <1>10, <2>1, <3>1, Continued
  <2>2. CASE ~stateful
    <3>1. SameThings(Heard(client, request), said)
      BY <2>2 DEF ConvInv, Sound
    <3>2. Heard(client, request) \in Seq(Things)
      BY <1>4, <1>5, SystemHeard
    <3>3. SameThings(InHistory(client, more), InHistory(client, more))
      BY SameFacts
    <3>4. SameThings(Heard(client, request) \o InHistory(client, more), said \o InHistory(client, more))
      BY <1>4, <1>8, <3>1, <3>2, <3>3, SameFacts
    <3>. QED
      BY <1>3, <1>7, <2>2, <3>4
  <2>. QED
    BY <2>1, <2>2
<1>12. Sound'
  <2>1. stateful' => client' = "openai_responses"
    BY <1>2 DEF ConvInv, Sound
  <2>2. \E t \in Settings(client') : request' \in Reqs(client', t)
    BY <1>2, <1>5, <1>11
  <2>3. (stateful' /\ turn' > 0) \/ SameThings(Heard(client', request'), said')
    BY <1>2, <1>11
  <2>4. stateful' => request'.previous
    BY <1>2, <1>11
  <2>5. ~JustAsked' /\ phase' # "answered"
    BY <1>2 DEF JustAsked
  <2>. QED
    BY <2>1, <2>2, <2>3, <2>4, <2>5 DEF Sound
<1>. QED
  BY <1>9, <1>12 DEF ConvInv

(* Stuttering changes nothing.                                             *)
LEMMA StayInv ==
    ASSUME ConvInv, UNCHANGED vars
    PROVE  ConvInv'
<1>1. /\ client' = client /\ stateful' = stateful /\ request' = request /\ upstream' = upstream
      /\ asked' = asked /\ said' = said /\ pending' = pending /\ turn' = turn
      /\ phase' = phase
  BY DEF vars
<1>2. Typed'
  BY <1>1 DEF ConvInv, Typed
<1>3. Sound'
  <2>1. \E s \in Settings(client') : request' \in Reqs(client', s)
    BY <1>1 DEF ConvInv, Sound
  <2>2. (stateful' /\ turn' > 0) \/ SameThings(Heard(client', request'), said')
    BY <1>1 DEF ConvInv, Sound
  <2>. QED
    BY <1>1, <2>1, <2>2 DEF ConvInv, Sound, JustAsked, Translated
<1>. QED
  BY <1>2, <1>3 DEF ConvInv

(* So every step does.                                                     *)
LEMMA StepInv ==
    ASSUME ConvInv, [Next]_vars
    PROVE  ConvInv'
<1>1. CASE Next
  BY <1>1, AskInv, RefuseInv, AnswerInv, ReplyInv DEF Next
<1>2. CASE UNCHANGED vars
  BY <1>2, StayInv
<1>. QED
  BY <1>1, <1>2

(* The invariant holds in every state of a conversation, whatever the      *)
(* default limit, the nesting of namespaces and the number of turns.       *)
THEOREM ConversationInvariant == Spec => []ConvInv
<1>1. Init => ConvInv
  BY InitInv
<1>2. ConvInv /\ [Next]_vars => ConvInv'
  BY StepInv
<1>. QED
  BY <1>1, <1>2, PTL DEF Spec

(* Every variable keeps its type: what is said stays words and calls, the  *)
(* pending calls stay numbers, the turns within MaxTurns.                  *)
THEOREM ConversationTyped == Spec => []TypeOK
<1>1. ConvInv => TypeOK
  <2> SUFFICES ASSUME ConvInv PROVE TypeOK
    OBVIOUS
  <2>1. \A i \in DOMAIN said : said[i].kind \in {"word", "tool"} /\ said[i].failed \in BOOLEAN
    <3>1. \A x \in Things : x.kind \in {"word", "tool"} /\ x.failed \in BOOLEAN
      BY DEF Things
    <3>2. said \in Seq(Things)
      BY DEF ConvInv, Typed
    <3>. QED
      BY <3>1, <3>2, ElementOfSeq
  <2>2. \A i \in DOMAIN pending : pending[i] \in Nat
    BY ElementOfSeq DEF ConvInv, Typed
  <2>3. turn \in 0..MaxTurns
    BY ConversationAssumption DEF ConvInv, Typed
  <2>. QED
    BY <2>1, <2>2, <2>3 DEF ConvInv, Typed, TypeOK
<1>. QED
  BY <1>1, ConversationInvariant, PTL

(* Through any number of turns and upstreams, Translator.Request lets an   *)
(* upstream hear everything that was said, once, in order, failed calls as *)
(* failed: what earlier translations of answers and requests made of it    *)
(* lost nothing.                                                           *)
THEOREM NothingIsLost == Spec => []NothingIsLostOnTheWay
<1>1. ConvInv => NothingIsLostOnTheWay
  <2> SUFFICES ASSUME ConvInv, JustAsked
               PROVE  SameThings(Heard(upstream, asked[upstream]), said)
    BY DEF NothingIsLostOnTheWay, SameThings
  <2>1. client \in Protocols /\ upstream \in Protocols
    BY DEF ConvInv, Typed
  <2>2. PICK s \in Settings(client) : request \in Reqs(client, s)
    BY DEF ConvInv, Sound
  <2>3. /\ asked[upstream] = TranslateRequest(client, upstream, request)
        /\ Translatable(client, upstream, request)
    BY DEF ConvInv, Sound
  <2>4. SameThings(Heard(upstream, asked[upstream]), Heard(client, request))
    BY <2>1, <2>2, <2>3, RequestTranslated
  <2>5. client = "openai_responses" => ~request.previous
    BY <2>3 DEF Translatable
  <2>6. SameThings(Heard(client, request), said)
    BY <2>5 DEF ConvInv, Sound, JustAsked
  <2>. QED
    BY <2>4, <2>6, SameFacts
<1>. QED
  BY <1>1, ConversationInvariant, PTL

-----------------------------------------------------------------------------
(***************************************************************************)
(* What limits and steers generation.                                      *)
(***************************************************************************)

Reader   == Function("read")
Hosted   == [type |-> "hosted"]
Package  == [type |-> "namespace", tools |-> <<Function("read")>>]
Toolset  == {Reader, Hosted, Package}
Unpacked == [t \in Toolset |-> IF t.type = "namespace" THEN t.tools ELSE <<t>>]

Unfolding(u, tools) ==
    u = [n \in 0..MaxNesting |->
            IF n = 0 THEN tools
            ELSE FlatMap(LAMBDA t : IF t.type = "namespace" THEN t.tools ELSE <<t>>, u[n - 1])]

(* The tools a client offers.                                              *)
LEMMA ToolsFacts ==
    /\ Reader.type = "function" /\ Reader.name = "read" /\ Hosted.type = "hosted"
    /\ Package.type = "namespace" /\ Package.tools = <<Reader>>
    /\ Function("read") = Reader
  BY DEF Reader, Hosted, Package, Function

(* What is added to the end of a sequence.                                 *)
LEMMA OneMore ==
    ASSUME NEW A, NEW s \in Seq(A), NEW y \in A
    PROVE  /\ Append(s, y) \in Seq(A) /\ Len(Append(s, y)) = Len(s) + 1
           /\ \A i \in 1..Len(s) : Append(s, y)[i] = s[i]
           /\ Append(s, y)[Len(s) + 1] = y
  OBVIOUS

(* What is added to a sequence of one.                                     *)
LEMMA SecondOne ==
    ASSUME NEW A, NEW y \in A, NEW s \in Seq(A), Len(s) = 1
    PROVE  /\ Append(s, y) \in Seq(A) /\ Len(Append(s, y)) = 2
           /\ Append(s, y)[1] = s[1] /\ Append(s, y)[2] = y
<1>1. /\ Append(s, y) \in Seq(A) /\ Len(Append(s, y)) = Len(s) + 1
      /\ \A i \in 1..Len(s) : Append(s, y)[i] = s[i]
      /\ Append(s, y)[Len(s) + 1] = y
  BY OneMore
<1>. QED
  BY <1>1

(* Pairs of tools.                                                         *)
LEMMA Pairs ==
    ASSUME NEW A, NEW x \in A, NEW y \in A
    PROVE  /\ <<x>> \in Seq(A) /\ <<x, y>> \in Seq(A)
           /\ Append(<<x>>, y) = <<x, y>> /\ <<x>> \o <<y>> = <<x, y>> /\ <<x>> \o <<>> = <<x>>
<1>1. <<x>> \in Seq(A) /\ <<x, y>> \in Seq(A)
  BY Tuples
<1>2. Append(<<x>>, y) = <<x, y>>
  <2> DEFINE a == <<x>>
             b == <<x, y>>
  <2>1. a \in Seq(A) /\ Len(a) = 1 /\ a[1] = x
    BY Tuples
  <2>2. b \in Seq(A) /\ Len(b) = 2 /\ b[1] = x /\ b[2] = y
    OBVIOUS
  <2> HIDE DEF a, b
  <2>3. /\ Append(a, y) \in Seq(A) /\ Len(Append(a, y)) = 2
        /\ Append(a, y)[1] = x /\ Append(a, y)[2] = y
    BY <2>1, SecondOne
  <2>4. \A i \in 1..2 : i = 1 \/ i = 2
    OBVIOUS
  <2>5. Append(a, y) = b
    BY <2>2, <2>3, <2>4, SeqEqual
  <2>. QED
    BY <2>5 DEF a, b
<1>3. <<x>> \o <<y>> = <<x, y>>
  BY <1>1, <1>2, AppendIsConcat
<1>4. <<x>> \o <<>> = <<x>>
  BY <1>1, ConcatEmptySeq
<1>. QED
  BY <1>1, <1>2, <1>3, <1>4

(* The hosted tool is left out.                                            *)
LEMMA OnlyReaders ==
    /\ OfType("function", <<Reader>>) = <<Reader>>
    /\ OfType("function", <<Reader, Hosted>>) = <<Reader>>
<1> DEFINE A == {Reader, Hosted}
           k == KeepType(A, "function")
<1>1. Reader \in A /\ Hosted \in A
  OBVIOUS
<1>2. k[Reader] = <<Reader>> /\ k[Hosted] = <<>> /\ \A s \in Seq(A) : OfType("function", s) = Mapped(k, s)
  <2>1. /\ \A c \in A : k[c] = IF c.type = "function" THEN <<c>> ELSE <<>>
        /\ \A s \in Seq(A) : OfType("function", s) = Mapped(k, s)
    BY OfTypeIsMapped
  <2> HIDE DEF k
  <2>. QED
    BY <1>1, <2>1, ToolsFacts
<1>3. IsMap(k, A, A)
  BY OfTypeIsMapped
<1> HIDE DEF A, k
<1>4. <<Reader>> \in Seq(A) /\ Append(<<Reader>>, Hosted) = <<Reader, Hosted>> /\ <<Reader, Hosted>> \in Seq(A)
  BY <1>1, Pairs
<1>5. Mapped(k, <<Reader>>) = <<Reader>>
  BY <1>1, <1>2, <1>3, MappedFacts
<1>6. Mapped(k, Append(<<Reader>>, Hosted)) = Mapped(k, <<Reader>>) \o k[Hosted]
  <2> DEFINE x == <<Reader>>
  <2>1. x \in Seq(A) /\ Hosted \in A
    BY <1>1, <1>4
  <2> HIDE DEF x
  <2>2. Mapped(k, Append(x, Hosted)) = Mapped(k, x) \o k[Hosted]
    BY <1>3, <2>1, MappedFacts
  <2>. QED
    BY <2>2 DEF x
<1>7. <<Reader>> \o <<>> = <<Reader>>
  BY <1>1, Pairs
<1>. QED
  BY <1>2, <1>4, <1>5, <1>6, <1>7

(* One round of unpacking namespaces, and a further one that changes       *)
(* nothing.                                                                *)
LEMMA UnpackedFacts ==
    /\ FlatMap(LAMBDA t : IF t.type = "namespace" THEN t.tools ELSE <<t>>, <<Package, Hosted>>) = <<Reader, Hosted>>
    /\ FlatMap(LAMBDA t : IF t.type = "namespace" THEN t.tools ELSE <<t>>, <<Reader, Hosted>>) = <<Reader, Hosted>>
<1>1. Reader \in Toolset /\ Hosted \in Toolset /\ Package \in Toolset
  BY DEF Toolset
<1>2. /\ Unpacked[Reader] = <<Reader>> /\ Unpacked[Hosted] = <<Hosted>> /\ Unpacked[Package] = <<Reader>>
  BY <1>1, ToolsFacts DEF Unpacked
<1>3. IsMap(Unpacked, Toolset, Toolset)
  <2>1. <<Reader>> \in Seq(Toolset) /\ <<Hosted>> \in Seq(Toolset)
    BY <1>1
  <2>. QED
    BY <1>2, <2>1 DEF IsMap, Toolset
<1>4. ASSUME NEW s \in Seq(Toolset)
      PROVE  FlatMap(LAMBDA t : IF t.type = "namespace" THEN t.tools ELSE <<t>>, s) = Mapped(Unpacked, s)
  <2>1. \A i \in DOMAIN s : s[i] \in Toolset
    BY ElementOfSeq, LenProperties
  <2>2. [i \in DOMAIN s |-> IF s[i].type = "namespace" THEN s[i].tools ELSE <<s[i]>>]
        = [i \in DOMAIN s |-> Unpacked[s[i]]]
    BY <2>1 DEF Unpacked
  <2>. QED
    BY <2>2 DEF FlatMap, MapSeq, Mapped
<1>5. ASSUME NEW x \in Toolset, Unpacked[x] = <<Reader>>
      PROVE  Mapped(Unpacked, <<x, Hosted>>) = <<Reader, Hosted>> /\ <<x, Hosted>> \in Seq(Toolset)
  <2>1. <<x>> \in Seq(Toolset) /\ Append(<<x>>, Hosted) = <<x, Hosted>> /\ <<x, Hosted>> \in Seq(Toolset)
    BY <1>1, Pairs
  <2>2. Mapped(Unpacked, <<x>>) = <<Reader>>
    BY <1>3, <1>5, MappedFacts
  <2>3. Mapped(Unpacked, Append(<<x>>, Hosted)) = Mapped(Unpacked, <<x>>) \o Unpacked[Hosted]
    <3> DEFINE y == <<x>>
    <3>1. y \in Seq(Toolset) /\ Hosted \in Toolset
      BY <1>1, <2>1
    <3> HIDE DEF y
    <3>2. Mapped(Unpacked, Append(y, Hosted)) = Mapped(Unpacked, y) \o Unpacked[Hosted]
      BY <1>3, <3>1, MappedFacts
    <3>. QED
      BY <3>2 DEF y
  <2>4. <<Reader>> \o <<Hosted>> = <<Reader, Hosted>>
    BY <1>1, Pairs
  <2>. QED
    BY <1>2, <2>1, <2>2, <2>3, <2>4
<1>. QED
  BY <1>1, <1>2, <1>4, <1>5

(* flattenResponsesTools: the function in the namespace is offered,        *)
(* however deep the code may look.                                         *)
LEMMA ToolsFlattened == FlattenTools(<<Package, Hosted>>) = MapSeq(LAMBDA t : t.name, <<Reader>>)
<1> DEFINE tools == <<Package, Hosted>>
           flat  == <<Reader, Hosted>>
           u == CHOOSE h : Unfolding(h, tools)
           v == [n \in 0..MaxNesting |-> IF n = 0 THEN tools ELSE flat]
<1>0. MaxNesting \in Nat /\ MaxNesting >= 1
  BY ConversationAssumption, CodecsAssumption
<1>1. FlattenTools(tools) = MapSeq(LAMBDA t : t.name, OfType("function", u[MaxNesting]))
  BY DEF FlattenTools, Unfolding
<1>2. /\ FlatMap(LAMBDA t : IF t.type = "namespace" THEN t.tools ELSE <<t>>, tools) = flat
      /\ FlatMap(LAMBDA t : IF t.type = "namespace" THEN t.tools ELSE <<t>>, flat) = flat
  BY UnpackedFacts
<1>3. OfType("function", flat) = <<Reader>>
  BY OnlyReaders
<1> HIDE DEF tools, flat
<1>4. Unfolding(v, tools)
  <2>1. ASSUME NEW n \in 0..MaxNesting
        PROVE  v[n] = IF n = 0 THEN tools
                      ELSE FlatMap(LAMBDA t : IF t.type = "namespace" THEN t.tools ELSE <<t>>, v[n - 1])
    <3>1. CASE n = 0
      BY <3>1
    <3>2. CASE n = 1
      <4>1. v[n - 1] = tools /\ v[n] = flat
        BY <1>0, <3>2
      <4>. QED
        BY <1>2, <3>2, <4>1
    <3>3. CASE n # 0 /\ n # 1
      <4>1. n - 1 \in 0..MaxNesting /\ n - 1 # 0
        BY <1>0, <3>3
      <4>2. v[n - 1] = flat /\ v[n] = flat
        BY <3>3, <4>1
      <4>. QED
        BY <1>2, <3>3, <4>2
    <3>. QED
      BY <3>1, <3>2, <3>3
  <2>. QED
    BY <2>1 DEF Unfolding
<1>5. Unfolding(u, tools)
  BY <1>4
<1> HIDE DEF u
<1>6. \A n \in 0..MaxNesting :
         u[n] = IF n = 0 THEN tools
                ELSE FlatMap(LAMBDA t : IF t.type = "namespace" THEN t.tools ELSE <<t>>, u[n - 1])
  BY <1>5 DEF Unfolding
<1> DEFINE T == {n \in 1..MaxNesting : u[n] # flat}
<1>7. T = {}
  <2> SUFFICES ASSUME T # {} PROVE FALSE
    OBVIOUS
  <2>1. PICK n \in T : \A m \in T : n <= m
    <3>1. T \in SUBSET Nat
      OBVIOUS
    <3> HIDE DEF T
    <3>. QED
      BY <3>1, Least
  <2>2. CASE n = 1
    <3>0. 0 \in 0..MaxNesting /\ 1 - 1 = 0
      BY <1>0
    <3>1. u[0] = tools /\ 1 - 1 = 0
      BY <1>6, <3>0
    <3>2. n \in 0..MaxNesting /\ n # 0 /\ u[n - 1] = tools
      BY <1>0, <2>2, <3>1
    <3>3. u[n] = flat
      BY <1>2, <1>6, <3>2
    <3>. QED
      BY <2>1, <3>3
  <2>3. CASE n # 1
    <3>1. n - 1 \in 1..MaxNesting /\ ~(n <= n - 1) /\ n \in 0..MaxNesting /\ n # 0
      BY <1>0, <2>1, <2>3
    <3>2. n - 1 \notin T
      <4> HIDE DEF T
      <4>. QED
        BY <2>1, <3>1
    <3>3. u[n - 1] = flat
      BY <3>1, <3>2
    <3>4. u[n] = flat
      BY <1>2, <1>6, <3>1, <3>3
    <3>. QED
      BY <2>1, <3>4
  <2>. QED
    BY <2>2, <2>3
<1>8. u[MaxNesting] = flat
  <2>1. MaxNesting \in 1..MaxNesting
    BY <1>0
  <2>. QED
    BY <1>7, <2>1
<1>. QED
  BY <1>1, <1>3, <1>8 DEF tools

(* What every request codec makes of the parameters.                       *)
LEMMA ParametersToIR ==
    ASSUME NEW p \in Protocols, NEW s \in Settings(p), NEW w \in Reqs(p, s)
    PROVE  LET r == RequestToIR(p, w)
           IN  /\ w.max = s.max /\ w.choice = s.choice /\ w.stream = s.stream
               /\ r.max = s.max /\ s.max \in Nat /\ r.stream = s.stream
               /\ r.choice = IF s.choice = "auto" THEN "auto" ELSE "named"
               /\ s.choice \in {"auto", "tool", "function"}
               /\ r.tools = <<"read">>
<1>1. w.tools = s.tools /\ w.choice = s.choice /\ w.max = s.max /\ w.stream = s.stream
  BY RequestTyped
<1>2. s.max \in Nat
  BY DEF Settings
<1>3. MapSeq(LAMBDA t : t.name, <<Reader>>) = <<"read">>
  BY ToolsFacts DEF MapSeq
<1>4. CASE p = "anthropic"
  <2>1. s.tools = <<Reader>> /\ s.choice \in {"auto", "tool"}
    BY <1>4 DEF Settings, Reader
  <2>2. RequestToIR(p, w) = AnthropicRequestToIR(w)
    BY <1>4 DEF RequestToIR
  <2>3. LET r == AnthropicRequestToIR(w)
        IN  /\ r.max = w.max /\ r.stream = w.stream
            /\ r.choice = CASE w.choice = "any"  -> "required"
                            [] w.choice = "tool" -> "named"
                            [] OTHER             -> w.choice
            /\ r.tools = MapSeq(LAMBDA t : t.name, w.tools)
    BY DEF AnthropicRequestToIR
  <2>. QED
    BY <1>1, <1>2, <1>3, <2>1, <2>2, <2>3
<1>5. CASE p = "openai_chat"
  <2>1. s.tools = <<Reader>> /\ s.choice \in {"auto", "function"}
    BY <1>5 DEF Settings, Reader
  <2>2. RequestToIR(p, w) = ChatRequestToIR(w)
    BY <1>5 DEF RequestToIR
  <2>3. LET r == ChatRequestToIR(w)
        IN  /\ r.max = w.max /\ r.stream = w.stream
            /\ r.choice = ChoiceToIR(w.choice)
            /\ r.tools = MapSeq(LAMBDA t : t.name, OfType("function", w.tools))
    BY DEF ChatRequestToIR
  <2>. QED
    BY <1>1, <1>2, <1>3, <2>1, <2>2, <2>3, OnlyReaders DEF ChoiceToIR
<1>6. CASE p = "openai_responses"
  <2>1. s.tools = <<Package, Hosted>> /\ s.choice \in {"auto", "function"}
    BY <1>6 DEF Settings, Package, Hosted
  <2>2. RequestToIR(p, w) = ResponsesRequestToIR(w)
    BY <1>6 DEF RequestToIR
  <2>3. LET r == ResponsesRequestToIR(w)
        IN  /\ r.max = w.max /\ r.stream = w.stream
            /\ r.choice = ChoiceToIR(w.choice)
            /\ r.tools = FlattenTools(w.tools)
    BY DEF ResponsesRequestToIR
  <2>. QED
    BY <1>1, <1>2, <1>3, <2>1, <2>2, <2>3, ToolsFlattened DEF ChoiceToIR
<1>. QED
  BY <1>4, <1>5, <1>6 DEF Protocols

(* And what every request codec makes of them for its upstream.            *)
LEMMA ParametersFromIR ==
    ASSUME NEW p \in Protocols, NEW r, r.choice \in {"auto", "named"},
           r.tools = <<"read">>
    PROVE  LET w == RequestFromIR(p, r)
           IN  /\ w.max = IF p = "anthropic" THEN MaxTokens(r) ELSE r.max
               /\ w.choice = IF r.choice = "auto" THEN "auto"
                             ELSE IF p = "anthropic" THEN "tool" ELSE "function"
               /\ w.tools = <<Function("read")>>
               /\ p = "openai_chat" => w.include_usage = r.stream
<1> DEFINE tools == MapSeq(LAMBDA t : [type |-> "function", name |-> t], r.tools)
<1>1. tools = <<Function("read")>>
  BY DEF MapSeq, Function
<1>2. CASE p = "anthropic"
  <2>1. RequestFromIR(p, r) = AnthropicRequestFromIR(r)
    BY <1>2 DEF RequestFromIR
  <2>2. LET w == AnthropicRequestFromIR(r)
        IN  /\ w.tools = tools /\ w.max = MaxTokens(r)
            /\ w.choice = CASE r.choice = "required" -> "any"
                            [] r.choice = "named"    -> "tool"
                            [] OTHER                 -> r.choice
    BY DEF AnthropicRequestFromIR
  <2> HIDE DEF tools
  <2>. QED
    BY <1>1, <1>2, <2>1, <2>2
<1>3. CASE p = "openai_chat"
  <2>1. RequestFromIR(p, r) = ChatRequestFromIR(r)
    BY <1>3 DEF RequestFromIR
  <2>2. LET w == ChatRequestFromIR(r)
        IN  /\ w.tools = tools /\ w.max = r.max /\ w.choice = ChatChoice(r.choice)
            /\ w.include_usage = r.stream
    BY DEF ChatRequestFromIR, IncludeUsage
  <2> HIDE DEF tools
  <2>. QED
    BY <1>1, <1>3, <2>1, <2>2 DEF ChatChoice
<1>4. CASE p = "openai_responses"
  <2>1. RequestFromIR(p, r) = ResponsesRequestFromIR(r)
    BY <1>4 DEF RequestFromIR
  <2>2. LET w == ResponsesRequestFromIR(r)
        IN  w.tools = tools /\ w.max = r.max /\ w.choice = ChatChoice(r.choice)
    BY DEF ResponsesRequestFromIR
  <2> HIDE DEF tools
  <2>. QED
    BY <1>1, <1>4, <2>1, <2>2 DEF ChatChoice
<1>. QED
  BY <1>2, <1>3, <1>4 DEF Protocols

(* Limits, the tools offered, those of a namespace included, the choice of *)
(* them and include_usage arrive, whatever Options.DefaultMaxTokens is: an *)
(* Anthropic upstream is never asked without a positive max_tokens.        *)
THEOREM ParametersReach == Spec => []ParametersArrive
<1>1. ConvInv => ParametersArrive
  <2> SUFFICES ASSUME ConvInv, JustAsked PROVE ParametersArrive
    BY DEF ParametersArrive
  <2>1. client \in Protocols /\ upstream \in Protocols
    BY DEF ConvInv, Typed
  <2>2. PICK s \in Settings(client) : request \in Reqs(client, s)
    BY DEF ConvInv, Sound
  <2> DEFINE r == RequestToIR(client, request)
             w == RequestFromIR(upstream, r)
  <2>3. /\ asked[upstream] = w /\ Expressible(upstream, r)
    BY DEF ConvInv, Sound, TranslateRequest, Translatable
  <2>4. /\ request.max = s.max /\ request.choice = s.choice /\ request.stream = s.stream
        /\ r.max = s.max /\ s.max \in Nat /\ r.stream = s.stream
        /\ r.choice = IF s.choice = "auto" THEN "auto" ELSE "named"
        /\ s.choice \in {"auto", "tool", "function"}
        /\ r.tools = <<"read">>
    BY <2>1, <2>2, ParametersToIR
  <2>5. Defaulted(client, upstream, request) = (upstream = "anthropic" /\ r.max = 0 /\ DefaultMaxTokens > 0)
    BY DEF Defaulted
  <2> HIDE DEF r
  <2>6. /\ w.max = IF upstream = "anthropic" THEN MaxTokens(r) ELSE r.max
        /\ w.choice = IF r.choice = "auto" THEN "auto"
                      ELSE IF upstream = "anthropic" THEN "tool" ELSE "function"
        /\ w.tools = <<Function("read")>>
        /\ upstream = "openai_chat" => w.include_usage = r.stream
    BY <2>1, <2>4, ParametersFromIR
  <2> HIDE DEF w
  <2>7. request.max > 0 => w.max = request.max
    BY <2>4, <2>6 DEF MaxTokens
  <2>8. upstream = "anthropic" => w.max > 0 /\ (Defaulted(client, upstream, request) = (w.max # request.max))
    <3> SUFFICES ASSUME upstream = "anthropic"
                 PROVE  w.max > 0 /\ (Defaulted(client, upstream, request) = (w.max # request.max))
      OBVIOUS
    <3>1. DefaultMaxTokens \in Nat
      BY CodecsAssumption
    <3>2. w.max = MaxTokens(r) /\ MaxTokens(r) > 0
      BY <2>3, <2>6 DEF Expressible
    <3>3. CASE r.max > 0
      <4>1. w.max = r.max /\ r.max # 0
        BY <2>4, <3>2, <3>3 DEF MaxTokens
      <4>2. ~Defaulted(client, upstream, request) /\ ~(w.max # request.max)
        BY <2>4, <2>5, <4>1
      <4>. QED
        BY <2>5, <3>2, <4>2
    <3>4. CASE ~(r.max > 0)
      <4>1. r.max = 0 /\ w.max = DefaultMaxTokens /\ DefaultMaxTokens > 0
        BY <2>4, <3>1, <3>2, <3>4 DEF MaxTokens
      <4>2. Defaulted(client, upstream, request) /\ w.max # request.max
        <5>1. Defaulted(client, upstream, request)
          BY <2>5, <4>1
        <5>2. w.max # 0 /\ request.max = 0
          BY <2>4, <3>1, <4>1
        <5>. QED
          BY <5>1, <5>2
      <4>. QED
        BY <2>5, <3>2, <4>2
    <3>. QED
      BY <3>3, <3>4
  <2>9. LET ir(choice) == CASE choice \in {"tool", "function"} -> "named"
                            [] OTHER -> choice
        IN  ir(w.choice) = ir(request.choice)
    BY <2>4, <2>6
  <2>10. upstream = "openai_chat" => w.include_usage = request.stream
    BY <2>4, <2>6
  <2>. QED
    BY <2>3, <2>6, <2>7, <2>8, <2>9, <2>10 DEF ParametersArrive
<1>. QED
  BY <1>1, ConversationInvariant, PTL

-----------------------------------------------------------------------------
(***************************************************************************)
(* What an upstream was sent stays as it was.                              *)
(***************************************************************************)

(* What is appended to a sequence leaves its beginning alone.              *)
LEMMA ConcatAt ==
    ASSUME NEW A, NEW s \in Seq(A), NEW t \in Seq(A)
    PROVE  /\ s \o t \in Seq(A) /\ Len(s) \in Nat /\ Len(t) \in Nat /\ Len(s \o t) = Len(s) + Len(t)
           /\ \A i \in 1..Len(s) : (s \o t)[i] = s[i]
           /\ \A i \in 1..Len(t) : (s \o t)[Len(s) + i] = t[i]
<1>1. Len(s) \in Nat /\ Len(t) \in Nat
  BY LenProperties
<1>2. /\ s \o t \in Seq(A) /\ Len(s \o t) = Len(s) + Len(t)
      /\ \A i \in 1..Len(s) + Len(t) : (s \o t)[i] = IF i <= Len(s) THEN s[i] ELSE t[i - Len(s)]
  BY ConcatProperties
<1>3. ASSUME NEW i \in 1..Len(s) PROVE (s \o t)[i] = s[i]
  <2>1. i \in 1..Len(s) + Len(t) /\ i <= Len(s)
    BY <1>1
  <2>. QED
    BY <1>2, <2>1
<1>4. ASSUME NEW i \in 1..Len(t) PROVE (s \o t)[Len(s) + i] = t[i]
  <2>1. Len(s) + i \in 1..Len(s) + Len(t) /\ ~(Len(s) + i <= Len(s)) /\ (Len(s) + i) - Len(s) = i
    BY <1>1
  <2>. QED
    BY <1>2, <2>1
<1>. QED
  BY <1>1, <1>2, <1>3, <1>4

(* The last element of a sequence made longer by one,                      *)
LEMMA AppendedLast ==
    ASSUME NEW A, NEW s \in Seq(A), NEW x \in A
    PROVE  Append(s, x) # <<>> /\ Front(Append(s, x)) = s /\ Last(Append(s, x)) = x
BY FrontLast

(* three in a row,                                                         *)
LEMMA ThreeConcat ==
    ASSUME NEW A, NEW a \in Seq(A), NEW b \in Seq(A), NEW c \in Seq(A)
    PROVE  (a \o b) \o c = a \o (b \o c)
BY ConcatAssociative

(* and the end of a concatenation.                                         *)
LEMMA ConcatLast ==
    ASSUME NEW A, NEW s \in Seq(A), NEW t \in Seq(A), t # <<>>
    PROVE  s \o t # <<>> /\ Last(s \o t) = Last(t) /\ Front(s \o t) = s \o Front(t)
<1>1. Front(t) \in Seq(A) /\ Last(t) \in A /\ t = Append(Front(t), Last(t))
  BY FrontLast
<1> DEFINE f == Front(t)
           l == Last(t)
<1> HIDE DEF f, l
<1>2. f \in Seq(A) /\ l \in A /\ t = Append(f, l)
  BY <1>1 DEF f, l
<1>3. s \o t = Append(s \o f, l)
  BY <1>2, AppendConcat
<1>4. s \o f \in Seq(A)
  BY <1>2, ConcatProperties
<1> DEFINE g == s \o f
<1> HIDE DEF g
<1>5. g \in Seq(A) /\ s \o t = Append(g, l)
  BY <1>3, <1>4 DEF g
<1>6. Append(g, l) # <<>> /\ Last(Append(g, l)) = l /\ Front(Append(g, l)) = g
  BY <1>2, <1>5, AppendedLast
<1>. QED
  BY <1>5, <1>6 DEF f, g, l

(* A prefix, position by position.                                         *)
LEMMA IsPrefixAt ==
    ASSUME NEW A, NEW s \in Seq(A), NEW t \in Seq(A), Len(s) <= Len(t), \A i \in 1..Len(s) : t[i] = s[i]
    PROVE  IsPrefix(s, t)
<1> DEFINE n == Len(s)
           u == SubSeq(t, 1, n)
<1>1. n \in Nat /\ Len(t) \in Nat
  BY LenProperties
<1>2. \A i \in 1..n : t[i] \in A
  BY ElementOfSeq
<1>3. /\ u \in Seq(A) /\ Len(u) = (IF 1 <= n THEN n - 1 + 1 ELSE 0)
      /\ \A i \in 1..n - 1 + 1 : u[i] = t[1 + i - 1]
  <2>1. 1 \in Int /\ n \in Int
    BY <1>1
  <2> HIDE DEF n
  <2>. QED
    BY <1>2, <2>1, SubSeqProperties DEF u
<1> HIDE DEF u
<1>4. Len(u) = n /\ \A i \in 1..n : u[i] = s[i]
  <2>1. Len(u) = n
    BY <1>1, <1>3
  <2>2. ASSUME NEW i \in 1..n PROVE u[i] = s[i]
    <3>1. i \in 1..n - 1 + 1 /\ 1 + i - 1 = i
      BY <1>1
    <3>. QED
      BY <1>3, <3>1
  <2>. QED
    BY <2>1, <2>2
<1>5. u = s
  BY <1>3, <1>4, SeqEqual
<1>6. SubSeq(s, 1, Len(s)) = s
  BY SubSeqFull
<1>. QED
  BY <1>5, <1>6 DEF IsPrefix, u

(* All but the last, position by position.                                 *)
LEMMA FrontAt ==
    ASSUME NEW A, NEW s \in Seq(A), s # <<>>
    PROVE  /\ Front(s) \in Seq(A) /\ Len(s) \in Nat /\ Len(s) > 0 /\ Len(Front(s)) = Len(s) - 1
           /\ \A i \in 1..Len(s) - 1 : Front(s)[i] = s[i]
           /\ Last(s) = s[Len(s)] /\ Last(s) \in A
<1> DEFINE f == Front(s)
           l == Last(s)
<1>1. f \in Seq(A) /\ l \in A /\ s = Append(f, l)
  BY FrontLast
<1>2. l = s[Len(s)]
  BY DEF Last
<1> HIDE DEF f, l
<1>3. Len(s) = Len(f) + 1 /\ \A i \in 1..Len(f) : s[i] = f[i]
  BY <1>1, AppendProperties
<1>4. Len(f) \in Nat
  BY <1>1, LenProperties
<1>5. Len(s) \in Nat /\ Len(s) > 0 /\ Len(f) = Len(s) - 1
  BY <1>3, <1>4
<1>. QED
  BY <1>1, <1>2, <1>3, <1>5 DEF f, l

(* Every message but the last is kept, and the last one at most lengthened. *)
Grown(a, b) ==
    a # <<>> => /\ Len(a) <= Len(b)
                /\ \A i \in 1..Len(a) - 1 : b[i] = a[i]
                /\ \E c \in Seq(ABlocks) : b[Len(a)].content = a[Len(a)].content \o c

(* A concatenation keeps what a request's history must.                    *)
LEMMA PrefixKept ==
    ASSUME NEW A, NEW a \in Seq(A), NEW c \in Seq(A), a # <<>>
    PROVE  Len(a) <= Len(a \o c) /\ IsPrefix(Front(a), a \o c) /\ (a \o c)[Len(a)] = Last(a)
<1> DEFINE b == a \o c
           f == Front(a)
<1>1. /\ b \in Seq(A) /\ Len(a) \in Nat /\ Len(c) \in Nat /\ Len(b) = Len(a) + Len(c)
      /\ \A i \in 1..Len(a) : b[i] = a[i]
  BY ConcatAt
<1>2. /\ f \in Seq(A) /\ Len(a) > 0 /\ Len(f) = Len(a) - 1
      /\ \A i \in 1..Len(a) - 1 : f[i] = a[i]
      /\ Last(a) = a[Len(a)]
  BY FrontAt
<1> HIDE DEF b, f
<1>3. Len(a) <= Len(b) /\ Len(f) <= Len(b) /\ Len(a) \in 1..Len(a)
  BY <1>1, <1>2
<1>4. \A i \in 1..Len(f) : b[i] = f[i]
  <2>1. \A i \in 1..Len(f) : i \in 1..Len(a) - 1 /\ i \in 1..Len(a)
    BY <1>1, <1>2
  <2>. QED
    BY <1>1, <1>2, <2>1
<1>5. IsPrefix(f, b)
  BY <1>1, <1>2, <1>3, <1>4, IsPrefixAt
<1>. QED
  BY <1>1, <1>2, <1>3, <1>5 DEF b, f

(* splitSystem of a longer sequence, once there is a message for it to     *)
(* stop at.                                                                *)
LEMMA SplitGrows ==
    ASSUME NEW M, NEW x \in Seq(M), NEW y \in Seq(M), \E i \in DOMAIN x : x[i].role # "system"
    PROVE  /\ SplitSystem(x).rest # <<>> /\ SplitSystem(x).rest[1].role # "system"
           /\ SplitSystem(x).system \in Seq(M) /\ SplitSystem(x).rest \in Seq(M)
           /\ SplitSystem(x \o y).system = SplitSystem(x).system
           /\ SplitSystem(x \o y).rest = SplitSystem(x).rest \o y
<1> DEFINE a == SplitSystem(x).system
           b == SplitSystem(x).rest
           c == SplitSystem(x \o y).system
           d == SplitSystem(x \o y).rest
<1>1. /\ a \in Seq(M) /\ b \in Seq(M) /\ a \o b = x /\ AllSystem(a)
      /\ b # <<>> => b[1].role # "system"
  BY SplitFacts
<1>2. x \o y \in Seq(M)
  BY ConcatProperties
<1>3. /\ c \in Seq(M) /\ d \in Seq(M) /\ c \o d = x \o y /\ AllSystem(c)
      /\ d # <<>> => d[1].role # "system"
  BY <1>2, SplitFacts
<1> HIDE DEF a, b, c, d
<1>4. b # <<>>
  <2> SUFFICES ASSUME b = <<>> PROVE FALSE
    OBVIOUS
  <2>1. a = x
    BY <1>1, ConcatEmptySeq
  <2>. QED
    BY <1>1, <2>1 DEF AllSystem
<1>5. b \o y \in Seq(M) /\ b \o y # <<>> /\ (b \o y)[1] = b[1]
  <2>1. /\ b \o y \in Seq(M) /\ Len(b) \in Nat /\ Len(y) \in Nat /\ Len(b \o y) = Len(b) + Len(y)
        /\ \A i \in 1..Len(b) : (b \o y)[i] = b[i]
    BY <1>1, ConcatAt
  <2>2. Len(b) > 0
    BY <1>1, <1>4, FrontAt
  <2>3. 1 \in 1..Len(b) /\ Len(b \o y) # 0
    BY <2>1, <2>2
  <2>4. b \o y # <<>>
    BY <2>3, EmptySeq
  <2>. QED
    BY <2>1, <2>3, <2>4
<1>6. a \o (b \o y) = c \o d
  <2>1. a \in Seq(M) /\ b \in Seq(M) /\ y \in Seq(M)
    BY <1>1
  <2>2. (a \o b) \o y = a \o (b \o y)
    BY ONLY <2>1, ThreeConcat, SMTT(60)
  <2>. QED
    BY <1>1, <1>3, <2>2
<1>7. (b \o y)[1].role # "system"
  BY <1>1, <1>4, <1>5
<1> DEFINE e == b \o y
<1>8. e \in Seq(M) /\ a \o e = c \o d /\ (e # <<>> => e[1].role # "system")
  BY <1>5, <1>6, <1>7
<1> HIDE DEF e
<1>9. a = c /\ e = d
  BY <1>1, <1>3, <1>8, SplitUnique
<1>. QED
  BY <1>1, <1>4, <1>9 DEF a, b, c, d, e

(* mergeAdjacentAnthropic keeps what it has with one message more,         *)
LEMMA GrownNext ==
    ASSUME NEW a \in Seq(AnyA), NEW b \in Seq(AnyA), Grown(a, b), NEW m \in AnyA
    PROVE  Grown(a, MergeNext(b, m))
<1> SUFFICES ASSUME a # <<>> PROVE Grown(a, MergeNext(b, m))
  BY DEF Grown
<1> DEFINE n == Len(a)
           k == Len(b)
<1>1. n \in Nat /\ n > 0 /\ k \in Nat /\ a[n] \in AnyA
  <2>1. Len(a) \in Nat /\ Len(a) > 0 /\ Last(a) = a[Len(a)] /\ Last(a) \in AnyA
    BY FrontAt
  <2>2. Len(b) \in Nat
    BY LenProperties
  <2>. QED
    BY <2>1, <2>2
<1>2. n <= k /\ \A i \in 1..n - 1 : b[i] = a[i]
  BY DEF Grown
<1>3. PICK c \in Seq(ABlocks) : b[n].content = a[n].content \o c
  BY DEF Grown
<1> HIDE DEF n, k
<1>4. CASE MergeNext(b, m) = Append(b, m)
  <2> DEFINE d == Append(b, m)
  <2>1. Len(d) = k + 1 /\ \A i \in 1..k : d[i] = b[i]
    BY AppendProperties DEF k
  <2> HIDE DEF d
  <2>2. \A i \in 1..n - 1 : i \in 1..k
    BY <1>1, <1>2
  <2>3. n \in 1..k /\ n <= Len(d)
    BY <1>1, <1>2, <2>1
  <2>4. (\A i \in 1..n - 1 : d[i] = a[i]) /\ d[n].content = a[n].content \o c
    BY <1>2, <1>3, <2>1, <2>2, <2>3
  <2>5. Grown(a, d)
    BY <2>3, <2>4 DEF Grown, n
  <2>. QED
    BY <1>4, <2>5 DEF d
<1>5. CASE /\ b # <<>> /\ Message(m.role, Last(b).content \o m.content) \in AnyA
           /\ MergeNext(b, m) = Append(Front(b), Message(m.role, Last(b).content \o m.content))
  <2> DEFINE f == Front(b)
             x == Message(m.role, Last(b).content \o m.content)
             d == Append(f, x)
  <2>1. f \in Seq(AnyA) /\ Len(f) = k - 1 /\ (\A i \in 1..k - 1 : f[i] = b[i]) /\ Last(b) = b[k]
    BY <1>5, FrontAt DEF k
  <2>2. x.content = b[k].content \o m.content
    BY <2>1 DEF Message
  <2>3. x \in AnyA
    BY <1>5
  <2>4. MergeNext(b, m) = d
    BY <1>5
  <2> HIDE DEF f, x
  <2>5. Len(d) = (k - 1) + 1 /\ (\A i \in 1..k - 1 : d[i] = f[i]) /\ d[(k - 1) + 1] = x
    BY <2>1, <2>3, AppendProperties
  <2> HIDE DEF d
  <2>6. Len(d) = k /\ d[k] = x /\ (\A i \in 1..k - 1 : d[i] = b[i])
    <3>1. (k - 1) + 1 = k
      BY <1>1
    <3>2. Len(d) = k /\ d[k] = x
      BY <2>5, <3>1
    <3>3. \A i \in 1..k - 1 : d[i] = b[i]
      BY <2>1, <2>5
    <3>. QED
      BY <3>2, <3>3
  <2>7. \A i \in 1..n - 1 : i \in 1..k - 1
    BY <1>1, <1>2
  <2>8. \A i \in 1..n - 1 : d[i] = a[i]
    BY <1>2, <2>6, <2>7
  <2>9. \E e \in Seq(ABlocks) : d[n].content = a[n].content \o e
    <3>1. CASE n = k
      <4> DEFINE p == a[n].content
                 q == m.content
      <4>1. p \in Seq(ABlocks) /\ q \in Seq(ABlocks)
        BY <1>1, AnyFacts
      <4>2. d[n].content = (p \o c) \o q
        BY <1>3, <2>2, <2>6, <3>1
      <4> HIDE DEF p, q
      <4>3. (p \o c) \o q = p \o (c \o q)
        BY <4>1, ThreeConcat
      <4>4. c \o q \in Seq(ABlocks)
        BY <4>1, ConcatProperties
      <4>. QED
        BY <4>2, <4>3, <4>4 DEF p
    <3>2. CASE n # k
      <4>1. n \in 1..k - 1
        BY <1>1, <1>2, <3>2
      <4>. QED
        BY <1>3, <2>6, <4>1
    <3>. QED
      BY <3>1, <3>2
  <2>10. Grown(a, d)
    BY <1>2, <2>6, <2>8, <2>9 DEF Grown, n
  <2>. QED
    BY <2>4, <2>10
<1>. QED
  BY <1>4, <1>5, MergeNextFacts

(* and so with any number,                                                 *)
LEMMA MergedGrows ==
    ASSUME NEW x \in Seq(AnyA)
    PROVE  \A y \in Seq(AnyA) : Grown(Merged(x), Merged(x \o y))
<1> DEFINE P == {y \in Seq(AnyA) : Grown(Merged(x), Merged(x \o y))}
<1>1. <<>> \in P
  <2> DEFINE a == Merged(x)
             none == <<>>
  <2>1. x \o <<>> = x /\ <<>> \in Seq(AnyA)
    BY ConcatEmptySeq, EmptySeq
  <2>2. a \in Seq(AnyA)
    BY MergedFacts
  <2> HIDE DEF a
  <2>3. none \in Seq(ABlocks)
    BY EmptySeq
  <2> HIDE DEF none
  <2>4. Grown(a, a)
    <3> SUFFICES ASSUME a # <<>> PROVE Grown(a, a)
      BY DEF Grown
    <3>1. Len(a) \in Nat /\ Last(a) \in AnyA /\ Last(a) = a[Len(a)]
      BY <2>2, FrontAt
    <3>2. a[Len(a)].content \in Seq(ABlocks)
      BY <3>1, AnyFacts
    <3>3. a[Len(a)].content \o none = a[Len(a)].content
      BY <3>2, ConcatEmptySeq DEF none
    <3>. QED
      BY <2>3, <3>1, <3>3 DEF Grown
  <2>. QED
    BY <2>1, <2>4 DEF a
<1>2. ASSUME NEW y \in Seq(AnyA), y \in P, NEW m \in AnyA PROVE Append(y, m) \in P
  <2>1. x \o y \in Seq(AnyA) /\ Append(y, m) \in Seq(AnyA)
    BY ConcatProperties, AppendProperties
  <2>2. x \o Append(y, m) = Append(x \o y, m)
    BY AppendConcat
  <2> DEFINE a == Merged(x)
             z == x \o y
             b == Merged(z)
  <2>3. a \in Seq(AnyA) /\ b \in Seq(AnyA) /\ Merged(Append(z, m)) = MergeNext(b, m)
    BY <2>1, MergedFacts
  <2>4. Grown(a, b)
    BY <1>2
  <2> HIDE DEF a, z, b
  <2>5. Grown(a, MergeNext(b, m))
    BY <2>3, <2>4, GrownNext
  <2>. QED
    BY <2>1, <2>2, <2>3, <2>5 DEF a, z
<1> HIDE DEF P
<1>3. Seq(AnyA) \subseteq P
  BY <1>1, <1>2, SeqInduction
<1>. QED
  BY <1>3 DEF P

(* as the property wants it.                                               *)
LEMMA GrownExtends ==
    ASSUME NEW a \in Seq(AnyA), NEW b \in Seq(AnyA), Grown(a, b), a # <<>>
    PROVE  Len(a) <= Len(b) /\ IsPrefix(Front(a), b) /\ IsPrefix(Last(a).content, b[Len(a)].content)
<1> DEFINE f == Front(a)
           p == Last(a).content
<1>1. /\ f \in Seq(AnyA) /\ Len(a) \in Nat /\ Len(a) > 0 /\ Len(f) = Len(a) - 1
      /\ \A i \in 1..Len(a) - 1 : f[i] = a[i]
      /\ Last(a) = a[Len(a)] /\ Last(a) \in AnyA
  BY FrontAt
<1>2. Len(b) \in Nat
  BY LenProperties
<1>3. Len(a) <= Len(b) /\ \A i \in 1..Len(a) - 1 : b[i] = a[i]
  BY DEF Grown
<1>4. PICK c \in Seq(ABlocks) : b[Len(a)].content = p \o c
  BY <1>1 DEF Grown
<1>5. p \in Seq(ABlocks)
  BY <1>1, AnyFacts
<1> HIDE DEF f, p
<1>6. Len(f) <= Len(b) /\ \A i \in 1..Len(f) : b[i] = f[i]
  BY <1>1, <1>2, <1>3
<1>7. IsPrefix(f, b)
  BY <1>1, <1>6, IsPrefixAt
<1>8. IsPrefix(p, p \o c)
  <2>1. /\ p \o c \in Seq(ABlocks) /\ Len(p) \in Nat /\ Len(c) \in Nat
        /\ Len(p \o c) = Len(p) + Len(c) /\ \A i \in 1..Len(p) : (p \o c)[i] = p[i]
    BY <1>5, ConcatAt
  <2> DEFINE q == p \o c
  <2>2. q \in Seq(ABlocks) /\ Len(p) <= Len(q) /\ \A i \in 1..Len(p) : q[i] = p[i]
    BY <2>1
  <2> HIDE DEF q
  <2>3. IsPrefix(p, q)
    BY <1>5, <2>2, IsPrefixAt
  <2>. QED
    BY <2>3 DEF q
<1>. QED
  BY <1>3, <1>4, <1>7, <1>8 DEF f, p

Starts(it, m) == \A out \in Seq(IRMessages) : AddItem(out, it) = Append(out, m)
Joins(it, cs) == \A out \in Seq(IRMessages) : AddItem(out, it) = AppendAssistant(out, cs)

(* An item that is not the assistant's starts a message of its own;        *)
LEMMA ItemStarts ==
    ASSUME NEW it \in RItems, it \notin AnsR
    PROVE  \E m \in IRMessages : /\ Starts(it, m) /\ m.role # "assistant"
                                 /\ it \notin DevR => m.role # "system"
<1>1. CASE it \in DevR
  <2> DEFINE c == ResponsesContentToIR(it.content)
             x == Message("system", c)
  <2>1. it.type = "message" /\ it.role = "developer" /\ it.content \in Seq(SaidR) /\ it.content \in Seq(PartR)
    BY <1>1, MessageItemFacts, MorePartsR
  <2>2. Starts(it, x)
    BY <2>1 DEF AddItem, Starts
  <2>3. c \in Seq(TextC)
    BY <2>1, ContentRToIR
  <2> HIDE DEF c
  <2>4. x \in IRMessages /\ x.role = "system"
    BY <2>3, MoreTypes, MessageFacts
  <2> HIDE DEF x
  <2>. QED
    BY <1>1, <2>2, <2>4
<1>2. CASE it \in UserR
  <2> DEFINE c == ResponsesContentToIR(it.content)
             x == Message("user", c)
  <2>1. it.type = "message" /\ it.role = "user" /\ it.content \in Seq(PartR)
    BY <1>2, MessageItemFacts, MorePartsR
  <2>2. Starts(it, x)
    BY <2>1 DEF AddItem, Starts
  <2>3. c \in Seq(UserC)
    BY <1>2, <2>1, ContentRToIR, MoreTypes
  <2> HIDE DEF c
  <2>4. x \in IRMessages /\ x.role = "user"
    BY <2>3, MoreTypes, MessageFacts
  <2> HIDE DEF x
  <2>. QED
    BY <2>2, <2>4
<1>3. CASE it \in OutR
  <2> DEFINE b == ToolResult(it.call, it.output, FALSE)
             cs == <<b>>
             x == Message("tool", cs)
  <2>1. it.type = "function_call_output" /\ it.call \in Nat /\ it.output \in Outs
    BY <1>3 DEF OutR
  <2>2. Starts(it, x)
    BY <2>1 DEF AddItem, Starts
  <2>3. b \in ResultC
    <3> DEFINE k == it.call
               o == it.output
               e == FALSE
    <3>1. k \in Nat /\ o \in Outs /\ e \in BOOLEAN /\ (e => ~o.json) /\ b = ToolResult(k, o, e)
      BY <2>1
    <3> HIDE DEF k, o, e, b
    <3>. QED
      BY <3>1, BlocksAre
  <2> HIDE DEF b
  <2>4. cs \in Seq(ResultC)
    BY <2>3, OneThing
  <2> HIDE DEF cs
  <2>5. x \in IRMessages /\ x.role = "tool"
    BY <2>4, MoreTypes, MessageFacts
  <2> HIDE DEF x
  <2>. QED
    BY <2>2, <2>5
<1>. QED
  BY <1>1, <1>2, <1>3 DEF RItems

(* the assistant's may join the one before (appendAssistant).              *)
LEMMA ItemJoins ==
    ASSUME NEW it \in AnsR
    PROVE  \E cs \in Seq(AssistantC) : Joins(it, cs)
<1>1. CASE it \in AsstR
  <2> DEFINE c == ResponsesContentToIR(it.content)
  <2>1. it.type = "message" /\ it.role = "assistant" /\ it.content \in Seq(SaidR) /\ it.content \in Seq(PartR)
    BY <1>1, MessageItemFacts, MorePartsR
  <2>2. Joins(it, c)
    BY <2>1 DEF AddItem, Joins
  <2>3. c \in Seq(AssistantC)
    BY <2>1, ContentRToIR, MoreTypes
  <2> HIDE DEF c
  <2>. QED
    BY <2>2, <2>3
<1>2. CASE it \in CallR
  <2> DEFINE a == ArgumentsOr(it.arguments, "{}")
             b == ToolUse(it.call, a)
             cs == <<b>>
  <2>1. it.type = "function_call" /\ it.call \in Nat /\ it.arguments \in Args
    BY <1>2 DEF CallR
  <2>2. Joins(it, cs)
    BY <2>1 DEF AddItem, Joins
  <2>3. a \in Args
    BY <2>1 DEF ArgumentsOr, Args
  <2> HIDE DEF a
  <2>4. b \in CallC
    BY <2>1, <2>3, BlocksAre
  <2> HIDE DEF b
  <2>5. cs \in Seq(AssistantC)
    BY <2>4, OneThing, MoreTypes
  <2> HIDE DEF cs
  <2>. QED
    BY <2>2, <2>5
<1>3. CASE it \in Reasonings
  <2> DEFINE raw == Raw("reasoning", it)
             t == it.summary
             sig == ""
             b == Thinking(t, sig, raw)
             cs == <<b>>
  <2>1. it.type = "reasoning" /\ t \in Texts
    BY <1>3 DEF Reasonings
  <2>2. Joins(it, cs)
    BY <2>1 DEF AddItem, ReasoningToIR, Joins
  <2>3. raw \in Raws /\ sig \in Marks
    BY <1>3 DEF Raw, Raws, Marks
  <2> HIDE DEF raw, t, sig
  <2>4. b \in ThinkC
    BY <2>1, <2>3, BlocksAre
  <2> HIDE DEF b
  <2>5. cs \in Seq(AssistantC)
    BY <2>4, OneThing DEF AssistantC
  <2> HIDE DEF cs
  <2>. QED
    BY <2>2, <2>5
<1>. QED
  BY <1>1, <1>2, <1>3 DEF AnsR

(* After a message that is not the assistant's, items do not reach back    *)
LEMMA AddItemAfter ==
    ASSUME NEW a \in Seq(IRMessages), a # <<>>, Last(a).role # "assistant",
           NEW b \in Seq(IRMessages), NEW it \in RItems
    PROVE  AddItem(a \o b, it) = a \o AddItem(b, it)
<1>1. a \o b \in Seq(IRMessages)
  BY ConcatProperties
<1>2. CASE it \notin AnsR
  <2>1. PICK m \in IRMessages : Starts(it, m)
    BY <1>2, ItemStarts
  <2>2. AddItem(a \o b, it) = Append(a \o b, m) /\ AddItem(b, it) = Append(b, m)
    BY <1>1, <2>1 DEF Starts
  <2>3. a \o Append(b, m) = Append(a \o b, m)
    BY AppendConcat
  <2>. QED
    BY <2>2, <2>3
<1>3. CASE it \in AnsR
  <2>1. PICK cs \in Seq(AssistantC) : Joins(it, cs)
    BY <1>3, ItemJoins
  <2>2. AddItem(a \o b, it) = AppendAssistant(a \o b, cs) /\ AddItem(b, it) = AppendAssistant(b, cs)
    BY <1>1, <2>1 DEF Joins
  <2>3. Message("assistant", cs) \in IRMessages
    BY MoreTypes
  <2>4. CASE b = <<>>
    <3>1. a \o b = a
      BY <2>4, ConcatEmptySeq
    <3>2. AppendAssistant(a, cs) = Append(a, Message("assistant", cs))
      BY DEF AppendAssistant
    <3>3. AppendAssistant(b, cs) = Append(b, Message("assistant", cs))
      BY <2>4 DEF AppendAssistant
    <3> DEFINE x == Message("assistant", cs)
    <3>4. x \in IRMessages
      BY <2>3
    <3> HIDE DEF x
    <3>5. a \o Append(b, x) = Append(a \o b, x)
      BY <3>4, AppendConcat
    <3>. QED
      BY <2>2, <3>1, <3>2, <3>3, <3>5 DEF x
  <2>5. CASE b # <<>>
    <3> DEFINE f == Front(b)
               l == Last(b)
    <3>1. a \o b # <<>> /\ Last(a \o b) = l /\ Front(a \o b) = a \o f
      BY <2>5, ConcatLast
    <3>2. f \in Seq(IRMessages) /\ l \in IRMessages
      BY <2>5, FrontLast
    <3> HIDE DEF f, l
    <3>3. CASE l.role = "assistant"
      <4> DEFINE x == Message("assistant", l.content \o cs)
      <4>1. AppendAssistant(a \o b, cs) = Append(a \o f, x)
        BY <3>1, <3>3 DEF AppendAssistant
      <4>2. AppendAssistant(b, cs) = Append(f, x)
        BY <2>5, <3>3 DEF AppendAssistant, f, l
      <4>3. x \in IRMessages
        <5>1. l.content \in Seq(AssistantC)
          BY <3>2, <3>3, IRMessageCases
        <5> DEFINE c == l.content \o cs
        <5>2. c \in Seq(AssistantC)
          BY <5>1, ConcatProperties
        <5> HIDE DEF c
        <5>3. Message("assistant", c) \in IRMessages
          BY <5>2, MoreTypes
        <5>. QED
          BY <5>3 DEF c
      <4> HIDE DEF x
      <4>4. a \o Append(f, x) = Append(a \o f, x)
        BY <3>2, <4>3, AppendConcat
      <4>. QED
        BY <2>2, <4>1, <4>2, <4>4
    <3>4. CASE l.role # "assistant"
      <4> DEFINE x == Message("assistant", cs)
      <4>1. AppendAssistant(a \o b, cs) = Append(a \o b, x)
        BY <3>1, <3>4 DEF AppendAssistant
      <4>2. AppendAssistant(b, cs) = Append(b, x)
        BY <3>4 DEF AppendAssistant, l
      <4>3. x \in IRMessages
        BY <2>3
      <4> HIDE DEF x
      <4>4. a \o Append(b, x) = Append(a \o b, x)
        BY <4>3, AppendConcat
      <4>. QED
        BY <2>2, <4>1, <4>2, <4>4
    <3>. QED
      BY <3>3, <3>4
  <2>. QED
    BY <2>4, <2>5
<1>. QED
  BY <1>2, <1>3

(* (the last item tells what the last message is),                         *)
LEMMA GatheredLast ==
    ASSUME NEW h \in Seq(RItems), h # <<>>, Last(h) \notin AnsR
    PROVE  Gathered(h) # <<>> /\ Last(Gathered(h)).role # "assistant"
<1> DEFINE f == Front(h)
           x == Last(h)
           g == Gathered(f)
<1>1. f \in Seq(RItems) /\ x \in RItems /\ h = Append(f, x)
  BY FrontLast
<1>2. x \notin AnsR
  OBVIOUS
<1> HIDE DEF f, x
<1>3. g \in Seq(IRMessages) /\ Gathered(h) = AddItem(g, x)
  BY <1>1, GatheredFacts
<1>4. PICK m \in IRMessages : Starts(x, m) /\ m.role # "assistant"
  BY <1>1, <1>2, ItemStarts
<1> HIDE DEF g
<1>5. Gathered(h) = Append(g, m)
  BY <1>3, <1>4 DEF Starts
<1>. QED
  BY <1>3, <1>4, <1>5, AppendedLast

(* and a longer input is the messages of its two parts.                    *)
LEMMA GatheredConcat ==
    ASSUME NEW h \in Seq(RItems), h # <<>>, Last(h) \notin AnsR
    PROVE  \A k \in Seq(RItems) : Gathered(h \o k) = Gathered(h) \o Gathered(k)
<1> DEFINE a == Gathered(h)
           P == {k \in Seq(RItems) : Gathered(h \o k) = a \o Gathered(k)}
<1>1. a \in Seq(IRMessages) /\ a # <<>> /\ Last(a).role # "assistant"
  BY GatheredFacts, GatheredLast
<1>2. <<>> \in P
  <2>1. h \o <<>> = h /\ <<>> \in Seq(RItems) /\ Gathered(<<>>) = <<>>
    BY ConcatEmptySeq, EmptySeq, GatheredFacts
  <2> HIDE DEF a
  <2>2. a \o <<>> = a
    BY <1>1, ConcatEmptySeq
  <2>. QED
    BY <2>1, <2>2 DEF a
<1> HIDE DEF a
<1>3. ASSUME NEW k \in Seq(RItems), k \in P, NEW x \in RItems PROVE Append(k, x) \in P
  <2> DEFINE b == Gathered(k)
             z == h \o k
  <2>1. z \in Seq(RItems) /\ Append(k, x) \in Seq(RItems)
    BY ConcatProperties, AppendProperties
  <2>2. h \o Append(k, x) = Append(z, x)
    BY AppendConcat
  <2>3. Gathered(z) = a \o b
    BY <1>3
  <2>4. b \in Seq(IRMessages) /\ Gathered(Append(k, x)) = AddItem(b, x)
    BY GatheredFacts
  <2> HIDE DEF b, z
  <2>5. Gathered(Append(z, x)) = AddItem(a \o b, x)
    BY <2>1, <2>3, GatheredFacts
  <2>6. AddItem(a \o b, x) = a \o AddItem(b, x)
    BY <1>1, <2>4, AddItemAfter
  <2>. QED
    BY <2>1, <2>2, <2>4, <2>5, <2>6
<1> HIDE DEF P
<1>4. Seq(RItems) \subseteq P
  BY <1>2, <1>3, SeqInduction
<1>. QED
  BY <1>4 DEF P, a

(* The messages a history of each protocol is turned into.                 *)
Turned(p, h) ==
    CASE p = "anthropic"        -> Each(AMToIR, h)
      [] p = "openai_chat"      -> Each(UMToIR, h)
      [] p = "openai_responses" -> Gathered(h)

Talks(msgs) == \E i \in DOMAIN msgs : msgs[i].role # "system"

(* Somebody has spoken, and it is not the assistant's turn that is last:   *)
(* what comes next becomes messages of its own.                            *)
Settled(p, h) ==
    /\ Talks(Turned(p, h))
    /\ p = "openai_responses" => h # <<>> /\ Last(h) \notin AnsR

(* They are messages of the IR,                                            *)
LEMMA TurnedFacts ==
    ASSUME NEW p \in Protocols, NEW h \in Past(p)
    PROVE  Turned(p, h) \in Seq(IRMessages)
<1>1. CASE p = "anthropic"
  <2>1. h \in Seq(AMessages)
    BY <1>1, PastFacts
  <2>2. h \in Seq(AnyA)
    BY <2>1, TypesFacts
  <2>3. Each(AMToIR, h) \in Seq(IRMessages)
    BY <2>1, <2>2, AMessagesToIR
  <2>. QED
    BY <1>1, <2>3 DEF Turned
<1>2. CASE p = "openai_chat"
  <2>1. h \in Seq(ChatMs)
    BY <1>2, PastFacts
  <2>2. Each(UMToIR, h) \in Seq(IRMessages)
    BY <2>1, UMToIRFacts, EachFacts
  <2>. QED
    BY <1>2, <2>2 DEF Turned
<1>3. CASE p = "openai_responses"
  <2>1. h \in Seq(RItems)
    BY <1>3, PastFacts
  <2>. QED
    BY <1>3, <2>1, GatheredFacts DEF Turned
<1>. QED
  BY <1>1, <1>2, <1>3 DEF Protocols

(* and those of a longer history follow them, once it has settled.         *)
LEMMA TurnedConcat ==
    ASSUME NEW p \in Protocols, NEW h \in Past(p), NEW k \in Past(p), Settled(p, h)
    PROVE  Turned(p, h \o k) = Turned(p, h) \o Turned(p, k)
<1>1. CASE p = "anthropic"
  <2>1. h \in Seq(AMessages) /\ k \in Seq(AMessages)
    BY <1>1, PastFacts
  <2>2. IsFcn(AMToIR, AMessages, IRMessages)
    BY AMToIRFacts
  <2>3. Each(AMToIR, h \o k) = Each(AMToIR, h) \o Each(AMToIR, k)
    BY <2>1, <2>2, EachConcat
  <2>. QED
    BY <1>1, <2>3 DEF Turned
<1>2. CASE p = "openai_chat"
  <2>1. h \in Seq(ChatMs) /\ k \in Seq(ChatMs)
    BY <1>2, PastFacts
  <2>2. IsFcn(UMToIR, ChatMs, IRMessages)
    BY UMToIRFacts
  <2>3. Each(UMToIR, h \o k) = Each(UMToIR, h) \o Each(UMToIR, k)
    BY <2>1, <2>2, EachConcat
  <2>. QED
    BY <1>2, <2>3 DEF Turned
<1>3. CASE p = "openai_responses"
  <2>1. h \in Seq(RItems) /\ k \in Seq(RItems)
    BY <1>3, PastFacts
  <2>2. h # <<>> /\ Last(h) \notin AnsR
    BY <1>3 DEF Settled
  <2>3. Gathered(h \o k) = Gathered(h) \o Gathered(k)
    BY <2>1, <2>2, GatheredConcat
  <2>. QED
    BY <1>3, <2>3 DEF Turned
<1>. QED
  BY <1>1, <1>2, <1>3 DEF Protocols

(* A conversation in which somebody has spoken is one still when it is     *)
(* longer.                                                                 *)
LEMMA TalksOn ==
    ASSUME NEW a \in Seq(IRMessages), NEW b \in Seq(IRMessages), Talks(a)
    PROVE  Talks(a \o b)
<1>1. /\ a \o b \in Seq(IRMessages) /\ Len(a) \in Nat /\ Len(b) \in Nat /\ Len(a \o b) = Len(a) + Len(b)
      /\ \A i \in 1..Len(a) : (a \o b)[i] = a[i]
  BY ConcatAt
<1>2. DOMAIN a = 1..Len(a) /\ DOMAIN (a \o b) = 1..Len(a \o b)
  BY <1>1, LenProperties
<1>3. PICK i \in DOMAIN a : a[i].role # "system"
  BY DEF Talks
<1>4. i \in DOMAIN (a \o b) /\ (a \o b)[i] = a[i]
  BY <1>1, <1>2
<1>. QED
  BY <1>3, <1>4 DEF Talks

(* Histories in a row.                                                     *)
LEMMA PastAssociates ==
    ASSUME NEW p \in Protocols, NEW h \in Past(p), NEW k \in Past(p), NEW m \in Past(p)
    PROVE  (h \o k) \o m = h \o (k \o m)
<1>1. CASE p = "anthropic"
  <2>1. h \in Seq(AMessages) /\ k \in Seq(AMessages) /\ m \in Seq(AMessages)
    BY <1>1, PastFacts
  <2>. QED
    BY ONLY <2>1, ThreeConcat
<1>2. CASE p = "openai_chat"
  <2>1. h \in Seq(ChatMs) /\ k \in Seq(ChatMs) /\ m \in Seq(ChatMs)
    BY <1>2, PastFacts
  <2>. QED
    BY ONLY <2>1, ThreeConcat
<1>3. CASE p = "openai_responses"
  <2>1. h \in Seq(RItems) /\ k \in Seq(RItems) /\ m \in Seq(RItems)
    BY <1>3, PastFacts
  <2>. QED
    BY ONLY <2>1, ThreeConcat
<1>. QED
  BY <1>1, <1>2, <1>3 DEF Protocols

(* A settled history that ends with the client's words is settled again.   *)
LEMMA SettledOn ==
    ASSUME NEW p \in Protocols, NEW h \in Past(p), NEW k \in Past(p), NEW m \in Past(p),
           Settled(p, h), p = "openai_responses" => m # <<>> /\ Last(m) \notin AnsR
    PROVE  Settled(p, (h \o k) \o m)
<1>1. k \o m \in Past(p) /\ h \o k \in Past(p)
  BY PastFacts
<1>2. (h \o k) \o m = h \o (k \o m)
  BY PastAssociates
<1>3. Talks(Turned(p, (h \o k) \o m))
  <2> DEFINE g == k \o m
  <2>1. g \in Past(p)
    BY <1>1
  <2> HIDE DEF g
  <2>2. Turned(p, h \o g) = Turned(p, h) \o Turned(p, g)
    BY <2>1, TurnedConcat
  <2>3. Turned(p, h) \in Seq(IRMessages) /\ Turned(p, g) \in Seq(IRMessages)
    BY <2>1, TurnedFacts
  <2>4. Talks(Turned(p, h) \o Turned(p, g))
    BY <2>3, TalksOn DEF Settled
  <2>. QED
    BY <1>2, <2>2, <2>4 DEF g
<1>4. ASSUME p = "openai_responses"
      PROVE  (h \o k) \o m # <<>> /\ Last((h \o k) \o m) \notin AnsR
  <2> DEFINE g == h \o k
  <2>1. g \in Seq(RItems) /\ m \in Seq(RItems) /\ m # <<>> /\ Last(m) \notin AnsR
    BY <1>1, <1>4, PastFacts
  <2> HIDE DEF g
  <2>2. g \o m # <<>> /\ Last(g \o m) = Last(m)
    BY <2>1, ConcatLast
  <2>. QED
    BY <2>1, <2>2 DEF g
<1>. QED
  BY <1>3, <1>4 DEF Settled

-----------------------------------------------------------------------------
(***************************************************************************)
(* A longer history: the same system, and more messages.                   *)
(***************************************************************************)

(* A request with another history.                                         *)
LEMMA HistorySet ==
    ASSUME NEW q \in Protocols, NEW s, NEW w \in Reqs(q, s), NEW h \in Past(q)
    PROVE  LET v == WithHistory(q, w, h)
           IN  /\ v \in Reqs(q, s)
               /\ q = "anthropic" => v.messages = h /\ v.system = w.system
               /\ q = "openai_chat" => v.messages = h
               /\ q = "openai_responses" => v.input = h /\ v.instructions = w.instructions
<1>1. WithHistory(q, w, h) \in Reqs(q, s) /\ History(q, WithHistory(q, w, h)) = h
  BY HistoryReplaced
<1>2. CASE q = "anthropic"
  <2>1. WithHistory(q, w, h) = [w EXCEPT !.messages = h]
    BY <1>2 DEF WithHistory
  <2>2. [w EXCEPT !.messages = h].system = w.system
    BY <1>2 DEF Reqs
  <2>. QED
    BY <1>1, <1>2, <2>1, <2>2 DEF History
<1>3. CASE q = "openai_chat"
  BY <1>1, <1>3 DEF History
<1>4. CASE q = "openai_responses"
  <2>1. WithHistory(q, w, h) = [w EXCEPT !.input = h]
    BY <1>4 DEF WithHistory
  <2>2. [w EXCEPT !.input = h].instructions = w.instructions
    BY <1>4 DEF Reqs
  <2>. QED
    BY <1>1, <1>4, <2>1, <2>2 DEF History
<1>. QED
  BY <1>1, <1>2, <1>3, <1>4 DEF Protocols

(* ToIR of a longer history: the same system, and more messages.           *)
LEMMA GrowsInIR ==
    ASSUME NEW q \in Protocols, NEW s, NEW w \in Reqs(q, s), NEW h \in Past(q), NEW k \in Past(q),
           Settled(q, h), History(q, w) = h \o k
    PROVE  LET old == RequestToIR(q, WithHistory(q, w, h))
               new == RequestToIR(q, w)
           IN  /\ old.system \in Seq(TextC) /\ old.messages \in Seq(IRMessages)
               /\ new.system = old.system /\ Talks(old.messages)
               /\ Turned(q, k) \in Seq(IRMessages) /\ new.messages = old.messages \o Turned(q, k)
<1> DEFINE v == WithHistory(q, w, h)
           old == RequestToIR(q, v)
           new == RequestToIR(q, w)
<1>1. /\ v \in Reqs(q, s)
      /\ q = "anthropic" => v.messages = h /\ v.system = w.system
      /\ q = "openai_chat" => v.messages = h
      /\ q = "openai_responses" => v.input = h /\ v.instructions = w.instructions
  BY HistorySet
<1> HIDE DEF v
<1>2. old.system \in Seq(TextC) /\ old.messages \in Seq(IRMessages)
  BY <1>1, RequestsToIR
<1>3. Turned(q, h) \in Seq(IRMessages) /\ Turned(q, k) \in Seq(IRMessages)
  BY TurnedFacts
<1>4. Turned(q, h \o k) = Turned(q, h) \o Turned(q, k) /\ Talks(Turned(q, h))
  BY TurnedConcat DEF Settled
<1>5. CASE q = "anthropic"
  <2>1. w.system \in Seq(TextA) /\ w.messages \in Seq(AnyA) /\ w.messages = h \o k
    BY <1>5, RequestTyped, TypesFacts DEF History
  <2>2. v.system \in Seq(TextA) /\ v.messages \in Seq(AnyA)
    BY <1>1, <1>5, RequestTyped, TypesFacts
  <2>3. new.messages = Each(AMToIR, w.messages) /\ new.system = Each(AToIR, w.system)
    BY <1>5, <2>1, AToIRRequest DEF RequestToIR
  <2>4. old.messages = Each(AMToIR, v.messages) /\ old.system = Each(AToIR, v.system)
    BY <1>5, <2>2, AToIRRequest DEF RequestToIR
  <2>5. new.messages = Turned(q, h \o k) /\ old.messages = Turned(q, h)
    BY <1>1, <1>5, <2>1, <2>3, <2>4 DEF Turned
  <2>6. new.system = old.system
    BY <1>1, <1>5, <2>3, <2>4
  <2>. QED
    BY <1>2, <1>3, <1>4, <2>5, <2>6 DEF v
<1>6. CASE q = "openai_chat"
  <2>1. w.messages \in Seq(ChatMs) /\ w.messages = h \o k
    BY <1>6, RequestTyped DEF History
  <2>2. v.messages \in Seq(ChatMs) /\ v.messages = h
    BY <1>1, <1>6, RequestTyped
  <2> DEFINE x == Each(UMToIR, w.messages)
             y == Each(UMToIR, v.messages)
             m == Turned(q, k)
  <2>3. new.system = ContentOf(SplitSystem(x).system) /\ new.messages = SplitSystem(x).rest
    BY <1>6, <2>1, UToIRRequest DEF RequestToIR
  <2>4. old.system = ContentOf(SplitSystem(y).system) /\ old.messages = SplitSystem(y).rest
    BY <1>6, <2>2, UToIRRequest DEF RequestToIR
  <2>5. x = y \o m /\ y \in Seq(IRMessages) /\ m \in Seq(IRMessages) /\ Talks(y)
    BY <1>3, <1>4, <1>6, <2>1, <2>2 DEF Turned
  <2> HIDE DEF x, y, m
  <2>6. \E i \in DOMAIN y : y[i].role # "system"
    BY <2>5 DEF Talks
  <2>7. /\ SplitSystem(y).rest # <<>> /\ SplitSystem(y).rest[1].role # "system"
        /\ SplitSystem(y \o m).system = SplitSystem(y).system
        /\ SplitSystem(y \o m).rest = SplitSystem(y).rest \o m
    BY <2>5, <2>6, SplitGrows
  <2>8. new.system = old.system /\ new.messages = old.messages \o m
    BY <2>3, <2>4, <2>5, <2>7
  <2>9. Talks(old.messages)
    <3> DEFINE a == old.messages
    <3>1. a \in Seq(IRMessages) /\ a # <<>> /\ a[1].role # "system"
      BY <1>2, <2>4, <2>7
    <3> HIDE DEF a
    <3>2. Len(a) \in Nat /\ Len(a) > 0 /\ DOMAIN a = 1..Len(a)
      BY <3>1, FrontAt, LenProperties
    <3>3. 1 \in DOMAIN a
      BY <3>2
    <3>4. Talks(a)
      BY <3>1, <3>3 DEF Talks
    <3>. QED
      BY <3>4 DEF a
  <2>. QED
    BY <1>2, <1>3, <2>8, <2>9 DEF m, v
<1>7. CASE q = "openai_responses"
  <2>1. w.input \in Seq(RItems) /\ w.instructions \in Texts /\ w.input = h \o k
    BY <1>7, RequestTyped DEF History
  <2>2. v.input \in Seq(RItems) /\ v.instructions \in Texts
    BY <1>1, <1>7, RequestTyped
  <2>3. new.messages = Gathered(w.input)
    BY <1>7, <2>1, RToIRRequest DEF RequestToIR
  <2>4. old.messages = Gathered(v.input)
    BY <1>7, <2>2, RToIRRequest DEF RequestToIR
  <2>5. new.messages = Turned(q, h \o k) /\ old.messages = Turned(q, h)
    BY <1>1, <1>7, <2>1, <2>3, <2>4 DEF Turned
  <2>6. new.system = old.system
    BY <1>1, <1>7 DEF RequestToIR, ResponsesRequestToIR
  <2>. QED
    BY <1>2, <1>3, <1>4, <2>5, <2>6 DEF v
<1>. QED
  BY <1>5, <1>6, <1>7 DEF Protocols

(* A longer history extends a shorter,                                     *)
LEMMA LongerExtends ==
    ASSUME NEW p, NEW A, NEW old, NEW new, NEW c \in Seq(A), History(p, old) \in Seq(A),
           History(p, new) = History(p, old) \o c, InSystem(p, old) = InSystem(p, new)
    PROVE  Extends(p, old, new)
<1> DEFINE a == History(p, old)
           b == History(p, new)
<1>1. a \in Seq(A) /\ b = a \o c
  OBVIOUS
<1> HIDE DEF a, b
<1>2. a # <<>> => Len(a) <= Len(b) /\ IsPrefix(Front(a), b) /\ b[Len(a)] = Last(a)
  BY <1>1, PrefixKept
<1>. QED
  BY <1>2 DEF Extends, a, b

(* as Chat's does,                                                         *)
LEMMA GrowsInChat ==
    ASSUME NEW r, NEW t, r.system \in Seq(TextC), r.messages \in Seq(IRMessages), t.system = r.system,
           NEW m \in Seq(IRMessages), t.messages = r.messages \o m
    PROVE  Extends("openai_chat", ChatRequestFromIR(r), ChatRequestFromIR(t))
<1> DEFINE p   == "openai_chat"
           old == ChatRequestFromIR(r)
           new == ChatRequestFromIR(t)
           s   == IF r.system = <<>> THEN <<>> ELSE <<ChatMsg("system", AsString(JoinText(r.system)))>>
           x   == Mapped(UMFromIR, r.messages)
           y   == Mapped(UMFromIR, m)
<1>1. t.system \in Seq(TextC) /\ t.messages \in Seq(IRMessages)
  BY ConcatProperties
<1>2. old.messages = s \o x /\ s \in Seq(ChatMs) /\ x \in Seq(ChatMs) /\ old.messages \in Seq(ChatMs)
  BY UFromIRRequest
<1>3. new.messages = s \o Mapped(UMFromIR, t.messages)
  BY <1>1, UFromIRRequest
<1>4. IsMap(UMFromIR, IRMessages, ChatMs)
  BY UMFromIRFacts
<1>5. y \in Seq(ChatMs) /\ Mapped(UMFromIR, t.messages) = x \o y
  BY <1>4, MappedFacts, MappedConcat
<1>6. InSystem(p, old) = InSystem(p, new) /\ History(p, old) = old.messages /\ History(p, new) = new.messages
  BY DEF InSystem, History
<1> HIDE DEF p, old, new, s, x, y
<1>7. s \o (x \o y) = (s \o x) \o y
  BY ONLY <1>2, <1>5, ThreeConcat
<1>8. History(p, new) = History(p, old) \o y /\ History(p, old) \in Seq(ChatMs)
  BY <1>2, <1>3, <1>5, <1>6, <1>7
<1>9. Extends(p, old, new)
  BY <1>5, <1>6, <1>8, LongerExtends
<1>. QED
  BY <1>9 DEF p, old, new

(* Responses' items                                                        *)
LEMMA GrowsInItems ==
    ASSUME NEW r, NEW t, r.system \in Seq(TextC), r.messages \in Seq(IRMessages), t.system = r.system,
           NEW m \in Seq(IRMessages), t.messages = r.messages \o m
    PROVE  Extends("openai_responses", ResponsesRequestFromIR(r), ResponsesRequestFromIR(t))
<1> DEFINE p   == "openai_responses"
           old == ResponsesRequestFromIR(r)
           new == ResponsesRequestFromIR(t)
           x   == Mapped(RMFromIR, r.messages)
           y   == Mapped(RMFromIR, m)
<1>1. t.system \in Seq(TextC) /\ t.messages \in Seq(IRMessages)
  BY ConcatProperties
<1>2. old.input = x /\ x \in Seq(RItems) /\ old.instructions = JoinText(r.system)
  BY RFromIRRequest
<1>3. new.input = Mapped(RMFromIR, t.messages) /\ new.instructions = JoinText(t.system)
  BY <1>1, RFromIRRequest
<1>4. IsMap(RMFromIR, IRMessages, RItems)
  BY RMFromIRFacts
<1>5. y \in Seq(RItems) /\ Mapped(RMFromIR, t.messages) = x \o y
  BY <1>4, MappedFacts, MappedConcat
<1>6. InSystem(p, old) = InSystem(p, new) /\ History(p, old) = old.input /\ History(p, new) = new.input
  BY <1>2, <1>3 DEF InSystem, History
<1> HIDE DEF p, old, new, x, y
<1>7. History(p, new) = History(p, old) \o y /\ History(p, old) \in Seq(RItems)
  BY <1>2, <1>3, <1>5, <1>6
<1>8. Extends(p, old, new)
  BY <1>5, <1>6, <1>7, LongerExtends
<1>. QED
  BY <1>8 DEF p, old, new

(* and Anthropic's merged messages.                                        *)
LEMMA GrowsInAnthropic ==
    ASSUME NEW r, NEW t, r.system \in Seq(TextC), r.messages \in Seq(IRMessages), t.system = r.system,
           NEW m \in Seq(IRMessages), t.messages = r.messages \o m, Talks(r.messages)
    PROVE  Extends("anthropic", AnthropicRequestFromIR(r), AnthropicRequestFromIR(t))
<1> DEFINE p   == "anthropic"
           old == AnthropicRequestFromIR(r)
           new == AnthropicRequestFromIR(t)
           x   == SplitSystem(r.messages).rest
           u   == Each(AMFromIR, x)
           v   == Each(AMFromIR, m)
<1>1. t.system \in Seq(TextC) /\ t.messages \in Seq(IRMessages)
  BY ConcatProperties
<1>2. \E i \in DOMAIN r.messages : r.messages[i].role # "system"
  BY DEF Talks
<1>3. /\ x \in Seq(IRMessages)
      /\ SplitSystem(t.messages).system = SplitSystem(r.messages).system
      /\ SplitSystem(t.messages).rest = x \o m
  BY <1>2, SplitGrows
<1>4. /\ old.messages = Merged(u)
      /\ old.system = Each(TextToA, r.system \o ContentOf(SplitSystem(r.messages).system))
  BY AFromIRRequest
<1>5. /\ new.messages = Merged(Each(AMFromIR, SplitSystem(t.messages).rest))
      /\ new.system = Each(TextToA, t.system \o ContentOf(SplitSystem(t.messages).system))
  BY <1>1, AFromIRRequest
<1>6. new.system = old.system
  BY <1>3, <1>4, <1>5
<1>7. InSystem(p, old) = InSystem(p, new) /\ History(p, old) = old.messages /\ History(p, new) = new.messages
  BY <1>6 DEF InSystem, History
<1>8. x \in Seq(AnyIR) /\ m \in Seq(AnyIR)
  BY <1>3, TypesFacts
<1> HIDE DEF x
<1>9. u \in Seq(AnyA) /\ v \in Seq(AnyA) /\ Each(AMFromIR, x \o m) = u \o v
  <2>1. IsFcn(AMFromIR, AnyIR, AnyA)
    BY AMFromIRFacts
  <2>. QED
    BY <1>8, <2>1, EachFacts, EachConcat
<1> HIDE DEF u, v, p, old, new
<1>10. History(p, old) = Merged(u) /\ History(p, new) = Merged(u \o v)
  BY <1>3, <1>4, <1>5, <1>7, <1>9
<1> DEFINE a == Merged(u)
           b == Merged(u \o v)
<1>11. a \in Seq(AnyA) /\ b \in Seq(AnyA) /\ Grown(a, b)
  <2>1. u \o v \in Seq(AnyA)
    BY <1>9, ConcatProperties
  <2>. QED
    BY <1>9, <2>1, MergedFacts, MergedGrows
<1> HIDE DEF a, b
<1>12. a # <<>> => /\ Len(a) <= Len(b) /\ IsPrefix(Front(a), b)
                   /\ IsPrefix(Last(a).content, b[Len(a)].content)
  BY <1>11, GrownExtends
<1>13. Extends(p, old, new)
  BY <1>7, <1>10, <1>12 DEF Extends, a, b, p
<1>. QED
  BY <1>13 DEF p, old, new

(* Translator.Request: a longer history, translated, extends its           *)
(* beginning, translated.                                                  *)
LEMMA TranslationGrows ==
    ASSUME NEW p \in Protocols, NEW q \in Protocols, NEW s, NEW w \in Reqs(q, s),
           NEW h \in Past(q), NEW k \in Past(q), Settled(q, h), History(q, w) = h \o k
    PROVE  Extends(p, TranslateRequest(q, p, WithHistory(q, w, h)), TranslateRequest(q, p, w))
<1> DEFINE old == RequestToIR(q, WithHistory(q, w, h))
           new == RequestToIR(q, w)
           m   == Turned(q, k)
<1>1. /\ old.system \in Seq(TextC) /\ old.messages \in Seq(IRMessages)
      /\ new.system = old.system /\ Talks(old.messages)
      /\ m \in Seq(IRMessages) /\ new.messages = old.messages \o m
  BY GrowsInIR
<1> HIDE DEF old, new, m
<1>2. Extends(p, RequestFromIR(p, old), RequestFromIR(p, new))
  <2>1. CASE p = "anthropic"
    <3>1. Extends("anthropic", AnthropicRequestFromIR(old), AnthropicRequestFromIR(new))
      BY <1>1, GrowsInAnthropic
    <3>. QED
      BY <2>1, <3>1 DEF RequestFromIR
  <2>2. CASE p = "openai_chat"
    <3>1. Extends("openai_chat", ChatRequestFromIR(old), ChatRequestFromIR(new))
      BY <1>1, GrowsInChat
    <3>. QED
      BY <2>2, <3>1 DEF RequestFromIR
  <2>3. CASE p = "openai_responses"
    <3>1. Extends("openai_responses", ResponsesRequestFromIR(old), ResponsesRequestFromIR(new))
      BY <1>1, GrowsInItems
    <3>. QED
      BY <2>3, <3>1 DEF RequestFromIR
  <2>. QED
    BY <2>1, <2>2, <2>3 DEF Protocols
<1>. QED
  BY <1>2 DEF old, new, TranslateRequest

(* The history set twice, and to what it is.                               *)
LEMMA HistoryReset ==
    ASSUME NEW q \in Protocols, NEW s, NEW w \in Reqs(q, s), NEW x \in Past(q), NEW h \in Past(q)
    PROVE  /\ WithHistory(q, WithHistory(q, w, x), h) = WithHistory(q, w, h)
           /\ WithHistory(q, w, History(q, w)) = w
<1>1. CASE q = "openai_responses"
  <2>1. \A v, g : WithHistory(q, v, g) = [v EXCEPT !.input = g]
    BY <1>1 DEF WithHistory
  <2>2. History(q, w) = w.input
    BY <1>1 DEF History
  <2>3. [[w EXCEPT !.input = x] EXCEPT !.input = h] = [w EXCEPT !.input = h]
    BY <1>1 DEF Reqs
  <2>4. [w EXCEPT !.input = w.input] = w
    BY <1>1 DEF Reqs
  <2>. QED
    BY <2>1, <2>2, <2>3, <2>4
<1>2. CASE q = "anthropic"
  <2>1. \A v, g : WithHistory(q, v, g) = [v EXCEPT !.messages = g]
    BY <1>2 DEF WithHistory
  <2>2. History(q, w) = w.messages
    BY <1>2 DEF History
  <2>3. [[w EXCEPT !.messages = x] EXCEPT !.messages = h] = [w EXCEPT !.messages = h]
    BY <1>2 DEF Reqs
  <2>4. [w EXCEPT !.messages = w.messages] = w
    BY <1>2 DEF Reqs
  <2>. QED
    BY <2>1, <2>2, <2>3, <2>4
<1>3. CASE q = "openai_chat"
  <2>1. \A v, g : WithHistory(q, v, g) = [v EXCEPT !.messages = g]
    BY <1>3 DEF WithHistory
  <2>2. History(q, w) = w.messages
    BY <1>3 DEF History
  <2>3. [[w EXCEPT !.messages = x] EXCEPT !.messages = h] = [w EXCEPT !.messages = h]
    BY <1>3 DEF Reqs
  <2>4. [w EXCEPT !.messages = w.messages] = w
    BY <1>3 DEF Reqs
  <2>. QED
    BY <2>1, <2>2, <2>3, <2>4
<1>. QED
  BY <1>1, <1>2, <1>3 DEF Protocols

Asks == DevR \cup UserR \cup OutR

(* What the client says is not the assistant's.                            *)
LEMMA AsksFacts ==
    /\ Asks \subseteq RItems
    /\ \A it \in Asks : it \notin AnsR
    /\ \A it \in UserR : it \notin DevR
<1>1. Asks \subseteq RItems
  BY DEF Asks, RItems
<1>2. ASSUME NEW it \in Asks, it \in AnsR PROVE FALSE
  <2>1. \/ it.type = "message" /\ it.role \in {"developer", "user"}
        \/ it.type = "function_call_output"
    <3>1. it \in OutR => it.type = "function_call_output"
      BY DEF OutR
    <3>2. (it \in DevR => it.type = "message" /\ it.role = "developer")
          /\ (it \in UserR => it.type = "message" /\ it.role = "user")
      BY MessageItemFacts
    <3>. QED
      BY <1>2, <3>1, <3>2 DEF Asks
  <2>2. \/ it.type = "message" /\ it.role = "assistant"
        \/ it.type = "function_call"
        \/ it.type = "reasoning"
    <3>1. it \in AsstR => it.type = "message" /\ it.role = "assistant"
      BY MessageItemFacts
    <3>2. (it \in CallR => it.type = "function_call") /\ (it \in Reasonings => it.type = "reasoning")
      BY DEF CallR, Reasonings
    <3>. QED
      BY <1>2, <3>1, <3>2 DEF AnsR
  <2>. QED
    BY <2>1, <2>2
<1>3. ASSUME NEW it \in UserR PROVE it \notin DevR
  <2>1. it.role = "user"
    BY MessageItemFacts
  <2>2. it \in DevR => it.role = "developer"
    BY MessageItemFacts
  <2>. QED
    BY <2>1, <2>2
<1>. QED
  BY <1>1, <1>2, <1>3

(* The first request's history is settled: the user has spoken.            *)
LEMMA FirstSettled ==
    ASSUME NEW q \in Protocols, NEW s
    PROVE  Settled(q, History(q, FirstRequest(q, s)))
<1>0. 1 \in Nat /\ 2 \in Nat /\ 3 \in Nat
  OBVIOUS
<1>1. CASE q = "anthropic"
  <2> DEFINE c == <<[type |-> "text", text |-> <<3>>]>>
             m == Message("user", c)
             h == <<m>>
             g == Each(AMToIR, h)
  <2>1. History(q, FirstRequest(q, s)) = h
    BY <1>1 DEF History, FirstRequest
  <2>2. c \in Seq(UserA)
    BY <1>0, TextBlocks
  <2> HIDE DEF c
  <2>3. h \in Seq(AMessages) /\ m.role = "user"
    BY <2>2, OneMessage, MessageFacts
  <2>4. 1 \in DOMAIN h /\ h[1] = m
    OBVIOUS
  <2> HIDE DEF m, h
  <2>5. m \in AnyA /\ h \in Seq(AnyA)
    BY <2>3, <2>4, TypesFacts, ElementOfSeq
  <2>6. g[1] = AMToIR[m] /\ 1 \in DOMAIN g
    BY <2>4 DEF Each
  <2>7. AMToIR[m].role = "user"
    BY <2>3, <2>5, AMToIRFacts, MessageFacts
  <2>8. Talks(g)
    BY <2>6, <2>7 DEF Talks
  <2>. QED
    BY <1>1, <2>1, <2>8 DEF Settled, Turned
<1>2. CASE q = "openai_chat"
  <2> DEFINE x == ChatMsg("system", AsString(<<1>>))
             y == ChatMsg("developer", AsString(<<2>>))
             m == ChatMsg("user", AsString(<<3>>))
             h == <<x, y, m>>
             g == Each(UMToIR, h)
  <2>1. History(q, FirstRequest(q, s)) = h
    BY <1>2 DEF History, FirstRequest
  <2>2. m \in ChatMs /\ m.role = "user"
    <3> DEFINE u == "user"
    <3>1. u \in Roles /\ ~(u # "user") /\ AsString(<<3>>) \in Seq(PartU)
      BY <1>0, TextBlocks DEF Roles
    <3>2. m \in ChatMs
      BY <3>1, ChatMsgFacts
    <3>. QED
      BY <3>2 DEF ChatMsg
  <2>3. 3 \in DOMAIN h /\ h[3] = m
    OBVIOUS
  <2> HIDE DEF x, y, m, h
  <2>4. g[3] = UMToIR[m] /\ 3 \in DOMAIN g
    BY <2>3 DEF Each
  <2>5. UMToIR[m].role = "user"
    BY <2>2, UMToIRFacts
  <2>6. Talks(g)
    BY <2>4, <2>5 DEF Talks
  <2>. QED
    BY <1>2, <2>1, <2>6 DEF Settled, Turned
<1>3. CASE q = "openai_responses"
  <2> DEFINE c == <<[type |-> "input_text", text |-> <<2>>]>>
             d == <<[type |-> "input_text", text |-> <<3>>]>>
             x == MessageItem("developer", c)
             y == MessageItem("user", d)
             a == <<x>>
             h == <<x, y>>
  <2>1. c \in Seq(TextR) /\ d \in Seq(TextR \cup ImageR)
    BY <1>0, TextBlocks
  <2>2. History(q, FirstRequest(q, s)) = h
    BY <1>3 DEF History, FirstRequest
  <2> HIDE DEF c, d
  <2>3. x \in RItems /\ y \in RItems /\ y \in UserR
    BY <2>1, OneMessage, MessageItemFacts
  <2> HIDE DEF x, y
  <2>4. a \in Seq(RItems) /\ h = Append(a, y)
    BY <2>3, Pairs
  <2> HIDE DEF a, h
  <2>5. h # <<>> /\ Last(h) = y /\ y \notin AnsR /\ y \notin DevR
    <3>1. y \in Asks
      BY <2>3 DEF Asks
    <3>2. h # <<>> /\ Last(h) = y
      BY <2>3, <2>4, AppendedLast
    <3>. QED
      BY <2>3, <3>1, <3>2, AsksFacts
  <2>6. PICK m \in IRMessages : Starts(y, m) /\ m.role # "system"
    BY <2>3, <2>5, ItemStarts
  <2> DEFINE g == Gathered(a)
  <2>7. g \in Seq(IRMessages) /\ Gathered(h) = AddItem(g, y)
    BY <2>3, <2>4, GatheredFacts
  <2> HIDE DEF g
  <2>8. Gathered(h) = Append(g, m)
    BY <2>6, <2>7 DEF Starts
  <2>9. Talks(Append(g, m))
    <3> DEFINE z == Append(g, m)
    <3>1. Len(g) \in Nat /\ z \in Seq(IRMessages) /\ Len(z) = Len(g) + 1 /\ z[Len(g) + 1] = m
      BY <2>7, LenProperties, AppendProperties
    <3> HIDE DEF z
    <3>2. Len(g) + 1 \in DOMAIN z
      BY <3>1, LenProperties
    <3>3. Talks(z)
      BY <2>6, <3>1, <3>2 DEF Talks
    <3>. QED
      BY <3>3 DEF z
  <2>. QED
    BY <1>3, <2>2, <2>5, <2>8, <2>9 DEF Settled, Turned
<1>. QED
  BY <1>1, <1>2, <1>3 DEF Protocols

(* What Reply appends.                                                     *)
Appended(q, ids, bad, user, n, picture, note, l) ==
    Together(q, IF ids = <<>> THEN <<>> ELSE Results(q, ids, bad),
                IF user THEN UserSays(q, n, picture) ELSE <<>>)
    \o (IF note THEN SystemSays(q, l) ELSE <<>>)

(* It ends with the client's words or results.                             *)
LEMMA MoreAsks ==
    ASSUME NEW q, q = "openai_responses", NEW ids \in Seq(Nat), NEW bad, NEW n \in Nat, NEW l \in Nat,
           NEW user \in BOOLEAN, NEW note \in BOOLEAN, NEW picture \in BOOLEAN, ids = <<>> => user
    PROVE  LET more == Appended(q, ids, bad, user, n, picture, note, l)
           IN  more # <<>> /\ Last(more) \notin AnsR
<1> DEFINE a == IF ids = <<>> THEN <<>> ELSE Results(q, ids, bad)
           b == IF user THEN UserSays(q, n, picture) ELSE <<>>
           c == IF note THEN SystemSays(q, l) ELSE <<>>
           none == <<>>
<1>0. none \in Seq(Asks)
  BY EmptySeq
<1>1. a \in Seq(Asks) /\ (ids # <<>> => a # <<>>)
  <2>1. CASE ids = <<>>
    BY <1>0, <2>1
  <2>2. CASE ids # <<>>
    <3> DEFINE f == ResultOut(bad)
               e == Each(f, ids)
    <3>1. \A id \in Nat : f[id] = OutputItem(id, [json |-> FALSE, text |-> IF id \in bad THEN <<ErrorWord>> ELSE <<>>])
      BY DEF ResultOut
    <3>2. ASSUME NEW id \in Nat PROVE f[id] \in Asks
      <4> DEFINE t == IF id \in bad THEN <<ErrorWord>> ELSE <<>>
                 o == [json |-> FALSE, text |-> t]
      <4>1. t \in Texts
        BY DEF Texts, ErrorWord
      <4>2. f[id] = OutputItem(id, o)
        BY <3>1
      <4> HIDE DEF t, f
      <4>3. o \in Outs
        BY <4>1 DEF Outs
      <4> HIDE DEF o
      <4>. QED
        BY <4>2, <4>3, ItemsAre DEF Asks
    <3>3. Results(q, ids, bad)
          = [i \in DOMAIN ids |-> OutputItem(ids[i], [json |-> FALSE, text |-> IF ids[i] \in bad THEN <<ErrorWord>> ELSE <<>>])]
      BY DEF Results, MapSeq
    <3> HIDE DEF f
    <3>4. [i \in DOMAIN ids |-> OutputItem(ids[i], [json |-> FALSE, text |-> IF ids[i] \in bad THEN <<ErrorWord>> ELSE <<>>])]
          = [i \in DOMAIN ids |-> f[ids[i]]]
      <4>1. \A i \in DOMAIN ids : ids[i] \in Nat
        BY ElementOfSeq
      <4>. QED
        BY <3>1, <4>1
    <3>5. Results(q, ids, bad) = e
      BY <3>3, <3>4 DEF Each
    <3>6. IsFcn(f, Nat, Asks)
      BY <3>2 DEF IsFcn
    <3>7. e \in Seq(Asks) /\ e # <<>>
      BY <2>2, <3>6, EachFacts
    <3>. QED
      BY <2>2, <3>5, <3>7
  <2>. QED
    BY <2>1, <2>2
<1>2. b \in Seq(Asks) /\ (user => b # <<>>)
  <2>1. CASE user
    <3> DEFINE S == TextR \cup ImageR
               i == [type |-> "input_image"]
               d == IF picture THEN <<i>> ELSE <<>>
               e == <<[type |-> "input_text", text |-> <<n>>]>>
               g == d \o e
               m == MessageItem("user", g)
               z == <<m>>
    <3>1. e \in Seq(S) /\ i \in S
      BY TextBlocks DEF ImageR
    <3>2. b = z
      BY <2>1 DEF UserSays
    <3>3. d \in Seq(S)
      <4> HIDE DEF i, S
      <4>. QED
        BY <3>1, OneThing
    <3>4. g \in Seq(S)
      <4> HIDE DEF d, e, S
      <4>. QED
        BY <3>1, <3>3, ConcatProperties
    <3>5. m \in Asks
      <4> HIDE DEF g
      <4>. QED
        BY <3>4, MessageItemFacts DEF Asks
    <3> HIDE DEF m
    <3>6. z \in Seq(Asks) /\ Len(z) = 1
      BY <3>5, Tuples
    <3> HIDE DEF z
    <3>7. z # <<>>
      <4>1. Len(z) # 0
        BY <3>6
      <4>. QED
        BY ONLY <3>6, <4>1, EmptySeq
    <3>. QED
      BY <3>2, <3>6, <3>7
  <2>2. CASE ~user
    BY <1>0, <2>2
  <2>. QED
    BY <2>1, <2>2
<1>3. c \in Seq(Asks)
  <2>1. CASE note
    <3> DEFINE e == <<[type |-> "input_text", text |-> <<l>>]>>
               m == MessageItem("developer", e)
    <3>1. e \in Seq(TextR)
      BY TextBlocks
    <3>2. c = <<m>>
      BY <2>1 DEF SystemSays
    <3> HIDE DEF e
    <3>3. m \in Asks
      BY <3>1, MessageItemFacts DEF Asks
    <3> HIDE DEF m
    <3>. QED
      BY <3>2, <3>3, OneThing
  <2>2. CASE ~note
    BY <1>0, <2>2
  <2>. QED
    BY <2>1, <2>2
<1>4. Together(q, a, b) = a \o b
  BY DEF Together
<1> DEFINE more == (a \o b) \o c
<1>5. a # <<>> \/ b # <<>>
  BY <1>1, <1>2
<1> HIDE DEF a, b, c
<1>6. more \in Seq(Asks) /\ more # <<>>
  <2>1. a \o b \in Seq(Asks) /\ Len(a \o b) = Len(a) + Len(b) /\ Len(a) \in Nat /\ Len(b) \in Nat
    BY <1>1, <1>2, ConcatAt
  <2>2. Len(a) > 0 \/ Len(b) > 0
    BY <1>1, <1>2, <1>5, FrontAt
  <2> DEFINE g == a \o b
  <2>3. g \in Seq(Asks) /\ Len(g) > 0
    BY <2>1, <2>2
  <2> HIDE DEF g
  <2>4. g \o c \in Seq(Asks) /\ Len(g \o c) = Len(g) + Len(c) /\ Len(g) \in Nat /\ Len(c) \in Nat
    BY <1>3, <2>3, ConcatAt
  <2>5. Len(g \o c) # 0
    BY <2>3, <2>4
  <2>6. g \o c # <<>>
    BY <2>5, EmptySeq
  <2>. QED
    BY <2>4, <2>6 DEF g
<1> HIDE DEF more
<1>7. Last(more) \in Asks
  BY <1>6, FrontLast
<1>8. more # <<>> /\ Last(more) \notin AnsR
  BY <1>6, <1>7, AsksFacts
<1>. QED
  BY <1>4, <1>8 DEF Appended, more, a, b, c

(* sent is the translation, for an upstream of protocol p, of a beginning  *)
(* of w's history at which the conversation had settled.                   *)
Begins(q, p, w, sent) ==
    \E h, k \in Past(q) :
       /\ Settled(q, h) /\ History(q, w) = h \o k
       /\ sent = TranslateRequest(q, p, WithHistory(q, w, h))

Continues(q, w) ==
    \E h, k \in Past(q) : Settled(q, h) /\ History(q, w) = h \o k

(* With more in its history, a request begins as it did;                   *)
LEMMA BeginsMore ==
    ASSUME NEW q \in Protocols, NEW p \in Protocols, NEW s, NEW w \in Reqs(q, s), NEW sent,
           Begins(q, p, w, sent), NEW more \in Past(q)
    PROVE  Begins(q, p, WithHistory(q, w, History(q, w) \o more), sent)
<1>1. PICK h, k \in Past(q) :
         /\ Settled(q, h) /\ History(q, w) = h \o k
         /\ sent = TranslateRequest(q, p, WithHistory(q, w, h))
  BY DEF Begins
<1> DEFINE past == History(q, w) \o more
           next == WithHistory(q, w, past)
           g    == k \o more
<1>2. past \in Past(q) /\ g \in Past(q)
  BY RequestTyped, PastFacts
<1>3. past = h \o g
  BY <1>1, PastAssociates
<1> HIDE DEF past, g
<1>4. History(q, next) = past
  BY <1>2, HistoryReplaced
<1>5. WithHistory(q, next, h) = WithHistory(q, w, h)
  BY <1>2, HistoryReset
<1> HIDE DEF next
<1>6. Begins(q, p, next, sent)
  BY <1>1, <1>2, <1>3, <1>4, <1>5 DEF Begins
<1>. QED
  BY <1>6 DEF next, past

(* it goes on, and settles when the client has the last word.              *)
LEMMA ContinuesMore ==
    ASSUME NEW q \in Protocols, NEW s, NEW w \in Reqs(q, s), Continues(q, w), NEW more \in Past(q)
    PROVE  LET next == WithHistory(q, w, History(q, w) \o more)
           IN  /\ Continues(q, next)
               /\ (q = "openai_responses" => more # <<>> /\ Last(more) \notin AnsR)
                  => Settled(q, History(q, next))
<1>1. PICK h, k \in Past(q) : Settled(q, h) /\ History(q, w) = h \o k
  BY DEF Continues
<1> DEFINE past == History(q, w) \o more
           next == WithHistory(q, w, past)
           g    == k \o more
<1>2. past \in Past(q) /\ g \in Past(q)
  BY RequestTyped, PastFacts
<1>3. past = h \o g
  BY <1>1, PastAssociates
<1>4. ASSUME q = "openai_responses" => more # <<>> /\ Last(more) \notin AnsR
      PROVE  Settled(q, past)
  <2>1. Settled(q, (h \o k) \o more)
    BY <1>1, <1>4, SettledOn
  <2>. QED
    BY <1>1, <2>1
<1> HIDE DEF past, g
<1>5. History(q, next) = past
  BY <1>2, HistoryReplaced
<1> HIDE DEF next
<1>6. Continues(q, next)
  BY <1>1, <1>2, <1>3, <1>5 DEF Continues
<1>7. (q = "openai_responses" => more # <<>> /\ Last(more) \notin AnsR) => Settled(q, History(q, next))
  BY <1>4, <1>5
<1>. QED
  BY <1>6, <1>7 DEF next, past

(* Its translation is one of its beginnings.                               *)
LEMMA BeginsHere ==
    ASSUME NEW q \in Protocols, NEW p \in Protocols, NEW s, NEW w \in Reqs(q, s),
           Settled(q, History(q, w))
    PROVE  Begins(q, p, w, TranslateRequest(q, p, w)) /\ Continues(q, w)
<1> DEFINE h == History(q, w)
           none == <<>>
<1>1. h \in Past(q) /\ none \in Past(q)
  BY RequestTyped, PastFacts
<1>2. WithHistory(q, w, h) = w
  BY <1>1, HistoryReset
<1>3. h = h \o none
  <2>1. CASE q = "anthropic"
    BY <1>1, <2>1, PastFacts, ConcatEmptySeq
  <2>2. CASE q = "openai_chat"
    BY <1>1, <2>2, PastFacts, ConcatEmptySeq
  <2>3. CASE q = "openai_responses"
    BY <1>1, <2>3, PastFacts, ConcatEmptySeq
  <2>. QED
    BY <2>1, <2>2, <2>3 DEF Protocols
<1> HIDE DEF none
<1>4. Settled(q, h) /\ History(q, w) = h \o none
        /\ TranslateRequest(q, p, w) = TranslateRequest(q, p, WithHistory(q, w, h))
  BY <1>2, <1>3
<1>. QED
  BY <1>1, <1>4 DEF Begins, Continues

-----------------------------------------------------------------------------
(***************************************************************************)
(* The history grows, step by step.                                        *)
(***************************************************************************)
Grows ==
    /\ Continues(client, request)
    /\ phase \in {"composed", "waiting"} => Settled(client, History(client, request))
    /\ \A p \in Protocols : asked[p] # NotAsked => Begins(client, p, request, asked[p])

(* While the client sends its whole history.                               *)
GrowInv == ~(stateful /\ turn > 0) => Grows

(* It holds at first;                                                      *)
LEMMA InitGrows == Init => GrowInv
<1> SUFFICES ASSUME Init PROVE Grows
  BY DEF GrowInv
<1>1. PICK s \in Settings(client) : request = FirstRequest(client, s)
  BY DEF Init
<1>2. client \in Protocols /\ asked = [p \in Protocols |-> NotAsked]
  BY DEF Init
<1>3. request \in Reqs(client, s) /\ Settled(client, History(client, request))
  BY <1>1, <1>2, FirstFacts, FirstSettled
<1>4. Continues(client, request)
  BY <1>2, <1>3, BeginsHere
<1>. QED
  BY <1>2, <1>3, <1>4 DEF Grows

(* the request that is translated extends the one before;                  *)
LEMMA AskGrows ==
    ASSUME ConvInv, GrowInv, NEW p \in Protocols, Ask(p)
    PROVE  /\ GrowInv'
           /\ \A q \in Protocols : asked[q] # NotAsked /\ asked'[q] # asked[q]
                                     => Extends(q, asked[q], asked'[q])
<1>1. /\ phase = "composed" /\ (p = client \/ Translatable(client, p, request))
      /\ phase' = "waiting"
      /\ asked' = IF p = client THEN asked
                  ELSE [asked EXCEPT ![p] = TranslateRequest(client, p, request)]
      /\ client' = client /\ stateful' = stateful /\ request' = request /\ turn' = turn
  BY DEF Ask
<1>2. client \in Protocols /\ DOMAIN asked = Protocols
  BY DEF ConvInv, Typed
<1>3. PICK s \in Settings(client) : request \in Reqs(client, s)
  BY DEF ConvInv, Sound
<1>4. CASE p = client
  <2>1. asked' = asked
    BY <1>1, <1>4
  <2>. QED
    BY <1>1, <2>1 DEF GrowInv, Grows
<1>5. CASE p # client /\ ~(stateful /\ turn > 0)
  <2> DEFINE sent == TranslateRequest(client, p, request)
  <2>1. Grows
    BY <1>5 DEF GrowInv
  <2>2. Settled(client, History(client, request)) /\ Continues(client, request)
    BY <1>1, <2>1 DEF Grows
  <2>3. Begins(client, p, request, sent)
    BY <1>2, <1>3, <2>2, BeginsHere
  <2>4. /\ asked'[p] = sent
        /\ \A q \in Protocols : q # p => asked'[q] = asked[q]
    BY <1>1, <1>2, <1>5
  <2> HIDE DEF sent
  <2>5. \A q \in Protocols : asked'[q] # NotAsked => Begins(client, q, request, asked'[q])
    BY <2>1, <2>3, <2>4 DEF Grows
  <2>6. Grows'
    BY <1>1, <2>2, <2>5 DEF Grows
  <2>7. ASSUME asked[p] # NotAsked PROVE Extends(p, asked[p], sent)
    <3>1. PICK h, k \in Past(client) :
             /\ Settled(client, h) /\ History(client, request) = h \o k
             /\ asked[p] = TranslateRequest(client, p, WithHistory(client, request, h))
      BY <2>1, <2>7 DEF Grows, Begins
    <3>2. Extends(p, TranslateRequest(client, p, WithHistory(client, request, h)),
                  TranslateRequest(client, p, request))
      BY <1>2, <1>3, <3>1, TranslationGrows
    <3>. QED
      BY <3>1, <3>2 DEF sent
  <2>. QED
    BY <2>4, <2>6, <2>7 DEF GrowInv
<1>6. CASE p # client /\ stateful /\ turn > 0
  <2>1. request.previous
    BY <1>1, <1>6 DEF ConvInv, Sound
  <2>2. client = "openai_responses"
    BY <1>6 DEF ConvInv, Sound
  <2>3. ~request.previous
    BY <1>1, <1>6, <2>2 DEF Translatable
  <2>. QED
    BY <2>1, <2>3
<1>. QED
  BY <1>4, <1>5, <1>6

(* the answer is remembered,                                               *)
LEMMA AnswerGrows ==
    ASSUME ConvInv, GrowInv, Answer
    PROVE  GrowInv' /\ asked' = asked
<1>1. PICK w \in Answers(upstream, turn + 1) :
         LET seen == IF Translated THEN TranslateResponse(client, upstream, w) ELSE w
         IN  /\ request' = WithHistory(client, request,
                              IF stateful THEN <<>>
                              ELSE History(client, request) \o Remembered(client, seen))
             /\ pending' = CallsIn(client, seen)
             /\ told' = EndIn(client, seen)
             /\ original' = [calls |-> CallsIn(upstream, w), stop |-> EndIn(upstream, w)]
             /\ said' = said \o InAnswer(upstream, w)
  BY DEF Answer
<1> DEFINE seen == IF upstream # client THEN TranslateResponse(client, upstream, w) ELSE w
           more == Remembered(client, seen)
<1>2. /\ phase' = "answered" /\ turn' = turn + 1
      /\ client' = client /\ stateful' = stateful /\ asked' = asked
  BY DEF Answer
<1>3. client \in Protocols /\ upstream \in Protocols /\ turn \in Nat /\ turn + 1 \in Nat /\ turn + 1 > 0
  <2>1. turn \in Nat
    BY DEF ConvInv, Typed
  <2>2. turn + 1 \in Nat /\ turn + 1 > 0
    BY <2>1
  <2>. QED
    BY <2>1, <2>2 DEF ConvInv, Typed
<1>4. CASE stateful
  BY <1>2, <1>3, <1>4 DEF GrowInv
<1>5. CASE ~stateful
  <2>1. request' = WithHistory(client, request, History(client, request) \o more)
    BY <1>1, <1>5 DEF Translated
  <2>2. IsAnswer(client, seen)
    BY <1>3, AnswerSeen
  <2> HIDE DEF seen
  <2>3. more \in Past(client)
    BY <1>3, <2>2, RememberedFacts
  <2> HIDE DEF more
  <2>4. PICK s \in Settings(client) : request \in Reqs(client, s)
    BY DEF ConvInv, Sound
  <2>5. Grows
    BY <1>5 DEF GrowInv
  <2>6. Continues(client, request')
    BY <1>3, <2>1, <2>3, <2>4, <2>5, ContinuesMore DEF Grows
  <2>7. ASSUME NEW p \in Protocols, asked[p] # NotAsked PROVE Begins(client, p, request', asked[p])
    <3>1. Begins(client, p, request, asked[p])
      BY <2>5, <2>7 DEF Grows
    <3>. QED
      BY <1>3, <2>1, <2>3, <2>4, <3>1, BeginsMore
  <2>8. Grows'
    BY <1>2, <2>6, <2>7 DEF Grows
  <2>. QED
    BY <1>2, <2>8 DEF GrowInv
<1>. QED
  BY <1>4, <1>5

(* the client has the last word,                                           *)
LEMMA ReplyGrows ==
    ASSUME ConvInv, GrowInv, Reply
    PROVE  GrowInv' /\ asked' = asked
<1>1. PICK user, note, picture \in BOOLEAN, bad \in {{}, {10 * turn + 1}} :
      /\ pending = <<>> => user /\ bad = {}
      /\ picture => user /\ ~note
      /\ LET results == IF pending = <<>> THEN <<>> ELSE Results(client, pending, bad)
             words   == IF user THEN UserSays(client, 10 * turn + 5, picture) ELSE <<>>
             more    == Together(client, results, words)
                        \o (IF note THEN SystemSays(client, 10 * turn + 6) ELSE <<>>)
             next    == WithHistory(client, request, History(client, request) \o more)
         IN  /\ request' = IF stateful THEN [next EXCEPT !.previous = TRUE] ELSE next
             /\ said' = said \o InHistory(client, more)
  BY DEF Reply
<1> DEFINE results == IF pending = <<>> THEN <<>> ELSE Results(client, pending, bad)
           words   == IF user THEN UserSays(client, 10 * turn + 5, picture) ELSE <<>>
           notes   == IF note THEN SystemSays(client, 10 * turn + 6) ELSE <<>>
           more    == Together(client, results, words) \o notes
<1>2. /\ phase = "answered" /\ turn' = turn /\ phase' = "composed"
      /\ client' = client /\ stateful' = stateful /\ asked' = asked
  BY DEF Reply
<1>3. /\ client \in Protocols /\ turn \in Nat /\ turn > 0 /\ pending \in Seq(Nat)
      /\ 10 * turn + 5 \in Nat /\ 10 * turn + 6 \in Nat
  <2>1. turn \in Nat /\ turn > 0
    BY <1>2 DEF ConvInv, Typed, Sound
  <2>2. 10 * turn + 5 \in Nat /\ 10 * turn + 6 \in Nat
    BY <2>1
  <2>. QED
    BY <2>1, <2>2 DEF ConvInv, Typed
<1>4. CASE stateful
  BY <1>2, <1>3, <1>4 DEF GrowInv
<1>5. CASE ~stateful
  <2>1. request' = WithHistory(client, request, History(client, request) \o more)
    BY <1>1, <1>5
  <2>2. client = "openai_responses" => more # <<>> /\ Last(more) \notin AnsR
    <3> SUFFICES ASSUME client = "openai_responses" PROVE more # <<>> /\ Last(more) \notin AnsR
      OBVIOUS
    <3> DEFINE n == 10 * turn + 5
               l == 10 * turn + 6
    <3>1. /\ n \in Nat /\ l \in Nat /\ (pending = <<>> => user) /\ pending \in Seq(Nat)
          /\ user \in BOOLEAN /\ note \in BOOLEAN /\ picture \in BOOLEAN
      BY <1>1, <1>3
    <3> HIDE DEF n, l
    <3> DEFINE theirs == Appended(client, pending, bad, user, n, picture, note, l)
    <3>2. theirs # <<>> /\ Last(theirs) \notin AnsR
      BY <3>1, MoreAsks
    <3>. QED
      BY <3>2 DEF Appended, n, l
  <2>3. more \in Past(client)
    <3>1. <<>> \in Past(client) /\ <<>> \in OneUser
      BY <1>3, PastFacts DEF OneUser
    <3>2. results \in Past(client) /\ (client = "anthropic" => results \in OneUser)
      BY <1>3, <3>1, ResultsFacts
    <3>3. words \in Past(client) /\ (client = "anthropic" => words \in OneUser)
      BY <1>3, <3>1, UserSaysFacts
    <3>4. notes \in Past(client)
      BY <1>3, <3>1, SystemSaysFacts
    <3> HIDE DEF results, words, notes
    <3>5. Together(client, results, words) \in Past(client)
      BY <1>3, <3>2, <3>3, TogetherFacts
    <3>. QED
      BY <1>3, <3>4, <3>5, PastFacts
  <2> HIDE DEF more
  <2>4. PICK s \in Settings(client) : request \in Reqs(client, s)
    BY DEF ConvInv, Sound
  <2>5. Grows
    BY <1>5 DEF GrowInv
  <2>6. Continues(client, request') /\ Settled(client, History(client, request'))
    BY <1>3, <2>1, <2>2, <2>3, <2>4, <2>5, ContinuesMore DEF Grows
  <2>7. ASSUME NEW p \in Protocols, asked[p] # NotAsked PROVE Begins(client, p, request', asked[p])
    <3>1. Begins(client, p, request, asked[p])
      BY <2>5, <2>7 DEF Grows
    <3>. QED
      BY <1>3, <2>1, <2>3, <2>4, <3>1, BeginsMore
  <2>8. Grows'
    BY <1>2, <2>6, <2>7 DEF Grows
  <2>. QED
    BY <1>2, <2>8 DEF GrowInv
<1>. QED
  BY <1>4, <1>5

(* and the other steps leave the history alone.                            *)
LEMMA QuietGrows ==
    ASSUME GrowInv, (\E p \in Protocols : Refuse(p)) \/ UNCHANGED vars
    PROVE  GrowInv' /\ asked' = asked
<1>1. /\ client' = client /\ stateful' = stateful /\ request' = request /\ turn' = turn
      /\ asked' = asked /\ (phase' = phase \/ phase' = "refused")
  BY DEF Refuse, vars
<1>. QED
  BY <1>1 DEF GrowInv, Grows

(* So every step keeps it.                                                 *)
LEMMA StepGrows ==
    ASSUME ConvInv, GrowInv, [Next]_vars
    PROVE  /\ GrowInv'
           /\ \A p \in Protocols : asked[p] # NotAsked /\ asked'[p] # asked[p]
                                     => Extends(p, asked[p], asked'[p])
<1>1. CASE \E p \in Protocols : Ask(p)
  BY <1>1, AskGrows
<1>2. CASE Answer
  BY <1>2, AnswerGrows
<1>3. CASE Reply
  BY <1>3, ReplyGrows
<1>4. CASE (\E p \in Protocols : Refuse(p)) \/ UNCHANGED vars
  BY <1>4, QuietGrows
<1>. QED
  BY <1>1, <1>2, <1>3, <1>4 DEF Next

(* A later translated request to an upstream extends the earlier one, over *)
(* any number of turns and whoever answered in between: neither splitSystem*)
(* nor mergeAdjacentAnthropic nor appendAssistant changes what was sent.   *)
THEOREM HistoryGrows == Spec => HistoryOnlyGrows
<1>1. Init => GrowInv
  BY InitGrows
<1>2. ConvInv /\ GrowInv /\ [Next]_vars
      => /\ GrowInv'
         /\ [\A p \in Protocols : asked[p] # NotAsked /\ asked'[p] # asked[p]
                                    => Extends(p, asked[p], asked'[p])]_vars
  BY StepGrows
<1>. QED
  BY <1>1, <1>2, ConversationInvariant, PTL DEF Spec, HistoryOnlyGrows

-----------------------------------------------------------------------------
(***************************************************************************)
(* What an answer is in the IR.                                            *)
(***************************************************************************)

(* What an upstream's answer has in the IR, as the client of protocol q    *)
(* keeps it: texts, calls whose arguments are lawful, and thinking, which  *)
(* only a client of OpenAI Responses keeps as reasoning items.             *)
LawfulCallC == {c \in CallC : Lawful(c.input)}
PlainThinkC == {c \in ThinkC : c.raw.type # "reasoning"}
Spoken(q)   == TextC \cup LawfulCallC
               \cup (IF q = "openai_responses" THEN ThinkC ELSE PlainThinkC)

(* The ids of the calls in content, in order.                              *)
CallIds(c) == Each(IdF, OnlyTools(Mapped(HearC, c)))

(* At most one assistant message.                                          *)
OneAnswer(q, msgs) == msgs = <<>> \/ \E c \in Seq(Spoken(q)) : msgs = <<Message("assistant", c)>>

(* What may be spoken is assistant content; texts and lawful calls are     *)
(* among it.                                                               *)
LEMMA SpokenFacts ==
    \A q : /\ Spoken(q) \subseteq AssistantC /\ Seq(Spoken(q)) \subseteq Seq(AssistantC)
           /\ Seq(TextC) \subseteq Seq(Spoken(q)) /\ Seq(LawfulCallC) \subseteq Seq(Spoken(q))
<1> TAKE q
<1>1. Spoken(q) \subseteq AssistantC /\ TextC \subseteq Spoken(q) /\ LawfulCallC \subseteq Spoken(q)
  BY DEF Spoken, AssistantC, LawfulCallC, PlainThinkC
<1>. QED
  BY <1>1, SeqOfMore

(* A call whose missing arguments were made {} is lawful.                  *)
LEMMA LawfulCalls ==
    \A id \in Nat, a \in Args : ToolUse(id, ArgumentsOr(a, "{}")) \in LawfulCallC
<1> TAKE id \in Nat, a \in Args
<1> DEFINE b == ArgumentsOr(a, "{}")
<1>1. b \in Args /\ Lawful(b)
  BY DEF ArgumentsOr, Args, Lawful
<1> HIDE DEF b
<1>2. ToolUse(id, b) \in CallC /\ ToolUse(id, b).input = b
  BY <1>1, BlocksAre
<1>3. ToolUse(id, b) \in LawfulCallC
  BY <1>1, <1>2 DEF LawfulCallC
<1>. QED
  BY <1>3 DEF b

(* An Anthropic answer's blocks are spoken content in the IR;              *)
LEMMA SpokenInA ==
    IsFcn(AToIR, AssistantA, Spoken("anthropic"))
<1>1. ASSUME NEW b \in TextA PROVE AToIR[b] \in Spoken("anthropic")
  BY AToIRFacts DEF Spoken
<1>2. ASSUME NEW b \in ThinkA PROVE AToIR[b] \in Spoken("anthropic")
  <2>1. AToIR[b] = Thinking(b.text, b.signature, NoRaw) /\ AToIR[b] \in ThinkC
    BY AToIRFacts
  <2>2. AToIR[b].raw.type = "none"
    BY <2>1 DEF Thinking, NoRaw, Raw
  <2>. QED
    BY <2>1, <2>2 DEF Spoken, PlainThinkC
<1>3. ASSUME NEW b \in HiddenA PROVE AToIR[b] \in Spoken("anthropic")
  <2>1. AToIR[b] = Thinking(<<>>, "", Raw("redacted_thinking", b.data)) /\ AToIR[b] \in ThinkC
    BY AToIRFacts
  <2>2. AToIR[b].raw.type = "redacted_thinking"
    <3> DEFINE t == <<>>
               sig == ""
               r == Raw("redacted_thinking", b.data)
    <3>1. AToIR[b] = Thinking(t, sig, r) /\ r.type = "redacted_thinking"
      BY <2>1 DEF Raw
    <3> HIDE DEF t, sig, r
    <3>. QED
      BY <3>1 DEF Thinking
  <2>. QED
    BY <2>1, <2>2 DEF Spoken, PlainThinkC
<1>4. ASSUME NEW b \in UseA PROVE AToIR[b] \in Spoken("anthropic")
  <2>1. AToIR[b] = ToolUse(b.id, ArgumentsOr(b.input, "{}"))
    BY AToIRFacts
  <2>2. b.id \in Nat /\ b.input \in Args
    BY DEF UseA
  <2>3. ToolUse(b.id, ArgumentsOr(b.input, "{}")) \in LawfulCallC
    BY <2>2, LawfulCalls
  <2>. QED
    BY <2>1, <2>3 DEF Spoken
<1>. QED
  BY <1>1, <1>2, <1>3, <1>4 DEF IsFcn, AssistantA

(* so are the calls of Chat Completions                                    *)
LEMMA SpokenInChat ==
    IsFcn(CallToIR, CallU, LawfulCallC)
<1>1. ASSUME NEW c \in CallU PROVE CallToIR[c] \in LawfulCallC
  <2>1. CallToIR[c] = ToolUse(c.id, ArgumentsOr(c.arguments, "{}"))
    BY CallFacts
  <2>2. c.id \in Nat /\ c.arguments \in Args
    BY DEF CallU
  <2>. QED
    BY <2>1, <2>2, LawfulCalls
<1>. QED
  BY <1>1 DEF IsFcn

(* and what an item of an OpenAI Responses answer becomes.                 *)
LEMMA SpokenInItems ==
    ASSUME NEW it \in AnsR
    PROVE  \E cs \in Seq(Spoken("openai_responses")) : Joins(it, cs)
<1> DEFINE q == "openai_responses"
<1>1. CASE it \in AsstR
  <2> DEFINE c == ResponsesContentToIR(it.content)
  <2>1. it.type = "message" /\ it.role = "assistant" /\ it.content \in Seq(SaidR) /\ it.content \in Seq(PartR)
    BY <1>1, MessageItemFacts, MorePartsR
  <2>2. Joins(it, c)
    BY <2>1 DEF AddItem, Joins
  <2>3. c \in Seq(Spoken(q))
    BY <2>1, ContentRToIR, SpokenFacts
  <2> HIDE DEF c
  <2>. QED
    BY <2>2, <2>3
<1>2. CASE it \in CallR
  <2> DEFINE b == ToolUse(it.call, ArgumentsOr(it.arguments, "{}"))
             cs == <<b>>
  <2>1. it.type = "function_call" /\ it.call \in Nat /\ it.arguments \in Args
    BY <1>2 DEF CallR
  <2>2. Joins(it, cs)
    BY <2>1 DEF AddItem, Joins
  <2>3. b \in LawfulCallC
    BY <2>1, LawfulCalls
  <2> HIDE DEF b
  <2>4. cs \in Seq(Spoken(q))
    BY <2>3, OneThing, SpokenFacts
  <2> HIDE DEF cs
  <2>. QED
    BY <2>2, <2>4
<1>3. CASE it \in Reasonings
  <2> DEFINE raw == Raw("reasoning", it)
             t == it.summary
             sig == ""
             b == Thinking(t, sig, raw)
             cs == <<b>>
  <2>1. it.type = "reasoning" /\ t \in Texts
    BY <1>3 DEF Reasonings
  <2>2. Joins(it, cs)
    BY <2>1 DEF AddItem, ReasoningToIR, Joins
  <2>3. raw \in Raws /\ sig \in Marks
    BY <1>3 DEF Raw, Raws, Marks
  <2> HIDE DEF raw, t, sig
  <2>4. b \in ThinkC
    BY <2>1, <2>3, BlocksAre
  <2> HIDE DEF b
  <2>5. b \in Spoken(q)
    BY <2>4 DEF Spoken
  <2>6. cs \in Seq(Spoken(q))
    BY <2>5, OneThing
  <2> HIDE DEF cs
  <2>. QED
    BY <2>2, <2>6
<1>. QED
  BY <1>1, <1>2, <1>3 DEF AnsR

(* AppendAssistant keeps an answer one message,                            *)
LEMMA AppendsToAnswer ==
    ASSUME NEW q, NEW msgs \in Seq(IRMessages), OneAnswer(q, msgs), NEW cs \in Seq(Spoken(q))
    PROVE  OneAnswer(q, AppendAssistant(msgs, cs))
<1>1. CASE msgs = <<>>
  <2>1. AppendAssistant(msgs, cs) = Append(msgs, Message("assistant", cs))
    BY <1>1 DEF AppendAssistant
  <2>2. Append(msgs, Message("assistant", cs)) = <<Message("assistant", cs)>>
    BY <1>1
  <2>. QED
    BY <2>1, <2>2 DEF OneAnswer
<1>2. ASSUME NEW c \in Seq(Spoken(q)), msgs = <<Message("assistant", c)>>
      PROVE  OneAnswer(q, AppendAssistant(msgs, cs))
  <2> DEFINE m == Message("assistant", c)
             none == <<>>
  <2>1. m.role = "assistant" /\ m.content = c /\ m \in IRMessages
    BY SpokenFacts, MoreTypes, MessageFacts
  <2>2. none \in Seq(IRMessages) /\ msgs = Append(none, m)
    BY <1>2
  <2> HIDE DEF m, none
  <2>3. msgs # <<>> /\ Front(msgs) = none /\ Last(msgs) = m
    BY <2>1, <2>2, AppendedLast
  <2> DEFINE x == Message("assistant", c \o cs)
  <2>4. AppendAssistant(msgs, cs) = Append(none, x)
    BY <2>1, <2>3 DEF AppendAssistant
  <2>5. c \o cs \in Seq(Spoken(q))
    BY <1>2, ConcatProperties
  <2>6. Append(none, x) = <<x>>
    BY DEF none
  <2>. QED
    BY <2>4, <2>5, <2>6 DEF OneAnswer
<1>. QED
  BY <1>1, <1>2 DEF OneAnswer

(* so the items of an answer are gathered into one.                        *)
LEMMA GatheredAnswer ==
    \A k \in Seq(AnsR) : OneAnswer("openai_responses", Gathered(k))
<1> DEFINE P == {k \in Seq(AnsR) : OneAnswer("openai_responses", Gathered(k))}
<1>1. <<>> \in P
  BY GatheredFacts DEF OneAnswer
<1>2. ASSUME NEW k \in Seq(AnsR), k \in P, NEW it \in AnsR
      PROVE  Append(k, it) \in P
  <2>1. k \in Seq(RItems) /\ it \in RItems
    BY HearIFacts
  <2>2. Gathered(k) \in Seq(IRMessages) /\ Gathered(Append(k, it)) = AddItem(Gathered(k), it)
    BY <2>1, GatheredFacts
  <2>3. PICK cs \in Seq(Spoken("openai_responses")) : Joins(it, cs)
    BY SpokenInItems
  <2>4. AddItem(Gathered(k), it) = AppendAssistant(Gathered(k), cs)
    BY <2>2, <2>3 DEF Joins
  <2>5. OneAnswer("openai_responses", AppendAssistant(Gathered(k), cs))
    BY <1>2, <2>2, AppendsToAnswer
  <2>6. Append(k, it) \in Seq(AnsR)
    BY AppendProperties
  <2>. QED
    BY <2>2, <2>4, <2>5, <2>6
<1> HIDE DEF P
<1>3. Seq(AnsR) \subseteq P
  BY <1>1, <1>2, SeqInduction
<1>. QED
  BY <1>3 DEF P

(* What is heard in an answer's messages is what is heard in the answer.   *)
LEMMA TurnedHeard ==
    ASSUME NEW q \in Protocols, NEW h \in Past(q)
    PROVE  Mapped(HearM, Turned(q, h)) = InHistory(q, h)
<1>1. CASE q = "anthropic"
  <2>1. h \in Seq(AMessages) /\ h \in Seq(AnyA)
    BY <1>1, PastFacts, TypesFacts
  <2>. QED
    BY <1>1, <2>1, AMessagesToIR, AHistoryHeard DEF Turned
<1>2. CASE q = "openai_chat"
  <2>1. h \in Seq(ChatMs)
    BY <1>2, PastFacts
  <2>2. IsFcn(UMToIR, ChatMs, IRMessages) /\ \A m \in ChatMs : HearUM[m] = HearM[UMToIR[m]]
    BY UMToIRFacts
  <2>3. Mapped(HearM, Each(UMToIR, h)) = Mapped(HearUM, h)
    BY <2>1, <2>2, EachThenMapped
  <2>4. InHistory("openai_chat", h) = Mapped(HearUM, h)
    BY <2>1, UHistoryHeard
  <2>. QED
    BY <1>2, <2>3, <2>4 DEF Turned
<1>3. CASE q = "openai_responses"
  <2>1. h \in Seq(RItems)
    BY <1>3, PastFacts
  <2>. QED
    BY <1>3, <2>1, GatheredHeard, RHistoryHeard DEF Turned
<1>. QED
  BY <1>1, <1>2, <1>3 DEF Protocols

(* An open turn: nothing, or one assistant message that calls ids.         *)
Opened(q, ids, msgs) ==
    \/ msgs = <<>> /\ ids = <<>>
    \/ \E c \in Seq(Spoken(q)) : msgs = <<Message("assistant", c)>> /\ CallIds(c) = ids

(* What the client keeps of an answer is one assistant message in the IR,  *)
(* with the answer's calls.                                                *)
LEMMA AnswerTurned ==
    ASSUME NEW q \in Protocols, NEW w, IsAnswer(q, w)
    PROVE  Opened(q, CallsIn(q, w), Turned(q, Remembered(q, w)))
<1> DEFINE k == Remembered(q, w)
           t == Turned(q, k)
<1>1. k \in Past(q) /\ InHistory(q, k) = InAnswer(q, w) /\ Mapped(HearM, t) = InHistory(q, k)
  BY RememberedFacts, TurnedHeard
<1>2. CallsIn(q, w) = Each(IdF, OnlyTools(Mapped(HearM, t)))
  BY <1>1, CallsInAnswer
<1>3. OneAnswer(q, t)
  <2>1. CASE q = "anthropic"
    <3> DEFINE c == w.content
               m == Message("assistant", c)
    <3>1. c \in Seq(AssistantA) /\ k = IF c = <<>> THEN <<>> ELSE <<m>>
      BY <2>1, AnswersHeard DEF Remembered
    <3>2. t = Each(AMToIR, k)
      BY <2>1 DEF Turned
    <3> HIDE DEF c, k, t
    <3>3. m \in AnyA /\ m.role = "assistant" /\ m.content = c
      BY <3>1, AnyFacts, MessageFacts, TypesFacts DEF Roles
    <3> HIDE DEF m
    <3>4. AMToIR[m] = Message("assistant", Each(AToIR, c))
      BY <3>3, AMToIRFacts
    <3>5. Each(AToIR, c) \in Seq(Spoken(q))
      BY <2>1, <3>1, SpokenInA, EachFacts
    <3>6. Each(AMToIR, <<m>>) = <<AMToIR[m]>> /\ Each(AMToIR, <<>>) = <<>>
      BY DEF Each
    <3>. QED
      BY <3>1, <3>2, <3>4, <3>5, <3>6 DEF OneAnswer
  <2>2. CASE q = "openai_chat"
    <3> DEFINE a == IF w.content = <<>> /\ w.tool_calls # <<>> THEN <<>> ELSE AsString(w.content)
               b == w.tool_calls
               m == [role |-> "assistant", tool_calls |-> b, call |-> 0, content |-> a]
    <3>1. w.content \in Texts /\ b \in Seq(CallU) /\ k = <<m>>
      BY <2>2, AnswersHeard DEF Remembered
    <3>2. t = Each(UMToIR, k)
      BY <2>2 DEF Turned
    <3>3. a \in Seq(TextA)
      BY <3>1, StringFacts, OneThing
    <3> HIDE DEF a, b, k, t
    <3>4. m \in ChatMs /\ m.role = "assistant" /\ m.content = a /\ m.tool_calls = b
      BY <3>1, <3>3, ChatMsgFacts
    <3> HIDE DEF m
    <3>5. UMToIR[m] = Message("assistant", ChatContentToIR(a) \o Each(CallToIR, b))
      <4>1. UMToIR[m] = ChatMessageToIR(m)
        BY <3>4, UMToIRFacts
      <4>2. MapSeq(LAMBDA tc : ToolUse(tc.id, ArgumentsOr(tc.arguments, "{}")), b) = Each(CallToIR, b)
        BY <3>1, CallsToIR
      <4>3. ChatMessageToIR(m) = Message("assistant", ChatContentToIR(m.content)
                 \o MapSeq(LAMBDA tc : ToolUse(tc.id, ArgumentsOr(tc.arguments, "{}")), m.tool_calls))
        BY <3>4 DEF ChatMessageToIR
      <4>. QED
        BY <3>4, <4>1, <4>2, <4>3
    <3>6. ChatContentToIR(a) \o Each(CallToIR, b) \in Seq(Spoken(q))
      <4>1. ChatContentToIR(a) \in Seq(TextC)
        BY <3>3, ContentToIR, ChatTypes
      <4>2. Each(CallToIR, b) \in Seq(LawfulCallC)
        BY <3>1, SpokenInChat, EachFacts
      <4>3. ChatContentToIR(a) \in Seq(Spoken(q)) /\ Each(CallToIR, b) \in Seq(Spoken(q))
        BY <4>1, <4>2, SpokenFacts
      <4>. QED
        BY <4>3, ConcatProperties
    <3>7. Each(UMToIR, <<m>>) = <<UMToIR[m]>>
      BY DEF Each
    <3>. QED
      BY <3>1, <3>2, <3>5, <3>6, <3>7 DEF OneAnswer
  <2>3. CASE q = "openai_responses"
    <3>1. k = w.output /\ k \in Seq(AnsR)
      BY <2>3, AnswersHeard DEF Remembered
    <3>2. t = Gathered(k)
      BY <2>3 DEF Turned
    <3>. QED
      BY <2>3, <3>1, <3>2, GatheredAnswer
  <2>. QED
    BY <2>1, <2>2, <2>3 DEF Protocols
<1> HIDE DEF k, t
<1>4. CASE t = <<>>
  <2>1. Mapped(HearM, <<>>) = <<>>
    BY HearMFacts, MappedFacts
  <2>2. OnlyTools(<<>>) = <<>> /\ Each(IdF, <<>>) = <<>>
    BY OnlyFacts, IdFacts, EachFacts
  <2>3. CallsIn(q, w) = <<>>
    BY <1>2, <1>4, <2>1, <2>2
  <2>. QED
    BY <1>4, <2>3 DEF Opened, k, t
<1>5. ASSUME NEW c \in Seq(Spoken(q)), t = <<Message("assistant", c)>>
      PROVE  Opened(q, CallsIn(q, w), t)
  <2> DEFINE m == Message("assistant", c)
  <2>1. m \in IRMessages /\ m.content = c
    BY SpokenFacts, MoreTypes, MessageFacts
  <2>2. m \in AnyIR /\ HearM[m] = Mapped(HearC, m.content)
    BY <2>1, TypesFacts, HearMFacts
  <2> HIDE DEF m
  <2>3. Mapped(HearM, <<m>>) = HearM[m]
    BY <2>2, HearMFacts, MappedFacts
  <2>4. CallsIn(q, w) = CallIds(c)
    BY <1>2, <1>5, <2>1, <2>2, <2>3 DEF CallIds, m
  <2>. QED
    BY <1>5, <2>4 DEF Opened
<1>. QED
  BY <1>3, <1>4, <1>5 DEF OneAnswer, k, t

(* Translation keeps the calls of an answer.                               *)
LEMMA AnswerCalls ==
    ASSUME NEW p \in Protocols, NEW q \in Protocols, NEW t \in Nat, NEW w \in Answers(p, t)
    PROVE  LET seen == IF p # q THEN TranslateResponse(q, p, w) ELSE w
           IN  IsAnswer(q, seen) /\ CallsIn(q, seen) = CallsIn(p, w)
<1> DEFINE seen == IF p # q THEN TranslateResponse(q, p, w) ELSE w
<1>1. IsAnswer(q, seen) /\ SameThings(InAnswer(q, seen), InAnswer(p, w))
  BY AnswerSeen
<1>2. IsAnswer(p, w)
  BY AnswersToIR
<1> HIDE DEF seen
<1>3. CallsIn(q, seen) = Each(IdF, OnlyTools(InAnswer(q, seen)))
  BY <1>1, CallsInAnswer
<1>4. CallsIn(p, w) = Each(IdF, OnlyTools(InAnswer(p, w)))
  BY <1>2, CallsInAnswer
<1>5. IsAnswer(q, seen) /\ CallsIn(q, seen) = CallsIn(p, w)
  BY <1>1, <1>3, <1>4 DEF SameThings
<1>. QED
  BY <1>5 DEF seen

(* The answer, its calls and its end, as the client gets them.             *)
LEMMA AnswerAnnounces ==
    ASSUME ConvInv, Answer
    PROVE  CallsAreAnnounced'
<1>1. PICK w \in Answers(upstream, turn + 1) :
         LET seen == IF Translated THEN TranslateResponse(client, upstream, w) ELSE w
         IN  /\ request' = WithHistory(client, request,
                              IF stateful THEN <<>>
                              ELSE History(client, request) \o Remembered(client, seen))
             /\ pending' = CallsIn(client, seen)
             /\ told' = EndIn(client, seen)
             /\ original' = [calls |-> CallsIn(upstream, w), stop |-> EndIn(upstream, w)]
             /\ said' = said \o InAnswer(upstream, w)
  BY DEF Answer
<1> DEFINE seen  == IF upstream # client THEN TranslateResponse(client, upstream, w) ELSE w
           calls == CallsIn(client, seen)
           end   == EndIn(client, seen)
           stop  == EndIn(upstream, w)
<1>2. /\ pending' = calls /\ told' = end
      /\ original' = [calls |-> CallsIn(upstream, w), stop |-> stop]
  BY <1>1 DEF Translated
<1>3. client' = client /\ upstream' = upstream
  BY DEF Answer
<1>4. client \in Protocols /\ upstream \in Protocols /\ turn + 1 \in Nat
  BY DEF ConvInv, Typed
<1>5. upstream # client => Told(client, end, stop, calls # <<>>)
  BY <1>4, AnswerSeen
<1>6. calls = CallsIn(upstream, w)
  BY <1>4, AnswerCalls
<1> HIDE DEF seen, calls, end, stop
<1>7. original'.calls = calls /\ original'.stop = stop
  BY <1>2, <1>6
<1> SUFFICES ASSUME Translated'
             PROVE  /\ pending' = original'.calls
                    /\ Cut(told') = Cut(original'.stop)
                    /\ told' \in RunTools => pending' # <<>> \/ original'.stop \in RunTools
                    /\ pending' # <<>> /\ Cut(told') = "no" =>
                          CASE client' = "openai_responses" -> told' = "completed"
                            [] client' = "openai_chat"      -> told' = "tool_calls"
                            [] client' = "anthropic" -> told' = "tool_use" \/ original'.stop \in NoReason
  BY DEF CallsAreAnnounced
<1>8. Told(client, end, stop, calls # <<>>)
  BY <1>3, <1>5 DEF Translated
<1>9. /\ Cut(end) = Cut(stop)
      /\ end \in RunTools => calls # <<>> \/ stop \in RunTools
      /\ calls # <<>> /\ Cut(stop) = "no" =>
            /\ client = "openai_responses" => end = "completed"
            /\ client = "openai_chat"      => end = "tool_calls"
            /\ client = "anthropic"        => end = "tool_use" \/ stop \in NoReason
  BY <1>8 DEF Told
<1>. QED
  BY <1>2, <1>3, <1>4, <1>7, <1>9 DEF Protocols

(* A translated answer reaches the client with all its calls, once and in  *)
(* order, whatever reason the upstream gave for its end: an answer that    *)
(* the limit or the filter cut is told as cut, calls or not; any other     *)
(* with calls tells the client to run tools, an Anthropic client excepted  *)
(* that is told of a failed response or of a reason no codec knows; and    *)
(* without calls nobody is told to run tools, unless the upstream said so. *)
THEOREM CallsAnnounced == Spec => []CallsAreAnnounced
<1>1. Init => CallsAreAnnounced
  BY DEF Init, CallsAreAnnounced
<1>2. ConvInv /\ CallsAreAnnounced /\ [Next]_vars => CallsAreAnnounced'
  <2> SUFFICES ASSUME ConvInv, CallsAreAnnounced, [Next]_vars PROVE CallsAreAnnounced'
    OBVIOUS
  <2>1. CASE Answer
    BY <2>1, AnswerAnnounces
  <2>2. ASSUME NEW p \in Protocols, Ask(p) \/ Refuse(p) PROVE CallsAreAnnounced'
    <3>1. phase' # "answered"
      BY <2>2 DEF Ask, Refuse
    <3>. QED
      BY <3>1 DEF CallsAreAnnounced
  <2>3. CASE Reply
    <3>1. phase' # "answered"
      BY <2>3 DEF Reply
    <3>. QED
      BY <3>1 DEF CallsAreAnnounced
  <2>4. CASE UNCHANGED vars
    BY <2>4 DEF vars, CallsAreAnnounced, Translated
  <2>. QED
    BY <2>1, <2>2, <2>3, <2>4 DEF Next
<1>. QED
  BY <1>1, <1>2, ConversationInvariant, PTL DEF Spec

(* Short sequences, one element longer:                                    *)
LEMMA Append3 ==
    ASSUME NEW A, NEW a \in A, NEW b \in A, NEW c \in A
    PROVE  Append(<<a, b>>, c) = <<a, b, c>>
<1> DEFINE s == <<a, b>>
           r == <<a, b, c>>
<1>1. s \in Seq(A) /\ Len(s) = 2 /\ s[1] = a /\ s[2] = b
  OBVIOUS
<1>2. r \in Seq(A) /\ Len(r) = 3 /\ r[1] = a /\ r[2] = b /\ r[3] = c
  OBVIOUS
<1> HIDE DEF s, r
<1>3. /\ Append(s, c) \in Seq(A) /\ Len(Append(s, c)) = Len(s) + 1
      /\ \A i \in 1..Len(s) : Append(s, c)[i] = s[i]
      /\ Append(s, c)[Len(s) + 1] = c
  BY <1>1, OneMore
<1>4. \A i \in 1..3 : i = 1 \/ i = 2 \/ i = 3
  OBVIOUS
<1>5. Append(s, c) = r
  BY <1>1, <1>2, <1>3, <1>4, SeqEqual
<1>. QED
  BY <1>5 DEF s, r

(* of four,                                                                *)
LEMMA Append4 ==
    ASSUME NEW A, NEW a \in A, NEW b \in A, NEW c \in A, NEW d \in A
    PROVE  Append(<<a, b, c>>, d) = <<a, b, c, d>>
<1> DEFINE s == <<a, b, c>>
           r == <<a, b, c, d>>
<1>1. s \in Seq(A) /\ Len(s) = 3 /\ s[1] = a /\ s[2] = b /\ s[3] = c
  OBVIOUS
<1>2. r \in Seq(A) /\ Len(r) = 4 /\ r[1] = a /\ r[2] = b /\ r[3] = c /\ r[4] = d
  OBVIOUS
<1> HIDE DEF s, r
<1>3. /\ Append(s, d) \in Seq(A) /\ Len(Append(s, d)) = Len(s) + 1
      /\ \A i \in 1..Len(s) : Append(s, d)[i] = s[i]
      /\ Append(s, d)[Len(s) + 1] = d
  BY <1>1, OneMore
<1>4. \A i \in 1..4 : i = 1 \/ i = 2 \/ i = 3 \/ i = 4
  OBVIOUS
<1>5. Append(s, d) = r
  BY <1>1, <1>2, <1>3, <1>4, SeqEqual
<1>. QED
  BY <1>5 DEF s, r

(* and of five.                                                            *)
LEMMA Append5 ==
    ASSUME NEW A, NEW a \in A, NEW b \in A, NEW c \in A, NEW d \in A, NEW e \in A
    PROVE  Append(<<a, b, c, d>>, e) = <<a, b, c, d, e>>
<1> DEFINE s == <<a, b, c, d>>
           r == <<a, b, c, d, e>>
<1>1. s \in Seq(A) /\ Len(s) = 4 /\ s[1] = a /\ s[2] = b /\ s[3] = c /\ s[4] = d
  OBVIOUS
<1>2. r \in Seq(A) /\ Len(r) = 5 /\ r[1] = a /\ r[2] = b /\ r[3] = c /\ r[4] = d /\ r[5] = e
  OBVIOUS
<1> HIDE DEF s, r
<1>3. /\ Append(s, e) \in Seq(A) /\ Len(Append(s, e)) = Len(s) + 1
      /\ \A i \in 1..Len(s) : Append(s, e)[i] = s[i]
      /\ Append(s, e)[Len(s) + 1] = e
  BY <1>1, OneMore
<1>4. \A i \in 1..5 : i = 1 \/ i = 2 \/ i = 3 \/ i = 4 \/ i = 5
  OBVIOUS
<1>5. Append(s, e) = r
  BY <1>1, <1>2, <1>3, <1>4, SeqEqual
<1>. QED
  BY <1>5 DEF s, r

(* The ids of the calls in what f makes of a part.                         *)
IdsOf(f, A) == [x \in A |-> Each(IdF, OnlyTools(f[x]))]

(* The calls heard in a sequence are those of its parts, one after the     *)
(* other.                                                                  *)
LEMMA IdsByPart ==
    ASSUME NEW A, NEW f, IsMap(f, A, Things)
    PROVE  /\ IsMap(IdsOf(f, A), A, Nat)
           /\ \A s \in Seq(A) : Each(IdF, OnlyTools(Mapped(f, s))) = Mapped(IdsOf(f, A), s)
<1> DEFINE g == OnlyT(f, A)
           h == IdsOf(f, A)
<1>1. \A x \in A : f[x] \in Seq(Things)
  BY DEF IsMap
<1>2. \A x \in A : g[x] = OnlyTools(f[x]) /\ g[x] \in Seq(Things)
  BY <1>1, OnlyFacts DEF OnlyT
<1>3. \A x \in A : h[x] = Each(IdF, g[x])
  BY <1>2 DEF IdsOf
<1>4. \A s \in Seq(A) : OnlyTools(Mapped(f, s)) = Mapped(g, s)
  BY OnlyMapped
<1> HIDE DEF g
<1>5. \A x \in A : h[x] \in Seq(Nat)
  BY <1>2, <1>3, IdFacts, EachFacts
<1> HIDE DEF h
<1>6. IsMap(g, A, Things) /\ IsMap(h, A, Nat)
  BY <1>2, <1>5 DEF IsMap
<1>7. IsFcn(IdF, Things, Nat)
  BY IdFacts
<1>8. \A s \in Seq(A) : Each(IdF, Mapped(g, s)) = Mapped(h, s)
  BY <1>3, <1>6, <1>7, MappedThenEach
<1>. QED
  BY <1>4, <1>6, <1>8 DEF h

(* The ids an upstream may give the calls of its answer in turn t.         *)
IdsAt(t) == {<<>>, <<10 * t + 1>>, <<10 * t + 1, 10 * t + 2>>}

(* The ids in a block of Anthropic's and in an item of OpenAI Responses.   *)
LEMMA IdsOfParts ==
    /\ IsMap(IdsOf(HearA, AssistantA), AssistantA, Nat) /\ IsMap(IdsOf(HearI, AnsR), AnsR, Nat)
    /\ \A b \in AssistantA : IdsOf(HearA, AssistantA)[b] = IF b.type = "tool_use" THEN <<b.id>> ELSE <<>>
    /\ \A it \in AnsR : IdsOf(HearI, AnsR)[it] = IF it.type = "function_call" THEN <<it.call>> ELSE <<>>
<1>1. IsMap(HearA, AssistantA, Things) /\ IsMap(HearI, AnsR, Things)
  BY OnlyCalls, HearIFacts
<1>2. IsMap(IdsOf(HearA, AssistantA), AssistantA, Nat) /\ IsMap(IdsOf(HearI, AnsR), AnsR, Nat)
  BY <1>1, IdsByPart
<1>3. Each(IdF, <<>>) = <<>>
  BY IdFacts, EachFacts
<1>4. ASSUME NEW n \in Nat PROVE Each(IdF, <<Called(n)>>) = <<n>>
  <2>1. IdF[Called(n)] = n
    BY IdFacts
  <2>2. Each(IdF, <<Called(n)>>) = <<IdF[Called(n)]>>
    BY DEF Each
  <2>. QED
    BY <2>1, <2>2
<1>5. ASSUME NEW b \in AssistantA
      PROVE  IdsOf(HearA, AssistantA)[b] = IF b.type = "tool_use" THEN <<b.id>> ELSE <<>>
  <2>1. IdsOf(HearA, AssistantA)[b] = Each(IdF, OnlyTools(HearA[b]))
    BY DEF IdsOf
  <2>2. CASE b.type = "tool_use"
    <3>1. b \in UseA /\ OnlyTools(HearA[b]) = <<Called(b.id)>>
      BY <2>2, OnlyCalls
    <3>2. b.id \in Nat
      BY <3>1 DEF UseA
    <3>. QED
      BY <1>4, <2>1, <2>2, <3>1, <3>2
  <2>3. CASE b.type # "tool_use"
    BY <1>3, <2>1, <2>3, OnlyCalls
  <2>. QED
    BY <2>2, <2>3
<1>6. ASSUME NEW it \in AnsR
      PROVE  IdsOf(HearI, AnsR)[it] = IF it.type = "function_call" THEN <<it.call>> ELSE <<>>
  <2>1. IdsOf(HearI, AnsR)[it] = Each(IdF, OnlyTools(HearI[it]))
    BY DEF IdsOf
  <2>2. CASE it.type = "function_call"
    <3>1. it \in CallR /\ OnlyTools(HearI[it]) = <<Called(it.call)>>
      BY <2>2, OnlyCalls
    <3>2. it.call \in Nat
      BY <3>1 DEF CallR
    <3>. QED
      BY <1>4, <2>1, <2>2, <3>1, <3>2
  <2>3. CASE it.type # "function_call"
    BY <1>3, <2>1, <2>3, OnlyCalls
  <2>. QED
    BY <2>2, <2>3
<1>. QED
  BY <1>2, <1>5, <1>6

(* The calls of an answer are the ids of its parts.                        *)
LEMMA IdsInAnswer ==
    /\ \A w : IsAnswer("anthropic", w) =>
          CallsIn("anthropic", w) = Mapped(IdsOf(HearA, AssistantA), w.content)
    /\ \A w : IsAnswer("openai_responses", w) =>
          CallsIn("openai_responses", w) = Mapped(IdsOf(HearI, AnsR), w.output)
<1>1. IsMap(HearA, AssistantA, Things) /\ IsMap(HearI, AnsR, Things)
  BY OnlyCalls, HearIFacts
<1>2. ASSUME NEW w, IsAnswer("anthropic", w)
      PROVE  CallsIn("anthropic", w) = Mapped(IdsOf(HearA, AssistantA), w.content)
  <2>1. CallsIn("anthropic", w) = Each(IdF, OnlyTools(InAnswer("anthropic", w)))
    BY <1>2, CallsInAnswer DEF Protocols
  <2>2. w.content \in Seq(AssistantA) /\ InAnswer("anthropic", w) = Mapped(HearA, w.content)
    BY <1>2, AnswersHeard
  <2>. QED
    BY <1>1, <2>1, <2>2, IdsByPart
<1>3. ASSUME NEW w, IsAnswer("openai_responses", w)
      PROVE  CallsIn("openai_responses", w) = Mapped(IdsOf(HearI, AnsR), w.output)
  <2>1. CallsIn("openai_responses", w) = Each(IdF, OnlyTools(InAnswer("openai_responses", w)))
    BY <1>3, CallsInAnswer DEF Protocols
  <2>2. w.output \in Seq(AnsR) /\ InAnswer("openai_responses", w) = Mapped(HearI, w.output)
    BY <1>3, AnswersHeard
  <2>. QED
    BY <1>1, <2>1, <2>2, IdsByPart
<1>. QED
  BY <1>2, <1>3

(* Concatenations of at most one id each.                                  *)
LEMMA FewIds ==
    \A a, b \in Nat :
       /\ <<>> \o <<>> = <<>> /\ <<>> \o <<a>> = <<a>> /\ <<a>> \o <<>> = <<a>>
       /\ <<a>> \o <<b>> = <<a, b>>
<1> TAKE a, b \in Nat
<1>1. <<a>> \o <<b>> = <<a, b>> /\ <<a>> \o <<>> = <<a>>
  BY Pairs
<1>2. <<a>> \in Seq(Nat) /\ <<>> \in Seq(Nat)
  BY OneThing
<1>3. <<>> \o <<a>> = <<a>> /\ <<>> \o <<>> = <<>>
  BY <1>2, ConcatEmptySeq
<1>. QED
  BY <1>1, <1>3

(* The ids an Anthropic upstream's answer has,                             *)
LEMMA AIdsAt ==
    \A t \in Nat : \A w \in AnthropicAnswers(t) : CallsIn("anthropic", w) \in IdsAt(t)
<1> TAKE t \in Nat
<1> DEFINE say(k)  == [type |-> "text", text |-> <<10 * t + k>>]
           call(k) == [type |-> "tool_use", id |-> 10 * t + k, input |-> "object"]
           think   == [type |-> "thinking", text |-> <<10 * t + 9>>, signature |-> "signed"]
           hidden  == [type |-> "redacted_thinking", data |-> t]
           s1 == say(1)
           s2 == say(2)
           c1 == call(1)
           c2 == call(2)
           n1 == 10 * t + 1
           n2 == 10 * t + 2
           f  == IdsOf(HearA, AssistantA)
           o1 == <<s1>>
           o2 == <<think, s1>>
           o3 == <<think, s1, c1, c2>>
           o4 == <<hidden, c1, s2>>
<1>1. ASSUME NEW w \in AnthropicAnswers(t)
      PROVE  w.content = <<>> \/ w.content = o1 \/ w.content = o2 \/ w.content = o3 \/ w.content = o4
  <2>1. AnthropicAnswers(t) = [content : {<<>>, o1, o2, o3, o4}, stop_reason : AnthropicStops]
    BY DEF AnthropicAnswers
  <2> HIDE DEF o1, o2, o3, o4
  <2>. QED
    BY <2>1
<1>2. \A k \in Nat : say(k) \in AssistantA /\ say(k).type # "tool_use"
  BY Numbers DEF AssistantA, TextA
<1>3. \A k \in Nat : call(k) \in AssistantA /\ call(k).type = "tool_use" /\ call(k).id = 10 * t + k
  BY Numbers DEF AssistantA, UseA, Args
<1>4. think \in AssistantA /\ think.type # "tool_use"
  BY Numbers DEF AssistantA, ThinkA, Marks
<1>5. hidden \in AssistantA /\ hidden.type # "tool_use"
  BY DEF AssistantA, HiddenA
<1>6. /\ s1 \in AssistantA /\ s2 \in AssistantA /\ c1 \in AssistantA /\ c2 \in AssistantA
      /\ s1.type # "tool_use" /\ s2.type # "tool_use" /\ c1.type = "tool_use" /\ c2.type = "tool_use"
      /\ c1.id = n1 /\ c2.id = n2 /\ n1 \in Nat /\ n2 \in Nat
  BY <1>2, <1>3
<1> HIDE DEF s1, s2, c1, c2, think, hidden, say, call
<1>8. /\ f[s1] = <<>> /\ f[s2] = <<>> /\ f[think] = <<>> /\ f[hidden] = <<>>
      /\ f[c1] = <<n1>> /\ f[c2] = <<n2>>
  BY <1>4, <1>5, <1>6, IdsOfParts
<1>9. IsMap(f, AssistantA, Nat)
  BY IdsOfParts
<1>10. <<>> \in IdsAt(t) /\ <<n1>> \in IdsAt(t) /\ <<n1, n2>> \in IdsAt(t)
  BY DEF IdsAt
<1>11. ASSUME NEW w \in AnthropicAnswers(t) PROVE CallsIn("anthropic", w) = Mapped(f, w.content)
  <2>1. IsAnswer("anthropic", w)
    BY AAnswersAre DEF IsAnswer
  <2>. QED
    BY <2>1, IdsInAnswer
<1> HIDE DEF f, n1, n2
<1> DEFINE a1 == <<think>>
           a2 == <<think, s1>>
           a3 == <<think, s1, c1>>
           a4 == <<think, s1, c1, c2>>
           b1 == <<hidden>>
           b2 == <<hidden, c1>>
           b3 == <<hidden, c1, s2>>
<1>12. /\ a1 \in Seq(AssistantA) /\ a2 \in Seq(AssistantA) /\ a3 \in Seq(AssistantA)
       /\ b1 \in Seq(AssistantA) /\ b2 \in Seq(AssistantA)
  BY <1>4, <1>5, <1>6, Tuples
<1>13. /\ a2 = Append(a1, s1) /\ a3 = Append(a2, c1) /\ a4 = Append(a3, c2)
       /\ b2 = Append(b1, c1) /\ b3 = Append(b2, s2)
  <2> DEFINE A == AssistantA
  <2>1. think \in A /\ hidden \in A /\ s1 \in A /\ s2 \in A /\ c1 \in A /\ c2 \in A
    BY <1>4, <1>5, <1>6
  <2> HIDE DEF A
  <2>2. a2 = Append(a1, s1) /\ b2 = Append(b1, c1)
    BY ONLY <2>1, Pairs
  <2>3. a3 = Append(a2, c1)
    BY ONLY <2>1, Append3
  <2>4. a4 = Append(a3, c2)
    BY ONLY <2>1, Append4
  <2>5. b3 = Append(b2, s2)
    BY ONLY <2>1, Append3
  <2>. QED
    BY <2>2, <2>3, <2>4, <2>5
<1>14. /\ Mapped(f, <<>>) = <<>> /\ Mapped(f, <<s1>>) = <<>> /\ Mapped(f, a1) = <<>> /\ Mapped(f, b1) = <<>>
       /\ \A s \in Seq(AssistantA) : \A x \in AssistantA : Mapped(f, Append(s, x)) = Mapped(f, s) \o f[x]
  BY <1>4, <1>5, <1>6, <1>8, <1>9, MappedFacts
<1> HIDE DEF a1, a2, a3, a4, b1, b2, b3
<1>15. /\ Mapped(f, a2) = Mapped(f, a1) \o f[s1] /\ Mapped(f, a3) = Mapped(f, a2) \o f[c1]
       /\ Mapped(f, a4) = Mapped(f, a3) \o f[c2]
       /\ Mapped(f, b2) = Mapped(f, b1) \o f[c1] /\ Mapped(f, b3) = Mapped(f, b2) \o f[s2]
  BY <1>6, <1>12, <1>13, <1>14
<1>16. /\ <<>> \o <<>> = <<>> /\ <<>> \o <<n1>> = <<n1>> /\ <<n1>> \o <<n2>> = <<n1, n2>>
       /\ <<n1>> \o <<>> = <<n1>>
  BY <1>6, FewIds
<1>17. Mapped(f, a2) = <<>> /\ Mapped(f, a4) = <<n1, n2>> /\ Mapped(f, b3) = <<n1>>
  <2>1. Mapped(f, a2) = <<>> /\ Mapped(f, b2) = <<n1>>
    BY <1>8, <1>14, <1>15, <1>16
  <2>2. Mapped(f, a3) = <<n1>> /\ Mapped(f, b3) = <<n1>>
    BY <1>8, <1>15, <1>16, <2>1
  <2>3. Mapped(f, a4) = <<n1, n2>>
    BY <1>8, <1>15, <1>16, <2>2
  <2>. QED
    BY <2>1, <2>2, <2>3
<1> TAKE w \in AnthropicAnswers(t)
<1>18. w.content = <<>> \/ w.content = a2 \/ w.content = <<s1>> \/ w.content = a4 \/ w.content = b3
  BY <1>1 DEF a2, a4, b3
<1>19. CallsIn("anthropic", w) \in {<<>>, <<n1>>, <<n1, n2>>}
  BY <1>11, <1>14, <1>17, <1>18
<1>. QED
  BY <1>10, <1>19

(* those of Chat Completions,                                              *)
LEMMA UIdsAt ==
    \A t \in Nat : \A w \in ChatAnswers(t) : CallsIn("openai_chat", w) \in IdsAt(t)
<1> TAKE t \in Nat
<1> DEFINE call(k, args) == [id |-> 10 * t + k, arguments |-> args]
           say   == <<10 * t + 1>>
           think == <<10 * t + 9>>
           c1    == call(1, "object")
           d1    == call(1, "invalid")
           d2    == call(2, "none")
           one   == <<c1>>
           two   == <<d1, d2>>
           n1    == 10 * t + 1
           n2    == 10 * t + 2
<1>1. ChatAnswers(t) = [content : {<<>>, say}, tool_calls : {<<>>, one, two}, reasoning : {<<>>, think},
                        finish_reason : ChatFinishes]
  BY DEF ChatAnswers
<1>2. c1.id = n1 /\ d1.id = n1 /\ d2.id = n2
  OBVIOUS
<1> HIDE DEF c1, d1, d2, say, think, call, n1, n2
<1>3. /\ MapSeq(LAMBDA tc : tc.id, one) = <<n1>> /\ MapSeq(LAMBDA tc : tc.id, two) = <<n1, n2>>
      /\ MapSeq(LAMBDA tc : tc.id, <<>>) = <<>>
  BY <1>2 DEF MapSeq
<1> HIDE DEF one, two
<1>4. ASSUME NEW w \in ChatAnswers(t)
      PROVE  w.tool_calls = <<>> \/ w.tool_calls = one \/ w.tool_calls = two
  BY <1>1
<1>5. <<>> \in IdsAt(t) /\ <<n1>> \in IdsAt(t) /\ <<n1, n2>> \in IdsAt(t)
  BY DEF IdsAt, n1, n2
<1> TAKE w \in ChatAnswers(t)
<1>6. CallsIn("openai_chat", w) = MapSeq(LAMBDA tc : tc.id, w.tool_calls)
  BY DEF CallsIn
<1>. QED
  BY <1>3, <1>4, <1>5, <1>6

(* those of OpenAI Responses,                                              *)
LEMMA RIdsAt ==
    \A t \in Nat : \A w \in ResponsesAnswers(t) : CallsIn("openai_responses", w) \in IdsAt(t)
<1> TAKE t \in Nat
<1> DEFINE part(k, type) == [type |-> type, text |-> <<10 * t + k>>]
           refusal(k)    == [type |-> "refusal", refusal |-> <<10 * t + k>>]
           say(k, type)  == MessageItem("assistant", <<part(k, type)>>)
           no(k)         == MessageItem("assistant", <<refusal(k)>>)
           call(k, args) == CallItem(10 * t + k, args)
           think         == ReasoningItem(<<10 * t + 9>>, t)
           s  == say(1, "output_text")
           n  == no(1)
           c  == call(1, "object")
           d  == call(2, "invalid")
           n1 == 10 * t + 1
           n2 == 10 * t + 2
           f  == IdsOf(HearI, AnsR)
           o1 == <<think, s>>
           o2 == <<n>>
           o3 == <<s>>
           o4 == <<think, s, c, think, d>>
<1>1. ASSUME NEW w \in ResponsesAnswers(t)
      PROVE  w.output = <<>> \/ w.output = o1 \/ w.output = o2 \/ w.output = o3 \/ w.output = o4
  <2>1. ResponsesAnswers(t) = [output : {<<>>, o1, o2, o3, o4}, status : ResponsesStatus]
    BY DEF ResponsesAnswers
  <2> HIDE DEF o1, o2, o3, o4
  <2>. QED
    BY <2>1
<1>2. s \in AnsR /\ s.type = "message"
  <2> DEFINE p == part(1, "output_text")
  <2>1. p \in SaidR
    BY Numbers DEF SaidR, TextR
  <2> HIDE DEF p, part
  <2>2. <<p>> \in Seq(SaidR)
    BY <2>1
  <2>3. s = MessageItem("assistant", <<p>>)
    BY DEF p
  <2> HIDE DEF s
  <2>. QED
    BY <2>2, <2>3, MessageItemFacts DEF AnsR
<1>3. n \in AnsR /\ n.type = "message"
  <2> DEFINE p == refusal(1)
  <2>1. p \in SaidR
    BY Numbers DEF SaidR, RefusalR
  <2> HIDE DEF p, refusal
  <2>2. <<p>> \in Seq(SaidR)
    BY <2>1
  <2>3. n = MessageItem("assistant", <<p>>)
    BY DEF p
  <2> HIDE DEF n
  <2>. QED
    BY <2>2, <2>3, MessageItemFacts DEF AnsR
<1>4. /\ c \in AnsR /\ d \in AnsR /\ think \in AnsR
      /\ c.type = "function_call" /\ d.type = "function_call" /\ think.type = "reasoning"
      /\ c.call = n1 /\ d.call = n2 /\ n1 \in Nat /\ n2 \in Nat
  <2>1. n1 \in Nat /\ n2 \in Nat /\ <<10 * t + 9>> \in Texts
    BY Numbers
  <2>2. "object" \in Args /\ "invalid" \in Args
    BY DEF Args
  <2>3. c \in AnsR /\ d \in AnsR /\ think \in AnsR
    BY <2>1, <2>2, ItemsAre
  <2>4. c.type = "function_call" /\ d.type = "function_call" /\ think.type = "reasoning"
        /\ c.call = n1 /\ d.call = n2
    BY DEF CallItem, ReasoningItem
  <2>. QED
    BY <2>1, <2>3, <2>4
<1> HIDE DEF s, n, c, d, think, say, no, call, part, refusal
<1>5. f[s] = <<>> /\ f[n] = <<>> /\ f[think] = <<>> /\ f[c] = <<n1>> /\ f[d] = <<n2>>
  BY <1>2, <1>3, <1>4, IdsOfParts
<1>6. IsMap(f, AnsR, Nat)
  BY IdsOfParts
<1>7. <<>> \in IdsAt(t) /\ <<n1>> \in IdsAt(t) /\ <<n1, n2>> \in IdsAt(t)
  BY DEF IdsAt
<1>8. ASSUME NEW w \in ResponsesAnswers(t) PROVE CallsIn("openai_responses", w) = Mapped(f, w.output)
  <2>1. IsAnswer("openai_responses", w)
    BY RAnswersAre DEF IsAnswer
  <2>. QED
    BY <2>1, IdsInAnswer
<1> DEFINE a1 == <<think>>
           a2 == <<think, s>>
           a3 == <<think, s, c>>
           a4 == <<think, s, c, think>>
           a5 == <<think, s, c, think, d>>
<1>9. ASSUME NEW w \in ResponsesAnswers(t)
      PROVE  w.output = <<>> \/ w.output = a2 \/ w.output = <<n>> \/ w.output = <<s>> \/ w.output = a5
  BY <1>1
<1> HIDE DEF f, n1, n2
<1>10. a1 \in Seq(AnsR) /\ a2 \in Seq(AnsR) /\ a3 \in Seq(AnsR) /\ a4 \in Seq(AnsR)
  BY <1>2, <1>4, Tuples
<1>11. a2 = Append(a1, s) /\ a3 = Append(a2, c) /\ a4 = Append(a3, think) /\ a5 = Append(a4, d)
  <2> DEFINE A == AnsR
  <2>1. think \in A /\ s \in A /\ c \in A /\ d \in A
    BY <1>2, <1>4
  <2> HIDE DEF A
  <2>2. a2 = Append(a1, s)
    BY ONLY <2>1, Pairs
  <2>3. a3 = Append(a2, c)
    BY ONLY <2>1, Append3
  <2>4. a4 = Append(a3, think)
    BY ONLY <2>1, Append4
  <2>5. a5 = Append(a4, d)
    BY ONLY <2>1, Append5
  <2>. QED
    BY <2>2, <2>3, <2>4, <2>5
<1>12. /\ Mapped(f, <<>>) = <<>> /\ Mapped(f, <<s>>) = <<>> /\ Mapped(f, <<n>>) = <<>> /\ Mapped(f, a1) = <<>>
       /\ \A x \in Seq(AnsR) : \A y \in AnsR : Mapped(f, Append(x, y)) = Mapped(f, x) \o f[y]
  BY <1>2, <1>3, <1>4, <1>5, <1>6, MappedFacts
<1> HIDE DEF a1, a2, a3, a4, a5
<1>13. /\ Mapped(f, a2) = Mapped(f, a1) \o f[s] /\ Mapped(f, a3) = Mapped(f, a2) \o f[c]
       /\ Mapped(f, a4) = Mapped(f, a3) \o f[think] /\ Mapped(f, a5) = Mapped(f, a4) \o f[d]
  BY <1>2, <1>4, <1>10, <1>11, <1>12
<1>14. /\ <<>> \o <<>> = <<>> /\ <<>> \o <<n1>> = <<n1>> /\ <<n1>> \o <<n2>> = <<n1, n2>>
       /\ <<n1>> \o <<>> = <<n1>>
  BY <1>4, FewIds
<1>15. Mapped(f, a2) = <<>> /\ Mapped(f, a5) = <<n1, n2>>
  <2>1. Mapped(f, a2) = <<>>
    BY <1>5, <1>12, <1>13, <1>14
  <2>2. Mapped(f, a3) = <<n1>>
    BY <1>5, <1>13, <1>14, <2>1
  <2>3. Mapped(f, a4) = <<n1>>
    BY <1>5, <1>13, <1>14, <2>2
  <2>4. Mapped(f, a5) = <<n1, n2>>
    BY <1>5, <1>13, <1>14, <2>3
  <2>. QED
    BY <2>1, <2>4
<1> TAKE w \in ResponsesAnswers(t)
<1>16. CallsIn("openai_responses", w) \in {<<>>, <<n1, n2>>}
  BY <1>8, <1>9, <1>12, <1>15
<1>. QED
  BY <1>7, <1>16

(* and those of any.                                                       *)
LEMMA IdsAnswered ==
    ASSUME NEW p \in Protocols, NEW t \in Nat, NEW w \in Answers(p, t)
    PROVE  CallsIn(p, w) \in IdsAt(t)
<1>1. p \in {"anthropic", "openai_chat", "openai_responses"}
  BY DEF Protocols
<1>. QED
  BY <1>1, AIdsAt, UIdsAt, RIdsAt DEF Answers

(* Distinct ids in the range after lo up to hi.                            *)
Fresh(lo, hi, ids) ==
    /\ ids \in Seq(Nat)
    /\ \A i \in DOMAIN ids : lo < ids[i] /\ ids[i] <= hi
    /\ \A i, j \in DOMAIN ids : ids[i] = ids[j] => i = j

(* The ids of a turn are distinct and later than those of earlier turns.   *)
LEMMA IdsFresh ==
    ASSUME NEW t \in Nat, NEW ids \in IdsAt(t)
    PROVE  Fresh(10 * t, 10 * t + 9, ids)
<1> DEFINE n1 == 10 * t + 1
           n2 == 10 * t + 2
<1>1. n1 \in Nat /\ n2 \in Nat /\ 10 * t < n1 /\ n1 < n2 /\ n2 <= 10 * t + 9
  OBVIOUS
<1>2. ids \in {<<>>, <<n1>>, <<n1, n2>>}
  BY DEF IdsAt
<1> HIDE DEF n1, n2
<1> DEFINE hi == 10 * t + 9
           lo == 10 * t
<1>3. lo < n1 /\ n1 < n2 /\ n2 <= hi /\ lo \in Nat /\ hi \in Nat
  BY <1>1
<1> HIDE DEF lo, hi
<1>4. ids = <<>> => Fresh(lo, hi, ids)
  BY DEF Fresh
<1>5. ids = <<n1>> => Fresh(lo, hi, ids)
  BY <1>1, <1>3 DEF Fresh
<1>6. ids = <<n1, n2>> => Fresh(lo, hi, ids)
  BY <1>1, <1>3 DEF Fresh
<1>. QED
  BY <1>2, <1>4, <1>5, <1>6 DEF lo, hi

-----------------------------------------------------------------------------
(***************************************************************************)
(* What the client replies, in the IR.                                     *)
(***************************************************************************)

(* A result as a message of its own, the id it answers, and what a user or *)
(* the system may say.                                                     *)
ToolF    == [c \in ResultC |-> Message("tool", <<c>>)]
ResId    == [c \in ResultC |-> c.id]
UserSaid == {Message("user", c) : c \in Seq(TextC \cup ImageC)}
Noted    == {Message("system", c) : c \in Seq(TextC)}

(* The message that an item of the client's starts.                        *)
StartOf(it) ==
    IF it.type = "function_call_output" THEN ToolF[ToolResult(it.call, it.output, FALSE)]
    ELSE Message(IF it.role = "user" THEN "user" ELSE "system", ResponsesContentToIR(it.content))
StartF == [it \in Asks |-> StartOf(it)]

(* Results as messages of their own, user and system messages, in the IR.  *)
LEMMA ToolFFacts ==
    /\ IsFcn(ToolF, ResultC, IRMessages) /\ IsFcn(ResId, ResultC, Nat)
    /\ \A c \in ResultC : ToolF[c] = Message("tool", <<c>>) /\ ResId[c] = c.id
    /\ UserSaid \subseteq IRMessages /\ Noted \subseteq IRMessages
<1>1. \A c \in ResultC : ToolF[c] = Message("tool", <<c>>) /\ ResId[c] = c.id
  BY DEF ToolF, ResId
<1>2. ASSUME NEW c \in ResultC PROVE ToolF[c] \in IRMessages
  <2>1. <<c>> \in Seq(ResultC)
    BY OneThing
  <2>2. Message("tool", <<c>>) \in IRMessages
    BY <2>1, MoreTypes
  <2>. QED
    BY <1>1, <2>2
<1>3. ASSUME NEW c \in ResultC PROVE ResId[c] \in Nat
  <2>1. c.id \in Nat
    BY DEF ResultC
  <2>. QED
    BY <1>1, <2>1
<1>4. UserSaid \subseteq IRMessages
  BY MoreTypes DEF UserSaid
<1>5. Noted \subseteq IRMessages
  BY MoreTypes DEF Noted
<1>. QED
  BY <1>1, <1>2, <1>3, <1>4, <1>5 DEF IsFcn

(* An item that is the client's starts a message.                          *)
LEMMA AskStarts ==
    /\ \A it \in Asks : StartF[it] = StartOf(it)
    /\ \A it \in OutR : /\ StartF[it] = ToolF[ToolResult(it.call, it.output, FALSE)]
                        /\ ToolResult(it.call, it.output, FALSE) \in ResultC
    /\ \A it \in UserR : StartF[it] \in UserSaid
    /\ \A it \in DevR : StartF[it] \in Noted
    /\ IsFcn(StartF, Asks, IRMessages)
    /\ \A it \in Asks : Starts(it, StartF[it])
<1>1. \A it \in Asks : StartF[it] = StartOf(it)
  BY DEF StartF
<1>2. ASSUME NEW it \in OutR
      PROVE  /\ StartF[it] = ToolF[ToolResult(it.call, it.output, FALSE)]
             /\ ToolResult(it.call, it.output, FALSE) \in ResultC
             /\ Starts(it, StartF[it])
  <2> DEFINE c == ToolResult(it.call, it.output, FALSE)
  <2>1. it \in Asks /\ it.type = "function_call_output" /\ it.call \in Nat /\ it.output \in Outs
    BY DEF Asks, OutR
  <2>2. c \in ResultC
    BY <2>1, BlocksAre
  <2>3. StartF[it] = ToolF[c]
    BY <1>1, <2>1 DEF StartOf
  <2>4. ToolF[c] = Message("tool", <<c>>)
    BY <2>2, ToolFFacts
  <2>5. Starts(it, Message("tool", <<c>>))
    BY <2>1 DEF Starts, AddItem
  <2> HIDE DEF c
  <2>6. Starts(it, StartF[it])
    BY <2>3, <2>4, <2>5
  <2>. QED
    BY <2>2, <2>3, <2>6 DEF c
<1>3. ASSUME NEW it \in UserR PROVE StartF[it] \in UserSaid /\ Starts(it, StartF[it])
  <2> DEFINE c == ResponsesContentToIR(it.content)
  <2>1. it \in Asks /\ it.type = "message" /\ it.role = "user" /\ it.content \in Seq(TextR \cup ImageR)
    BY MessageItemFacts DEF Asks
  <2>2. c \in Seq(TextC \cup ImageC)
    BY <2>1, MorePartsR, ContentRToIR
  <2>3. StartF[it] = Message("user", c)
    BY <1>1, <2>1 DEF StartOf
  <2>4. Starts(it, Message("user", c))
    BY <2>1 DEF Starts, AddItem
  <2> HIDE DEF c
  <2>. QED
    BY <2>2, <2>3, <2>4 DEF UserSaid
<1>4. ASSUME NEW it \in DevR PROVE StartF[it] \in Noted /\ Starts(it, StartF[it])
  <2> DEFINE c == ResponsesContentToIR(it.content)
  <2>1. it \in Asks /\ it.type = "message" /\ it.role = "developer" /\ it.content \in Seq(TextR)
    BY MessageItemFacts DEF Asks
  <2>2. c \in Seq(TextC)
    BY <2>1, MorePartsR, ContentRToIR
  <2>3. StartF[it] = Message("system", c)
    BY <1>1, <2>1 DEF StartOf
  <2>4. Starts(it, Message("system", c))
    BY <2>1 DEF Starts, AddItem
  <2> HIDE DEF c
  <2>. QED
    BY <2>2, <2>3, <2>4 DEF Noted
<1>5. \A it \in Asks : StartF[it] \in IRMessages
  BY <1>2, <1>3, <1>4, ToolFFacts DEF Asks, IsFcn
<1>6. \A it \in Asks : Starts(it, StartF[it])
  BY <1>2, <1>3, <1>4 DEF Asks
<1>. QED
  BY <1>1, <1>2, <1>3, <1>4, <1>5, <1>6 DEF IsFcn

(* What the client adds to its items becomes messages after those that     *)
(* were there.                                                             *)
LEMMA GatheredAsks ==
    ASSUME NEW k \in Seq(RItems)
    PROVE  \A m \in Seq(Asks) : Gathered(k \o m) = Gathered(k) \o Each(StartF, m)
<1> DEFINE P == {m \in Seq(Asks) : Gathered(k \o m) = Gathered(k) \o Each(StartF, m)}
           none == <<>>
<1>0. IsFcn(StartF, Asks, IRMessages) /\ Gathered(k) \in Seq(IRMessages) /\ Seq(Asks) \subseteq Seq(RItems)
  BY AskStarts, GatheredFacts, AsksFacts, SeqOfMore
<1>1. none \in P
  <2>1. none \in Seq(Asks) /\ k \o none = k /\ Gathered(k) \o none = Gathered(k)
    BY <1>0, ConcatEmptySeq, EmptySeq
  <2>2. Each(StartF, none) = none
    BY <1>0, EachFacts
  <2> HIDE DEF none
  <2>. QED
    BY <2>1, <2>2
<1>2. ASSUME NEW m \in Seq(Asks), m \in P, NEW it \in Asks
      PROVE  Append(m, it) \in P
  <2>1. m \in Seq(RItems) /\ it \in RItems /\ Append(m, it) \in Seq(Asks)
    BY <1>0, AsksFacts, AppendProperties
  <2>2. k \o Append(m, it) = Append(k \o m, it) /\ k \o m \in Seq(RItems)
    BY <2>1, AppendConcat, ConcatProperties
  <2>3. Gathered(k \o m) \in Seq(IRMessages) /\ Gathered(Append(k \o m, it)) = AddItem(Gathered(k \o m), it)
    BY <2>1, <2>2, GatheredFacts
  <2>4. Starts(it, StartF[it]) /\ StartF[it] \in IRMessages
    BY AskStarts DEF IsFcn
  <2>5. AddItem(Gathered(k \o m), it) = Append(Gathered(k \o m), StartF[it])
    BY <2>3, <2>4 DEF Starts
  <2>6. Gathered(k \o m) = Gathered(k) \o Each(StartF, m)
    BY <1>2
  <2>7. Each(StartF, Append(m, it)) = Append(Each(StartF, m), StartF[it]) /\ Each(StartF, m) \in Seq(IRMessages)
    BY <1>0, EachAppend, EachFacts
  <2> DEFINE g == Gathered(k)
             e == Each(StartF, m)
             x == StartF[it]
  <2>8. g \in Seq(IRMessages) /\ e \in Seq(IRMessages) /\ x \in IRMessages
    BY <1>0, <2>4, <2>7
  <2> HIDE DEF g, e, x
  <2>9. g \o Append(e, x) = Append(g \o e, x)
    BY <2>8, AppendConcat
  <2>10. Gathered(k \o Append(m, it)) = Append(g \o e, x)
    BY <2>2, <2>3, <2>5, <2>6 DEF g, e, x
  <2>11. Gathered(k) \o Each(StartF, Append(m, it)) = g \o Append(e, x)
    BY <2>7 DEF g, e, x
  <2>. QED
    BY <2>1, <2>9, <2>10, <2>11
<1> HIDE DEF P
<1>3. Seq(Asks) \subseteq P
  BY <1>1, <1>2, SeqInduction DEF none
<1>. QED
  BY <1>3 DEF P

(* What the client may add to its history in protocol q, and the IR        *)
(* message each becomes.                                                   *)
Bits(q) == CASE q = "anthropic"        -> AMessages
             [] q = "openai_chat"      -> ChatMs
             [] q = "openai_responses" -> Asks

Turn(q) == CASE q = "anthropic"        -> AMToIR
             [] q = "openai_chat"      -> UMToIR
             [] q = "openai_responses" -> StartF

(* In each protocol, what the client adds becomes messages after those     *)
(* that were there.                                                        *)
LEMMA TurnFacts ==
    ASSUME NEW q \in Protocols
    PROVE  /\ Seq(Bits(q)) \subseteq Past(q) /\ IsFcn(Turn(q), Bits(q), IRMessages)
           /\ \A k \in Past(q) : \A m \in Seq(Bits(q)) : Turned(q, k \o m) = Turned(q, k) \o Each(Turn(q), m)
           /\ \A m \in Seq(Bits(q)) : Turned(q, m) = Each(Turn(q), m)
<1>1. CASE q = "anthropic"
  <2>1. Bits(q) = AMessages /\ Past(q) = Seq(AMessages) /\ Turn(q) = AMToIR
    BY <1>1 DEF Bits, Past, Turn
  <2>2. \A h : Turned(q, h) = Each(AMToIR, h)
    BY <1>1 DEF Turned
  <2>3. IsFcn(AMToIR, AMessages, IRMessages)
    BY AMToIRFacts
  <2>4. \A k, m \in Seq(AMessages) : Each(AMToIR, k \o m) = Each(AMToIR, k) \o Each(AMToIR, m)
    BY <2>3, EachConcat
  <2>7. ASSUME NEW k \in Past(q), NEW m \in Seq(Bits(q))
        PROVE  Turned(q, k \o m) = Turned(q, k) \o Each(Turn(q), m)
    <3>1. k \in Seq(AMessages) /\ m \in Seq(AMessages)
      BY <2>1
    <3>3. Each(AMToIR, k \o m) = Each(AMToIR, k) \o Each(AMToIR, m)
      BY <3>1, <2>4
    <3>2. Turned(q, k \o m) = Turned(q, k) \o Each(AMToIR, m)
      BY <3>3, <2>2
    <3>. QED
      BY <3>2, <2>1
  <2>8. ASSUME NEW m \in Seq(Bits(q)) PROVE Turned(q, m) = Each(Turn(q), m)
    BY <2>1, <2>2
  <2>9. Seq(Bits(q)) \subseteq Past(q)
    BY <2>1
  <2>10. IsFcn(Turn(q), Bits(q), IRMessages)
    BY <2>1, <2>3
  <2>. QED
    BY <2>7, <2>8, <2>9, <2>10
<1>2. CASE q = "openai_chat"
  <2>1. Bits(q) = ChatMs /\ Past(q) = Seq(ChatMs) /\ Turn(q) = UMToIR
    BY <1>2 DEF Bits, Past, Turn
  <2>2. \A h : Turned(q, h) = Each(UMToIR, h)
    BY <1>2 DEF Turned
  <2>3. IsFcn(UMToIR, ChatMs, IRMessages)
    BY UMToIRFacts
  <2>4. \A k, m \in Seq(ChatMs) : Each(UMToIR, k \o m) = Each(UMToIR, k) \o Each(UMToIR, m)
    BY <2>3, EachConcat
  <2>7. ASSUME NEW k \in Past(q), NEW m \in Seq(Bits(q))
        PROVE  Turned(q, k \o m) = Turned(q, k) \o Each(Turn(q), m)
    <3>1. k \in Seq(ChatMs) /\ m \in Seq(ChatMs)
      BY <2>1
    <3>3. Each(UMToIR, k \o m) = Each(UMToIR, k) \o Each(UMToIR, m)
      BY <3>1, <2>4
    <3>2. Turned(q, k \o m) = Turned(q, k) \o Each(UMToIR, m)
      BY <3>3, <2>2
    <3>. QED
      BY <3>2, <2>1
  <2>8. ASSUME NEW m \in Seq(Bits(q)) PROVE Turned(q, m) = Each(Turn(q), m)
    BY <2>1, <2>2
  <2>9. Seq(Bits(q)) \subseteq Past(q)
    BY <2>1
  <2>10. IsFcn(Turn(q), Bits(q), IRMessages)
    BY <2>1, <2>3
  <2>. QED
    BY <2>7, <2>8, <2>9, <2>10
<1>3. CASE q = "openai_responses"
  <2>1. Bits(q) = Asks /\ Past(q) = Seq(RItems) /\ Turn(q) = StartF
    BY <1>3 DEF Bits, Past, Turn
  <2>2. \A h : Turned(q, h) = Gathered(h)
    BY <1>3 DEF Turned
  <2>3. IsFcn(StartF, Asks, IRMessages) /\ Seq(Asks) \subseteq Seq(RItems)
    BY AskStarts, AsksFacts, SeqOfMore
  <2>4. \A k \in Seq(RItems) : \A m \in Seq(Asks) : Gathered(k \o m) = Gathered(k) \o Each(StartF, m)
    BY GatheredAsks
  <2> DEFINE none == <<>>
  <2>5. none \in Seq(RItems) /\ Gathered(none) = none
    BY GatheredFacts, EmptySeq
  <2>6. ASSUME NEW m \in Seq(Asks) PROVE Gathered(m) = Each(StartF, m)
    <3>1. m \in Seq(RItems) /\ Each(StartF, m) \in Seq(IRMessages)
      BY <2>3, EachFacts
    <3>2. none \o m = m /\ none \o Each(StartF, m) = Each(StartF, m)
      BY <3>1, ConcatEmptySeq
    <3> HIDE DEF none
    <3>. QED
      BY <2>4, <2>5, <3>2
  <2>7. ASSUME NEW k \in Past(q), NEW m \in Seq(Bits(q))
        PROVE  Turned(q, k \o m) = Turned(q, k) \o Each(Turn(q), m)
    <3>1. k \in Seq(RItems) /\ m \in Seq(Bits(q))
      BY <2>1
    <3>2. Turned(q, k \o m) = Turned(q, k) \o Each(StartF, m)
      BY <3>1, <2>1, <2>2, <2>4
    <3>. QED
      BY <3>2, <2>1
  <2>8. ASSUME NEW m \in Seq(Bits(q)) PROVE Turned(q, m) = Each(Turn(q), m)
    BY <2>1, <2>2, <2>6
  <2>9. Seq(Bits(q)) \subseteq Past(q)
    BY <2>1, <2>3
  <2>10. IsFcn(Turn(q), Bits(q), IRMessages)
    BY <2>1, <2>3
  <2>. QED
    BY <2>7, <2>8, <2>9, <2>10
<1>. QED
  BY <1>1, <1>2, <1>3 DEF Protocols

(* The results for ids, in order, with the user's words in the same        *)
(* message;                                                                *)
AskedInOne(ids, m) ==
    \E cs \in Seq(ResultC) : \E c \in Seq(TextC \cup ImageC) :
       Each(ResId, cs) = ids /\ m = <<Message("user", cs \o c)>>
Maybe(S) == {<<>>} \cup {<<x>> : x \in S}
(* or each a message of its own, and the words after them.                 *)
AskedApart(ids, m) ==
    \E cs \in Seq(ResultC) : \E u \in Maybe(UserSaid) :
       Each(ResId, cs) = ids /\ (ids = <<>> => u # <<>>) /\ m = Each(ToolF, cs) \o u
(* A whole reply: results and words, then perhaps a note.                  *)
Replied(ids, msgs) ==
    \E m \in Seq(IRMessages) : \E n \in Maybe(Noted) :
       (AskedInOne(ids, m) \/ AskedApart(ids, m)) /\ msgs = m \o n

(* At most one element is a sequence.                                      *)
LEMMA MaybeFacts ==
    ASSUME NEW S, NEW A, S \subseteq A
    PROVE  Maybe(S) \subseteq Seq(A)
<1>1. <<>> \in Seq(A)
  BY Tuples
<1>2. \A x \in S : <<x>> \in Seq(A)
  BY Tuples
<1>. QED
  BY <1>1, <1>2 DEF Maybe

(* Each, of one element.                                                   *)
LEMMA EachOne ==
    ASSUME NEW A, NEW B, NEW g, IsFcn(g, A, B), NEW x \in A
    PROVE  Each(g, <<x>>) = <<g[x]>> /\ <<x>> \in Seq(A)
<1> DEFINE none == <<>>
<1>0. none \in Seq(A)
  BY EmptySeq
<1>1. none \in Seq(A) /\ none \in Seq(B) /\ Append(none, x) = <<x>> /\ Each(g, none) = none
  BY EachFacts, EmptySeq
<1>3. Append(none, g[x]) = <<g[x]>>
  OBVIOUS
<1> HIDE DEF none
<1>2. Each(g, Append(none, x)) = Append(Each(g, none), g[x])
  BY <1>0, EachAppend
<1>4. <<x>> \in Seq(A)
  BY Tuples
<1>. QED
  BY <1>1, <1>2, <1>3, <1>4

(* What a user says is one user message;                                   *)
LEMMA UserTurned ==
    ASSUME NEW q \in Protocols, NEW n \in Nat, NEW picture \in BOOLEAN
    PROVE  \E b \in Bits(q) : /\ UserSays(q, n, picture) = <<b>> /\ Turn(q)[b] \in UserSaid
                              /\ q = "anthropic" => \E c \in Seq(TextA \cup ImageA) : b = Message("user", c)
<1>1. CASE q = "anthropic"
  <2> DEFINE S == TextA \cup ImageA
             i == [type |-> "image"]
             a == IF picture THEN <<i>> ELSE <<>>
             b == <<[type |-> "text", text |-> <<n>>]>>
             c == a \o b
             m == Message("user", c)
  <2>1. b \in Seq(S)
    <3> HIDE DEF b
    <3>1. b \in Seq(TextA)
      BY TextBlocks DEF b
    <3>. QED
      BY <3>1, SeqOfMore
  <2>2. i \in S
    BY DEF ImageA
  <2>3. UserSays(q, n, picture) = <<m>>
    BY <1>1 DEF UserSays
  <2>4. a \in Seq(S)
    <3> HIDE DEF i, S
    <3>. QED
      BY <2>2, OneThing
  <2>5. c \in Seq(S)
    <3> HIDE DEF a, b, S
    <3>. QED
      BY <2>1, <2>4, ConcatProperties
  <2> HIDE DEF c
  <2>6. Seq(S) \subseteq Seq(UserA) /\ S \subseteq ABlocks
    <3>1. S \subseteq UserA /\ S \subseteq ABlocks
      BY DEF UserA, ABlocks
    <3> HIDE DEF S
    <3>. QED
      BY <3>1, SeqOfMore
  <2>7. m \in AMessages /\ m.role = "user" /\ m.content = c
    BY <2>5, <2>6 DEF AMessages, Message
  <2>8. IsFcn(AToIR, S, TextC \cup ImageC)
    BY AToIRFacts DEF IsFcn
  <2>9. Each(AToIR, c) \in Seq(TextC \cup ImageC)
    <3> HIDE DEF S
    <3>. QED
      BY <2>5, <2>8, EachFacts
  <2>10. AMToIR[m] = Message("user", Each(AToIR, c))
    BY <2>7, AMToIRFacts, TypesFacts
  <2>11. Turn(q)[m] \in UserSaid
    BY <1>1, <2>9, <2>10 DEF Turn, UserSaid
  <2>12. m \in Bits(q)
    BY <1>1, <2>7 DEF Bits
  <2>. QED
    BY <2>3, <2>5, <2>11, <2>12
<1>2. CASE q = "openai_chat"
  <2> DEFINE i == [type |-> "image_url"]
             a == IF picture THEN <<i>> ELSE <<>>
             b == AsString(<<n>>)
             c == a \o b
             m == ChatMsg("user", c)
  <2>1. b \in Seq(PartU)
    BY TextBlocks
  <2>2. i \in PartU
    BY DEF PartU, ImageU
  <2>3. UserSays(q, n, picture) = <<m>>
    BY <1>2 DEF UserSays
  <2> HIDE DEF i
  <2>4. a \in Seq(PartU)
    BY <2>2, OneThing
  <2> HIDE DEF a, b
  <2>5. c \in Seq(PartU)
    BY <2>1, <2>4, ConcatProperties
  <2> HIDE DEF c
  <2>6. m \in ChatMs /\ m.role = "user" /\ m.content = c
    <3>1. "user" \in Roles
      BY DEF Roles
    <3>. QED
      BY <2>5, <3>1, ChatMsgFacts
  <2> HIDE DEF m
  <2>7. UMToIR[m] = Message("user", ChatContentToIR(c))
    <3>1. UMToIR[m] = ChatMessageToIR(m)
      BY <2>6, UMToIRFacts
    <3>. QED
      BY <2>6, <3>1 DEF ChatMessageToIR
  <2>8. ChatContentToIR(c) \in Seq(TextC \cup ImageC)
    BY <2>5, ContentToIR
  <2>9. Turn(q)[m] \in UserSaid
    BY <1>2, <2>7, <2>8 DEF Turn, UserSaid
  <2>10. m \in Bits(q)
    BY <1>2, <2>6 DEF Bits
  <2>. QED
    BY <1>2, <2>3, <2>9, <2>10
<1>3. CASE q = "openai_responses"
  <2> DEFINE S == TextR \cup ImageR
             i == [type |-> "input_image"]
             a == IF picture THEN <<i>> ELSE <<>>
             b == <<[type |-> "input_text", text |-> <<n>>]>>
             c == a \o b
             m == MessageItem("user", c)
  <2>1. b \in Seq(S)
    BY TextBlocks
  <2>2. i \in S
    BY DEF ImageR
  <2>3. UserSays(q, n, picture) = <<m>>
    BY <1>3 DEF UserSays
  <2>4. a \in Seq(S)
    <3> HIDE DEF i, S
    <3>. QED
      BY <2>2, OneThing
  <2>5. c \in Seq(S)
    <3> HIDE DEF a, b, S
    <3>. QED
      BY <2>1, <2>4, ConcatProperties
  <2>6. m \in UserR
    <3> HIDE DEF c
    <3>. QED
      BY <2>5, MessageItemFacts
  <2> HIDE DEF m
  <2>7. StartF[m] \in UserSaid /\ m \in Asks
    BY <2>6, AskStarts DEF Asks
  <2>8. Turn(q)[m] \in UserSaid /\ m \in Bits(q)
    BY <1>3, <2>7 DEF Turn, Bits
  <2>. QED
    BY <1>3, <2>3, <2>8
<1>. QED
  BY <1>1, <1>2, <1>3 DEF Protocols

(* a note between turns is one system message.                             *)
LEMMA NoteTurned ==
    ASSUME NEW q \in Protocols, NEW l \in Nat
    PROVE  \E b \in Bits(q) : SystemSays(q, l) = <<b>> /\ Turn(q)[b] \in Noted
<1>1. CASE q = "anthropic"
  <2> DEFINE c == <<[type |-> "text", text |-> <<l>>]>>
             m == Message("system", c)
  <2>1. c \in Seq(TextA)
    BY TextBlocks
  <2>2. SystemSays(q, l) = <<m>>
    BY <1>1 DEF SystemSays
  <2> HIDE DEF c
  <2>3. m \in AMessages /\ m.role = "system" /\ m.content = c
    BY <2>1 DEF AMessages, Message
  <2>4. Each(AToIR, c) \in Seq(TextC)
    BY <2>1, AToIRHeard, EachFacts
  <2>5. AMToIR[m] = Message("system", Each(AToIR, c))
    BY <2>3, AMToIRFacts, TypesFacts
  <2>6. Turn(q)[m] \in Noted
    BY <1>1, <2>4, <2>5 DEF Turn, Noted
  <2>7. m \in Bits(q)
    BY <1>1, <2>3 DEF Bits
  <2>. QED
    BY <2>2, <2>6, <2>7
<1>2. CASE q = "openai_chat"
  <2> DEFINE c == AsString(<<l>>)
             m == ChatMsg("system", c)
  <2>1. c \in Seq(TextA)
    BY TextBlocks
  <2>2. SystemSays(q, l) = <<m>>
    BY <1>2 DEF SystemSays
  <2> HIDE DEF c
  <2>3. m \in ChatMs /\ m.role = "system" /\ m.content = c
    <3>1. "system" \in Roles /\ c \in Seq(PartU)
      BY <2>1, ChatTypes DEF Roles
    <3>. QED
      BY <2>1, <3>1, ChatMsgFacts
  <2> HIDE DEF m
  <2>4. UMToIR[m] = Message("system", ChatContentToIR(c))
    <3>1. UMToIR[m] = ChatMessageToIR(m)
      BY <2>3, UMToIRFacts
    <3>. QED
      BY <2>3, <3>1 DEF ChatMessageToIR
  <2>5. ChatContentToIR(c) \in Seq(TextC)
    BY <2>1, ContentToIR, ChatTypes
  <2>6. Turn(q)[m] \in Noted
    BY <1>2, <2>4, <2>5 DEF Turn, Noted
  <2>7. m \in Bits(q)
    BY <1>2, <2>3 DEF Bits
  <2>. QED
    BY <2>2, <2>6, <2>7
<1>3. CASE q = "openai_responses"
  <2> DEFINE c == <<[type |-> "input_text", text |-> <<l>>]>>
             m == MessageItem("developer", c)
  <2>1. c \in Seq(TextR)
    BY TextBlocks
  <2>2. SystemSays(q, l) = <<m>>
    BY <1>3 DEF SystemSays
  <2> HIDE DEF c
  <2>3. m \in DevR
    BY <2>1, MessageItemFacts
  <2> HIDE DEF m
  <2>4. StartF[m] \in Noted /\ m \in Asks
    BY <2>3, AskStarts DEF Asks
  <2>5. Turn(q)[m] \in Noted /\ m \in Bits(q)
    BY <1>3, <2>4 DEF Turn, Bits
  <2>. QED
    BY <2>2, <2>5
<1>. QED
  BY <1>1, <1>2, <1>3 DEF Protocols

(* The client's results: a failed one says so.                             *)
ErrorText(bad) == [id \in Nat |-> IF id \in bad THEN <<ErrorWord>> ELSE <<>>]
AsResult(bad)  == [id \in Nat |-> ToolResult(id, [json |-> FALSE, text |-> ErrorText(bad)[id]], FALSE)]

(* The client's results, as IR blocks, have the ids of their calls.        *)
LEMMA AsResultFacts ==
    ASSUME NEW bad
    PROVE  /\ \A id \in Nat : ErrorText(bad)[id] \in Texts
           /\ \A id \in Nat : [json |-> FALSE, text |-> ErrorText(bad)[id]] \in Outs
           /\ IsFcn(AsResult(bad), Nat, ResultC)
           /\ \A id \in Nat : AsResult(bad)[id] = ToolResult(id, [json |-> FALSE, text |-> ErrorText(bad)[id]], FALSE)
           /\ \A ids \in Seq(Nat) : Each(ResId, Each(AsResult(bad), ids)) = ids
<1> DEFINE T == ErrorText(bad)
           R == AsResult(bad)
<1>1. ASSUME NEW id \in Nat PROVE T[id] \in Texts
  <2>1. T[id] = IF id \in bad THEN <<ErrorWord>> ELSE <<>>
    BY DEF ErrorText
  <2>. QED
    BY <2>1 DEF Texts, ErrorWord
<1>2. \A id \in Nat : R[id] = ToolResult(id, [json |-> FALSE, text |-> T[id]], FALSE)
  BY DEF AsResult
<1> HIDE DEF T, R
<1>3. ASSUME NEW id \in Nat PROVE [json |-> FALSE, text |-> T[id]] \in Outs
  BY <1>1 DEF Outs
<1>4. ASSUME NEW id \in Nat PROVE R[id] \in ResultC /\ ResId[R[id]] = id
  <2> DEFINE o == [json |-> FALSE, text |-> T[id]]
  <2>1. o \in Outs
    BY <1>3
  <2>2. R[id] = ToolResult(id, o, FALSE) /\ ~o.json
    BY <1>2
  <2> DEFINE e == FALSE
  <2>4. e \in BOOLEAN /\ (e => ~o.json) /\ R[id] = ToolResult(id, o, e)
    BY <2>2
  <2> HIDE DEF o, e
  <2>3. R[id] \in ResultC /\ R[id].id = id
    BY <2>1, <2>4, BlocksAre
  <2>. QED
    BY <2>3, ToolFFacts
<1>5. IsFcn(R, Nat, ResultC)
  BY <1>4 DEF IsFcn
<1>6. ASSUME NEW ids \in Seq(Nat) PROVE Each(ResId, Each(R, ids)) = ids
  <2> DEFINE I == [id \in Nat |-> id]
  <2>1. \A id \in Nat : I[id] = id
    OBVIOUS
  <2> HIDE DEF I
  <2>2. \A id \in Nat : I[id] = ResId[R[id]]
    BY <1>4, <2>1
  <2>3. Each(ResId, Each(R, ids)) = Each(I, ids)
    BY <1>5, <2>2, EachTwice
  <2>4. Each(I, ids) = ids
    BY <2>1, EachItself
  <2>. QED
    BY <2>3, <2>4
<1>. QED
  BY <1>1, <1>2, <1>3, <1>5, <1>6 DEF T, R

(* Results in Anthropic Messages are the blocks of one user message;       *)
LEMMA ResultsInBlock ==
    ASSUME NEW ids \in Seq(Nat), NEW bad
    PROVE  \E ca \in Seq(ResultA) : /\ Results("anthropic", ids, bad) = <<Message("user", ca)>>
                                    /\ Each(AToIR, ca) \in Seq(ResultC)
                                    /\ Each(ResId, Each(AToIR, ca)) = ids
<1>0. \A i \in DOMAIN ids : ids[i] \in Nat
  BY ElementOfSeq, LenProperties
<1> DEFINE f == ResultBlock(bad)
           c == Each(f, ids)
<1>1. \A id \in Nat : f[id] = [type |-> "tool_result", id |-> id, is_error |-> id \in bad,
                               content |-> [json |-> id \notin bad, text |-> <<>>]]
  BY DEF ResultBlock
<1>2. ASSUME NEW id \in Nat PROVE f[id] \in ResultA /\ f[id].id = id
  <2> DEFINE o == [json |-> id \notin bad, text |-> <<>>]
             e == id \in bad
             j == id \notin bad
  <2>1. <<>> \in Texts
    BY DEF Texts
  <2>2. j \in BOOLEAN /\ e \in BOOLEAN /\ (e => ~j)
    OBVIOUS
  <2>3. o = [json |-> j, text |-> <<>>]
    OBVIOUS
  <2>4. o \in Outs /\ e \in BOOLEAN /\ (e => ~o.json)
    <3> HIDE DEF o, e, j
    <3>. QED
      BY <2>1, <2>2, <2>3 DEF Outs
  <2>5. f[id] = [type |-> "tool_result", id |-> id, is_error |-> e, content |-> o]
    BY <1>1
  <2> HIDE DEF o, e, f
  <2>. QED
    BY <2>4, <2>5 DEF ResultA
<1>3. Results("anthropic", ids, bad)
      = <<Message("user", [i \in DOMAIN ids |-> [type |-> "tool_result", id |-> ids[i], is_error |-> ids[i] \in bad,
                                                 content |-> [json |-> ids[i] \notin bad, text |-> <<>>]]])>>
  BY DEF Results, MapSeq
<1> HIDE DEF f
<1>4. [i \in DOMAIN ids |-> [type |-> "tool_result", id |-> ids[i], is_error |-> ids[i] \in bad,
                             content |-> [json |-> ids[i] \notin bad, text |-> <<>>]]]
      = [i \in DOMAIN ids |-> f[ids[i]]]
  BY <1>0, <1>1
<1>5. Results("anthropic", ids, bad) = <<Message("user", c)>>
  BY <1>3, <1>4 DEF Each
<1>6. IsFcn(f, Nat, ResultA)
  BY <1>2 DEF IsFcn
<1>7. c \in Seq(ResultA)
  BY <1>6, EachFacts
<1> DEFINE g == [b \in ResultA |-> b.id]
           I == [id \in Nat |-> id]
<1>8. \A b \in ResultA : g[b] = b.id
  OBVIOUS
<1>9. \A id \in Nat : I[id] = id
  OBVIOUS
<1> HIDE DEF c, g, I
<1>10. ASSUME NEW b \in ResultA PROVE AToIR[b] \in ResultC /\ ResId[AToIR[b]] = g[b]
  <2>1. AToIR[b] = ToolResult(b.id, b.content, b.is_error) /\ AToIR[b] \in ResultC
    BY AToIRFacts
  <2>2. AToIR[b].id = b.id
    BY <2>1 DEF ToolResult
  <2>. QED
    BY <1>8, <2>1, <2>2, ToolFFacts
<1>11. IsFcn(AToIR, ResultA, ResultC)
  BY <1>10 DEF IsFcn
<1>12. Each(AToIR, c) \in Seq(ResultC)
  BY <1>7, <1>11, EachFacts
<1>13. Each(ResId, Each(AToIR, c)) = Each(g, c)
  BY <1>7, <1>10, <1>11, EachTwice
<1>14. Each(g, c) = Each(I, ids)
  <2>1. \A id \in Nat : I[id] = g[f[id]]
    BY <1>2, <1>8, <1>9
  <2>. QED
    BY <1>6, <2>1, EachTwice DEF c
<1>15. Each(I, ids) = ids
  BY <1>9, EachItself
<1>. QED
  BY <1>5, <1>7, <1>12, <1>13, <1>14, <1>15

(* in Chat Completions they are messages of their own;                     *)
LEMMA ResultsInChat ==
    ASSUME NEW ids \in Seq(Nat), NEW bad
    PROVE  LET r == Results("openai_chat", ids, bad)
           IN  r \in Seq(ChatMs) /\ Each(UMToIR, r) = Each(ToolF, Each(AsResult(bad), ids))
<1> DEFINE f == ResultText(bad)
           r == Results("openai_chat", ids, bad)
           R == AsResult(bad)
           T == ErrorText(bad)
<1>0. \A i \in DOMAIN ids : ids[i] \in Nat
  BY ElementOfSeq, LenProperties
<1>1. \A id \in Nat : f[id] = ToolMsg(id, AsString(T[id]))
  BY DEF ResultText, ErrorText
<1>2. r = [i \in DOMAIN ids |-> ToolMsg(ids[i], AsString(IF ids[i] \in bad THEN <<ErrorWord>> ELSE <<>>))]
  BY DEF Results, MapSeq
<1>3. [i \in DOMAIN ids |-> ToolMsg(ids[i], AsString(IF ids[i] \in bad THEN <<ErrorWord>> ELSE <<>>))]
      = [i \in DOMAIN ids |-> f[ids[i]]]
  BY <1>0 DEF ResultText
<1>4. r = Each(f, ids)
  BY <1>2, <1>3 DEF Each
<1> HIDE DEF f, r, R, T
<1>5. ASSUME NEW id \in Nat PROVE f[id] \in ChatMs /\ UMToIR[f[id]] = ToolF[R[id]]
  <2> DEFINE t == T[id]
             c == AsString(t)
             m == f[id]
  <2>1. t \in Texts /\ R[id] = ToolResult(id, [json |-> FALSE, text |-> t], FALSE) /\ R[id] \in ResultC
    BY AsResultFacts DEF T, R, IsFcn
  <2>2. m = ToolMsg(id, c)
    BY <1>1
  <2> HIDE DEF t
  <2>3. c \in Seq(TextA) /\ JoinText(ChatContentToIR(c)) = t
    BY <2>1, StringFacts
  <2> HIDE DEF c, m
  <2>4. m \in ChatMs /\ m.call = id /\ m.content = c
    BY <2>2, <2>3, ChatMsgFacts
  <2>5. m.role = "tool"
    BY <2>2 DEF ToolMsg
  <2>6. UMToIR[m] = ChatMessageToIR(m)
    BY <2>4, UMToIRFacts
  <2>7. ChatMessageToIR(m) = Message("tool", <<ToolResult(id, [json |-> FALSE, text |-> t], FALSE)>>)
    BY <2>3, <2>4, <2>5 DEF ChatMessageToIR
  <2>8. ToolF[R[id]] = Message("tool", <<R[id]>>)
    BY <2>1, ToolFFacts
  <2>. QED
    BY <2>1, <2>4, <2>6, <2>7, <2>8 DEF m
<1>6. IsFcn(f, Nat, ChatMs)
  BY <1>5 DEF IsFcn
<1>7. r \in Seq(ChatMs)
  BY <1>4, <1>6, EachFacts
<1> DEFINE h == [id \in Nat |-> ToolF[R[id]]]
<1>8. \A id \in Nat : h[id] = ToolF[R[id]]
  OBVIOUS
<1> HIDE DEF h
<1>9. Each(UMToIR, Each(f, ids)) = Each(h, ids)
  BY <1>5, <1>6, <1>8, EachTwice
<1>10. Each(ToolF, Each(R, ids)) = Each(h, ids)
  <2>1. IsFcn(R, Nat, ResultC)
    BY AsResultFacts DEF R
  <2>. QED
    BY <1>8, <2>1, EachTwice
<1>. QED
  BY <1>4, <1>7, <1>9, <1>10 DEF r, R

(* in OpenAI Responses they are items, each a message of its own in the    *)
(* IR.                                                                     *)
LEMMA ResultsInItems ==
    ASSUME NEW ids \in Seq(Nat), NEW bad
    PROVE  LET r == Results("openai_responses", ids, bad)
           IN  r \in Seq(Asks) /\ Each(StartF, r) = Each(ToolF, Each(AsResult(bad), ids))
<1> DEFINE f == ResultOut(bad)
           r == Results("openai_responses", ids, bad)
           R == AsResult(bad)
           T == ErrorText(bad)
<1>0. \A i \in DOMAIN ids : ids[i] \in Nat
  BY ElementOfSeq, LenProperties
<1>1. \A id \in Nat : f[id] = OutputItem(id, [json |-> FALSE, text |-> T[id]])
  BY DEF ResultOut, ErrorText
<1>2. r = [i \in DOMAIN ids |-> OutputItem(ids[i], [json |-> FALSE, text |-> IF ids[i] \in bad THEN <<ErrorWord>> ELSE <<>>])]
  BY DEF Results, MapSeq
<1>3. [i \in DOMAIN ids |-> OutputItem(ids[i], [json |-> FALSE, text |-> IF ids[i] \in bad THEN <<ErrorWord>> ELSE <<>>])]
      = [i \in DOMAIN ids |-> f[ids[i]]]
  BY <1>0 DEF ResultOut
<1>4. r = Each(f, ids)
  BY <1>2, <1>3 DEF Each
<1> HIDE DEF f, r, R, T
<1>5. ASSUME NEW id \in Nat PROVE f[id] \in Asks /\ StartF[f[id]] = ToolF[R[id]]
  <2> DEFINE o == [json |-> FALSE, text |-> T[id]]
             m == f[id]
  <2>1. o \in Outs /\ R[id] = ToolResult(id, o, FALSE)
    BY AsResultFacts DEF T, R
  <2>2. m = OutputItem(id, o)
    BY <1>1
  <2> HIDE DEF o, m
  <2>3. m \in OutR /\ m.call = id /\ m.output = o
    BY <2>1, <2>2, ItemsAre
  <2>4. m \in Asks /\ StartF[m] = ToolF[ToolResult(m.call, m.output, FALSE)]
    BY <2>3, AskStarts DEF Asks
  <2>. QED
    BY <2>1, <2>3, <2>4 DEF m
<1>6. IsFcn(f, Nat, Asks)
  BY <1>5 DEF IsFcn
<1>7. r \in Seq(Asks)
  BY <1>4, <1>6, EachFacts
<1> DEFINE h == [id \in Nat |-> ToolF[R[id]]]
<1>8. \A id \in Nat : h[id] = ToolF[R[id]]
  OBVIOUS
<1> HIDE DEF h
<1>9. Each(StartF, Each(f, ids)) = Each(h, ids)
  BY <1>5, <1>6, <1>8, EachTwice
<1>10. Each(ToolF, Each(R, ids)) = Each(h, ids)
  <2>1. IsFcn(R, Nat, ResultC)
    BY AsResultFacts DEF R
  <2>. QED
    BY <1>8, <2>1, EachTwice
<1>. QED
  BY <1>4, <1>7, <1>9, <1>10 DEF r, R

(* One addition of the client's becomes at most one message.               *)
LEMMA MaybeEach ==
    ASSUME NEW q \in Protocols, NEW b \in Bits(q), NEW S, Turn(q)[b] \in S
    PROVE  <<b>> \in Seq(Bits(q)) /\ Each(Turn(q), <<b>>) \in Maybe(S) /\ Each(Turn(q), <<b>>) = <<Turn(q)[b]>>
<1>1. <<b>> \in Seq(Bits(q)) /\ Each(Turn(q), <<b>>) = <<Turn(q)[b]>>
  BY TurnFacts, EachOne
<1>. QED
  BY <1>1 DEF Maybe

(* Results and words in one message answer the calls;                      *)
LEMMA AnsweredInOne ==
    ASSUME NEW ids \in Seq(Nat), NEW ca \in Seq(ResultA), Each(AToIR, ca) \in Seq(ResultC),
           Each(ResId, Each(AToIR, ca)) = ids, NEW cb \in Seq(TextA \cup ImageA)
    PROVE  LET m == <<Message("user", ca \o cb)>>
           IN  /\ m \in Seq(Bits("anthropic"))
               /\ AskedInOne(ids, Each(Turn("anthropic"), m))
<1> DEFINE S == TextA \cup ImageA
           c == ca \o cb
           x == Message("user", c)
           B == Bits("anthropic")
           F == Turn("anthropic")
<1>1. S \subseteq UserA /\ ResultA \subseteq UserA /\ UserA \subseteq ABlocks
  BY DEF UserA, ABlocks
<1>2. IsFcn(AToIR, S, TextC \cup ImageC)
  BY AToIRFacts DEF IsFcn
<1> HIDE DEF S
<1>3. ca \in Seq(UserA) /\ cb \in Seq(UserA)
  <2>1. Seq(S) \subseteq Seq(UserA) /\ Seq(ResultA) \subseteq Seq(UserA)
    BY <1>1, SeqOfMore
  <2>. QED
    BY <2>1 DEF S
<1>4. c \in Seq(UserA)
  BY <1>3, ConcatProperties
<1>5. Each(AToIR, c) = Each(AToIR, ca) \o Each(AToIR, cb)
  BY <1>3, AToIRHeard, EachConcat
<1>6. Each(AToIR, cb) \in Seq(TextC \cup ImageC)
  BY <1>2, EachFacts DEF S
<1> HIDE DEF c
<1>7. x \in AMessages /\ x.role = "user" /\ x.content = c
  BY <1>4 DEF AMessages, Message
<1>8. AMToIR[x] = Message("user", Each(AToIR, c))
  BY <1>7, AMToIRFacts, TypesFacts
<1>9. x \in B /\ B = AMessages /\ F = AMToIR
  BY <1>7 DEF Bits, Turn
<1>10. IsFcn(F, B, IRMessages)
  BY <1>9, AMToIRFacts
<1> HIDE DEF x, B, F
<1>11. <<x>> \in Seq(B) /\ Each(F, <<x>>) = <<F[x]>>
  BY <1>9, <1>10, EachOne
<1>12. AskedInOne(ids, <<F[x]>>)
  <2>1. F[x] = Message("user", Each(AToIR, ca) \o Each(AToIR, cb))
    BY <1>5, <1>8, <1>9
  <2>. QED
    BY <1>6, <2>1 DEF AskedInOne
<1>. QED
  BY <1>11, <1>12 DEF x, B, F, c

(* so do results followed by the words,                                    *)
LEMMA AnsweredApart ==
    ASSUME NEW q \in {"openai_chat", "openai_responses"}, NEW ids \in Seq(Nat), NEW bad,
           NEW b \in Seq(Bits(q)), Each(Turn(q), b) \in Maybe(UserSaid), ids = <<>> => b # <<>>
    PROVE  LET m == Results(q, ids, bad) \o b
           IN  m \in Seq(Bits(q)) /\ AskedApart(ids, Each(Turn(q), m))
<1> DEFINE r == Results(q, ids, bad)
           cs == Each(AsResult(bad), ids)
           B == Bits(q)
           F == Turn(q)
<1>1. IsFcn(F, B, IRMessages)
  BY TurnFacts DEF Protocols
<1>2. r \in Seq(B) /\ Each(F, r) = Each(ToolF, cs)
  <2>1. CASE q = "openai_chat"
    BY <2>1, ResultsInChat DEF Bits, Turn
  <2>2. CASE q = "openai_responses"
    BY <2>2, ResultsInItems DEF Bits, Turn
  <2>. QED
    BY <2>1, <2>2
<1>3. cs \in Seq(ResultC) /\ Each(ResId, cs) = ids
  BY AsResultFacts, EachFacts
<1> HIDE DEF cs
<1>4. ids = <<>> => Each(F, b) # <<>>
  BY <1>1, EachFacts
<1> HIDE DEF r, B, F
<1>5. r \o b \in Seq(B)
  BY <1>2, ConcatProperties DEF B
<1>6. Each(F, r \o b) = Each(F, r) \o Each(F, b)
  BY <1>1, <1>2, EachConcat DEF B
<1>7. Each(F, b) \in Maybe(UserSaid)
  BY DEF F
<1>8. AskedApart(ids, Each(F, r \o b))
  BY <1>2, <1>3, <1>4, <1>6, <1>7 DEF AskedApart
<1>. QED
  BY <1>5, <1>8 DEF r, B, F

(* and words alone, where nothing was called.                              *)
LEMMA AskedAlone ==
    ASSUME NEW q \in Protocols, NEW b \in Bits(q), Turn(q)[b] \in UserSaid
    PROVE  AskedApart(<<>>, Each(Turn(q), <<b>>))
<1> DEFINE none == <<>>
           x == Turn(q)[b]
           u == <<x>>
<1>1. Each(Turn(q), <<b>>) = u /\ u \in Maybe(UserSaid)
  BY MaybeEach
<1>2. x \in IRMessages
  BY ToolFFacts
<1>3. none \in Seq(ResultC) /\ Each(ResId, none) = none /\ Each(ToolF, none) = none
  BY ToolFFacts, EachFacts, EmptySeq
<1> HIDE DEF x
<1>4. u # <<>> /\ u \in Seq(IRMessages)
  <2>1. u \in Seq(IRMessages) /\ Len(u) = 1
    BY <1>2, Tuples
  <2> HIDE DEF u
  <2>. QED
    BY ONLY <2>1, EmptySeq
<1> HIDE DEF u
<1>5. none \o u = u
  BY <1>4, ConcatEmptySeq
<1> HIDE DEF none
<1>6. AskedApart(none, u)
  BY <1>1, <1>3, <1>4, <1>5 DEF AskedApart
<1>. QED
  BY <1>1, <1>6 DEF none

(* What the client adds in a turn is a reply, in the IR.                   *)
LEMMA ReplyTurned ==
    ASSUME NEW q \in Protocols, NEW ids \in Seq(Nat), NEW bad, NEW n \in Nat, NEW l \in Nat,
           NEW user \in BOOLEAN, NEW note \in BOOLEAN, NEW picture \in BOOLEAN, ids = <<>> => user
    PROVE  LET more == Appended(q, ids, bad, user, n, picture, note, l)
           IN  more \in Seq(Bits(q)) /\ Replied(ids, Each(Turn(q), more))
<1> DEFINE a == IF ids = <<>> THEN <<>> ELSE Results(q, ids, bad)
           b == IF user THEN UserSays(q, n, picture) ELSE <<>>
           c == IF note THEN SystemSays(q, l) ELSE <<>>
           m == Together(q, a, b)
           B == Bits(q)
           F == Turn(q)
           none == <<>>
<1>1. IsFcn(F, B, IRMessages) /\ none \in Seq(B) /\ Each(F, none) = none
  BY TurnFacts, EachFacts, EmptySeq
<1>2. c \in Seq(B) /\ Each(F, c) \in Maybe(Noted)
  <2>1. CASE note
    <3>1. PICK y \in Bits(q) : SystemSays(q, l) = <<y>> /\ Turn(q)[y] \in Noted
      BY NoteTurned
    <3>2. c = <<y>>
      BY <2>1, <3>1
    <3>. QED
      BY <3>1, <3>2, MaybeEach
  <2>2. CASE ~note
    BY <1>1, <2>2 DEF Maybe
  <2>. QED
    BY <2>1, <2>2
<1>3. m \in Seq(B) /\ (AskedInOne(ids, Each(F, m)) \/ AskedApart(ids, Each(F, m)))
  <2>0. PICK y \in Bits(q) : /\ UserSays(q, n, picture) = <<y>> /\ Turn(q)[y] \in UserSaid
                             /\ q = "anthropic" => \E d \in Seq(TextA \cup ImageA) : y = Message("user", d)
    BY UserTurned
  <2>1. <<y>> \in Seq(B) /\ Each(F, <<y>>) \in Maybe(UserSaid)
    BY <2>0, MaybeEach
  <2>2. CASE ids = <<>>
    <3>1. a = none /\ b = <<y>>
      BY <2>0, <2>2
    <3>2. m = none \o <<y>>
      BY <3>1 DEF Together
    <3>3. none \o <<y>> = <<y>>
      BY <2>1, ConcatEmptySeq
    <3>4. AskedApart(<<>>, Each(Turn(q), <<y>>))
      BY <2>0, AskedAlone
    <3>. QED
      BY <2>1, <2>2, <3>2, <3>3, <3>4
  <2>3. CASE ids # <<>> /\ q = "anthropic"
    <3>1. PICK ca \in Seq(ResultA) : /\ Results("anthropic", ids, bad) = <<Message("user", ca)>>
                                     /\ Each(AToIR, ca) \in Seq(ResultC)
                                     /\ Each(ResId, Each(AToIR, ca)) = ids
      BY ResultsInBlock
    <3>2. a = <<Message("user", ca)>>
      BY <2>3, <3>1
    <3>3. CASE user
      <4>1. PICK d \in Seq(TextA \cup ImageA) : y = Message("user", d)
        BY <2>0, <2>3
      <4>2. b = <<Message("user", d)>>
        BY <2>0, <3>3, <4>1
      <4>3. a # <<>> /\ b # <<>> /\ a[1].content = ca /\ b[1].content = d
        <5> HIDE DEF a, b
        <5>1. a # <<>> /\ b # <<>> /\ a[1] = Message("user", ca) /\ b[1] = Message("user", d)
          BY <3>2, <4>2
        <5>. QED
          BY <5>1, MessageFacts
      <4>4. m = <<Message("user", ca \o d)>>
        BY <2>3, <4>3 DEF Together
      <4>5. /\ <<Message("user", ca \o d)>> \in Seq(Bits("anthropic"))
            /\ AskedInOne(ids, Each(Turn("anthropic"), <<Message("user", ca \o d)>>))
        BY <3>1, AnsweredInOne
      <4>. QED
        BY <2>3, <4>4, <4>5
    <3>4. CASE ~user
      <4>1. none \in Seq(TextA \cup ImageA) /\ ca \o none = ca
        BY EmptySeq, ConcatEmptySeq
      <4>2. /\ <<Message("user", ca \o none)>> \in Seq(Bits("anthropic"))
            /\ AskedInOne(ids, Each(Turn("anthropic"), <<Message("user", ca \o none)>>))
        <5> HIDE DEF none
        <5>. QED
          BY <3>1, <4>1, AnsweredInOne
      <4>3. b = none
        BY <3>4
      <4> DEFINE x == Message("user", ca)
      <4>4. m = <<x>> \o none
        BY <3>2, <4>3 DEF Together
      <4>5. <<x>> \in Seq(Bits("anthropic"))
        BY <4>1, <4>2
      <4> HIDE DEF x
      <4>6. <<x>> \o none = <<x>>
        BY <4>5, ConcatEmptySeq
      <4>7. m = <<x>>
        BY <4>4, <4>6
      <4>. QED
        BY <2>3, <4>1, <4>2, <4>7 DEF x
    <3>. QED
      BY <3>3, <3>4
  <2>4. CASE ids # <<>> /\ q # "anthropic"
    <3>1. q \in {"openai_chat", "openai_responses"}
      BY <2>4 DEF Protocols
    <3>2. m = Results(q, ids, bad) \o b
      BY <2>4 DEF Together
    <3>3. b \in Seq(B) /\ Each(F, b) \in Maybe(UserSaid)
      BY <1>1, <2>0, <2>1 DEF Maybe
    <3> HIDE DEF b, m
    <3>4. LET z == Results(q, ids, bad) \o b
          IN  z \in Seq(Bits(q)) /\ AskedApart(ids, Each(Turn(q), z))
      BY <2>4, <3>1, <3>3, AnsweredApart
    <3>. QED
      BY <3>2, <3>4
  <2>. QED
    BY <2>2, <2>3, <2>4
<1> HIDE DEF a, b, c, m, B, F
<1>4. m \o c \in Seq(B) /\ Each(F, m \o c) = Each(F, m) \o Each(F, c)
  BY <1>1, <1>2, <1>3, EachConcat, ConcatProperties
<1>5. Each(F, m) \in Seq(IRMessages)
  BY <1>1, <1>3, EachFacts
<1>6. Replied(ids, Each(F, m \o c))
  BY <1>2, <1>3, <1>4, <1>5 DEF Replied
<1>. QED
  BY <1>4, <1>6 DEF Appended, a, b, c, m, B, F

-----------------------------------------------------------------------------
(***************************************************************************)
(* Order in Chat Completions.                                              *)
(***************************************************************************)

(* Message i answers a call of message k.                                  *)
Answers1(s, k, i) == \E j \in 1..Len(s[k].tool_calls) : s[k].tool_calls[j].id = s[i].call

(* Message i answers a call of the message before the results it stands    *)
(* among.                                                                  *)
AnsweredAt(s, i) ==
    \E k \in 1..(i - 1) : /\ s[k].role # "tool" /\ Answers1(s, k, i)
                          /\ \A j \in (k + 1)..(i - 1) : s[j].role = "tool"
(* What order asks of message i: it says or calls something, its calls are *)
(* lawful and the results follow it in order, and if it is a result, it    *)
(* stands among those of the message that called for it.                   *)
ChatAt(s, i) ==
    /\ s[i].role = "assistant" => s[i].tool_calls # <<>> \/ s[i].content # <<>>
    /\ i + Len(s[i].tool_calls) <= Len(s)
    /\ \A k \in 1..Len(s[i].tool_calls) : /\ s[i + k].call = s[i].tool_calls[k].id
                                          /\ Lawful(s[i].tool_calls[k].arguments)
    /\ s[i].role = "tool" => AnsweredAt(s, i)

ChatOrder(s) == \A i \in 1..Len(s) : ChatAt(s, i)

(* A Chat message's calls.                                                 *)
LEMMA CallsCounted ==
    ASSUME NEW s \in Seq(ChatMs), NEW i \in 1..Len(s)
    PROVE  s[i] \in ChatMs /\ s[i].tool_calls \in Seq(CallU) /\ Len(s[i].tool_calls) \in Nat
<1>1. s[i] \in ChatMs
  BY ElementOfSeq
<1>2. s[i].tool_calls \in Seq(CallU)
  BY <1>1, ChatTypes
<1>. QED
  BY <1>1, <1>2, LenProperties

(* Messages in order after messages in order are in order.                 *)
LEMMA ChatOrderConcat ==
    ASSUME NEW s \in Seq(ChatMs), NEW t \in Seq(ChatMs), ChatOrder(s), ChatOrder(t)
    PROVE  ChatOrder(s \o t)
<1> DEFINE r == s \o t
           m == Len(s)
           n == Len(t)
<1>1. m \in Nat /\ n \in Nat /\ Len(r) = m + n /\ r \in Seq(ChatMs)
  BY ConcatAt
<1>2. \A i \in 1..m : r[i] = s[i]
  BY ConcatAt
<1>3. \A i \in 1..n : r[m + i] = t[i]
  BY ConcatAt
<1>4. \A i \in 1..m : ChatAt(s, i) /\ Len(s[i].tool_calls) \in Nat
  BY CallsCounted DEF ChatOrder
<1>5. \A i \in 1..n : ChatAt(t, i) /\ Len(t[i].tool_calls) \in Nat
  BY CallsCounted DEF ChatOrder
<1> HIDE DEF r
<1>6. ASSUME NEW i \in 1..m PROVE ChatAt(r, i)
  <2> DEFINE c == Len(s[i].tool_calls)
  <2>1. r[i] = s[i] /\ c \in Nat /\ ChatAt(s, i) /\ i \in Nat
    BY <1>1, <1>2, <1>4
  <2>2. i + c <= m
    BY <2>1 DEF ChatAt
  <2>3. ASSUME NEW k \in 1..c
        PROVE  r[i + k].call = s[i].tool_calls[k].id /\ Lawful(s[i].tool_calls[k].arguments)
    <3>1. i + k \in 1..m
      BY <1>1, <2>1, <2>2
    <3>2. r[i + k] = s[i + k]
      BY <1>2, <3>1
    <3>3. s[i + k].call = s[i].tool_calls[k].id /\ Lawful(s[i].tool_calls[k].arguments)
      BY <2>1 DEF ChatAt
    <3>. QED
      BY <3>2, <3>3
  <2>4. ASSUME s[i].role = "tool" PROVE AnsweredAt(r, i)
    <3>1. AnsweredAt(s, i)
      BY <2>1, <2>4 DEF ChatAt
    <3>2. PICK k \in 1..(i - 1) : /\ s[k].role # "tool" /\ Answers1(s, k, i)
                                  /\ \A j \in (k + 1)..(i - 1) : s[j].role = "tool"
      BY <3>1 DEF AnsweredAt
    <3>3. r[k] = s[k]
      BY <1>1, <1>2, <3>2
    <3>4. \A j \in (k + 1)..(i - 1) : r[j] = s[j]
      BY <1>1, <1>2, <3>2
    <3>5. Answers1(r, k, i)
      BY <3>2, <3>3, <2>1 DEF Answers1
    <3>. QED
      BY <3>2, <3>3, <3>4, <3>5 DEF AnsweredAt
  <2>5. s[i].role = "assistant" => s[i].tool_calls # <<>> \/ s[i].content # <<>>
    BY <2>1 DEF ChatAt
  <2>6. i + c <= Len(r)
    BY <1>1, <2>1, <2>2
  <2>. QED
    BY <2>1, <2>3, <2>4, <2>5, <2>6 DEF ChatAt
<1>7. ASSUME NEW i \in 1..n PROVE ChatAt(r, m + i)
  <2> DEFINE c == Len(t[i].tool_calls)
  <2>1. r[m + i] = t[i] /\ c \in Nat /\ ChatAt(t, i) /\ i \in Nat
    BY <1>1, <1>3, <1>5
  <2>2. i + c <= n
    BY <2>1 DEF ChatAt
  <2>3. ASSUME NEW k \in 1..c
        PROVE  r[(m + i) + k].call = t[i].tool_calls[k].id /\ Lawful(t[i].tool_calls[k].arguments)
    <3>1. i + k \in 1..n /\ (m + i) + k = m + (i + k)
      BY <1>1, <2>1, <2>2
    <3>2. r[(m + i) + k] = t[i + k]
      BY <1>3, <3>1
    <3>3. t[i + k].call = t[i].tool_calls[k].id /\ Lawful(t[i].tool_calls[k].arguments)
      BY <2>1 DEF ChatAt
    <3>. QED
      BY <3>2, <3>3
  <2>4. ASSUME t[i].role = "tool" PROVE AnsweredAt(r, m + i)
    <3>1. AnsweredAt(t, i)
      BY <2>1, <2>4 DEF ChatAt
    <3>2. PICK k \in 1..(i - 1) : /\ t[k].role # "tool" /\ Answers1(t, k, i)
                                  /\ \A j \in (k + 1)..(i - 1) : t[j].role = "tool"
      BY <3>1 DEF AnsweredAt
    <3>3. r[m + k] = t[k] /\ m + k \in 1..((m + i) - 1)
      BY <1>1, <1>3, <3>2
    <3>4. ASSUME NEW j \in ((m + k) + 1)..((m + i) - 1) PROVE r[j].role = "tool"
      <4>1. j - m \in (k + 1)..(i - 1) /\ j - m \in 1..n /\ m + (j - m) = j
        BY <1>1, <3>2
      <4>2. r[j] = t[j - m]
        BY <1>3, <4>1
      <4>. QED
        BY <3>2, <4>1, <4>2
    <3>5. Answers1(r, m + k, m + i)
      BY <3>2, <3>3, <2>1 DEF Answers1
    <3>. QED
      BY <3>2, <3>3, <3>4, <3>5 DEF AnsweredAt
  <2>5. t[i].role = "assistant" => t[i].tool_calls # <<>> \/ t[i].content # <<>>
    BY <2>1 DEF ChatAt
  <2>6. (m + i) + c <= Len(r)
    <3> HIDE DEF c, m, n
    <3>. QED
      BY <1>1, <2>1, <2>2
  <2>. QED
    BY <2>1, <2>3, <2>4, <2>5, <2>6 DEF ChatAt
<1>8. ASSUME NEW i \in 1..Len(r) PROVE ChatAt(r, i)
  <2>1. CASE i <= m
    BY <1>1, <1>6, <2>1
  <2>2. CASE i > m
    <3>1. i - m \in 1..n /\ m + (i - m) = i
      BY <1>1, <2>2
    <3>. QED
      BY <1>7, <3>1
  <2>. QED
    BY <1>1, <2>1, <2>2
<1>. QED
  BY <1>8 DEF ChatOrder, r

(* A Chat upstream accepts messages in order.                              *)
LEMMA ChatOrderAccepted ==
    ASSUME NEW w, w.messages \in Seq(ChatMs), ChatOrder(w.messages)
    PROVE  ChatAccepts(w)
<1> DEFINE s == w.messages
           n == Len(s)
           Since(i, k) == /\ k > 0 => s[k].role # "tool"
                          /\ \A j \in (k + 1)..(i - 1) : s[j].role = "tool"
           SinceAssistant(i) == i - (CHOOSE k \in 0..(i - 1) : Since(i, k))
<1>1. DOMAIN s = 1..n /\ n \in Nat
  BY LenProperties
<1>2. \A i \in 1..n : ChatAt(s, i)
  BY DEF ChatOrder
<1>3. ASSUME NEW i \in 1..n
      PROVE  LET calls == s[i].tool_calls
             IN  /\ s[i].role = "assistant" => calls # <<>> \/ s[i].content # <<>>
                 /\ i + Len(calls) <= n
                 /\ {s[i + k].call : k \in 1..Len(calls)} = {calls[k].id : k \in DOMAIN calls}
                 /\ \A k \in DOMAIN calls : Lawful(calls[k].arguments)
  <2> DEFINE calls == s[i].tool_calls
  <2>1. DOMAIN calls = 1..Len(calls)
    BY CallsCounted, LenProperties
  <2>2. /\ s[i].role = "assistant" => calls # <<>> \/ s[i].content # <<>>
        /\ i + Len(calls) <= n
        /\ \A k \in 1..Len(calls) : s[i + k].call = calls[k].id /\ Lawful(calls[k].arguments)
    BY <1>2 DEF ChatAt
  <2> HIDE DEF calls
  <2>3. {s[i + k].call : k \in 1..Len(calls)} = {calls[k].id : k \in DOMAIN calls}
    BY <2>1, <2>2
  <2>. QED
    BY <2>1, <2>2, <2>3 DEF calls
<1>4. ASSUME NEW i \in 1..n, s[i].role = "tool"
      PROVE  LET k == i - SinceAssistant(i)
             IN  k > 0 /\ \E j \in DOMAIN s[k].tool_calls : s[k].tool_calls[j].id = s[i].call
  <2>1. AnsweredAt(s, i)
    BY <1>2, <1>4 DEF ChatAt
  <2>2. PICK k \in 1..(i - 1) : /\ s[k].role # "tool" /\ Answers1(s, k, i)
                                /\ \A j \in (k + 1)..(i - 1) : s[j].role = "tool"
    BY <2>1 DEF AnsweredAt
  <2>3. k \in 0..(i - 1) /\ Since(i, k) /\ k > 0 /\ i \in Nat /\ k \in Nat
    BY <1>1, <2>2
  <2>4. ASSUME NEW l \in 0..(i - 1), Since(i, l) PROVE l = k
    <3>1. l \in Nat
      BY <2>3
    <3>2. ~(l < k)
      <4>1. SUFFICES ASSUME l < k PROVE FALSE
        OBVIOUS
      <4>2. k \in (l + 1)..(i - 1)
        BY <2>3, <3>1, <4>1
      <4>. QED
        BY <2>2, <2>4, <4>2
    <3>3. ~(k < l)
      <4>1. SUFFICES ASSUME k < l PROVE FALSE
        OBVIOUS
      <4>2. l \in (k + 1)..(i - 1) /\ l > 0
        BY <2>3, <2>4, <3>1, <4>1
      <4>. QED
        BY <2>2, <2>4, <4>2
    <3>. QED
      BY <2>3, <3>1, <3>2, <3>3
  <2> HIDE DEF Since
  <2>5. (CHOOSE l \in 0..(i - 1) : Since(i, l)) = k
    BY <2>3, <2>4
  <2>6. i - SinceAssistant(i) = k
    <3>1. SinceAssistant(i) = i - k
      BY <2>5
    <3> HIDE DEF SinceAssistant
    <3>. QED
      BY <2>3, <3>1
  <2>7. k \in 1..n
    BY <1>1, <2>2
  <2>8. DOMAIN s[k].tool_calls = 1..Len(s[k].tool_calls)
    BY <2>7, CallsCounted, LenProperties
  <2> HIDE DEF SinceAssistant
  <2>. QED
    BY <2>2, <2>3, <2>6, <2>8 DEF Answers1
<1>. QED
  BY <1>1, <1>3, <1>4 DEF ChatAccepts

(* A codec f that writes results by rf, and the words of a reply as plain  *)
(* content P after them.                                                   *)
RepliesTo(f, rf, P) ==
    /\ \A c \in ResultC : f[ToolF[c]] = <<rf[c]>>
    /\ \A cs \in Seq(ResultC) : \A c \in Seq(TextC \cup ImageC) :
          \E pl \in Seq(P) : f[Message("user", cs \o c)] = Each(rf, cs) \o pl
    /\ \A x \in Noted : f[x] \in Seq(P)

CanReply(f, rf, P, A) ==
    P \subseteq A /\ IsMap(f, IRMessages, A) /\ IsFcn(rf, ResultC, A) /\ RepliesTo(f, rf, P)

(* Results for ids, in order, then plain content.                          *)
Written(rf, P, ids, x) ==
    \E cs \in Seq(ResultC) : \E pl \in Seq(P) : Each(ResId, cs) = ids /\ x = Each(rf, cs) \o pl

(* A reply is written as its results, in the order of the calls, and then  *)
(* plain content.                                                          *)
LEMMA ReplyMapped ==
    ASSUME NEW A, NEW P, NEW f, NEW rf, CanReply(f, rf, P, A), NEW ids, NEW b, Replied(ids, b)
    PROVE  Written(rf, P, ids, Mapped(f, b))
<1> DEFINE none == <<>>
<1>11. P \subseteq A /\ IsMap(f, IRMessages, A) /\ IsFcn(rf, ResultC, A) /\ RepliesTo(f, rf, P)
  BY DEF CanReply
<1> USE <1>11
<1>0. /\ none \in Seq(P) /\ none \in Seq(ResultC) /\ none \in Seq(IRMessages)
      /\ Mapped(f, none) = none /\ Seq(P) \subseteq Seq(A) /\ Each(rf, none) = none
  BY MappedFacts, EachFacts, EmptySeq, SeqOfMore
<1>1. PICK m \in Seq(IRMessages) : \E n \in Maybe(Noted) :
         (AskedInOne(ids, m) \/ AskedApart(ids, m)) /\ b = m \o n
  BY DEF Replied
<1>2. PICK n \in Maybe(Noted) : (AskedInOne(ids, m) \/ AskedApart(ids, m)) /\ b = m \o n
  BY <1>1
<1>3. n \in Seq(IRMessages) /\ Mapped(f, n) \in Seq(P)
  <2>1. CASE n = <<>>
    BY <1>0, <2>1
  <2>2. ASSUME NEW x \in Noted, n = <<x>> PROVE n \in Seq(IRMessages) /\ Mapped(f, n) \in Seq(P)
    <3>1. x \in IRMessages
      BY ToolFFacts
    <3>2. <<x>> \in Seq(IRMessages) /\ Mapped(f, <<x>>) = f[x]
      BY <3>1, OneThing, MappedFacts
    <3>3. f[x] \in Seq(P)
      BY DEF RepliesTo
    <3>. QED
      BY <2>2, <3>2, <3>3
  <2>. QED
    BY <2>1, <2>2 DEF Maybe
<1> HIDE DEF none
<1>4. \E cs \in Seq(ResultC) : \E pl \in Seq(P) : Each(ResId, cs) = ids /\ Mapped(f, m) = Each(rf, cs) \o pl
  <2>1. CASE AskedInOne(ids, m)
    <3>1. PICK cs \in Seq(ResultC) : \E c \in Seq(TextC \cup ImageC) :
             Each(ResId, cs) = ids /\ m = <<Message("user", cs \o c)>>
      BY <2>1 DEF AskedInOne
    <3>2. PICK c \in Seq(TextC \cup ImageC) : Each(ResId, cs) = ids /\ m = <<Message("user", cs \o c)>>
      BY <3>1
    <3> DEFINE x == Message("user", cs \o c)
    <3>3. PICK pl \in Seq(P) : f[x] = Each(rf, cs) \o pl
      BY DEF RepliesTo
    <3>4. x \in IRMessages
      <4> DEFINE d == cs \o c
      <4>1. cs \in Seq(UserC) /\ c \in Seq(UserC)
        <5>1. ResultC \subseteq UserC
          BY DEF UserC
        <5>. QED
          BY <5>1, MoreTypes, SeqOfMore
      <4>2. d \in Seq(UserC)
        BY <4>1, ConcatProperties
      <4> HIDE DEF d
      <4>3. Message("user", d) \in IRMessages
        BY <4>2, MoreTypes
      <4>. QED
        BY <4>3 DEF d
    <3> HIDE DEF x
    <3>5. Mapped(f, <<x>>) = f[x]
      BY <3>4, MappedFacts
    <3>6. Mapped(f, m) = Each(rf, cs) \o pl
      BY <3>2, <3>3, <3>5 DEF x
    <3>. QED
      BY <3>2, <3>6
  <2>2. CASE AskedApart(ids, m)
    <3>1. PICK cs \in Seq(ResultC) : \E u \in Maybe(UserSaid) :
             Each(ResId, cs) = ids /\ (ids = <<>> => u # <<>>) /\ m = Each(ToolF, cs) \o u
      BY <2>2 DEF AskedApart
    <3>2. PICK u \in Maybe(UserSaid) : Each(ResId, cs) = ids /\ m = Each(ToolF, cs) \o u
      BY <3>1
    <3>3. u \in Seq(IRMessages) /\ Mapped(f, u) \in Seq(P)
      <4>1. CASE u = <<>>
        BY <1>0, <4>1 DEF none
      <4>2. ASSUME NEW x \in UserSaid, u = <<x>> PROVE u \in Seq(IRMessages) /\ Mapped(f, u) \in Seq(P)
        <5>1. x \in IRMessages
          BY ToolFFacts
        <5>2. <<x>> \in Seq(IRMessages) /\ Mapped(f, <<x>>) = f[x]
          BY <5>1, OneThing, MappedFacts
        <5>3. PICK c \in Seq(TextC \cup ImageC) : x = Message("user", c)
          BY DEF UserSaid
        <5>4. none \o c = c
          BY ConcatEmptySeq DEF none
        <5>5. PICK pl \in Seq(P) : f[Message("user", none \o c)] = Each(rf, none) \o pl
          BY <1>0 DEF RepliesTo
        <5>6. none \o pl = pl
          BY ConcatEmptySeq DEF none
        <5>7. f[x] = pl
          BY <1>0, <5>3, <5>4, <5>5, <5>6
        <5>. QED
          BY <4>2, <5>2, <5>7
      <4>. QED
        BY <4>1, <4>2 DEF Maybe
    <3> DEFINE e == Each(ToolF, cs)
               h == Singly(rf, ResultC)
    <3>4. e \in Seq(IRMessages)
      BY ToolFFacts, EachFacts
    <3>5. \A c \in ResultC : h[c] = f[ToolF[c]]
      BY DEF RepliesTo, Singly
    <3>6. Each(rf, cs) = Mapped(h, cs)
      BY EachIsMapped
    <3> HIDE DEF h
    <3>10. IsFcn(ToolF, ResultC, IRMessages)
      BY ToolFFacts
    <3>7. Mapped(f, e) = Mapped(h, cs)
      BY ONLY <3>5, <3>10, cs \in Seq(ResultC), EachThenMapped
    <3> HIDE DEF e
    <3>8. Mapped(f, e \o u) = Mapped(f, e) \o Mapped(f, u)
      BY <3>3, <3>4, MappedConcat
    <3>9. Mapped(f, m) = Each(rf, cs) \o Mapped(f, u)
      BY <3>2, <3>6, <3>7, <3>8 DEF e
    <3>. QED
      BY <3>2, <3>3, <3>9
  <2>. QED
    BY <1>2, <2>1, <2>2
<1>5. PICK cs \in Seq(ResultC) : \E pl \in Seq(P) : Each(ResId, cs) = ids /\ Mapped(f, m) = Each(rf, cs) \o pl
  BY <1>4
<1>6. PICK pl \in Seq(P) : Each(ResId, cs) = ids /\ Mapped(f, m) = Each(rf, cs) \o pl
  BY <1>5
<1> DEFINE e == Each(rf, cs)
           k == Mapped(f, n)
<1>7. e \in Seq(A) /\ pl \in Seq(A) /\ k \in Seq(A) /\ k \in Seq(P)
  BY <1>0, <1>3, EachFacts
<1>8. Mapped(f, b) = Mapped(f, m) \o k
  BY <1>2, <1>3, MappedConcat
<1> HIDE DEF e, k
<1>9. (e \o pl) \o k = e \o (pl \o k) /\ pl \o k \in Seq(P)
  BY <1>7, ThreeConcat, ConcatProperties
<1>10. Mapped(f, b) = e \o (pl \o k)
  BY <1>6, <1>8, <1>9 DEF e
<1>. QED
  BY <1>6, <1>9, <1>10 DEF e, Written

(* The results at the front of a user's content are what is selected of    *)
(* it.                                                                     *)
LEMMA ResultsFirst ==
    ASSUME NEW cs \in Seq(ResultC), NEW c \in Seq(TextC \cup ImageC)
    PROVE  cs \o c \in Seq(UserC) /\ cs \o c \in Seq(IRBlocks) /\ OfKinds({"tool_result"}, cs \o c) = cs
<1> DEFINE K == {"tool_result"}
           f == Keep(UserC, K)
<1>1. cs \in Seq(UserC) /\ c \in Seq(UserC)
  <2>1. ResultC \subseteq UserC
    BY DEF UserC
  <2>. QED
    BY <2>1, MoreTypes, SeqOfMore
<1>2. cs \o c \in Seq(UserC)
  BY <1>1, ConcatProperties
<1>3. \A s \in Seq(UserC) : OfKinds(K, s) = Mapped(f, s)
  BY OfKindsIsMapped
<1>4. IsMap(f, UserC, UserC)
  BY OfKindsIsMapped
<1>5. \A x \in ResultC : x.kind \in K
  BY DEF ResultC
<1>6. \A x \in TextC \cup ImageC : x.kind \notin K
  BY DEF TextC, ImageC
<1> HIDE DEF K, f
<1>7. OfKinds(K, cs) = cs
  BY <1>5, KeepAll
<1>8. OfKinds(K, c) = <<>>
  BY <1>6, KeepNone
<1>9. Mapped(f, cs \o c) = Mapped(f, cs) \o Mapped(f, c)
  BY <1>1, <1>4, MappedConcat
<1>10. Mapped(f, cs) = cs /\ Mapped(f, c) = <<>>
  BY <1>1, <1>3, <1>7, <1>8
<1>11. cs \o <<>> = cs
  BY ConcatEmptySeq
<1>12. OfKinds(K, cs \o c) = cs
  BY <1>2, <1>3, <1>9, <1>10, <1>11
<1>. QED
  BY <1>2, <1>12, TypesFacts DEF K

(* Chat messages without calls and results.                                *)
PlainU == {m \in ChatMs : m.role \in {"system", "user"}}

(* Chat Completions writes replies so.                                     *)
LEMMA ChatReplies ==
    CanReply(UMFromIR, ResultToU, PlainU, ChatMs)
<1>1. ASSUME NEW c \in ResultC PROVE UMFromIR[ToolF[c]] = <<ResultToU[c]>>
  <2> DEFINE s == <<c>>
             m == Message("tool", s)
  <2>1. s \in Seq(ResultC) /\ Each(ResultToU, s) = <<ResultToU[c]>>
    BY ResultsToChat, EachOne
  <2>2. ToolF[c] = m
    BY ToolFFacts
  <2> HIDE DEF s
  <2>3. m \in IRMessages /\ m.role = "tool" /\ m.content = s
    BY <2>1, MoreTypes, MessageFacts
  <2>4. UMFromIR[m] = IRMessageToChat(m)
    BY <2>3, UMFromIRFacts
  <2>5. IRMessageToChat(m) = ToolResultsToChat(s)
    BY <2>3 DEF IRMessageToChat
  <2>6. ToolResultsToChat(s) = Each(ResultToU, s)
    BY <2>1, ResultsToChat
  <2>. QED
    BY <2>1, <2>2, <2>4, <2>5, <2>6
<1>2. ASSUME NEW cs \in Seq(ResultC), NEW c \in Seq(TextC \cup ImageC)
      PROVE  \E pl \in Seq(PlainU) : UMFromIR[Message("user", cs \o c)] = Each(ResultToU, cs) \o pl
  <2> DEFINE d == cs \o c
             m == Message("user", d)
             parts == MapSeq(AsPart, OfKinds({"text", "image"}, d))
             x == ChatMsg("user", ChatContent(parts))
             pl == IF parts = <<>> THEN <<>> ELSE <<x>>
  <2>1. d \in Seq(UserC) /\ d \in Seq(IRBlocks) /\ OfKinds({"tool_result"}, d) = cs
    BY ResultsFirst
  <2> HIDE DEF d
  <2>2. m \in IRMessages /\ m.role = "user" /\ m.content = d
    BY <2>1, MoreTypes, MessageFacts
  <2>3. UMFromIR[m] = IRUserToChat(d)
    <3>1. UMFromIR[m] = IRMessageToChat(m)
      BY <2>2, UMFromIRFacts
    <3> HIDE DEF m
    <3>. QED
      BY <2>2, <3>1 DEF IRMessageToChat
  <2>4. IRUserToChat(d) = ToolResultsToChat(cs) \o pl
    BY <2>1 DEF IRUserToChat, OfKind
  <2>5. ToolResultsToChat(cs) = Each(ResultToU, cs)
    BY ResultsToChat
  <2>6. parts \in Seq(PartU)
    <3>1. OfKinds({"text", "image"}, d) \in Seq(TextC \cup ImageC)
      BY <2>1, KindsFacts DEF WordKinds
    <3>. QED
      BY <3>1, PartsFromIR
  <2> HIDE DEF parts
  <2>7. x \in PlainU
    <3> DEFINE cc == ChatContent(parts)
    <3>1. cc \in Seq(PartU) /\ "user" \in Roles
      BY <2>6, ChatContentFacts DEF Roles
    <3> HIDE DEF cc
    <3>2. ChatMsg("user", cc) \in ChatMs /\ ChatMsg("user", cc).role = "user"
      BY <3>1, ChatMsgFacts
    <3>. QED
      BY <3>2 DEF PlainU, cc
  <2> HIDE DEF x
  <2>8. pl \in Seq(PlainU)
    BY <2>7, OneThing
  <2> HIDE DEF pl
  <2>. QED
    BY <2>3, <2>4, <2>5, <2>8 DEF d
<1>3. ASSUME NEW x \in Noted PROVE UMFromIR[x] \in Seq(PlainU)
  <2>1. PICK c \in Seq(TextC) : x = Message("system", c)
    BY DEF Noted
  <2>2. x \in IRMessages /\ x.role = "system" /\ x.content = c
    BY <2>1, MoreTypes, MessageFacts
  <2> DEFINE t == AsString(JoinText(c))
             y == ChatMsg("system", t)
  <2>3. UMFromIR[x] = <<y>>
    <3>1. UMFromIR[x] = IRMessageToChat(x)
      BY <2>2, UMFromIRFacts
    <3>. QED
      BY <2>2, <3>1 DEF IRMessageToChat
  <2>4. t \in Seq(TextA) /\ t \in Seq(PartU) /\ "system" \in Roles
    <3>1. JoinText(c) \in Texts
      BY JoinFacts, TypesFacts
    <3>. QED
      BY <3>1, StringFacts DEF Roles
  <2> HIDE DEF t
  <2>5. y \in PlainU
    <3>1. y \in ChatMs /\ y.role = "system"
      BY <2>4, ChatMsgFacts
    <3>. QED
      BY <3>1 DEF PlainU
  <2> HIDE DEF y
  <2>. QED
    BY <2>3, <2>5, OneThing
<1>4. RepliesTo(UMFromIR, ResultToU, PlainU)
  BY <1>1, <1>2, <1>3 DEF RepliesTo
<1>5. IsMap(UMFromIR, IRMessages, ChatMs) /\ IsFcn(ResultToU, ResultC, ChatMs) /\ PlainU \subseteq ChatMs
  BY UMFromIRFacts, ResultsToChat DEF PlainU
<1>. QED
  BY <1>4, <1>5 DEF CanReply

(* Messages without calls and results are in order.                        *)
LEMMA PlainChat ==
    \A s \in Seq(PlainU) : s \in Seq(ChatMs) /\ ChatOrder(s)
<1> TAKE s \in Seq(PlainU)
<1>1. PlainU \subseteq ChatMs
  BY DEF PlainU
<1>2. s \in Seq(ChatMs)
  BY <1>1, SeqOfMore
<1>3. ASSUME NEW i \in 1..Len(s) PROVE ChatAt(s, i)
  <2>1. s[i] \in PlainU /\ Len(s) \in Nat
    BY ElementOfSeq, LenProperties
  <2>2. s[i].role # "assistant" /\ s[i].role # "tool" /\ s[i] \in ChatMs
    BY <2>1 DEF PlainU
  <2>3. s[i].tool_calls = <<>>
    BY <2>2, ChatTypes
  <2>4. Len(s[i].tool_calls) = 0
    BY <2>3, EmptySeq
  <2>. QED
    BY <2>1, <2>2, <2>4 DEF ChatAt
<1>. QED
  BY <1>2, <1>3 DEF ChatOrder

(* An answer in Chat Completions: it says or calls something, and its      *)
(* calls are lawful.                                                       *)
LEMMA AssistantInChat ==
    ASSUME NEW q, NEW c \in Seq(Spoken(q))
    PROVE  LET am == IRAssistantToChat(c)
           IN  /\ am \in ChatMs /\ am.role = "assistant"
               /\ am.tool_calls # <<>> \/ am.content # <<>>
               /\ \A k \in 1..Len(am.tool_calls) : Lawful(am.tool_calls[k].arguments)
               /\ Each(ChatId, am.tool_calls) = CallIds(c)
<1> DEFINE am == IRAssistantToChat(c)
           s == OfKinds({"tool_use"}, c)
           calls == MapSeq(LAMBDA x : [id |-> x.id, arguments |-> ArgumentsOr(x.input, "{}")], s)
           parts == MapSeq(AsPart, OfKind("text", c))
<1>0. c \in Seq(AssistantC) /\ c \in Seq(IRBlocks)
  BY SpokenFacts, TypesFacts
<1>1. /\ am.role = "assistant" /\ am.tool_calls = calls
      /\ am.content = IF parts = <<>> /\ calls = <<>> THEN AsString(<<>>) ELSE ChatContent(parts)
  BY DEF IRAssistantToChat, OfKind
<1>2. am \in ChatMs
  BY <1>0, AssistantToChat
<1>3. s \in Seq(CallC)
  BY <1>0, KindsFacts
<1> HIDE DEF am, s, parts
<1>4. calls = Each(CallFromF, s) /\ calls \in Seq(CallU) /\ Each(HearCall, calls) = Mapped(HearC, s)
  BY <1>3, CallsFromIR
<1> HIDE DEF calls
<1>5. OnlyTools(Mapped(HearC, c)) = Mapped(HearC, s)
  BY <1>0, CallsInIR DEF s
<1>6. CallIds(c) = Each(IdF, Each(HearCall, calls))
  BY <1>4, <1>5 DEF CallIds
<1>7. Each(ChatId, calls) = Each(IdF, Each(HearCall, calls))
  <2>1. IsFcn(HearCall, CallU, Tooly)
    BY CallFacts
  <2>2. ASSUME NEW tc \in CallU PROVE ChatId[tc] = IdF[HearCall[tc]]
    <3>1. tc.id \in Nat /\ ChatId[tc] = tc.id
      BY DEF CallU, ChatId
    <3>. QED
      BY <3>1, CallFacts, IdFacts
  <2>. QED
    BY <1>4, <2>1, <2>2, EachTwice
<1>8. ASSUME NEW k \in 1..Len(calls) PROVE Lawful(calls[k].arguments)
  <2>1. IsFcn(CallFromF, CallC, CallU)
    <3>1. ASSUME NEW x \in CallC PROVE CallFromF[x] \in CallU
      <4>1. x.id \in Nat /\ x.input \in Args
        BY DEF CallC
      <4>2. ArgumentsOr(x.input, "{}") \in Args
        BY <4>1 DEF ArgumentsOr, Args
      <4>. QED
        BY <4>1, <4>2 DEF CallFromF, CallU
    <3>. QED
      BY <3>1 DEF IsFcn
  <2>2. Len(calls) = Len(s) /\ DOMAIN s = 1..Len(s)
    BY <1>3, <1>4, <2>1, EachFacts, LenProperties
  <2>3. calls[k] = CallFromF[s[k]] /\ s[k] \in CallC
    BY <1>3, <1>4, <2>1, <2>2, EachFacts, ElementOfSeq
  <2>4. calls[k].arguments = ArgumentsOr(s[k].input, "{}")
    <3>1. \A x \in CallC : CallFromF[x].arguments = ArgumentsOr(x.input, "{}")
      BY DEF CallFromF
    <3>. QED
      BY <2>3, <3>1
  <2>. QED
    BY <2>4 DEF Lawful, ArgumentsOr
<1>9. am.tool_calls # <<>> \/ am.content # <<>>
  <2>1. CASE calls # <<>>
    BY <1>1, <2>1
  <2>2. CASE parts = <<>> /\ calls = <<>>
    BY <1>1, <2>2 DEF AsString
  <2>3. CASE parts # <<>>
    <3>1. am.content = ChatContent(parts)
      BY <1>1, <2>3
    <3>2. ChatContent(parts) # <<>>
      BY <2>3 DEF ChatContent, AsString
    <3>. QED
      BY <3>1, <3>2
  <2>. QED
    BY <2>1, <2>2, <2>3
<1>. QED
  BY <1>1, <1>2, <1>6, <1>7, <1>8, <1>9 DEF am

(* An answer followed by the results of its calls is in order;             *)
LEMMA ChatBlock ==
    ASSUME NEW am \in ChatMs, am.role = "assistant", am.tool_calls # <<>> \/ am.content # <<>>,
           \A k \in 1..Len(am.tool_calls) : Lawful(am.tool_calls[k].arguments),
           NEW cs \in Seq(ResultC), Each(ResId, cs) = Each(ChatId, am.tool_calls)
    PROVE  ChatOrder(<<am>> \o Each(ResultToU, cs))
<1> DEFINE R == Each(ResultToU, cs)
           a == <<am>>
           s == a \o R
           calls == am.tool_calls
           n == Len(cs)
<1>1. calls \in Seq(CallU) /\ n \in Nat
  BY ChatTypes, LenProperties
<1>2. R \in Seq(ChatMs) /\ Len(R) = n /\ \A k \in 1..n : R[k] = ResultToU[cs[k]] /\ cs[k] \in ResultC
  <2>1. DOMAIN cs = 1..n
    BY LenProperties
  <2>. QED
    BY <2>1, ResultsToChat, EachFacts, ElementOfSeq
<1>3. a \in Seq(ChatMs) /\ Len(a) = 1 /\ a[1] = am
  BY Tuples
<1> HIDE DEF a, R
<1>4. Len(s) = 1 + n /\ s[1] = am /\ \A k \in 1..n : s[1 + k] = R[k]
  <2>1. /\ Len(s) = Len(a) + Len(R)
        /\ \A i \in 1..Len(a) : s[i] = a[i]
        /\ \A i \in 1..Len(R) : s[Len(a) + i] = R[i]
    <3>1. a \in Seq(ChatMs) /\ R \in Seq(ChatMs)
      BY <1>2, <1>3
    <3> HIDE DEF n, calls
    <3>2. Len(a \o R) = Len(a) + Len(R)
      BY ONLY <3>1, ConcatAt
    <3>3. \A i \in 1..Len(a) : (a \o R)[i] = a[i]
      BY ONLY <3>1, ConcatAt
    <3>4. \A i \in 1..Len(R) : (a \o R)[Len(a) + i] = R[i]
      BY ONLY <3>1, ConcatAt
    <3>. QED
      BY <3>2, <3>3, <3>4
  <2> HIDE DEF s, n
  <2>. QED
    BY <1>1, <1>2, <1>3, <2>1
<1>5. Len(calls) = n /\ \A k \in 1..n : calls[k].id = cs[k].id
  <2>1. IsFcn(ChatId, CallU, Nat)
    BY DEF IsFcn, ChatId, CallU
  <2>2. Len(Each(ChatId, calls)) = Len(calls) /\ DOMAIN calls = 1..Len(calls)
    BY <1>1, <2>1, EachFacts, LenProperties
  <2>3. Len(Each(ResId, cs)) = n /\ DOMAIN cs = 1..n
    BY ToolFFacts, EachFacts, LenProperties
  <2>4. Len(calls) = n
    BY <2>2, <2>3
  <2>5. ASSUME NEW k \in 1..n PROVE calls[k].id = cs[k].id
    <3>1. Each(ChatId, calls)[k] = ChatId[calls[k]] /\ calls[k] \in CallU
      BY <1>1, <2>1, <2>2, <2>4, EachFacts, ElementOfSeq
    <3>2. Each(ResId, cs)[k] = ResId[cs[k]]
      BY <2>3, ToolFFacts, EachFacts
    <3>3. ChatId[calls[k]] = calls[k].id
      BY <3>1 DEF ChatId
    <3>4. ResId[cs[k]] = cs[k].id
      BY <1>2, ToolFFacts
    <3>. QED
      BY <3>1, <3>2, <3>3, <3>4
  <2>. QED
    BY <2>4, <2>5
<1>6. ASSUME NEW k \in 1..n
      PROVE  s[1 + k].role = "tool" /\ s[1 + k].tool_calls = <<>> /\ s[1 + k].call = calls[k].id
  <2>1. s[1 + k] = ToolMsg(cs[k].id, AsString(Prefixed(cs[k])))
    BY <1>2, <1>4 DEF ResultToU
  <2>. QED
    BY <1>5, <2>1 DEF ToolMsg
<1> HIDE DEF s, calls, n
<1>7. ChatAt(s, 1)
  <2>1. s[1].role = "assistant" /\ s[1].tool_calls = calls /\ s[1].content = am.content
    BY <1>4 DEF calls
  <2>2. \A k \in 1..n : Lawful(calls[k].arguments)
    BY <1>5 DEF calls
  <2>. QED
    <3>1. calls # <<>> \/ s[1].content # <<>>
      BY <2>1 DEF calls
    <3>2. 1 + Len(calls) <= Len(s)
      BY <1>1, <1>4, <1>5
    <3>3. \A k \in 1..Len(calls) : s[1 + k].call = calls[k].id /\ Lawful(calls[k].arguments)
      BY <1>5, <1>6, <2>2
    <3>4. s[1].role # "tool"
      BY <2>1
    <3>. QED
      BY <2>1, <3>1, <3>2, <3>3, <3>4 DEF ChatAt
<1>8. ASSUME NEW k \in 1..n PROVE ChatAt(s, 1 + k)
  <2>1. s[1 + k].role = "tool" /\ s[1 + k].tool_calls = <<>> /\ s[1 + k].call = calls[k].id
    BY <1>6
  <2>2. Len(s[1 + k].tool_calls) = 0
    BY <2>1, EmptySeq
  <2>3. AnsweredAt(s, 1 + k)
    <3>1. 1 \in 1..((1 + k) - 1) /\ s[1].role # "tool"
      BY <1>1, <1>4
    <3>2. Answers1(s, 1, 1 + k)
      <4>1. s[1].tool_calls = calls /\ k \in 1..Len(calls)
        BY <1>4, <1>5 DEF calls
      <4>. QED
        BY <2>1, <4>1 DEF Answers1
    <3>3. ASSUME NEW j \in (1 + 1)..((1 + k) - 1) PROVE s[j].role = "tool"
      <4>1. j - 1 \in 1..n /\ 1 + (j - 1) = j
        BY <1>1
      <4>. QED
        BY <1>6, <4>1
    <3>. QED
      BY <3>1, <3>2, <3>3 DEF AnsweredAt
  <2>4. (1 + k) + 0 <= Len(s)
    BY <1>1, <1>4
  <2>. QED
    BY <2>1, <2>2, <2>3, <2>4 DEF ChatAt
<1>9. ASSUME NEW i \in 1..Len(s) PROVE ChatAt(s, i)
  <2>1. i = 1 \/ (i - 1 \in 1..n /\ 1 + (i - 1) = i)
    BY <1>1, <1>4
  <2>. QED
    BY <1>7, <1>8, <2>1
<1>. QED
  BY <1>9 DEF ChatOrder, s, a, R

(* so is a whole round.                                                    *)
LEMMA ChatRound ==
    ASSUME NEW q, NEW ids, NEW a \in Seq(IRMessages), Opened(q, ids, a),
           NEW b \in Seq(IRMessages), Replied(ids, b)
    PROVE  ChatOrder(Mapped(UMFromIR, a \o b))
<1> DEFINE f == UMFromIR
           none == <<>>
<1>0. IsMap(f, IRMessages, ChatMs) /\ IsFcn(ResultToU, ResultC, ChatMs) /\ PlainU \subseteq ChatMs
  BY UMFromIRFacts, ResultsToChat DEF PlainU
<1>1. PICK cs \in Seq(ResultC) : \E pl \in Seq(PlainU) :
         Each(ResId, cs) = ids /\ Mapped(f, b) = Each(ResultToU, cs) \o pl
  <2>1. CanReply(f, ResultToU, PlainU, ChatMs)
    BY ChatReplies
  <2> HIDE DEF f
  <2>2. Written(ResultToU, PlainU, ids, Mapped(f, b))
    BY <2>1, ReplyMapped
  <2>. QED
    BY <2>2 DEF Written
<1>2. PICK pl \in Seq(PlainU) : Each(ResId, cs) = ids /\ Mapped(f, b) = Each(ResultToU, cs) \o pl
  BY <1>1
<1> DEFINE R == Each(ResultToU, cs)
<1>3. R \in Seq(ChatMs) /\ pl \in Seq(ChatMs) /\ ChatOrder(pl)
  BY <1>0, EachFacts, PlainChat
<1>4. Mapped(f, a \o b) = Mapped(f, a) \o Mapped(f, b)
  BY <1>0, MappedConcat
<1>5. CASE a = none /\ ids = none
  <2>1. cs = none
    BY <1>2, <1>5, ToolFFacts, EachFacts
  <2>2. R = none /\ Mapped(f, none) = none /\ none \o pl = pl
    BY <1>0, <1>3, <2>1, EachFacts, MappedFacts, ConcatEmptySeq
  <2> HIDE DEF none
  <2>3. Mapped(f, a \o b) = pl
    BY <1>2, <1>4, <1>5, <2>2
  <2>. QED
    BY <1>3, <2>3
<1>6. CASE \E c \in Seq(Spoken(q)) : a = <<Message("assistant", c)>> /\ CallIds(c) = ids
  <2>1. PICK c \in Seq(Spoken(q)) : a = <<Message("assistant", c)>> /\ CallIds(c) = ids
    BY <1>6
  <2> DEFINE m == Message("assistant", c)
             am == IRAssistantToChat(c)
             s == <<am>>
  <2>2. m \in IRMessages /\ m.role = "assistant" /\ m.content = c
    BY SpokenFacts, MoreTypes, MessageFacts
  <2>3. f[m] = s
    <3>1. f[m] = IRMessageToChat(m)
      BY <2>2, UMFromIRFacts
    <3> HIDE DEF m
    <3>. QED
      BY <2>2, <3>1 DEF IRMessageToChat
  <2>4. /\ am \in ChatMs /\ am.role = "assistant"
        /\ am.tool_calls # <<>> \/ am.content # <<>>
        /\ \A k \in 1..Len(am.tool_calls) : Lawful(am.tool_calls[k].arguments)
        /\ Each(ChatId, am.tool_calls) = CallIds(c)
    BY AssistantInChat
  <2> HIDE DEF m, am
  <2>5. Mapped(f, a) = s
    <3>1. Mapped(f, <<m>>) = f[m]
      BY <1>0, <2>2, MappedFacts
    <3>. QED
      BY <2>1, <2>3, <3>1 DEF m
  <2>6. ChatOrder(s \o R)
    BY <1>2, <2>1, <2>4, ChatBlock
  <2>7. s \in Seq(ChatMs)
    BY <2>4, OneThing
  <2> HIDE DEF R, s
  <2>8. s \o R \in Seq(ChatMs) /\ (s \o R) \o pl = s \o (R \o pl)
    BY <1>3, <2>7, ThreeConcat, ConcatProperties
  <2>9. ChatOrder((s \o R) \o pl)
    BY <1>3, <2>6, <2>8, ChatOrderConcat
  <2>10. Mapped(f, a \o b) = s \o (R \o pl)
    BY <1>2, <1>4, <2>5 DEF R
  <2>. QED
    BY <2>8, <2>9, <2>10
<1>. QED
  BY <1>5, <1>6 DEF Opened

-----------------------------------------------------------------------------
(***************************************************************************)
(* Order in OpenAI Responses.                                              *)
(***************************************************************************)

(* Two items with the same role for the same call, and a call with its     *)
(* output.                                                                 *)
IsTool(it) == it.type \in {"function_call", "function_call_output"}
Twins(a, b) == IsTool(a) /\ a.type = b.type /\ a.call = b.call
Pair(a, b)  == a.type = "function_call" /\ b.type = "function_call_output" /\ a.call = b.call

(* What order asks of item i: no reasoning, an id in the range, lawful     *)
(* arguments, and an output after a call, a call before an output.         *)
ItemAt(lo, hi, s, i) ==
    /\ s[i].type # "reasoning"
    /\ IsTool(s[i]) => s[i].call \in Nat /\ lo < s[i].call /\ s[i].call <= hi
    /\ s[i].type = "function_call" => /\ Lawful(s[i].arguments)
                                      /\ \E j \in (i + 1)..Len(s) : Pair(s[i], s[j])
    /\ s[i].type = "function_call_output" => \E j \in 1..(i - 1) : Pair(s[j], s[i])

ItemsAt(lo, hi, s) == \A i \in 1..Len(s) : ItemAt(lo, hi, s, i)
NoTwins(s)         == \A i, j \in 1..Len(s) : Twins(s[i], s[j]) => i = j
ItemOrder(lo, hi, s) == ItemsAt(lo, hi, s) /\ NoTwins(s)

(* Items in order after items in order, with later ids, are in order.      *)
LEMMA ItemOrderConcat ==
    ASSUME NEW A, NEW s \in Seq(A), NEW t \in Seq(A), NEW lo \in Nat, NEW mid \in Nat, NEW hi \in Nat,
           lo <= mid, mid <= hi, ItemOrder(lo, mid, s), ItemOrder(mid, hi, t)
    PROVE  ItemOrder(lo, hi, s \o t)
<1> DEFINE r == s \o t
           m == Len(s)
           n == Len(t)
<1>1. m \in Nat /\ n \in Nat /\ Len(r) = m + n
  BY ConcatAt
<1>2. \A i \in 1..m : r[i] = s[i]
  BY ConcatAt
<1>3. \A i \in 1..n : r[m + i] = t[i]
  BY ConcatAt
<1>4. \A i \in 1..m : ItemAt(lo, mid, s, i)
  BY DEF ItemOrder, ItemsAt
<1>5. \A i \in 1..n : ItemAt(mid, hi, t, i)
  BY DEF ItemOrder, ItemsAt
<1>6. NoTwins(s) /\ NoTwins(t)
  BY DEF ItemOrder
<1> HIDE DEF r, m, n
<1>7. ASSUME NEW i \in 1..m PROVE ItemAt(lo, hi, r, i)
  <2>1. r[i] = s[i] /\ ItemAt(lo, mid, s, i)
    BY <1>2, <1>4
  <2>2. IsTool(s[i]) => s[i].call \in Nat /\ lo < s[i].call /\ s[i].call <= hi
    BY <2>1 DEF ItemAt
  <2>3. ASSUME s[i].type = "function_call"
        PROVE  Lawful(s[i].arguments) /\ \E j \in (i + 1)..Len(r) : Pair(s[i], r[j])
    <3>1. PICK j \in (i + 1)..m : Pair(s[i], s[j])
      BY <2>1, <2>3 DEF ItemAt, m
    <3>2. j \in (i + 1)..Len(r) /\ r[j] = s[j]
      BY <1>1, <1>2
    <3>. QED
      BY <2>1, <2>3, <3>1, <3>2 DEF ItemAt
  <2>4. ASSUME s[i].type = "function_call_output" PROVE \E j \in 1..(i - 1) : Pair(r[j], s[i])
    <3>1. PICK j \in 1..(i - 1) : Pair(s[j], s[i])
      BY <2>1, <2>4 DEF ItemAt
    <3>2. r[j] = s[j]
      BY <1>1, <1>2
    <3>. QED
      BY <3>1, <3>2
  <2>. QED
    BY <2>1, <2>2, <2>3, <2>4 DEF ItemAt
<1>8. ASSUME NEW i \in 1..n PROVE ItemAt(lo, hi, r, m + i)
  <2>1. r[m + i] = t[i] /\ ItemAt(mid, hi, t, i)
    BY <1>3, <1>5
  <2>2. IsTool(t[i]) => t[i].call \in Nat /\ lo < t[i].call /\ t[i].call <= hi
    BY <2>1 DEF ItemAt
  <2>3. ASSUME t[i].type = "function_call"
        PROVE  Lawful(t[i].arguments) /\ \E j \in ((m + i) + 1)..Len(r) : Pair(t[i], r[j])
    <3>1. PICK j \in (i + 1)..n : Pair(t[i], t[j])
      BY <2>1, <2>3 DEF ItemAt, n
    <3>2. m + j \in ((m + i) + 1)..Len(r) /\ r[m + j] = t[j]
      BY <1>1, <1>3
    <3>. QED
      BY <2>1, <2>3, <3>1, <3>2 DEF ItemAt
  <2>4. ASSUME t[i].type = "function_call_output" PROVE \E j \in 1..((m + i) - 1) : Pair(r[j], t[i])
    <3>1. PICK j \in 1..(i - 1) : Pair(t[j], t[i])
      BY <2>1, <2>4 DEF ItemAt
    <3>2. r[m + j] = t[j] /\ m + j \in 1..((m + i) - 1)
      BY <1>1, <1>3
    <3>. QED
      BY <3>1, <3>2
  <2>. QED
    BY <2>1, <2>2, <2>3, <2>4 DEF ItemAt
<1>9. \A i \in 1..Len(r) : i \in 1..m \/ (i - m \in 1..n /\ m + (i - m) = i)
  BY <1>1
<1>10. ItemsAt(lo, hi, r)
  <2>1. ASSUME NEW i \in 1..Len(r) PROVE ItemAt(lo, hi, r, i)
    BY <1>7, <1>8, <1>9
  <2>. QED
    BY <2>1 DEF ItemsAt
<1>11. ASSUME NEW i \in 1..m, NEW j \in 1..n PROVE ~Twins(s[i], t[j]) /\ ~Twins(t[j], s[i])
  <2>1. ItemAt(lo, mid, s, i) /\ ItemAt(mid, hi, t, j)
    BY <1>4, <1>5
  <2>2. IsTool(s[i]) => s[i].call \in Nat /\ s[i].call <= mid
    BY <2>1 DEF ItemAt
  <2>3. IsTool(t[j]) => t[j].call \in Nat /\ mid < t[j].call
    BY <2>1 DEF ItemAt
  <2>4. s[i].type = t[j].type => IsTool(s[i]) = IsTool(t[j])
    BY DEF IsTool
  <2>. QED
    BY <2>2, <2>3, <2>4 DEF Twins
<1>12. NoTwins(r)
  <2>1. ASSUME NEW i \in 1..Len(r), NEW j \in 1..Len(r), Twins(r[i], r[j]) PROVE i = j
    <3>1. CASE i \in 1..m /\ j \in 1..m
      BY <1>2, <1>6, <2>1, <3>1 DEF NoTwins, m
    <3>2. CASE i \in 1..m /\ j \notin 1..m
      <4>1. j - m \in 1..n /\ r[i] = s[i] /\ r[j] = t[j - m]
        BY <1>2, <1>3, <1>9, <3>2
      <4>. QED
        BY <1>11, <2>1, <3>2, <4>1
    <3>3. CASE i \notin 1..m /\ j \in 1..m
      <4>1. i - m \in 1..n /\ r[j] = s[j] /\ r[i] = t[i - m]
        BY <1>2, <1>3, <1>9, <3>3
      <4>. QED
        BY <1>11, <2>1, <3>3, <4>1
    <3>4. CASE i \notin 1..m /\ j \notin 1..m
      <4>1. i - m \in 1..n /\ j - m \in 1..n /\ r[j] = t[j - m] /\ r[i] = t[i - m]
        BY <1>3, <1>9, <3>4
      <4>2. i - m = j - m
        BY <1>6, <2>1, <4>1 DEF NoTwins, n
      <4>. QED
        BY <1>1, <4>2
    <3>. QED
      BY <3>1, <3>2, <3>3, <3>4
  <2>. QED
    BY <2>1 DEF NoTwins
<1>. QED
  BY <1>10, <1>12 DEF ItemOrder, r

(* An OpenAI Responses upstream accepts items in order.                    *)
LEMMA ItemOrderAccepted ==
    ASSUME NEW w, NEW A, w.input \in Seq(A), NEW lo \in Nat, NEW hi \in Nat, ItemOrder(lo, hi, w.input)
    PROVE  ResponsesAccepts(w)
<1> DEFINE s == w.input
           n == Len(s)
           At(type, id) == {i \in DOMAIN s : s[i].type = type /\ s[i].call = id}
           Tools == {j \in DOMAIN s : s[j].type \in {"function_call", "function_call_output"}}
           ids == {s[i].call : i \in Tools}
           call == "function_call"
           out  == "function_call_output"
<1>1. DOMAIN s = 1..n /\ n \in Nat
  BY LenProperties
<1>2. \A i \in 1..n : ItemAt(lo, hi, s, i)
  BY DEF ItemOrder, ItemsAt
<1>3. \A i, j \in 1..n : Twins(s[i], s[j]) => i = j
  BY DEF ItemOrder, NoTwins
<1>4. ASSUME NEW id \in ids
      PROVE  \E i \in At(call, id), j \in At(out, id) : At(call, id) = {i} /\ At(out, id) = {j} /\ i < j
  <2>1. PICK k \in Tools : id = s[k].call
    OBVIOUS
  <2>2. \E i, j \in 1..n : Pair(s[i], s[j]) /\ i < j /\ s[i].call = id
    <3>0. k \in 1..n
      BY <1>1
    <3>1. CASE s[k].type = call
      <4>1. PICK j \in (k + 1)..n : Pair(s[k], s[j])
        BY <1>2, <3>0, <3>1 DEF ItemAt
      <4>2. j \in 1..n /\ k < j
        BY <1>1, <3>0
      <4>. QED
        BY <2>1, <3>0, <4>1, <4>2
    <3>2. CASE s[k].type = out
      <4>1. PICK i \in 1..(k - 1) : Pair(s[i], s[k])
        BY <1>2, <3>0, <3>2 DEF ItemAt
      <4>2. i \in 1..n /\ i < k /\ s[i].call = id
        BY <1>1, <2>1, <3>0, <4>1 DEF Pair
      <4>. QED
        BY <3>0, <4>1, <4>2
    <3>. QED
      BY <3>1, <3>2
  <2>3. PICK i \in 1..n : \E j \in 1..n : Pair(s[i], s[j]) /\ i < j /\ s[i].call = id
    BY <2>2
  <2>4. PICK j \in 1..n : Pair(s[i], s[j]) /\ i < j /\ s[i].call = id
    BY <2>3
  <2>5. s[i].type = call /\ s[j].type = out /\ s[j].call = id /\ s[i].call = id
    BY <2>4 DEF Pair
  <2>6. i \in At(call, id) /\ j \in At(out, id)
    BY <1>1, <2>5
  <2>7. ASSUME NEW k1 \in At(call, id) PROVE k1 = i
    <3>1. k1 \in 1..n /\ Twins(s[k1], s[i])
      BY <1>1, <2>5, <2>7 DEF Twins, IsTool
    <3>. QED
      BY <1>3, <3>1
  <2>8. ASSUME NEW k1 \in At(out, id) PROVE k1 = j
    <3>1. k1 \in 1..n /\ Twins(s[k1], s[j])
      BY <1>1, <2>5, <2>8 DEF Twins, IsTool
    <3>. QED
      BY <1>3, <3>1
  <2>9. At(call, id) = {i} /\ At(out, id) = {j}
    <3> HIDE DEF At
    <3>. QED
      BY <2>6, <2>7, <2>8
  <2> HIDE DEF At
  <2>. QED
    BY <2>4, <2>6, <2>9
<1>5. ASSUME NEW i \in DOMAIN s
      PROVE  /\ s[i].type = "reasoning" => s[i].data # MadeUp
             /\ s[i].type = "function_call" => Lawful(s[i].arguments)
  <2>1. ItemAt(lo, hi, s, i)
    BY <1>1, <1>2
  <2>. QED
    BY <2>1 DEF ItemAt
<1>. QED
  BY <1>4, <1>5 DEF ResponsesAccepts

(* Items without calls and results.                                        *)
PlainR == DevR \cup UserR

(* A plain message is at most one item.                                    *)
LEMMA OneItem ==
    ASSUME NEW r \in {"developer", "user"}, NEW p \in Seq(TextR \cup ImageR), r = "developer" => p \in Seq(TextR)
    PROVE  MessageItems(r, p) \in Seq(PlainR)
<1>1. CASE p = <<>>
  <2>1. MessageItems(r, p) = <<>>
    BY <1>1 DEF MessageItems
  <2>. QED
    BY <2>1, EmptySeq
<1>2. CASE p # <<>>
  <2> DEFINE x == MessageItem(r, p)
  <2>1. MessageItems(r, p) = <<x>>
    BY <1>2 DEF MessageItems
  <2>2. x \in PlainR
    BY MessageItemFacts DEF PlainR
  <2> HIDE DEF x
  <2>. QED
    BY <2>1, <2>2, OneThing
<1>. QED
  BY <1>1, <1>2

(* OpenAI Responses writes replies as results and then plain items.        *)
LEMMA ItemReplies ==
    CanReply(RMFromIR, OutF, PlainR, RItems)
<1>0. IsFcn(OutF, ResultC, RItems)
  <2>1. OutR \subseteq RItems
    BY DEF RItems
  <2>. QED
    BY <2>1, OutputItemsFacts DEF IsFcn
<1>1. ASSUME NEW c \in ResultC PROVE RMFromIR[ToolF[c]] = <<OutF[c]>>
  <2> DEFINE s == <<c>>
             m == Message("tool", s)
  <2>1. s \in Seq(ResultC) /\ Each(OutF, s) = <<OutF[c]>>
    BY <1>0, EachOne
  <2>2. ToolF[c] = m
    BY ToolFFacts
  <2> HIDE DEF s
  <2>3. m \in IRMessages /\ m.role = "tool" /\ m.content = s
    BY <2>1, MoreTypes, MessageFacts
  <2>4. RMFromIR[m] = IRMessageToItems(m)
    BY <2>3, RMFromIRFacts
  <2>5. IRMessageToItems(m) = OutputItems(s)
    BY <2>3 DEF IRMessageToItems
  <2>6. OfKinds({"tool_result"}, s) = s
    <3> DEFINE K == {"tool_result"}
    <3>1. \A x \in ResultC : x.kind \in K
      BY DEF ResultC
    <3> HIDE DEF K
    <3>2. OfKinds(K, s) = s
      BY <2>1, <3>1, KeepAll
    <3>. QED
      BY <3>2 DEF K
  <2>7. OutputItems(s) = Each(OutF, s)
    BY <2>1, <2>6, TypesFacts, OutputItemsFacts
  <2>. QED
    BY <2>1, <2>2, <2>4, <2>5, <2>7
<1>2. ASSUME NEW cs \in Seq(ResultC), NEW c \in Seq(TextC \cup ImageC)
      PROVE  \E pl \in Seq(PlainR) : RMFromIR[Message("user", cs \o c)] = Each(OutF, cs) \o pl
  <2> DEFINE d == cs \o c
             m == Message("user", d)
             words == OfKinds(WordKinds, d)
             parts == MapSeq(LAMBDA x : IF x.kind = "image" THEN [type |-> "input_image"]
                                        ELSE [type |-> "input_text", text |-> x.text], words)
             pl == MessageItems("user", parts)
  <2>1. d \in Seq(UserC) /\ d \in Seq(IRBlocks) /\ OfKinds({"tool_result"}, d) = cs
    BY ResultsFirst
  <2> HIDE DEF d
  <2>2. m \in IRMessages /\ m.role = "user" /\ m.content = d
    BY <2>1, MoreTypes, MessageFacts
  <2>3. RMFromIR[m] = IRUserToItems(d)
    <3>1. RMFromIR[m] = IRMessageToItems(m)
      BY <2>2, RMFromIRFacts
    <3> HIDE DEF m
    <3>. QED
      BY <2>2, <3>1 DEF IRMessageToItems
  <2>4. IRUserToItems(d) = OutputItems(d) \o pl
    BY DEF IRUserToItems, WordKinds
  <2>5. OutputItems(d) = Each(OutF, cs)
    BY <2>1, OutputItemsFacts
  <2>6. words \in Seq(TextC \cup ImageC)
    BY <2>1, KindsFacts
  <2> HIDE DEF words
  <2>7. parts \in Seq(TextR \cup ImageR)
    BY <2>6, ItemPartFacts
  <2> HIDE DEF parts
  <2>8. pl \in Seq(PlainR)
    BY <2>7, OneItem
  <2> HIDE DEF pl
  <2>. QED
    BY <2>3, <2>4, <2>5, <2>8 DEF d
<1>3. ASSUME NEW x \in Noted PROVE RMFromIR[x] \in Seq(PlainR)
  <2>1. PICK c \in Seq(TextC) : x = Message("system", c)
    BY DEF Noted
  <2>2. x \in IRMessages /\ x.role = "system" /\ x.content = c
    BY <2>1, MoreTypes, MessageFacts
  <2> DEFINE t == TextParts("input_text", c)
  <2>3. RMFromIR[x] = MessageItems("developer", t)
    <3>1. RMFromIR[x] = IRMessageToItems(x)
      BY <2>2, RMFromIRFacts
    <3>. QED
      BY <2>2, <3>1 DEF IRMessageToItems
  <2>4. t \in Seq(TextR)
    <3> DEFINE s == OfKinds({"text"}, c)
               p == MapSeq(LAMBDA y : [type |-> "input_text", text |-> y.text], s)
    <3>1. s \in Seq(TextC)
      BY TypesFacts, KindsFacts
    <3> HIDE DEF s
    <3>2. p \in Seq(TextR)
      BY <3>1, ItemPartFacts
    <3>. QED
      BY <3>2 DEF TextParts, OfKind, s
  <2> HIDE DEF t
  <2>5. t \in Seq(TextR \cup ImageR)
    BY <2>4, MorePartsR
  <2>6. MessageItems("developer", t) \in Seq(PlainR)
    BY <2>4, <2>5, OneItem
  <2>. QED
    BY <2>3, <2>6
<1>4. RepliesTo(RMFromIR, OutF, PlainR)
  BY <1>1, <1>2, <1>3 DEF RepliesTo
<1>5. IsMap(RMFromIR, IRMessages, RItems) /\ PlainR \subseteq RItems
  BY RMFromIRFacts DEF PlainR, RItems
<1>. QED
  BY <1>0, <1>4, <1>5 DEF CanReply

(* Items of an answer from another protocol.                               *)
SaidItems == AsstR \cup {it \in CallR : Lawful(it.arguments)}
SaidSoFar == [items : Seq(SaidItems), parts : Seq(TextR)]

(* What is gathered of an answer of another protocol: messages and lawful  *)
(* calls,                                                                  *)
LEMMA SaidFacts ==
    /\ SaidItems \subseteq AnsR /\ Seq(SaidItems) \subseteq Seq(AnsR) /\ SaidSoFar \subseteq Gatherings
    /\ NoItems \in SaidSoFar
    /\ \A s \in SaidSoFar : s.items \in Seq(SaidItems) /\ s.parts \in Seq(TextR)
    /\ \A i \in Seq(SaidItems), p \in Seq(TextR) : [items |-> i, parts |-> p] \in SaidSoFar
<1>1. SaidItems \subseteq AnsR
  BY DEF SaidItems, AnsR
<1>2. Seq(SaidItems) \subseteq Seq(AnsR)
  BY <1>1, SeqOfMore
<1>3. \A s \in SaidSoFar : s.items \in Seq(SaidItems) /\ s.parts \in Seq(TextR)
  BY DEF SaidSoFar
<1>4. \A i \in Seq(SaidItems), p \in Seq(TextR) : [items |-> i, parts |-> p] \in SaidSoFar
  BY DEF SaidSoFar
<1>5. SaidSoFar \subseteq Gatherings
  BY <1>2 DEF SaidSoFar, Gatherings
<1>6. NoItems \in SaidSoFar
  BY <1>4, EmptySeq DEF NoItems
<1>. QED
  BY <1>1, <1>2, <1>3, <1>4, <1>5, <1>6

(* which flushing keeps                                                    *)
LEMMA SaidFlushed ==
    \A s \in SaidSoFar : Flush(s) \in Seq(SaidItems)
<1> TAKE s \in SaidSoFar
<1> DEFINE i == s.items
           p == s.parts
           k == MessageItems("assistant", p)
<1>1. i \in Seq(SaidItems) /\ p \in Seq(TextR)
  BY SaidFacts
<1>2. Flush(s) = i \o k
  BY DEF Flush
<1> HIDE DEF i, p
<1>3. k \in Seq(SaidItems)
  <2>1. CASE p = <<>>
    BY <2>1, EmptySeq DEF MessageItems
  <2>2. CASE p # <<>>
    <3> DEFINE x == MessageItem("assistant", p)
    <3>1. k = <<x>>
      BY <2>2 DEF MessageItems
    <3>2. x \in SaidItems
      BY <1>1, MessageItemFacts, MorePartsR DEF SaidItems
    <3> HIDE DEF x, k
    <3>. QED
      BY <3>1, <3>2, OneThing
  <2>. QED
    BY <2>1, <2>2
<1> HIDE DEF k
<1>. QED
  BY <1>1, <1>2, <1>3, ConcatProperties

(* and a further block keeps,                                              *)
LEMMA SaidBlock ==
    ASSUME NEW q, q # "openai_responses", NEW s \in SaidSoFar, NEW c \in Spoken(q)
    PROVE  AddBlock(s, c) \in SaidSoFar
<1> DEFINE f == Flush(s)
           none == <<>>
<1>0. f \in Seq(SaidItems) /\ none \in Seq(TextR)
  BY SaidFlushed, EmptySeq
<1>1. CASE c \in TextC
  <2> DEFINE b == [type |-> "output_text", text |-> c.text]
             p == Append(s.parts, b)
  <2>1. c.kind = "text" /\ c.text \in Texts
    BY <1>1 DEF TextC
  <2>2. b \in TextR
    BY <2>1 DEF TextR
  <2>3. s \in Gatherings /\ s.items \in Seq(SaidItems) /\ s.parts \in Seq(TextR)
    BY SaidFacts
  <2>4. AddBlock(s, c) = [s EXCEPT !.parts = p]
    BY <2>1 DEF AddBlock
  <2> HIDE DEF b
  <2>5. p \in Seq(TextR)
    BY <2>2, <2>3, AppendProperties
  <2> HIDE DEF p
  <2>6. [s EXCEPT !.parts = p] = [items |-> s.items, parts |-> p]
    BY <2>3, <2>5, GatheringFacts
  <2>. QED
    BY <2>3, <2>4, <2>5, <2>6, SaidFacts
<1>2. CASE c \in LawfulCallC
  <2> DEFINE a == ArgumentsOr(c.input, "{}")
             it == CallItem(c.id, a)
  <2>1. c.kind = "tool_use" /\ c.id \in Nat /\ c.input \in Args /\ Lawful(c.input)
    BY <1>2 DEF LawfulCallC, CallC
  <2>2. a \in Args /\ Lawful(a)
    BY <2>1 DEF ArgumentsOr, Args, Lawful
  <2>3. AddBlock(s, c) = [items |-> Append(f, it), parts |-> none]
    BY <2>1 DEF AddBlock
  <2> HIDE DEF a
  <2>4. it \in CallR /\ it.arguments = a
    BY <2>1, <2>2, ItemsAre DEF CallItem
  <2>5. it \in SaidItems
    BY <2>2, <2>4 DEF SaidItems
  <2> HIDE DEF it, f, none
  <2>6. Append(f, it) \in Seq(SaidItems)
    BY <1>0, <2>5, AppendProperties
  <2>. QED
    BY <1>0, <2>3, <2>6, SaidFacts
<1>3. CASE c \in PlainThinkC
  <2>1. c.kind = "thinking" /\ c.raw.type # "reasoning"
    BY <1>3 DEF PlainThinkC, ThinkC
  <2>2. AddBlock(s, c) = [items |-> f \o none, parts |-> none]
    BY <2>1 DEF AddBlock
  <2>3. f \o none = f
    BY <1>0, ConcatEmptySeq
  <2> HIDE DEF f, none
  <2>. QED
    BY <1>0, <2>2, <2>3, SaidFacts
<1>. QED
  BY <1>1, <1>2, <1>3 DEF Spoken

(* so its items have no reasoning in them.                                 *)
LEMMA SaidGathered ==
    ASSUME NEW q, q # "openai_responses", NEW c \in Seq(Spoken(q))
    PROVE  IRAssistantToItems(c) \in Seq(SaidItems)
<1>1. Spoken(q) \subseteq AssistantC /\ c \in Seq(AssistantC)
  BY SpokenFacts
<1>2. IRAssistantToItems(c) = Flush(Folded(AddBlockF, NoItems, c))
  BY <1>1, BlocksGathered DEF IRAssistantToItems, NoItems
<1>3. IsStep(AddBlockF, Spoken(q), SaidSoFar)
  <2>1. ASSUME NEW s \in SaidSoFar, NEW x \in Spoken(q) PROVE AddBlockF[<<s, x>>] \in SaidSoFar
    <3>1. AddBlockF[<<s, x>>] = AddBlock(s, x)
      BY <1>1, SaidFacts, AddFFacts
    <3>. QED
      BY <3>1, SaidBlock
  <2>. QED
    BY <2>1 DEF IsStep
<1>4. Folded(AddBlockF, NoItems, c) \in SaidSoFar
  BY <1>3, SaidFacts, FoldedFacts
<1>. QED
  BY <1>2, <1>4, SaidFlushed

CallsIdsOf == IdsOf(HearI, AnsR)

(* The call items of s are those of ids: each has its id there, each id    *)
(* has an item, and none has two if ids are distinct.                      *)
Found(s, ids)  == \A i \in 1..Len(s) : s[i].type = "function_call" => \E k \in 1..Len(ids) : ids[k] = s[i].call
Placed(s, ids) == \A k \in 1..Len(ids) : \E i \in 1..Len(s) : s[i].type = "function_call" /\ s[i].call = ids[k]
Unique(ids)    == \A i, j \in 1..Len(ids) : ids[i] = ids[j] => i = j
Single(s)      == \A i, j \in 1..Len(s) :
                     s[i].type = "function_call" /\ s[j].type = "function_call" /\ s[i].call = s[j].call => i = j
InPlace(s, ids) == Found(s, ids) /\ Placed(s, ids) /\ (Unique(ids) => Single(s))

(* A call after items whose calls are in place;                            *)
LEMMA OneMoreCall ==
    ASSUME NEW s \in Seq(AnsR), NEW ids \in Seq(Nat), InPlace(s, ids), NEW x \in AnsR, x.type = "function_call",
           NEW n \in Nat, n = x.call
    PROVE  InPlace(Append(s, x), Append(ids, n))
<1> DEFINE t == Append(s, x)
           js == Append(ids, n)
           a == Len(s)
           b == Len(ids)
<1>1. a \in Nat /\ Len(t) = a + 1 /\ t[a + 1] = x /\ \A i \in 1..a : t[i] = s[i]
  BY OneMore, LenProperties
<1>2. b \in Nat /\ Len(js) = b + 1 /\ js[b + 1] = n /\ \A i \in 1..b : js[i] = ids[i]
  BY OneMore, LenProperties
<1>3. \A i \in 1..a : s[i].type = "function_call" => \E k \in 1..b : ids[k] = s[i].call
  BY DEF InPlace, Found
<1>4. \A k \in 1..b : \E i \in 1..a : s[i].type = "function_call" /\ s[i].call = ids[k]
  BY DEF InPlace, Placed
<1>5. Unique(ids) => Single(s)
  BY DEF InPlace
<1> HIDE DEF t, js
<1>6. Found(t, js)
  <2>1. ASSUME NEW i \in 1..Len(t), t[i].type = "function_call" PROVE \E k \in 1..Len(js) : js[k] = t[i].call
    <3>1. CASE i \in 1..a
      <4>1. PICK k \in 1..b : ids[k] = s[i].call
        BY <1>1, <1>3, <2>1, <3>1
      <4>. QED
        BY <1>1, <1>2, <3>1, <4>1
    <3>2. CASE i = a + 1
      BY <1>1, <1>2, <3>2
    <3>. QED
      BY <1>1, <3>1, <3>2
  <2>. QED
    BY <2>1 DEF Found
<1>7. Placed(t, js)
  <2>1. ASSUME NEW k \in 1..Len(js)
        PROVE  \E i \in 1..Len(t) : t[i].type = "function_call" /\ t[i].call = js[k]
    <3>1. CASE k \in 1..b
      <4>1. PICK i \in 1..a : s[i].type = "function_call" /\ s[i].call = ids[k]
        BY <1>4, <3>1
      <4>. QED
        BY <1>1, <1>2, <3>1, <4>1
    <3>2. CASE k = b + 1
      <4>1. a + 1 \in 1..Len(t) /\ t[a + 1].type = "function_call" /\ t[a + 1].call = js[k]
        BY <1>1, <1>2, <3>2
      <4>. QED
        BY <4>1
    <3>3. k \in 1..b \/ k = b + 1
      BY <1>2
    <3>. QED
      BY ONLY <3>1, <3>2, <3>3
  <2>. QED
    BY <2>1 DEF Placed
<1>8. ASSUME Unique(js) PROVE Single(t)
  <2>1. \A i, j \in 1..(b + 1) : js[i] = js[j] => i = j
    BY <1>2, <1>8 DEF Unique
  <2>2. Unique(ids)
    <3>1. ASSUME NEW i \in 1..b, NEW j \in 1..b, ids[i] = ids[j] PROVE i = j
      <4>1. i \in 1..(b + 1) /\ j \in 1..(b + 1) /\ js[i] = js[j]
        BY <1>2, <3>1
      <4>. QED
        BY <2>1, <4>1
    <3>. QED
      BY <3>1 DEF Unique
  <2>3. \A i, j \in 1..a : s[i].type = "function_call" /\ s[j].type = "function_call" /\ s[i].call = s[j].call => i = j
    BY <1>5, <2>2 DEF Single
  <2>4. ASSUME NEW i \in 1..a, s[i].type = "function_call" PROVE s[i].call # n
    <3>1. PICK k \in 1..b : ids[k] = s[i].call
      BY <1>3, <2>4
    <3>2. k \in 1..(b + 1) /\ b + 1 \in 1..(b + 1) /\ k # b + 1 /\ js[k] = s[i].call /\ js[b + 1] = n
      BY <1>2, <3>1
    <3>. QED
      BY <2>1, <3>2
  <2>5. ASSUME NEW i \in 1..Len(t), NEW j \in 1..Len(t), t[i].type = "function_call",
               t[j].type = "function_call", t[i].call = t[j].call
        PROVE  i = j
    <3>1. (i \in 1..a \/ i = a + 1) /\ (j \in 1..a \/ j = a + 1)
      BY <1>1
    <3>2. CASE i \in 1..a /\ j \in 1..a
      BY <1>1, <2>3, <2>5, <3>2
    <3>3. CASE i \in 1..a /\ j = a + 1
      BY <1>1, <2>4, <2>5, <3>3
    <3>4. CASE i = a + 1 /\ j \in 1..a
      BY <1>1, <2>4, <2>5, <3>4
    <3>. QED
      BY <3>1, <3>2, <3>3, <3>4
  <2>. QED
    BY <2>5 DEF Single
<1>. QED
  BY <1>6, <1>7, <1>8 DEF InPlace, t, js

(* another item after them.                                                *)
LEMMA OneMoreItem ==
    ASSUME NEW s \in Seq(AnsR), NEW ids \in Seq(Nat), InPlace(s, ids), NEW x \in AnsR, x.type # "function_call"
    PROVE  InPlace(Append(s, x), ids)
<1> DEFINE t == Append(s, x)
           a == Len(s)
           b == Len(ids)
<1>1. a \in Nat /\ Len(t) = a + 1 /\ t[a + 1] = x /\ \A i \in 1..a : t[i] = s[i]
  BY OneMore, LenProperties
<1>2. \A i \in 1..Len(t) : i \in 1..a \/ i = a + 1
  BY <1>1
<1> HIDE DEF t
<1>3. \A i \in 1..Len(t) : t[i].type = "function_call" => i \in 1..a /\ t[i] = s[i]
  BY <1>1, <1>2
<1>4. Found(t, ids)
  BY <1>3 DEF InPlace, Found
<1>5. Placed(t, ids)
  <2>1. ASSUME NEW k \in 1..b PROVE \E i \in 1..Len(t) : t[i].type = "function_call" /\ t[i].call = ids[k]
    <3>1. PICK i \in 1..a : s[i].type = "function_call" /\ s[i].call = ids[k]
      BY DEF InPlace, Placed
    <3>. QED
      BY <1>1, <3>1
  <2>. QED
    BY <2>1 DEF Placed
<1>6. Single(s) => Single(t)
  BY <1>3 DEF Single
<1>. QED
  BY <1>4, <1>5, <1>6 DEF InPlace, t

(* The calls of an answer's items are exactly its ids.                     *)
LEMMA CallsPlaced ==
    \A s \in Seq(AnsR) : Mapped(CallsIdsOf, s) \in Seq(Nat) /\ InPlace(s, Mapped(CallsIdsOf, s))
<1> DEFINE g == CallsIdsOf
           P == {s \in Seq(AnsR) : InPlace(s, Mapped(g, s))}
           none == <<>>
<1>1. IsMap(g, AnsR, Nat)
  BY IdsOfParts DEF CallsIdsOf
<1>2. \A it \in AnsR : g[it] = IF it.type = "function_call" THEN <<it.call>> ELSE none
  BY IdsOfParts DEF CallsIdsOf
<1> HIDE DEF g
<1>3. \A s \in Seq(AnsR) : Mapped(g, s) \in Seq(Nat)
  BY <1>1, MappedFacts
<1>4. \A s \in Seq(AnsR), x \in AnsR : Mapped(g, Append(s, x)) = Mapped(g, s) \o g[x]
  BY <1>1, MappedFacts
<1>5. none \in P
  <2>1. Mapped(g, none) = none /\ none \in Seq(AnsR) /\ Len(none) = 0
    BY <1>1, MappedFacts, EmptySeq
  <2> HIDE DEF none
  <2>2. InPlace(none, none)
    BY <2>1 DEF InPlace, Found, Placed, Single
  <2>. QED
    BY <2>1, <2>2
<1> HIDE DEF none
<1>6. ASSUME NEW s \in Seq(AnsR), s \in P, NEW x \in AnsR PROVE Append(s, x) \in P
  <2> DEFINE ids == Mapped(g, s)
  <2>1. ids \in Seq(Nat) /\ InPlace(s, ids) /\ Mapped(g, Append(s, x)) = ids \o g[x]
    BY <1>3, <1>4, <1>6
  <2>2. Append(s, x) \in Seq(AnsR)
    BY AppendProperties
  <2> HIDE DEF ids
  <2>3. CASE x.type = "function_call"
    <3> DEFINE n == x.call
    <3>1. g[x] = <<n>> /\ n \in Nat
      <4>1. g[x] = <<n>>
        BY <1>2, <2>3
      <4>2. g[x] \in Seq(Nat)
        BY <1>1 DEF IsMap
      <4>. QED
        BY <4>1, <4>2, ElementOfSeq
    <3>2. ids \o <<n>> = Append(ids, n)
      BY <2>1, <3>1, AppendIsConcat
    <3>3. InPlace(Append(s, x), Append(ids, n))
      BY <2>1, <2>3, <3>1, OneMoreCall
    <3> HIDE DEF n
    <3>. QED
      BY <2>1, <2>2, <3>1, <3>2, <3>3
  <2>4. CASE x.type # "function_call"
    <3>1. g[x] = none
      BY <1>2, <2>4
    <3>2. ids \o none = ids
      BY <2>1, ConcatEmptySeq DEF none
    <3>3. InPlace(Append(s, x), ids)
      BY <2>1, <2>4, OneMoreItem
    <3>. QED
      BY <2>1, <2>2, <3>1, <3>2, <3>3
  <2>. QED
    BY <2>3, <2>4
<1>7. Seq(AnsR) \subseteq P
  <2> HIDE DEF P
  <2>. QED
    BY <1>5, <1>6, SeqInduction DEF none
<1>. QED
  BY <1>3, <1>7 DEF g

(* Items without calls and results are in order.                           *)
LEMMA PlainItems ==
    ASSUME NEW lo, NEW hi, NEW s \in Seq(PlainR)
    PROVE  s \in Seq(RItems) /\ ItemOrder(lo, hi, s)
<1>1. s \in Seq(RItems)
  <2>1. PlainR \subseteq RItems
    BY DEF PlainR, RItems
  <2>. QED
    BY <2>1, SeqOfMore
<1>2. \A i \in 1..Len(s) : s[i].type = "message"
  <2>1. \A i \in 1..Len(s) : s[i] \in PlainR
    BY ElementOfSeq
  <2>. QED
    BY <2>1, MessageItemFacts DEF PlainR
<1>3. ItemsAt(lo, hi, s)
  BY <1>2 DEF ItemsAt, ItemAt, IsTool
<1>4. NoTwins(s)
  BY <1>2 DEF NoTwins, Twins, IsTool
<1>. QED
  BY <1>1, <1>3, <1>4 DEF ItemOrder

(* The items of an answer, then the results of its calls.                  *)
Block(s, ids, r) ==
    /\ Len(r) = Len(s) + Len(ids)
    /\ \A i \in 1..Len(s) : r[i] = s[i]
    /\ \A k \in 1..Len(ids) : /\ r[Len(s) + k].type = "function_call_output"
                              /\ r[Len(s) + k].call = ids[k]

(* An answer's items followed by the results of its calls are in order:    *)
LEMMA BlockOrder ==
    ASSUME NEW s \in Seq(SaidItems), NEW ids \in Seq(Nat), InPlace(s, ids),
           NEW lo \in Nat, NEW hi \in Nat, Fresh(lo, hi, ids), NEW r, Block(s, ids, r)
    PROVE  ItemOrder(lo, hi, r)
<1> DEFINE n == Len(s)
           m == Len(ids)
<1>1. n \in Nat /\ m \in Nat /\ DOMAIN ids = 1..m
  BY LenProperties
<1>2. Len(r) = n + m /\ \A i \in 1..n : r[i] = s[i]
  BY DEF Block
<1>3. \A k \in 1..m : r[n + k].type = "function_call_output" /\ r[n + k].call = ids[k]
  BY DEF Block
<1>4. \A k \in 1..m : ids[k] \in Nat /\ lo < ids[k] /\ ids[k] <= hi
  <2>1. \A k \in 1..m : lo < ids[k] /\ ids[k] <= hi
    BY <1>1 DEF Fresh
  <2>2. \A k \in 1..m : ids[k] \in Nat
    BY ElementOfSeq
  <2>. QED
    BY <2>1, <2>2
<1>5. Unique(ids)
  BY <1>1 DEF Fresh, Unique
<1>6. \A i \in 1..n : s[i].type = "function_call" => \E k \in 1..m : ids[k] = s[i].call
  BY DEF InPlace, Found
<1>7. \A k \in 1..m : \E i \in 1..n : s[i].type = "function_call" /\ s[i].call = ids[k]
  BY DEF InPlace, Placed
<1>8. Single(s)
  BY <1>5 DEF InPlace
<1>9. \A i \in 1..n : \/ s[i].type = "message"
                      \/ s[i].type = "function_call" /\ Lawful(s[i].arguments)
  <2>1. \A i \in 1..n : s[i] \in SaidItems
    BY ElementOfSeq
  <2>2. \A x \in SaidItems : x.type = "message" \/ (x.type = "function_call" /\ Lawful(x.arguments))
    BY DEF SaidItems, AsstR, CallR
  <2>. QED
    BY <2>1, <2>2
<1>10. \A i \in 1..Len(r) : i \in 1..n \/ (i - n \in 1..m /\ n + (i - n) = i)
  BY <1>1, <1>2
<1> HIDE DEF n, m
<1>11. ASSUME NEW i \in 1..n PROVE ItemAt(lo, hi, r, i)
  <2>1. CASE s[i].type = "message"
    <3>1. r[i].type = "message"
      BY <1>2, <2>1
    <3>. QED
      BY <3>1 DEF ItemAt, IsTool
  <2>2. CASE s[i].type = "function_call" /\ Lawful(s[i].arguments)
    <3>1. r[i].type = "function_call" /\ Lawful(r[i].arguments) /\ r[i].call = s[i].call
      BY <1>2, <2>2
    <3>2. PICK k \in 1..m : ids[k] = s[i].call
      BY <1>6, <2>2
    <3>3. r[i].call \in Nat /\ lo < r[i].call /\ r[i].call <= hi
      BY <1>4, <3>1, <3>2
    <3>4. n + k \in (i + 1)..Len(r) /\ Pair(r[i], r[n + k])
      <4>1. n + k \in (i + 1)..Len(r)
        BY <1>1, <1>2
      <4>2. r[n + k].type = "function_call_output" /\ r[n + k].call = ids[k]
        BY <1>3
      <4>. QED
        BY <3>1, <3>2, <4>1, <4>2 DEF Pair
    <3>. QED
      BY <3>1, <3>3, <3>4 DEF ItemAt
  <2>. QED
    BY <1>9, <2>1, <2>2
<1>12. ASSUME NEW k \in 1..m PROVE ItemAt(lo, hi, r, n + k)
  <2>1. r[n + k].type = "function_call_output" /\ r[n + k].call = ids[k]
    BY <1>3
  <2>2. PICK i \in 1..n : s[i].type = "function_call" /\ s[i].call = ids[k]
    BY <1>7
  <2>3. r[i].type = "function_call" /\ r[i].call = ids[k]
    BY <1>2, <2>2
  <2>4. i \in 1..((n + k) - 1) /\ Pair(r[i], r[n + k])
    <3>1. i \in 1..((n + k) - 1)
      BY <1>1
    <3>. QED
      BY <2>1, <2>3, <3>1 DEF Pair
  <2>5. r[n + k].call \in Nat /\ lo < r[n + k].call /\ r[n + k].call <= hi
    BY <1>4, <2>1
  <2>. QED
    BY <2>1, <2>4, <2>5 DEF ItemAt
<1>13. ItemsAt(lo, hi, r)
  <2>1. ASSUME NEW i \in 1..Len(r) PROVE ItemAt(lo, hi, r, i)
    BY <1>10, <1>11, <1>12
  <2>. QED
    BY <2>1 DEF ItemsAt
<1>14. ASSUME NEW i \in 1..Len(r), NEW j \in 1..Len(r), Twins(r[i], r[j]) PROVE i = j
  <2>1. IsTool(r[i]) /\ r[i].type = r[j].type /\ r[i].call = r[j].call
    BY <1>14 DEF Twins
  <2>2. ASSUME NEW k \in 1..n PROVE r[k] = s[k] /\ r[k].type # "function_call_output"
    BY <1>2, <1>9
  <2>3. CASE i \in 1..n /\ j \in 1..n
    <3>1. s[i].type = "function_call" /\ s[j].type = "function_call" /\ s[i].call = s[j].call
      BY <2>1, <2>2, <2>3 DEF IsTool
    <3>. QED
      BY <1>8, <2>3, <3>1 DEF Single, n
  <2>4. CASE i \in 1..n /\ j \notin 1..n
    <3>1. r[j].type = "function_call_output"
      BY <1>3, <1>10, <2>4
    <3>. QED
      BY <2>1, <2>2, <2>4, <3>1
  <2>5. CASE i \notin 1..n /\ j \in 1..n
    <3>1. r[i].type = "function_call_output"
      BY <1>3, <1>10, <2>5
    <3>. QED
      BY <2>1, <2>2, <2>5, <3>1
  <2>6. CASE i \notin 1..n /\ j \notin 1..n
    <3>1. i - n \in 1..m /\ j - n \in 1..m /\ n + (i - n) = i /\ n + (j - n) = j
      BY <1>10, <2>6
    <3>2. r[i].call = ids[i - n] /\ r[j].call = ids[j - n]
      BY <1>3, <3>1
    <3>3. i - n = j - n
      BY <1>5, <2>1, <3>1, <3>2 DEF Unique, m
    <3>. QED
      BY <1>1, <3>1, <3>3
  <2>. QED
    BY <2>3, <2>4, <2>5, <2>6
<1>15. NoTwins(r)
  BY <1>14 DEF NoTwins
<1>. QED
  BY <1>13, <1>15 DEF ItemOrder

(* what a round begins with has that form,                                 *)
LEMMA ItemBlock ==
    ASSUME NEW s \in Seq(SaidItems), NEW ids \in Seq(Nat), InPlace(s, ids),
           NEW cs \in Seq(ResultC), Each(ResId, cs) = ids
    PROVE  Each(OutF, cs) \in Seq(RItems) /\ Block(s, ids, s \o Each(OutF, cs))
<1> DEFINE R == Each(OutF, cs)
           m == Len(cs)
<1>1. IsFcn(OutF, ResultC, RItems)
  <2>1. OutR \subseteq RItems
    BY DEF RItems
  <2>. QED
    BY <2>1, OutputItemsFacts DEF IsFcn
<1>2. DOMAIN cs = 1..m /\ m \in Nat
  BY LenProperties
<1>3. R \in Seq(RItems) /\ Len(R) = m /\ \A k \in 1..m : R[k] = OutF[cs[k]] /\ cs[k] \in ResultC
  BY <1>1, <1>2, EachFacts, ElementOfSeq
<1>4. Len(ids) = m /\ \A k \in 1..m : ids[k] = cs[k].id
  <2>1. IsFcn(ResId, ResultC, Nat)
    BY ToolFFacts
  <2>2. Len(ids) = m /\ \A k \in DOMAIN cs : ids[k] = ResId[cs[k]]
    BY <2>1, EachFacts
  <2>3. \A k \in 1..m : ResId[cs[k]] = cs[k].id
    BY <1>3, ToolFFacts
  <2>. QED
    BY <1>2, <2>2, <2>3
<1>5. \A k \in 1..m : R[k].type = "function_call_output" /\ R[k].call = ids[k]
  <2>1. ASSUME NEW k \in 1..m PROVE R[k].type = "function_call_output" /\ R[k].call = ids[k]
    <3>1. R[k] = OutputItem(cs[k].id, ResponsesOutput(cs[k]))
      BY <1>3, OutputItemsFacts
    <3>. QED
      BY <1>4, <3>1 DEF OutputItem
  <2>. QED
    BY <2>1
<1>6. s \in Seq(RItems)
  <2>1. Seq(SaidItems) \subseteq Seq(AnsR) /\ Seq(AnsR) \subseteq Seq(RItems)
    BY SaidFacts, HearIFacts
  <2>. QED
    BY <2>1
<1> HIDE DEF R, m
<1>7. Len(s \o R) = Len(s) + Len(R)
  BY ONLY <1>3, <1>6, ConcatAt
<1>8. \A i \in 1..Len(s) : (s \o R)[i] = s[i]
  BY ONLY <1>3, <1>6, ConcatAt
<1>9. \A i \in 1..Len(R) : (s \o R)[Len(s) + i] = R[i]
  BY ONLY <1>3, <1>6, ConcatAt
<1>10. Block(s, ids, s \o R)
  BY <1>3, <1>4, <1>5, <1>7, <1>8, <1>9 DEF Block
<1>. QED
  BY <1>3, <1>10 DEF R

(* since an answer's calls become items with the same ids;                 *)
LEMMA AnswerPlaced ==
    ASSUME NEW q, q # "openai_responses", NEW c \in Seq(Spoken(q))
    PROVE  LET s == IRAssistantToItems(c)
           IN  s \in Seq(SaidItems) /\ s \in Seq(RItems) /\ CallIds(c) \in Seq(Nat) /\ InPlace(s, CallIds(c))
<1> DEFINE s == IRAssistantToItems(c)
<1>1. s \in Seq(SaidItems)
  BY SaidGathered
<1>2. c \in Seq(AssistantC)
  BY SpokenFacts
<1>3. Mapped(HearI, s) = Mapped(HearC, c)
  BY <1>2, BlocksGathered DEF IRAssistantToItems, NoItems
<1> HIDE DEF s
<1>4. s \in Seq(AnsR) /\ s \in Seq(RItems)
  BY <1>1, SaidFacts, HearIFacts
<1>5. Each(IdF, OnlyTools(Mapped(HearI, s))) = Mapped(CallsIdsOf, s)
  BY <1>4, HearIFacts, IdsByPart DEF CallsIdsOf
<1>6. CallIds(c) = Mapped(CallsIdsOf, s)
  BY <1>3, <1>5 DEF CallIds
<1>. QED
  BY <1>1, <1>4, <1>6, CallsPlaced DEF s

(* so a whole round is in order.                                           *)
LEMMA ItemRound ==
    ASSUME NEW q, q # "openai_responses", NEW ids, NEW a \in Seq(IRMessages), Opened(q, ids, a),
           NEW b \in Seq(IRMessages), Replied(ids, b),
           NEW lo \in Nat, NEW hi \in Nat, lo <= hi, Fresh(lo, hi, ids)
    PROVE  ItemOrder(lo, hi, Mapped(RMFromIR, a \o b))
<1> DEFINE f == RMFromIR
           none == <<>>
<1>0. IsMap(f, IRMessages, RItems) /\ IsFcn(OutF, ResultC, RItems) /\ CanReply(f, OutF, PlainR, RItems)
  BY ItemReplies DEF CanReply
<1>1. PICK cs \in Seq(ResultC) : \E pl \in Seq(PlainR) :
         Each(ResId, cs) = ids /\ Mapped(f, b) = Each(OutF, cs) \o pl
  <2> HIDE DEF f
  <2>2. Written(OutF, PlainR, ids, Mapped(f, b))
    BY <1>0, ReplyMapped
  <2>. QED
    BY <2>2 DEF Written
<1>2. PICK pl \in Seq(PlainR) : Each(ResId, cs) = ids /\ Mapped(f, b) = Each(OutF, cs) \o pl
  BY <1>1
<1> DEFINE R == Each(OutF, cs)
<1>3. R \in Seq(RItems) /\ pl \in Seq(RItems)
  BY <1>0, EachFacts, PlainItems
<1>4. Mapped(f, a \o b) = Mapped(f, a) \o Mapped(f, b)
  BY <1>0, MappedConcat
<1>5. CASE a = none /\ ids = none
  <2>1. cs = none
    BY <1>2, <1>5, ToolFFacts, EachFacts
  <2>2. R = none /\ Mapped(f, none) = none /\ none \o pl = pl
    BY <1>0, <1>3, <2>1, EachFacts, MappedFacts, ConcatEmptySeq
  <2> HIDE DEF none
  <2>3. Mapped(f, a \o b) = pl
    BY <1>2, <1>4, <1>5, <2>2
  <2>4. ItemOrder(lo, hi, pl)
    BY PlainItems
  <2>. QED
    BY <2>3, <2>4
<1>6. CASE \E c \in Seq(Spoken(q)) : a = <<Message("assistant", c)>> /\ CallIds(c) = ids
  <2>1. PICK c \in Seq(Spoken(q)) : a = <<Message("assistant", c)>> /\ CallIds(c) = ids
    BY <1>6
  <2> DEFINE m == Message("assistant", c)
             s == IRAssistantToItems(c)
  <2>2. m \in IRMessages /\ m.role = "assistant" /\ m.content = c
    BY SpokenFacts, MoreTypes, MessageFacts
  <2>3. f[m] = s
    <3>1. f[m] = IRMessageToItems(m)
      BY <2>2, RMFromIRFacts
    <3> HIDE DEF m
    <3>. QED
      BY <2>2, <3>1 DEF IRMessageToItems
  <2>4. s \in Seq(SaidItems) /\ s \in Seq(RItems) /\ ids \in Seq(Nat) /\ InPlace(s, ids)
    BY <2>1, AnswerPlaced
  <2> HIDE DEF m, s
  <2>5. Mapped(f, a) = s
    <3>1. Mapped(f, <<m>>) = f[m]
      BY <1>0, <2>2, MappedFacts
    <3>. QED
      BY <2>1, <2>3, <3>1 DEF m
  <2>6. Block(s, ids, s \o R)
    BY <1>2, <2>4, ItemBlock
  <2> HIDE DEF R
  <2> DEFINE r == s \o R
  <2>7. ItemOrder(lo, hi, r)
    <3> HIDE DEF r
    <3>1. Block(s, ids, r)
      BY <2>6 DEF r
    <3>. QED
      BY <2>4, <3>1, BlockOrder
  <2>8. r \in Seq(RItems) /\ r \o pl = s \o (R \o pl)
    <3>1. R \in Seq(RItems)
      BY <1>3 DEF R
    <3>2. s \o R \in Seq(RItems)
      BY <2>4, <3>1, ConcatProperties
    <3>4. pl \in Seq(RItems) /\ s \in Seq(RItems)
      BY <1>3, <2>4
    <3> HIDE DEF r
    <3>3. (s \o R) \o pl = s \o (R \o pl)
      BY ONLY <3>1, <3>4, ThreeConcat
    <3>. QED
      BY <3>2, <3>3 DEF r
  <2> HIDE DEF r
  <2>9. ItemOrder(lo, hi, r \o pl)
    <3>1. ItemOrder(hi, hi, pl)
      BY PlainItems
    <3>2. hi <= hi
      OBVIOUS
    <3>. QED
      BY <1>3, <2>7, <2>8, <3>1, <3>2, ItemOrderConcat
  <2>10. Mapped(f, a \o b) = s \o (R \o pl)
    BY <1>2, <1>4, <2>5 DEF R
  <2>. QED
    BY <2>8, <2>9, <2>10
<1>. QED
  BY <1>5, <1>6 DEF Opened

-----------------------------------------------------------------------------
(***************************************************************************)
(* Order in Anthropic Messages.                                            *)
(***************************************************************************)

(* Blocks as the gateway writes them: results as text, calls with lawful   *)
(* arguments.                                                              *)
ResultG == {b \in ResultA : ~b.content.json}
UseG    == {b \in UseA : Lawful(b.input)}
PlainA  == TextA \cup ImageA
RestG   == PlainA \cup ThinkA \cup HiddenA \cup UseG

(* Results first; what a message calls and what it answers.                *)
Sorted(c)  == \E x \in Seq(ResultG) : \E y \in Seq(RestG) : c = x \o y
Uses(m)    == Ids("tool_use", m.content)
Outputs(m) == Ids("tool_result", m.content)
(* Messages that are right in themselves.                                  *)
ProperMs   == {m \in AnyA : Sorted(m.content) /\ (m.role # "assistant" => Uses(m) = <<>>)}

(* Selecting a type where all or none are of it.                           *)
LEMMA OneType ==
    ASSUME NEW A, NEW t
    PROVE  /\ (\A b \in A : b.type = t) => \A s \in Seq(A) : OfType(t, s) = s
           /\ (\A b \in A : b.type # t) => \A s \in Seq(A) : OfType(t, s) = <<>>
<1> DEFINE f == KeepType(A, t)
<1>1. \A s \in Seq(A) : OfType(t, s) = Mapped(f, s)
  BY OfTypeIsMapped
<1>2. \A b \in A : f[b] = IF b.type = t THEN <<b>> ELSE <<>>
  BY OfTypeIsMapped
<1> HIDE DEF f
<1>3. ASSUME \A b \in A : b.type = t PROVE \A s \in Seq(A) : OfType(t, s) = s
  <2>1. \A b \in A : f[b] = <<b>>
    BY <1>2, <1>3
  <2>. QED
    BY <1>1, <2>1, MappedItself
<1>4. ASSUME \A b \in A : b.type # t PROVE \A s \in Seq(A) : OfType(t, s) = <<>>
  <2>1. \A b \in A : f[b] = <<>>
    BY <1>2, <1>4
  <2>. QED
    BY <1>1, <2>1, MappedNothing
<1>. QED
  BY <1>3, <1>4

(* Selecting a type goes over concatenation.                               *)
LEMMA TypesConcat ==
    ASSUME NEW t, NEW x \in Seq(ABlocks), NEW y \in Seq(ABlocks)
    PROVE  /\ OfType(t, x \o y) = OfType(t, x) \o OfType(t, y)
           /\ OfType(t, x) \in Seq(ABlocks)
           /\ OfType(t, y) = <<>> => OfType(t, x \o y) = OfType(t, x)
           /\ OfType(t, x) = <<>> => OfType(t, x \o y) = OfType(t, y)
<1> DEFINE f == KeepType(ABlocks, t)
<1>1. \A s \in Seq(ABlocks) : OfType(t, s) = Mapped(f, s)
  BY OfTypeIsMapped
<1>2. IsMap(f, ABlocks, ABlocks)
  BY OfTypeIsMapped
<1> HIDE DEF f
<1>3. Mapped(f, x \o y) = Mapped(f, x) \o Mapped(f, y)
  BY <1>2, MappedConcat
<1>4. x \o y \in Seq(ABlocks) /\ OfType(t, x) \in Seq(ABlocks) /\ OfType(t, y) \in Seq(ABlocks)
  BY <1>1, <1>2, MappedFacts, ConcatProperties
<1>5. OfType(t, x \o y) = OfType(t, x) \o OfType(t, y)
  BY <1>1, <1>3, <1>4
<1>6. \A s \in Seq(ABlocks) : s \o <<>> = s /\ <<>> \o s = s
  BY ConcatEmptySeq
<1>. QED
  BY <1>4, <1>5, <1>6

(* What an Anthropic upstream asks of a single block.                      *)
LEMMA GoodBlocks ==
    /\ \A b \in ResultG : b \in ABlocks /\ b.type = "tool_result" /\ b.id \in Nat /\ ~b.content.json
    /\ \A b \in RestG : /\ b \in ABlocks /\ b.type # "tool_result"
                        /\ b.type = "thinking" => b.signature # ""
                        /\ b.type = "tool_use" => Lawful(b.input)
    /\ \A b \in PlainA : b \in RestG /\ b.type # "tool_use" /\ b \in UserA
    /\ Seq(ResultG) \subseteq Seq(ABlocks) /\ Seq(RestG) \subseteq Seq(ABlocks)
    /\ Seq(PlainA) \subseteq Seq(RestG)
<1>1. \A b \in ResultG : b \in ABlocks /\ b.type = "tool_result" /\ b.id \in Nat /\ ~b.content.json
  BY DEF ResultG, ResultA, ABlocks, UserA
<1>2. ASSUME NEW b \in RestG
      PROVE  /\ b \in ABlocks /\ b.type # "tool_result"
             /\ b.type = "thinking" => b.signature # ""
             /\ b.type = "tool_use" => Lawful(b.input)
  <2>1. CASE b \in TextA
    BY <2>1 DEF TextA, ABlocks, UserA
  <2>2. CASE b \in ImageA
    BY <2>2 DEF ImageA, ABlocks, UserA
  <2>3. CASE b \in ThinkA
    BY <2>3 DEF ThinkA, ABlocks, AssistantA
  <2>4. CASE b \in HiddenA
    BY <2>4 DEF HiddenA, ABlocks, AssistantA
  <2>5. CASE b \in UseG
    BY <2>5 DEF UseG, UseA, ABlocks, AssistantA
  <2>. QED
    BY <2>1, <2>2, <2>3, <2>4, <2>5 DEF RestG, PlainA
<1>3. \A b \in PlainA : b \in RestG /\ b.type # "tool_use" /\ b \in UserA
  BY DEF PlainA, RestG, TextA, ImageA, UserA
<1>4. ResultG \subseteq ABlocks /\ RestG \subseteq ABlocks /\ PlainA \subseteq RestG
  BY <1>1, <1>2, <1>3
<1>. QED
  BY <1>1, <1>2, <1>3, <1>4, SeqOfMore

(* Results first and then the rest: which are the results and which the    *)
(* calls.                                                                  *)
LEMMA SortedFacts ==
    ASSUME NEW x \in Seq(ResultG), NEW y \in Seq(RestG)
    PROVE  /\ x \o y \in Seq(ABlocks) /\ Sorted(x \o y)
           /\ OfType("tool_result", x \o y) = x
           /\ OfType("tool_use", x \o y) = OfType("tool_use", y)
           /\ y \in Seq(PlainA) => OfType("tool_use", x \o y) = <<>>
<1> DEFINE r == "tool_result"
           u == "tool_use"
<1>1. x \in Seq(ABlocks) /\ y \in Seq(ABlocks)
  BY GoodBlocks
<1>2. OfType(r, x) = x
  <2>1. \A b \in ResultG : b.type = r
    BY GoodBlocks
  <2> HIDE DEF r
  <2>. QED
    BY <2>1, OneType
<1>3. OfType(u, x) = <<>>
  <2>1. \A b \in ResultG : b.type # u
    BY GoodBlocks
  <2> HIDE DEF u
  <2>. QED
    BY <2>1, OneType
<1>4. OfType(r, y) = <<>>
  <2>1. \A b \in RestG : b.type # r
    BY GoodBlocks
  <2> HIDE DEF r
  <2>. QED
    BY <2>1, OneType
<1>5. y \in Seq(PlainA) => OfType(u, y) = <<>>
  <2>1. \A b \in PlainA : b.type # u
    BY GoodBlocks
  <2> HIDE DEF u
  <2>. QED
    BY <2>1, OneType
<1>6. x \o y \in Seq(ABlocks)
  BY <1>1, ConcatProperties
<1>7. Sorted(x \o y)
  BY DEF Sorted
<1> HIDE DEF r, u
<1>8. OfType(r, x \o y) = x
  BY <1>1, <1>2, <1>4, TypesConcat
<1>9. OfType(u, x \o y) = OfType(u, y)
  BY <1>1, <1>3, TypesConcat
<1>. QED
  BY <1>5, <1>6, <1>7, <1>8, <1>9 DEF r, u

(* Ids, by the blocks of its type.                                         *)
LEMMA IdsThere ==
    \A t, s : /\ Ids(t, s) = [i \in DOMAIN OfType(t, s) |-> OfType(t, s)[i].id]
              /\ OfType(t, s) = <<>> => Ids(t, s) = <<>>
<1> TAKE t, s
<1> DEFINE o == OfType(t, s)
<1>1. Ids(t, s) = [i \in DOMAIN o |-> o[i].id]
  BY DEF Ids, MapSeq
<1> HIDE DEF o
<1>2. o = <<>> => [i \in DOMAIN o |-> o[i].id] = <<>>
  OBVIOUS
<1>. QED
  BY <1>1, <1>2 DEF o

(* What an Anthropic upstream asks of a single message.                    *)
LEMMA ProperAccepted ==
    ASSUME NEW m \in ProperMs
    PROVE  /\ \A j \in 1..Len(Outputs(m)) : m.content[j].type = "tool_result"
           /\ \A j \in DOMAIN m.content : /\ m.content[j].type = "thinking" => m.content[j].signature # ""
                                          /\ m.content[j].type = "tool_use" => Lawful(m.content[j].input)
                                          /\ m.content[j].type = "tool_result" => ~m.content[j].content.json
<1> DEFINE c == m.content
<1>1. PICK x \in Seq(ResultG) : \E y \in Seq(RestG) : c = x \o y
  BY DEF ProperMs, Sorted
<1>2. PICK y \in Seq(RestG) : c = x \o y
  BY <1>1
<1>3. x \in Seq(ABlocks) /\ y \in Seq(ABlocks)
  BY GoodBlocks
<1>4. Len(c) = Len(x) + Len(y) /\ Len(x) \in Nat /\ Len(y) \in Nat
  BY <1>2, <1>3, ConcatAt
<1>5. \A i \in 1..Len(x) : c[i] = x[i] /\ x[i] \in ResultG
  <2>1. \A i \in 1..Len(x) : c[i] = x[i]
    BY <1>2, <1>3, ConcatAt
  <2>. QED
    BY <2>1, ElementOfSeq
<1>6. \A i \in 1..Len(y) : c[Len(x) + i] = y[i] /\ y[i] \in RestG
  <2>1. \A i \in 1..Len(y) : c[Len(x) + i] = y[i]
    BY <1>2, <1>3, ConcatAt
  <2>. QED
    BY <2>1, ElementOfSeq
<1>7. Len(Outputs(m)) = Len(x)
  <2>1. OfType("tool_result", c) = x
    BY <1>2, SortedFacts
  <2>2. Outputs(m) = [i \in DOMAIN x |-> x[i].id]
    BY <2>1, IdsThere DEF Outputs
  <2>3. DOMAIN x = 1..Len(x)
    BY LenProperties
  <2>. QED
    BY <1>4, <2>2, <2>3
<1>8. DOMAIN c = 1..(Len(x) + Len(y))
  <2>1. c \in Seq(ABlocks)
    BY <1>2, SortedFacts
  <2> HIDE DEF c
  <2>. QED
    BY <1>4, <2>1, LenProperties
<1> HIDE DEF c
<1>9. ASSUME NEW j \in DOMAIN c
      PROVE  /\ c[j].type = "thinking" => c[j].signature # ""
             /\ c[j].type = "tool_use" => Lawful(c[j].input)
             /\ c[j].type = "tool_result" => ~c[j].content.json
  <2>1. CASE j \in 1..Len(x)
    <3>1. c[j] \in ResultG
      BY <1>5, <2>1
    <3>. QED
      BY <3>1, GoodBlocks
  <2>2. CASE j \notin 1..Len(x)
    <3>1. j - Len(x) \in 1..Len(y) /\ Len(x) + (j - Len(x)) = j
      BY <1>4, <1>8, <2>2
    <3>2. c[j] \in RestG
      BY <1>6, <3>1
    <3>. QED
      BY <3>2, GoodBlocks
  <2>. QED
    BY <2>1, <2>2
<1>10. \A j \in 1..Len(Outputs(m)) : c[j].type = "tool_result"
  BY <1>5, <1>7, GoodBlocks
<1>. QED
  BY <1>9, <1>10 DEF c

(* Message b may follow a: it answers what a called and nothing else, and  *)
(* the roles alternate (an instruction may follow another).                *)
Next2(a, b) == Outputs(b) = Uses(a) /\ (b.role = a.role => b.role = "system")

(* Messages in order, from the user's first.                               *)
AOrd(s) ==
    /\ s \in Seq(ProperMs) /\ s # <<>>
    /\ s[1].role = "user" /\ Outputs(s[1]) = <<>>
    /\ \A i \in 2..Len(s) : Next2(s[i - 1], s[i])

(* Only an assistant's message has calls.                                  *)
LEMMA ProperFacts ==
    \A m \in ProperMs : /\ m \in AnyA /\ m.content \in Seq(ABlocks) /\ m.role \in Roles
                        /\ m.role # "assistant" => Uses(m) = <<>>
<1>. QED
  BY AnyFacts DEF ProperMs

(* The last of messages in order.                                          *)
LEMMA OrdLast ==
    ASSUME NEW s, AOrd(s)
    PROVE  /\ s \in Seq(AnyA) /\ Len(s) \in Nat /\ Len(s) > 0
           /\ Last(s) = s[Len(s)] /\ Last(s) \in ProperMs
<1>1. s \in Seq(ProperMs) /\ s # <<>>
  BY DEF AOrd
<1>2. ProperMs \subseteq AnyA
  BY ProperFacts
<1>. QED
  BY <1>1, <1>2, SeqOfMore, FrontAt

(* A further message that may follow the last keeps the order;             *)
LEMMA AppendKept ==
    ASSUME NEW s, AOrd(s), NEW m \in ProperMs, Next2(Last(s), m)
    PROVE  AOrd(Append(s, m)) /\ Last(Append(s, m)) = m
<1> DEFINE r == Append(s, m)
           n == Len(s)
<1>1. s \in Seq(ProperMs) /\ n \in Nat /\ n > 0 /\ Last(s) = s[n]
  BY OrdLast DEF AOrd
<1>2. /\ r \in Seq(ProperMs) /\ Len(r) = n + 1
      /\ \A i \in 1..n : r[i] = s[i]
      /\ r[n + 1] = m
  BY <1>1, OneMore
<1>3. Last(r) = m /\ r # <<>>
  BY <1>1, AppendedLast
<1> HIDE DEF r, n
<1>4. ASSUME NEW i \in 2..Len(r) PROVE Next2(r[i - 1], r[i])
  <2>1. CASE i \in 2..n
    <3>1. i \in 1..n /\ i - 1 \in 1..n
      BY <1>1, <2>1
    <3>2. r[i] = s[i] /\ r[i - 1] = s[i - 1]
      BY <1>2, <3>1
    <3>. QED
      BY <2>1, <3>2 DEF AOrd, n
  <2>2. CASE i = n + 1
    <3>1. n \in 1..n /\ i - 1 = n
      BY <1>1, <2>2
    <3>2. r[i - 1] = Last(s) /\ r[i] = m
      BY <1>1, <1>2, <2>2, <3>1
    <3>. QED
      BY <3>2
  <2>. QED
    BY <1>1, <1>2, <2>1, <2>2
<1>5. r[1] = s[1]
  BY <1>1, <1>2
<1>6. s[1].role = "user" /\ Outputs(s[1]) = <<>>
  BY DEF AOrd
<1>7. AOrd(r)
  BY <1>2, <1>3, <1>4, <1>5, <1>6 DEF AOrd
<1>. QED
  BY <1>3, <1>7 DEF r

(* more plain content in a user's message leaves its results as they are,  *)
LEMMA PlainMore ==
    ASSUME NEW m \in ProperMs, m.role = "user", NEW c \in Seq(PlainA)
    PROVE  LET x == Message("user", m.content \o c)
           IN  x \in ProperMs /\ x.role = "user" /\ Outputs(x) = Outputs(m)
<1> DEFINE k == m.content
           d == k \o c
           x == Message("user", d)
<1>1. PICK a \in Seq(ResultG) : \E b \in Seq(RestG) : k = a \o b
  BY DEF ProperMs, Sorted
<1>2. PICK b \in Seq(RestG) : k = a \o b
  BY <1>1
<1>3. a \in Seq(ABlocks) /\ b \in Seq(ABlocks) /\ c \in Seq(ABlocks) /\ c \in Seq(RestG)
  BY GoodBlocks
<1>4. b \o c \in Seq(RestG)
  BY <1>3, ConcatProperties
<1>5. d = a \o (b \o c)
  BY <1>2, <1>3, ThreeConcat
<1>6. /\ OfType("tool_result", k) = a /\ OfType("tool_result", d) = a
      /\ OfType("tool_use", k) = OfType("tool_use", b)
      /\ OfType("tool_use", d) = OfType("tool_use", b \o c)
      /\ Sorted(d) /\ d \in Seq(ABlocks)
  <2>1. /\ OfType("tool_result", a \o b) = a
        /\ OfType("tool_use", a \o b) = OfType("tool_use", b)
    BY SortedFacts
  <2> DEFINE bc == b \o c
  <2>2. bc \in Seq(RestG)
    BY <1>4
  <2> HIDE DEF bc
  <2>3. /\ OfType("tool_result", a \o bc) = a
        /\ OfType("tool_use", a \o bc) = OfType("tool_use", bc)
        /\ Sorted(a \o bc) /\ a \o bc \in Seq(ABlocks)
    BY <2>2, SortedFacts
  <2> HIDE DEF d, k
  <2>. QED
    BY <1>2, <1>5, <2>1, <2>3 DEF bc
<1>7. OfType("tool_use", b \o c) = OfType("tool_use", b)
  <2> DEFINE u == "tool_use"
  <2>1. OfType(u, c) = <<>>
    <3>1. \A e \in PlainA : e.type # u
      BY GoodBlocks
    <3> HIDE DEF u
    <3>. QED
      BY <3>1, OneType
  <2>2. OfType(u, b \o c) = OfType(u, b)
    <3> HIDE DEF u
    <3>. QED
      BY <1>3, <2>1, TypesConcat
  <2>. QED
    BY <2>2
<1> HIDE DEF d, k
<1>8. x.role = "user" /\ x.content = d
  BY MessageFacts
<1>9. x \in AnyA
  <2>1. "user" \in Roles
    BY DEF Roles
  <2>. QED
    BY <1>6, <2>1, AnyFacts
<1> HIDE DEF x
<1>10. Outputs(x) = Outputs(m) /\ Uses(x) = Uses(m)
  BY <1>6, <1>7, <1>8, IdsThere DEF Outputs, Uses, k
<1>11. Uses(m) = <<>>
  BY ProperFacts
<1>12. x \in ProperMs
  BY <1>6, <1>8, <1>9, <1>10, <1>11 DEF ProperMs
<1>. QED
  BY <1>8, <1>10, <1>12 DEF x, d, k

(* so merging it into the last message keeps the order.                    *)
LEMMA LastMore ==
    ASSUME NEW s, AOrd(s), Last(s).role = "user", NEW c \in Seq(PlainA)
    PROVE  LET r == Append(Front(s), Message("user", Last(s).content \o c))
           IN  AOrd(r) /\ Last(r).role = "user"
<1> DEFINE l == Last(s)
           f == Front(s)
           x == Message("user", l.content \o c)
           r == Append(f, x)
           n == Len(s)
<1>1. s \in Seq(ProperMs) /\ s # <<>>
  BY DEF AOrd
<1>2. /\ f \in Seq(ProperMs) /\ n \in Nat /\ n > 0 /\ Len(f) = n - 1
      /\ \A i \in 1..n - 1 : f[i] = s[i]
      /\ l = s[n] /\ l \in ProperMs
  BY <1>1, FrontAt
<1>3. x \in ProperMs /\ x.role = "user" /\ Outputs(x) = Outputs(l)
  BY <1>2, PlainMore
<1> HIDE DEF x, l, f
<1>4. /\ r \in Seq(ProperMs) /\ Len(r) = Len(f) + 1
      /\ \A i \in 1..Len(f) : r[i] = f[i]
      /\ r[Len(f) + 1] = x
  BY <1>2, <1>3, OneMore
<1>5. Last(r) = x /\ r # <<>>
  BY <1>2, <1>3, AppendedLast
<1> HIDE DEF r, n
<1>6. Len(r) = n /\ r[n] = x /\ \A i \in 1..n - 1 : r[i] = s[i]
  BY <1>2, <1>4
<1>7. ASSUME NEW i \in 2..n PROVE Next2(r[i - 1], r[i])
  <2>1. Next2(s[i - 1], s[i])
    BY DEF AOrd, n
  <2>2. i - 1 \in 1..n - 1
    BY <1>2
  <2>3. r[i - 1] = s[i - 1]
    BY <1>6, <2>2
  <2>4. CASE i \in 1..n - 1
    BY <1>6, <2>1, <2>3, <2>4
  <2>5. CASE i = n
    <3>1. s[i] = l /\ r[i] = x
      BY <1>2, <1>6, <2>5
    <3>2. l.role = "user"
      BY DEF l
    <3>. QED
      BY <1>3, <2>1, <2>3, <3>1, <3>2 DEF Next2
  <2>. QED
    BY <1>2, <2>4, <2>5
<1>8. r[1].role = "user" /\ Outputs(r[1]) = <<>>
  <2>1. s[1].role = "user" /\ Outputs(s[1]) = <<>>
    BY DEF AOrd
  <2>2. CASE n = 1
    <3>1. r[1] = x /\ l = s[1]
      BY <1>2, <1>6, <2>2
    <3>. QED
      BY <1>3, <2>1, <3>1
  <2>3. CASE n # 1
    <3>1. 1 \in 1..n - 1
      BY <1>2, <2>3
    <3>. QED
      BY <1>6, <2>1, <3>1
  <2>. QED
    BY <2>2, <2>3
<1>9. AOrd(r)
  BY <1>4, <1>5, <1>6, <1>7, <1>8 DEF AOrd
<1>. QED
  BY <1>3, <1>5, <1>9 DEF r, x, l, f

(* An Anthropic upstream accepts messages in order.                        *)
LEMMA AOrdAccepted ==
    ASSUME NEW w, AOrd(w.messages), Last(w.messages).role # "assistant", w.system \in Seq(TextA)
    PROVE  AnthropicAccepts(w)
<1> DEFINE msgs == w.messages
           calls(i) == IF i = 0 THEN <<>> ELSE Ids("tool_use", msgs[i].content)
           results(i) == Ids("tool_result", msgs[i].content)
           n == Len(msgs)
<1>1. msgs \in Seq(ProperMs) /\ n \in Nat /\ n > 0 /\ msgs # <<>> /\ msgs[1].role = "user" /\ DOMAIN msgs = 1..n
  BY OrdLast, LenProperties DEF AOrd
<1>2. ASSUME NEW i \in DOMAIN w.system PROVE w.system[i].type = "text"
  <2>1. w.system[i] \in TextA
    BY ElementOfSeq, LenProperties
  <2>. QED
    BY <2>1 DEF TextA
<1>3. \A i \in 2..n : Next2(msgs[i - 1], msgs[i])
  BY DEF AOrd
<1>4. ASSUME NEW i \in 2..n PROVE msgs[i].role = msgs[i - 1].role => msgs[i].role = "system"
  BY <1>3 DEF Next2
<1>5. ASSUME NEW i \in 1..n
      PROVE  /\ msgs[i].role # "assistant" => calls(i) = <<>>
             /\ results(i) = calls(i - 1)
             /\ \A j \in 1..Len(results(i)) : msgs[i].content[j].type = "tool_result"
             /\ \A j \in DOMAIN msgs[i].content :
                   LET b == msgs[i].content[j]
                   IN  /\ b.type = "thinking" => b.signature # ""
                       /\ b.type = "tool_use" => Lawful(b.input)
                       /\ b.type = "tool_result" => ~b.content.json
  <2>1. msgs[i] \in ProperMs
    BY <1>1, ElementOfSeq
  <2>2. results(i) = Outputs(msgs[i]) /\ i # 0 /\ calls(i) = Uses(msgs[i])
    BY <1>1 DEF Outputs, Uses
  <2>3. results(i) = calls(i - 1)
    <3>1. CASE i = 1
      <4>1. Outputs(msgs[1]) = <<>>
        BY DEF AOrd
      <4>2. calls(i - 1) = <<>>
        BY <3>1
      <4>. QED
        BY <2>2, <3>1, <4>1, <4>2
    <3>2. CASE i # 1
      <4>1. i \in 2..n /\ i - 1 # 0
        BY <1>1, <3>2
      <4>2. calls(i - 1) = Uses(msgs[i - 1])
        BY <4>1 DEF Uses
      <4>. QED
        BY <1>3, <2>2, <4>1, <4>2 DEF Next2
    <3>. QED
      BY <3>1, <3>2
  <2>4. \A j \in 1..Len(results(i)) : msgs[i].content[j].type = "tool_result"
    BY <2>1, <2>2, ProperAccepted
  <2>5. \A j \in DOMAIN msgs[i].content :
                   LET b == msgs[i].content[j]
                   IN  /\ b.type = "thinking" => b.signature # ""
                       /\ b.type = "tool_use" => Lawful(b.input)
                       /\ b.type = "tool_result" => ~b.content.json
    BY <2>1, ProperAccepted
  <2>. QED
    BY <2>1, <2>2, <2>3, <2>4, <2>5, ProperFacts
<1>6. \A i \in DOMAIN msgs : ToSet(results(i)) = ToSet(calls(i - 1)) /\ Len(results(i)) = Len(calls(i - 1))
  BY <1>1, <1>5
<1>7. \A i \in DOMAIN msgs :
              /\ msgs[i].role # "assistant" => calls(i) = <<>>
              /\ ToSet(results(i)) = ToSet(calls(i - 1)) /\ Len(results(i)) = Len(calls(i - 1))
              /\ \A j \in 1..Len(results(i)) : msgs[i].content[j].type = "tool_result"
              /\ \A j \in DOMAIN msgs[i].content :
                    LET b == msgs[i].content[j]
                    IN  /\ b.type = "thinking" => b.signature # ""
                        /\ b.type = "tool_use" => Lawful(b.input)
                        /\ b.type = "tool_result" => ~b.content.json
  BY <1>1, <1>5, <1>6
<1>8. Last(msgs).role # "assistant"
  OBVIOUS
<1>9. \A i \in 2..Len(msgs) : msgs[i].role = msgs[i - 1].role => msgs[i].role = "system"
  BY <1>4
<1>. QED
  BY <1>1, <1>2, <1>7, <1>8, <1>9 DEF AnthropicAccepts

(* A result as a block, a message's blocks, and what the user's side says. *)
RToA     == [c \in ResultC |-> [type |-> "tool_result", id |-> c.id, is_error |-> c.is_error,
                                content |-> AnthropicOutput(c.out)]]
BlocksOf == [m \in IRMessages |-> Mapped(AFromIR, m.content)]
AskMs    == {m \in IRMessages : m.role \in {"user", "tool"}}

(* Results as Anthropic blocks.                                            *)
LEMMA RToAFacts ==
    /\ IsFcn(RToA, ResultC, ResultG) /\ IsFcn(RToA, ResultC, ABlocks)
    /\ \A c \in ResultC : RToA[c].id = c.id /\ AFromIR[c] = <<RToA[c]>>
    /\ \A cs \in Seq(ResultC) : /\ Each(RToA, cs) \in Seq(ResultG)
                                /\ Mapped(AFromIR, cs) = Each(RToA, cs)
<1>1. ASSUME NEW c \in ResultC
      PROVE  RToA[c] \in ResultG /\ RToA[c].id = c.id /\ AFromIR[c] = <<RToA[c]>>
  <2>1. c.kind = "tool_result" /\ c.id \in Nat /\ c.is_error \in BOOLEAN /\ c.out \in Outs
    BY DEF ResultC
  <2>2. AnthropicOutput(c.out) \in Outs /\ ~AnthropicOutput(c.out).json
    BY <2>1 DEF AnthropicOutput, Outs
  <2>3. RToA[c] = [type |-> "tool_result", id |-> c.id, is_error |-> c.is_error, content |-> AnthropicOutput(c.out)]
    BY DEF RToA
  <2>4. RToA[c] \in ResultG
    BY <2>1, <2>2, <2>3 DEF ResultG, ResultA
  <2>5. c \in IRBlocks
    BY DEF IRBlocks, UserC
  <2>6. AFromIR[c] = IRBlockToAnthropic(c)
    BY <2>5, AFromIRFacts
  <2>. QED
    BY <2>1, <2>3, <2>4, <2>6 DEF IRBlockToAnthropic
<1>2. IsFcn(RToA, ResultC, ResultG)
  BY <1>1 DEF IsFcn
<1>3. IsFcn(RToA, ResultC, ABlocks)
  BY <1>1, GoodBlocks DEF IsFcn
<1>4. ASSUME NEW cs \in Seq(ResultC)
      PROVE  Each(RToA, cs) \in Seq(ResultG) /\ Mapped(AFromIR, cs) = Each(RToA, cs)
  <2>1. Each(RToA, cs) \in Seq(ResultG)
    BY <1>2, EachFacts
  <2> DEFINE g == Singly(RToA, ResultC)
  <2>2. \A c \in ResultC : g[c] = <<RToA[c]>>
    BY <1>2, SinglyIsMap
  <2>3. Each(RToA, cs) = Mapped(g, cs)
    BY <1>2, EachIsMapped
  <2> HIDE DEF g
  <2>4. \A c \in ResultC : AFromIR[c] = g[c]
    BY <1>1, <2>2
  <2>5. Mapped(AFromIR, cs) = Mapped(g, cs)
    BY <2>4, MappedSame
  <2>. QED
    BY <2>1, <2>3, <2>5
<1>. QED
  BY <1>1, <1>2, <1>3, <1>4

(* Plain content as Anthropic blocks.                                      *)
LEMMA PlainFromIR ==
    /\ IsMap(AFromIR, TextC \cup ImageC, PlainA) /\ IsMap(AFromIR, TextC, PlainA)
    /\ \A s \in Seq(TextC \cup ImageC) : Mapped(AFromIR, s) \in Seq(PlainA)
    /\ \A s \in Seq(TextC) : Mapped(AFromIR, s) \in Seq(PlainA)
<1>1. ASSUME NEW c \in TextC \cup ImageC PROVE AFromIR[c] \in Seq(PlainA)
  <2>1. c \in IRBlocks
    BY DEF IRBlocks, UserC
  <2>2. AFromIR[c] = IRBlockToAnthropic(c)
    BY <2>1, AFromIRFacts
  <2>3. CASE c \in TextC
    <3> DEFINE b == [type |-> "text", text |-> c.text]
    <3>1. c.kind = "text" /\ c.text \in Texts
      BY <2>3 DEF TextC
    <3>2. b \in PlainA
      BY <3>1 DEF PlainA, TextA
    <3>3. AFromIR[c] = <<b>>
      BY <2>2, <3>1 DEF IRBlockToAnthropic
    <3> HIDE DEF b
    <3>. QED
      BY <3>2, <3>3, OneThing
  <2>4. CASE c \in ImageC
    <3> DEFINE b == [type |-> "image"]
    <3>1. c.kind = "image"
      BY <2>4 DEF ImageC
    <3>2. b \in PlainA
      BY DEF PlainA, ImageA
    <3>3. AFromIR[c] = <<b>>
      BY <2>2, <3>1 DEF IRBlockToAnthropic
    <3> HIDE DEF b
    <3>. QED
      BY <3>2, <3>3, OneThing
  <2>. QED
    BY <2>3, <2>4
<1>2. IsMap(AFromIR, TextC \cup ImageC, PlainA)
  BY <1>1 DEF IsMap
<1>3. IsMap(AFromIR, TextC, PlainA)
  BY <1>1 DEF IsMap
<1>. QED
  BY <1>2, <1>3, MappedFacts

(* The blocks of a message.                                                *)
LEMMA BlocksOfFacts ==
    /\ IsMap(BlocksOf, IRMessages, ABlocks)
    /\ \A m \in IRMessages : BlocksOf[m] = Mapped(AFromIR, m.content)
    /\ \A m \in IRMessages : m.role # "tool" => AMFromIR[m] = Message(m.role, BlocksOf[m])
    /\ \A m \in AskMs : m \in IRMessages /\ AMFromIR[m] = Message("user", BlocksOf[m])
<1>1. \A m \in IRMessages : BlocksOf[m] = Mapped(AFromIR, m.content)
  BY DEF BlocksOf
<1>2. ASSUME NEW m \in IRMessages PROVE BlocksOf[m] \in Seq(ABlocks)
  <2>1. m.content \in Seq(IRBlocks)
    BY IRMessageCases, AnyFacts
  <2>2. Mapped(AFromIR, m.content) \in Seq(ABlocks)
    BY <2>1, AFromIRFacts, MappedFacts
  <2>. QED
    BY <1>1, <2>2
<1>3. IsMap(BlocksOf, IRMessages, ABlocks)
  BY <1>2 DEF IsMap
<1>4. \A m \in IRMessages : AMFromIR[m] = Message(IF m.role = "tool" THEN "user" ELSE m.role, BlocksOf[m])
  BY <1>1, IRMessageCases, AMFromIRFacts
<1>5. ASSUME NEW m \in AskMs PROVE m \in IRMessages /\ AMFromIR[m] = Message("user", BlocksOf[m])
  <2>1. m \in IRMessages /\ m.role \in {"user", "tool"}
    BY DEF AskMs
  <2>. QED
    BY <1>4, <2>1
<1>. QED
  BY <1>1, <1>3, <1>4, <1>5

(* Anthropic Messages writes replies as results and then plain blocks.     *)
LEMMA AReplies ==
    CanReply(BlocksOf, RToA, PlainA, ABlocks)
<1> DEFINE h == BlocksOf
<1>1. PlainA \subseteq ABlocks
  BY GoodBlocks
<1>2. ASSUME NEW c \in ResultC PROVE h[ToolF[c]] = <<RToA[c]>>
  <2>1. ToolF[c] = Message("tool", <<c>>) /\ ToolF[c] \in IRMessages
    BY ToolFFacts DEF IsFcn
  <2>2. ToolF[c].content = <<c>>
    BY <2>1, MessageFacts
  <2>3. h[ToolF[c]] = Mapped(AFromIR, <<c>>)
    BY <2>1, <2>2, BlocksOfFacts
  <2>4. c \in IRBlocks
    BY DEF IRBlocks, UserC
  <2>5. Mapped(AFromIR, <<c>>) = AFromIR[c]
    BY <2>4, AFromIRFacts, MappedFacts
  <2>. QED
    BY <2>3, <2>5, RToAFacts
<1>3. ASSUME NEW cs \in Seq(ResultC), NEW c \in Seq(TextC \cup ImageC)
      PROVE  \E pl \in Seq(PlainA) : h[Message("user", cs \o c)] = Each(RToA, cs) \o pl
  <2> DEFINE d == cs \o c
             m == Message("user", d)
  <2>1. d \in Seq(UserC) /\ cs \in Seq(IRBlocks) /\ c \in Seq(IRBlocks)
    BY ResultsFirst, TypesFacts, MoreTypes
  <2>2. Mapped(AFromIR, d) = Mapped(AFromIR, cs) \o Mapped(AFromIR, c)
    BY <2>1, AFromIRFacts, MappedConcat
  <2> HIDE DEF d
  <2>3. m \in IRMessages /\ m.content = d
    BY <2>1, MoreTypes, MessageFacts
  <2> HIDE DEF m
  <2>4. h[m] = Each(RToA, cs) \o Mapped(AFromIR, c)
    BY <2>2, <2>3, BlocksOfFacts, RToAFacts
  <2>5. Mapped(AFromIR, c) \in Seq(PlainA)
    BY PlainFromIR
  <2>. QED
    BY <2>4, <2>5 DEF m, d
<1>4. ASSUME NEW x \in Noted PROVE h[x] \in Seq(PlainA)
  <2>1. PICK c \in Seq(TextC) : x = Message("system", c)
    BY DEF Noted
  <2>2. x \in IRMessages /\ x.content = c
    BY <2>1, ToolFFacts, MessageFacts
  <2>. QED
    BY <2>2, BlocksOfFacts, PlainFromIR
<1> HIDE DEF h
<1>5. RepliesTo(h, RToA, PlainA)
  BY <1>2, <1>3, <1>4 DEF RepliesTo
<1>6. IsMap(h, IRMessages, ABlocks) /\ IsFcn(RToA, ResultC, ABlocks)
  BY BlocksOfFacts, RToAFacts DEF h
<1>7. CanReply(h, RToA, PlainA, ABlocks)
  BY <1>1, <1>5, <1>6 DEF CanReply
<1>. QED
  BY <1>7 DEF h

(* Two user messages merged one after the other are merged as one;         *)
LEMMA MergeTwice ==
    ASSUME NEW out \in Seq(AnyA), NEW c \in Seq(ABlocks), NEW d \in Seq(ABlocks)
    PROVE  MergeNext(MergeNext(out, Message("user", c)), Message("user", d)) = MergeNext(out, Message("user", c \o d))
<1> DEFINE u == "user"
           mc == Message(u, c)
           md == Message(u, d)
           e == c \o d
           me == Message(u, e)
<1>1. e \in Seq(ABlocks) /\ u \in Roles /\ u # "system"
  BY ConcatProperties DEF Roles
<1> HIDE DEF u, e
<1>2. /\ mc \in AnyA /\ mc.role = u /\ mc.content = c
      /\ md \in AnyA /\ md.role = u /\ md.content = d
      /\ me \in AnyA /\ me.role = u /\ me.content = e
  BY <1>1, AnyFacts, MessageFacts
<1> HIDE DEF mc, md, me
<1>3. CASE out # <<>> /\ Last(out).role = u
  <2> DEFINE f == Front(out)
             k == Last(out).content
             kc == k \o c
             x == Message(u, kc)
  <2>1. f \in Seq(AnyA) /\ Last(out) \in AnyA
    BY <1>3, FrontAt
  <2>2. k \in Seq(ABlocks)
    BY <2>1, AnyFacts
  <2>3. kc \in Seq(ABlocks) /\ kc \o d = k \o e
    <3> HIDE DEF f, k
    <3>1. kc \in Seq(ABlocks)
      BY <2>2, ConcatProperties
    <3>2. (k \o c) \o d = k \o (c \o d)
      BY ONLY <2>2, c \in Seq(ABlocks), d \in Seq(ABlocks), ThreeConcat
    <3>. QED
      BY <3>1, <3>2 DEF e
  <2>4. MergeNext(out, mc) = Append(f, x)
    BY <1>1, <1>2, <1>3 DEF MergeNext
  <2>5. MergeNext(out, me) = Append(f, Message(u, k \o e))
    BY <1>1, <1>2, <1>3 DEF MergeNext
  <2> HIDE DEF f, k, kc
  <2>6. x \in AnyA /\ x.role = u /\ x.content = kc
    BY <1>1, <2>3, AnyFacts, MessageFacts
  <2> HIDE DEF x
  <2> DEFINE r == Append(f, x)
  <2>7. r # <<>> /\ Front(r) = f /\ Last(r) = x
    BY <2>1, <2>6, AppendedLast
  <2> HIDE DEF r
  <2>8. MergeNext(r, md) = Append(f, Message(u, kc \o d))
    BY <1>1, <1>2, <2>6, <2>7 DEF MergeNext
  <2>9. MergeNext(MergeNext(out, mc), md) = MergeNext(out, me)
    BY <2>3, <2>4, <2>5, <2>8 DEF r
  <2>. QED
    BY <2>9 DEF mc, md, me, e, u
<1>4. CASE ~(out # <<>> /\ Last(out).role = u)
  <2>1. MergeNext(out, mc) = Append(out, mc) /\ MergeNext(out, me) = Append(out, me)
    BY <1>1, <1>2, <1>4 DEF MergeNext
  <2> DEFINE r == Append(out, mc)
  <2>2. r # <<>> /\ Front(r) = out /\ Last(r) = mc
    BY <1>2, AppendedLast
  <2> HIDE DEF r
  <2>3. MergeNext(r, md) = Append(out, Message(u, c \o d))
    BY <1>1, <1>2, <2>2 DEF MergeNext
  <2>4. MergeNext(MergeNext(out, mc), md) = MergeNext(out, me)
    BY <2>1, <2>3 DEF r, me, e
  <2>. QED
    BY <2>4 DEF mc, md, me, e, u
<1>. QED
  BY <1>3, <1>4

(* so are any number of them.                                              *)
LEMMA UsersMerge ==
    ASSUME NEW X \in Seq(AnyA)
    PROVE  \A s \in Seq(AskMs) : s # <<>> =>
              Merged(X \o Each(AMFromIR, s)) = MergeNext(Merged(X), Message("user", Mapped(BlocksOf, s)))
<1> DEFINE h == BlocksOf
           G == Merged(X)
           Y(s) == X \o Each(AMFromIR, s)
           OK(s) == s # <<>> => Merged(Y(s)) = MergeNext(G, Message("user", Mapped(h, s)))
           P == {s \in Seq(AskMs) : OK(s)}
<1>1. /\ IsFcn(AMFromIR, AskMs, AnyA) /\ IsMap(h, AskMs, ABlocks) /\ AskMs \subseteq AnyIR
      /\ \A m \in AskMs : AMFromIR[m] = Message("user", h[m])
  <2>1. \A m \in AskMs : m \in IRMessages /\ AMFromIR[m] = Message("user", h[m])
    BY BlocksOfFacts
  <2>2. AskMs \subseteq AnyIR
    BY <2>1, IRMessageCases
  <2>3. IsFcn(AMFromIR, AskMs, AnyA)
    BY <2>2, AMFromIRFacts DEF IsFcn
  <2>4. IsMap(h, AskMs, ABlocks)
    BY <2>1, BlocksOfFacts DEF IsMap
  <2>. QED
    BY <2>1, <2>2, <2>3, <2>4
<1>2. <<>> \in P
  BY EmptySeq
<1>3. G \in Seq(AnyA)
  BY MergedFacts
<1> HIDE DEF h, G
<1>4. ASSUME NEW s \in Seq(AskMs), s \in P, NEW x \in AskMs PROVE Append(s, x) \in P
  <2> DEFINE E == Each(AMFromIR, s)
             y == AMFromIR[x]
             t == Append(s, x)
             H == Mapped(h, s)
  <2>1. E \in Seq(AnyA) /\ y \in AnyA /\ H \in Seq(ABlocks) /\ h[x] \in Seq(ABlocks)
    <3>1. y \in AnyA
      BY <1>1 DEF IsFcn
    <3>2. h[x] \in Seq(ABlocks)
      BY <1>1 DEF IsMap
    <3>. QED
      BY <1>1, <3>1, <3>2, EachFacts, MappedFacts
  <2>2. t \in Seq(AskMs)
    BY AppendProperties
  <2>3. Each(AMFromIR, t) = Append(E, y)
    BY <1>1, EachAppend
  <2>4. Mapped(h, t) = H \o h[x]
    BY <1>1, MappedFacts
  <2>5. y = Message("user", h[x])
    BY <1>1
  <2>6. s # <<>> => Merged(X \o E) = MergeNext(G, Message("user", H))
    BY <1>4
  <2>7. s = <<>> => E = <<>> /\ H = <<>>
    BY <1>1, EachFacts, MappedFacts
  <2> HIDE DEF E, t, H
  <2> DEFINE Z == X \o E
  <2>8. Z \in Seq(AnyA) /\ X \o Append(E, y) = Append(Z, y)
    BY <2>1, AppendConcat, ConcatProperties
  <2> HIDE DEF Z
  <2>9. Merged(Append(Z, y)) = MergeNext(Merged(Z), y)
    BY <2>1, <2>8, MergedFacts
  <2>10. Merged(X \o Each(AMFromIR, t)) = MergeNext(Merged(Z), y)
    BY <2>3, <2>8, <2>9
  <2>11. CASE s # <<>>
    <3>1. Merged(Z) = MergeNext(G, Message("user", H))
      BY <2>6, <2>11 DEF Z
    <3>2. MergeNext(Merged(Z), y) = MergeNext(G, Message("user", H \o h[x]))
      BY <1>3, <2>1, <2>5, <3>1, MergeTwice
    <3>. QED
      BY <2>2, <2>4, <2>10, <3>2 DEF t
  <2>12. CASE s = <<>>
    <3>1. Z = X
      <4>1. E = <<>>
        BY <2>7, <2>12
      <4>. QED
        BY <4>1, ConcatEmptySeq DEF Z
    <3>2. H \o h[x] = h[x]
      <4>1. H = <<>>
        BY <2>7, <2>12
      <4>. QED
        BY <2>1, <4>1, ConcatEmptySeq
    <3>. QED
      BY <2>2, <2>4, <2>5, <2>10, <3>1, <3>2 DEF t, G
  <2>. QED
    BY <2>11, <2>12
<1> HIDE DEF P
<1>5. Seq(AskMs) \subseteq P
  BY <1>2, <1>4, SeqInduction
<1>. QED
  BY <1>5 DEF P, h, G

(* The message of a reply has the results it was made of and no calls.     *)
LEMMA PlainProper ==
    ASSUME NEW r \in {"user", "system"}, NEW cs \in Seq(ResultC), NEW pl \in Seq(PlainA)
    PROVE  LET m == Message(r, Each(RToA, cs) \o pl)
           IN  /\ m \in ProperMs /\ m.role = r /\ m.content = Each(RToA, cs) \o pl
               /\ Uses(m) = <<>> /\ Outputs(m) = Each(ResId, cs)
<1> DEFINE x == Each(RToA, cs)
           d == x \o pl
           m == Message(r, d)
<1>1. x \in Seq(ResultG)
  BY RToAFacts
<1>2. [i \in DOMAIN x |-> x[i].id] = Each(ResId, cs)
  <2>1. DOMAIN x = DOMAIN cs
    BY DEF Each
  <2>2. ASSUME NEW i \in DOMAIN cs PROVE x[i].id = ResId[cs[i]]
    <3>1. cs[i] \in ResultC
      BY ElementOfSeq, LenProperties
    <3>2. x[i] = RToA[cs[i]]
      BY DEF Each
    <3>. QED
      BY <3>1, <3>2, RToAFacts, ToolFFacts
  <2>3. Each(ResId, cs) = [i \in DOMAIN cs |-> ResId[cs[i]]]
    BY DEF Each
  <2> HIDE DEF x
  <2>. QED
    BY <2>1, <2>2, <2>3
<1> HIDE DEF x
<1>3. pl \in Seq(RestG)
  BY GoodBlocks
<1>4. /\ d \in Seq(ABlocks) /\ Sorted(d)
      /\ OfType("tool_result", d) = x /\ OfType("tool_use", d) = <<>>
  BY <1>1, <1>3, SortedFacts
<1> HIDE DEF d
<1>5. m.role = r /\ m.content = d
  BY MessageFacts
<1>6. m \in AnyA
  <2>1. r \in Roles
    BY DEF Roles
  <2>. QED
    BY <1>4, <2>1, AnyFacts
<1> HIDE DEF m
<1>7. Uses(m) = <<>> /\ Outputs(m) = Each(ResId, cs)
  BY <1>2, <1>4, <1>5, IdsThere DEF Uses, Outputs
<1>8. m \in ProperMs
  BY <1>4, <1>5, <1>6, <1>7 DEF ProperMs
<1>. QED
  BY <1>5, <1>7, <1>8 DEF m, d, x

(* The results of the last message's calls, merged after it, keep the      *)
(* order.                                                                  *)
LEMMA UserKept ==
    ASSUME NEW s, AOrd(s), NEW cs \in Seq(ResultC), Uses(Last(s)) = Each(ResId, cs), NEW pl \in Seq(PlainA)
    PROVE  LET r == MergeNext(s, Message("user", Each(RToA, cs) \o pl))
           IN  AOrd(r) /\ Last(r).role = "user"
<1> DEFINE x == Each(RToA, cs)
           d == x \o pl
           m == Message("user", d)
           r == MergeNext(s, m)
           l == Last(s)
<1>1. m \in ProperMs /\ m.role = "user" /\ m.content = d /\ Outputs(m) = Each(ResId, cs)
  BY PlainProper
<1>2. s # <<>> /\ l \in ProperMs
  BY OrdLast DEF AOrd
<1>3. CASE l.role = "user"
  <2>1. Each(ResId, cs) = <<>>
    BY <1>2, <1>3, ProperFacts
  <2>2. cs = <<>>
    BY <2>1, ToolFFacts, EachFacts
  <2>3. x = <<>>
    BY <2>2, RToAFacts, EachFacts
  <2>4. d = pl
    <3> HIDE DEF x
    <3>. QED
      BY <2>3, ConcatEmptySeq
  <2> HIDE DEF d, m
  <2>5. r = Append(Front(s), Message("user", Last(s).content \o pl))
    BY <1>1, <1>2, <1>3, <2>4 DEF MergeNext
  <2>6. AOrd(r) /\ Last(r).role = "user"
    BY <1>3, <2>5, LastMore
  <2>. QED
    BY <2>6 DEF m, d, x
<1>4. CASE l.role # "user"
  <2> HIDE DEF m
  <2>1. r = Append(s, m)
    BY <1>1, <1>4 DEF MergeNext
  <2>2. Next2(l, m)
    BY <1>1, <1>4 DEF Next2
  <2>3. AOrd(r) /\ Last(r) = m
    BY <1>1, <2>1, <2>2, AppendKept
  <2>. QED
    BY <1>1, <2>3 DEF m, d, x
<1>. QED
  BY <1>3, <1>4

(* An answer's content as Anthropic blocks: thinking is signed, calls are  *)
(* lawful.                                                                 *)
LEMMA SpokenToA ==
    ASSUME NEW q
    PROVE  IsMap(AFromIR, Spoken(q), RestG)
<1>1. ASSUME NEW c \in Spoken(q) PROVE AFromIR[c] \in Seq(RestG)
  <2>1. c \in TextC \/ c \in LawfulCallC \/ c \in ThinkC
    BY DEF Spoken, PlainThinkC
  <2>2. c \in AssistantC /\ c \in IRBlocks
    BY SpokenFacts DEF IRBlocks
  <2>3. AFromIR[c] = IRBlockToAnthropic(c)
    BY <2>2, AFromIRFacts
  <2>4. CASE c \in TextC
    BY <2>4, PlainFromIR, GoodBlocks DEF IsMap
  <2>5. CASE c \in LawfulCallC
    <3> DEFINE b == [type |-> "tool_use", id |-> c.id, input |-> c.input]
    <3>1. c.kind = "tool_use" /\ c.id \in Nat /\ c.input \in Args /\ Lawful(c.input)
      BY <2>5 DEF LawfulCallC, CallC
    <3>2. b \in UseG
      BY <3>1 DEF UseG, UseA
    <3>3. b \in RestG
      BY <3>2 DEF RestG
    <3>4. AFromIR[c] = <<b>>
      BY <2>3, <3>1 DEF IRBlockToAnthropic
    <3> HIDE DEF b
    <3>. QED
      BY <3>3, <3>4, OneThing
  <2>6. CASE c \in ThinkC
    <3>0. c.kind = "thinking" /\ c.text \in Texts /\ c.signature \in Marks /\ c.raw \in Raws
      BY <2>6 DEF ThinkC
    <3>1. AFromIR[c] = IRThinkingToAnthropic(c)
      BY <2>3, <3>0 DEF IRBlockToAnthropic
    <3>2. CASE c.raw.type = "redacted_thinking"
      <4> DEFINE b == [type |-> "redacted_thinking", data |-> c.raw.data]
      <4>1. c.raw.data \in Nat
        BY <3>0, <3>2 DEF Raws
      <4>2. b \in RestG
        BY <4>1 DEF RestG, HiddenA
      <4>3. AFromIR[c] = <<b>>
        BY <3>1, <3>2 DEF IRThinkingToAnthropic, IsOpaque
      <4> HIDE DEF b
      <4>. QED
        BY <4>2, <4>3, OneThing
    <3>3. CASE c.raw.type # "redacted_thinking" /\ (c.raw.type # "none" \/ c.signature = "")
      <4>1. AFromIR[c] = <<>>
        BY <3>1, <3>3 DEF IRThinkingToAnthropic, IsOpaque
      <4>. QED
        BY <4>1
    <3>4. CASE c.raw.type = "none" /\ c.signature # ""
      <4> DEFINE b == [type |-> "thinking", text |-> c.text, signature |-> c.signature]
      <4>1. b \in RestG
        BY <3>0, <3>4 DEF RestG, ThinkA
      <4>2. AFromIR[c] = <<b>>
        BY <3>1, <3>4 DEF IRThinkingToAnthropic, IsOpaque
      <4> HIDE DEF b
      <4>. QED
        BY <4>1, <4>2, OneThing
    <3>. QED
      BY <3>2, <3>3, <3>4
  <2>. QED
    BY <2>1, <2>4, <2>5, <2>6
<1>. QED
  BY <1>1 DEF IsMap

(* The message of an answer has its calls and no results.                  *)
LEMMA AssistantProper ==
    ASSUME NEW q, NEW c \in Seq(Spoken(q))
    PROVE  LET m == AMFromIR[Message("assistant", c)]
           IN  /\ m \in ProperMs /\ m.role = "assistant"
               /\ Outputs(m) = <<>> /\ Uses(m) = CallIds(c)
<1> DEFINE r == "assistant"
           i == Message(r, c)
           d == Mapped(AFromIR, c)
           m == AMFromIR[i]
<1>1. c \in Seq(AssistantC) /\ c \in Seq(IRBlocks)
  BY SpokenFacts, TypesFacts
<1>2. i \in IRMessages /\ i.role = r /\ i.content = c
  BY <1>1, MoreTypes, MessageFacts
<1>3. d \in Seq(RestG) /\ d \in Seq(AssistantA)
  BY <1>1, SpokenToA, AFromIRAnswers, MappedFacts
<1>4. m = Message(r, BlocksOf[i]) /\ BlocksOf[i] = d
  <2>1. r # "tool"
    OBVIOUS
  <2>2. \A n \in IRMessages : n.role # "tool" => AMFromIR[n] = Message(n.role, BlocksOf[n])
    BY BlocksOfFacts
  <2>3. BlocksOf[i] = Mapped(AFromIR, i.content)
    BY <1>2, BlocksOfFacts
  <2> HIDE DEF i, r
  <2>. QED
    BY <1>2, <2>1, <2>2, <2>3
<1>5. CallIds(c) = Ids("tool_use", d)
  <2> DEFINE w == [content |-> d]
  <2>1. w.content = d
    OBVIOUS
  <2>2. CallsIn("anthropic", w) = Ids("tool_use", d)
    BY <2>1 DEF CallsIn, Ids
  <2>3. IsAnswer("anthropic", w) /\ "anthropic" \in Protocols
    BY <1>3, <2>1 DEF IsAnswer, Protocols
  <2>4. InAnswer("anthropic", w) = Mapped(HearA, d)
    BY <2>1, <2>3, AnswersHeard
  <2>5. CallsIn("anthropic", w) = Each(IdF, OnlyTools(InAnswer("anthropic", w)))
    BY <2>3, CallsInAnswer
  <2>6. Mapped(HearA, d) = Mapped(HearC, c)
    <3>1. IsMap(AFromIR, IRBlocks, ABlocks) /\ IsMap(HearA, ABlocks, Things) /\ IsMap(HearC, IRBlocks, Things)
      BY AFromIRFacts, HearAFacts, HearCFacts
    <3>2. \A x \in IRBlocks : HearC[x] = Mapped(HearA, AFromIR[x])
      BY AFromIRFacts
    <3>. QED
      BY <1>1, <3>1, <3>2, MappedTwice
  <2> HIDE DEF w, d
  <2>. QED
    BY <2>2, <2>4, <2>5, <2>6 DEF CallIds
<1> HIDE DEF i, d, m, r
<1>6. m.role = r /\ m.content = d /\ r = "assistant"
  BY <1>4, MessageFacts DEF r
<1> DEFINE none == <<>>
<1>7. none \in Seq(ResultG) /\ none \o d = d /\ d \in Seq(ABlocks)
  <2>1. none \in Seq(ResultG)
    BY EmptySeq
  <2>2. d \in Seq(ABlocks)
    BY <1>3, GoodBlocks
  <2>3. none \o d = d
    BY <2>2, ConcatEmptySeq
  <2>. QED
    BY <2>1, <2>2, <2>3
<1> HIDE DEF none
<1>8. Sorted(d) /\ OfType("tool_result", d) = none
  <2>1. Sorted(none \o d) /\ OfType("tool_result", none \o d) = none
    BY <1>3, <1>7, SortedFacts
  <2>. QED
    BY <1>7, <2>1
<1>9. Outputs(m) = <<>> /\ Uses(m) = CallIds(c)
  BY <1>5, <1>6, <1>8, IdsThere DEF Outputs, Uses, none
<1>10. m \in AnyA
  <2>1. r \in Roles
    BY <1>6 DEF Roles
  <2>. QED
    BY <1>4, <1>7, <2>1, AnyFacts
<1>11. m \in ProperMs
  BY <1>6, <1>8, <1>10 DEF ProperMs
<1>. QED
  BY <1>6, <1>9, <1>11 DEF m, i, r

(* Anthropic messages X and then what a becomes, before merging.           *)
InA(X, a) == X \o Each(AMFromIR, a)

(* Messages one after the other, in Anthropic Messages.                    *)
LEMMA InAFacts ==
    ASSUME NEW X \in Seq(AnyA), NEW a \in Seq(IRMessages), NEW b \in Seq(IRMessages)
    PROVE  /\ InA(X, a) \in Seq(AnyA) /\ Each(AMFromIR, a) \in Seq(AnyA)
           /\ InA(X, a \o b) = InA(InA(X, a), b)
           /\ a = <<>> => InA(X, a) = X
           /\ \A m \in IRMessages : a = <<m>> => /\ InA(X, a) = Append(X, AMFromIR[m])
                                                 /\ Merged(InA(X, a)) = MergeNext(Merged(X), AMFromIR[m])
<1>1. a \in Seq(AnyIR) /\ b \in Seq(AnyIR) /\ IRMessages \subseteq AnyIR
  BY TypesFacts
<1> DEFINE A == Each(AMFromIR, a)
           B == Each(AMFromIR, b)
<1>2. A \in Seq(AnyA) /\ B \in Seq(AnyA)
  BY <1>1, AMFromIRFacts
<1>3. Each(AMFromIR, a \o b) = A \o B
  BY <1>1, AMFromIRFacts, EachConcat
<1>4. a = <<>> => A = <<>>
  BY <1>1, AMFromIRFacts, EachFacts
<1>5. ASSUME NEW m \in IRMessages, a = <<m>> PROVE A = <<AMFromIR[m]>> /\ AMFromIR[m] \in AnyA
  <2>1. m \in AnyIR
    BY <1>1
  <2>2. Each(AMFromIR, <<m>>) = <<AMFromIR[m]>>
    BY <2>1, AMFromIRFacts, EachOne
  <2>3. AMFromIR[m] \in AnyA
    BY <2>1, AMFromIRFacts DEF IsFcn
  <2>. QED
    BY <1>5, <2>2, <2>3
<1> HIDE DEF A, B
<1>6. X \o A \in Seq(AnyA)
  BY <1>2, ConcatProperties
<1>7. (X \o A) \o B = X \o (A \o B)
  BY <1>2, ThreeConcat
<1>8. a = <<>> => X \o A = X
  <2> SUFFICES ASSUME a = <<>> PROVE X \o A = X
    OBVIOUS
  <2>1. A = <<>>
    BY <1>4
  <2>. QED
    BY <2>1, ConcatEmptySeq
<1>9. ASSUME NEW m \in IRMessages, a = <<m>>
      PROVE  X \o A = Append(X, AMFromIR[m]) /\ Merged(X \o A) = MergeNext(Merged(X), AMFromIR[m])
  <2> DEFINE y == AMFromIR[m]
  <2>1. A = <<y>> /\ y \in AnyA
    BY <1>5, <1>9
  <2> HIDE DEF y
  <2>2. X \o <<y>> = Append(X, y)
    BY <2>1, AppendProperties
  <2>3. X \o A = Append(X, y)
    BY <2>1, <2>2
  <2>4. Merged(Append(X, y)) = MergeNext(Merged(X), y)
    BY <2>1, MergedFacts
  <2>. QED
    BY <2>3, <2>4 DEF y
<1>10. InA(X, a) = X \o A /\ InA(X \o A, b) = (X \o A) \o B /\ InA(X, a \o b) = X \o (A \o B)
  BY <1>3 DEF InA, A, B
<1>. QED
  BY <1>2, <1>6, <1>7, <1>8, <1>9, <1>10 DEF A

(* An answer keeps the order and leaves its calls open;                    *)
LEMMA OpenedKept ==
    ASSUME NEW X \in Seq(AnyA), AOrd(Merged(X)), Last(Merged(X)).role # "assistant",
           NEW q, NEW ids, NEW a \in Seq(IRMessages), Opened(q, ids, a)
    PROVE  LET G == Merged(InA(X, a)) IN AOrd(G) /\ Uses(Last(G)) = ids
<1> DEFINE G == Merged(X)
<1>1. Last(G) \in ProperMs
  BY OrdLast
<1>2. Uses(Last(G)) = <<>>
  BY <1>1, ProperFacts
<1>3. CASE a = <<>> /\ ids = <<>>
  <2>1. InA(X, a) = X
    BY <1>3, InAFacts
  <2>. QED
    BY <1>2, <1>3, <2>1
<1>4. CASE \E c \in Seq(Spoken(q)) : a = <<Message("assistant", c)>> /\ CallIds(c) = ids
  <2>1. PICK c \in Seq(Spoken(q)) : a = <<Message("assistant", c)>> /\ CallIds(c) = ids
    BY <1>4
  <2> DEFINE i == Message("assistant", c)
             m == AMFromIR[i]
  <2>2. m \in ProperMs /\ m.role = "assistant" /\ Outputs(m) = <<>> /\ Uses(m) = CallIds(c)
    BY AssistantProper
  <2>3. i \in IRMessages
    BY SpokenFacts, MoreTypes
  <2>4. a = <<i>>
    BY <2>1
  <2> HIDE DEF i
  <2>5. Merged(InA(X, a)) = MergeNext(G, m)
    BY <2>3, <2>4, InAFacts
  <2> HIDE DEF m
  <2>6. MergeNext(G, m) = Append(G, m)
    BY <2>2 DEF MergeNext
  <2> HIDE DEF G
  <2>7. Next2(Last(G), m)
    <3>1. Last(G).role # "assistant"
      BY DEF G
    <3>. QED
      BY <1>2, <2>2, <3>1 DEF Next2
  <2>8. AOrd(G)
    BY DEF G
  <2>9. AOrd(Append(G, m)) /\ Last(Append(G, m)) = m
    BY <2>2, <2>7, <2>8, AppendKept
  <2>. QED
    BY <2>1, <2>2, <2>5, <2>6, <2>9
<1>. QED
  BY <1>3, <1>4 DEF Opened

(* what replies to them is all the user's,                                 *)
LEMMA AskedAre ==
    ASSUME NEW ids, NEW m \in Seq(IRMessages), AskedInOne(ids, m) \/ AskedApart(ids, m)
    PROVE  m \in Seq(AskMs) /\ m # <<>>
<1>1. CASE AskedInOne(ids, m)
  <2>1. PICK cs \in Seq(ResultC) : \E c \in Seq(TextC \cup ImageC) :
           Each(ResId, cs) = ids /\ m = <<Message("user", cs \o c)>>
    BY <1>1 DEF AskedInOne
  <2>2. PICK c \in Seq(TextC \cup ImageC) : Each(ResId, cs) = ids /\ m = <<Message("user", cs \o c)>>
    BY <2>1
  <2> DEFINE d == cs \o c
             u == Message("user", d)
  <2>3. d \in Seq(UserC)
    BY ResultsFirst
  <2> HIDE DEF d
  <2>4. u \in IRMessages /\ u.role = "user"
    BY <2>3, MoreTypes, MessageFacts
  <2> HIDE DEF u
  <2>5. u \in AskMs
    BY <2>4 DEF AskMs
  <2>6. m = <<u>>
    BY <2>2 DEF u, d
  <2>. QED
    BY <2>5, <2>6, OneThing
<1>2. CASE AskedApart(ids, m)
  <2>1. PICK cs \in Seq(ResultC) : \E u \in Maybe(UserSaid) :
           Each(ResId, cs) = ids /\ (ids = <<>> => u # <<>>) /\ m = Each(ToolF, cs) \o u
    BY <1>2 DEF AskedApart
  <2>2. PICK u \in Maybe(UserSaid) :
           Each(ResId, cs) = ids /\ (ids = <<>> => u # <<>>) /\ m = Each(ToolF, cs) \o u
    BY <2>1
  <2>3. IsFcn(ToolF, ResultC, AskMs)
    <3>1. ASSUME NEW c \in ResultC PROVE ToolF[c] \in AskMs
      <4>1. ToolF[c] \in IRMessages
        BY ToolFFacts DEF IsFcn
      <4>2. ToolF[c].role = "tool"
        <5>1. ToolF[c] = Message("tool", <<c>>)
          BY ToolFFacts
        <5>. QED
          BY <5>1, MessageFacts
      <4>. QED
        BY <4>1, <4>2 DEF AskMs
    <3>. QED
      BY <3>1 DEF IsFcn
  <2>4. UserSaid \subseteq AskMs
    <3>1. ASSUME NEW x \in UserSaid PROVE x \in AskMs
      <4>1. PICK c \in Seq(TextC \cup ImageC) : x = Message("user", c)
        BY DEF UserSaid
      <4>2. x.role = "user"
        BY <4>1, MessageFacts
      <4>3. x \in IRMessages
        BY ToolFFacts
      <4>. QED
        BY <4>2, <4>3 DEF AskMs
    <3>. QED
      BY <3>1
  <2> DEFINE t == Each(ToolF, cs)
  <2>5. t \in Seq(AskMs) /\ (t = <<>>) = (cs = <<>>)
    BY <2>3, EachFacts
  <2>6. u \in Seq(AskMs)
    BY <2>4, MaybeFacts
  <2>7. cs = <<>> => ids = <<>>
    BY <2>2, ToolFFacts, EachFacts
  <2> HIDE DEF t
  <2>8. t \o u \in Seq(AskMs)
    BY <2>5, <2>6, ConcatProperties
  <2>9. t \o u # <<>>
    <3>1. CASE u # <<>>
      BY <2>5, <2>6, <3>1, ConcatLast
    <3>2. CASE u = <<>>
      <4>1. t # <<>>
        BY <2>2, <2>5, <2>7, <3>2
      <4>2. t \o <<>> = t
        BY <2>5, ConcatEmptySeq
      <4>. QED
        BY <3>2, <4>1, <4>2
    <3>. QED
      BY <3>1, <3>2
  <2>. QED
    BY <2>2, <2>8, <2>9 DEF t
<1>. QED
  BY <1>1, <1>2

(* and merged it answers them;                                             *)
LEMMA AskedKept ==
    ASSUME NEW X \in Seq(AnyA), AOrd(Merged(X)), NEW ids, Uses(Last(Merged(X))) = ids,
           NEW m \in Seq(IRMessages), AskedInOne(ids, m) \/ AskedApart(ids, m)
    PROVE  LET G == Merged(InA(X, m)) IN AOrd(G) /\ Last(G).role = "user"
<1>1. m \in Seq(AskMs) /\ m # <<>>
  BY AskedAre
<1>2. Replied(ids, m)
  <2>1. <<>> \in Maybe(Noted)
    BY DEF Maybe
  <2>2. m = m \o <<>>
    BY ConcatEmptySeq
  <2>. QED
    BY <2>1, <2>2 DEF Replied
<1>3. Written(RToA, PlainA, ids, Mapped(BlocksOf, m))
  BY <1>2, AReplies, ReplyMapped
<1>4. PICK cs \in Seq(ResultC) : \E pl \in Seq(PlainA) :
         Each(ResId, cs) = ids /\ Mapped(BlocksOf, m) = Each(RToA, cs) \o pl
  BY <1>3 DEF Written
<1>5. PICK pl \in Seq(PlainA) : Each(ResId, cs) = ids /\ Mapped(BlocksOf, m) = Each(RToA, cs) \o pl
  BY <1>4
<1>6. Merged(InA(X, m)) = MergeNext(Merged(X), Message("user", Each(RToA, cs) \o pl))
  BY <1>1, <1>5, UsersMerge DEF InA
<1> DEFINE r == MergeNext(Merged(X), Message("user", Each(RToA, cs) \o pl))
<1>7. AOrd(r) /\ Last(r).role = "user"
  BY <1>5, UserKept
<1> HIDE DEF r
<1>. QED
  BY <1>6, <1>7 DEF r

(* a note after it keeps the order;                                        *)
LEMMA NotedKept ==
    ASSUME NEW X \in Seq(AnyA), AOrd(Merged(X)), Last(Merged(X)).role = "user", NEW n \in Maybe(Noted)
    PROVE  LET G == Merged(InA(X, n)) IN AOrd(G) /\ Last(G).role # "assistant"
<1> DEFINE G == Merged(X)
<1>1. CASE n = <<>>
  <2>1. n \in Seq(IRMessages)
    BY <1>1
  <2>2. InA(X, n) = X
    BY <1>1, <2>1, InAFacts
  <2>. QED
    BY <2>2
<1>2. CASE n # <<>>
  <2>1. PICK x \in Noted : n = <<x>>
    BY <1>2 DEF Maybe
  <2>2. PICK c \in Seq(TextC) : x = Message("system", c)
    BY DEF Noted
  <2>3. x \in IRMessages /\ x.role = "system" /\ x.content = c
    BY <2>2, ToolFFacts, MessageFacts
  <2> DEFINE pl == BlocksOf[x]
             m == Message("system", pl)
             none == <<>>
  <2>4. AMFromIR[x] = m
    BY <2>3, BlocksOfFacts
  <2>5. pl \in Seq(PlainA)
    BY <2>3, BlocksOfFacts, PlainFromIR
  <2>6. n \in Seq(IRMessages)
    BY <2>1, <2>3, OneThing
  <2>7. Merged(InA(X, n)) = MergeNext(G, m)
    BY <2>1, <2>3, <2>4, <2>6, InAFacts
  <2>8. none \in Seq(ResultC) /\ Each(RToA, none) = none /\ Each(ResId, none) = none
    BY RToAFacts, ToolFFacts, EachFacts
  <2>9. none \o pl = pl
    BY <2>5, ConcatEmptySeq
  <2> HIDE DEF pl, none
  <2>10. m \in ProperMs /\ m.role = "system" /\ Outputs(m) = none
    <3> DEFINE mm == Message("system", Each(RToA, none) \o pl)
    <3>1. mm \in ProperMs /\ mm.role = "system" /\ Outputs(mm) = Each(ResId, none)
      BY <2>5, <2>8, PlainProper
    <3>2. mm = m
      BY <2>8, <2>9
    <3> HIDE DEF mm
    <3>. QED
      BY <2>8, <3>1, <3>2
  <2> HIDE DEF m
  <2>11. MergeNext(G, m) = Append(G, m)
    BY <2>10 DEF MergeNext
  <2>12. Next2(Last(G), m)
    <3>1. Last(G) \in ProperMs
      BY OrdLast
    <3>2. Uses(Last(G)) = <<>>
      BY <3>1, ProperFacts
    <3>. QED
      BY <2>10, <3>2 DEF Next2, none
  <2>13. AOrd(Append(G, m)) /\ Last(Append(G, m)) = m
    BY <2>10, <2>12, AppendKept
  <2> HIDE DEF G
  <2>. QED
    BY <2>7, <2>10, <2>11, <2>13
<1>. QED
  BY <1>1, <1>2

(* so a whole round does.                                                  *)
LEMMA AnthropicRound ==
    ASSUME NEW X \in Seq(AnyA), AOrd(Merged(X)), Last(Merged(X)).role # "assistant",
           NEW q, NEW ids, NEW a \in Seq(IRMessages), Opened(q, ids, a),
           NEW b \in Seq(IRMessages), Replied(ids, b)
    PROVE  LET G == Merged(InA(X, a \o b)) IN AOrd(G) /\ Last(G).role # "assistant"
<1>1. PICK m \in Seq(IRMessages) : \E n \in Maybe(Noted) :
         (AskedInOne(ids, m) \/ AskedApart(ids, m)) /\ b = m \o n
  BY DEF Replied
<1>2. PICK n \in Maybe(Noted) : (AskedInOne(ids, m) \/ AskedApart(ids, m)) /\ b = m \o n
  BY <1>1
<1>3. n \in Seq(IRMessages)
  BY ToolFFacts, MaybeFacts
<1> DEFINE Y == InA(X, a)
           Z == InA(Y, m)
<1>4. Y \in Seq(AnyA) /\ AOrd(Merged(Y)) /\ Uses(Last(Merged(Y))) = ids
  <2>1. Y \in Seq(AnyA)
    BY InAFacts
  <2> DEFINE V == Merged(InA(X, a))
  <2>2. AOrd(V) /\ Uses(Last(V)) = ids
    BY OpenedKept
  <2> HIDE DEF V
  <2>. QED
    BY <2>1, <2>2 DEF V
<1> HIDE DEF Y
<1>5. Z \in Seq(AnyA) /\ AOrd(Merged(Z)) /\ Last(Merged(Z)).role = "user"
  BY <1>2, <1>4, AskedKept, InAFacts
<1>6. InA(Y, m \o n) = InA(Z, n)
  BY <1>3, <1>4, InAFacts
<1> HIDE DEF Z
<1> DEFINE V == Merged(InA(Z, n))
<1>7. AOrd(V) /\ Last(V).role # "assistant"
  BY <1>5, NotedKept
<1> HIDE DEF V
<1>8. InA(X, a \o b) = InA(Y, b)
  BY InAFacts DEF Y
<1>. QED
  BY <1>2, <1>6, <1>7, <1>8 DEF V

-----------------------------------------------------------------------------
(***************************************************************************)
(* The order is kept, step by step.                                        *)
(***************************************************************************)

(* What the messages M become in Anthropic Messages.                       *)
AOf(M) == Merged(Each(AMFromIR, SplitSystem(M).rest))

(* The messages M, after turn t of a client of q, are in order in          *)
(* whichever protocol they are written.                                    *)
Ordered(t, q, M) ==
    /\ ChatOrder(Mapped(UMFromIR, M))
    /\ q # "openai_responses" => ItemOrder(0, 10 * t + 10, Mapped(RMFromIR, M))
    /\ AOrd(AOf(M)) /\ Last(AOf(M)).role # "assistant"

(* The ids of the next turn.                                               *)
LEMMA FreshLater ==
    ASSUME NEW t \in Nat, NEW ids \in IdsAt(t + 1)
    PROVE  Fresh(10 * t + 10, 10 * (t + 1) + 10, ids)
<1> DEFINE n == t + 1
<1>1. n \in Nat
  OBVIOUS
<1>2. 10 * n = 10 * t + 10
  OBVIOUS
<1>3. ids \in IdsAt(n)
  OBVIOUS
<1> HIDE DEF n
<1>4. Fresh(10 * n, 10 * n + 9, ids)
  BY <1>1, <1>3, IdsFresh
<1>5. /\ ids \in Seq(Nat)
      /\ \A i \in DOMAIN ids : 10 * n < ids[i] /\ ids[i] <= 10 * n + 9
      /\ \A i, j \in DOMAIN ids : ids[i] = ids[j] => i = j
  BY <1>4 DEF Fresh
<1>6. ASSUME NEW i \in DOMAIN ids PROVE ids[i] <= 10 * n + 10
  <2>1. ids[i] \in Nat
    BY <1>5, ElementOfSeq, LenProperties
  <2>. QED
    BY <1>1, <1>5, <2>1
<1>7. Fresh(10 * n, 10 * n + 10, ids)
  BY <1>5, <1>6 DEF Fresh
<1>. QED
  BY <1>2, <1>7 DEF n

(* A round keeps the order in all three protocols.                         *)
LEMMA RoundKept ==
    ASSUME NEW t \in Nat, NEW q, NEW M \in Seq(IRMessages), Talks(M), Ordered(t, q, M),
           NEW ids \in IdsAt(t + 1), NEW a \in Seq(IRMessages), Opened(q, ids, a),
           NEW b \in Seq(IRMessages), Replied(ids, b)
    PROVE  Ordered(t + 1, q, M \o (a \o b))
<1> DEFINE c == a \o b
           N == M \o c
<1>1. c \in Seq(IRMessages)
  BY ConcatProperties
<1>2. ChatOrder(Mapped(UMFromIR, N))
  <2>1. ChatOrder(Mapped(UMFromIR, c))
    BY ChatRound
  <2> HIDE DEF c
  <2>2. IsMap(UMFromIR, IRMessages, ChatMs)
    BY UMFromIRFacts
  <2>3. Mapped(UMFromIR, N) = Mapped(UMFromIR, M) \o Mapped(UMFromIR, c)
    BY <1>1, <2>2, MappedConcat
  <2>4. Mapped(UMFromIR, M) \in Seq(ChatMs) /\ Mapped(UMFromIR, c) \in Seq(ChatMs)
    BY <1>1, <2>2, MappedFacts
  <2>5. ChatOrder(Mapped(UMFromIR, M))
    BY DEF Ordered
  <2>. QED
    BY <2>1, <2>3, <2>4, <2>5, ChatOrderConcat
<1>3. ASSUME q # "openai_responses" PROVE ItemOrder(0, 10 * (t + 1) + 10, Mapped(RMFromIR, N))
  <2> DEFINE lo == 10 * t + 10
             hi == 10 * (t + 1) + 10
             zero == 0
  <2>1. lo \in Nat /\ hi \in Nat /\ lo <= hi /\ zero \in Nat /\ zero <= lo
    OBVIOUS
  <2>2. Fresh(lo, hi, ids)
    BY FreshLater
  <2>3. ItemOrder(zero, lo, Mapped(RMFromIR, M))
    BY <1>3 DEF Ordered
  <2> HIDE DEF lo, hi, zero
  <2>4. ItemOrder(lo, hi, Mapped(RMFromIR, c))
    BY <1>3, <2>1, <2>2, ItemRound
  <2> HIDE DEF c
  <2>5. IsMap(RMFromIR, IRMessages, RItems)
    BY RMFromIRFacts
  <2>6. Mapped(RMFromIR, N) = Mapped(RMFromIR, M) \o Mapped(RMFromIR, c)
    BY <1>1, <2>5, MappedConcat
  <2>7. Mapped(RMFromIR, M) \in Seq(RItems) /\ Mapped(RMFromIR, c) \in Seq(RItems)
    BY <1>1, <2>5, MappedFacts
  <2>8. ItemOrder(zero, hi, Mapped(RMFromIR, M) \o Mapped(RMFromIR, c))
    BY <2>1, <2>3, <2>4, <2>7, ItemOrderConcat
  <2>. QED
    BY <2>6, <2>8 DEF zero, hi
<1>4. AOrd(AOf(N)) /\ Last(AOf(N)).role # "assistant"
  <2> DEFINE R == SplitSystem(M).rest
             X == Each(AMFromIR, R)
  <2>1. R \in Seq(IRMessages) /\ SplitSystem(N).rest = R \o c
    <3> HIDE DEF c
    <3>1. \E i \in DOMAIN M : M[i].role # "system"
      BY DEF Talks
    <3>. QED
      <4>1. /\ SplitSystem(M).rest \in Seq(IRMessages)
            /\ SplitSystem(M \o c).rest = SplitSystem(M).rest \o c
        BY ONLY M \in Seq(IRMessages), <1>1, <3>1, SplitGrows
      <4>. QED
        BY <4>1
  <2>2. AOf(M) = Merged(X)
    BY DEF AOf
  <2> HIDE DEF R
  <2>3. R \in Seq(AnyIR) /\ c \in Seq(AnyIR)
    BY <1>1, <2>1, TypesFacts
  <2>4. X \in Seq(AnyA)
    BY <2>3, AMFromIRFacts
  <2>5. Each(AMFromIR, R \o c) = X \o Each(AMFromIR, c)
    <3> HIDE DEF c
    <3>. QED
      BY <2>3, AMFromIRFacts, EachConcat
  <2>6. AOrd(Merged(X)) /\ Last(Merged(X)).role # "assistant"
    BY <2>2 DEF Ordered
  <2> HIDE DEF X
  <2> DEFINE G == Merged(InA(X, c))
  <2>7. AOrd(G) /\ Last(G).role # "assistant"
    BY <2>4, <2>6, AnthropicRound
  <2> HIDE DEF c
  <2>8. G = AOf(N)
    BY <2>1, <2>5 DEF AOf, InA
  <2>. QED
    BY <2>7, <2>8
<1> HIDE DEF N
<1>5. Ordered(t + 1, q, N)
  BY <1>2, <1>3, <1>4 DEF Ordered
<1>. QED
  BY <1>5 DEF N, c

(* Notes and user messages are plain content,                              *)
LEMMA PlainMapped ==
    ASSUME NEW A, NEW P, NEW f, NEW rf, CanReply(f, rf, P, A)
    PROVE  \A s \in Seq(Noted \cup UserSaid) : Mapped(f, s) \in Seq(P)
<1>0. RepliesTo(f, rf, P) /\ IsFcn(rf, ResultC, A)
  BY DEF CanReply
<1>1. \A x \in Noted : f[x] \in Seq(P)
  BY <1>0 DEF RepliesTo
<1>2. ASSUME NEW x \in UserSaid PROVE f[x] \in Seq(P)
  <2> DEFINE none == <<>>
  <2>1. PICK c \in Seq(TextC \cup ImageC) : x = Message("user", c)
    BY DEF UserSaid
  <2>2. none \in Seq(ResultC) /\ Each(rf, none) = none
    BY <1>0, EachFacts
  <2>3. none \o c = c /\ \A pl \in Seq(P) : none \o pl = pl
    BY ConcatEmptySeq
  <2> HIDE DEF none
  <2>4. PICK pl \in Seq(P) : f[Message("user", none \o c)] = Each(rf, none) \o pl
    BY <1>0, <2>2 DEF RepliesTo
  <2>. QED
    BY <2>1, <2>2, <2>3, <2>4
<1>3. IsMap(f, Noted \cup UserSaid, P)
  BY <1>1, <1>2 DEF IsMap
<1>. QED
  BY <1>3, MappedFacts

(* so a first request is in order.                                         *)
LEMMA FirstOrdered ==
    ASSUME NEW q, NEW x \in Seq(Noted), NEW u \in UserSaid
    PROVE  Ordered(0, q, x \o <<u>>)
<1> DEFINE o == <<u>>
           M == x \o o
           S == Noted \cup UserSaid
<1>1. o \in Seq(S) /\ x \in Seq(S) /\ o # <<>> /\ o[1] = u
  BY OneThing, SeqOfMore
<1>2. Noted \subseteq IRMessages /\ UserSaid \subseteq IRMessages /\ u.role = "user" /\ u \in AskMs
  <2>1. PICK c \in Seq(TextC \cup ImageC) : u = Message("user", c)
    BY DEF UserSaid
  <2>2. u.role = "user"
    BY <2>1, MessageFacts
  <2>. QED
    BY <2>2, ToolFFacts DEF AskMs
<1>3. o \in Seq(IRMessages) /\ x \in Seq(IRMessages) /\ o \in Seq(AskMs)
  BY <1>2, OneThing, SeqOfMore
<1> HIDE DEF o, S
<1>4. M \in Seq(S)
  BY <1>1, ConcatProperties
<1>5. ChatOrder(Mapped(UMFromIR, M))
  <2>1. Mapped(UMFromIR, M) \in Seq(PlainU)
    <3>. HIDE DEF M
    <3>. QED
      BY <1>4, ChatReplies, PlainMapped DEF S
  <2>. QED
    BY <2>1, PlainChat
<1>6. ItemOrder(0, 10 * 0 + 10, Mapped(RMFromIR, M))
  <2>1. Mapped(RMFromIR, M) \in Seq(PlainR)
    <3>. HIDE DEF M
    <3>. QED
      BY <1>4, ItemReplies, PlainMapped DEF S
  <2>. QED
    BY <2>1, PlainItems
<1>7. SplitSystem(M).rest = o
  <2>1. M \in Seq(IRMessages)
    BY <1>3, ConcatProperties
  <2>2. AllSystem(x)
    <3> SUFFICES ASSUME NEW i \in DOMAIN x PROVE x[i].role = "system"
      BY DEF AllSystem
    <3>1. x[i] \in Noted
      BY ElementOfSeq, LenProperties
    <3>2. PICK c \in Seq(TextC) : x[i] = Message("system", c)
      BY <3>1 DEF Noted
    <3>. QED
      BY <3>2, MessageFacts
  <2>3. o[1].role # "system"
    BY <1>1, <1>2
  <2>4. LET split == SplitSystem(M)
        IN  /\ split.system \in Seq(IRMessages) /\ split.rest \in Seq(IRMessages)
            /\ split.system \o split.rest = M
            /\ AllSystem(split.system)
            /\ split.rest # <<>> => split.rest[1].role # "system"
    BY <2>1, SplitFacts
  <2> DEFINE a == SplitSystem(M).system
             b == SplitSystem(M).rest
  <2>5. /\ a \in Seq(IRMessages) /\ b \in Seq(IRMessages) /\ a \o b = x \o o /\ AllSystem(a)
        /\ b # <<>> => b[1].role # "system"
    BY <2>4
  <2> HIDE DEF a, b, M
  <2>6. a = x /\ b = o
    BY <1>3, <2>2, <2>3, <2>5, SplitUnique
  <2>. QED
    BY <2>6 DEF b
<1>8. AOrd(AOf(M)) /\ Last(AOf(M)).role = "user"
  <2> DEFINE none == <<>>
             pl == Mapped(BlocksOf, o)
             m == Message("user", pl)
  <2>1. none \in Seq(AnyA) /\ Merged(none) = none
    BY MergedFacts
  <2>2. \A s : none \o s = s
    BY ConcatEmptySeq
  <2>3. pl \in Seq(PlainA)
    <3>1. \A s \in Seq(S) : Mapped(BlocksOf, s) \in Seq(PlainA)
      BY AReplies, PlainMapped DEF S
    <3>. QED
      BY <1>1, <3>1
  <2>4. none \in Seq(ResultC) /\ Each(RToA, none) = none /\ Each(ResId, none) = none
    BY RToAFacts, ToolFFacts, EachFacts
  <2> HIDE DEF pl
  <2>5. /\ m \in ProperMs /\ m.role = "user" /\ Outputs(m) = none
    <3> DEFINE mm == Message("user", Each(RToA, none) \o pl)
    <3> HIDE DEF none
    <3>1. mm \in ProperMs /\ mm.role = "user" /\ Outputs(mm) = Each(ResId, none)
      BY <2>3, <2>4, PlainProper
    <3>2. mm = m
      BY <2>2, <2>4
    <3> HIDE DEF mm, m
    <3>. QED
      BY <2>4, <3>1, <3>2
  <2>6. Merged(none \o Each(AMFromIR, o)) = MergeNext(Merged(none), m)
    <3> HIDE DEF none
    <3>. QED
      BY <1>1, <1>3, <2>1, UsersMerge DEF pl
  <2> HIDE DEF m
  <2>7. MergeNext(none, m) = <<m>>
    BY DEF MergeNext
  <2>8. AOf(M) = <<m>>
    <3> HIDE DEF none, M
    <3>. QED
      BY <1>7, <2>1, <2>2, <2>6, <2>7 DEF AOf
  <2> DEFINE s == <<m>>
  <2>9. s \in Seq(ProperMs) /\ Len(s) = 1 /\ s[1] = m /\ s # <<>>
    BY <2>5, Tuples
  <2>10. Last(s) = m
    BY <2>9 DEF Last
  <2> HIDE DEF s
  <2>11. \A i \in 2..Len(s) : Next2(s[i - 1], s[i])
    BY <2>9
  <2>12. AOrd(s)
    BY <2>5, <2>9, <2>11 DEF AOrd
  <2>. QED
    BY <2>5, <2>8, <2>10, <2>12 DEF s
<1> HIDE DEF M
<1>9. Ordered(0, q, M)
  BY <1>5, <1>6, <1>8 DEF Ordered
<1>. QED
  BY <1>9 DEF M, o

(* What the upstream of a protocol asks of a request.                      *)
Accepts(p, w) ==
    CASE p = "anthropic"        -> AnthropicAccepts(w)
      [] p = "openai_chat"      -> ChatAccepts(w)
      [] p = "openai_responses" -> ResponsesAccepts(w)

(* A translated request in order is accepted.                              *)
LEMMA OrderAccepted ==
    ASSUME NEW p \in Protocols, NEW q, p # q, NEW t \in Nat,
           NEW r, r.system \in Seq(TextC), r.messages \in Seq(IRMessages), Ordered(t, q, r.messages)
    PROVE  Accepts(p, RequestFromIR(p, r))
<1> DEFINE M == r.messages
           w == RequestFromIR(p, r)
<1>1. CASE p = "anthropic"
  <2> DEFINE v == AnthropicRequestFromIR(r)
  <2>1. v.messages = AOf(M) /\ v.system \in Seq(TextA)
    BY AFromIRRequest DEF AOf
  <2>2. AOrd(AOf(M)) /\ Last(AOf(M)).role # "assistant"
    BY DEF Ordered
  <2>3. w = v
    BY <1>1 DEF RequestFromIR
  <2> HIDE DEF v, M
  <2>4. AnthropicAccepts(v)
    BY <2>1, <2>2, AOrdAccepted
  <2> HIDE DEF w
  <2>5. Accepts(p, w)
    BY <1>1, <2>3, <2>4 DEF Accepts
  <2>. QED
    BY <2>5 DEF w
<1>2. CASE p = "openai_chat"
  <2> DEFINE v == ChatRequestFromIR(r)
             s == IF r.system = <<>> THEN <<>> ELSE <<ChatMsg("system", AsString(JoinText(r.system)))>>
             h == Mapped(UMFromIR, M)
  <2>1. v.messages = s \o h /\ s \in Seq(ChatMs) /\ h \in Seq(ChatMs) /\ v.messages \in Seq(ChatMs)
    BY UFromIRRequest
  <2>2. s \in Seq(PlainU)
    <3>1. CASE r.system = <<>>
      BY <3>1
    <3>2. CASE r.system # <<>>
      <4> DEFINE m == ChatMsg("system", AsString(JoinText(r.system)))
      <4>1. r.system \in Seq(IRBlocks)
        BY TypesFacts
      <4>2. AsString(JoinText(r.system)) \in Seq(TextA)
        BY <4>1, JoinFacts, StringFacts
      <4>3. m \in ChatMs /\ m.role = "system"
        <5>1. m \in ChatMs
          BY <4>2, OneMessage
        <5>. QED
          BY <5>1 DEF ChatMsg
      <4> HIDE DEF m
      <4>4. m \in PlainU
        BY <4>3 DEF PlainU
      <4>5. <<m>> \in Seq(PlainU)
        BY <4>4, OneThing
      <4>. QED
        BY <3>2, <4>5 DEF m
    <3>. QED
      BY <3>1, <3>2
  <2>3. ChatOrder(h)
    BY DEF Ordered
  <2>4. w = v
    BY <1>2 DEF RequestFromIR
  <2> HIDE DEF v, s, h
  <2>5. ChatOrder(s)
    BY <2>2, PlainChat
  <2>6. ChatOrder(v.messages)
    BY <2>1, <2>3, <2>5, ChatOrderConcat
  <2>7. ChatAccepts(v)
    BY <2>1, <2>6, ChatOrderAccepted
  <2> HIDE DEF w
  <2>8. Accepts(p, w)
    BY <1>2, <2>4, <2>7 DEF Accepts
  <2>. QED
    BY <2>8 DEF w
<1>3. CASE p = "openai_responses"
  <2> DEFINE v == ResponsesRequestFromIR(r)
             zero == 0
             hi == 10 * t + 10
  <2>1. v.input = Mapped(RMFromIR, M) /\ v.input \in Seq(RItems)
    BY RFromIRRequest
  <2>2. ItemOrder(zero, hi, Mapped(RMFromIR, M))
    BY <1>3 DEF Ordered
  <2>3. zero \in Nat /\ hi \in Nat
    OBVIOUS
  <2>4. w = v
    BY <1>3 DEF RequestFromIR
  <2> HIDE DEF v, zero, hi, M
  <2>5. ItemOrder(zero, hi, v.input)
    BY <2>1, <2>2
  <2>6. ResponsesAccepts(v)
    BY <2>1, <2>3, <2>5, ItemOrderAccepted
  <2> HIDE DEF w
  <2>7. Accepts(p, w)
    BY <1>3, <2>4, <2>6 DEF Accepts
  <2>. QED
    BY <2>7 DEF w
<1>. QED
  BY <1>1, <1>2, <1>3 DEF Protocols

(* A first request, in the IR: notes and one user message.                 *)
LEMMA FirstInIR ==
    ASSUME NEW q \in Protocols, NEW s
    PROVE  \E x \in Seq(Noted) : \E u \in UserSaid : RequestToIR(q, FirstRequest(q, s)).messages = x \o <<u>>
<1> DEFINE w == FirstRequest(q, s)
           none == <<>>
           R == RequestToIR(q, w)
<1>1. w \in Reqs(q, s)
  BY FirstFacts
<1>2. \A z : none \o z = z
  BY ConcatEmptySeq
<1>3. none \in Seq(Noted)
  OBVIOUS
<1>4. 3 \in Nat /\ FALSE \in BOOLEAN
  OBVIOUS
<1>5. PICK b \in Bits(q) : UserSays(q, 3, FALSE) = <<b>> /\ Turn(q)[b] \in UserSaid
  BY <1>4, UserTurned
<1> DEFINE u == Turn(q)[b]
<1>6. u \in UserSaid
  BY <1>5
<1>7. CASE q = "anthropic"
  <2>1. w.messages = <<b>>
    <3>1. w.messages = <<Message("user", <<[type |-> "text", text |-> <<3>>]>>)>>
      BY <1>7 DEF FirstRequest
    <3>2. UserSays(q, 3, FALSE) = <<Message("user", none \o <<[type |-> "text", text |-> <<3>>]>>)>>
      BY <1>7 DEF UserSays
    <3> HIDE DEF none, w
    <3>. QED
      BY <1>2, <1>5, <3>1, <3>2
  <2>2. w.messages \in Seq(AMessages) /\ w.system \in Seq(TextA)
    BY <1>1, <1>7, RequestTyped
  <2>3. R.messages = Each(AMToIR, w.messages)
    <3>1. w.messages \in Seq(AnyA)
      BY <2>2, TypesFacts
    <3>2. AnthropicRequestToIR(w).messages = Each(AMToIR, w.messages)
      <4> HIDE DEF w
      <4>. QED
        BY <2>2, <3>1, AToIRRequest
    <3>3. R = AnthropicRequestToIR(w)
      BY <1>7 DEF RequestToIR
    <3> HIDE DEF w
    <3>. QED
      BY <3>2, <3>3
  <2>4. b \in AMessages /\ u = AMToIR[b]
    BY <1>7 DEF Bits, Turn
  <2>5. Each(AMToIR, <<b>>) = <<AMToIR[b]>>
    <3>1. IsFcn(AMToIR, AMessages, IRMessages)
      BY AMToIRFacts
    <3>. QED
      BY <2>4, <3>1, EachOne
  <2> HIDE DEF w, R, u, none
  <2>6. R.messages = none \o <<u>>
    BY <1>2, <2>1, <2>3, <2>4, <2>5
  <2>. QED
    BY <1>3, <1>6, <2>6 DEF R, w
<1>8. CASE q = "openai_chat"
  <2> DEFINE c1 == ChatMsg("system", AsString(<<1>>))
             c2 == ChatMsg("developer", AsString(<<2>>))
             F == UMToIR
             h == <<F[c1], F[c2]>>
             o == <<u>>
  <2>1. w.messages = <<c1, c2, b>>
    <3>1. w.messages = <<c1, c2, ChatMsg("user", AsString(<<3>>))>>
      BY <1>8 DEF FirstRequest
    <3>2. UserSays(q, 3, FALSE) = <<ChatMsg("user", none \o AsString(<<3>>))>>
      BY <1>8 DEF UserSays
    <3>3. <<ChatMsg("user", AsString(<<3>>))>> = <<b>>
      <4> HIDE DEF none
      <4>. QED
        BY <1>2, <1>5, <3>2
    <3> HIDE DEF none, w, c1, c2
    <3>. QED
      BY <3>1, <3>3
  <2>2. c1 \in ChatMs /\ c2 \in ChatMs /\ b \in ChatMs
    <3>1. AsString(<<1>>) \in Seq(TextA) /\ AsString(<<2>>) \in Seq(TextA)
      BY TextBlocks
    <3>. QED
      BY <1>8, <3>1, OneMessage DEF Bits
  <2>3. F[c1].role = "system" /\ F[c2].role = "system" /\ u = F[b] /\ u.role = "user"
    <3>1. c1.role = "system" /\ c2.role = "developer"
      BY DEF ChatMsg
    <3>2. PICK d \in Seq(TextC \cup ImageC) : u = Message("user", d)
      BY <1>6 DEF UserSaid
    <3>3. u.role = "user"
      BY <3>2, MessageFacts
    <3>4. u = F[b]
      BY <1>8 DEF Turn
    <3> HIDE DEF c1, c2, u
    <3>. QED
      BY <2>2, <3>1, <3>3, <3>4, UMToIRFacts
  <2>4. F[c1] \in IRMessages /\ F[c2] \in IRMessages /\ u \in IRMessages /\ IsFcn(F, ChatMs, IRMessages)
    <3>1. IsFcn(F, ChatMs, IRMessages)
      BY UMToIRFacts
    <3> HIDE DEF F, c1, c2, u
    <3>. QED
      BY <2>2, <2>3, <3>1 DEF IsFcn
  <2>5. w.messages \in Seq(ChatMs)
    BY <1>1, <1>8, RequestTyped
  <2>6. R.messages = SplitSystem(Each(F, w.messages)).rest
    <3>1. R = ChatRequestToIR(w)
      BY <1>8 DEF RequestToIR
    <3> HIDE DEF w
    <3>2. ChatRequestToIR(w).messages = SplitSystem(Each(UMToIR, w.messages)).rest
      BY <2>5, UToIRRequest
    <3>. QED
      BY <3>1, <3>2
  <2> HIDE DEF w, R, u, c1, c2, F
  <2>7. Each(F, w.messages) = h \o o
    <3>1. DOMAIN <<c1, c2, b>> = 1..3
      OBVIOUS
    <3>2. Each(F, <<c1, c2, b>>) = <<F[c1], F[c2], F[b]>>
      BY <3>1 DEF Each
    <3>3. h \o o = <<F[c1], F[c2], u>>
      <4>1. h \in Seq(IRMessages)
        BY <2>4, Tuples
      <4>2. Append(h, u) = <<F[c1], F[c2], u>>
        BY <2>4, Append3
      <4> HIDE DEF h
      <4>3. Append(h, u) = h \o <<u>>
        BY <2>4, <4>1, AppendConcat
      <4>. QED
        BY <4>2, <4>3
    <3>. QED
      BY <2>1, <2>3, <3>2, <3>3
  <2>8. /\ h \in Seq(IRMessages) /\ o \in Seq(IRMessages) /\ o # <<>> /\ o[1] = u
        /\ AllSystem(h)
    <3>1. h \in Seq(IRMessages)
      BY <2>4, Tuples
    <3>2. o \in Seq(IRMessages) /\ o # <<>> /\ o[1] = u
      BY <2>4, OneThing
    <3>3. \A i \in DOMAIN h : h[i].role = "system"
      <4>1. DOMAIN h = 1..2 /\ h[1] = F[c1] /\ h[2] = F[c2]
        OBVIOUS
      <4>. QED
        BY <2>3, <4>1
    <3>. QED
      BY <3>1, <3>2, <3>3 DEF AllSystem
  <2> HIDE DEF h, o
  <2> DEFINE M == h \o o
  <2>9. M \in Seq(IRMessages)
    BY <2>8, ConcatProperties
  <2>10. LET split == SplitSystem(M)
        IN  /\ split.system \in Seq(IRMessages) /\ split.rest \in Seq(IRMessages)
            /\ split.system \o split.rest = M
            /\ AllSystem(split.system)
            /\ split.rest # <<>> => split.rest[1].role # "system"
    BY <2>9, SplitFacts
  <2> DEFINE a == SplitSystem(M).system
             d == SplitSystem(M).rest
  <2>11. /\ a \in Seq(IRMessages) /\ d \in Seq(IRMessages) /\ a \o d = h \o o /\ AllSystem(a)
         /\ d # <<>> => d[1].role # "system"
    BY <2>10
  <2> HIDE DEF a, d, M
  <2>12. o # <<>> => o[1].role # "system"
    BY <2>3, <2>8
  <2>13. d = o
    BY <2>8, <2>11, <2>12, SplitUnique
  <2>14. R.messages = o
    BY <2>6, <2>7, <2>13 DEF d, M
  <2>15. R.messages = none \o <<u>>
    BY <1>2, <2>14 DEF o
  <2>. QED
    BY <1>3, <1>6, <2>15 DEF R, w, u
<1>9. CASE q = "openai_responses"
  <2> DEFINE i1 == MessageItem("developer", <<[type |-> "input_text", text |-> <<2>>]>>)
             k == <<i1>>
             o == <<b>>
  <2>1. w.input = <<i1, b>>
    <3>1. w.input = <<i1, MessageItem("user", <<[type |-> "input_text", text |-> <<3>>]>>)>>
      BY <1>9 DEF FirstRequest
    <3>2. UserSays(q, 3, FALSE) = <<MessageItem("user", none \o <<[type |-> "input_text", text |-> <<3>>]>>)>>
      BY <1>9 DEF UserSays
    <3>3. <<MessageItem("user", <<[type |-> "input_text", text |-> <<3>>]>>)>> = <<b>>
      <4> HIDE DEF none
      <4>. QED
        BY <1>2, <1>5, <3>2
    <3> HIDE DEF none, w, i1
    <3>. QED
      BY <3>1, <3>3
  <2>2. i1 \in DevR
    BY TextBlocks, MessageItemFacts
  <2>3. b \in Asks /\ u = StartF[b] /\ i1 \in Asks /\ StartF[i1] \in Noted
    <3>1. b \in Asks /\ u = StartF[b]
      BY <1>9 DEF Bits, Turn
    <3>2. i1 \in Asks
      BY <2>2 DEF Asks
    <3> HIDE DEF i1
    <3>. QED
      BY <2>2, <3>1, <3>2, AskStarts
  <2>4. w.input \in Seq(RItems) /\ w.instructions \in Texts
    BY <1>1, <1>9, RequestTyped
  <2>5. R.messages = Gathered(w.input)
    <3>1. R = ResponsesRequestToIR(w)
      BY <1>9 DEF RequestToIR
    <3> HIDE DEF w
    <3>. QED
      BY <2>4, <3>1, RToIRRequest
  <2> HIDE DEF w, R, u, i1
  <2> DEFINE m == <<i1, b>>
             n == <<StartF[i1]>>
  <2>6. m \in Seq(Asks) /\ Each(StartF, m) = n \o <<u>>
    <3>1. m \in Seq(Asks)
      BY <2>3, Tuples
    <3>2. DOMAIN m = 1..2 /\ m[1] = i1 /\ m[2] = b
      OBVIOUS
    <3>3. Each(StartF, m) = <<StartF[i1], StartF[b]>>
      BY <3>2 DEF Each
    <3>4. n \o <<u>> = <<StartF[i1], u>>
      <4>1. StartF[i1] \in Noted \cup UserSaid /\ u \in Noted \cup UserSaid
        BY <1>6, <2>3
      <4>. QED
        BY <4>1, Pairs
    <3>. QED
      BY <2>3, <3>1, <3>3, <3>4
  <2>7. Gathered(none \o m) = Gathered(none) \o Each(StartF, m)
    <3>1. none \in Seq(RItems)
      OBVIOUS
    <3> HIDE DEF none, m
    <3>. QED
      BY <2>6, <3>1, GatheredAsks
  <2>8. Gathered(none) = none
    <3>1. none \in Seq(IRMessages)
      OBVIOUS
    <3>. QED
      BY GatheredFacts
  <2>9. n \in Seq(Noted)
    BY <2>3, OneThing
  <2> HIDE DEF none, m, n
  <2>10. R.messages = n \o <<u>>
    BY <1>2, <2>1, <2>5, <2>6, <2>7, <2>8 DEF m
  <2>. QED
    BY <1>6, <2>9, <2>10 DEF R, w
<1>. QED
  BY <1>7, <1>8, <1>9 DEF Protocols

(* The history is one that was in order and then an answer that calls ids. *)
OpenTurn(q, w, t, ids) ==
    \E h, k \in Past(q) :
       /\ Settled(q, h) /\ History(q, w) = h \o k
       /\ Ordered(t - 1, q, RequestToIR(q, WithHistory(q, w, h)).messages)
       /\ Opened(q, ids, Turned(q, k))

(* The request under way is in order; an answered one is in order but for  *)
(* the turn that is open.                                                  *)
InOrder ==
    /\ phase \in {"composed", "waiting"} => Ordered(turn, client, RequestToIR(client, request).messages)
    /\ phase = "answered" => pending \in IdsAt(turn) /\ OpenTurn(client, request, turn, pending)

(* A request that continues by previous_response_id has only a part of the *)
(* history, and is never translated.                                       *)
OrderInv == ~(stateful /\ turn > 0) => InOrder

(* Keeping an answer opens a turn;                                         *)
LEMMA AnswerOpens ==
    ASSUME NEW q \in Protocols, NEW s, NEW w \in Reqs(q, s), NEW t \in Nat, Settled(q, History(q, w)),
           Ordered(t, q, RequestToIR(q, w).messages),
           NEW k \in Past(q), NEW ids, Opened(q, ids, Turned(q, k))
    PROVE  OpenTurn(q, WithHistory(q, w, History(q, w) \o k), t + 1, ids)
<1> DEFINE h == History(q, w)
           past == h \o k
           v == WithHistory(q, w, past)
<1>1. h \in Past(q)
  BY RequestTyped
<1>2. past \in Past(q)
  BY <1>1, PastFacts
<1> HIDE DEF past
<1>3. History(q, v) = past
  BY <1>2, HistoryReplaced
<1>4. WithHistory(q, v, h) = w
  <2>1. WithHistory(q, w, h) = w
    BY <1>1, HistoryReset
  <2>2. WithHistory(q, v, h) = WithHistory(q, w, h)
    BY <1>1, <1>2, HistoryReset
  <2>. QED
    BY <2>1, <2>2
<1>5. (t + 1) - 1 = t
  OBVIOUS
<1> HIDE DEF h, v
<1>6. Ordered((t + 1) - 1, q, RequestToIR(q, WithHistory(q, v, h)).messages)
  BY <1>4, <1>5
<1>7. OpenTurn(q, v, t + 1, ids)
  BY <1>1, <1>3, <1>6 DEF OpenTurn, past, h
<1>. QED
  BY <1>7 DEF v, past, h

(* the client's reply closes it.                                           *)
LEMMA ReplyCloses ==
    ASSUME NEW q \in Protocols, NEW s, NEW w \in Reqs(q, s), NEW t \in Nat, t > 0,
           NEW ids \in IdsAt(t), OpenTurn(q, w, t, ids),
           NEW more \in Seq(Bits(q)), Replied(ids, Each(Turn(q), more))
    PROVE  Ordered(t, q, RequestToIR(q, WithHistory(q, w, History(q, w) \o more)).messages)
<1>1. PICK h, k \in Past(q) :
         /\ Settled(q, h) /\ History(q, w) = h \o k
         /\ Ordered(t - 1, q, RequestToIR(q, WithHistory(q, w, h)).messages)
         /\ Opened(q, ids, Turned(q, k))
  BY DEF OpenTurn
<1> DEFINE past == History(q, w) \o more
           v == WithHistory(q, w, past)
           g == k \o more
           b == Each(Turn(q), more)
           a == Turned(q, k)
           old == RequestToIR(q, WithHistory(q, w, h)).messages
           new == RequestToIR(q, v).messages
<1>2. more \in Past(q) /\ b \in Seq(IRMessages) /\ Turned(q, g) = a \o b
  <2>1. Seq(Bits(q)) \subseteq Past(q) /\ IsFcn(Turn(q), Bits(q), IRMessages)
    BY TurnFacts
  <2>2. Turned(q, k \o more) = Turned(q, k) \o Each(Turn(q), more)
    BY TurnFacts
  <2>3. Each(Turn(q), more) \in Seq(IRMessages)
    BY <2>1, EachFacts
  <2>. QED
    BY <2>1, <2>2, <2>3
<1>3. past \in Past(q) /\ g \in Past(q) /\ past = h \o g
  <2>1. History(q, w) \in Past(q)
    BY RequestTyped
  <2>2. past \in Past(q) /\ g \in Past(q)
    BY <1>2, <2>1, PastFacts
  <2>3. past = h \o g
    BY <1>1, <1>2, PastAssociates
  <2>. QED
    BY <2>2, <2>3
<1>4. a \in Seq(IRMessages)
  BY TurnedFacts
<1> HIDE DEF past, g, a, b
<1>5. v \in Reqs(q, s) /\ History(q, v) = past
  BY <1>3, HistoryReplaced
<1>6. WithHistory(q, v, h) = WithHistory(q, w, h)
  BY <1>3, HistoryReset
<1> HIDE DEF v
<1>7. /\ old \in Seq(IRMessages) /\ Talks(old)
      /\ new = old \o Turned(q, g)
  <2>1. History(q, v) = h \o g
    BY <1>3, <1>5
  <2> DEFINE o == RequestToIR(q, WithHistory(q, v, h))
             n == RequestToIR(q, v)
  <2>2. /\ o.messages \in Seq(IRMessages) /\ Talks(o.messages)
        /\ n.messages = o.messages \o Turned(q, g)
    BY <1>1, <1>3, <1>5, <2>1, GrowsInIR
  <2>. QED
    BY <1>6, <2>2
<1> HIDE DEF old, new
<1> DEFINE n == t - 1
<1>8. n \in Nat /\ n + 1 = t
  OBVIOUS
<1>9. Ordered(n, q, old) /\ Opened(q, ids, a) /\ Replied(ids, b)
  BY <1>1 DEF old, a, b
<1>10. ids \in IdsAt(n + 1)
  BY <1>8
<1> HIDE DEF n
<1>11. Ordered(n + 1, q, old \o (a \o b))
  BY <1>2, <1>4, <1>7, <1>8, <1>9, <1>10, RoundKept
<1>12. Ordered(t, q, new)
  BY <1>2, <1>7, <1>8, <1>11
<1>. QED
  BY <1>12 DEF new, v, past

(* OrderInv holds at the start,                                            *)
LEMMA InitOrder == Init => OrderInv
<1> SUFFICES ASSUME Init PROVE InOrder
  BY DEF OrderInv
<1>1. PICK s \in Settings(client) : request = FirstRequest(client, s)
  BY DEF Init
<1>2. client \in Protocols /\ turn = 0 /\ phase = "composed"
  BY DEF Init
<1>3. PICK x \in Seq(Noted) : \E u \in UserSaid : RequestToIR(client, FirstRequest(client, s)).messages = x \o <<u>>
  BY <1>2, FirstInIR
<1>4. PICK u \in UserSaid : RequestToIR(client, FirstRequest(client, s)).messages = x \o <<u>>
  BY <1>3
<1>5. Ordered(0, client, x \o <<u>>)
  BY FirstOrdered
<1>6. Ordered(turn, client, RequestToIR(client, request).messages)
  BY <1>1, <1>2, <1>4, <1>5
<1>. QED
  BY <1>2, <1>6 DEF InOrder

(* after an answer,                                                        *)
LEMMA AnswerOrder ==
    ASSUME ConvInv, GrowInv, OrderInv, Answer
    PROVE  OrderInv'
<1>1. PICK w \in Answers(upstream, turn + 1) :
         LET seen == IF Translated THEN TranslateResponse(client, upstream, w) ELSE w
         IN  /\ request' = WithHistory(client, request,
                              IF stateful THEN <<>>
                              ELSE History(client, request) \o Remembered(client, seen))
             /\ pending' = CallsIn(client, seen)
             /\ told' = EndIn(client, seen)
             /\ original' = [calls |-> CallsIn(upstream, w), stop |-> EndIn(upstream, w)]
             /\ said' = said \o InAnswer(upstream, w)
  BY DEF Answer
<1> DEFINE seen == IF upstream # client THEN TranslateResponse(client, upstream, w) ELSE w
           more == Remembered(client, seen)
<1>2. /\ phase = "waiting" /\ phase' = "answered" /\ turn' = turn + 1
      /\ client' = client /\ stateful' = stateful
  BY DEF Answer
<1>3. client \in Protocols /\ upstream \in Protocols /\ turn \in Nat /\ turn + 1 \in Nat /\ turn + 1 > 0
  <2>1. turn \in Nat
    BY DEF ConvInv, Typed
  <2>2. turn + 1 \in Nat /\ turn + 1 > 0
    BY <2>1
  <2>. QED
    BY <2>1, <2>2 DEF ConvInv, Typed
<1>4. CASE stateful
  BY <1>2, <1>3, <1>4 DEF OrderInv
<1>5. CASE ~stateful
  <2>1. request' = WithHistory(client, request, History(client, request) \o more) /\ pending' = CallsIn(client, seen)
    BY <1>1, <1>5 DEF Translated
  <2>2. IsAnswer(client, seen) /\ CallsIn(client, seen) = CallsIn(upstream, w)
    BY <1>3, AnswerCalls
  <2>3. CallsIn(upstream, w) \in IdsAt(turn + 1)
    BY <1>3, IdsAnswered
  <2> HIDE DEF seen
  <2>4. more \in Past(client)
    BY <1>3, <2>2, RememberedFacts
  <2>5. Opened(client, CallsIn(client, seen), Turned(client, more))
    BY <1>3, <2>2, AnswerTurned
  <2> HIDE DEF more
  <2>6. PICK s \in Settings(client) : request \in Reqs(client, s)
    BY DEF ConvInv, Sound
  <2>7. Settled(client, History(client, request))
    <3>1. Grows
      BY <1>5 DEF GrowInv
    <3>. QED
      BY <1>2, <3>1 DEF Grows
  <2>8. Ordered(turn, client, RequestToIR(client, request).messages)
    <3>1. InOrder
      BY <1>5 DEF OrderInv
    <3>. QED
      BY <1>2, <3>1 DEF InOrder
  <2>9. OpenTurn(client, WithHistory(client, request, History(client, request) \o more), turn + 1, CallsIn(client, seen))
    BY <1>3, <2>4, <2>5, <2>6, <2>7, <2>8, AnswerOpens
  <2>10. OpenTurn(client', request', turn', pending') /\ pending' \in IdsAt(turn')
    BY <1>2, <2>1, <2>2, <2>3, <2>9
  <2>11. InOrder'
    BY <1>2, <2>10 DEF InOrder
  <2>. QED
    BY <2>11 DEF OrderInv
<1>. QED
  BY <1>4, <1>5

(* after a reply,                                                          *)
LEMMA ReplyOrder ==
    ASSUME ConvInv, OrderInv, Reply
    PROVE  OrderInv'
<1>1. PICK user, note, picture \in BOOLEAN, bad \in {{}, {10 * turn + 1}} :
      /\ pending = <<>> => user /\ bad = {}
      /\ picture => user /\ ~note
      /\ LET results == IF pending = <<>> THEN <<>> ELSE Results(client, pending, bad)
             words   == IF user THEN UserSays(client, 10 * turn + 5, picture) ELSE <<>>
             more    == Together(client, results, words)
                        \o (IF note THEN SystemSays(client, 10 * turn + 6) ELSE <<>>)
             next    == WithHistory(client, request, History(client, request) \o more)
         IN  /\ request' = IF stateful THEN [next EXCEPT !.previous = TRUE] ELSE next
             /\ said' = said \o InHistory(client, more)
  BY DEF Reply
<1> DEFINE n == 10 * turn + 5
           l == 10 * turn + 6
           more == Appended(client, pending, bad, user, n, picture, note, l)
<1>2. /\ phase = "answered" /\ turn' = turn /\ phase' = "composed"
      /\ client' = client /\ stateful' = stateful
  BY DEF Reply
<1>3. /\ client \in Protocols /\ turn \in Nat /\ turn > 0 /\ pending \in Seq(Nat)
      /\ n \in Nat /\ l \in Nat
  <2>1. turn \in Nat /\ turn > 0
    BY <1>2 DEF ConvInv, Typed, Sound
  <2>2. n \in Nat /\ l \in Nat
    BY <2>1
  <2>. QED
    BY <2>1, <2>2 DEF ConvInv, Typed
<1>4. CASE stateful
  BY <1>2, <1>3, <1>4 DEF OrderInv
<1>5. CASE ~stateful
  <2>1. request' = WithHistory(client, request, History(client, request) \o more)
    BY <1>1, <1>5 DEF Appended
  <2> HIDE DEF n, l
  <2>2. more \in Seq(Bits(client)) /\ Replied(pending, Each(Turn(client), more))
    <3>1. pending = <<>> => user
      BY <1>1
    <3>. QED
      BY <1>3, <3>1, ReplyTurned
  <2> HIDE DEF more
  <2>3. PICK s \in Settings(client) : request \in Reqs(client, s)
    BY DEF ConvInv, Sound
  <2>4. pending \in IdsAt(turn) /\ OpenTurn(client, request, turn, pending)
    <3>1. InOrder
      BY <1>5 DEF OrderInv
    <3>. QED
      BY <1>2, <3>1 DEF InOrder
  <2>5. Ordered(turn, client, RequestToIR(client, WithHistory(client, request, History(client, request) \o more)).messages)
    BY <1>3, <2>2, <2>3, <2>4, ReplyCloses
  <2>6. Ordered(turn', client', RequestToIR(client', request').messages)
    BY <1>2, <2>1, <2>5
  <2>7. InOrder'
    BY <1>2, <2>6 DEF InOrder
  <2>. QED
    BY <2>7 DEF OrderInv
<1>. QED
  BY <1>4, <1>5

(* when the history does not change,                                       *)
LEMMA QuietOrder ==
    ASSUME OrderInv, (\E p \in Protocols : Ask(p) \/ Refuse(p)) \/ UNCHANGED vars
    PROVE  OrderInv'
<1>1. /\ client' = client /\ stateful' = stateful /\ request' = request /\ turn' = turn /\ pending' = pending
      /\ \/ phase' = phase
         \/ phase = "composed" /\ phase' = "waiting"
         \/ phase' = "refused"
  BY DEF Ask, Refuse, vars
<1>. QED
  BY <1>1 DEF OrderInv, InOrder

(* and so after every step.                                                *)
LEMMA StepOrder ==
    ASSUME ConvInv, GrowInv, OrderInv, [Next]_vars
    PROVE  OrderInv'
<1>1. CASE Answer
  BY <1>1, AnswerOrder
<1>2. CASE Reply
  BY <1>2, ReplyOrder
<1>3. CASE (\E p \in Protocols : Ask(p) \/ Refuse(p)) \/ UNCHANGED vars
  BY <1>3, QuietOrder
<1>. QED
  BY <1>1, <1>2, <1>3 DEF Next

(* What is sent is a request in order.                                     *)
LEMMA OrderAccepts ==
    ASSUME ConvInv, OrderInv
    PROVE  UpstreamAccepts
<1> SUFFICES ASSUME JustAsked PROVE Accepts(upstream, asked[upstream])
  BY DEF UpstreamAccepts, Accepts
<1>1. /\ phase = "waiting" /\ upstream # client
      /\ asked[upstream] = TranslateRequest(client, upstream, request)
      /\ Translatable(client, upstream, request)
  BY DEF ConvInv, Sound, JustAsked, Translated
<1>2. client \in Protocols /\ upstream \in Protocols /\ turn \in Nat
  BY DEF ConvInv, Typed
<1>3. ~(stateful /\ turn > 0)
  <2> SUFFICES ASSUME stateful /\ turn > 0 PROVE FALSE
    OBVIOUS
  <2>1. request.previous
    BY <1>1 DEF ConvInv, Sound
  <2>2. client = "openai_responses"
    BY DEF ConvInv, Sound
  <2>3. ~request.previous
    BY <1>1, <2>2 DEF Translatable
  <2>. QED
    BY <2>1, <2>3
<1>4. Ordered(turn, client, RequestToIR(client, request).messages)
  BY <1>1, <1>3 DEF OrderInv, InOrder
<1>5. PICK s \in Settings(client) : request \in Reqs(client, s)
  BY DEF ConvInv, Sound
<1> DEFINE r == RequestToIR(client, request)
<1>6. r.system \in Seq(TextC) /\ r.messages \in Seq(IRMessages)
  BY <1>2, <1>5, RequestsToIR
<1> HIDE DEF r
<1>7. Ordered(turn, client, r.messages)
  BY <1>4 DEF r
<1>8. Accepts(upstream, RequestFromIR(upstream, r))
  BY <1>1, <1>2, <1>6, <1>7, OrderAccepted
<1>9. asked[upstream] = RequestFromIR(upstream, r)
  BY <1>1 DEF TranslateRequest, r
<1>. QED
  BY <1>8, <1>9

(***************************************************************************)
(* Every upstream accepts every translated request it is sent, in          *)
(* conversations of any number of turns.  In Chat Completions the results  *)
(* follow the message that called for them (irMessageToChat); in OpenAI    *)
(* Responses a call has one output, after it, and no reasoning is made up  *)
(* (openAIResponsesRequest.FromIR); in Anthropic Messages roles alternate, *)
(* a message starts with the results of the calls right before it and has  *)
(* no others, and thinking is signed (mergeAdjacentAnthropic,              *)
(* irContentToAnthropic).                                                  *)
(***************************************************************************)
THEOREM UpstreamAccepted == Spec => []UpstreamAccepts
<1>1. Init => GrowInv /\ OrderInv
  BY InitGrows, InitOrder
<1>2. ConvInv /\ GrowInv /\ OrderInv /\ [Next]_vars => GrowInv' /\ OrderInv'
  BY StepGrows, StepOrder
<1>3. ConvInv /\ OrderInv => UpstreamAccepts
  BY OrderAccepts
<1>. QED
  BY <1>1, <1>2, <1>3, ConversationInvariant, PTL DEF Spec
=============================================================================
