----------------------------- MODULE RelayProofs ----------------------------
(***************************************************************************)
(* What is proved of the two ends of a response's body: of Relay, which    *)
(* forwards it, for every number of events, and of InvokeStream, which     *)
(* makes it of Bedrock's event stream, for every number of chunks.  The    *)
(* safety properties their runs check follow from one inductive invariant  *)
(* each.  That every relay ends (EndsUnlessClientStalls) and no goroutine  *)
(* stays behind (NothingLeaks) stays with TLC.                             *)
(***************************************************************************)
EXTENDS Relay, InvokeStream, TLAPS

-----------------------------------------------------------------------------
(***************************************************************************)
(* Relay.                                                                  *)
(*                                                                         *)
(* Each property speaks of the end, when pc = "done"; the invariant says   *)
(* what is known on the way there.  Contexts orders what befalls the       *)
(* client; Whereabouts says which flags can be up where; InputOver, why    *)
(* the loop was left; Shown, what the client of a translated stream has;   *)
(* Conclusion, what upstreamErr stands for; Result, what Classify made of  *)
(* it.                                                                     *)
(***************************************************************************)
Response == resp \in [sse : BOOLEAN, translated : BOOLEAN, status : {200, 400}]

Contexts ==
    /\ noticed => client = "gone" /\ ctxErr # "none"
    /\ ctxErr = "canceled" => noticed
    /\ clientErr => client = "gone"

Whereabouts ==
    /\ pc = "start" => /\ written = <<>> /\ usage = "none" /\ status = resp.status
                       /\ ~clientErr /\ ~translateErr
    /\ pc \in {"start", "read", "dispatch"} => ~done /\ ~ended /\ ~readErr
    /\ pc = "dispatch" => cur # NoEvent
    /\ pc = "lastDispatch" => done = ended /\ (done => cur = NoEvent)
    /\ pc \notin {"classify", "done"} => ~upstreamErr
    /\ done => ended
    /\ ~resp.translated => ~ended /\ ~translateErr
    /\ ~resp.sse => /\ pc \in {"start", "classify", "done"}
                    /\ ~done /\ ~ended /\ ~readErr /\ ~upstreamErr
    /\ pc # "done" => truncated = "none"

InputOver ==
    /\ readErr => up = "cut" \/ ctxErr # "none"
    /\ (resp.sse /\ pc \in {"lastDispatch", "afterLoop", "classify", "done"} /\ ~readErr /\ ~done)
           => up = "eof"

LastWritten(what) == written # <<>> /\ written[Len(written)] \in what

Shown ==
    resp.sse /\ resp.translated =>
        /\ \A n \in DOMAIN written : written[n] \in Terminal => n = Len(written) /\ ended
        /\ ended => clientErr \/ LastWritten(Terminal) \/ (upstreamErr /\ client = "gone")
        /\ translateErr => ended /\ (clientErr \/ LastWritten({"error"}))

Conclusion ==
    resp.sse /\ pc \in {"classify", "done"} =>
        /\ ~upstreamErr => ~translateErr /\ (readErr => done) /\ (resp.translated => ended)
        /\ upstreamErr /\ ~translateErr => ~done /\ (up = "eof" \/ readErr)
        /\ resp.translated /\ ~readErr => ended

Result ==
    /\ (pc # "done" \/ truncated = "none") =>
           status = resp.status \/ (~resp.sse /\ status = 502 /\ usage = "none")
    /\ ~resp.sse /\ usage # "none" => ~translateErr /\ (clientErr \/ written = <<"body">>)
    /\ pc = "done" =>
           /\ usage # "none" => ~clientErr /\ ~upstreamErr
           /\ truncated # "none" => clientErr \/ upstreamErr
           /\ WithinContract
           /\ BlameIsRight

IInv ==
    /\ TypeOK /\ Response /\ Contexts /\ Whereabouts
    /\ InputOver /\ Shown /\ Conclusion /\ Result

-----------------------------------------------------------------------------
(***************************************************************************)
(* Writing one item, and what an event does to what the client has.        *)
(***************************************************************************)
Item == Event \union {"delta", "body"}

LEMMA OneMore ==
    ASSUME NEW s \in Seq(Item), NEW x \in Item
    PROVE  LET t == s \o <<x>> IN
           /\ t \in Seq(Item) /\ t # <<>> /\ Len(t) = Len(s) + 1 /\ t[Len(t)] = x
           /\ \A n \in DOMAIN t : n # Len(t) => n \in DOMAIN s /\ t[n] = s[n]
<1>1. <<x>> \in Seq(Item) /\ Len(<<x>>) = 1 /\ <<x>>[1] = x
  OBVIOUS
<1>. QED
  BY <1>1

LEMMA WriteOne ==
    ASSUME NEW x \in Item, TypeOK, Contexts, Write(<<x>>)
    PROVE  /\ clientErr' \in BOOLEAN /\ written' \in Seq(Item)
           /\ (clientErr => clientErr') /\ (clientErr' => client = "gone")
           /\ clientErr' \/ written' = written \o <<x>>
           /\ written' # written => ~clientErr /\ written' = written \o <<x>>
<1> DEFINE more == written \o <<x>>
<1>1. written \in Seq(Item) /\ clientErr \in BOOLEAN /\ <<x>> # <<>>
  BY DEF TypeOK, Item
<1>2. more \in Seq(Item)
  BY <1>1, OneMore
<1>3. \/ clientErr /\ written' = written /\ clientErr' = clientErr
      \/ ~clientErr /\ written' = more /\ clientErr' = clientErr
      \/ ~clientErr /\ client = "gone" /\ clientErr' = TRUE /\ written' = written
  BY <1>1 DEF Write
<1>4. clientErr => client = "gone"
  BY DEF Contexts
<1> HIDE DEF more
<1>5. /\ clientErr' \in BOOLEAN /\ written' \in Seq(Item)
      /\ (clientErr => clientErr') /\ (clientErr' => client = "gone")
      /\ clientErr' \/ written' = more
      /\ written' # written => ~clientErr /\ written' = more
  <2>1. CASE clientErr /\ written' = written /\ clientErr' = clientErr
    BY <1>1, <1>4, <2>1
  <2>2. CASE ~clientErr /\ written' = more /\ clientErr' = clientErr
    BY <1>1, <1>2, <2>2
  <2>3. CASE ~clientErr /\ client = "gone" /\ clientErr' = TRUE /\ written' = written
    BY <1>1, <2>3
  <2>. QED
    BY <1>3, <2>1, <2>2, <2>3
<1>. QED
  BY <1>5 DEF more

(* A translated stream that has not ended yet takes one more event.        *)
LEMMA ShownGoesOn ==
    ASSUME TypeOK, Contexts, Shown, resp.sse, resp.translated, ~ended, NEW e \in Event,
           Dispatch(e)
    PROVE  /\ clientErr' \in BOOLEAN /\ written' \in Seq(Item) /\ ended' \in BOOLEAN
           /\ translateErr' \in BOOLEAN /\ (clientErr' => client = "gone")
           /\ \A n \in DOMAIN written' : written'[n] \in Terminal => n = Len(written') /\ ended'
           /\ ended' => clientErr' \/ LastWritten(Terminal)'
           /\ translateErr' => ended' /\ (clientErr' \/ LastWritten({"error"})')
<1>1. written \in Seq(Item) /\ clientErr \in BOOLEAN /\ (clientErr => client = "gone")
  BY DEF TypeOK, Item, Contexts
<1>2. \A n \in DOMAIN written : written[n] \notin Terminal
  BY DEF Shown
<1>3. /\ Write(Rendered(e))
      /\ ended' = (e \in {"stop", "final", "error", "bad"})
      /\ translateErr' = (e = "bad")
  BY DEF Dispatch
<1>a. ended' \in BOOLEAN /\ translateErr' \in BOOLEAN
  BY <1>3
<1>4. CASE e = "usage"
  <2>1. Rendered(e) = <<>>
    BY <1>4 DEF Rendered
  <2>2. written' = written /\ clientErr' = clientErr
    BY <1>3, <2>1 DEF Write
  <2>3. ~ended' /\ ~translateErr' /\ ended' \in BOOLEAN /\ translateErr' \in BOOLEAN
    BY <1>3, <1>4, <1>a
  <2>. QED
    BY <1>1, <1>2, <2>2, <2>3
<1>5. CASE e # "usage"
  <2>1. PICK x \in {"delta", "stop", "error"} :
            /\ Rendered(e) = <<x>>
            /\ x \in Terminal <=> e \in {"stop", "final", "error", "bad"}
            /\ e = "bad" => x = "error"
    <3>1. CASE e \in {"open", "text"}
      <4>1. Rendered(e) = <<"delta">>
        BY <3>1 DEF Rendered
      <4>. QED
        BY <3>1, <4>1 DEF Terminal
    <3>2. CASE e \in {"stop", "final"}
      <4>1. Rendered(e) = <<"stop">>
        BY <3>2 DEF Rendered
      <4>. QED
        BY <3>2, <4>1 DEF Terminal
    <3>3. CASE e \in {"error", "bad"}
      <4>1. Rendered(e) = <<"error">>
        BY <3>3 DEF Rendered
      <4>. QED
        BY <3>3, <4>1 DEF Terminal
    <3>. QED
      BY <1>5, <3>1, <3>2, <3>3 DEF Event
  <2>2. x \in Item
    BY DEF Item, Event
  <2>3. Write(<<x>>)
    BY <1>3, <2>1
  <2>4. /\ clientErr' \in BOOLEAN /\ written' \in Seq(Item)
        /\ (clientErr' => client = "gone")
        /\ clientErr' \/ written' = written \o <<x>>
        /\ written' # written => written' = written \o <<x>>
    BY <2>2, <2>3, WriteOne
  <2>5. LET t == written \o <<x>> IN
        /\ t # <<>> /\ t[Len(t)] = x
        /\ \A n \in DOMAIN t : n # Len(t) => n \in DOMAIN written /\ t[n] = written[n]
    BY <1>1, <2>2, OneMore
  <2>6. /\ ended' \in BOOLEAN /\ translateErr' \in BOOLEAN
        /\ ended' <=> x \in Terminal
        /\ translateErr' => ended' /\ x = "error"
    BY <1>3, <1>a, <2>1
  <2>7. \A n \in DOMAIN written' : written'[n] \in Terminal => n = Len(written') /\ ended'
    <3>1. CASE written' = written
      BY <1>2, <3>1
    <3>2. CASE written' = written \o <<x>>
      BY <1>2, <2>5, <2>6, <3>2
    <3>. QED
      BY <2>4, <3>1, <3>2
  <2>8. ~clientErr' => LastWritten({x})'
    BY <2>4, <2>5 DEF LastWritten
  <2>. QED
    BY <2>4, <2>6, <2>7, <2>8 DEF LastWritten, Terminal
<1>. QED
  BY <1>4, <1>5

-----------------------------------------------------------------------------
(***************************************************************************)
(* The invariant holds and is kept.                                        *)
(***************************************************************************)
LEMMA InitIInv ==
    Init => IInv
<1> SUFFICES ASSUME Init PROVE IInv
  OBVIOUS
<1> USE DEF Init
<1>0. PICK a \in BOOLEAN, b \in BOOLEAN, c \in {200, 400} :
          resp = [sse |-> a, translated |-> b, status |-> c]
  OBVIOUS
<1>1. TypeOK
  <2>1. status \in {200, 400} /\ 0 \in 0..MaxEvents
    BY <1>0, RelayAssumption
  <2>2. wire \in Seq(Event) /\ written \in Seq(Event \union {"delta", "body"})
    OBVIOUS
  <2>. QED
    BY <2>1, <2>2 DEF TypeOK, NoEvent, Truncations
<1>2. Response /\ Contexts
  BY DEF Response, Contexts
<1>3. Whereabouts /\ InputOver
  BY DEF Whereabouts, InputOver
<1>4. Shown /\ Conclusion
  BY DEF Shown, Conclusion
<1>5. Result
  BY DEF Result, BlameIsRight
<1>. QED
  BY <1>1, <1>2, <1>3, <1>4, <1>5 DEF IInv

(* What the environment does touches neither the flags nor what the client *)
(* has.                                                                    *)
LEMMA EnvironmentStep ==
    ASSUME IInv, Environment
    PROVE  IInv'
<1> DEFINE Same == UNCHANGED <<resp, pc, cur, done, ended, errVars, usage, written, resultVars>>
<1>1. /\ pc # "done" /\ Same
      /\ client = "gone" => client' = "gone"
      /\ noticed => noticed'
      /\ ctxErr # "none" => ctxErr' = ctxErr
      /\ up # "open" => up' = up
  BY DEF Environment, Send, EndBody, ClientMoves, Notice, Deadline, Running,
         upstreamVars, ctxVars
<1>2. /\ wire' \in Seq(Event) /\ sent' \in 0..MaxEvents /\ up' \in {"open", "eof", "cut"}
      /\ client' \in {"reading", "stalled", "gone"} /\ noticed' \in BOOLEAN
      /\ ctxErr' \in {"none", "canceled", "deadline"}
  <2> USE RelayAssumption DEF upstreamVars, ctxVars
  <2>0. /\ wire \in Seq(Event) /\ sent \in 0..MaxEvents /\ up \in {"open", "eof", "cut"}
        /\ client \in {"reading", "stalled", "gone"} /\ noticed \in BOOLEAN
        /\ ctxErr \in {"none", "canceled", "deadline"}
    BY DEF IInv, TypeOK
  <2>1. CASE \E e \in Event : Send(e)
    BY <2>0, <2>1 DEF Send
  <2>2. CASE \E how \in {"eof", "cut"} : EndBody(how)
    BY <2>0, <2>2 DEF EndBody
  <2>3. CASE \E to \in {"reading", "stalled", "gone"} : ClientMoves(to)
    BY <2>0, <2>3 DEF ClientMoves
  <2>4. CASE Notice \/ Deadline
    BY <2>0, <2>4 DEF Notice, Deadline
  <2>. QED
    BY <2>1, <2>2, <2>3, <2>4 DEF Environment
<1>3. /\ noticed' => client' = "gone" /\ ctxErr' # "none"
      /\ ctxErr' = "canceled" => noticed'
  <2>1. /\ noticed => client = "gone" /\ ctxErr # "none"
        /\ ctxErr = "canceled" => noticed
    BY DEF IInv, Contexts
  <2>2. CASE Notice
    BY <2>1, <2>2 DEF Notice
  <2>3. CASE ~Notice
    BY <1>1, <2>1, <2>3
      DEF Environment, Send, EndBody, ClientMoves, Deadline, ctxVars
  <2>. QED
    BY <2>2, <2>3
<1>4. TypeOK'
  BY <1>1, <1>2 DEF IInv, TypeOK, errVars, resultVars
<1>5. Response' /\ Contexts'
  BY <1>1, <1>3 DEF IInv, Response, Contexts, errVars
<1>6. Whereabouts' /\ InputOver'
  BY <1>1, <1>2 DEF IInv, TypeOK, Whereabouts, InputOver, errVars, resultVars
<1>7. Shown' /\ Conclusion'
  BY <1>1 DEF IInv, Shown, Conclusion, LastWritten, errVars
<1>8. Result'
  BY <1>1 DEF IInv, Whereabouts, Result, BlameIsRight, errVars, resultVars
<1>. QED
  BY <1>4, <1>5, <1>6, <1>7, <1>8 DEF IInv

(* The two ways to end a response that is no event stream.                 *)
LEMMA BodyStep ==
    ASSUME IInv, BodyUnreadable \/ BodyComplete
    PROVE  IInv'
<1> DEFINE Same == UNCHANGED <<resp, upstreamVars, ctxVars, cur, done, ended, readErr,
                                upstreamErr, truncated>>
<1>1. /\ pc = "start" /\ ~resp.sse /\ pc' = "classify" /\ Same
      /\ ~clientErr /\ ~translateErr /\ ~done /\ ~ended /\ ~readErr /\ ~upstreamErr
      /\ usage = "none" /\ truncated = "none"
  BY DEF IInv, Whereabouts, BodyUnreadable, BodyComplete, errVars
<1>2. resp.status \in {200, 400} /\ resp.translated \in BOOLEAN
  BY DEF IInv, Response
<1>3. /\ clientErr' \in BOOLEAN /\ (clientErr' => client = "gone")
      /\ written' \in Seq(Item) /\ translateErr' \in BOOLEAN
      /\ translateErr' => resp.translated
      /\ usage' \in {"none", "final"}
      /\ status' = resp.status \/ (status' = 502 /\ usage' = "none")
      /\ usage' # "none" => ~translateErr' /\ (clientErr' \/ written' = <<"body">>)
  <2>0. /\ clientErr \in BOOLEAN /\ translateErr \in BOOLEAN /\ written = <<>>
        /\ status = resp.status
        /\ "error" \in Item /\ "body" \in Item
    BY <1>1 DEF IInv, TypeOK, Whereabouts, Result, Item, Event
  <2>1. CASE BodyUnreadable
    BY <1>1, <2>0, <2>1 DEF BodyUnreadable, errVars
  <2>2. CASE /\ resp.translated
             /\ translateErr' = (resp.status = 200)
             /\ status' = IF resp.status = 200 THEN 502 ELSE resp.status
             /\ written' = <<"error">>
             /\ UNCHANGED <<clientErr, usage>>
    BY <1>1, <1>2, <2>0, <2>2
  <2>3. CASE /\ resp.translated => resp.status = 200
             /\ usage' \in IF resp.status = 200 THEN {"none", "final"} ELSE {"none"}
             /\ Write(<<"body">>)
             /\ UNCHANGED <<translateErr, status>>
    <3>1. /\ clientErr' \in BOOLEAN /\ written' \in Seq(Item)
          /\ (clientErr' => client = "gone")
          /\ clientErr' \/ written' = written \o <<"body">>
      BY <2>0, <2>3, WriteOne DEF IInv
    <3>2. <<>> \o <<"body">> = <<"body">>
      OBVIOUS
    <3>3. usage' \in {"none", "final"}
      BY <2>3
    <3>4. status' = status /\ translateErr' = translateErr
      BY <2>3
    <3>5. ~translateErr' /\ translateErr' \in BOOLEAN
      BY <1>1, <2>0, <3>4
    <3>6. status' = resp.status \/ (status' = 502 /\ usage' = "none")
      BY <1>1, <2>0, <2>3, <3>4
    <3>7. clientErr' \/ written' = <<"body">>
      BY <2>0, <3>1, <3>2
    <3>. QED
      BY <3>1, <3>3, <3>5, <3>6, <3>7
  <2>. QED
    BY <2>1, <2>2, <2>3 DEF BodyComplete
<1>4. TypeOK'
  BY <1>1, <1>2, <1>3 DEF IInv, TypeOK, upstreamVars, ctxVars, Item
<1>5. Response' /\ Contexts'
  BY <1>1, <1>3 DEF IInv, Response, Contexts, ctxVars
<1>6. Whereabouts' /\ InputOver'
  BY <1>1, <1>3 DEF IInv, TypeOK, Whereabouts, InputOver
<1>7. Shown' /\ Conclusion'
  BY <1>1 DEF Shown, Conclusion
<1>8. Result'
  BY <1>1, <1>3 DEF Result, BlameIsRight
<1>. QED
  BY <1>4, <1>5, <1>6, <1>7, <1>8 DEF IInv

(* Steps of the loop that write nothing.                                   *)
LEMMA LoopStep ==
    ASSUME IInv, BeginStream \/ ReadEvent \/ EndOfInput
    PROVE  IInv'
<1> DEFINE Same == UNCHANGED <<resp, sent, up, ctxVars, done, ended, translateErr, clientErr,
                                upstreamErr, usage, written, resultVars>>
<1>1. /\ Same /\ resp.sse /\ pc \in {"start", "read"}
      /\ ~done /\ ~ended /\ ~readErr /\ ~upstreamErr
      /\ pc' \in {"read", "dispatch", "lastDispatch"}
      /\ pc' # "lastDispatch" => readErr' = readErr
      /\ pc' = "dispatch" => cur' # NoEvent
  <2>1. resp.sse /\ ~done /\ ~ended /\ ~readErr /\ ~upstreamErr
    BY DEF IInv, Whereabouts, BeginStream, ReadEvent, EndOfInput
  <2>2. CASE BeginStream
    BY <2>1, <2>2 DEF BeginStream, upstreamVars, errVars
  <2>3. CASE ReadEvent
    <3>1. Head(wire) \in Event
      BY <2>3 DEF IInv, TypeOK, ReadEvent
    <3>. QED
      BY <2>1, <2>3, <3>1 DEF ReadEvent, errVars, NoEvent, Event
  <2>4. CASE EndOfInput
    BY <2>1, <2>4 DEF EndOfInput, upstreamVars
  <2>. QED
    BY <2>2, <2>3, <2>4
<1>2. wire' \in Seq(Event) /\ cur' \in Event \union {NoEvent} /\ readErr' \in BOOLEAN
  <2>0. wire \in Seq(Event) /\ cur \in Event \union {NoEvent} /\ readErr \in BOOLEAN
    BY DEF IInv, TypeOK
  <2>1. CASE BeginStream
    BY <2>0, <2>1 DEF BeginStream, upstreamVars, errVars
  <2>2. CASE ReadEvent
    BY <2>0, <2>2 DEF ReadEvent, errVars
  <2>3. CASE EndOfInput
    BY <2>0, <2>3 DEF EndOfInput, upstreamVars
  <2>. QED
    BY <2>1, <2>2, <2>3
<1>3. pc' = "lastDispatch" => IF readErr' THEN up = "cut" \/ ctxErr # "none" ELSE up = "eof"
  <2>1. CASE EndOfInput
    BY <1>1, <2>1 DEF EndOfInput
  <2>. QED
    BY <2>1 DEF BeginStream, ReadEvent
<1>4. TypeOK'
  BY <1>1, <1>2 DEF IInv, TypeOK, ctxVars, resultVars
<1>5. Response' /\ Contexts'
  BY <1>1 DEF IInv, Response, Contexts, ctxVars
<1>6. done' = ended' /\ ~done' /\ ~ended' /\ done' \in BOOLEAN
  BY <1>1 DEF IInv, TypeOK
<1>7. Whereabouts'
  BY <1>1, <1>6 DEF IInv, Whereabouts, ctxVars, resultVars
<1>8. InputOver'
  BY <1>1, <1>2, <1>3 DEF IInv, InputOver, ctxVars
<1>9. Shown' /\ Conclusion'
  BY <1>1 DEF IInv, Shown, Conclusion, LastWritten, ctxVars
<1>10. Result'
  BY <1>1 DEF IInv, Whereabouts, Result, BlameIsRight, resultVars
<1>. QED
  BY <1>4, <1>5, <1>7, <1>8, <1>9, <1>10 DEF IInv

(* What dispatching an event does, translated or passed through.           *)
LEMMA Dispatched ==
    ASSUME IInv, resp.sse, ~ended, NEW e \in Event, Dispatch(e), UNCHANGED <<resp, upstreamErr>>
    PROVE  /\ usage' \in {"none", "start", "final"} /\ written' \in Seq(Item)
           /\ clientErr' \in BOOLEAN /\ (clientErr' => client = "gone")
           /\ ended' \in BOOLEAN /\ translateErr' \in BOOLEAN
           /\ ~resp.translated => ~ended' /\ ~translateErr'
           /\ (client' = client) => Shown'
<1>1. usage' \in {"none", "start", "final"}
  BY DEF IInv, TypeOK, Dispatch, Metered
<1>2. resp.translated \in BOOLEAN
  BY DEF IInv, Response
<1>3. CASE resp.translated
  <2>1. /\ clientErr' \in BOOLEAN /\ written' \in Seq(Item) /\ ended' \in BOOLEAN
        /\ translateErr' \in BOOLEAN /\ (clientErr' => client = "gone")
        /\ \A n \in DOMAIN written' : written'[n] \in Terminal => n = Len(written') /\ ended'
        /\ ended' => clientErr' \/ LastWritten(Terminal)'
        /\ translateErr' => ended' /\ (clientErr' \/ LastWritten({"error"})')
    BY <1>3, ShownGoesOn DEF IInv
  <2>2. Shown'
    BY <2>1 DEF Shown, LastWritten
  <2>. QED
    BY <1>1, <1>3, <2>1, <2>2
<1>4. CASE ~resp.translated
  <2>1. Write(<<e>>) /\ ended' = ended /\ translateErr' = translateErr
    BY <1>4 DEF Dispatch
  <2>2. ~ended /\ ~translateErr /\ ended \in BOOLEAN /\ translateErr \in BOOLEAN
    BY <1>4 DEF IInv, TypeOK, Whereabouts
  <2>3. e \in Item
    BY DEF Item
  <2>4. /\ clientErr' \in BOOLEAN /\ written' \in Seq(Item)
        /\ (clientErr' => client = "gone")
    BY <2>1, <2>3, WriteOne DEF IInv
  <2>5. Shown'
    BY <1>4 DEF Shown
  <2>. QED
    BY <1>1, <1>4, <2>1, <2>2, <2>4, <2>5
<1>. QED
  BY <1>2, <1>3, <1>4

LEMMA TurnStep ==
    ASSUME IInv, Turn
    PROVE  IInv'
<1>1. /\ pc = "dispatch" /\ resp.sse /\ ~ended /\ ~done /\ ~upstreamErr /\ ~readErr
      /\ cur \in Event /\ Dispatch(cur) /\ cur' = NoEvent /\ done' = ended'
      /\ UNCHANGED <<resp, wire, sent, up, client, noticed, ctxErr, upstreamErr, status, truncated>>
      /\ pc' = IF done' THEN "lastDispatch" ELSE "read"
      /\ readErr' \in IF done' /\ (up = "cut" \/ ctxErr # "none") THEN BOOLEAN ELSE {readErr}
  BY DEF IInv, TypeOK, Whereabouts, Turn, upstreamVars, ctxVars, resultVars
<1>2. /\ usage' \in {"none", "start", "final"} /\ written' \in Seq(Item)
      /\ clientErr' \in BOOLEAN /\ (clientErr' => client = "gone")
      /\ ended' \in BOOLEAN /\ translateErr' \in BOOLEAN
      /\ ~resp.translated => ~ended' /\ ~translateErr'
      /\ Shown'
  BY <1>1, Dispatched
<1>3. /\ readErr' \in BOOLEAN /\ (readErr' => done' /\ (up = "cut" \/ ctxErr # "none"))
      /\ done' \in BOOLEAN
  BY <1>1, <1>2 DEF IInv, TypeOK
<1>4. TypeOK'
  BY <1>1, <1>2, <1>3 DEF IInv, TypeOK, Item
<1>5. Response' /\ Contexts'
  BY <1>1, <1>2 DEF IInv, Response, Contexts
<1>6. Whereabouts'
  BY <1>1, <1>2, <1>3 DEF IInv, Whereabouts
<1>7. InputOver'
  BY <1>1, <1>3 DEF InputOver
<1>8. Conclusion'
  BY <1>1 DEF Conclusion
<1>9. Result'
  BY <1>1 DEF IInv, Whereabouts, Result, BlameIsRight
<1>. QED
  BY <1>2, <1>4, <1>5, <1>6, <1>7, <1>8, <1>9 DEF IInv

LEMMA LastTurnStep ==
    ASSUME IInv, LastTurn
    PROVE  IInv'
<1>1. /\ pc = "lastDispatch" /\ resp.sse /\ ~upstreamErr /\ pc' = "afterLoop"
      /\ done = ended /\ (done => cur = NoEvent) /\ truncated = "none"
      /\ UNCHANGED <<resp, wire, sent, up, client, noticed, ctxErr, cur, done, readErr,
                      upstreamErr, status, truncated>>
  BY DEF IInv, Whereabouts, LastTurn, upstreamVars, ctxVars, resultVars
<1>2. /\ usage' \in {"none", "start", "final"} /\ written' \in Seq(Item)
      /\ clientErr' \in BOOLEAN /\ (clientErr' => client = "gone")
      /\ ended' \in BOOLEAN /\ translateErr' \in BOOLEAN /\ (done => ended')
      /\ ~resp.translated => ~ended' /\ ~translateErr'
      /\ Shown'
  <2>1. CASE cur = NoEvent
    <3>1. UNCHANGED <<usage, ended, translateErr, written, clientErr>>
      BY <2>1 DEF LastTurn
    <3>2. Shown'
      BY <1>1, <3>1 DEF IInv, Shown, LastWritten
    <3>. QED
      BY <1>1, <3>1, <3>2 DEF IInv, TypeOK, Contexts, Whereabouts, Item
  <2>2. CASE cur # NoEvent
    <3>1. cur \in Event /\ ~done /\ ~ended /\ Dispatch(cur)
      BY <1>1, <2>2 DEF IInv, TypeOK, LastTurn
    <3>. QED
      BY <1>1, <3>1, Dispatched
  <2>. QED
    BY <2>1, <2>2
<1>3. TypeOK'
  BY <1>1, <1>2 DEF IInv, TypeOK, Item
<1>4. Response' /\ Contexts'
  BY <1>1, <1>2 DEF IInv, Response, Contexts
<1>5. Whereabouts'
  BY <1>1, <1>2 DEF IInv, Whereabouts
<1>6. InputOver'
  BY <1>1 DEF IInv, InputOver
<1>7. Conclusion'
  BY <1>1 DEF Conclusion
<1>8. Result'
  BY <1>1 DEF IInv, Result, BlameIsRight
<1>. QED
  BY <1>2, <1>3, <1>4, <1>5, <1>6, <1>7, <1>8 DEF IInv

LEMMA AfterLoopStep ==
    ASSUME IInv, AfterLoop
    PROVE  IInv'
<1> DEFINE unfinished == resp.translated /\ ~ended /\ ~readErr
<1>1. /\ pc = "afterLoop" /\ resp.sse /\ ~upstreamErr /\ pc' = "classify" /\ truncated = "none"
      /\ Close(unfinished)
      /\ upstreamErr' = (translateErr \/ unfinished \/ (readErr /\ ~done))
      /\ UNCHANGED <<resp, wire, sent, up, client, noticed, ctxErr, cur, done, translateErr,
                      readErr, clientErr, usage, status, truncated>>
  BY DEF IInv, Whereabouts, AfterLoop, upstreamVars, ctxVars, resultVars
<1>2. /\ written \in Seq(Item) /\ {ended, done, translateErr, readErr, clientErr} \subseteq BOOLEAN
      /\ resp.translated \in BOOLEAN /\ upstreamErr' \in BOOLEAN
      /\ (done => ended) /\ (~resp.translated => ~ended /\ ~translateErr)
      /\ ~readErr /\ ~done => up = "eof"
  BY <1>1 DEF IInv, TypeOK, Response, Whereabouts, InputOver, Item
<1>3. CASE unfinished
  <2>1. /\ ended' = TRUE /\ upstreamErr' = TRUE /\ ~done
        /\ written' = written \o <<"error">> \/ (written' = written /\ client = "gone")
    <3>1. clientErr => client = "gone"
      BY DEF IInv, Contexts
    <3>2. written' = Append(written, "error") \/ (written' = written /\ client = "gone")
      BY <1>1, <1>3, <3>1 DEF Close
    <3>3. Append(written, "error") = written \o <<"error">>
      BY <1>2
    <3>. QED
      BY <1>1, <1>2, <1>3, <3>2, <3>3 DEF Close
  <2>2. /\ \A n \in DOMAIN written : written[n] \notin Terminal
        /\ ~translateErr
    BY <1>1, <1>3 DEF IInv, Shown
  <2>3. LET t == written \o <<"error">> IN
        /\ t \in Seq(Item) /\ t # <<>> /\ t[Len(t)] = "error"
        /\ \A n \in DOMAIN t : n # Len(t) => n \in DOMAIN written /\ t[n] = written[n]
    BY <1>2, OneMore DEF Item, Event
  <2>4. written' \in Seq(Item) /\ ended' \in BOOLEAN
    BY <1>2, <2>1, <2>3
  <2>5. \A n \in DOMAIN written' : written'[n] \in Terminal => n = Len(written')
    <3>1. CASE written' = written \o <<"error">>
      BY <2>2, <2>3, <3>1
    <3>. QED
      BY <2>1, <2>2, <3>1
  <2>6. LastWritten(Terminal)' \/ client' = "gone"
    BY <1>1, <2>1, <2>3 DEF LastWritten, Terminal
  <2>7. Shown'
    BY <1>1, <2>1, <2>2, <2>5, <2>6 DEF Shown, LastWritten
  <2>8. Conclusion'
    BY <1>1, <1>2, <1>3, <2>1, <2>2 DEF Conclusion
  <2>. QED
    BY <1>1, <1>2, <1>3, <2>1, <2>4, <2>7, <2>8
      DEF IInv, TypeOK, Item, Response, Contexts, Whereabouts, InputOver, Result, BlameIsRight
<1>4. CASE ~unfinished
  <2>1. /\ written' = written /\ ended' = ended
        /\ upstreamErr' <=> (translateErr \/ (readErr /\ ~done))
    BY <1>1, <1>2, <1>4 DEF Close
  <2>2. Shown'
    BY <1>1, <2>1 DEF IInv, Shown, LastWritten
  <2>3. Conclusion'
    BY <1>1, <1>2, <1>4, <2>1 DEF IInv, Shown, Conclusion
  <2>. QED
    BY <1>1, <1>2, <2>1, <2>2, <2>3
      DEF IInv, TypeOK, Item, Response, Contexts, Whereabouts, InputOver, Result, BlameIsRight
<1>. QED
  BY <1>3, <1>4

(* Who is blamed, from what the contexts say at the moment of classifying. *)
LEMMA CauseIsAllowed ==
    ASSUME IInv, pc = "classify", upstreamErr \/ clientErr
    PROVE  /\ Cause \in Causes(resp.translated, ctxErr, client = "gone")
           /\ Cause \in Truncations \ {"none"}
           /\ Cause = "client_disconnect" => client = "gone"
           /\ Cause = "request_timeout" => ctxErr = "deadline"
           /\ Cause = "upstream_stream_error" => up # "open" /\ ~noticed /\ ctxErr # "deadline"
<1>1. /\ ctxErr \in {"none", "canceled", "deadline"}
      /\ noticed => client = "gone" /\ ctxErr # "none"
      /\ ctxErr = "canceled" => noticed
      /\ clientErr => client = "gone"
      /\ ~resp.translated => ~translateErr
      /\ resp.translated \in BOOLEAN
  BY DEF IInv, TypeOK, Contexts, Whereabouts, Response
<1>2. CASE ctxErr = "deadline"
  <2>1. Cause = "request_timeout"
    BY <1>2 DEF Cause
  <2>. QED
    BY <1>2, <2>1 DEF Causes, Truncations
<1>3. CASE ctxErr # "deadline" /\ (clientErr \/ noticed)
  <2>1. Cause = "client_disconnect"
    BY <1>3 DEF Cause
  <2>2. client = "gone"
    BY <1>1, <1>3
  <2>3. Cause \in Causes(resp.translated, ctxErr, client = "gone")
    BY <1>1, <1>3, <2>1, <2>2 DEF Causes
  <2>. QED
    BY <2>1, <2>2, <2>3 DEF Truncations
<1>4. CASE ctxErr # "deadline" /\ ~clientErr /\ ~noticed /\ translateErr
  <2>1. Cause = "translation_error"
    BY <1>4 DEF Cause
  <2>2. ctxErr = "none" /\ resp.translated
    BY <1>1, <1>4
  <2>3. Cause \in Causes(resp.translated, ctxErr, client = "gone")
    BY <2>1, <2>2 DEF Causes
  <2>. QED
    BY <2>1, <2>3 DEF Truncations
<1>5. CASE ctxErr # "deadline" /\ ~clientErr /\ ~noticed /\ ~translateErr
  <2>1. Cause = "upstream_stream_error"
    BY <1>5 DEF Cause
  <2>2. ctxErr = "none"
    BY <1>1, <1>5
  <2>3. Cause \in Causes(resp.translated, ctxErr, client = "gone")
    BY <2>1, <2>2 DEF Causes
  <2>4. up # "open"
    <3>1. upstreamErr /\ resp.sse
      BY <1>5 DEF IInv, Whereabouts
    <3>2. up = "eof" \/ readErr
      BY <1>5, <3>1 DEF IInv, Conclusion
    <3>. QED
      BY <2>2, <3>2 DEF IInv, InputOver
  <2>. QED
    BY <1>5, <2>1, <2>3, <2>4 DEF Truncations
<1>. QED
  BY <1>2, <1>3, <1>4, <1>5

LEMMA ClassifyStep ==
    ASSUME IInv, Classify
    PROVE  IInv'
<1>1. /\ pc = "classify" /\ pc' = "done" /\ truncated = "none"
      /\ UNCHANGED <<resp, wire, sent, up, client, noticed, ctxErr, cur, done, ended,
                      translateErr, readErr, clientErr, upstreamErr, written>>
  BY DEF IInv, Whereabouts, Classify, upstreamVars, ctxVars, errVars
<1>2. /\ truncated' \in Truncations /\ status' \in {200, 400, 499, 502, 504}
      /\ usage' \in {"none", "start", "final"}
      /\ truncated' = "none" =>
            status' = resp.status \/ (~resp.sse /\ status' = 502 /\ usage' = "none")
      /\ ~resp.sse /\ usage' # "none" => ~translateErr /\ (clientErr \/ written = <<"body">>)
      /\ usage' # "none" => ~clientErr /\ ~upstreamErr
      /\ truncated' # "none" => clientErr \/ upstreamErr
      /\ WithinContract' /\ BlameIsRight'
  <2>1. CASE upstreamErr \/ clientErr
    <3>1. truncated' = Cause /\ status' = TruncatedStatus(Cause) /\ usage' = "none"
      BY <2>1 DEF Classify
    <3>2. /\ Cause \in Causes(resp.translated, ctxErr, client = "gone")
          /\ Cause \in Truncations \ {"none"}
          /\ Cause = "client_disconnect" => client = "gone"
          /\ Cause = "request_timeout" => ctxErr = "deadline"
          /\ Cause = "upstream_stream_error" => up # "open" /\ ~noticed /\ ctxErr # "deadline"
      BY <1>1, <2>1, CauseIsAllowed
    <3>3. status' \in {200, 400, 499, 502, 504}
      BY <3>1 DEF TruncatedStatus
    <3>4. BlameIsRight'
      BY <1>1, <3>1, <3>2 DEF BlameIsRight
    <3>5. WithinContract'
      <4>1. Billed' = FALSE
        BY <3>1 DEF Billed
      <4>2. [status |-> TruncatedStatus(Cause), truncated |-> Cause, billed |-> FALSE]
              \in {[status |-> TruncatedStatus(t), truncated |-> t, billed |-> FALSE] :
                      t \in Causes(resp.translated, ctxErr, client = "gone")}
        BY <3>2
      <4>3. [status |-> status', truncated |-> truncated', billed |-> Billed']
              \in RelayOutcomes(resp.status, resp.translated, ctxErr, client = "gone")
        BY <3>1, <4>1, <4>2 DEF RelayOutcomes
      <4>. QED
        BY <1>1, <4>3 DEF WithinContract
    <3>. QED
      BY <2>1, <3>1, <3>2, <3>3, <3>4, <3>5
  <2>2. CASE ~(upstreamErr \/ clientErr)
    <3>1. truncated' = "none" /\ status' = status /\ usage' = usage
      BY <1>1, <2>2 DEF Classify
    <3>2. BlameIsRight'
      BY <3>1 DEF BlameIsRight
    <3>3. status = resp.status \/ (~resp.sse /\ status = 502 /\ usage = "none")
      BY <1>1 DEF IInv, Result
    <3>4. Billed' = (usage' # "none")
      BY DEF Billed
    <3>5. [status |-> status', truncated |-> truncated', billed |-> Billed']
              \in RelayOutcomes(resp.status, resp.translated, ctxErr, client = "gone")
      <4>1. CASE status = resp.status
        <5>1. Billed' \in BOOLEAN
          BY <3>4
        <5>2. [status |-> resp.status, truncated |-> "none", billed |-> Billed']
                \in [status : {resp.status}, truncated : {"none"}, billed : BOOLEAN]
          BY <5>1
        <5>. QED
          BY <3>1, <4>1, <5>2 DEF RelayOutcomes
      <4>2. CASE status = 502 /\ usage = "none"
        <5>1. Billed' = FALSE
          BY <3>1, <3>4, <4>2
        <5>2. [status |-> 502, truncated |-> "none", billed |-> FALSE]
                \in [status : {502}, truncated : {"none"}, billed : {FALSE}]
          OBVIOUS
        <5>. QED
          BY <3>1, <4>2, <5>1, <5>2 DEF RelayOutcomes
      <4>. QED
        BY <3>3, <4>1, <4>2
    <3>6. WithinContract'
      BY <1>1, <3>5 DEF WithinContract
    <3>. QED
      BY <1>1, <2>2, <3>1, <3>2, <3>3, <3>6 DEF IInv, TypeOK, Result, Truncations
  <2>. QED
    BY <2>1, <2>2
<1>3. TypeOK'
  BY <1>1, <1>2 DEF IInv, TypeOK
<1>4. Response' /\ Contexts' /\ InputOver'
  BY <1>1 DEF IInv, Response, Contexts, InputOver
<1>5. Whereabouts'
  BY <1>1 DEF IInv, Whereabouts
<1>6. Shown' /\ Conclusion'
  BY <1>1 DEF IInv, Shown, LastWritten, Conclusion
<1>7. Result'
  BY <1>1, <1>2 DEF Result
<1>. QED
  BY <1>3, <1>4, <1>5, <1>6, <1>7 DEF IInv

LEMMA Inductive ==
    IInv /\ [Next]_vars => IInv'
<1> SUFFICES ASSUME IInv, [Next]_vars PROVE IInv'
  OBVIOUS
<1>1. CASE RelayStep
  BY <1>1, BodyStep, LoopStep, TurnStep, LastTurnStep, AfterLoopStep, ClassifyStep DEF RelayStep
<1>2. CASE Environment
  BY <1>2, EnvironmentStep
<1>3. CASE UNCHANGED vars
  <2> USE <1>3 DEF vars, upstreamVars, ctxVars, errVars, resultVars
  <2>1. TypeOK' /\ Response' /\ Contexts' /\ Whereabouts' /\ InputOver'
    BY DEF IInv, TypeOK, Response, Contexts, Whereabouts, InputOver
  <2>2. Shown' /\ Conclusion' /\ Result'
    BY DEF IInv, Shown, LastWritten, Conclusion, Result, WithinContract, BlameIsRight, Billed
  <2>. QED
    BY <2>1, <2>2 DEF IInv
<1>. QED
  BY <1>1, <1>2, <1>3 DEF Next

LEMMA Invariant ==
    Spec => []IInv
<1>. QED
  BY InitIInv, Inductive, PTL DEF Spec

-----------------------------------------------------------------------------
(***************************************************************************)
(* The theorems.                                                           *)
(***************************************************************************)

(* Every variable of relay keeps its type.                                 *)
THEOREM TypeCorrect == Spec => []TypeOK
<1>1. IInv => TypeOK
  BY DEF IInv
<1>. QED
  BY <1>1, Invariant, PTL

(* What relay and classifyTruncation hand back is what the request was     *)
(* promised: status, cause and usage in one of the combinations of         *)
(* RelayContract.                                                          *)
THEOREM KeepsContract == Spec => []WithinContract
<1>1. IInv => WithinContract
  BY DEF IInv, Result, WithinContract
<1>. QED
  BY <1>1, Invariant, PTL

(* Tokens are billed only for a response the client took in full, however  *)
(* writes, reads and contexts fail on the way (relay's result.usage).      *)
THEOREM Billing == Spec => []BilledOnlyWhenTaken
<1>1. ASSUME IInv PROVE BilledOnlyWhenTaken
  <2> SUFFICES ASSUME pc = "done", usage # "none"
               PROVE  /\ ~clientErr /\ ~translateErr
                      /\ resp.sse /\ ~resp.translated => up = "eof"
                      /\ resp.sse /\ resp.translated => LastWritten(Terminal)
                      /\ ~resp.sse => written = <<"body">>
    BY DEF BilledOnlyWhenTaken, Billed, LastWritten
  <2>1. ~clientErr /\ ~upstreamErr
    BY <1>1 DEF IInv, Result
  <2>2. CASE ~resp.sse
    BY <1>1, <2>1, <2>2 DEF IInv, Result
  <2>3. CASE resp.sse
    <3>1. ~translateErr /\ (readErr => done) /\ (resp.translated => ended)
      BY <1>1, <2>1, <2>3 DEF IInv, Conclusion
    <3>2. ~resp.translated => up = "eof"
      BY <1>1, <2>3, <3>1 DEF IInv, Whereabouts, InputOver
    <3>3. resp.translated => LastWritten(Terminal)
      BY <1>1, <2>1, <2>3, <3>1 DEF IInv, Shown
    <3>. QED
      BY <2>1, <2>3, <3>1, <3>2, <3>3
  <2>. QED
    BY <2>2, <2>3
<1>. QED
  BY <1>1, Invariant, PTL

(* A delivered terminal event settles it: nothing that happens to the      *)
(* connection, the context or the upstream afterwards makes the response a *)
(* truncated one (the role of `done` in relay).                            *)
THEOREM Delivered == Spec => []DeliveredIsNotTruncated
<1>1. ASSUME IInv PROVE DeliveredIsNotTruncated
  <2> SUFFICES ASSUME resp.sse, pc = "done", done, LastWritten({"stop"}), ~clientErr
               PROVE  truncated = "none" /\ status = resp.status
    BY DEF DeliveredIsNotTruncated, Streams, LastWritten
  <2>1. resp.translated
    BY <1>1 DEF IInv, Whereabouts
  <2>2. ~translateErr
    BY <1>1, <2>1 DEF IInv, Shown, LastWritten
  <2>3. ~upstreamErr
    BY <1>1, <2>2 DEF IInv, Conclusion
  <2>. QED
    BY <1>1, <2>3 DEF IInv, Result
<1>. QED
  BY <1>1, Invariant, PTL

(* A translated client sees at most one terminal event, nothing after it,  *)
(* and one at the end unless it left or the upstream could not be read.    *)
THEOREM Terminates == Spec => []OneTerminal
<1>1. ASSUME IInv PROVE OneTerminal
  <2> SUFFICES ASSUME resp.translated, resp.sse
               PROVE  /\ \A n \in DOMAIN written : written[n] \in Terminal => n = Len(written)
                      /\ (pc = "done" /\ client # "gone" /\ ~readErr) => LastWritten(Terminal)
    BY DEF OneTerminal, LastWritten
  <2>1. \A n \in DOMAIN written : written[n] \in Terminal => n = Len(written)
    BY <1>1 DEF IInv, Shown
  <2>2. ASSUME pc = "done", client # "gone", ~readErr PROVE LastWritten(Terminal)
    <3>1. ended /\ ~clientErr
      BY <1>1, <2>2 DEF IInv, Conclusion, Contexts
    <3>. QED
      BY <1>1, <2>2, <3>1 DEF IInv, Shown
  <2>. QED
    BY <2>1, <2>2
<1>. QED
  BY <1>1, Invariant, PTL

(* classifyTruncation blames the party that did it, although it looks at   *)
(* the contexts only after the stream has failed.                          *)
THEOREM Blame == Spec => []BlameIsRight
<1>1. IInv => BlameIsRight
  BY DEF IInv, Whereabouts, Result, BlameIsRight
<1>. QED
  BY <1>1, Invariant, PTL

-----------------------------------------------------------------------------
(***************************************************************************)
(* InvokeStream.                                                           *)
(*                                                                         *)
(* What a Read that ends tells the relay is true because of where the pump *)
(* can be at that moment.  The pump runs ahead of the reader by one event, *)
(* so the argument is a count: at each point of its loop, how many of the  *)
(* chunks that Bedrock has sent has the reader got?                        *)
(***************************************************************************)

(* Chunks the pump has taken from the SDK's reader.                        *)
Taken == IF sdk = "offering" /\ offered = "chunk" THEN chunks - 1 ELSE chunks

(* The frame the pump ends an OpenAI or a failed stream with.              *)
IsFinal(f) ==
    \/ f = DoneFrame /\ err = "none" /\ protocol = "openai_chat"
    \/ err # "none" /\ f = ErrorFrame(err)

(* The pump gets to its end only by the end of the events, or because the  *)
(* reader has closed the pipe; nobody closes the event stream before that. *)
Phases ==
    /\ pump = "receiving" => frame.kind \in {"chunk", "none"}
    /\ pump = "writing" => frame \in Frame
    /\ pump = "writing" /\ frame.kind # "chunk" => sdk = "ended"
    /\ pump = "closing" => sdk = "ended"
    /\ pw # "open" => sdk = "ended" /\ pump \in {"returning", "gone"}
    /\ pw = "open" /\ pump \in {"returning", "gone"} => prClosed
    /\ pw = "broken" => frame.kind = "error"
    /\ pw = "closed" => frame.kind # "error"
    /\ sdk = "offering" /\ offered = "chunk" => chunks >= 1
    /\ relay = "reading" => ~prClosed /\ end = "none"
    /\ relay = "reading" /\ pump # "gone" => ~esClosed

(* Everything was read, and the frame that ends the stream if it needs one.*)
AllRead ==
    \/ /\ IsFinal(frame)
       /\ Len(got) = chunks + 1 /\ got[chunks + 1] = frame
    \/ /\ frame.kind \in {"chunk", "none"}
       /\ err = "none" /\ protocol = "anthropic" /\ Len(got) = chunks

(* While the relay reads: what it has got, at each point of the pump.      *)
Progress ==
    relay = "reading" =>
        /\ \A n \in DOMAIN got : n <= chunks => got[n] = Chunk(n)
        /\ pump = "receiving" => Len(got) = Taken
        /\ pump = "writing" /\ frame.kind = "chunk" =>
              frame = Chunk(Taken) /\ Len(got) + 1 = Taken
        /\ pump = "writing" /\ frame.kind # "chunk" => IsFinal(frame) /\ Len(got) = chunks
        /\ pump \in {"closing", "returning", "gone"} => AllRead

(* After the end neither the stream nor what was read of it changes.       *)
Ended ==
    /\ end # "none" => sdk = "ended"
    /\ CleanEndIsComplete
    /\ FailureIsTold

BodyIInv == BodyTypeOK /\ Phases /\ Progress /\ ReadsWhatWasSent /\ Ended

-----------------------------------------------------------------------------
LEMMA FrameFacts ==
    /\ \A n \in Nat : Chunk(n) \in Frame /\ Chunk(n).kind = "chunk" /\ Chunk(n).n = n
    /\ \A e \in Exception : ErrorFrame(e) \in Frame
    /\ \A e : ErrorFrame(e).kind = "error"
    /\ DoneFrame \in Frame /\ DoneFrame.kind = "done"
    /\ NoFrame.kind = "none"
    /\ \A f \in Frame : f.kind \in {"chunk", "done", "error"}
<1>1. \A n \in Nat : Chunk(n) \in Frame /\ Chunk(n).kind = "chunk" /\ Chunk(n).n = n
  BY DEF Chunk, Frame
<1>2. \A e \in Exception : ErrorFrame(e) \in Frame
  BY Zenon DEF Frame
<1>3. \A e : ErrorFrame(e).kind = "error"
  BY DEF ErrorFrame
<1>4. DoneFrame \in Frame /\ DoneFrame.kind = "done"
  BY DEF DoneFrame, Frame
<1>5. NoFrame.kind = "none"
  BY DEF NoFrame
<1>6. \A f \in Frame : f.kind \in {"chunk", "done", "error"}
  BY <1>3 DEF Frame, DoneFrame
<1>. QED
  BY <1>1, <1>2, <1>3, <1>4, <1>5, <1>6

LEMMA BodyInitIInv == BodyInit => BodyIInv
<1> SUFFICES ASSUME BodyInit PROVE BodyIInv
  OBVIOUS
<1> USE InvokeStreamAssumption DEF BodyInit
<1>1. BodyTypeOK
  <2>1. chunks \in 0..MaxChunks
    OBVIOUS
  <2>2. esClosed \in BOOLEAN /\ prClosed \in BOOLEAN
    BY Zenon
  <2>3. err \in {"none"} \union Exception /\ frame \in Frame \union {NoFrame}
    BY Zenon
  <2>4. got \in Seq(Frame)
    OBVIOUS
  <2>. QED
    BY <2>1, <2>2, <2>3, <2>4 DEF BodyTypeOK
<1>2. Phases
  BY DEF Phases, NoFrame
<1>3. Progress
  BY DEF Progress, Taken
<1>4. ReadsWhatWasSent /\ Ended
  BY DEF ReadsWhatWasSent, Ended, CleanEndIsComplete, FailureIsTold
<1>. QED
  BY <1>1, <1>2, <1>3, <1>4 DEF BodyIInv

LEMMA SendChunkStep == BodyIInv /\ SendChunk => BodyIInv'
<1> SUFFICES ASSUME BodyIInv, SendChunk PROVE BodyIInv'
  OBVIOUS
<1> USE InvokeStreamAssumption DEF SendChunk, sdkVars, pipeVars, relayVars
<1>1. BodyTypeOK'
  BY FrameFacts DEF BodyIInv, BodyTypeOK
<1>2. Phases'
  BY FrameFacts DEF BodyIInv, BodyTypeOK, Phases
<1>3. Progress'
  BY FrameFacts DEF BodyIInv, BodyTypeOK, Phases, Progress, Taken, IsFinal, AllRead
<1>4. ReadsWhatWasSent'
  BY DEF BodyIInv, ReadsWhatWasSent
<1>5. Ended'
  BY DEF BodyIInv, Ended, CleanEndIsComplete, FailureIsTold, Phases
<1>. QED
  BY <1>1, <1>2, <1>3, <1>4, <1>5 DEF BodyIInv

LEMMA SendUnknownStep == BodyIInv /\ SendUnknown => BodyIInv'
<1> SUFFICES ASSUME BodyIInv, SendUnknown PROVE BodyIInv'
  OBVIOUS
<1> USE InvokeStreamAssumption DEF SendUnknown, sdkVars, pipeVars, relayVars
<1>1. BodyTypeOK'
  BY FrameFacts DEF BodyIInv, BodyTypeOK
<1>2. Phases'
  BY FrameFacts DEF BodyIInv, BodyTypeOK, Phases
<1>3. Progress'
  BY FrameFacts DEF BodyIInv, BodyTypeOK, Phases, Progress, Taken, IsFinal, AllRead
<1>4. ReadsWhatWasSent'
  BY DEF BodyIInv, ReadsWhatWasSent
<1>5. Ended'
  BY DEF BodyIInv, Ended, CleanEndIsComplete, FailureIsTold, Phases
<1>. QED
  BY <1>1, <1>2, <1>3, <1>4, <1>5 DEF BodyIInv

LEMMA StreamEndsStep == BodyIInv /\ StreamEnds => BodyIInv'
<1> SUFFICES ASSUME BodyIInv, StreamEnds PROVE BodyIInv'
  OBVIOUS
<1> USE InvokeStreamAssumption DEF StreamEnds, sdkVars, pipeVars, relayVars
<1>1. BodyTypeOK'
  BY FrameFacts DEF BodyIInv, BodyTypeOK
<1>2. Phases'
  BY FrameFacts DEF BodyIInv, BodyTypeOK, Phases
<1>3. Progress'
  BY FrameFacts DEF BodyIInv, BodyTypeOK, Phases, Progress, Taken, IsFinal, AllRead
<1>4. ReadsWhatWasSent'
  BY DEF BodyIInv, ReadsWhatWasSent
<1>5. Ended'
  BY DEF BodyIInv, Ended, CleanEndIsComplete, FailureIsTold, Phases
<1>. QED
  BY <1>1, <1>2, <1>3, <1>4, <1>5 DEF BodyIInv

LEMMA SdkStopsStep == BodyIInv /\ SdkStops => BodyIInv'
<1> SUFFICES ASSUME BodyIInv, SdkStops PROVE BodyIInv'
  OBVIOUS
<1> USE InvokeStreamAssumption DEF SdkStops, sdkVars, pipeVars, relayVars
<1>1. BodyTypeOK'
  BY FrameFacts DEF BodyIInv, BodyTypeOK
<1>2. Phases'
  BY FrameFacts DEF BodyIInv, BodyTypeOK, Phases
<1>3. Progress'
  BY FrameFacts DEF BodyIInv, BodyTypeOK, Phases, Progress, Taken, IsFinal, AllRead
<1>4. ReadsWhatWasSent'
  BY DEF BodyIInv, ReadsWhatWasSent
<1>5. Ended'
  BY DEF BodyIInv, Ended, CleanEndIsComplete, FailureIsTold, Phases
<1>. QED
  BY <1>1, <1>2, <1>3, <1>4, <1>5 DEF BodyIInv

LEMMA PumpReceiveStep == BodyIInv /\ PumpReceive => BodyIInv'
<1> SUFFICES ASSUME BodyIInv, PumpReceive PROVE BodyIInv'
  OBVIOUS
<1> USE InvokeStreamAssumption DEF PumpReceive, sdkVars, pipeVars, relayVars
<1>1. BodyTypeOK'
  BY FrameFacts DEF BodyIInv, BodyTypeOK
<1>2. Phases'
  BY FrameFacts DEF BodyIInv, BodyTypeOK, Phases
<1>3. Progress'
  BY FrameFacts DEF BodyIInv, BodyTypeOK, Phases, Progress, Taken, IsFinal, AllRead
<1>4. ReadsWhatWasSent'
  BY DEF BodyIInv, ReadsWhatWasSent
<1>5. Ended'
  BY DEF BodyIInv, Ended, CleanEndIsComplete, FailureIsTold, Phases
<1>. QED
  BY <1>1, <1>2, <1>3, <1>4, <1>5 DEF BodyIInv

LEMMA PumpEventsOverStep == BodyIInv /\ PumpEventsOver => BodyIInv'
<1> SUFFICES ASSUME BodyIInv, PumpEventsOver PROVE BodyIInv'
  OBVIOUS
<1> USE InvokeStreamAssumption DEF PumpEventsOver, sdkVars, pipeVars, relayVars
<1>1. BodyTypeOK'
  BY FrameFacts DEF BodyIInv, BodyTypeOK
<1>2. Phases'
  BY FrameFacts DEF BodyIInv, BodyTypeOK, Phases
<1>3. Progress'
  <2> SUFFICES ASSUME relay = "reading" PROVE Progress'
    BY DEF Progress
  <2>1. Len(got) = chunks /\ \A n \in DOMAIN got : n <= chunks => got[n] = Chunk(n)
    BY DEF BodyIInv, Progress, Taken
  <2>2. CASE err # "none" /\ pump' = "writing" /\ frame' = ErrorFrame(err)
    <3>1. frame'.kind = "error" /\ IsFinal(frame)'
      BY <2>2, FrameFacts DEF IsFinal
    <3>. QED
      BY <2>1, <2>2, <3>1 DEF Progress
  <2>3. CASE err = "none" /\ protocol = "openai_chat" /\ pump' = "writing" /\ frame' = DoneFrame
    <3>1. frame'.kind = "done" /\ IsFinal(frame)'
      BY <2>3, FrameFacts DEF IsFinal
    <3>. QED
      BY <2>1, <2>3, <3>1 DEF Progress
  <2>4. CASE err = "none" /\ protocol # "openai_chat" /\ pump' = "closing" /\ UNCHANGED frame
    <3>1. protocol = "anthropic"
      BY <2>4 DEF BodyIInv, BodyTypeOK
    <3>2. frame.kind \in {"chunk", "none"}
      BY DEF BodyIInv, Phases
    <3>. QED
      BY <2>1, <2>4, <3>1, <3>2 DEF Progress, AllRead
  <2>. QED
    BY <2>2, <2>3, <2>4
<1>4. ReadsWhatWasSent'
  BY DEF BodyIInv, ReadsWhatWasSent
<1>5. Ended'
  BY DEF BodyIInv, Ended, CleanEndIsComplete, FailureIsTold, Phases
<1>. QED
  BY <1>1, <1>2, <1>3, <1>4, <1>5 DEF BodyIInv

LEMMA TransferStep == BodyIInv /\ Transfer => BodyIInv'
<1> SUFFICES ASSUME BodyIInv, Transfer PROVE BodyIInv'
  OBVIOUS
<1> USE InvokeStreamAssumption DEF Transfer, AfterWrite, sdkVars, pipeVars, relayVars
<1>1. frame \in Frame /\ got \in Seq(Frame) /\ chunks \in Nat
  BY DEF BodyIInv, BodyTypeOK, Phases
<1>2. /\ got' \in Seq(Frame) /\ Len(got') = Len(got) + 1
      /\ got'[Len(got) + 1] = frame
      /\ \A n \in DOMAIN got : got'[n] = got[n]
  BY <1>1
<1>3. BodyTypeOK'
  BY <1>2 DEF BodyIInv, BodyTypeOK
<1>4. Phases'
  BY FrameFacts DEF BodyIInv, BodyTypeOK, Phases
<1>5. \A n \in DOMAIN got' : n = Len(got) + 1 \/ n \in DOMAIN got
  BY <1>1, <1>2
<1>6. Ended'
  BY DEF BodyIInv, Ended, CleanEndIsComplete, FailureIsTold, Phases
<1>7. CASE frame.kind = "chunk"
  <2>1. frame = Chunk(Taken) /\ Len(got) + 1 = Taken /\ Taken \in Nat
    BY <1>1, <1>7 DEF BodyIInv, Progress
  <2>2. frame.n = Len(got) + 1 /\ got'[Len(got) + 1] = Chunk(Len(got) + 1)
    BY <1>2, <2>1, FrameFacts
  <2>3. Progress'
    BY <1>2, <1>5, <1>7, <2>1, <2>2 DEF BodyIInv, Progress, Taken
  <2>4. \A n \in DOMAIN got : got[n].kind # "chunk" => FALSE
    BY <1>1, <2>1, FrameFacts DEF BodyIInv, Progress, Taken, Phases, BodyTypeOK
  <2>5. ReadsWhatWasSent'
    BY <1>2, <1>5, <1>7, <2>2, <2>4 DEF BodyIInv, ReadsWhatWasSent
  <2>. QED
    BY <1>3, <1>4, <1>6, <2>3, <2>5 DEF BodyIInv
<1>8. CASE frame.kind # "chunk"
  <2>1. IsFinal(frame) /\ Len(got) = chunks /\ sdk = "ended"
    BY <1>8 DEF BodyIInv, Progress, Phases
  <2>2. Progress'
    BY <1>1, <1>2, <1>5, <1>8, <2>1 DEF BodyIInv, Progress, AllRead, IsFinal
  <2>3. \A n \in DOMAIN got : got[n].kind = "chunk" /\ got[n].n = n
    BY <1>1, <2>1, FrameFacts DEF BodyIInv, Progress
  <2>4. ReadsWhatWasSent'
    BY <1>2, <1>5, <1>8, <2>3 DEF ReadsWhatWasSent
  <2>. QED
    BY <1>3, <1>4, <1>6, <2>2, <2>4 DEF BodyIInv
<1>. QED
  BY <1>7, <1>8

LEMMA PumpWriteFailsStep == BodyIInv /\ PumpWriteFails => BodyIInv'
<1> SUFFICES ASSUME BodyIInv, PumpWriteFails PROVE BodyIInv'
  OBVIOUS
<1> USE InvokeStreamAssumption DEF PumpWriteFails, sdkVars, pipeVars, relayVars
<1>1. BodyTypeOK'
  BY FrameFacts DEF BodyIInv, BodyTypeOK
<1>2. Phases'
  BY FrameFacts DEF BodyIInv, BodyTypeOK, Phases
<1>3. Progress'
  BY FrameFacts DEF BodyIInv, BodyTypeOK, Phases, Progress, Taken, IsFinal, AllRead
<1>4. ReadsWhatWasSent'
  BY DEF BodyIInv, ReadsWhatWasSent
<1>5. Ended'
  BY DEF BodyIInv, Ended, CleanEndIsComplete, FailureIsTold, Phases
<1>. QED
  BY <1>1, <1>2, <1>3, <1>4, <1>5 DEF BodyIInv

LEMMA PumpCloseStep == BodyIInv /\ PumpClose => BodyIInv'
<1> SUFFICES ASSUME BodyIInv, PumpClose PROVE BodyIInv'
  OBVIOUS
<1> USE InvokeStreamAssumption DEF PumpClose, sdkVars, pipeVars, relayVars
<1>1. BodyTypeOK'
  BY FrameFacts DEF BodyIInv, BodyTypeOK
<1>2. Phases'
  BY FrameFacts DEF BodyIInv, BodyTypeOK, Phases
<1>3. Progress'
  BY FrameFacts DEF BodyIInv, BodyTypeOK, Phases, Progress, Taken, IsFinal, AllRead
<1>4. ReadsWhatWasSent'
  BY DEF BodyIInv, ReadsWhatWasSent
<1>5. Ended'
  BY DEF BodyIInv, Ended, CleanEndIsComplete, FailureIsTold, Phases
<1>. QED
  BY <1>1, <1>2, <1>3, <1>4, <1>5 DEF BodyIInv

LEMMA PumpReturnStep == BodyIInv /\ PumpReturn => BodyIInv'
<1> SUFFICES ASSUME BodyIInv, PumpReturn PROVE BodyIInv'
  OBVIOUS
<1> USE InvokeStreamAssumption DEF PumpReturn, sdkVars, pipeVars, relayVars
<1>1. BodyTypeOK'
  BY FrameFacts DEF BodyIInv, BodyTypeOK
<1>2. Phases'
  BY FrameFacts DEF BodyIInv, BodyTypeOK, Phases
<1>3. Progress'
  BY FrameFacts DEF BodyIInv, BodyTypeOK, Phases, Progress, Taken, IsFinal, AllRead
<1>4. ReadsWhatWasSent'
  BY DEF BodyIInv, ReadsWhatWasSent
<1>5. Ended'
  BY DEF BodyIInv, Ended, CleanEndIsComplete, FailureIsTold, Phases
<1>. QED
  BY <1>1, <1>2, <1>3, <1>4, <1>5 DEF BodyIInv

LEMMA ReadEndStep == BodyIInv /\ ReadEnd => BodyIInv'
<1> SUFFICES ASSUME BodyIInv, ReadEnd PROVE BodyIInv'
  OBVIOUS
<1> USE InvokeStreamAssumption DEF ReadEnd, sdkVars, pipeVars, relayVars
<1>1. BodyTypeOK'
  BY FrameFacts DEF BodyIInv, BodyTypeOK
<1>2. Phases'
  BY FrameFacts DEF BodyIInv, BodyTypeOK, Phases
<1>3. Progress'
  BY FrameFacts DEF BodyIInv, BodyTypeOK, Phases, Progress, Taken, IsFinal, AllRead
<1>4. ReadsWhatWasSent'
  BY DEF BodyIInv, ReadsWhatWasSent
<1>5. Ended'
  <2>1. sdk = "ended" /\ AllRead
    BY DEF BodyIInv, Phases, Progress
  <2>2. \A n \in DOMAIN got : n <= chunks => got[n] = Chunk(n)
    BY DEF BodyIInv, Progress
  <2>3. DOMAIN got = 1..Len(got) /\ Len(got) \in Nat /\ chunks \in Nat
    BY DEF BodyIInv, BodyTypeOK
  <2>4. CASE pw = "closed"
    <3>1. end' = "eof" /\ frame.kind # "error"
      BY <2>4 DEF BodyIInv, Phases
    <3>2. /\ err = "none" /\ chunks <= Len(got)
          /\ \/ protocol = "openai_chat" /\ Len(got) = chunks + 1 /\ got[chunks + 1] = DoneFrame
             \/ protocol = "anthropic" /\ Len(got) = chunks
      <4>1. CASE IsFinal(frame) /\ Len(got) = chunks + 1 /\ got[chunks + 1] = frame
        <5>1. frame = DoneFrame /\ err = "none" /\ protocol = "openai_chat"
          BY <3>1, <4>1, FrameFacts DEF IsFinal
        <5>. QED
          BY <2>3, <4>1, <5>1
      <4>2. CASE err = "none" /\ protocol = "anthropic" /\ Len(got) = chunks
        BY <2>3, <4>2
      <4>. QED
        BY <2>1, <4>1, <4>2 DEF AllRead
    <3>3. \A n \in 1..chunks : got[n] = Chunk(n)
      <4> SUFFICES ASSUME NEW n \in 1..chunks PROVE got[n] = Chunk(n)
        OBVIOUS
      <4>1. chunks <= Len(got) /\ Len(got) \in Nat /\ chunks \in Nat
        BY <2>3, <3>2, Zenon
      <4>2. n \in 1..Len(got) /\ n <= chunks
        BY <4>1
      <4>. QED
        BY <2>2, <2>3, <4>2
    <3>4. CleanEndIsComplete'
      BY <3>1, <3>2, <3>3 DEF CleanEndIsComplete
    <3>. QED
      BY <2>1, <3>1, <3>4 DEF Ended, FailureIsTold
  <2>5. CASE pw # "closed"
    <3>1. end' = "error" /\ frame.kind = "error"
      BY <2>5 DEF BodyIInv, Phases, BodyTypeOK
    <3>2. FailureIsTold'
      BY <2>1, <3>1, FrameFacts DEF FailureIsTold, AllRead, IsFinal
    <3>. QED
      BY <2>1, <3>1, <3>2 DEF Ended, CleanEndIsComplete
  <2>. QED
    BY <2>4, <2>5
<1>. QED
  BY <1>1, <1>2, <1>3, <1>4, <1>5 DEF BodyIInv

LEMMA StopReadingStep == BodyIInv /\ StopReading => BodyIInv'
<1> SUFFICES ASSUME BodyIInv, StopReading PROVE BodyIInv'
  OBVIOUS
<1> USE InvokeStreamAssumption DEF StopReading, sdkVars, pipeVars, relayVars
<1>1. BodyTypeOK'
  BY FrameFacts DEF BodyIInv, BodyTypeOK
<1>2. Phases'
  BY FrameFacts DEF BodyIInv, BodyTypeOK, Phases
<1>3. Progress'
  BY FrameFacts DEF BodyIInv, BodyTypeOK, Phases, Progress, Taken, IsFinal, AllRead
<1>4. ReadsWhatWasSent'
  BY DEF BodyIInv, ReadsWhatWasSent
<1>5. Ended'
  BY DEF BodyIInv, Ended, CleanEndIsComplete, FailureIsTold, Phases
<1>. QED
  BY <1>1, <1>2, <1>3, <1>4, <1>5 DEF BodyIInv

LEMMA ClosePipeStep == BodyIInv /\ ClosePipe => BodyIInv'
<1> SUFFICES ASSUME BodyIInv, ClosePipe PROVE BodyIInv'
  OBVIOUS
<1> USE InvokeStreamAssumption DEF ClosePipe, sdkVars, pipeVars, relayVars
<1>1. BodyTypeOK'
  BY FrameFacts DEF BodyIInv, BodyTypeOK
<1>2. Phases'
  BY FrameFacts DEF BodyIInv, BodyTypeOK, Phases
<1>3. Progress'
  BY FrameFacts DEF BodyIInv, BodyTypeOK, Phases, Progress, Taken, IsFinal, AllRead
<1>4. ReadsWhatWasSent'
  BY DEF BodyIInv, ReadsWhatWasSent
<1>5. Ended'
  BY DEF BodyIInv, Ended, CleanEndIsComplete, FailureIsTold, Phases
<1>. QED
  BY <1>1, <1>2, <1>3, <1>4, <1>5 DEF BodyIInv

LEMMA CloseEsStep == BodyIInv /\ CloseEs => BodyIInv'
<1> SUFFICES ASSUME BodyIInv, CloseEs PROVE BodyIInv'
  OBVIOUS
<1> USE InvokeStreamAssumption DEF CloseEs, sdkVars, pipeVars, relayVars
<1>1. BodyTypeOK'
  BY FrameFacts DEF BodyIInv, BodyTypeOK
<1>2. Phases'
  BY FrameFacts DEF BodyIInv, BodyTypeOK, Phases
<1>3. Progress'
  BY FrameFacts DEF BodyIInv, BodyTypeOK, Phases, Progress, Taken, IsFinal, AllRead
<1>4. ReadsWhatWasSent'
  BY DEF BodyIInv, ReadsWhatWasSent
<1>5. Ended'
  BY DEF BodyIInv, Ended, CleanEndIsComplete, FailureIsTold, Phases
<1>. QED
  BY <1>1, <1>2, <1>3, <1>4, <1>5 DEF BodyIInv

-----------------------------------------------------------------------------
LEMMA BodyNextIInv == BodyIInv /\ [BodyNext]_bodyVars => BodyIInv'
<1>1. CASE BodyNext
  BY <1>1, SendChunkStep, SendUnknownStep, StreamEndsStep, SdkStopsStep, PumpReceiveStep,
     PumpEventsOverStep, TransferStep, PumpWriteFailsStep, PumpCloseStep, PumpReturnStep,
     ReadEndStep, StopReadingStep, ClosePipeStep, CloseEsStep
     DEF BodyNext, Pump, Body
<1>2. CASE UNCHANGED bodyVars
  BY <1>2 DEF bodyVars, sdkVars, pipeVars, relayVars, BodyIInv, BodyTypeOK, Phases, Progress, Taken,
     IsFinal, AllRead, ReadsWhatWasSent, Ended, CleanEndIsComplete, FailureIsTold
<1>. QED
  BY <1>1, <1>2

LEMMA BodyInvariant == BodySpec => []BodyIInv
<1>. QED
  BY BodyInitIInv, BodyNextIInv, PTL DEF BodySpec

(* Every variable keeps its type.                                          *)
THEOREM BodyTypeCorrect == BodySpec => []BodyTypeOK
<1>1. BodyIInv => BodyTypeOK
  BY DEF BodyIInv
<1>. QED
  BY <1>1, BodyInvariant, PTL

(* The reader gets the chunks from the first, in order, without a gap.     *)
THEOREM InOrder == BodySpec => []ReadsWhatWasSent
<1>1. BodyIInv => ReadsWhatWasSent
  BY DEF BodyIInv
<1>. QED
  BY <1>1, BodyInvariant, PTL

(* EOF is said only of a stream that came whole and without an exception.  *)
THEOREM CleanEnd == BodySpec => []CleanEndIsComplete
<1>1. BodyIInv => CleanEndIsComplete
  BY DEF BodyIInv, Ended
<1>. QED
  BY <1>1, BodyInvariant, PTL

(* A stream that failed is told to the client before the read fails.       *)
THEOREM Failure == BodySpec => []FailureIsTold
<1>1. BodyIInv => FailureIsTold
  BY DEF BodyIInv, Ended
<1>. QED
  BY <1>1, BodyInvariant, PTL
=============================================================================
