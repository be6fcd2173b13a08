------------------------------- MODULE Relay --------------------------------
(***************************************************************************)
(* One response on its way from an upstream to the client: relay and       *)
(* classifyTruncation of internal/proxy/handler.go, with Feed, Ended and   *)
(* Fail of translate.Stream.                                               *)
(*                                                                         *)
(* Four parties move on their own: the upstream, which sends SSE events    *)
(* and may end cleanly, break off, or stall; the client, which may stop    *)
(* reading or leave; the request's context, which the client's departure   *)
(* or request_timeout cancels; and the relay loop, which reads, meters and *)
(* writes one event at a time and in the end decides what to report.       *)
(*                                                                         *)
(* An event is one of                                                      *)
(*   "open"   the first event, which may carry the input-side usage        *)
(*   "text"   content                                                      *)
(*   "usage"  the event with the final usage                               *)
(*   "stop"   the protocol's terminal event                                *)
(*   "final"  a terminal event that carries the final usage                *)
(*   "error"  the protocol's error event                                   *)
(*   "bad"    an event the codec cannot decode or render                   *)
(* and the client receives "delta", "stop" or "error" when translating,    *)
(* the upstream's own events when passing through.                         *)
(***************************************************************************)
EXTENDS Naturals, Sequences, RelayContract

CONSTANT MaxEvents       (* how many events an upstream sends at most      *)

ASSUME RelayAssumption == MaxEvents \in Nat

VARIABLES
    resp,         \* the upstream response: sse?, translated?, status
    wire,         \* events sent and not yet read
    sent,         \* how many events were sent
    up,           \* the upstream body: "open", "eof" (clean end), "cut"
    client,       \* "reading", "stalled" or "gone"
    noticed,      \* the server has noticed that the client left (r.Context())
    ctxErr,       \* the request context's error; the first cause stays
    pc,           \* where relay is
    cur,          \* the event being handled, or NoEvent
    done,         \* the loop was left because the stream had ended
    ended,        \* translate.Stream.ended
    translateErr, \* relayResult.translateErr is set
    readErr,      \* sc.Err() is not nil
    clientErr,    \* fw.err: a write to the client failed
    upstreamErr,  \* relayResult.upstreamErr is set
    usage,        \* what the usage parser has found
    written,      \* what was written to the client
    status,       \* relayResult.status
    truncated     \* relayResult.truncated

upstreamVars == <<wire, sent, up>>
ctxVars      == <<client, noticed, ctxErr>>
errVars      == <<translateErr, readErr, clientErr, upstreamErr>>
resultVars   == <<status, truncated>>
vars == <<resp, upstreamVars, ctxVars, pc, cur, done, ended, errVars, usage, written, resultVars>>

Event == {"open", "text", "usage", "stop", "final", "error", "bad"}
NoEvent == "none"

Init ==
    /\ resp \in [sse : BOOLEAN, translated : BOOLEAN, status : {200, 400}]
    /\ wire = <<>> /\ sent = 0 /\ up = "open"
    /\ client = "reading" /\ noticed = FALSE /\ ctxErr = "none"
    /\ pc = "start" /\ cur = NoEvent /\ done = FALSE /\ ended = FALSE
    /\ translateErr = FALSE /\ readErr = FALSE /\ clientErr = FALSE /\ upstreamErr = FALSE
    /\ usage = "none" /\ written = <<>>
    /\ status = resp.status /\ truncated = "none"

-----------------------------------------------------------------------------
(***************************************************************************)
(* The environment: upstream, client, context.  Once relay has returned    *)
(* the request is over (defer cancel) and nothing of it matters.           *)
(***************************************************************************)
Running == pc # "done"

Send(e) ==
    /\ Running /\ up = "open" /\ resp.sse /\ sent < MaxEvents
    /\ wire' = Append(wire, e)
    /\ sent' = sent + 1
    /\ UNCHANGED <<resp, up, ctxVars, pc, cur, done, ended, errVars, usage, written, resultVars>>

EndBody(how) ==
    /\ Running /\ up = "open"
    /\ up' = how
    /\ UNCHANGED <<resp, wire, sent, ctxVars, pc, cur, done, ended, errVars, usage, written, resultVars>>

ClientMoves(to) ==
    /\ Running /\ client # "gone" /\ client # to
    /\ client' = to
    /\ UNCHANGED <<resp, upstreamVars, noticed, ctxErr, pc, cur, done, ended, errVars, usage, written, resultVars>>

(* net/http cancels r.Context() some time after the client has left.       *)
Notice ==
    /\ Running /\ client = "gone" /\ ~noticed
    /\ noticed' = TRUE
    /\ ctxErr' = IF ctxErr = "none" THEN "canceled" ELSE ctxErr
    /\ UNCHANGED <<resp, upstreamVars, client, pc, cur, done, ended, errVars, usage, written, resultVars>>

Deadline ==
    /\ Running /\ ctxErr = "none"
    /\ ctxErr' = "deadline"
    /\ UNCHANGED <<resp, upstreamVars, client, noticed, pc, cur, done, ended, errVars, usage, written, resultVars>>

-----------------------------------------------------------------------------
(***************************************************************************)
(* Writing to the client.  A write to a client that does not read waits;   *)
(* one to a client that left may fail or vanish in a buffer.  After a      *)
(* failed write flushWriter swallows everything.                           *)
(***************************************************************************)
CanWrite(items) == client # "stalled" \/ items = <<>> \/ clientErr

Write(items) ==
    /\ CanWrite(items)
    /\ \/ /\ clientErr \/ items = <<>>
          /\ UNCHANGED <<written, clientErr>>
       \/ /\ ~clientErr /\ items # <<>>
          /\ written' = written \o items
          /\ UNCHANGED clientErr
       \/ /\ ~clientErr /\ items # <<>> /\ client = "gone"
          /\ clientErr' = TRUE
          /\ UNCHANGED written

-----------------------------------------------------------------------------
(***************************************************************************)
(* A response that is no event stream is read whole, then answered.        *)
(***************************************************************************)

(* Read error or more than maxResponseBody: the gateway's own 502.         *)
BodyUnreadable ==
    /\ pc = "start" /\ ~resp.sse
    /\ up \in {"eof", "cut"} \/ ctxErr # "none"
    /\ status' = 502
    /\ written' = <<"error">>
    /\ pc' = "classify"
    /\ UNCHANGED <<resp, upstreamVars, ctxVars, cur, done, ended, errVars, usage, truncated>>

(* A complete body.  A translated error body is rendered anew by tr.Error; *)
(* a body that does not translate becomes the gateway's own 502.           *)
BodyComplete ==
    /\ pc = "start" /\ ~resp.sse /\ up = "eof"
    /\ pc' = "classify"
    /\ \/ /\ resp.translated
          /\ translateErr' = (resp.status = 200)
          /\ status' = IF resp.status = 200 THEN 502 ELSE resp.status
          /\ written' = <<"error">>
          /\ UNCHANGED <<clientErr, usage>>
       \/ /\ resp.translated => resp.status = 200
          /\ usage' \in IF resp.status = 200 THEN {"none", "final"} ELSE {"none"}
          /\ Write(<<"body">>)
          /\ UNCHANGED <<translateErr, status>>
    /\ UNCHANGED <<resp, upstreamVars, ctxVars, cur, done, ended, readErr, upstreamErr, truncated>>

-----------------------------------------------------------------------------
(***************************************************************************)
(* The streaming loop.                                                     *)
(***************************************************************************)
BeginStream ==
    /\ pc = "start" /\ resp.sse
    /\ pc' = "read"
    /\ UNCHANGED <<resp, upstreamVars, ctxVars, cur, done, ended, errVars, usage, written, resultVars>>

(* sc.Scan delivers the next complete event.                               *)
ReadEvent ==
    /\ pc = "read" /\ wire # <<>>
    /\ cur' = Head(wire)
    /\ wire' = Tail(wire)
    /\ pc' = "dispatch"
    /\ UNCHANGED <<resp, sent, up, ctxVars, done, ended, errVars, usage, written, resultVars>>

(* The input is over: everything was read, or the read fails, because the  *)
(* upstream broke off (or sent a line longer than the scanner takes) or    *)
(* the context is cancelled.  Lines of an event without its blank line, or *)
(* a torn one, may be left; dispatch runs once more on what is left.       *)
EndOfInput_IgnoresContext ==
    /\ pc = "read"
    /\ \/ /\ up = "eof" /\ wire = <<>>
          /\ UNCHANGED readErr
       \/ /\ up = "cut"
          /\ readErr' = TRUE
    /\ cur' \in {NoEvent} \union Event
    /\ pc' = "lastDispatch"
    /\ UNCHANGED <<resp, upstreamVars, ctxVars, done, ended, translateErr, clientErr, upstreamErr,
                   usage, written, resultVars>>

EndOfInput ==
    /\ pc = "read"
    /\ \/ /\ up = "eof" /\ wire = <<>>
          /\ UNCHANGED readErr
       \/ /\ up = "cut" \/ ctxErr # "none"
          /\ readErr' = TRUE
    /\ cur' \in {NoEvent} \union Event
    /\ pc' = "lastDispatch"
    /\ UNCHANGED <<resp, upstreamVars, ctxVars, done, ended, translateErr, clientErr, upstreamErr,
                   usage, written, resultVars>>

(* The usage parser: input side first, final numbers later.                *)
Metered(e) ==
    CASE e \in {"usage", "final"}     -> "final"
      [] e = "open" /\ usage = "none" -> "start"
      [] OTHER                        -> usage

(* translate.Stream.Feed, and Fail after a failed Feed: what the client    *)
(* gets for an event.                                                      *)
Rendered(e) ==
    IF ended THEN <<>>
    ELSE CASE e \in {"open", "text"}   -> <<"delta">>
           [] e \in {"stop", "final"}  -> <<"stop">>
           [] e \in {"error", "bad"}   -> <<"error">>
           [] OTHER                    -> <<>>

(* dispatch: meter the raw event, then pass it on or render it.            *)
Dispatch(e) ==
    /\ usage' = Metered(e)
    /\ IF resp.translated
       THEN /\ Write(Rendered(e))
            /\ ended' = (ended \/ e \in {"stop", "final", "error", "bad"})
            /\ translateErr' = (~ended /\ e = "bad")
       ELSE /\ Write(<<e>>)
            /\ UNCHANGED <<ended, translateErr>>

(* One turn of the loop.  A terminal event or a translation failure leaves *)
(* it; the scanner may have met a read error behind that event already.    *)
Turn ==
    /\ pc = "dispatch"
    /\ Dispatch(cur)
    /\ cur' = NoEvent
    /\ done' = ended'
    /\ pc' = IF done' THEN "lastDispatch" ELSE "read"
    /\ readErr' \in IF done' /\ (up = "cut" \/ ctxErr # "none") THEN BOOLEAN ELSE {readErr}
    /\ UNCHANGED <<resp, upstreamVars, ctxVars, upstreamErr, resultVars>>

(* dispatch once more after the loop, which leaves `done` alone.           *)
LastTurn ==
    /\ pc = "lastDispatch"
    /\ IF cur = NoEvent
       THEN UNCHANGED <<usage, ended, translateErr, written, clientErr>>
       ELSE Dispatch(cur)
    /\ pc' = "afterLoop"
    /\ UNCHANGED <<resp, upstreamVars, ctxVars, cur, done, readErr, upstreamErr, resultVars>>

(* What counts as the upstream's failure.  A translated stream that ended  *)
(* cleanly without a terminal event is closed with an error event (Fail),  *)
(* whose write, like any after a failed one, no longer counts as clientErr.*)
Close(fail) ==
    IF fail
    THEN /\ clientErr \/ client # "stalled"
         /\ written' \in (IF clientErr THEN {} ELSE {Append(written, "error")})
                           \union (IF clientErr \/ client = "gone" THEN {written} ELSE {})
         /\ ended' = TRUE
    ELSE UNCHANGED <<written, ended>>

AfterLoop_CountsReadErr ==
    /\ pc = "afterLoop"
    /\ LET unfinished == resp.translated /\ ~ended /\ ~readErr IN
        /\ Close(unfinished)
        /\ upstreamErr' = (translateErr \/ unfinished \/ readErr)
    /\ pc' = "classify"
    /\ UNCHANGED <<resp, upstreamVars, ctxVars, cur, done, translateErr, readErr, clientErr,
                   usage, resultVars>>

AfterLoop_ClosesEnded ==
    /\ pc = "afterLoop"
    /\ LET unfinished == resp.translated /\ ~done /\ ~readErr IN
        /\ Close(unfinished)
        /\ upstreamErr' = (translateErr \/ unfinished \/ (readErr /\ ~done))
    /\ pc' = "classify"
    /\ UNCHANGED <<resp, upstreamVars, ctxVars, cur, done, translateErr, readErr, clientErr,
                   usage, resultVars>>

AfterLoop ==
    /\ pc = "afterLoop"
    /\ LET unfinished == resp.translated /\ ~ended /\ ~readErr IN
        /\ Close(unfinished)
        /\ upstreamErr' = (translateErr \/ unfinished \/ (readErr /\ ~done))
    /\ pc' = "classify"
    /\ UNCHANGED <<resp, upstreamVars, ctxVars, cur, done, translateErr, readErr, clientErr,
                   usage, resultVars>>

-----------------------------------------------------------------------------
(***************************************************************************)
(* classifyTruncation, on what the contexts say at this moment.            *)
(***************************************************************************)
Cause_AnyContextError ==
    IF ctxErr # "none" THEN "request_timeout"
    ELSE IF clientErr \/ noticed THEN "client_disconnect"
    ELSE IF translateErr THEN "translation_error" ELSE "upstream_stream_error"

Cause ==
    IF ctxErr = "deadline" THEN "request_timeout"
    ELSE IF clientErr \/ noticed THEN "client_disconnect"
    ELSE IF translateErr THEN "translation_error" ELSE "upstream_stream_error"

Classify_IgnoresClient ==
    /\ pc = "classify"
    /\ pc' = "done"
    /\ IF upstreamErr
       THEN /\ truncated' = Cause
            /\ status' = TruncatedStatus(Cause)
            /\ usage' = "none"
       ELSE UNCHANGED <<truncated, status, usage>>
    /\ UNCHANGED <<resp, upstreamVars, ctxVars, cur, done, ended, errVars, written>>

Classify_KeepsUsage ==
    /\ pc = "classify"
    /\ pc' = "done"
    /\ IF upstreamErr \/ clientErr
       THEN /\ truncated' = Cause
            /\ status' = TruncatedStatus(Cause)
       ELSE UNCHANGED <<truncated, status>>
    /\ UNCHANGED <<resp, upstreamVars, ctxVars, cur, done, ended, errVars, written, usage>>

Classify ==
    /\ pc = "classify"
    /\ pc' = "done"
    /\ IF upstreamErr \/ clientErr
       THEN /\ truncated' = Cause
            /\ status' = TruncatedStatus(Cause)
            /\ usage' = "none"
       ELSE UNCHANGED <<truncated, status, usage>>
    /\ UNCHANGED <<resp, upstreamVars, ctxVars, cur, done, ended, errVars, written>>

-----------------------------------------------------------------------------
RelayStep ==
    \/ BodyUnreadable \/ BodyComplete
    \/ BeginStream \/ ReadEvent \/ EndOfInput \/ Turn \/ LastTurn
    \/ AfterLoop \/ Classify

Environment ==
    \/ \E e \in Event : Send(e)
    \/ \E how \in {"eof", "cut"} : EndBody(how)
    \/ \E to \in {"reading", "stalled", "gone"} : ClientMoves(to)
    \/ Notice \/ Deadline

Next == RelayStep \/ Environment

(***************************************************************************)
(* The handler goroutine runs whenever it can, request_timeout fires in    *)
(* the end.  Upstream and client owe nothing; the fairness of RelayStep is *)
(* strong because a client that comes back to reading, again and again,    *)
(* takes what a write has waiting for it.                                  *)
(***************************************************************************)
Fairness == SF_vars(RelayStep) /\ WF_vars(Deadline)

Spec == Init /\ [][Next]_vars /\ Fairness

-----------------------------------------------------------------------------
(***************************************************************************)
(* Properties.                                                             *)
(***************************************************************************)
Terminal == {"stop", "error"}
Streams  == resp.sse /\ pc = "done"
Billed   == usage # "none"

TypeOK ==
    /\ wire \in Seq(Event) /\ sent \in 0..MaxEvents
    /\ up \in {"open", "eof", "cut"}
    /\ client \in {"reading", "stalled", "gone"} /\ noticed \in BOOLEAN
    /\ ctxErr \in {"none", "canceled", "deadline"}
    /\ pc \in {"start", "read", "dispatch", "lastDispatch", "afterLoop", "classify", "done"}
    /\ cur \in Event \union {NoEvent}
    /\ {done, ended, translateErr, readErr, clientErr, upstreamErr} \subseteq BOOLEAN
    /\ usage \in {"none", "start", "final"}
    /\ written \in Seq(Event \union {"delta", "body"})
    /\ status \in {200, 400, 499, 502, 504} /\ truncated \in Truncations

(* The result handed to the request is one the contract allows.            *)
WithinContract ==
    pc = "done" =>
        [status |-> status, truncated |-> truncated, billed |-> Billed]
            \in RelayOutcomes(resp.status, resp.translated, ctxErr, client = "gone")

(* Tokens are billed only for a response the client took in full as far as *)
(* the gateway can tell: no write failed, and the stream ended cleanly or  *)
(* the client has its terminal event.                                      *)
BilledOnlyWhenTaken ==
    pc = "done" /\ Billed =>
        /\ ~clientErr /\ ~translateErr
        /\ resp.sse /\ ~resp.translated => up = "eof"
        /\ resp.sse /\ resp.translated => written # <<>> /\ written[Len(written)] \in Terminal
        /\ ~resp.sse => written = <<"body">>

(* A translated stream left because its terminal event was delivered is    *)
(* not called cut short, whatever happens to connection, context and       *)
(* upstream in the moment after (the comment on `done`, handler.go).       *)
DeliveredIsNotTruncated ==
    (Streams /\ done /\ written # <<>> /\ written[Len(written)] = "stop" /\ ~clientErr)
        => truncated = "none" /\ status = resp.status

(* The client of a translated stream sees one terminal event at most, and  *)
(* nothing after it; and it does see one whenever the upstream's stream    *)
(* could be read to its end, also when that left the terminal event out.   *)
OneTerminal ==
    resp.translated /\ resp.sse =>
        /\ \A n \in DOMAIN written : written[n] \in Terminal => n = Len(written)
        /\ (pc = "done" /\ client # "gone" /\ ~readErr)
              => written # <<>> /\ written[Len(written)] \in Terminal

(* Who is blamed for a cut: a client only if it left, the timeout only if  *)
(* it fired, the upstream only if it broke off or left out the end.        *)
BlameIsRight ==
    /\ truncated = "client_disconnect" => client = "gone"
    /\ truncated = "request_timeout" => ctxErr = "deadline"
    /\ truncated = "upstream_stream_error" =>
          up # "open" /\ ~noticed /\ ctxErr # "deadline"

(* Whatever the upstream does, the relay ends, unless the client stays     *)
(* connected and never reads again: then even request_timeout, which       *)
(* main.go relies on instead of a WriteTimeout, does not end the write.    *)
EndsUnlessClientStalls ==
    <>(pc = "done") \/ <>[](client = "stalled")

(* classifyTruncation: "marks streams that did not run to completion. Such *)
(* records must not be billed".  A translated stream whose upstream        *)
(* reports an error is not marked: the error event counts as the end.      *)
FailedStreamIsNotBilled ==
    (Streams /\ resp.translated /\ written # <<>> /\ written[Len(written)] = "error")
        => ~Billed
=============================================================================
