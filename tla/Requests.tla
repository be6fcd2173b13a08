------------------------------ MODULE Requests ------------------------------
(***************************************************************************)
(* One inference request through the gateway: Handler.ServeHTTP of         *)
(* internal/proxy/handler.go, from admission over the key-auth gate, the   *)
(* route lookup and the failover loop to the answer and the usage report.  *)
(*                                                                         *)
(* The request's context ends when request_timeout fires or the server     *)
(* notices that the client left, at any point of the handler.  Control     *)
(* plane and upstreams answer what they like, late, or never.  The relay   *)
(* of a response is one step here, with the outcomes RelayContract allows; *)
(* Relay models it event by event.                                         *)
(*                                                                         *)
(* A candidate is reduced to what the loop asks of it: how the provider is *)
(* reached ("none" if it is not configured, speaks no known protocol, has  *)
(* no endpoint for it, or the direction cannot be translated) and whether  *)
(* its protocol differs from the client's.                                 *)
(***************************************************************************)
EXTENDS Naturals, Sequences, SequencesExt, RelayContract

CONSTANTS
    MaxRoutes,            (* how many candidates a model's routes have      *)
    MaxFailoverAttempts,  (* cfg.Server.MaxFailoverAttempts                 *)
    Status                (* what upstreams answer with; 504 is one of them *)

ASSUME RequestsAssumption ==
    /\ MaxRoutes \in Nat
    /\ MaxFailoverAttempts \in Nat \ {0}

ASSUME StatusAssumption == Status \subseteq 100..999

VARIABLES
    pc,         \* where ServeHTTP is
    client,     \* "here", "stalled" (connected, but not reading) or "gone"
    ctxErr,     \* ctx.Err(): "none", "canceled" or "deadline"
    attempts,   \* the candidates to try, in order
    i,          \* the loop index
    lastCand,   \* index of the last candidate selected, 0 for nil
    lastErr,    \* why the last candidate failed
    sendErr,    \* the error the HTTP client returned
    upstream,   \* status of the response committed to, 0 before
    outcome,    \* relayResult, or NoOutcome
    contacted,  \* indices of the candidates that were sent the request
    answers,    \* statuses written to the client
    reports     \* usage reports handed to the meter

vars == <<pc, client, ctxErr, attempts, i, lastCand, lastErr, sendErr, upstream,
          outcome, contacted, answers, reports>>

Candidate == [via : {"none", "http", "invoke"}, translated : BOOLEAN]

NoOutcome == [status |-> 0, truncated |-> "none", billed |-> FALSE]
Outcome   == [status : Status \union {0, 499, 502, 504}, truncated : Truncations,
              billed : BOOLEAN]

Init ==
    /\ pc = "admission" /\ client = "here" /\ ctxErr = "none"
    /\ attempts = <<>> /\ i = 1 /\ lastCand = 0
    /\ lastErr = "none" /\ sendErr = "none" /\ upstream = 0
    /\ outcome = NoOutcome /\ contacted = <<>> /\ answers = <<>> /\ reports = <<>>

-----------------------------------------------------------------------------
(***************************************************************************)
(* The context.  It is made, and its timer started, after admission.       *)
(***************************************************************************)
(* What a client does.  Whether it reads matters only once a response is   *)
(* being written.                                                          *)
ClientMoves(to) ==
    /\ pc # "done" /\ client \notin {to, "gone"}
    /\ to = "stalled" => pc = "relay"
    /\ client' = to
    /\ UNCHANGED <<pc, ctxErr, attempts, i, lastCand, lastErr, sendErr, upstream, outcome,
                   contacted, answers, reports>>

ContextEnds(err) ==
    /\ pc \notin {"admission", "done"} /\ ctxErr = "none"
    /\ err = "canceled" => client = "gone"
    /\ ctxErr' = err
    /\ UNCHANGED <<pc, client, attempts, i, lastCand, lastErr, sendErr, upstream, outcome,
                   contacted, answers, reports>>

-----------------------------------------------------------------------------
(***************************************************************************)
(* Answering, and moving on to the next candidate.                         *)
(***************************************************************************)
Refuse(status) ==
    /\ answers' = Append(answers, status)
    /\ pc' = "done"

Continue(err) ==
    /\ lastErr' = err
    /\ i' = i + 1
    /\ pc' = "attempt"

(* Unknown path, method, missing key, oversized or unreadable body.        *)
RefuseRequest ==
    /\ pc = "admission"
    /\ \E status \in {404, 405, 401, 413, 400} : Refuse(status)
    /\ UNCHANGED <<client, ctxErr, attempts, i, lastCand, lastErr, sendErr, upstream, outcome,
                   contacted, reports>>

AdmitRequest ==
    /\ pc = "admission"
    /\ pc' = "keyAuth"
    /\ UNCHANGED <<client, ctxErr, attempts, i, lastCand, lastErr, sendErr, upstream, outcome,
                   contacted, answers, reports>>

(* The gate is closed when the control plane does not answer in time.      *)
KeyAuth ==
    /\ pc = "keyAuth"
    /\ \/ Refuse(503)
       \/ \E status \in {401, 403, 404, 429} : Refuse(status)    \* FromReject
       \/ pc' = "routing" /\ UNCHANGED answers
    /\ UNCHANGED <<client, ctxErr, attempts, i, lastCand, lastErr, sendErr, upstream, outcome,
                   contacted, reports>>

(* Attempts reads the current snapshot, whichever it is by now.            *)
Route ==
    /\ pc = "routing"
    /\ \E routes \in SeqOf(Candidate, MaxRoutes) :
        IF routes = <<>>
        THEN Refuse(404) /\ UNCHANGED attempts
        ELSE /\ attempts' = IF Len(routes) > MaxFailoverAttempts
                            THEN SubSeq(routes, 1, MaxFailoverAttempts) ELSE routes
             /\ pc' = "attempt"
             /\ UNCHANGED answers
    /\ UNCHANGED <<client, ctxErr, i, lastCand, lastErr, sendErr, upstream, outcome,
                   contacted, reports>>

-----------------------------------------------------------------------------
(***************************************************************************)
(* The failover loop.                                                      *)
(***************************************************************************)
Trying(p) == pc = p /\ i <= Len(attempts)

Skip ==
    /\ Trying("attempt") /\ attempts[i].via = "none"
    /\ Continue("skipped")
    /\ UNCHANGED <<client, ctxErr, attempts, lastCand, sendErr, upstream, outcome,
                   contacted, answers, reports>>

(* The inbound body does not translate: the client's fault, no failover.   *)
RefuseBody ==
    /\ Trying("attempt") /\ attempts[i].via # "none" /\ attempts[i].translated
    /\ lastCand' = i
    /\ Refuse(400)
    /\ UNCHANGED <<client, ctxErr, attempts, i, lastErr, sendErr, upstream, outcome,
                   contacted, reports>>

Select ==
    /\ Trying("attempt") /\ attempts[i].via # "none"
    /\ lastCand' = i
    /\ pc' = "send"
    /\ UNCHANGED <<client, ctxErr, attempts, i, lastErr, sendErr, upstream, outcome,
                   contacted, answers, reports>>

(* errBuildRequest: the request cannot be built for this endpoint.         *)
BuildFails ==
    /\ Trying("send") /\ attempts[i].via = "http"
    /\ Refuse(502)
    /\ UNCHANGED <<client, ctxErr, attempts, i, lastCand, lastErr, sendErr, upstream, outcome,
                   contacted, reports>>

(* errUpstreamAuth: credentials or signing failed, ctx is not looked at.   *)
AuthFails_GivesUp ==
    /\ Trying("send") /\ attempts[i].via = "http"
    /\ lastErr' = "auth"
    /\ pc' = "exhausted"
    /\ UNCHANGED <<client, ctxErr, attempts, i, lastCand, sendErr, upstream, outcome,
                   contacted, answers, reports>>

AuthFails ==
    /\ Trying("send") /\ attempts[i].via = "http"
    /\ Continue("auth")
    /\ UNCHANGED <<client, ctxErr, attempts, lastCand, sendErr, upstream, outcome,
                   contacted, answers, reports>>

Contact ==
    /\ Trying("send")
    /\ contacted' = Append(contacted, i)
    /\ pc' = "await"
    /\ UNCHANGED <<client, ctxErr, attempts, i, lastCand, lastErr, sendErr, upstream, outcome,
                   answers, reports>>

(* No response: refused, reset, or a dial or header timeout, whose error   *)
(* is a context.DeadlineExceeded to errors.Is.                             *)
TransportFails_DetachedContext(err) ==
    /\ Trying("send")
    /\ sendErr' = err
    /\ pc' = "failed"
    /\ UNCHANGED <<client, ctxErr, attempts, i, lastCand, lastErr, upstream, outcome,
                   contacted, answers, reports>>

TransportFails(err) ==
    /\ Trying("send") \/ Trying("await")
    /\ sendErr' = err
    /\ pc' = "failed"
    /\ UNCHANGED <<client, ctxErr, attempts, i, lastCand, lastErr, upstream, outcome,
                   contacted, answers, reports>>

(* Only then ctx is looked at, and may have ended in between.              *)
JudgeFailure ==
    /\ Trying("failed")
    /\ IF ctxErr # "none"
       THEN /\ lastErr' = ctxErr
            /\ pc' = "exhausted"
            /\ UNCHANGED i
       ELSE Continue(sendErr)
    /\ UNCHANGED <<client, ctxErr, attempts, lastCand, sendErr, upstream, outcome,
                   contacted, answers, reports>>

(* 429 and 5xx go to the next candidate if there is one; anything else is  *)
(* committed to.                                                           *)
Respond(status) ==
    /\ Trying("await")
    /\ IF (status = 429 \/ status >= 500) /\ i < Len(attempts)
       THEN Continue("status") /\ UNCHANGED upstream
       ELSE /\ upstream' = status
            /\ pc' = "relay"
            /\ UNCHANGED <<i, lastErr>>
    /\ UNCHANGED <<client, ctxErr, attempts, lastCand, sendErr, outcome, contacted, answers, reports>>

(* What the client gets of a cut response is the upstream's status.        *)
RelayResponse_GoesOn ==
    /\ Trying("relay")
    /\ \E o \in RelayOutcomes(upstream, attempts[i].translated, ctxErr, client = "gone") :
        /\ outcome' = o
        /\ answers' = Append(answers, IF o.truncated = "none" THEN o.status ELSE upstream)
        /\ IF o.truncated = "upstream_stream_error" /\ i < Len(attempts)
           THEN Continue("status")
           ELSE pc' = "report" /\ UNCHANGED <<i, lastErr>>
    /\ UNCHANGED <<client, ctxErr, attempts, lastCand, sendErr, upstream, contacted, reports>>

RelayResponse ==
    /\ Trying("relay")
    /\ \E o \in RelayOutcomes(upstream, attempts[i].translated, ctxErr, client = "gone") :
        /\ outcome' = o
        /\ answers' = Append(answers, IF o.truncated = "none" THEN o.status ELSE upstream)
    /\ pc' = "report"
    /\ UNCHANGED <<client, ctxErr, attempts, i, lastCand, lastErr, sendErr, upstream,
                   contacted, reports>>

-----------------------------------------------------------------------------
(***************************************************************************)
(* After the loop.                                                         *)
(***************************************************************************)
Report(status, cand, billed) ==
    reports' = Append(reports, [status |-> status, cand |-> cand, billed |-> billed])

(* Nothing was committed to: 504 if errors.Is calls the last error a       *)
(* deadline, else 502, reported if any candidate was selected.             *)
GiveUp_ReportsBadGateway ==
    /\ pc = "exhausted" \/ (pc = "attempt" /\ i > Len(attempts))
    /\ LET status == IF lastErr \in {"deadline", "timeout"} THEN 504 ELSE 502 IN
        /\ Refuse(status)
        /\ IF lastCand # 0 THEN Report(502, lastCand, FALSE) ELSE UNCHANGED reports
    /\ UNCHANGED <<client, ctxErr, attempts, i, lastCand, lastErr, sendErr, upstream, outcome,
                   contacted>>

GiveUp_AnyContextError ==
    /\ pc = "exhausted" \/ (pc = "attempt" /\ i > Len(attempts))
    /\ LET status == IF lastErr \in {"deadline", "timeout", "canceled"} THEN 504 ELSE 502 IN
        /\ Refuse(status)
        /\ IF lastCand # 0 THEN Report(status, lastCand, FALSE) ELSE UNCHANGED reports
    /\ UNCHANGED <<client, ctxErr, attempts, i, lastCand, lastErr, sendErr, upstream, outcome,
                   contacted>>

GiveUp ==
    /\ pc = "exhausted" \/ (pc = "attempt" /\ i > Len(attempts))
    /\ LET status == IF lastErr \in {"deadline", "timeout"} THEN 504 ELSE 502 IN
        /\ Refuse(status)
        /\ IF lastCand # 0 THEN Report(status, lastCand, FALSE) ELSE UNCHANGED reports
    /\ UNCHANGED <<client, ctxErr, attempts, i, lastCand, lastErr, sendErr, upstream, outcome,
                   contacted>>

ReportOutcome ==
    /\ Trying("report")
    /\ Report(outcome.status, i, outcome.billed)
    /\ pc' = "done"
    /\ UNCHANGED <<client, ctxErr, attempts, i, lastCand, lastErr, sendErr, upstream, outcome,
                   contacted, answers>>

-----------------------------------------------------------------------------
(* What the handler does without waiting for anybody, or with a bound on   *)
(* the wait: key-auth has a timeout, a body is read until ReadTimeout, and *)
(* a send whose context has ended fails.                                   *)
HandlerStep ==
    \/ RefuseRequest \/ AdmitRequest \/ KeyAuth \/ Route
    \/ Skip \/ RefuseBody \/ Select
    \/ (ctxErr # "none" /\ TransportFails("plain"))
    \/ JudgeFailure \/ GiveUp \/ ReportOutcome

(* What takes an upstream, or the credentials' provider, to happen.        *)
UpstreamStep ==
    \/ BuildFails \/ AuthFails \/ Contact
    \/ \E err \in {"plain", "timeout"} : TransportFails(err)
    \/ \E status \in Status : Respond(status)

Next ==
    \/ HandlerStep \/ UpstreamStep \/ RelayResponse
    \/ \E to \in {"here", "stalled", "gone"} : ClientMoves(to)
    \/ \E err \in {"canceled", "deadline"} : ContextEnds(err)

(***************************************************************************)
(* A relay ends as Relay shows: not while its client stalls, since a write *)
(* to the client has no deadline, not even request_timeout's.  A client    *)
(* that comes back to reading again and again takes what is written.       *)
(***************************************************************************)
Fairness ==
    /\ WF_vars(HandlerStep) /\ WF_vars(ContextEnds("deadline"))
    /\ SF_vars(client # "stalled" /\ RelayResponse)

Spec == Init /\ [][Next]_vars /\ Fairness

-----------------------------------------------------------------------------
(***************************************************************************)
(* Properties.                                                             *)
(***************************************************************************)
TypeOK ==
    /\ pc \in {"admission", "keyAuth", "routing", "attempt", "send", "await", "failed",
               "relay", "exhausted", "report", "done"}
    /\ client \in {"here", "stalled", "gone"} /\ ctxErr \in {"none", "canceled", "deadline"}
    /\ attempts \in Seq(Candidate) /\ Len(attempts) <= MaxFailoverAttempts
    /\ i \in 1..MaxFailoverAttempts + 1 /\ lastCand \in 0..Len(attempts)
    /\ lastErr \in {"none", "skipped", "auth", "status", "plain", "timeout", "canceled", "deadline"}
    /\ sendErr \in {"none", "plain", "timeout"}
    /\ upstream \in Status \union {0} /\ outcome \in Outcome
    /\ contacted \in Seq(1..Len(attempts))
    /\ answers \in Seq(Nat)
    /\ reports \in Seq([status : Nat, cand : 1..Len(attempts), billed : BOOLEAN])

(* A request gets one answer, whichever way through the loop it took, and  *)
(* is reported at most once, after it was answered.                        *)
AnsweredOnce ==
    /\ Len(answers) = (IF pc \in {"report", "done"} THEN 1 ELSE 0)
    /\ Len(reports) <= 1
    /\ reports # <<>> => pc = "done"

(* Candidates are contacted in their order, none twice, and none after the *)
(* client has been answered ("no failover after response relay begins").   *)
InOrderAndBeforeTheAnswer ==
    [][contacted' # contacted =>
        /\ answers = <<>> /\ upstream = 0
        /\ \E k \in DOMAIN attempts :
            /\ contacted' = Append(contacted, k)
            /\ \A n \in DOMAIN contacted : contacted[n] < k]_vars

(* The report says what the client saw, or why the response was cut short, *)
(* and names the candidate that was selected last.  Tokens are billed only *)
(* for a response of that candidate that reached the client whole.         *)
ReportMatchesAnswer ==
    \A n \in DOMAIN reports :
        LET r == reports[n] IN
        /\ r.cand = lastCand
        /\ outcome.truncated = "none" => r.status = answers[1]
        /\ outcome.truncated # "none" => answers[1] = upstream /\ r.status \in {499, 502, 504}
        /\ r.billed =>
            /\ outcome.truncated = "none" /\ r.status = upstream
            /\ contacted # <<>> /\ contacted[Len(contacted)] = r.cand

(* The gateway gives up while a servable candidate is still untried only   *)
(* because the request's time is over.                                     *)
GivesUpOnlyWhenExhausted ==
    [][GiveUp =>
        \/ ctxErr # "none"
        \/ \A k \in DOMAIN attempts : attempts[k].via # "none" => k <= lastCand]_vars

(* A reported 504 is the upstream's own, relayed whole, or tells of a      *)
(* deadline that passed or of a connection that timed out with nothing     *)
(* committed to: never of the client's departure, nor of a timeout of some *)
(* earlier attempt.                                                        *)
TimeoutIsRealTimeout ==
    \A n \in DOMAIN reports :
        reports[n].status = 504 =>
            \/ outcome.truncated = "none" /\ upstream = 504
            \/ outcome.truncated = "request_timeout" /\ ctxErr = "deadline"
            \/ upstream = 0 /\ \/ lastErr = "deadline" /\ ctxErr = "deadline"
                               \/ lastErr = "timeout" /\ sendErr = "timeout"

(* Whatever control plane and upstreams do, a request is answered and its  *)
(* handler returns: the waits are bounded by key_auth_timeout and          *)
(* request_timeout.  Only a client that never reads on keeps a relay.      *)
EndsUnlessRelayStalls ==
    <>(pc = "done") \/ <>[](pc = "relay" /\ client = "stalled")

(* control-plane.md: every request past key-auth is reported ("过了        *)
(* key-auth 的请求都上报").  One whose later candidate needs a translation *)
(* the body does not allow is refused without a report, although an        *)
(* earlier candidate was sent the request.                                 *)
SentIsReported == pc = "done" /\ contacted # <<>> => reports # <<>>
=============================================================================
