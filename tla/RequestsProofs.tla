--------------------------- MODULE RequestsProofs ---------------------------
(***************************************************************************)
(* Proofs about one request, for every number of routes and every          *)
(* max_failover_attempts.                                                  *)
(*                                                                         *)
(* Answer, report and the last candidate's error are set at different      *)
(* points of a loop that may be left at most of them; what ties them       *)
(* together is how far ServeHTTP is (pc) and which index it is at.         *)
(***************************************************************************)
EXTENDS Requests, TLAPS

LEMMA StatusFacts == Status \subseteq Nat /\ 0 \notin Status
  BY StatusAssumption

LEMMA OutcomeType ==
    ASSUME NEW o \in Outcome
    PROVE  o.status \in Nat /\ o.billed \in BOOLEAN
<1> DEFINE Codes == Status \union {0, 499, 502, 504}
<1>1. Codes \subseteq Nat
  BY StatusFacts
<1>2. o \in [status : Codes, truncated : Truncations, billed : BOOLEAN]
  BY DEF Outcome
<1> HIDE DEF Codes
<1>. QED
  BY <1>1, <1>2

(* What is known of index, candidate and outcome at each point.            *)
Stage ==
    /\ pc \in {"admission", "keyAuth", "routing"} =>
          /\ attempts = <<>> /\ i = 1 /\ lastCand = 0 /\ contacted = <<>>
          /\ lastErr = "none"
    /\ pc = "attempt" => i <= Len(attempts) + 1 /\ lastCand < i
    /\ pc \in {"send", "await", "failed", "relay", "exhausted", "report"} =>
          i <= Len(attempts) /\ lastCand = i
    /\ pc \notin {"relay", "report", "done"} => upstream = 0
    /\ pc \in {"relay", "report"} => upstream \in Status
    /\ pc \notin {"report", "done"} => outcome = NoOutcome

(* Every servable candidate before the index was selected, and the request *)
(* was sent to candidates up to the index only.                            *)
Tried ==
    /\ \A k \in DOMAIN attempts : k < i /\ attempts[k].via # "none" => k <= lastCand
    /\ \A n \in DOMAIN contacted : contacted[n] <= i
    /\ pc \in {"attempt", "send"} => \A n \in DOMAIN contacted : contacted[n] < i
    /\ pc \in {"await", "relay", "report"} =>
          contacted # <<>> /\ contacted[Len(contacted)] = i

(* lastErr says "deadline" only if the context said so, and "timeout" only *)
(* if the error it was taken from did.                                     *)
Errors ==
    /\ lastErr = "deadline" => ctxErr = "deadline"
    /\ pc \in {"attempt", "send", "await"} /\ lastErr = "timeout" => sendErr = "timeout"
    /\ pc = "exhausted" => ctxErr # "none" /\ lastErr = ctxErr

(* What is to be reported of a response, and what was answered.            *)
Result ==
    pc = "report" =>
        /\ outcome.billed => outcome.truncated = "none" /\ outcome.status = upstream
        /\ outcome.status = 504 =>
              \/ outcome.truncated = "none" /\ upstream = 504
              \/ outcome.truncated = "request_timeout" /\ ctxErr = "deadline"
        /\ outcome.truncated = "none" => answers[1] = outcome.status
        /\ outcome.truncated # "none" =>
              answers[1] = upstream /\ outcome.status \in {499, 502, 504}

IInv ==
    /\ TypeOK /\ Stage /\ Tried /\ Errors
    /\ AnsweredOnce /\ Result
    /\ ReportMatchesAnswer /\ TimeoutIsRealTimeout

-----------------------------------------------------------------------------
LEMMA RefuseAnswers ==
    ASSUME TypeOK, NEW status \in Nat, Refuse(status)
    PROVE  answers' = Append(answers, status) /\ answers' \in Seq(Nat) /\ pc' = "done"
  BY DEF TypeOK, Refuse

LEMMA ClientMovesStep ==
    ASSUME IInv, NEW to \in {"here", "stalled", "gone"}, ClientMoves(to)
    PROVE  IInv'
<1> USE RequestsAssumption DEF ClientMoves, Refuse, Continue, Trying, Report, Candidate, NoOutcome
<1>1. TypeOK'
  BY DEF IInv, TypeOK, Stage, Outcome, Truncations
<1>2. Stage'
  BY DEF IInv, TypeOK, Stage
<1>3. Tried'
  BY DEF IInv, TypeOK, Stage, Tried
<1>4. Errors'
  BY DEF IInv, TypeOK, Stage, Errors
<1>5. AnsweredOnce' /\ Result'
  BY DEF IInv, TypeOK, AnsweredOnce, Result
<1>6. ReportMatchesAnswer' /\ TimeoutIsRealTimeout'
  BY DEF IInv, TypeOK, AnsweredOnce, ReportMatchesAnswer, TimeoutIsRealTimeout
<1>. QED
  BY <1>1, <1>2, <1>3, <1>4, <1>5, <1>6 DEF IInv

LEMMA ContextEndsStep ==
    ASSUME IInv, NEW err \in {"canceled", "deadline"}, ContextEnds(err)
    PROVE  IInv'
<1> USE RequestsAssumption DEF ContextEnds, Refuse, Continue, Trying, Report, Candidate, NoOutcome
<1>1. TypeOK'
  BY DEF IInv, TypeOK, Stage, Outcome, Truncations
<1>2. Stage'
  BY DEF IInv, TypeOK, Stage
<1>3. Tried'
  BY DEF IInv, TypeOK, Stage, Tried
<1>4. Errors'
  BY DEF IInv, TypeOK, Stage, Errors
<1>5. AnsweredOnce' /\ Result'
  BY DEF IInv, TypeOK, AnsweredOnce, Result
<1>6. ReportMatchesAnswer' /\ TimeoutIsRealTimeout'
  BY DEF IInv, TypeOK, AnsweredOnce, ReportMatchesAnswer, TimeoutIsRealTimeout
<1>. QED
  BY <1>1, <1>2, <1>3, <1>4, <1>5, <1>6 DEF IInv

LEMMA RefuseRequestStep ==
    ASSUME IInv, RefuseRequest
    PROVE  IInv'
<1> USE RequestsAssumption DEF RefuseRequest, Refuse, Continue, Trying, Report, Candidate, NoOutcome
<1>1. TypeOK'
  BY DEF IInv, TypeOK, Stage, Outcome, Truncations
<1>2. Stage'
  BY DEF IInv, TypeOK, Stage
<1>3. Tried'
  BY DEF IInv, TypeOK, Stage, Tried
<1>4. Errors'
  BY DEF IInv, TypeOK, Stage, Errors
<1>5. AnsweredOnce' /\ Result'
  BY DEF IInv, TypeOK, AnsweredOnce, Result
<1>6. ReportMatchesAnswer' /\ TimeoutIsRealTimeout'
  BY DEF IInv, TypeOK, AnsweredOnce, ReportMatchesAnswer, TimeoutIsRealTimeout
<1>. QED
  BY <1>1, <1>2, <1>3, <1>4, <1>5, <1>6 DEF IInv

LEMMA AdmitRequestStep ==
    ASSUME IInv, AdmitRequest
    PROVE  IInv'
<1> USE RequestsAssumption DEF AdmitRequest, Refuse, Continue, Trying, Report, Candidate, NoOutcome
<1>1. TypeOK'
  BY DEF IInv, TypeOK, Stage, Outcome, Truncations
<1>2. Stage'
  BY DEF IInv, TypeOK, Stage
<1>3. Tried'
  BY DEF IInv, TypeOK, Stage, Tried
<1>4. Errors'
  BY DEF IInv, TypeOK, Stage, Errors
<1>5. AnsweredOnce' /\ Result'
  BY DEF IInv, TypeOK, AnsweredOnce, Result
<1>6. ReportMatchesAnswer' /\ TimeoutIsRealTimeout'
  BY DEF IInv, TypeOK, AnsweredOnce, ReportMatchesAnswer, TimeoutIsRealTimeout
<1>. QED
  BY <1>1, <1>2, <1>3, <1>4, <1>5, <1>6 DEF IInv

LEMMA KeyAuthStep ==
    ASSUME IInv, KeyAuth
    PROVE  IInv'
<1> USE RequestsAssumption DEF KeyAuth, Refuse, Continue, Trying, Report, Candidate, NoOutcome
<1>1. TypeOK'
  <2>1. answers' \in Seq(Nat)
    <3> HIDE DEF Refuse
    <3>1. answers' = answers \/ \E status \in Nat : Refuse(status)
      OBVIOUS
    <3>. QED
      BY <3>1, RefuseAnswers DEF IInv, TypeOK
  <2>. QED
    BY <2>1 DEF IInv, TypeOK
<1>2. Stage'
  BY DEF IInv, TypeOK, Stage
<1>3. Tried'
  BY DEF IInv, TypeOK, Stage, Tried
<1>4. Errors'
  BY DEF IInv, TypeOK, Stage, Errors
<1>5. AnsweredOnce' /\ Result'
  BY DEF IInv, TypeOK, AnsweredOnce, Result
<1>6. ReportMatchesAnswer' /\ TimeoutIsRealTimeout'
  BY DEF IInv, TypeOK, AnsweredOnce, ReportMatchesAnswer, TimeoutIsRealTimeout
<1>. QED
  BY <1>1, <1>2, <1>3, <1>4, <1>5, <1>6 DEF IInv

LEMMA RouteStep ==
    ASSUME IInv, Route
    PROVE  IInv'
<1> USE RequestsAssumption DEF Route, Refuse, Continue, Trying, Report, Candidate, NoOutcome
<1>1. TypeOK'
  <2>1. attempts' \in Seq(Candidate) /\ Len(attempts') <= MaxFailoverAttempts
    <3>1. CASE pc' = "attempt"
      <4> PICK routes \in SeqOf(Candidate, MaxRoutes) :
              attempts' = IF Len(routes) > MaxFailoverAttempts
                          THEN SubSeq(routes, 1, MaxFailoverAttempts) ELSE routes
        BY <3>1
      <4> HIDE DEF Candidate
      <4>1. routes \in Seq(Candidate)
        BY DEF SeqOf
      <4>. QED
        BY <4>1
    <3>2. CASE pc' # "attempt"
      BY <3>2 DEF IInv, TypeOK
    <3>. QED
      BY <3>1, <3>2
  <2>2. contacted' = <<>> /\ reports' = <<>> /\ lastCand' = 0
    BY DEF IInv, Stage, AnsweredOnce, TypeOK
  <2>3. answers' \in Seq(Nat)
    <3> HIDE DEF Refuse
    <3>1. answers' = answers \/ Refuse(404)
      OBVIOUS
    <3>. QED
      BY <3>1, RefuseAnswers DEF IInv, TypeOK
  <2>4. pc' \in {"attempt", "done"}
    OBVIOUS
  <2> HIDE DEF Route, Candidate
  <2>5. UNCHANGED <<client, ctxErr, i, lastErr, sendErr, upstream, outcome>>
    BY DEF Route
  <2>. QED
    BY <2>1, <2>2, <2>3, <2>4, <2>5 DEF IInv, TypeOK
<1>2. Stage'
  BY DEF IInv, TypeOK, Stage
<1>3. Tried'
  BY DEF IInv, TypeOK, Stage, Tried
<1>4. Errors'
  BY DEF IInv, TypeOK, Stage, Errors
<1>5. AnsweredOnce' /\ Result'
  BY DEF IInv, TypeOK, AnsweredOnce, Result
<1>6. ReportMatchesAnswer' /\ TimeoutIsRealTimeout'
  BY DEF IInv, TypeOK, AnsweredOnce, ReportMatchesAnswer, TimeoutIsRealTimeout
<1>. QED
  BY <1>1, <1>2, <1>3, <1>4, <1>5, <1>6 DEF IInv

LEMMA SkipStep ==
    ASSUME IInv, Skip
    PROVE  IInv'
<1> USE RequestsAssumption DEF Skip, Refuse, Continue, Trying, Report, Candidate, NoOutcome
<1>1. TypeOK'
  BY DEF IInv, TypeOK, Stage, Outcome, Truncations
<1>2. Stage'
  BY DEF IInv, TypeOK, Stage
<1>3. Tried'
  BY DEF IInv, TypeOK, Stage, Tried
<1>4. Errors'
  BY DEF IInv, TypeOK, Stage, Errors
<1>5. AnsweredOnce' /\ Result'
  BY DEF IInv, TypeOK, AnsweredOnce, Result
<1>6. ReportMatchesAnswer' /\ TimeoutIsRealTimeout'
  BY DEF IInv, TypeOK, AnsweredOnce, ReportMatchesAnswer, TimeoutIsRealTimeout
<1>. QED
  BY <1>1, <1>2, <1>3, <1>4, <1>5, <1>6 DEF IInv

LEMMA RefuseBodyStep ==
    ASSUME IInv, RefuseBody
    PROVE  IInv'
<1> USE RequestsAssumption DEF RefuseBody, Refuse, Continue, Trying, Report, Candidate, NoOutcome
<1>1. TypeOK'
  BY DEF IInv, TypeOK, Stage, Outcome, Truncations
<1>2. Stage'
  BY DEF IInv, TypeOK, Stage
<1>3. Tried'
  BY DEF IInv, TypeOK, Stage, Tried
<1>4. Errors'
  BY DEF IInv, TypeOK, Stage, Errors
<1>5. AnsweredOnce' /\ Result'
  BY DEF IInv, TypeOK, AnsweredOnce, Result
<1>6. ReportMatchesAnswer' /\ TimeoutIsRealTimeout'
  BY DEF IInv, TypeOK, AnsweredOnce, ReportMatchesAnswer, TimeoutIsRealTimeout
<1>. QED
  BY <1>1, <1>2, <1>3, <1>4, <1>5, <1>6 DEF IInv

LEMMA SelectStep ==
    ASSUME IInv, Select
    PROVE  IInv'
<1> USE RequestsAssumption DEF Select, Refuse, Continue, Trying, Report, Candidate, NoOutcome
<1>1. TypeOK'
  BY DEF IInv, TypeOK, Stage, Outcome, Truncations
<1>2. Stage'
  BY DEF IInv, TypeOK, Stage
<1>3. Tried'
  BY DEF IInv, TypeOK, Stage, Tried
<1>4. Errors'
  BY DEF IInv, TypeOK, Stage, Errors
<1>5. AnsweredOnce' /\ Result'
  BY DEF IInv, TypeOK, AnsweredOnce, Result
<1>6. ReportMatchesAnswer' /\ TimeoutIsRealTimeout'
  BY DEF IInv, TypeOK, AnsweredOnce, ReportMatchesAnswer, TimeoutIsRealTimeout
<1>. QED
  BY <1>1, <1>2, <1>3, <1>4, <1>5, <1>6 DEF IInv

LEMMA BuildFailsStep ==
    ASSUME IInv, BuildFails
    PROVE  IInv'
<1> USE RequestsAssumption DEF BuildFails, Refuse, Continue, Trying, Report, Candidate, NoOutcome
<1>1. TypeOK'
  BY DEF IInv, TypeOK, Stage, Outcome, Truncations
<1>2. Stage'
  BY DEF IInv, TypeOK, Stage
<1>3. Tried'
  BY DEF IInv, TypeOK, Stage, Tried
<1>4. Errors'
  BY DEF IInv, TypeOK, Stage, Errors
<1>5. AnsweredOnce' /\ Result'
  BY DEF IInv, TypeOK, AnsweredOnce, Result
<1>6. ReportMatchesAnswer' /\ TimeoutIsRealTimeout'
  BY DEF IInv, TypeOK, AnsweredOnce, ReportMatchesAnswer, TimeoutIsRealTimeout
<1>. QED
  BY <1>1, <1>2, <1>3, <1>4, <1>5, <1>6 DEF IInv

LEMMA AuthFailsStep ==
    ASSUME IInv, AuthFails
    PROVE  IInv'
<1> USE RequestsAssumption DEF AuthFails, Refuse, Continue, Trying, Report, Candidate, NoOutcome
<1>1. TypeOK'
  BY DEF IInv, TypeOK, Stage, Outcome, Truncations
<1>2. Stage'
  BY DEF IInv, TypeOK, Stage
<1>3. Tried'
  BY DEF IInv, TypeOK, Stage, Tried
<1>4. Errors'
  BY DEF IInv, TypeOK, Stage, Errors
<1>5. AnsweredOnce' /\ Result'
  BY DEF IInv, TypeOK, AnsweredOnce, Result
<1>6. ReportMatchesAnswer' /\ TimeoutIsRealTimeout'
  BY DEF IInv, TypeOK, AnsweredOnce, ReportMatchesAnswer, TimeoutIsRealTimeout
<1>. QED
  BY <1>1, <1>2, <1>3, <1>4, <1>5, <1>6 DEF IInv

LEMMA ContactStep ==
    ASSUME IInv, Contact
    PROVE  IInv'
<1> USE RequestsAssumption DEF Contact, Refuse, Continue, Trying, Report, Candidate, NoOutcome
<1>1. TypeOK'
  BY DEF IInv, TypeOK, Stage, Outcome, Truncations
<1>2. Stage'
  BY DEF IInv, TypeOK, Stage
<1>3. Tried'
  <2>1. /\ contacted' = Append(contacted, i) /\ Len(contacted') = Len(contacted) + 1
        /\ contacted' # <<>> /\ contacted'[Len(contacted')] = i
        /\ \A n \in DOMAIN contacted' : contacted'[n] = i \/ n \in DOMAIN contacted
        /\ \A n \in DOMAIN contacted : contacted'[n] = contacted[n] /\ contacted[n] < i
    <3>1. contacted \in Seq(1..Len(attempts)) /\ contacted' = Append(contacted, i)
      BY DEF IInv, TypeOK
    <3>2. \A n \in DOMAIN contacted : contacted[n] < i
      BY DEF IInv, Tried
    <3> HIDE DEF Contact
    <3>. QED
      BY <3>1, <3>2
  <2>2. \A n \in DOMAIN contacted' : contacted'[n] <= i
    BY <2>1 DEF IInv, TypeOK, Tried
  <2>. QED
    BY <2>1, <2>2 DEF IInv, Tried
<1>4. Errors'
  BY DEF IInv, TypeOK, Stage, Errors
<1>5. AnsweredOnce' /\ Result'
  BY DEF IInv, TypeOK, AnsweredOnce, Result
<1>6. ReportMatchesAnswer' /\ TimeoutIsRealTimeout'
  BY DEF IInv, TypeOK, AnsweredOnce, ReportMatchesAnswer, TimeoutIsRealTimeout
<1>. QED
  BY <1>1, <1>2, <1>3, <1>4, <1>5, <1>6 DEF IInv

LEMMA TransportFailsStep ==
    ASSUME IInv, NEW err \in {"plain", "timeout"}, TransportFails(err)
    PROVE  IInv'
<1> USE RequestsAssumption DEF TransportFails, Refuse, Continue, Trying, Report, Candidate, NoOutcome
<1>1. TypeOK'
  BY DEF IInv, TypeOK, Stage, Outcome, Truncations
<1>2. Stage'
  BY DEF IInv, TypeOK, Stage
<1>3. Tried'
  BY DEF IInv, TypeOK, Stage, Tried
<1>4. Errors'
  BY DEF IInv, TypeOK, Stage, Errors
<1>5. AnsweredOnce' /\ Result'
  BY DEF IInv, TypeOK, AnsweredOnce, Result
<1>6. ReportMatchesAnswer' /\ TimeoutIsRealTimeout'
  BY DEF IInv, TypeOK, AnsweredOnce, ReportMatchesAnswer, TimeoutIsRealTimeout
<1>. QED
  BY <1>1, <1>2, <1>3, <1>4, <1>5, <1>6 DEF IInv

LEMMA JudgeFailureStep ==
    ASSUME IInv, JudgeFailure
    PROVE  IInv'
<1> USE RequestsAssumption DEF JudgeFailure, Refuse, Continue, Trying, Report, Candidate, NoOutcome
<1>1. TypeOK'
  BY DEF IInv, TypeOK, Stage, Outcome, Truncations
<1>2. Stage'
  <2>1. /\ i <= Len(attempts) /\ lastCand = i /\ i \in Nat /\ Len(attempts) \in Nat
        /\ outcome = NoOutcome /\ upstream = 0
        /\ UNCHANGED <<attempts, lastCand, outcome, upstream>>
    BY DEF IInv, TypeOK, Stage
  <2>2. \/ pc' = "attempt" /\ i' = i + 1
        \/ pc' = "exhausted" /\ i' = i
    OBVIOUS
  <2> HIDE DEF JudgeFailure, NoOutcome
  <2>. QED
    BY <2>1, <2>2 DEF Stage
<1>3. Tried'
  <2>1. UNCHANGED <<attempts, lastCand, contacted>> /\ i \in Nat /\ lastCand = i /\ i' \in {i, i + 1}
    BY DEF IInv, TypeOK, Stage
  <2>2. \A k \in DOMAIN attempts' : k < i' /\ attempts'[k].via # "none" => k <= lastCand'
    <3>1. \A k \in DOMAIN attempts : k \in Nat
      BY DEF IInv, TypeOK
    <3>. QED
      BY <2>1, <3>1
  <2>3. \A n \in DOMAIN contacted : contacted[n] \in Nat /\ contacted[n] <= i
    BY DEF IInv, TypeOK, Tried
  <2>4. \A n \in DOMAIN contacted' : contacted'[n] <= i'
    BY <2>1, <2>3
  <2>5. pc' \in {"attempt", "send"} => \A n \in DOMAIN contacted' : contacted'[n] < i'
    <3>1. pc' \in {"attempt", "send"} => i' = i + 1
      OBVIOUS
    <3>. QED
      BY <2>1, <2>3, <3>1
  <2>6. pc' \in {"await", "relay", "report"} => contacted' # <<>> /\ contacted'[Len(contacted')] = i'
    BY <2>1 DEF IInv, Tried
  <2>. QED
    BY <2>2, <2>4, <2>5, <2>6 DEF Tried
<1>4. Errors'
  BY DEF IInv, TypeOK, Stage, Errors
<1>5. AnsweredOnce' /\ Result'
  BY DEF IInv, TypeOK, AnsweredOnce, Result
<1>6. ReportMatchesAnswer' /\ TimeoutIsRealTimeout'
  BY DEF IInv, TypeOK, AnsweredOnce, ReportMatchesAnswer, TimeoutIsRealTimeout
<1>. QED
  BY <1>1, <1>2, <1>3, <1>4, <1>5, <1>6 DEF IInv

LEMMA RespondStep ==
    ASSUME IInv, NEW st \in Status, Respond(st)
    PROVE  IInv'
<1> USE RequestsAssumption DEF Respond, Refuse, Continue, Trying, Report, Candidate, NoOutcome
<1>1. TypeOK'
  BY DEF IInv, TypeOK, Stage, Outcome, Truncations
<1>2. Stage'
  <2>1. /\ i <= Len(attempts) /\ lastCand = i /\ i \in Nat /\ Len(attempts) \in Nat
        /\ outcome = NoOutcome /\ upstream = 0
        /\ UNCHANGED <<attempts, lastCand, outcome>>
    BY DEF IInv, TypeOK, Stage
  <2>2. \/ pc' = "attempt" /\ i' = i + 1 /\ upstream' = 0
        \/ pc' = "relay" /\ i' = i /\ upstream' \in Status
    BY <2>1
  <2> HIDE DEF Respond, NoOutcome
  <2>. QED
    BY <2>1, <2>2 DEF Stage
<1>3. Tried'
  <2>1. UNCHANGED <<attempts, lastCand, contacted>> /\ i \in Nat /\ lastCand = i /\ i' \in {i, i + 1}
        /\ (pc' = "relay" => i' = i)
    BY DEF IInv, TypeOK, Stage
  <2>0. \/ pc' = "attempt" /\ i' = i + 1
        \/ pc' = "relay" /\ pc = "await"
    OBVIOUS
  <2> HIDE DEF Respond
  <2>2. \A k \in DOMAIN attempts' : k < i' /\ attempts'[k].via # "none" => k <= lastCand'
    <3>1. \A k \in DOMAIN attempts : k \in Nat
      BY DEF IInv, TypeOK
    <3>. QED
      BY <2>1, <3>1
  <2>3. \A n \in DOMAIN contacted : contacted[n] \in Nat /\ contacted[n] <= i
    BY DEF IInv, TypeOK, Tried
  <2>4. \A n \in DOMAIN contacted' : contacted'[n] <= i'
    BY <2>1, <2>3
  <2>5. pc' \in {"attempt", "send"} => \A n \in DOMAIN contacted' : contacted'[n] < i'
    <3>1. pc' \in {"attempt", "send"} => i' = i + 1
      BY <2>0
    <3>. QED
      BY <2>1, <2>3, <3>1
  <2>6. pc' \in {"await", "relay", "report"} => contacted' # <<>> /\ contacted'[Len(contacted')] = i'
    <3>1. pc' \in {"await", "relay", "report"} => i' = i /\ pc = "await"
      BY <2>0, <2>1
    <3>. QED
      BY <2>1, <3>1 DEF IInv, Tried
  <2>. QED
    BY <2>2, <2>4, <2>5, <2>6 DEF Tried
<1>4. Errors'
  BY DEF IInv, TypeOK, Stage, Errors
<1>5. AnsweredOnce' /\ Result'
  BY DEF IInv, TypeOK, AnsweredOnce, Result
<1>6. ReportMatchesAnswer' /\ TimeoutIsRealTimeout'
  BY DEF IInv, TypeOK, AnsweredOnce, ReportMatchesAnswer, TimeoutIsRealTimeout
<1>. QED
  BY <1>1, <1>2, <1>3, <1>4, <1>5, <1>6 DEF IInv

(* What relay may hand back, in the terms of the report.                   *)
LEMMA OutcomeFacts ==
    ASSUME NEW s \in Status, NEW translated \in BOOLEAN, NEW e \in {"none", "canceled", "deadline"},
           NEW gone \in BOOLEAN, NEW o \in RelayOutcomes(s, translated, e, gone)
    PROVE  /\ o \in Outcome
           /\ o.billed => o.truncated = "none" /\ o.status = s
           /\ o.status = 504 => \/ o.truncated = "none" /\ s = 504
                                \/ o.truncated = "request_timeout" /\ e = "deadline"
           /\ o.truncated # "none" => o.status \in {499, 502, 504}
<1> DEFINE Codes == Status \union {0, 499, 502, 504}
<1>a. s \in Codes /\ 499 \in Codes /\ 502 \in Codes /\ 504 \in Codes
  OBVIOUS
<1>b. Outcome = [status : Codes, truncated : Truncations, billed : BOOLEAN]
  BY DEF Outcome
<1>c. "none" \in Truncations
  BY DEF Truncations
<1> HIDE DEF Codes
<1>1. CASE o \in [status : {s}, truncated : {"none"}, billed : BOOLEAN]
  <2>1. o.status = s /\ o.truncated = "none"
    BY <1>1
  <2>2. o \in Outcome
    BY <1>1, <1>a, <1>b, <1>c
  <2>3. o.status = 504 => o.truncated = "none" /\ s = 504
    BY <2>1
  <2>4. o.truncated # "none" => o.status \in {499, 502, 504}
    BY <2>1
  <2>5. o.billed => o.truncated = "none" /\ o.status = s
    BY <2>1
  <2>. QED
    BY <2>2, <2>3, <2>4, <2>5, Zenon
<1>2. CASE o \in [status : {502}, truncated : {"none"}, billed : {FALSE}]
  <2>1. o = [status |-> 502, truncated |-> "none", billed |-> FALSE]
    BY <1>2
  <2>2. o.status = 502 /\ o.truncated = "none" /\ o.billed = FALSE
    BY <2>1
  <2>3. o \in Outcome
    BY <2>1, <1>a, <1>b, <1>c
  <2>4. o.status # 504
    BY <2>2
  <2>. QED
    BY <2>2, <2>3, <2>4
<1>3. ASSUME NEW c \in Causes(translated, e, gone),
             o = [status |-> TruncatedStatus(c), truncated |-> c, billed |-> FALSE]
      PROVE  /\ o \in Outcome /\ o.billed = FALSE
             /\ o.status \in {499, 502, 504}
             /\ o.status = 504 => o.truncated = "request_timeout" /\ e = "deadline"
  <2>1. c \in Truncations /\ (c = "request_timeout" => e = "deadline")
    BY DEF Causes, Truncations
  <2>2. /\ TruncatedStatus(c) \in {499, 502, 504} /\ TruncatedStatus(c) \in Codes
        /\ TruncatedStatus(c) = 504 => c = "request_timeout"
    BY <1>a DEF TruncatedStatus
  <2>3. o \in Outcome
    BY <1>3, <1>b, <2>1, <2>2
  <2>. QED
    BY <1>3, <2>1, <2>2, <2>3
<1>4. CASE o \in {[status |-> TruncatedStatus(c), truncated |-> c, billed |-> FALSE] :
                    c \in Causes(translated, e, gone)}
  <2>1. PICK c \in Causes(translated, e, gone) :
            o = [status |-> TruncatedStatus(c), truncated |-> c, billed |-> FALSE]
    BY <1>4
  <2>. QED
    BY <1>3, <2>1
<1>. QED
  BY <1>1, <1>2, <1>4, Zenon DEF RelayOutcomes

LEMMA RelayResponseStep ==
    ASSUME IInv, RelayResponse
    PROVE  IInv'
<1> USE RequestsAssumption DEF RelayResponse, Refuse, Continue, Trying, Report, Candidate, NoOutcome
<1>0. PICK o \in RelayOutcomes(upstream, attempts[i].translated, ctxErr, client = "gone") :
          /\ outcome' = o
          /\ answers' = Append(answers, IF o.truncated = "none" THEN o.status ELSE upstream)
  OBVIOUS
<1>a. /\ upstream \in Status /\ attempts[i].translated \in BOOLEAN /\ answers = <<>>
      /\ ctxErr \in {"none", "canceled", "deadline"}
  <2>1. i \in DOMAIN attempts /\ attempts \in Seq(Candidate)
    BY DEF IInv, TypeOK, Stage
  <2>2. attempts[i].translated \in BOOLEAN
    <3>1. \A c \in Candidate : c.translated \in BOOLEAN
      OBVIOUS
    <3> HIDE DEF RelayResponse, Candidate
    <3>2. attempts[i] \in Candidate
      BY <2>1
    <3>. QED
      BY <3>1, <3>2
  <2>3. upstream \in Status /\ ctxErr \in {"none", "canceled", "deadline"}
    BY DEF IInv, TypeOK, Stage
  <2>4. answers = <<>>
    BY DEF IInv, TypeOK, AnsweredOnce
  <2>. QED
    BY <2>2, <2>3, <2>4
<1>b. /\ o \in Outcome
      /\ o.billed => o.truncated = "none" /\ o.status = upstream
      /\ o.status = 504 => \/ o.truncated = "none" /\ upstream = 504
                           \/ o.truncated = "request_timeout" /\ ctxErr = "deadline"
      /\ o.truncated # "none" => o.status \in {499, 502, 504}
  <2> DEFINE tr == attempts[i].translated
             gone == client = "gone"
  <2>1. tr \in BOOLEAN /\ gone \in BOOLEAN /\ o \in RelayOutcomes(upstream, tr, ctxErr, gone)
    BY <1>a
  <2> HIDE DEF RelayResponse, tr, gone
  <2>. QED
    BY <1>a, <2>1, OutcomeFacts
<1>c. answers' = <<IF o.truncated = "none" THEN o.status ELSE upstream>>
  BY <1>0, <1>a
<1>1. TypeOK'
  <2>1. o.status \in Nat /\ upstream \in Nat
    BY <1>a, <1>b, StatusFacts, OutcomeType
  <2>2. answers' \in Seq(Nat)
    <3> DEFINE seen == IF o.truncated = "none" THEN o.status ELSE upstream
    <3>1. seen \in Nat /\ answers' = <<seen>>
      BY <1>c, <2>1
    <3> HIDE DEF seen, RelayResponse
    <3>. QED
      BY <3>1
  <2>3. outcome' \in Outcome
    BY <1>0, <1>b
  <2> HIDE DEF Candidate
  <2>. QED
    BY <2>2, <2>3 DEF IInv, TypeOK
<1>2. Stage'
  BY DEF IInv, TypeOK, Stage
<1>3. Tried'
  BY DEF IInv, TypeOK, Stage, Tried
<1>4. Errors'
  BY DEF IInv, TypeOK, Stage, Errors
<1>5. AnsweredOnce' /\ Result'
  <2>1. AnsweredOnce'
    BY <1>c DEF IInv, AnsweredOnce
  <2>2. Result'
    BY <1>0, <1>b, <1>c DEF Result
  <2>. QED
    BY <2>1, <2>2
<1>6. ReportMatchesAnswer' /\ TimeoutIsRealTimeout'
  BY DEF IInv, TypeOK, AnsweredOnce, ReportMatchesAnswer, TimeoutIsRealTimeout
<1>. QED
  BY <1>1, <1>2, <1>3, <1>4, <1>5, <1>6 DEF IInv

LEMMA GiveUpStep ==
    ASSUME IInv, GiveUp
    PROVE  IInv'
<1> USE RequestsAssumption DEF GiveUp, Refuse, Continue, Trying, Report, Candidate, NoOutcome
<1> DEFINE errStatus == IF lastErr \in {"deadline", "timeout"} THEN 504 ELSE 502
<1>0. /\ errStatus \in {502, 504} /\ answers = <<>> /\ reports = <<>> /\ outcome = NoOutcome
      /\ answers' = <<errStatus>> /\ pc' = "done"
      /\ UNCHANGED <<client, ctxErr, attempts, i, lastCand, lastErr, sendErr, upstream,
                     outcome, contacted>>
  <2>1. answers = <<>> /\ reports = <<>> /\ outcome = NoOutcome
    BY DEF IInv, TypeOK, Stage, AnsweredOnce
  <2>2. errStatus \in {502, 504}
    OBVIOUS
  <2>3. answers' = Append(answers, errStatus)
    OBVIOUS
  <2>4. answers' = <<errStatus>>
    BY <2>1, <2>3
  <2> HIDE DEF NoOutcome, errStatus
  <2>. QED
    BY <2>1, <2>2, <2>4
<1>a. reports' = IF lastCand # 0 THEN <<[status |-> errStatus, cand |-> lastCand, billed |-> FALSE]>>
                 ELSE <<>>
  BY <1>0
<1>b. /\ upstream = 0
      /\ errStatus = 504 => \/ lastErr = "deadline" /\ ctxErr = "deadline"
                            \/ lastErr = "timeout" /\ sendErr = "timeout"
  <2>1. errStatus = 504 => lastErr \in {"deadline", "timeout"}
    OBVIOUS
  <2>2. pc \in {"attempt", "exhausted"} /\ ctxErr # "timeout" /\ upstream = 0
    BY DEF IInv, TypeOK, Stage
  <2> HIDE DEF errStatus, GiveUp
  <2>. QED
    BY <2>1, <2>2 DEF IInv, Errors
<1> HIDE DEF errStatus
<1>1. TypeOK'
  <2>1. answers' \in Seq(Nat)
    BY <1>0
  <2>2. reports' \in Seq([status : Nat, cand : 1..Len(attempts), billed : BOOLEAN])
    <3> DEFINE r == [status |-> errStatus, cand |-> lastCand, billed |-> FALSE]
    <3>1. errStatus \in Nat
      BY <1>0
    <3>2. lastCand # 0 => r \in [status : Nat, cand : 1..Len(attempts), billed : BOOLEAN]
      BY <3>1 DEF IInv, TypeOK
    <3>3. reports' = IF lastCand # 0 THEN <<r>> ELSE <<>>
      BY <1>a
    <3> HIDE DEF r, GiveUp, errStatus
    <3>4. CASE lastCand # 0
      BY <1>0, <3>2, <3>3, <3>4
    <3>5. CASE lastCand = 0
      BY <3>3, <3>5
    <3>. QED
      BY <3>4, <3>5
  <2> HIDE DEF GiveUp, Candidate, NoOutcome
  <2>. QED
    BY <1>0, <2>1, <2>2 DEF IInv, TypeOK
<1>2. Stage'
  BY DEF IInv, TypeOK, Stage
<1>3. Tried'
  BY DEF IInv, TypeOK, Stage, Tried
<1>4. Errors'
  BY DEF IInv, TypeOK, Stage, Errors
<1>5. AnsweredOnce' /\ Result'
  BY DEF IInv, TypeOK, AnsweredOnce, Result
<1>6. ReportMatchesAnswer' /\ TimeoutIsRealTimeout'
  <2>1. \A n \in DOMAIN reports' :
            n = 1 /\ reports'[n] = [status |-> errStatus, cand |-> lastCand, billed |-> FALSE]
    <3> DEFINE r == [status |-> errStatus, cand |-> lastCand, billed |-> FALSE]
    <3>0. reports' = IF lastCand # 0 THEN <<r>> ELSE <<>>
      BY <1>a
    <3> HIDE DEF GiveUp
    <3>1. CASE lastCand # 0
      <4> SUFFICES \A n \in DOMAIN reports' : n = 1 /\ reports'[n] = r
        OBVIOUS
      <4> HIDE DEF r
      <4>. QED
        BY <3>0, <3>1
    <3>2. CASE lastCand = 0
      BY <1>a, <3>2
    <3>. QED
      BY <3>1, <3>2
  <2>2. outcome'.truncated = "none" /\ answers'[1] = errStatus /\ lastCand' = lastCand
    BY <1>0
  <2> HIDE DEF GiveUp
  <2>3. ReportMatchesAnswer'
    BY <2>1, <2>2 DEF ReportMatchesAnswer
  <2>4. TimeoutIsRealTimeout'
    <3>1. UNCHANGED <<lastErr, ctxErr, sendErr, upstream>>
      BY <1>0
    <3>2. ASSUME NEW n \in DOMAIN reports'
          PROVE  reports'[n].status = errStatus
      <4> DEFINE r == [status |-> errStatus, cand |-> lastCand, billed |-> FALSE]
      <4>1. r.status = errStatus /\ reports'[n] = r
        BY <2>1
      <4> HIDE DEF r
      <4>. QED
        BY <4>1
    <3>. QED
      BY <1>b, <3>1, <3>2 DEF TimeoutIsRealTimeout
  <2>. QED
    BY <2>3, <2>4
<1>. QED
  BY <1>1, <1>2, <1>3, <1>4, <1>5, <1>6 DEF IInv

LEMMA ReportOutcomeStep ==
    ASSUME IInv, ReportOutcome
    PROVE  IInv'
<1> USE RequestsAssumption DEF ReportOutcome, Refuse, Continue, Trying, Report, Candidate, NoOutcome
<1>1. TypeOK'
  <2> DEFINE r == [status |-> outcome.status, cand |-> i, billed |-> outcome.billed]
             Reported == [status : Nat, cand : 1..Len(attempts), billed : BOOLEAN]
  <2>1. outcome.status \in Nat /\ outcome.billed \in BOOLEAN
    BY OutcomeType DEF IInv, TypeOK
  <2>2. i \in 1..Len(attempts)
    BY DEF IInv, TypeOK, Stage
  <2>3. r \in Reported
    BY <2>1, <2>2
  <2>4. reports' = Append(reports, r) /\ reports \in Seq(Reported)
    BY DEF IInv, TypeOK
  <2>5. reports' \in Seq(Reported)
    <3> HIDE DEF r, Reported, ReportOutcome
    <3>. QED
      BY <2>3, <2>4
  <2> HIDE DEF r
  <2>. QED
    BY <2>5 DEF IInv, TypeOK
<1>2. Stage'
  BY DEF IInv, TypeOK, Stage
<1>3. Tried'
  BY DEF IInv, TypeOK, Stage, Tried
<1>4. Errors'
  BY DEF IInv, TypeOK, Stage, Errors
<1>5. AnsweredOnce' /\ Result'
  BY DEF IInv, TypeOK, AnsweredOnce, Result
<1>6. ReportMatchesAnswer' /\ TimeoutIsRealTimeout'
  <2>1. reports = <<>> /\ lastCand = i
    BY DEF IInv, TypeOK, AnsweredOnce, Stage
  <2>2. \A n \in DOMAIN reports' :
            n = 1 /\ reports'[n] = [status |-> outcome.status, cand |-> i, billed |-> outcome.billed]
    BY <2>1
  <2>3. /\ contacted # <<>> /\ contacted[Len(contacted)] = i
        /\ Result /\ pc = "report"
        /\ UNCHANGED <<outcome, answers, contacted, upstream, lastCand, lastErr, ctxErr, sendErr>>
    BY DEF IInv, Tried
  <2> HIDE DEF ReportOutcome
  <2>4. ReportMatchesAnswer'
    BY <2>1, <2>2, <2>3 DEF Result, ReportMatchesAnswer
  <2>5. TimeoutIsRealTimeout'
    BY <2>2, <2>3 DEF Result, TimeoutIsRealTimeout
  <2>. QED
    BY <2>4, <2>5
<1>. QED
  BY <1>1, <1>2, <1>3, <1>4, <1>5, <1>6 DEF IInv

-----------------------------------------------------------------------------
LEMMA InitIInv == Init => IInv
<1> SUFFICES ASSUME Init PROVE IInv
  OBVIOUS
<1> USE RequestsAssumption DEF Init
<1>1. TypeOK
  <2>1. attempts \in Seq(Candidate) /\ Len(attempts) <= MaxFailoverAttempts
    OBVIOUS
  <2>2. i \in 1..MaxFailoverAttempts + 1 /\ lastCand \in 0..Len(attempts)
    OBVIOUS
  <2>3. upstream \in Status \union {0} /\ outcome \in Outcome
    BY DEF NoOutcome, Outcome, Truncations
  <2>4. contacted \in Seq(1..Len(attempts)) /\ answers \in Seq(Nat)
        /\ reports \in Seq([status : Nat, cand : 1..Len(attempts), billed : BOOLEAN])
    OBVIOUS
  <2>. QED
    BY <2>1, <2>2, <2>3, <2>4 DEF TypeOK
<1>2. Stage /\ Tried /\ Errors
  BY DEF Stage, Tried, Errors
<1>3. AnsweredOnce /\ Result /\ ReportMatchesAnswer /\ TimeoutIsRealTimeout
  BY DEF AnsweredOnce, Result, ReportMatchesAnswer, TimeoutIsRealTimeout
<1>. QED
  BY <1>1, <1>2, <1>3 DEF IInv

LEMMA NextIInv == IInv /\ [Next]_vars => IInv'
<1> SUFFICES ASSUME IInv, [Next]_vars PROVE IInv'
  OBVIOUS
<1>1. CASE HandlerStep
  <2>1. ASSUME TransportFails("plain") PROVE IInv'
    BY <2>1, TransportFailsStep
  <2>. QED
    BY <1>1, <2>1, RefuseRequestStep, AdmitRequestStep, KeyAuthStep, RouteStep, SkipStep,
       RefuseBodyStep, SelectStep, JudgeFailureStep, GiveUpStep,
       ReportOutcomeStep DEF HandlerStep
<1>2. CASE UpstreamStep
  BY <1>2, BuildFailsStep, AuthFailsStep, ContactStep, TransportFailsStep, RespondStep
     DEF UpstreamStep
<1>3. CASE \/ \E to \in {"here", "stalled", "gone"} : ClientMoves(to)
           \/ \E err \in {"canceled", "deadline"} : ContextEnds(err)
  BY <1>3, ClientMovesStep, ContextEndsStep
<1>4. CASE UNCHANGED vars
  <2>1. TypeOK' /\ Stage' /\ Tried' /\ Errors'
    BY <1>4 DEF vars, IInv, TypeOK, Stage, Tried, Errors
  <2>2. AnsweredOnce' /\ Result' /\ ReportMatchesAnswer' /\ TimeoutIsRealTimeout'
    BY <1>4 DEF vars, IInv, AnsweredOnce, Result, ReportMatchesAnswer, TimeoutIsRealTimeout
  <2>. QED
    BY <2>1, <2>2 DEF IInv
<1>. QED
  BY <1>1, <1>2, <1>3, <1>4, RelayResponseStep DEF Next

LEMMA InvariantHolds == Spec => []IInv
  BY InitIInv, NextIInv, PTL DEF Spec

-----------------------------------------------------------------------------
(* Every variable keeps its type; the index stays within the attempts.     *)
THEOREM TypeCorrect == Spec => []TypeOK
<1>1. IInv => TypeOK
  BY DEF IInv
<1>. QED
  BY <1>1, InvariantHolds, PTL

(* One answer and at most one report, whichever way through ServeHTTP.     *)
THEOREM OneAnswer == Spec => []AnsweredOnce
<1>1. IInv => AnsweredOnce
  BY DEF IInv
<1>. QED
  BY <1>1, InvariantHolds, PTL

(* The report agrees with the answer and names the last candidate.         *)
THEOREM MatchingReport == Spec => []ReportMatchesAnswer
<1>1. IInv => ReportMatchesAnswer
  BY DEF IInv
<1>. QED
  BY <1>1, InvariantHolds, PTL

(* 504 is reported for an upstream's own, relayed, and for real timeouts.  *)
THEOREM RealTimeout == Spec => []TimeoutIsRealTimeout
<1>1. IInv => TimeoutIsRealTimeout
  BY DEF IInv
<1>. QED
  BY <1>1, InvariantHolds, PTL

(* The failover loop contacts candidates in order, none twice, and none    *)
(* once the answer has begun.                                              *)
THEOREM InOrder == Spec => InOrderAndBeforeTheAnswer
<1> DEFINE Fine == contacted' # contacted =>
                      /\ answers = <<>> /\ upstream = 0
                      /\ \E k \in DOMAIN attempts :
                          /\ contacted' = Append(contacted, k)
                          /\ \A n \in DOMAIN contacted : contacted[n] < k
<1>1. ASSUME IInv, Contact PROVE Fine
  <2>1. answers = <<>> /\ upstream = 0
    BY <1>1 DEF Contact, Trying, IInv, TypeOK, Stage, AnsweredOnce
  <2>2. i \in DOMAIN attempts /\ contacted' = Append(contacted, i)
    BY <1>1 DEF Contact, Trying, IInv, TypeOK
  <2>3. \A n \in DOMAIN contacted : contacted[n] < i
    BY <1>1 DEF Contact, Trying, IInv, Tried
  <2>. QED
    BY <2>1, <2>2, <2>3
<1>2. ASSUME Next, ~Contact PROVE UNCHANGED contacted
  <2>1. CASE HandlerStep
    BY <2>1 DEF HandlerStep, RefuseRequest, AdmitRequest, KeyAuth, Route, Skip, RefuseBody,
       Select, TransportFails, JudgeFailure, GiveUp, ReportOutcome
  <2>2. CASE UpstreamStep
    BY <1>2, <2>2 DEF UpstreamStep, BuildFails, AuthFails, TransportFails, Respond
  <2>3. CASE RelayResponse
    BY <2>3 DEF RelayResponse
  <2>4. CASE \/ \E to \in {"here", "stalled", "gone"} : ClientMoves(to)
             \/ \E err \in {"canceled", "deadline"} : ContextEnds(err)
    BY <2>4 DEF ClientMoves, ContextEnds
  <2>. QED
    BY <1>2, <2>1, <2>2, <2>3, <2>4 DEF Next
<1>3. IInv /\ [Next]_vars => [Fine]_vars
  BY <1>1, <1>2 DEF vars
<1>. QED
  BY <1>3, InvariantHolds, PTL DEF Spec, InOrderAndBeforeTheAnswer

(* The loop ends without an answer only when every servable candidate was  *)
(* selected or the request's context has ended.                            *)
THEOREM Exhausted == Spec => GivesUpOnlyWhenExhausted
<1> DEFINE Fine == GiveUp =>
                      \/ ctxErr # "none"
                      \/ \A k \in DOMAIN attempts : attempts[k].via # "none" => k <= lastCand
<1>1. ASSUME IInv, GiveUp PROVE Fine
  <2>1. CASE pc = "exhausted"
    BY <1>1, <2>1 DEF IInv, Errors
  <2>2. CASE pc = "attempt" /\ i > Len(attempts)
    <3>1. \A k \in DOMAIN attempts : k < i
      BY <2>2, <1>1 DEF IInv, TypeOK
    <3>. QED
      BY <1>1, <3>1 DEF IInv, Tried
  <2>. QED
    BY <1>1, <2>1, <2>2 DEF GiveUp
<1>2. IInv /\ [Next]_vars => [Fine]_vars
  BY <1>1
<1>. QED
  BY <1>2, InvariantHolds, PTL DEF Spec, GivesUpOnlyWhenExhausted
=============================================================================
