--------------------------- MODULE GatewayProofs ----------------------------
(***************************************************************************)
(* Proofs about the metering queue and the process around it, for every    *)
(* set of requests and workers, every queue size and every retry limit.    *)
(*                                                                         *)
(* The queue first.  Its safety properties are not inductive on their own: *)
(* that no report is handled twice needs to know which control states go   *)
(* with a report in hand, that the retry budget holds needs to know how    *)
(* many posts a worker has made at each point of its loop, and that "ok"   *)
(* is counted only for recorded reports needs to know whose answer a       *)
(* worker may be holding.  IInv collects these facts.                      *)
(*                                                                         *)
(* Then the process.  That a graceful exit loses no report needs IInv and, *)
(* besides, what the order of the shutdown sequence gives: once the        *)
(* handlers are drained nobody offers reports any more, so a worker that   *)
(* leaves with the buffer empty leaves it empty for good.                  *)
(***************************************************************************)
EXTENDS Gateway, TLAPS

-----------------------------------------------------------------------------
(***************************************************************************)
(* The metering queue.                                                     *)
(***************************************************************************)
Busy == {"sending", "awaiting", "backingOff"}

(* A worker is inside deliver exactly when it holds a report, and only a   *)
(* worker waiting for an answer can have one.                              *)
WorkerState ==
    \A w \in Workers :
        /\ job[w] \in Reports <=> pc[w] \in Busy
        /\ job[w] = NoReport => attempt[w] = 0
        /\ answer[w] # NoAnswer => pc[w] = "awaiting"

(* Buffered and held reports were accepted and are not counted yet; no     *)
(* two places hold the same report.                                        *)
NoDoubleHandling ==
    /\ \A i \in DOMAIN ch : call[ch[i]] = "queued" /\ tally[ch[i]] = <<>>
    /\ \A w \in Workers : job[w] \in Reports =>
          call[job[w]] = "queued" /\ tally[job[w]] = <<>>
    /\ \A i \in DOMAIN ch, w \in Workers : ch[i] # job[w]
    /\ \A i, j \in DOMAIN ch : ch[i] = ch[j] => i = j
    /\ \A v, w \in Workers : job[v] = job[w] /\ job[v] \in Reports => v = w

(* An accepted report that nobody has counted is somewhere.                *)
NothingLost ==
    \A r \in Reports : call[r] = "queued" /\ tally[r] = <<>> =>
        Buffered(r) \/ Held(r)

(* What has been counted for a report follows from its call.               *)
TallyByCall ==
    \A r \in Reports :
        /\ Len(tally[r]) <= 1
        /\ call[r] \in {"none", "checked", "refused"} => tally[r] = <<>>
        /\ call[r] = "full" => tally[r] = <<"dropped">>

(* How many posts a report has cost, at each point of the loop.            *)
PostsByState ==
    /\ \A r \in Reports : posted[r] <= MaxRetries + 1
    /\ \A r \in Reports : call[r] # "queued" => posted[r] = 0
    /\ \A i \in DOMAIN ch : posted[ch[i]] = 0
    /\ \A w \in Workers :
          /\ pc[w] = "sending" => posted[job[w]] = attempt[w]
          /\ pc[w] \in {"awaiting", "backingOff"} => posted[job[w]] = attempt[w] + 1
          /\ pc[w] = "backingOff" => attempt[w] < MaxRetries

(* Only accepted reports travel or are recorded.                           *)
OnlyAcceptedTravels ==
    /\ \A post \in wire : call[post.report] = "queued"
    /\ \A r \in ledger : call[r] = "queued"

(* A positive answer is held by a worker whose report is in the ledger.    *)
AnswersTellTheTruth ==
    /\ \A w \in Workers :
          answer[w].body \in {"accepted", "duplicate"} => job[w] \in ledger
    /\ CountedOkIsRecorded

IInv ==
    /\ TypeOK
    /\ WorkerState
    /\ NoDoubleHandling
    /\ NothingLost
    /\ TallyByCall
    /\ PostsByState
    /\ OnlyAcceptedTravels
    /\ AnswersTellTheTruth

-----------------------------------------------------------------------------
(* The initial state satisfies the invariant.                              *)
LEMMA InitIInv == Init => IInv
<1> SUFFICES ASSUME Init PROVE IInv
  OBVIOUS
<1> USE MeteringAssumption DEF Init
<1>1. TypeOK
  <2>1. ch \in Seq(Reports) /\ Len(ch) <= QueueSize
    OBVIOUS
  <2>2. tally \in [Reports -> Seq(Labels)]
    OBVIOUS
  <2>3. wire \in SUBSET Posts /\ ledger \in SUBSET Reports
    OBVIOUS
  <2>4. answer \in [Workers -> Answer \union {NoAnswer}]
    OBVIOUS
  <2>5. draining \in [Workers -> BOOLEAN] /\ done \in BOOLEAN
    <3>1. draining = [w \in Workers |-> FALSE] /\ done = FALSE
      OBVIOUS
    <3> HIDE MeteringAssumption DEF Init
    <3>2. FALSE \in BOOLEAN
      OBVIOUS
    <3>. QED
      BY <3>1, <3>2, Zenon
  <2>6. pc \in [Workers -> {"waiting", "sending", "awaiting", "backingOff", "exited"}]
        /\ job \in [Workers -> Reports \union {NoReport}]
        /\ attempt \in [Workers -> 0..MaxRetries]
    OBVIOUS
  <2>. QED
    BY <2>1, <2>2, <2>3, <2>4, <2>5, <2>6 DEF TypeOK
<1>2. WorkerState
  BY DEF WorkerState, Busy
<1>3. NoDoubleHandling
  BY DEF NoDoubleHandling
<1>4. NothingLost /\ TallyByCall /\ PostsByState /\ OnlyAcceptedTravels
  BY DEF NothingLost, TallyByCall, PostsByState, OnlyAcceptedTravels
<1>5. AnswersTellTheTruth
  BY DEF AnswersTellTheTruth, CountedOkIsRecorded, NoAnswer
<1>. QED
  BY <1>1, <1>2, <1>3, <1>4, <1>5 DEF IInv

(* Shutdown and the end of the process touch nothing the invariant speaks  *)
(* of beyond their own types.                                              *)
LEMMA FrameStep ==
    ASSUME IInv, TypeOK',
           UNCHANGED <<call, ch, workerVars, wireVars, ledger, tally>>
    PROVE  IInv'
<1>1. WorkerState'
  BY DEF IInv, WorkerState, workerVars, wireVars
<1>2. NoDoubleHandling'
  BY DEF IInv, NoDoubleHandling, workerVars
<1>3. NothingLost'
  BY DEF IInv, NothingLost, Buffered, Held, workerVars
<1>4. TallyByCall' /\ PostsByState' /\ OnlyAcceptedTravels'
  BY DEF IInv, TallyByCall, PostsByState, OnlyAcceptedTravels, workerVars, wireVars
<1>5. AnswersTellTheTruth'
  BY DEF IInv, AnswersTellTheTruth, CountedOkIsRecorded, workerVars, wireVars
<1>. QED
  BY <1>1, <1>2, <1>3, <1>4, <1>5 DEF IInv

(* The fast path only moves a call that has accepted nothing.              *)
LEMMA EnqueueFastPathStep ==
    ASSUME IInv, NEW r \in Reports, EnqueueFastPath(r)
    PROVE  IInv'
<1> USE DEF IInv, EnqueueFastPath, workerVars, wireVars
<1>1. TypeOK'
  BY DEF TypeOK
<1>2. WorkerState'
  BY DEF WorkerState
<1>3. NoDoubleHandling'
  BY DEF NoDoubleHandling, TypeOK
<1>4. NothingLost'
  <2> SUFFICES ASSUME NEW s \in Reports, call'[s] = "queued", tally'[s] = <<>>
               PROVE  Buffered(s)' \/ Held(s)'
    BY DEF NothingLost
  <2>1. call[s] = "queued" /\ tally[s] = <<>>
    BY DEF TypeOK
  <2>. QED
    BY <2>1 DEF NothingLost, Buffered, Held
<1>5. TallyByCall' /\ PostsByState' /\ OnlyAcceptedTravels'
  BY DEF TallyByCall, PostsByState, OnlyAcceptedTravels, TypeOK
<1>6. AnswersTellTheTruth'
  BY DEF AnswersTellTheTruth, CountedOkIsRecorded
<1>. QED
  BY <1>1, <1>2, <1>3, <1>4, <1>5, <1>6

(* A sent report enters the buffer, behind others that are not it; a       *)
(* dropped or refused one enters nothing.                                  *)
LEMMA EnqueueSelectStep ==
    ASSUME IInv, NEW r \in Reports, EnqueueSelect(r)
    PROVE  IInv'
<1> USE MeteringAssumption DEF IInv
<1>0. UNCHANGED <<done, pc, draining, job, attempt, posted, wire, answer, ledger,
                  shutdown, process>>
  BY DEF EnqueueSelect, workerVars, wireVars
<1>1. /\ call[r] = "checked" /\ tally[r] = <<>> /\ posted[r] = 0
      /\ \A i \in DOMAIN ch : ch[i] # r
      /\ \A w \in Workers : job[w] # r
      /\ r \notin ledger
  BY DEF EnqueueSelect, TallyByCall, PostsByState, NoDoubleHandling, OnlyAcceptedTravels
<1>2. CASE Len(ch) < QueueSize /\ ch' = Append(ch, r) /\ tally' = tally
           /\ call' = [call EXCEPT ![r] = "queued"]
  <2>1. /\ Len(ch') = Len(ch) + 1
        /\ DOMAIN ch = 1..Len(ch) /\ DOMAIN ch' = 1..(Len(ch) + 1)
        /\ \A i \in DOMAIN ch : ch'[i] = ch[i]
        /\ ch'[Len(ch) + 1] = r /\ Len(ch) + 1 \in DOMAIN ch'
        /\ \A i \in DOMAIN ch' : i \in DOMAIN ch \/ i = Len(ch) + 1
        /\ Len(ch) + 1 \notin DOMAIN ch
    BY <1>2 DEF TypeOK
  <2>2. TypeOK'
    BY <1>2, <1>0 DEF TypeOK, EnqueueSelect
  <2>3. WorkerState'
    BY <1>0 DEF WorkerState
  <2>4. NoDoubleHandling'
    <3>1. \A i \in DOMAIN ch' : call'[ch'[i]] = "queued" /\ tally'[ch'[i]] = <<>>
      BY <1>1, <1>2, <2>1 DEF NoDoubleHandling, TypeOK
    <3>2. \A w \in Workers : job'[w] \in Reports =>
            call'[job'[w]] = "queued" /\ tally'[job'[w]] = <<>>
      BY <1>0, <1>1, <1>2 DEF NoDoubleHandling, TypeOK
    <3>3. \A i \in DOMAIN ch', w \in Workers : ch'[i] # job'[w]
      BY <1>0, <1>1, <2>1 DEF NoDoubleHandling
    <3>4. \A i, j \in DOMAIN ch' : ch'[i] = ch'[j] => i = j
      BY <1>1, <2>1 DEF NoDoubleHandling
    <3>5. \A v, w \in Workers : job'[v] = job'[w] /\ job'[v] \in Reports => v = w
      BY <1>0 DEF NoDoubleHandling
    <3>. QED
      BY <3>1, <3>2, <3>3, <3>4, <3>5 DEF NoDoubleHandling
  <2>5. NothingLost'
    <3> SUFFICES ASSUME NEW s \in Reports, call'[s] = "queued", tally'[s] = <<>>
                 PROVE  Buffered(s)' \/ Held(s)'
      BY DEF NothingLost
    <3>1. CASE s = r
      BY <3>1, <2>1 DEF Buffered
    <3>2. CASE s # r
      <4>1. Buffered(s) \/ Held(s)
        BY <3>2, <1>2 DEF NothingLost, TypeOK
      <4>2. Buffered(s) => Buffered(s)'
        BY <2>1 DEF Buffered, TypeOK
      <4>3. Held(s) => Held(s)'
        BY <1>0 DEF Held
      <4>. QED
        BY <4>1, <4>2, <4>3
    <3>. QED
      BY <3>1, <3>2
  <2>6. TallyByCall' /\ OnlyAcceptedTravels'
    BY <1>0, <1>1, <1>2 DEF TallyByCall, OnlyAcceptedTravels, TypeOK
  <2>7. PostsByState'
    BY <1>0, <1>1, <1>2, <2>1 DEF PostsByState, TypeOK
  <2>8. AnswersTellTheTruth'
    BY <1>0, <1>2 DEF AnswersTellTheTruth, CountedOkIsRecorded
  <2>. QED
    BY <2>2, <2>3, <2>4, <2>5, <2>6, <2>7, <2>8
<1>3. CASE /\ ch' = ch
           /\ \/ tally' = tally /\ call' = [call EXCEPT ![r] = "refused"]
              \/ /\ tally' = [tally EXCEPT ![r] = Append(@, "dropped")]
                 /\ call' = [call EXCEPT ![r] = "full"]
  <2>1. tally'[r] \in {<<>>, <<"dropped">>} /\ call'[r] \in {"refused", "full"}
        /\ (call'[r] = "refused" => tally'[r] = <<>>)
        /\ (call'[r] = "full" => tally'[r] = <<"dropped">>)
        /\ \A s \in Reports : s # r => tally'[s] = tally[s] /\ call'[s] = call[s]
    BY <1>3, <1>1 DEF TypeOK
  <2>2. TypeOK'
    <3>1. <<>> \in Seq(Labels) /\ <<"dropped">> \in Seq(Labels)
      BY DEF Labels
    <3>2. tally' \in [Reports -> Seq(Labels)]
      <4>1. CASE tally' = tally
        BY <4>1 DEF TypeOK
      <4>2. CASE tally' = [tally EXCEPT ![r] = <<"dropped">>]
        BY <4>2, <3>1 DEF TypeOK
      <4>. QED
        BY <4>1, <4>2, <1>1, <1>3
    <3>3. call' \in [Reports -> {"none", "checked", "queued", "full", "refused"}]
      <4>1. call' = [call EXCEPT ![r] = "refused"] \/ call' = [call EXCEPT ![r] = "full"]
        BY <1>3
      <4>2. call \in [Reports -> {"none", "checked", "queued", "full", "refused"}]
        BY DEF TypeOK
      <4>. QED
        BY ONLY <4>1, <4>2
    <3>. QED
      BY <3>2, <3>3, <1>3, <1>0 DEF TypeOK
  <2>3. WorkerState'
    BY <1>0 DEF WorkerState
  <2>4. NoDoubleHandling'
    BY <1>0, <1>1, <1>3, <2>1 DEF NoDoubleHandling, TypeOK
  <2>5. NothingLost'
    BY <1>0, <1>3, <2>1 DEF NothingLost, Buffered, Held
  <2>6. TallyByCall'
    <3>1. Len(<<>>) <= 1 /\ Len(<<"dropped">>) <= 1
      OBVIOUS
    <3> SUFFICES ASSUME NEW s \in Reports
                 PROVE  /\ Len(tally'[s]) <= 1
                        /\ call'[s] \in {"none", "checked", "refused"} => tally'[s] = <<>>
                        /\ call'[s] = "full" => tally'[s] = <<"dropped">>
      BY DEF TallyByCall
    <3>2. CASE s = r
      BY <3>1, <3>2, <2>1
    <3>3. CASE s # r
      BY <3>3, <2>1 DEF TallyByCall
    <3>. QED
      BY <3>2, <3>3
  <2>9. OnlyAcceptedTravels'
    BY <1>0, <1>1, <2>1 DEF OnlyAcceptedTravels, TypeOK, Posts
  <2>7. PostsByState'
    BY <1>0, <1>1, <1>3, <2>1 DEF PostsByState, TypeOK
  <2>8. AnswersTellTheTruth'
    BY <1>0, <2>1 DEF AnswersTellTheTruth, CountedOkIsRecorded
  <2>. QED
    BY <2>2, <2>3, <2>4, <2>5, <2>6, <2>7, <2>8, <2>9
<1>. QED
  BY <1>2, <1>3 DEF EnqueueSelect, Count

(* The head of the buffer moves into the hands of one idle worker.         *)
LEMMA TakeStep ==
    ASSUME IInv, NEW w \in Workers, Take(w)
    PROVE  IInv'
<1> USE MeteringAssumption DEF IInv
<1> DEFINE r == Head(ch)
<1>0. UNCHANGED <<call, done, draining, attempt, posted, wire, answer, ledger, tally>>
  BY DEF Take, wireVars
<1>1. /\ ch # <<>> /\ r \in Reports /\ r = ch[1]
      /\ Len(ch) > 0 /\ DOMAIN ch = 1..Len(ch) /\ DOMAIN ch' = 1..(Len(ch) - 1)
      /\ \A i \in DOMAIN ch' : ch'[i] = ch[i + 1] /\ i + 1 \in DOMAIN ch
      /\ ch' \in Seq(Reports) /\ Len(ch') = Len(ch) - 1
  BY DEF Take, TypeOK
<1>2. /\ pc[w] = "waiting" /\ job[w] = NoReport /\ attempt[w] = 0
      /\ pc' = [pc EXCEPT ![w] = "sending"] /\ job' = [job EXCEPT ![w] = r]
  <2>1. pc[w] = "waiting" /\ job[w] \notin Reports
    BY DEF Take, WorkerState, Busy
  <2>2. job[w] = NoReport
    BY <2>1 DEF TypeOK
  <2>. QED
    BY <2>1, <2>2 DEF Take, WorkerState
<1>3. /\ call[r] = "queued" /\ tally[r] = <<>> /\ posted[r] = 0
      /\ \A i \in DOMAIN ch' : ch'[i] # r
      /\ \A v \in Workers : job[v] # r
  <2>1. \A i \in DOMAIN ch' : ch'[i] # r
    BY <1>1 DEF NoDoubleHandling
  <2>. QED
    BY <2>1, <1>1 DEF NoDoubleHandling, PostsByState
<1>4. TypeOK'
  BY <1>0, <1>1, <1>2 DEF TypeOK, Take
<1>5. WorkerState'
  BY <1>0, <1>1, <1>2 DEF WorkerState, Busy, TypeOK
<1>6. NoDoubleHandling'
  <2>1. \A i \in DOMAIN ch' : call'[ch'[i]] = "queued" /\ tally'[ch'[i]] = <<>>
    BY <1>0, <1>1 DEF NoDoubleHandling
  <2>2. \A v \in Workers : job'[v] \in Reports =>
          call'[job'[v]] = "queued" /\ tally'[job'[v]] = <<>>
    BY <1>0, <1>2, <1>3 DEF NoDoubleHandling, TypeOK
  <2>3. \A i \in DOMAIN ch', v \in Workers : ch'[i] # job'[v]
    BY <1>1, <1>2, <1>3 DEF NoDoubleHandling, TypeOK
  <2>4. \A i, j \in DOMAIN ch' : ch'[i] = ch'[j] => i = j
    BY <1>1 DEF NoDoubleHandling
  <2>5. \A u, v \in Workers : job'[u] = job'[v] /\ job'[u] \in Reports => u = v
    BY <1>2, <1>3 DEF NoDoubleHandling, TypeOK
  <2>. QED
    BY <2>1, <2>2, <2>3, <2>4, <2>5 DEF NoDoubleHandling
<1>7. NothingLost'
  <2> SUFFICES ASSUME NEW s \in Reports, call'[s] = "queued", tally'[s] = <<>>
               PROVE  Buffered(s)' \/ Held(s)'
    BY DEF NothingLost
  <2>1. CASE s = r
    BY <2>1, <1>2 DEF Held, TypeOK
  <2>2. CASE s # r /\ Held(s)
    BY <2>2, <1>1, <1>2 DEF Held, TypeOK
  <2>3. CASE s # r /\ Buffered(s)
    <3>1. PICK i \in DOMAIN ch : ch[i] = s
      BY <2>3 DEF Buffered
    <3>2. i # 1 /\ i - 1 \in DOMAIN ch' /\ ch'[i - 1] = s
      BY <3>1, <2>3, <1>1
    <3>. QED
      BY <3>2 DEF Buffered
  <2>. QED
    BY <2>1, <2>2, <2>3, <1>0 DEF NothingLost
<1>8. TallyByCall' /\ OnlyAcceptedTravels'
  BY <1>0 DEF TallyByCall, OnlyAcceptedTravels
<1>9. PostsByState'
  <2>0. \A s \in Reports : posted'[s] <= MaxRetries + 1
    BY <1>0 DEF PostsByState
  <2>1. \A s \in Reports : call'[s] # "queued" => posted'[s] = 0
    BY <1>0 DEF PostsByState
  <2>2. \A i \in DOMAIN ch' : posted'[ch'[i]] = 0
    BY <1>0, <1>1 DEF PostsByState
  <2>3. \A v \in Workers :
          /\ pc'[v] = "sending" => posted'[job'[v]] = attempt'[v]
          /\ pc'[v] \in {"awaiting", "backingOff"}
             => posted'[job'[v]] = attempt'[v] + 1
          /\ pc'[v] = "backingOff" => attempt'[v] < MaxRetries
    <3> SUFFICES ASSUME NEW v \in Workers
                 PROVE  /\ pc'[v] = "sending" => posted'[job'[v]] = attempt'[v]
                        /\ pc'[v] \in {"awaiting", "backingOff"}
                           => posted'[job'[v]] = attempt'[v] + 1
                        /\ pc'[v] = "backingOff" => attempt'[v] < MaxRetries
      OBVIOUS
    <3>0. /\ pc \in [Workers -> {"waiting", "sending", "awaiting", "backingOff", "exited"}]
          /\ job \in [Workers -> Reports \cup {NoReport}]
      BY DEF TypeOK
    <3>1. CASE v = w
      <4>1. pc'[v] = "sending" /\ job'[v] = r
        BY <3>0, <3>1, <1>2
      <4>2. posted'[r] = 0 /\ attempt'[v] = 0
        BY <3>1, <1>0, <1>2, <1>3
      <4>. QED
        BY <4>1, <4>2
    <3>2. CASE v # w
      <4>1. pc'[v] = pc[v] /\ job'[v] = job[v]
        BY <3>0, <3>2, <1>2
      <4>. QED
        BY <4>1, <1>0 DEF PostsByState
    <3>. QED
      BY <3>1, <3>2
  <2>. QED
    BY <2>0, <2>1, <2>2, <2>3 DEF PostsByState
<1>10. AnswersTellTheTruth'
  <2>1. answer[w] = NoAnswer
    BY <1>2 DEF WorkerState
  <2>. QED
    BY <2>1, <1>0, <1>2 DEF AnswersTellTheTruth, CountedOkIsRecorded, NoAnswer, TypeOK
<1>. QED
  BY <1>4, <1>5, <1>6, <1>7, <1>8, <1>9, <1>10

(* An idle worker that enters the draining loop, or leaves it, holds no    *)
(* report.                                                                 *)
LEMMA IdleStep ==
    ASSUME IInv, NEW w \in Workers, SeeDone(w) \/ ExitWorker(w)
    PROVE  IInv'
<1> USE DEF IInv
<1>0. /\ UNCHANGED <<call, ch, done, job, attempt, posted, wire, answer, ledger, tally>>
      /\ pc[w] = "waiting" /\ (pc' = pc \/ pc' = [pc EXCEPT ![w] = "exited"])
  BY DEF SeeDone, ExitWorker, queueVars, wireVars
<1>1. TypeOK'
  BY <1>0 DEF TypeOK, SeeDone, ExitWorker
<1>2. WorkerState'
  BY <1>0 DEF WorkerState, Busy, TypeOK
<1>3. NoDoubleHandling'
  BY <1>0 DEF NoDoubleHandling
<1>4. NothingLost'
  BY <1>0 DEF NothingLost, Buffered, Held
<1>5. TallyByCall' /\ OnlyAcceptedTravels' /\ AnswersTellTheTruth'
  BY <1>0 DEF TallyByCall, OnlyAcceptedTravels, AnswersTellTheTruth, CountedOkIsRecorded
<1>6. PostsByState'
  BY <1>0 DEF PostsByState, TypeOK
<1>. QED
  BY <1>1, <1>2, <1>3, <1>4, <1>5, <1>6

(* One more post for the report in hand.                                   *)
LEMMA PostStep ==
    ASSUME IInv, NEW w \in Workers, Post(w)
    PROVE  IInv'
<1> USE DEF IInv
<1> DEFINE r == job[w]
<1>0. /\ UNCHANGED <<call, ch, done, draining, job, attempt, answer, ledger, tally>>
      /\ pc[w] = "sending" /\ pc' = [pc EXCEPT ![w] = "awaiting"]
      /\ posted' = [posted EXCEPT ![r] = @ + 1]
      /\ wire' = wire \union {[report |-> r, attempt |-> attempt[w]]}
  BY DEF Post, queueVars
<1>1. /\ r \in Reports /\ call[r] = "queued" /\ posted[r] = attempt[w]
      /\ attempt[w] \in 0..MaxRetries
      /\ \A i \in DOMAIN ch : ch[i] # r
      /\ \A v \in Workers : job[v] = r => v = w
  BY <1>0 DEF WorkerState, NoDoubleHandling, PostsByState, Busy, TypeOK
<1>2. TypeOK'
  BY <1>0, <1>1 DEF TypeOK, Posts, Post
<1>3. WorkerState'
  BY <1>0 DEF WorkerState, Busy, TypeOK
<1>4. NoDoubleHandling'
  BY <1>0 DEF NoDoubleHandling
<1>5. NothingLost'
  BY <1>0 DEF NothingLost, Buffered, Held
<1>6. TallyByCall' /\ OnlyAcceptedTravels' /\ AnswersTellTheTruth'
  BY <1>0, <1>1 DEF TallyByCall, OnlyAcceptedTravels, AnswersTellTheTruth, CountedOkIsRecorded
<1>7. PostsByState'
  <2>1. \A s \in Reports : posted'[s] = IF s = r THEN attempt[w] + 1 ELSE posted[s]
    BY <1>0, <1>1 DEF TypeOK
  <2>2. \A s \in Reports : posted'[s] <= MaxRetries + 1 /\ (call'[s] # "queued" => posted'[s] = 0)
    BY <2>1, <1>0, <1>1, MeteringAssumption DEF PostsByState, TypeOK
  <2>3. \A i \in DOMAIN ch' : posted'[ch'[i]] = 0
    BY <2>1, <1>0, <1>1 DEF PostsByState, TypeOK
  <2>4. ASSUME NEW v \in Workers
        PROVE  /\ pc'[v] = "sending" => posted'[job'[v]] = attempt'[v]
               /\ pc'[v] \in {"awaiting", "backingOff"} => posted'[job'[v]] = attempt'[v] + 1
               /\ pc'[v] = "backingOff" => attempt'[v] < MaxRetries
    <3>1. CASE v = w
      BY <3>1, <2>1, <1>0, <1>1 DEF TypeOK
    <3>2. CASE v # w
      BY <3>2, <2>1, <1>0, <1>1 DEF PostsByState, WorkerState, Busy, TypeOK
    <3>. QED
      BY <3>1, <3>2
  <2>. QED
    BY <2>2, <2>3, <2>4 DEF PostsByState
<1>. QED
  BY <1>2, <1>3, <1>4, <1>5, <1>6, <1>7

(* What every end of an attempt leaves alone.                              *)
AttemptOver(w) ==
    /\ answer' = [answer EXCEPT ![w] = NoAnswer]
    /\ UNCHANGED <<queueVars, draining, posted, wire, ledger, shutdown, process>>

(* deliver returns with a label, "ok" or "duplicate" only for a report in  *)
(* the ledger: the report leaves the worker's hands for the counters.      *)
LEMMA FinishStep ==
    ASSUME IInv, NEW w \in Workers, pc[w] = "awaiting",
           NEW label \in Labels, label \in {"ok", "duplicate"} => job[w] \in ledger,
           Finish(w, label), AttemptOver(w)
    PROVE  IInv'
<1> USE DEF IInv
<1> DEFINE r == job[w]
<1>0. /\ UNCHANGED <<call, ch, done, draining, posted, wire, ledger>>
      /\ pc' = [pc EXCEPT ![w] = "waiting"] /\ job' = [job EXCEPT ![w] = NoReport]
      /\ attempt' = [attempt EXCEPT ![w] = 0] /\ answer' = [answer EXCEPT ![w] = NoAnswer]
      /\ tally' = [tally EXCEPT ![r] = Append(@, label)]
  BY DEF Finish, AttemptOver, Count, queueVars
<1>1. /\ r \in Reports /\ call[r] = "queued" /\ tally[r] = <<>>
      /\ \A i \in DOMAIN ch : ch[i] # r
      /\ \A v \in Workers : job[v] = r => v = w
  BY DEF WorkerState, NoDoubleHandling, Busy, TypeOK
<1>2. \A s \in Reports : tally'[s] = IF s = r THEN <<label>> ELSE tally[s]
  BY <1>0, <1>1 DEF TypeOK
<1>3. TypeOK'
  BY <1>0, <1>1, MeteringAssumption DEF TypeOK, AttemptOver, NoAnswer
<1>4. WorkerState'
  BY <1>0, MeteringAssumption DEF WorkerState, Busy, TypeOK
<1>5. NoDoubleHandling'
  BY <1>0, <1>1, <1>2, MeteringAssumption DEF NoDoubleHandling, TypeOK
<1>6. NothingLost'
  <2> SUFFICES ASSUME NEW s \in Reports, call'[s] = "queued", tally'[s] = <<>>
               PROVE  Buffered(s)' \/ Held(s)'
    BY DEF NothingLost
  <2>1. s # r /\ tally[s] = <<>>
    BY <1>2
  <2>2. Held(s) => Held(s)'
    BY <2>1, <1>0 DEF Held, TypeOK
  <2>. QED
    BY <2>1, <2>2, <1>0 DEF NothingLost, Buffered
<1>7. TallyByCall'
  BY <1>0, <1>1, <1>2 DEF TallyByCall
<1>8. PostsByState' /\ OnlyAcceptedTravels'
  BY <1>0, <1>1 DEF PostsByState, OnlyAcceptedTravels, WorkerState, Busy, TypeOK
<1>9. AnswersTellTheTruth'
  <2>1. \A v \in Workers : answer'[v].body \in {"accepted", "duplicate"} => job'[v] \in ledger'
    BY <1>0 DEF AnswersTellTheTruth, NoAnswer, TypeOK
  <2>2. CountedOkIsRecorded'
    BY <1>0, <1>1, <1>2 DEF AnswersTellTheTruth, CountedOkIsRecorded
  <2>. QED
    BY <2>1, <2>2 DEF AnswersTellTheTruth
<1>. QED
  BY <1>3, <1>4, <1>5, <1>6, <1>7, <1>8, <1>9

(* A failed attempt that can be retried keeps the report in hand; one that *)
(* cannot counts a drop.                                                   *)
LEMMA RetryOrGiveUpStep ==
    ASSUME IInv, NEW w \in Workers, pc[w] = "awaiting",
           RetryOrGiveUp(w), AttemptOver(w)
    PROVE  IInv'
<1> USE DEF IInv
<1>1. CASE attempt[w] >= MaxRetries
  BY <1>1, FinishStep DEF RetryOrGiveUp, Labels
<1>2. CASE ~(attempt[w] >= MaxRetries)
  <2>0. /\ UNCHANGED <<call, ch, done, draining, posted, wire, ledger, job, attempt, tally>>
        /\ pc' = [pc EXCEPT ![w] = "backingOff"]
        /\ answer' = [answer EXCEPT ![w] = NoAnswer]
    BY <1>2 DEF RetryOrGiveUp, AttemptOver, queueVars
  <2>1. TypeOK'
    BY <2>0 DEF TypeOK, AttemptOver
  <2>2. WorkerState'
    BY <2>0 DEF WorkerState, Busy, TypeOK
  <2>3. NoDoubleHandling'
    BY <2>0 DEF NoDoubleHandling
  <2>4. NothingLost'
    BY <2>0 DEF NothingLost, Buffered, Held
  <2>5. TallyByCall' /\ OnlyAcceptedTravels'
    BY <2>0 DEF TallyByCall, OnlyAcceptedTravels
  <2>6. PostsByState'
    BY <2>0, <1>2, MeteringAssumption DEF PostsByState, TypeOK
  <2>7. AnswersTellTheTruth'
    BY <2>0 DEF AnswersTellTheTruth, CountedOkIsRecorded, NoAnswer, TypeOK
  <2>. QED
    BY <2>1, <2>2, <2>3, <2>4, <2>5, <2>6, <2>7
<1>. QED
  BY <1>1, <1>2

(* An answer in time: a usable one is counted as what it says.             *)
LEMMA ReceiveStep ==
    ASSUME IInv, NEW w \in Workers, Receive(w)
    PROVE  IInv'
<1>1. pc[w] = "awaiting" /\ answer[w] # NoAnswer /\ AttemptOver(w)
  BY DEF Receive, AttemptOver
<1>2. CASE Usable(answer[w]) /\ Finish(w, LabelOf(answer[w]))
  <2>1. LabelOf(answer[w]) \in Labels
    BY DEF LabelOf, Labels
  <2>2. LabelOf(answer[w]) \in {"ok", "duplicate"} => job[w] \in ledger
    BY DEF LabelOf, IInv, AnswersTellTheTruth
  <2>. QED
    BY <1>1, <1>2, <2>1, <2>2, FinishStep
<1>3. CASE RetryOrGiveUp(w)
  BY <1>1, <1>3, RetryOrGiveUpStep
<1>4. CASE Finish(w, "dropped")
  BY <1>1, <1>4, FinishStep DEF Labels
<1>. QED
  BY <1>2, <1>3, <1>4 DEF Receive

(* A lost answer or a timeout is a failed attempt.                         *)
LEMMA LoseAnswerStep ==
    ASSUME IInv, NEW w \in Workers, LoseAnswer(w)
    PROVE  IInv'
  BY RetryOrGiveUpStep DEF LoseAnswer, AttemptOver

(* The next attempt begins; the loop bound was checked before the backoff. *)
LEMMA WakeStep ==
    ASSUME IInv, NEW w \in Workers, Wake(w)
    PROVE  IInv'
<1> USE DEF IInv
<1>0. /\ UNCHANGED <<call, ch, done, draining, job, posted, wire, answer, ledger, tally>>
      /\ pc[w] = "backingOff" /\ pc' = [pc EXCEPT ![w] = "sending"]
      /\ attempt' = [attempt EXCEPT ![w] = @ + 1]
  BY DEF Wake, queueVars, wireVars
<1>1. attempt[w] + 1 \in 0..MaxRetries
  BY <1>0, MeteringAssumption DEF PostsByState, TypeOK
<1>2. TypeOK'
  BY <1>0, <1>1 DEF TypeOK, Wake
<1>3. WorkerState'
  BY <1>0, MeteringAssumption DEF WorkerState, Busy, TypeOK
<1>4. NoDoubleHandling'
  BY <1>0 DEF NoDoubleHandling
<1>5. NothingLost'
  BY <1>0 DEF NothingLost, Buffered, Held
<1>6. TallyByCall' /\ OnlyAcceptedTravels' /\ AnswersTellTheTruth'
  BY <1>0 DEF TallyByCall, OnlyAcceptedTravels, AnswersTellTheTruth, CountedOkIsRecorded
<1>7. PostsByState'
  BY <1>0 DEF PostsByState, TypeOK
<1>. QED
  BY <1>2, <1>3, <1>4, <1>5, <1>6, <1>7

(* The control plane acts on a post: the ledger grows by accepted reports  *)
(* only, and an answer reaches only a worker that holds that report.       *)
LEMMA ControlPlaneStep ==
    ASSUME IInv, NEW post \in wire, ControlPlane(post)
    PROVE  IInv'
<1> USE DEF IInv
<1>0. /\ UNCHANGED <<call, ch, done, pc, draining, job, attempt, posted, tally, shutdown, process>>
      /\ wire' = wire \ {post}
  BY DEF ControlPlane, queueVars, workerVars
<1>1. PICK a \in Answer :
        /\ answer' = [w \in Workers |-> IF Awaits(w, post) THEN a ELSE answer[w]]
        /\ ledger' = ledger \/ ledger' = ledger \union {post.report}
        /\ a.body = "accepted" => ledger' = ledger \union {post.report}
        /\ a.body = "duplicate" => post.report \in ledger'
  BY DEF ControlPlane, Deliver
<1>2. post \in Posts /\ post.report \in Reports /\ call[post.report] = "queued"
  BY DEF TypeOK, OnlyAcceptedTravels, Posts
<1>3. \A w \in Workers : answer'[w] = IF Awaits(w, post) THEN a ELSE answer[w]
  BY <1>1
<1>4. TypeOK'
  <2>1. answer' \in [Workers -> Answer \union {NoAnswer}]
    BY <1>1 DEF TypeOK
  <2>2. ledger' \in SUBSET Reports
    BY <1>1, <1>2 DEF TypeOK
  <2>. QED
    BY <2>1, <2>2, <1>0 DEF TypeOK
<1>5. WorkerState'
  BY <1>0, <1>3 DEF WorkerState, Awaits, Busy
<1>6. NoDoubleHandling'
  BY <1>0 DEF NoDoubleHandling
<1>7. NothingLost'
  BY <1>0 DEF NothingLost, Buffered, Held
<1>8. TallyByCall' /\ PostsByState'
  BY <1>0 DEF TallyByCall, PostsByState
<1>9. OnlyAcceptedTravels'
  BY <1>0, <1>1, <1>2 DEF OnlyAcceptedTravels
<1>10. AnswersTellTheTruth'
  <2>1. \A w \in Workers : answer'[w].body \in {"accepted", "duplicate"} => job'[w] \in ledger'
    BY <1>0, <1>1, <1>3 DEF AnswersTellTheTruth, Awaits
  <2>2. CountedOkIsRecorded'
    BY <1>0, <1>1 DEF AnswersTellTheTruth, CountedOkIsRecorded
  <2>. QED
    BY <2>1, <2>2 DEF AnswersTellTheTruth
<1>. QED
  BY <1>4, <1>5, <1>6, <1>7, <1>8, <1>9, <1>10

(* The invariant is inductive.                                             *)
LEMMA NextIInv == IInv /\ [Next]_vars => IInv'
<1> SUFFICES ASSUME IInv, [Next]_vars PROVE IInv'
  OBVIOUS
<1>1. ASSUME NEW r \in Reports, Enqueue(r) PROVE IInv'
  BY <1>1, EnqueueFastPathStep, EnqueueSelectStep DEF Enqueue
<1>2. ASSUME NEW w \in Workers, Worker(w) PROVE IInv'
  BY <1>2, TakeStep, IdleStep, PostStep, ReceiveStep, LoseAnswerStep, WakeStep DEF Worker
<1>3. ASSUME NEW post \in wire, ControlPlane(post) PROVE IInv'
  BY <1>3, ControlPlaneStep
<1>4. CASE BeginShutdown
  <2>1. TypeOK'
    BY <1>4 DEF IInv, TypeOK, BeginShutdown, workerVars, wireVars
  <2>. QED
    BY <1>4, <2>1, FrameStep DEF BeginShutdown
<1>5. CASE FinishShutdown \/ ShutdownDeadline
  <2>1. TypeOK'
    BY <1>5 DEF IInv, TypeOK, FinishShutdown, ShutdownDeadline, queueVars, workerVars, wireVars
  <2>. QED
    BY <1>5, <2>1, FrameStep DEF FinishShutdown, ShutdownDeadline, queueVars
<1>6. CASE Return \/ Crash
  <2>1. TypeOK'
    BY <1>6 DEF IInv, TypeOK, Return, Crash, queueVars, workerVars, wireVars
  <2>. QED
    BY <1>6, <2>1, FrameStep DEF Return, Crash, queueVars
<1>7. CASE UNCHANGED vars
  <2>1. TypeOK'
    BY <1>7 DEF IInv, TypeOK, vars, queueVars, workerVars, wireVars
  <2>. QED
    BY <1>7, <2>1, FrameStep DEF vars, queueVars
<1>. QED
  BY <1>1, <1>2, <1>3, <1>4, <1>5, <1>6, <1>7 DEF Next

(* The invariant holds, under any fairness.                                *)
LEMMA InvariantHolds == Spec => []IInv
  BY InitIInv, NextIInv, PTL DEF Spec

-----------------------------------------------------------------------------
(* Every variable stays in its range, for any number of reports, workers,  *)
(* retries and any queue size.                                             *)
THEOREM TypeCorrect == Spec => []TypeOK
<1>1. IInv => TypeOK
  BY DEF IInv
<1>. QED
  BY <1>1, InvariantHolds, PTL

(* Conservation (queue.go Enqueue, worker, deliver): no accepted report is *)
(* lost by the running gateway, handled twice or counted twice.            *)
THEOREM Conservation == Spec => []OnePlace
<1>1. IInv => OnePlace
  <2> SUFFICES ASSUME IInv PROVE OnePlace
    OBVIOUS
  <2>1. \A r \in Reports : Buffered(r) => call[r] = "queued" /\ ~Counted(r) /\ ~Held(r)
    BY DEF IInv, NoDoubleHandling, Buffered, Held, Counted
  <2>2. \A r \in Reports : Held(r) => call[r] = "queued" /\ ~Counted(r)
    BY DEF IInv, NoDoubleHandling, Held, Counted
  <2>3. \A r \in Reports : call[r] = "queued" => Buffered(r) \/ Held(r) \/ Counted(r)
    BY DEF IInv, NothingLost, Counted
  <2>4. \A v, w \in Workers : job[v] = job[w] /\ job[v] # NoReport => v = w
    BY DEF IInv, NoDoubleHandling, TypeOK
  <2>5. \A i, j \in DOMAIN ch : ch[i] = ch[j] => i = j
    BY DEF IInv, NoDoubleHandling
  <2>6. \A r \in Reports : Len(tally[r]) <= 1
    BY DEF IInv, TallyByCall
  <2>. QED
    BY <2>1, <2>2, <2>3, <2>4, <2>5, <2>6 DEF OnePlace
<1>. QED
  BY <1>1, InvariantHolds, PTL

(* deliver never sends a report more than max_retries + 1 times.           *)
THEOREM RetriesAreBounded == Spec => []RetryBudget
<1>1. IInv => RetryBudget
  BY DEF IInv, PostsByState, RetryBudget
<1>. QED
  BY <1>1, InvariantHolds, PTL

(* What is counted "ok" or "duplicate" is in the control plane's ledger.   *)
THEOREM OkIsRecorded == Spec => []CountedOkIsRecorded
<1>1. IInv => CountedOkIsRecorded
  BY DEF IInv, AnswersTellTheTruth
<1>. QED
  BY <1>1, InvariantHolds, PTL

(***************************************************************************)
(* Giving up.                                                              *)
(***************************************************************************)

(* Counting a label for the report in hand makes it the report's tally.    *)
LEMMA CountedLabel ==
    ASSUME IInv, NEW w \in Workers, pc[w] = "awaiting", NEW label, Finish(w, label)
    PROVE  /\ job[w] \in Reports
           /\ tally'[job[w]] = <<label>>
           /\ \A v \in Workers : v # w => job'[v] = job[v]
<1>1. job[w] \in Reports /\ tally[job[w]] = <<>>
  BY DEF IInv, WorkerState, NoDoubleHandling, Busy
<1>. QED
  BY <1>1 DEF Finish, Count, IInv, TypeOK

(* An answer that is neither usable nor worth a retry is final.            *)
LEMMA FinalAnswer ==
    ASSUME NEW a \in Answer, ~Usable(a), ~Retryable(a)
    PROVE  a.status = 401 \/ a.body = "unusable"
<1>1. CASE a.status = 200
  BY <1>1 DEF Usable
<1>2. CASE a.status # 200
  <2>1. a.status \in Statuses
    BY <1>2 DEF Answer
  <2>2. a.status \in {401, 408, 429, 500}
    <3> DEFINE Known == {401, 408, 429, 500}
    <3>1. Statuses \subseteq Known
      BY MeteringAssumption
    <3> HIDE DEF Known
    <3>2. a.status \in Known
      BY <2>1, <3>1
    <3>. QED
      BY <3>2 DEF Known
  <2>3. a.status \notin {408, 429}
    BY DEF Retryable
  <2>4. a.status # 500
    BY DEF Retryable
  <2>. QED
    BY <2>2, <2>3, <2>4, Zenon
<1>. QED
  BY <1>1, <1>2

(* deliver gives a report up only when its retries are spent or the        *)
(* control plane's answer is final.                                        *)
THEOREM GivingUp == Spec => GivesUpOnlyWhenSpent
<1> DEFINE Due(w) ==
      (job[w] # NoReport /\ job'[w] = NoReport /\ tally'[job[w]] = <<"dropped">>)
         => \/ posted[job[w]] = MaxRetries + 1
            \/ answer[w].status = 401 \/ answer[w].body = "unusable"
<1>1. ASSUME IInv, NEW v \in Workers, NEW w \in Workers, pc[v] = "awaiting",
             RetryOrGiveUp(v)
      PROVE  Due(w)
  <2>1. posted[job[v]] = attempt[v] + 1 /\ attempt[v] \in 0..MaxRetries
    BY <1>1 DEF IInv, PostsByState, TypeOK
  <2>2. CASE attempt[v] >= MaxRetries
    BY <2>1, <2>2, <1>1, CountedLabel, MeteringAssumption DEF RetryOrGiveUp
  <2>3. CASE ~(attempt[v] >= MaxRetries)
    BY <2>3, <1>1 DEF RetryOrGiveUp
  <2>. QED
    BY <2>2, <2>3
<1>2. ASSUME IInv, NEW v \in Workers, NEW w \in Workers, Receive(v)
      PROVE  Due(w)
  <2>1. pc[v] = "awaiting" /\ answer[v] \in Answer
    BY <1>2 DEF Receive, IInv, TypeOK
  <2>2. CASE Finish(v, LabelOf(answer[v]))
    <3>1. <<LabelOf(answer[v])>> # <<"dropped">>
      BY DEF LabelOf
    <3>. QED
      BY <2>1, <2>2, <3>1, <1>2, CountedLabel
  <2>3. CASE RetryOrGiveUp(v)
    BY <2>1, <2>3, <1>1, <1>2
  <2>4. CASE ~Usable(answer[v]) /\ ~Retryable(answer[v]) /\ Finish(v, "dropped")
    <3>1. answer[v].status = 401 \/ answer[v].body = "unusable"
      BY <2>1, <2>4, FinalAnswer
    <3>. QED
      BY <2>1, <2>4, <3>1, <1>2, CountedLabel
  <2>. QED
    BY <1>2, <2>2, <2>3, <2>4 DEF Receive
<1>3. ASSUME IInv, NEW v \in Workers, NEW w \in Workers, Worker(v)
      PROVE  Due(w)
  <2>1. CASE Take(v)
    BY <2>1, <1>3, MeteringAssumption DEF Take, IInv, TypeOK
  <2>2. CASE SeeDone(v) \/ ExitWorker(v) \/ Post(v) \/ Wake(v)
    BY <2>2 DEF SeeDone, ExitWorker, Post, Wake
  <2>3. CASE LoseAnswer(v)
    BY <2>3, <1>1, <1>3 DEF LoseAnswer
  <2>. QED
    BY <1>2, <1>3, <2>1, <2>2, <2>3 DEF Worker
<1>4. ASSUME IInv, [Next]_vars PROVE [\A w \in Workers : Due(w)]_vars
  <2>1. ASSUME NEW r \in Reports, Enqueue(r) PROVE job' = job
    BY <2>1 DEF Enqueue, EnqueueFastPath, EnqueueSelect, workerVars
  <2>2. ASSUME NEW post \in wire, ControlPlane(post) PROVE job' = job
    BY <2>2 DEF ControlPlane, workerVars
  <2>3. ASSUME BeginShutdown \/ FinishShutdown \/ ShutdownDeadline \/ Return \/ Crash
        PROVE  job' = job
    BY <2>3 DEF BeginShutdown, FinishShutdown, ShutdownDeadline, Return, Crash, workerVars
  <2>4. job' = job => \A w \in Workers : Due(w)
    OBVIOUS
  <2>5. ASSUME NEW v \in Workers, Worker(v) PROVE \A w \in Workers : Due(w)
    BY <1>3, <1>4, <2>5
  <2>. QED
    BY <1>4, <2>1, <2>2, <2>3, <2>4, <2>5 DEF Next
<1>5. IInv /\ [Next]_vars => [\A w \in Workers : Due(w)]_vars
  BY <1>4
<1>. QED
  BY <1>5, InvariantHolds, PTL DEF Spec, GivesUpOnlyWhenSpent

(***************************************************************************)
(* The queue implements ReportDelivery (its safety part).                  *)
(***************************************************************************)

(* What no abstract variable depends on may change freely.                 *)
LEMMA StatusKept ==
    ASSUME UNCHANGED <<call, tally, ledger, process>>
    PROVE  UNCHANGED Delivery!vars
  BY DEF Delivery!vars, DeliveryStatus, Counted

(* A status that changes for one report is an EXCEPT of the mapped         *)
(* function.                                                               *)
LEMMA StatusUpdate ==
    ASSUME NEW r \in Reports, NEW s,
           DeliveryStatus'[r] = s,
           \A q \in Reports \ {r} : call'[q] = call[q] /\ tally'[q] = tally[q]
    PROVE  DeliveryStatus' = [DeliveryStatus EXCEPT ![r] = s]
<1>1. \A q \in Reports \ {r} : DeliveryStatus'[q] = DeliveryStatus[q]
  BY DEF DeliveryStatus, Counted
<1>2. /\ DeliveryStatus = [q \in Reports |-> DeliveryStatus[q]]
      /\ DeliveryStatus' = [q \in Reports |-> DeliveryStatus'[q]]
  BY DEF DeliveryStatus
<1>. QED
  BY <1>1, <1>2

(* Offering a report is Take, TurnAway, or invisible.                      *)
LEMMA EnqueueMaps ==
    ASSUME IInv, NEW r \in Reports, Enqueue(r)
    PROVE  [Delivery!Next]_(Delivery!vars)
<1>1. /\ process = "up" /\ UNCHANGED <<ledger, process>>
      /\ call[r] \in {"none", "checked"}
      /\ \A q \in Reports \ {r} : call'[q] = call[q] /\ tally'[q] = tally[q]
      /\ \/ call'[r] = "checked"
         \/ call'[r] \in {"refused", "full"}
         \/ call'[r] = "queued" /\ tally'[r] = tally[r]
  BY DEF Enqueue, EnqueueFastPath, EnqueueSelect, Count, IInv, TypeOK
<1>2. tally[r] = <<>>
  BY <1>1 DEF IInv, TallyByCall
<1>3. DeliveryStatus[r] = "new"
  BY <1>1 DEF DeliveryStatus
<1>4. CASE call'[r] = "checked"
  <2>1. DeliveryStatus'[r] = "new"
    BY <1>4 DEF DeliveryStatus
  <2>2. DeliveryStatus' = [DeliveryStatus EXCEPT ![r] = "new"]
    BY <2>1, <1>1, StatusUpdate
  <2>3. DeliveryStatus' = DeliveryStatus
    BY <2>2, <1>3 DEF DeliveryStatus
  <2>. QED
    BY <2>3, <1>1 DEF Delivery!vars
<1>5. CASE call'[r] \in {"refused", "full"}
  <2>1. DeliveryStatus'[r] = "turnedAway"
    BY <1>5 DEF DeliveryStatus
  <2>2. Delivery!TurnAway(r)
    BY <2>1, <1>1, <1>3, StatusUpdate DEF Delivery!TurnAway
  <2>. QED
    BY <2>2 DEF Delivery!Next
<1>6. CASE call'[r] = "queued" /\ tally'[r] = tally[r]
  <2>1. DeliveryStatus'[r] = "taken"
    BY <1>6, <1>2 DEF DeliveryStatus, Counted
  <2>2. Delivery!Take(r)
    BY <2>1, <1>1, <1>3, StatusUpdate DEF Delivery!Take
  <2>. QED
    BY <2>2 DEF Delivery!Next
<1>. QED
  BY <1>1, <1>4, <1>5, <1>6

(* deliver's return is Settle.                                             *)
LEMMA FinishMaps ==
    ASSUME IInv, NEW w \in Workers, pc[w] = "awaiting", process = "up",
           NEW label, Finish(w, label), UNCHANGED <<call, ledger, process>>
    PROVE  [Delivery!Next]_(Delivery!vars)
<1>1. /\ job[w] \in Reports /\ call[job[w]] = "queued" /\ tally[job[w]] = <<>>
  BY DEF IInv, WorkerState, NoDoubleHandling, Busy
<1>2. tally'[job[w]] = <<label>> /\ <<label>> # <<>>
  BY CountedLabel
<1>3. DeliveryStatus[job[w]] = "taken" /\ DeliveryStatus'[job[w]] = "settled"
  BY <1>1, <1>2 DEF DeliveryStatus, Counted
<1>4. \A q \in Reports \ {job[w]} : call'[q] = call[q] /\ tally'[q] = tally[q]
  BY DEF Finish, Count, IInv, TypeOK
<1>5. Delivery!Settle(job[w])
  BY <1>1, <1>3, <1>4, StatusUpdate DEF Delivery!Settle
<1>. QED
  BY <1>1, <1>5 DEF Delivery!Next

(* A worker's other steps are invisible.                                   *)
LEMMA WorkerMaps ==
    ASSUME IInv, NEW w \in Workers, Worker(w)
    PROVE  [Delivery!Next]_(Delivery!vars)
<1>1. CASE Take(w) \/ SeeDone(w) \/ ExitWorker(w) \/ Post(w) \/ Wake(w)
  BY <1>1, StatusKept DEF Take, SeeDone, ExitWorker, Post, Wake, queueVars
<1>2. ASSUME pc[w] = "awaiting", process = "up", RetryOrGiveUp(w),
             UNCHANGED <<call, ledger, process>>
      PROVE  [Delivery!Next]_(Delivery!vars)
  <2>1. CASE attempt[w] >= MaxRetries
    BY <2>1, <1>2, FinishMaps DEF RetryOrGiveUp
  <2>2. CASE ~(attempt[w] >= MaxRetries)
    BY <2>2, <1>2, StatusKept DEF RetryOrGiveUp
  <2>. QED
    BY <2>1, <2>2
<1>3. CASE Receive(w)
  BY <1>2, <1>3, FinishMaps DEF Receive, queueVars
<1>4. CASE LoseAnswer(w)
  BY <1>2, <1>4 DEF LoseAnswer, queueVars
<1>. QED
  BY <1>1, <1>3, <1>4 DEF Worker

(* The control plane recording a report is Record.                         *)
LEMMA ControlPlaneMaps ==
    ASSUME IInv, NEW post \in wire, ControlPlane(post)
    PROVE  [Delivery!Next]_(Delivery!vars)
<1>1. /\ UNCHANGED <<call, tally, process>>
      /\ \/ ledger' = ledger
         \/ post.report \notin ledger /\ ledger' = ledger \union {post.report}
  BY DEF ControlPlane, queueVars
<1>2. post.report \in Reports /\ call[post.report] = "queued"
  BY DEF IInv, TypeOK, OnlyAcceptedTravels, Posts
<1>3. DeliveryStatus[post.report] \in {"taken", "settled"}
  BY <1>2 DEF DeliveryStatus
<1>4. DeliveryStatus' = DeliveryStatus
  BY <1>1 DEF DeliveryStatus, Counted
<1>5. CASE ledger' = ledger
  BY <1>1, <1>5, StatusKept
<1>6. CASE post.report \notin ledger /\ ledger' = ledger \union {post.report}
  <2>1. Delivery!Record(post.report)
    BY <1>1, <1>3, <1>4, <1>6 DEF Delivery!Record
  <2>. QED
    BY <2>1, <1>2 DEF Delivery!Next
<1>. QED
  BY <1>1, <1>5, <1>6

(* The end of the process is Stop.                                         *)
LEMMA EndMaps ==
    ASSUME Return \/ Crash
    PROVE  [Delivery!Next]_(Delivery!vars)
<1>1. process = "up" /\ process' # "up" /\ UNCHANGED <<call, tally, ledger>>
  BY DEF Return, Crash, queueVars
<1>2. DeliveryStatus' = DeliveryStatus
  BY <1>1 DEF DeliveryStatus, Counted
<1>3. Delivery!Stop
  BY <1>1, <1>2 DEF Delivery!Stop
<1>. QED
  BY <1>3 DEF Delivery!Next

(* The queue implements ReportDelivery: what was turned away never reaches *)
(* the ledger, and each accepted report is settled and recorded at most    *)
(* once.                                                                   *)
THEOREM ImplementsDeliverySafety ==
    Spec => Delivery!Init /\ [][Delivery!Next]_(Delivery!vars)
<1>1. Init => Delivery!Init
  BY DEF Init, Delivery!Init, DeliveryStatus
<1>2. IInv /\ [Next]_vars => [Delivery!Next]_(Delivery!vars)
  <2> SUFFICES ASSUME IInv, [Next]_vars PROVE [Delivery!Next]_(Delivery!vars)
    OBVIOUS
  <2>1. CASE BeginShutdown \/ FinishShutdown \/ ShutdownDeadline
    BY <2>1, StatusKept DEF BeginShutdown, FinishShutdown, ShutdownDeadline, queueVars
  <2>2. CASE UNCHANGED vars
    BY <2>2, StatusKept DEF vars, queueVars
  <2>. QED
    BY <2>1, <2>2, EnqueueMaps, WorkerMaps, ControlPlaneMaps, EndMaps DEF Next
<1>. QED
  BY <1>1, <1>2, InvariantHolds, PTL DEF Spec

-----------------------------------------------------------------------------
(***************************************************************************)
(* The process around it.                                                  *)
(***************************************************************************)
(* Only what has arrived can have reported, and once the handlers are      *)
(* drained all of it has, without a refusal.                               *)
Arrivals ==
    /\ \A r \in Reports : call[r] # "none" => r \in arrived
    /\ \A r \in Reports : call[r] = "refused" => done
    /\ main = "drained" => \A r \in arrived : call[r] \in {"queued", "full"}

(* The flush comes after the handlers, and the workers' end after that.    *)
Sequence ==
    /\ done <=> shutdown # "notCalled"
    /\ done => main \in {"drained", "cut"}
    /\ \A w \in Workers : draining[w] => done
    /\ \A w \in Workers : pc[w] = "exited" => draining[w]
    /\ \A w \in Workers : main = "drained" /\ pc[w] = "exited" => ch = <<>>
    /\ shutdown = "finished" => \A w \in Workers : pc[w] = "exited"

GInv == IInv /\ GatewayTypeOK /\ Arrivals /\ Sequence

-----------------------------------------------------------------------------
LEMMA GatewayInitInv == GatewayInit => GInv
<1> SUFFICES ASSUME GatewayInit PROVE GInv
  OBVIOUS
<1>1. IInv
  BY InitIInv DEF GatewayInit
<1>2. GatewayTypeOK
  BY <1>1 DEF GatewayTypeOK, GatewayInit, IInv
<1>3. Arrivals
  BY DEF Arrivals, GatewayInit, Init
<1>4. Sequence
  BY DEF Sequence, GatewayInit, Init
<1>. QED
  BY <1>1, <1>2, <1>3, <1>4 DEF GInv

(* A step of the gateway is a step of the queue, or none of it.            *)
LEMMA GatewayStepIsMetering == [GatewayNext]_gatewayVars => [Next]_vars
<1>1. ASSUME NEW r \in Reports, Arrive(r) \/ CheckSignal(r) \/ Offer(r) PROVE [Next]_vars
  BY <1>1 DEF Arrive, CheckSignal, Offer, Next, Enqueue
<1>2. ASSUME NEW w \in Workers, MeterWorker(w) PROVE [Next]_vars
  BY <1>2 DEF MeterWorker, Next
<1>3. ASSUME Main PROVE [Next]_vars
  BY <1>3 DEF Main, Signal, CloseListener, HttpDrained, HttpDeadline, FlushMetering, Next
<1>4. ASSUME MeterRest PROVE [Next]_vars
  BY <1>4 DEF MeterRest, Next
<1>. QED
  BY <1>1, <1>2, <1>3, <1>4 DEF GatewayNext, gatewayVars

(* A request arrives; a handler offers its report.                         *)
LEMMA ArriveStep ==
    ASSUME GInv, IInv', NEW r \in Reports, Arrive(r)
    PROVE  GInv'
<1> USE DEF Arrive, vars, queueVars, workerVars
<1>1. GatewayTypeOK'
  BY DEF GInv, GatewayTypeOK, IInv
<1>2. Arrivals'
  BY DEF GInv, Arrivals
<1>3. Sequence'
  BY DEF GInv, Sequence
<1>. QED
  BY <1>1, <1>2, <1>3 DEF GInv

LEMMA ReportStep ==
    ASSUME GInv, IInv', NEW r \in Reports, CheckSignal(r) \/ Offer(r)
    PROVE  GInv'
<1> USE DEF workerVars, mainVars
<1>1. /\ UNCHANGED <<main, arrived, done, shutdown, draining, pc>>
      /\ call[r] \in {"none", "checked"} /\ r \in arrived
      /\ \A q \in Reports \ {r} : call'[q] = call[q]
      /\ call'[r] = "refused" => done
      /\ main # "drained" \/ ch' = ch
  BY DEF CheckSignal, Offer, EnqueueFastPath, EnqueueSelect, GInv, Arrivals, IInv, TypeOK
<1>2. GatewayTypeOK'
  BY <1>1 DEF GInv, GatewayTypeOK, IInv
<1>3. Arrivals'
  BY <1>1 DEF GInv, Arrivals
<1>4. Sequence'
  BY <1>1 DEF GInv, Sequence
<1>. QED
  BY <1>2, <1>3, <1>4 DEF GInv

(* A worker's step.                                                        *)
LEMMA MeterWorkerStep ==
    ASSUME GInv, IInv', NEW w \in Workers, MeterWorker(w)
    PROVE  GInv'
<1> USE DEF queueVars, workerVars, mainVars, MeterWorker
<1>1. /\ UNCHANGED <<main, arrived, done, shutdown, call>>
      /\ ch' = ch \/ (ch' = Tail(ch) /\ ch # <<>>)
      /\ \A v \in Workers \ {w} : pc'[v] = pc[v] /\ draining'[v] = draining[v]
      /\ draining'[w] = draining[w] \/ done
      /\ pc[w] # "exited"
      /\ draining[w] => draining'[w]
      /\ pc'[w] = "exited" => draining[w] /\ ch' = <<>>
  <2> USE DEF GInv, IInv, TypeOK
  <2>1. CASE Take(w)
    BY <2>1 DEF Take
  <2>2. CASE SeeDone(w)
    BY <2>2 DEF SeeDone
  <2>3. CASE ExitWorker(w)
    BY <2>3 DEF ExitWorker
  <2>4. CASE Post(w) \/ Wake(w)
    BY <2>4 DEF Post, Wake
  <2>5. CASE Receive(w) \/ LoseAnswer(w)
    <3>1. /\ pc[w] = "awaiting" /\ UNCHANGED <<queueVars, draining, shutdown>>
          /\ \/ \E label : Finish(w, label)
             \/ pc' = [pc EXCEPT ![w] = "backingOff"]
      BY <2>5 DEF Receive, LoseAnswer, RetryOrGiveUp
    <3>. QED
      BY <3>1 DEF Finish
  <2>. QED
    BY <2>1, <2>2, <2>3, <2>4, <2>5 DEF Worker
<1>2. GatewayTypeOK'
  BY <1>1 DEF GInv, GatewayTypeOK, IInv
<1>3. Arrivals'
  BY <1>1 DEF GInv, Arrivals
<1>4. Sequence'
  BY <1>1 DEF GInv, Sequence
<1>. QED
  BY <1>2, <1>3, <1>4 DEF GInv

(* main's own steps.                                                       *)
LEMMA MainStep ==
    ASSUME GInv, IInv', Main
    PROVE  GInv'
<1> USE DEF vars, queueVars, workerVars, mainVars
<1>1. GatewayTypeOK'
  BY DEF GInv, GatewayTypeOK, IInv, Main, Signal, CloseListener, HttpDrained, HttpDeadline,
         FlushMetering
<1>2. CASE Signal \/ CloseListener \/ HttpDeadline
  <2>1. Arrivals'
    BY <1>2 DEF GInv, Arrivals, Signal, CloseListener, HttpDeadline
  <2>2. Sequence'
    BY <1>2 DEF GInv, Sequence, Signal, CloseListener, HttpDeadline
  <2>. QED
    BY <1>1, <2>1, <2>2 DEF GInv
<1>3. CASE HttpDrained
  <2>1. ~done /\ \A w \in Workers : pc[w] # "exited"
    BY <1>3 DEF HttpDrained, GInv, Sequence
  <2>2. \A r \in arrived : call[r] \in {"queued", "full"}
    BY <1>3, <2>1 DEF HttpDrained, InFlight, GInv, GatewayTypeOK, Arrivals, IInv, TypeOK
  <2>3. Arrivals'
    BY <1>3, <2>2 DEF GInv, Arrivals, HttpDrained
  <2>4. Sequence'
    BY <1>3, <2>1 DEF GInv, Sequence, HttpDrained
  <2>. QED
    BY <1>1, <2>3, <2>4 DEF GInv
<1>4. CASE FlushMetering
  <2>1. Arrivals'
    BY <1>4 DEF GInv, Arrivals, FlushMetering, BeginShutdown
  <2>2. Sequence'
    BY <1>4 DEF GInv, Sequence, FlushMetering, BeginShutdown
  <2>. QED
    BY <1>1, <2>1, <2>2 DEF GInv
<1>. QED
  BY <1>2, <1>3, <1>4 DEF Main

(* The control plane, and the end of Shutdown and of the process.          *)
LEMMA MeterRestStep ==
    ASSUME GInv, IInv', MeterRest
    PROVE  GInv'
<1>1. /\ UNCHANGED <<main, arrived, done, call, ch, pc, draining>>
      /\ \/ shutdown' = shutdown
         \/ shutdown = "flushing" /\ shutdown' = "deadline"
         \/ /\ shutdown = "flushing" /\ shutdown' = "finished"
            /\ \A w \in Workers : pc[w] = "exited"
  BY DEF MeterRest, ControlPlane, FinishShutdown, ShutdownDeadline, Return, Crash,
         mainVars, queueVars, workerVars
<1>2. GatewayTypeOK'
  BY <1>1 DEF GInv, GatewayTypeOK, IInv
<1>3. Arrivals'
  BY <1>1 DEF GInv, Arrivals
<1>4. Sequence'
  BY <1>1 DEF GInv, Sequence
<1>. QED
  BY <1>2, <1>3, <1>4 DEF GInv

LEMMA GatewayNextInv == GInv /\ [GatewayNext]_gatewayVars => GInv'
<1> SUFFICES ASSUME GInv, [GatewayNext]_gatewayVars PROVE GInv'
  OBVIOUS
<1>1. IInv'
  BY GatewayStepIsMetering, NextIInv DEF GInv
<1>2. CASE GatewayNext
  BY <1>1, <1>2, ArriveStep, ReportStep, MeterWorkerStep, MainStep, MeterRestStep DEF GatewayNext
<1>3. CASE UNCHANGED gatewayVars
  BY <1>1, <1>3 DEF gatewayVars, mainVars, vars, queueVars, workerVars, GInv, GatewayTypeOK,
     IInv, Arrivals, Sequence
<1>. QED
  BY <1>2, <1>3

(* Whatever the process around it does, the queue keeps its invariant, and *)
(* with it every theorem of MeteringProofs.                                *)
LEMMA GatewayInvariant == GatewaySpec => []GInv
  BY GatewayInitInv, GatewayNextInv, PTL DEF GatewaySpec

-----------------------------------------------------------------------------
(* Every variable keeps its type.                                          *)
THEOREM GatewayTypeCorrect == GatewaySpec => []GatewayTypeOK
<1>1. GInv => GatewayTypeOK
  BY DEF GInv
<1>. QED
  BY <1>1, GatewayInvariant, PTL

(* An exit that drained the handlers and then flushed the queue has        *)
(* settled every request's report (main's shutdown sequence).              *)
THEOREM GracefulExit == GatewaySpec => []GracefulExitLosesNothing
<1>1. GInv => GracefulExitLosesNothing
  <2> SUFFICES ASSUME GInv, main = "drained", shutdown = "finished", NEW r \in arrived
               PROVE  Counted(r)
    BY DEF GracefulExitLosesNothing
  <2>1. r \in Reports /\ call[r] \in {"queued", "full"}
    BY DEF GInv, GatewayTypeOK, Arrivals
  <2>2. CASE call[r] = "full"
    <3>1. tally[r] = <<"dropped">>
      BY <2>1, <2>2 DEF GInv, IInv, TallyByCall
    <3>. QED
      BY <3>1 DEF Counted
  <2>3. CASE call[r] = "queued"
    <3>1. ~Buffered(r)
      <4>1. ch = <<>>
        BY WorkersAssumption DEF GInv, Sequence
      <4>. QED
        BY <4>1 DEF Buffered
    <3>2. ~Held(r)
      BY <2>1 DEF Held, GInv, Sequence, IInv, WorkerState, Busy
    <3>. QED
      BY <2>1, <2>3, <3>1, <3>2 DEF GInv, IInv, NothingLost, Counted
  <2>. QED
    BY <2>1, <2>2, <2>3
<1>. QED
  BY <1>1, GatewayInvariant, PTL
=============================================================================
