------------------------------ MODULE Metering ------------------------------
(***************************************************************************)
(* The usage-metering queue (internal/metering/queue.go) and the delivery  *)
(* of a report over the control-plane client (ReportUsage and postJSON of  *)
(* internal/controlplane/client.go).                                       *)
(*                                                                         *)
(* A request goroutine offers its one report with Enqueue, which looks at  *)
(* the shutdown signal and then, in a second step, at signal and buffer    *)
(* together.  Workers take reports off the buffer and post them, again and *)
(* again after a failure worth retrying.  A post and its answer travel     *)
(* separately: the control plane may act on a post whose sender has given  *)
(* up, or whose process is gone.  main() closes the signal, waits for the  *)
(* workers or for the flush budget, and the process ends.                  *)
(***************************************************************************)
EXTENDS Naturals, Sequences, FiniteSets

CONSTANTS Reports,    (* the reports, one per request; the request_id      *)
          Workers,    (* the goroutines Start launches                     *)
          QueueSize,  (* metering.queue_size                               *)
          MaxRetries, (* metering.max_retries                              *)
          Statuses,   (* the error statuses the control plane may answer   *)
          NoReport    (* what an idle worker holds                         *)

(* config.applyDefaults replaces a zero queue_size; a report is a value.   *)
ASSUME MeteringAssumption ==
    /\ QueueSize \in Nat \ {0}
    /\ MaxRetries \in Nat
    /\ Statuses \subseteq {401, 408, 429, 500}
    /\ NoReport \notin Reports

VARIABLES
    call,     \* call[r]: what Enqueue has done with r so far
    ch,       \* the buffered channel q.ch
    done,     \* the channel q.done is closed
    pc,       \* pc[w]: where worker w is
    draining, \* draining[w]: w is in the inner loop, entered on q.done
    job,      \* job[w]: the report w is delivering
    attempt,  \* attempt[w]: deliver's loop counter
    posted,   \* posted[r]: how often r was sent so far
    wire,     \* posts sent and not yet acted on by the control plane
    answer,   \* answer[w]: the control plane's answer to w's current post
    ledger,   \* the reports the control plane has recorded
    tally,    \* tally[r]: the llmgw_metering_reports_total labels counted for r
    shutdown, \* how far Shutdown is
    process   \* whether the process runs, has returned from main, or died

queueVars  == <<call, ch, done>>
workerVars == <<pc, draining, job, attempt>>
wireVars   == <<posted, wire, answer>>
vars == <<queueVars, workerVars, wireVars, ledger, tally, shutdown, process>>

-----------------------------------------------------------------------------
(***************************************************************************)
(* What the control plane answers: an HTTP status and, with a 200, the     *)
(* outcome in the ApiResult envelope.  "unusable" is a 200 the client      *)
(* cannot use: a business code, empty data, or no valid JSON.              *)
(***************************************************************************)
Answer == [status : {200}, body : {"accepted", "duplicate", "rejected", "unusable"}]
            \union [status : Statuses, body : {"error"}]
NoAnswer == [status |-> 0, body |-> "none"]

(* A client that retries server errors only.                               *)
Retryable_ServerErrorsOnly(a) == a.status >= 500

(* postJSON: the answers that come back as a *RetryableError.              *)
Retryable(a) == a.status >= 500 \/ a.status \in {408, 429}

(* postJSON returns no error.                                              *)
Usable(a) == a.status = 200 /\ a.body # "unusable"

(* deliver: the label counted for a usable answer; Duplicate goes first.   *)
LabelOf(a) ==
    CASE a.body = "duplicate" -> "duplicate"
      [] a.body = "accepted"  -> "ok"
      [] OTHER                -> "rejected"

-----------------------------------------------------------------------------
Init ==
    /\ call = [r \in Reports |-> "none"]
    /\ ch = <<>>
    /\ done = FALSE
    /\ pc = [w \in Workers |-> "waiting"]
    /\ draining = [w \in Workers |-> FALSE]
    /\ job = [w \in Workers |-> NoReport]
    /\ attempt = [w \in Workers |-> 0]
    /\ posted = [r \in Reports |-> 0]
    /\ wire = {}
    /\ answer = [w \in Workers |-> NoAnswer]
    /\ ledger = {}
    /\ tally = [r \in Reports |-> <<>>]
    /\ shutdown = "notCalled"
    /\ process = "up"

Count(r, label) == tally' = [tally EXCEPT ![r] = Append(@, label)]

(***************************************************************************)
(* Enqueue, in its two steps.                                              *)
(***************************************************************************)

(* The fast path: a shutdown already signalled turns the report away.      *)
EnqueueFastPath(r) ==
    /\ process = "up"
    /\ call[r] = "none"
    /\ call' = [call EXCEPT ![r] = IF done THEN "refused" ELSE "checked"]
    /\ UNCHANGED <<ch, done, workerVars, wireVars, ledger, tally, shutdown, process>>

(* The select: a ready send and a closed q.done are chosen between at      *)
(* random; the default counts a capacity drop.                             *)
EnqueueSelect_SendsThenRefuses(r) ==
    /\ process = "up"
    /\ call[r] = "checked"
    /\ Len(ch) < QueueSize
    /\ ch' = Append(ch, r)
    /\ call' = [call EXCEPT ![r] = IF done THEN "refused" ELSE "queued"]
    /\ UNCHANGED <<done, workerVars, wireVars, ledger, tally, shutdown, process>>

EnqueueSelect(r) ==
    /\ process = "up"
    /\ call[r] = "checked"
    /\ \/ /\ Len(ch) < QueueSize
          /\ ch' = Append(ch, r)
          /\ call' = [call EXCEPT ![r] = "queued"]
          /\ UNCHANGED tally
       \/ /\ done
          /\ call' = [call EXCEPT ![r] = "refused"]
          /\ UNCHANGED <<ch, tally>>
       \/ /\ Len(ch) = QueueSize /\ ~done
          /\ call' = [call EXCEPT ![r] = "full"]
          /\ Count(r, "dropped")
          /\ UNCHANGED ch
    /\ UNCHANGED <<done, workerVars, wireVars, ledger, shutdown, process>>

(***************************************************************************)
(* The worker loop.                                                        *)
(***************************************************************************)

(* A receive from q.ch, in the outer or in the draining loop.              *)
Take_Peek(w) ==
    /\ process = "up"
    /\ pc[w] = "waiting"
    /\ ch # <<>>
    /\ job' = [job EXCEPT ![w] = Head(ch)]
    /\ pc' = [pc EXCEPT ![w] = "sending"]
    /\ UNCHANGED <<queueVars, draining, attempt, wireVars, ledger, tally, shutdown, process>>

Take(w) ==
    /\ process = "up"
    /\ pc[w] = "waiting"
    /\ ch # <<>>
    /\ ch' = Tail(ch)
    /\ job' = [job EXCEPT ![w] = Head(ch)]
    /\ pc' = [pc EXCEPT ![w] = "sending"]
    /\ UNCHANGED <<call, done, draining, attempt, wireVars, ledger, tally, shutdown, process>>

(* The outer select sees q.done; with reports buffered either may win.     *)
SeeDone_Exit(w) ==
    /\ process = "up"
    /\ pc[w] = "waiting" /\ ~draining[w]
    /\ done
    /\ pc' = [pc EXCEPT ![w] = "exited"]
    /\ UNCHANGED <<queueVars, draining, job, attempt, wireVars, ledger, tally, shutdown, process>>

SeeDone(w) ==
    /\ process = "up"
    /\ pc[w] = "waiting" /\ ~draining[w]
    /\ done
    /\ draining' = [draining EXCEPT ![w] = TRUE]
    /\ UNCHANGED <<queueVars, pc, job, attempt, wireVars, ledger, tally, shutdown, process>>

(* The draining loop's default: nothing buffered any more.                 *)
ExitWorker_OnClosedChannel(w) ==
    /\ process = "up"
    /\ pc[w] = "waiting" /\ draining[w]
    /\ ch = <<>> /\ shutdown \in {"finished", "deadline"}
    /\ pc' = [pc EXCEPT ![w] = "exited"]
    /\ UNCHANGED <<queueVars, draining, job, attempt, wireVars, ledger, tally, shutdown, process>>

ExitWorker(w) ==
    /\ process = "up"
    /\ pc[w] = "waiting" /\ draining[w]
    /\ ch = <<>>
    /\ pc' = [pc EXCEPT ![w] = "exited"]
    /\ UNCHANGED <<queueVars, draining, job, attempt, wireVars, ledger, tally, shutdown, process>>

(* ReportUsage sends one post, under a fresh timeout.                      *)
Post(w) ==
    /\ process = "up"
    /\ pc[w] = "sending"
    /\ pc' = [pc EXCEPT ![w] = "awaiting"]
    /\ posted' = [posted EXCEPT ![job[w]] = @ + 1]
    /\ wire' = wire \union {[report |-> job[w], attempt |-> attempt[w]]}
    /\ UNCHANGED <<queueVars, draining, job, attempt, answer, ledger, tally, shutdown, process>>

(* deliver returns: the worker goes back to the loop it came from.         *)
Finish(w, label) ==
    /\ Count(job[w], label)
    /\ pc' = [pc EXCEPT ![w] = "waiting"]
    /\ job' = [job EXCEPT ![w] = NoReport]
    /\ attempt' = [attempt EXCEPT ![w] = 0]

(* A failure worth a retry: back off, or give up once the retries are      *)
(* spent.                                                                  *)
RetryOrGiveUp_NoLimit(w) ==
    /\ pc' = [pc EXCEPT ![w] = "backingOff"]
    /\ UNCHANGED <<job, attempt, tally>>

RetryOrGiveUp(w) ==
    IF attempt[w] >= MaxRetries
    THEN Finish(w, "dropped")
    ELSE /\ pc' = [pc EXCEPT ![w] = "backingOff"]
         /\ UNCHANGED <<job, attempt, tally>>

(* The answer arrives in time.                                             *)
Receive(w) ==
    /\ process = "up"
    /\ pc[w] = "awaiting"
    /\ answer[w] # NoAnswer
    /\ \/ /\ Usable(answer[w])
          /\ Finish(w, LabelOf(answer[w]))
       \/ /\ ~Usable(answer[w]) /\ Retryable(answer[w])
          /\ RetryOrGiveUp(w)
       \/ /\ ~Usable(answer[w]) /\ ~Retryable(answer[w])
          /\ Finish(w, "dropped")
    /\ answer' = [answer EXCEPT ![w] = NoAnswer]
    /\ UNCHANGED <<queueVars, draining, posted, wire, ledger, shutdown, process>>

(* The transport fails or the per-post timeout fires; an answer already    *)
(* under way is lost.  Both are retryable.                                 *)
LoseAnswer_CountOk(w) ==
    /\ process = "up"
    /\ pc[w] = "awaiting"
    /\ Finish(w, "ok")
    /\ answer' = [answer EXCEPT ![w] = NoAnswer]
    /\ UNCHANGED <<queueVars, draining, posted, wire, ledger, shutdown, process>>

LoseAnswer(w) ==
    /\ process = "up"
    /\ pc[w] = "awaiting"
    /\ RetryOrGiveUp(w)
    /\ answer' = [answer EXCEPT ![w] = NoAnswer]
    /\ UNCHANGED <<queueVars, draining, posted, wire, ledger, shutdown, process>>

(* The backoff sleep is over.                                              *)
Wake(w) ==
    /\ process = "up"
    /\ pc[w] = "backingOff"
    /\ attempt' = [attempt EXCEPT ![w] = @ + 1]
    /\ pc' = [pc EXCEPT ![w] = "sending"]
    /\ UNCHANGED <<queueVars, draining, job, wireVars, ledger, tally, shutdown, process>>

(***************************************************************************)
(* The control plane, external.  It acts on a post at any later time, also *)
(* when nobody waits for the answer, and uses request_id as idempotency    *)
(* key.  It may fail before or after recording.                            *)
(***************************************************************************)
Awaits(w, post) ==
    pc[w] = "awaiting" /\ job[w] = post.report /\ attempt[w] = post.attempt

Deliver(post, a) ==
    answer' = [w \in Workers |-> IF Awaits(w, post) THEN a ELSE answer[w]]

ControlPlane(post) ==
    /\ wire' = wire \ {post}
    /\ \E a \in Answer :
          /\ Deliver(post, a)
          /\ \/ /\ a.body \in {"accepted", "error", "unusable"}
                /\ post.report \notin ledger
                /\ ledger' = ledger \union {post.report}
             \/ /\ a.body \in {"rejected", "error", "unusable"}
                /\ UNCHANGED ledger
             \/ /\ a.body = "duplicate"
                /\ post.report \in ledger
                /\ UNCHANGED ledger
    /\ UNCHANGED <<queueVars, workerVars, posted, tally, shutdown, process>>

(***************************************************************************)
(* Shutdown, and the end of the process.                                   *)
(***************************************************************************)

(* Close q.done (once) and start waiting.                                  *)
BeginShutdown ==
    /\ process = "up"
    /\ shutdown = "notCalled"
    /\ shutdown' = "flushing"
    /\ done' = TRUE
    /\ UNCHANGED <<call, ch, workerVars, wireVars, ledger, tally, process>>

(* Shutdown's wait ends because every worker is gone ...                  *)
FinishShutdown ==
    /\ process = "up"
    /\ shutdown = "flushing"
    /\ \A w \in Workers : pc[w] = "exited"
    /\ shutdown' = "finished"
    /\ UNCHANGED <<queueVars, workerVars, wireVars, ledger, tally, process>>

(* ... or because the flush budget is spent.                               *)
ShutdownDeadline ==
    /\ process = "up"
    /\ shutdown = "flushing"
    /\ shutdown' = "deadline"
    /\ UNCHANGED <<queueVars, workerVars, wireVars, ledger, tally, process>>

(* main returns after Shutdown; the goroutines end with it.                *)
Return ==
    /\ process = "up"
    /\ shutdown \in {"finished", "deadline"}
    /\ process' = "returned"
    /\ UNCHANGED <<queueVars, workerVars, wireVars, ledger, tally, shutdown>>

(* The process dies at any point; queue.go keeps nothing on disk.          *)
Crash ==
    /\ process = "up"
    /\ process' = "crashed"
    /\ UNCHANGED <<queueVars, workerVars, wireVars, ledger, tally, shutdown>>

-----------------------------------------------------------------------------
Enqueue(r) == EnqueueFastPath(r) \/ EnqueueSelect(r)

Worker(w) ==
    \/ Take(w) \/ SeeDone(w) \/ ExitWorker(w)
    \/ Post(w) \/ Receive(w) \/ LoseAnswer(w) \/ Wake(w)

Next ==
    \/ \E r \in Reports : Enqueue(r)
    \/ \E w \in Workers : Worker(w)
    \/ \E post \in wire : ControlPlane(post)
    \/ BeginShutdown \/ FinishShutdown \/ ShutdownDeadline \/ Return \/ Crash

(***************************************************************************)
(* A runnable goroutine is scheduled in the end, and timers fire: a post   *)
(* is answered or times out (LoseAnswer), a backoff ends.  Nothing is      *)
(* assumed of the control plane, no report has to be offered, and the      *)
(* flush budget need not run out: the workers end on their own.            *)
(***************************************************************************)
Fairness ==
    /\ \A r \in Reports : WF_vars(EnqueueSelect(r))
    /\ \A w \in Workers : WF_vars(Worker(w))
    /\ WF_vars(FinishShutdown)
    /\ WF_vars(Return)

Spec == Init /\ [][Next]_vars /\ Fairness

-----------------------------------------------------------------------------
(***************************************************************************)
(* Properties.                                                             *)
(***************************************************************************)
Labels == {"ok", "duplicate", "rejected", "dropped"}
Posts  == [report : Reports, attempt : 0..MaxRetries]

Buffered(r) == \E i \in DOMAIN ch : ch[i] = r
Held(r)     == \E w \in Workers : job[w] = r
Counted(r)  == tally[r] # <<>>

(* Every variable stays in its range: the buffer within queue_size, the    *)
(* retry counter within max_retries (queue.go New, deliver).               *)
TypeOK ==
    /\ call \in [Reports -> {"none", "checked", "queued", "full", "refused"}]
    /\ ch \in Seq(Reports) /\ Len(ch) <= QueueSize
    /\ done \in BOOLEAN
    /\ pc \in [Workers -> {"waiting", "sending", "awaiting", "backingOff", "exited"}]
    /\ draining \in [Workers -> BOOLEAN]
    /\ job \in [Workers -> Reports \union {NoReport}]
    /\ attempt \in [Workers -> 0..MaxRetries]
    /\ posted \in [Reports -> Nat]
    /\ wire \in SUBSET Posts
    /\ answer \in [Workers -> Answer \union {NoAnswer}]
    /\ ledger \in SUBSET Reports
    /\ tally \in [Reports -> Seq(Labels)]
    /\ shutdown \in {"notCalled", "flushing", "finished", "deadline"}
    /\ process \in {"up", "returned", "crashed"}

(* Conservation: a report Enqueue accepted is in exactly one place, the    *)
(* buffer (once), one worker, or the counters (once); it is neither lost   *)
(* nor handled twice, whatever workers, producers and Shutdown interleave. *)
(* Reports not accepted are in no worker's reach.                          *)
OnePlace ==
    /\ \A r \in Reports : call[r] = "queued" =>
          /\ Buffered(r) \/ Held(r) \/ Counted(r)
          /\ ~(Buffered(r) /\ Held(r))
          /\ ~(Buffered(r) /\ Counted(r))
          /\ ~(Held(r) /\ Counted(r))
    /\ \A r \in Reports : call[r] # "queued" => ~Buffered(r) /\ ~Held(r)
    /\ \A i, j \in DOMAIN ch : ch[i] = ch[j] => i = j
    /\ \A v, w \in Workers : job[v] = job[w] /\ job[v] # NoReport => v = w
    /\ \A r \in Reports : Len(tally[r]) <= 1

(* A report is sent at most max_retries + 1 times, over all workers and    *)
(* retries (deliver's loop bound).                                         *)
RetryBudget == \A r \in Reports : posted[r] <= MaxRetries + 1

(* "ok" and "duplicate" are counted only for reports that really are in    *)
(* the ledger, although answers get lost and come late.                    *)
CountedOkIsRecorded ==
    \A r \in Reports :
        tally[r] \in {<<"ok">>, <<"duplicate">>} => r \in ledger

(* An accepted report is given up only when its retries are spent or the   *)
(* control plane answered it with something final.                         *)
GivesUpOnlyWhenSpent ==
    [][\A w \in Workers :
          (job[w] # NoReport /\ job'[w] = NoReport /\ tally'[job[w]] = <<"dropped">>)
             => \/ posted[job[w]] = MaxRetries + 1
                \/ answer[w].status = 401 \/ answer[w].body = "unusable"]_vars

(* A report accepted before shutdown was signalled is settled, unless the  *)
(* flush budget runs out or the process dies (Shutdown, worker).           *)
AcceptedBeforeShutdownIsSettled ==
    \A r \in Reports :
        (call[r] = "queued" /\ ~done)
            ~> (Counted(r) \/ shutdown = "deadline" \/ process = "crashed")

(* A clean shutdown has settled every report Enqueue accepted.  Enqueue's  *)
(* comment promises false "when the queue is shutting down"; its select    *)
(* can still choose the send after the workers have gone.                  *)
CleanShutdownSettlesAll ==
    shutdown = "finished" =>
        \A r \in Reports : call[r] = "queued" => Counted(r)

(***************************************************************************)
(* The queue implements what ReportDelivery promises.                      *)
(***************************************************************************)
DeliveryStatus ==
    [r \in Reports |->
        CASE call[r] \in {"none", "checked"}      -> "new"
          [] call[r] \in {"full", "refused"}      -> "turnedAway"
          [] call[r] = "queued" /\ ~Counted(r)    -> "taken"
          [] OTHER                                -> "settled"]

Delivery == INSTANCE ReportDelivery WITH
    status <- DeliveryStatus, running <- (process = "up")

(* Every behaviour of the queue is one of ReportDelivery.                  *)
ImplementsDelivery == Delivery!Spec
=============================================================================
