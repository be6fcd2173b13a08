------------------------------ MODULE Gateway -------------------------------
(***************************************************************************)
(* The gateway process (run of cmd/gateway/main.go) around the metering    *)
(* queue: requests arrive, are served, report once at the end; a signal    *)
(* starts the shutdown sequence.  Readiness goes first and connections may *)
(* still come for drainDelay; then http.Server.Shutdown stops accepting    *)
(* and waits for the handlers, but not longer than shutdown_timeout; then  *)
(* the metering queue is flushed within a budget of its own; then the      *)
(* process returns.  Nobody stops the handlers that are still running when *)
(* the wait for them is cut short.                                         *)
(*                                                                         *)
(* A request is identified with its one report, and is in flight from its  *)
(* arrival until Enqueue has returned: report is the last thing that       *)
(* ServeHTTP does (module Requests has what it does before).               *)
(***************************************************************************)
EXTENDS Metering

(* config.applyDefaults replaces a zero metering.workers.                  *)
ASSUME WorkersAssumption == Workers # {}

VARIABLES
    main,     \* "serving", "draining", "closing", then "drained" or "cut"
    arrived   \* the requests that reached a handler

mainVars    == <<main, arrived>>
gatewayVars == <<vars, mainVars>>

InFlight(r) == r \in arrived /\ call[r] \in {"none", "checked"}

GatewayInit == Init /\ main = "serving" /\ arrived = {}

-----------------------------------------------------------------------------
(* A request reaches its handler.  Shutdown waits for connections that have*)
(* not sent theirs yet, and does not cut those it gave up on.              *)
Arrive(r) ==
    /\ process = "up" /\ main # "drained"
    /\ r \notin arrived
    /\ arrived' = arrived \union {r}
    /\ UNCHANGED <<vars, main>>

(* The handler reports: Enqueue in its two steps.                          *)
CheckSignal(r) == r \in arrived /\ EnqueueFastPath(r) /\ UNCHANGED mainVars
Offer(r)       == EnqueueSelect(r) /\ UNCHANGED mainVars

(* ctx.Done: readiness is given up ...                                     *)
Signal ==
    /\ process = "up" /\ main = "serving"
    /\ main' = "draining"
    /\ UNCHANGED <<vars, arrived>>

(* ... and after drainDelay srv.Shutdown closes the listener.              *)
CloseListener ==
    /\ process = "up" /\ main = "draining"
    /\ main' = "closing"
    /\ UNCHANGED <<vars, arrived>>

(* srv.Shutdown returns nil ...                                            *)
HttpDrained_AtOnce ==
    /\ process = "up" /\ main = "closing"
    /\ main' = "drained"
    /\ UNCHANGED <<vars, arrived>>

HttpDrained ==
    /\ process = "up" /\ main = "closing"
    /\ \A r \in Reports : ~InFlight(r)
    /\ main' = "drained"
    /\ UNCHANGED <<vars, arrived>>

(* ... or the error of its context after shutdown_timeout.                 *)
HttpDeadline ==
    /\ process = "up" /\ main = "closing"
    /\ main' = "cut"
    /\ UNCHANGED <<vars, arrived>>

(* meter.Shutdown, with a budget of its own.                               *)
FlushMetering ==
    /\ main \in {"drained", "cut"}
    /\ BeginShutdown
    /\ UNCHANGED mainVars

MeterWorker(w) == Worker(w) /\ UNCHANGED mainVars

MeterRest ==
    /\ \/ \E post \in wire : ControlPlane(post)
       \/ FinishShutdown \/ ShutdownDeadline \/ Return
       \/ Crash
    /\ UNCHANGED mainVars

Main == Signal \/ CloseListener \/ HttpDrained \/ HttpDeadline \/ FlushMetering

GatewayNext ==
    \/ \E r \in Reports : Arrive(r) \/ CheckSignal(r) \/ Offer(r)
    \/ \E w \in Workers : MeterWorker(w)
    \/ Main
    \/ MeterRest

(***************************************************************************)
(* Goroutines run when they can and timers fire: drainDelay, the HTTP      *)
(* deadline, the post timeout and the backoff.  No request has to arrive   *)
(* or to report, no signal has to come, the control plane need not answer, *)
(* and the flush budget need not run out.                                  *)
(***************************************************************************)
GatewayFairness ==
    /\ \A r \in Reports : WF_gatewayVars(Offer(r))
    /\ \A w \in Workers : WF_gatewayVars(MeterWorker(w))
    /\ WF_gatewayVars(CloseListener \/ HttpDeadline \/ FlushMetering)
    /\ WF_gatewayVars((FinishShutdown \/ Return) /\ UNCHANGED mainVars)

GatewaySpec == GatewayInit /\ [][GatewayNext]_gatewayVars /\ GatewayFairness

-----------------------------------------------------------------------------
(***************************************************************************)
(* Properties.                                                             *)
(***************************************************************************)
GatewayTypeOK ==
    /\ TypeOK
    /\ main \in {"serving", "draining", "closing", "drained", "cut"}
    /\ arrived \subseteq Reports

(* A process that returned with its handlers drained and its queue flushed *)
(* has settled the report of every request it ever took: counted as ok,    *)
(* duplicate, rejected or dropped, and none refused because of the         *)
(* shutdown (the order of the steps in main, and its comment on them).     *)
(* What finding CleanShutdownSettlesAll needs is a handler that outlives   *)
(* the HTTP deadline.                                                      *)
GracefulExitLosesNothing ==
    (process = "returned" /\ main = "drained" /\ shutdown = "finished")
        => \A r \in arrived : Counted(r)

(* A signalled process ends, although handlers may hang, the control plane *)
(* may be silent, and the flush deadline may never fire: no step of main   *)
(* waits for something that has no bound of its own.                       *)
ExitsAfterSignal == (main # "serving") ~> (process # "up")
=============================================================================
