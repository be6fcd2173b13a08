------------------------------- MODULE Routing ------------------------------
(***************************************************************************)
(* The route table: package router (Load, Attempts, weightedOrder, the     *)
(* Poller), FetchRoutes of internal/controlplane/client.go, and the        *)
(* initial load of cmd/gateway/main.go.                                    *)
(*                                                                         *)
(* One goroutine polls the control plane and swaps the router's snapshot;  *)
(* request goroutines take the snapshot without a lock and draw from its   *)
(* tiers, one candidate at a time, in their own copy.  The control plane   *)
(* changes its table whenever it likes, also between its answer and the    *)
(* moment the answer is applied.                                           *)
(*                                                                         *)
(* Tables have names, and an ETag is the name of the table it came with    *)
(* (the control plane's promise).  NoModels is the table without models;   *)
(* another one gives the candidates of the one model asked for, which may  *)
(* be none.                                                                *)
(***************************************************************************)
EXTENDS Integers, Sequences, SequencesExt

CONSTANTS
    Table,        (* the tables a control plane may have                   *)
    NoModels,     (* the one with zero models                              *)
    Providers,    (* what the others say about the model                   *)
    Request,      (* request goroutines                                    *)
    None,         (* nil: no snapshot, no ETag                             *)
    MaxChanges    (* how often the control plane changes its table         *)

Provider == [code : STRING, priority : Int, weight : Int]

ASSUME RoutingAssumption ==
    /\ NoModels \in Table /\ None \notin Table
    /\ Providers \in [Table \ {NoModels} -> Seq(Provider)]
    /\ MaxChanges \in Nat

VARIABLES
    table,        \* the control plane's table
    changes,      \* how often it was changed
    phase,        \* of the gateway: "loading", "serving", "exited"
    poller,       \* "idle", "waiting", "answered", "stopped"
    answer,       \* what FetchRoutes returned: a table, "304" or "error"
    etag,         \* Poller.etag
    snap,         \* Router.snap: the table it was loaded from
    tiersOf,      \* the tiers Load built for each table, shared by readers
    held,         \* per request: the snapshot it took
    tier,         \* per request: which tier it draws from
    rem,          \* per request: what is left of its copy of the tier
    out           \* per request: the attempts so far

cpVars     == <<table, changes>>
pollVars   == <<phase, poller, answer, etag>>
routerVars == <<snap, tiersOf>>
reqVars    == <<held, tier, rem, out>>
vars       == <<cpVars, pollVars, routerVars, reqVars>>

-----------------------------------------------------------------------------
(***************************************************************************)
(* Load: candidates grouped by priority, lowest first, each tier in the    *)
(* table's order; a weight that is not positive counts as 1.               *)
(***************************************************************************)
AsCandidate(p) == [p EXCEPT !.weight = IF @ <= 0 THEN 1 ELSE @]

(* The elements of a finite set of integers, lowest first.                 *)
Ascending(S) ==
    CHOOSE s \in [1..Cardinality(S) -> S] : \A i, j \in DOMAIN s : i < j => s[i] < s[j]

ProvidersOf(t) == IF t = NoModels THEN <<>> ELSE Providers[t]

Priorities(ps) == Ascending({ps[k].priority : k \in DOMAIN ps})

TierAt(ps, prio) == Ascending({k \in DOMAIN ps : ps[k].priority = prio})

Tiers(t) ==
    LET ps    == ProvidersOf(t)
        prios == Priorities(ps)
    IN  [n \in DOMAIN prios |->
            LET at == TierAt(ps, prios[n]) IN [i \in DOMAIN at |-> AsCandidate(ps[at[i]])]]

Init ==
    /\ table \in Table /\ changes = 0
    /\ phase = "loading" /\ poller = "idle" /\ answer = "error" /\ etag = None
    /\ snap = None /\ tiersOf = [t \in Table |-> <<>>]
    /\ held = [r \in Request |-> None] /\ tier = [r \in Request |-> 0]
    /\ rem = [r \in Request |-> <<>>] /\ out = [r \in Request |-> <<>>]

-----------------------------------------------------------------------------
(***************************************************************************)
(* The control plane.                                                      *)
(***************************************************************************)
ChangeTable(t) ==
    /\ t # table /\ changes < MaxChanges
    /\ table' = t
    /\ changes' = changes + 1
    /\ UNCHANGED <<pollVars, routerVars, reqVars>>

(* 304 if the ETag is still good, the table otherwise.                     *)
AnswerPoll ==
    /\ poller = "waiting"
    /\ answer' = IF etag = table THEN "304" ELSE table
    /\ poller' = "answered"
    /\ UNCHANGED <<cpVars, phase, etag, routerVars, reqVars>>

(* Timeout, refused connection, another status, a body without "models".   *)
FailPoll ==
    /\ poller = "waiting"
    /\ answer' = "error"
    /\ poller' = "answered"
    /\ UNCHANGED <<cpVars, phase, etag, routerVars, reqVars>>

-----------------------------------------------------------------------------
(***************************************************************************)
(* Poller.Sync, called by main until the first success and by Run on every *)
(* tick after that.                                                        *)
(***************************************************************************)
StartPoll ==
    /\ phase # "exited" /\ poller = "idle"
    /\ poller' = "waiting"
    /\ UNCHANGED <<cpVars, phase, answer, etag, routerVars, reqVars>>

Load(t) ==
    /\ snap' = t
    /\ tiersOf' = [tiersOf EXCEPT ![t] = Tiers(t)]

(* main goes on once a Sync has succeeded and there is a snapshot; while   *)
(* loading fails it may run out of time and exit.                          *)
AfterSync(ok) ==
    /\ poller' = "idle"
    /\ IF phase = "loading"
       THEN IF ok /\ snap' # None THEN phase' = "serving" ELSE phase' \in {"loading", "exited"}
       ELSE UNCHANGED phase

EmptyRejected == answer = NoModels /\ snap \notin {None, NoModels}

ApplySync_AdvancesEtagOfRejected ==
    /\ poller = "answered"
    /\ IF answer \in Table
       THEN /\ etag' = answer
            /\ IF EmptyRejected THEN UNCHANGED <<snap, tiersOf>> ELSE Load(answer)
       ELSE UNCHANGED <<snap, tiersOf, etag>>
    /\ AfterSync(answer # "error" /\ ~EmptyRejected)
    /\ UNCHANGED <<cpVars, answer, reqVars>>

ApplySync_KeepsEtagOfFailure ==
    /\ poller = "answered"
    /\ IF answer \in Table /\ ~EmptyRejected
       THEN Load(answer) /\ etag' = answer
       ELSE /\ etag' = IF answer = "error" /\ etag # None THEN table ELSE etag
            /\ UNCHANGED <<snap, tiersOf>>
    /\ AfterSync(answer # "error" /\ ~EmptyRejected)
    /\ UNCHANGED <<cpVars, answer, reqVars>>

ApplySync ==
    /\ poller = "answered"
    /\ IF answer \in Table /\ ~EmptyRejected
       THEN Load(answer) /\ etag' = answer
       ELSE UNCHANGED <<snap, tiersOf, etag>>
    /\ AfterSync(answer # "error" /\ ~EmptyRejected)
    /\ UNCHANGED <<cpVars, answer, reqVars>>

(* Run returns when the process is told to stop; requests go on.           *)
StopPolling ==
    /\ phase = "serving" /\ poller = "idle"
    /\ poller' = "stopped"
    /\ UNCHANGED <<cpVars, phase, answer, etag, routerVars, reqVars>>

-----------------------------------------------------------------------------
(***************************************************************************)
(* Attempts, in a request goroutine.                                       *)
(***************************************************************************)
(* The sum of the first weights.                                           *)
Sums(cands) ==
    LET sum[k \in 0..Len(cands)] == IF k = 0 THEN 0 ELSE sum[k - 1] + cands[k].weight
    IN  sum

TotalWeight(cands) == Sums(cands)[Len(cands)]

(* The candidate that rand.IntN(total) = pick falls on.                    *)
Picked_OneOff(cands, pick) == Min({k \in DOMAIN cands : pick <= Sums(cands)[k]})

Picked(cands, pick) == Min({k \in DOMAIN cands : pick < Sums(cands)[k]})

(* A request takes the current snapshot once, for all of its tiers.        *)
TakeSnapshot(r) ==
    /\ phase = "serving" /\ held[r] = None
    /\ held' = [held EXCEPT ![r] = snap]
    /\ UNCHANGED <<cpVars, pollVars, routerVars, tier, rem, out>>

HasTier(r) == tier[r] < Len(tiersOf[held[r]])

(* Next tier: draw from a copy of it.                                      *)
CopyTier(r) ==
    /\ held[r] # None /\ rem[r] = <<>> /\ HasTier(r)
    /\ tier' = [tier EXCEPT ![r] = @ + 1]
    /\ rem' = [rem EXCEPT ![r] = tiersOf[held[r]][tier[r] + 1]]
    /\ UNCHANGED <<cpVars, pollVars, routerVars, held, out>>

(* Drawing in the tier itself: removing shifts the elements behind it and  *)
(* leaves the last one where it was.                                       *)
Draw_InPlace(r) ==
    /\ rem[r] # <<>>
    /\ \E pick \in 0..TotalWeight(rem[r]) - 1 :
        LET k    == Picked(rem[r], pick)
            left == RemoveAt(rem[r], k)
            T    == tiersOf[held[r]][tier[r]]
        IN  /\ out' = [out EXCEPT ![r] = Append(@, rem[r][k])]
            /\ rem' = [rem EXCEPT ![r] = left]
            /\ tiersOf' = [tiersOf EXCEPT ![held[r]][tier[r]] =
                              left \o SubSeq(T, Len(left) + 1, Len(T))]
    /\ UNCHANGED <<cpVars, pollVars, snap, held, tier>>

Draw(r) ==
    /\ rem[r] # <<>>
    /\ \E pick \in 0..TotalWeight(rem[r]) - 1 :
        LET k == Picked(rem[r], pick)
        IN  /\ out' = [out EXCEPT ![r] = Append(@, rem[r][k])]
            /\ rem' = [rem EXCEPT ![r] = RemoveAt(@, k)]
    /\ UNCHANGED <<cpVars, pollVars, routerVars, held, tier>>

AttemptsReady(r) == held[r] # None /\ rem[r] = <<>> /\ ~HasTier(r)

-----------------------------------------------------------------------------
SyncStep     == StartPoll \/ ApplySync
RequestStep  == \E r \in Request : TakeSnapshot(r) \/ CopyTier(r) \/ Draw(r)
ControlPlane == AnswerPoll \/ FailPoll \/ \E t \in Table : ChangeTable(t)

Next == SyncStep \/ StopPolling \/ RequestStep \/ ControlPlane

(***************************************************************************)
(* The poller's ticker keeps ticking, requests run, and polls do not fail  *)
(* for ever.                                                               *)
(***************************************************************************)
Fairness ==
    /\ WF_vars(SyncStep) /\ SF_vars(AnswerPoll) /\ WF_vars(AnswerPoll \/ FailPoll)
    /\ \A r \in Request : WF_vars(CopyTier(r) \/ Draw(r))

Spec == Init /\ [][Next]_vars /\ Fairness

-----------------------------------------------------------------------------
(***************************************************************************)
(* Properties.                                                             *)
(***************************************************************************)
RouteCandidate == [code : STRING, priority : Int, weight : Nat \ {0}]

TypeOK ==
    /\ table \in Table /\ changes \in 0..MaxChanges
    /\ phase \in {"loading", "serving", "exited"}
    /\ poller \in {"idle", "waiting", "answered", "stopped"}
    /\ answer \in Table \union {"304", "error"}
    /\ etag \in Table \union {None} /\ snap \in Table \union {None}
    /\ tiersOf \in [Table -> Seq(Seq(RouteCandidate))]
    /\ held \in [Request -> Table \union {None}] /\ tier \in [Request -> Nat]
    /\ rem \in [Request -> Seq(RouteCandidate)] /\ out \in [Request -> Seq(RouteCandidate)]

(* The ETag the next poll sends is that of the loaded snapshot, so that a  *)
(* 304 always means "what you serve is current" (ErrEmptyRoutes: "the ETag *)
(* is not advanced").                                                      *)
EtagNamesSnapshot == etag = snap

(* Attempts returns every candidate of one table once, whatever happens to *)
(* the router meanwhile, and lower priority values first.                  *)
AttemptsAreThePlan ==
    \A r \in Request : AttemptsReady(r) =>
        LET ps == ProvidersOf(held[r]) IN
        /\ \E p \in [DOMAIN out[r] -> DOMAIN ps] :
            /\ {p[k] : k \in DOMAIN p} = DOMAIN ps /\ Len(out[r]) = Len(ps)
            /\ \A k \in DOMAIN p : out[r][k].code = ps[p[k]].code
        /\ \A k, n \in DOMAIN out[r] : k < n => out[r][k].priority <= out[r][n].priority

(* Of the values rand.IntN may return, as many fall on a candidate as its  *)
(* weight says: none starves and none is preferred beyond its weight.      *)
(* Weights are positive, whatever the control plane stated: there is a     *)
(* value to draw, and rand.IntN, which panics on 0, is never called so.    *)
SharesFollowWeights ==
    \A r \in Request : LET cands == rem[r] IN
        \A k \in DOMAIN cands :
            /\ cands[k].weight > 0 /\ TotalWeight(cands) > 0
            /\ Cardinality({pick \in 0..TotalWeight(cands) - 1 : Picked(cands, pick) = k})
                  = cands[k].weight

(* Once the control plane keeps its table, the gateway comes to serve it,  *)
(* unless it has stopped, or the table has no models.                      *)
Converges ==
    <>[](phase = "exited" \/ poller = "stopped" \/ snap = table \/ table = NoModels)
=============================================================================
