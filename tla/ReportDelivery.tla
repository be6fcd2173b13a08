--------------------------- MODULE ReportDelivery ---------------------------
(***************************************************************************)
(* What usage metering promises the rest of the gateway, without queue,    *)
(* workers, retries or messages.                                           *)
(*                                                                         *)
(* A report is offered once.  It is either taken over or turned away; one  *)
(* that was turned away never reaches the control plane's ledger, one that *)
(* was taken over is settled (delivered, rejected or given up) at most     *)
(* once, and the ledger holds it at most once.  The ledger may learn of a  *)
(* report before the gateway settles it, after it (an answer that came too *)
(* late), or never.  Unless the process stops, every report taken over is  *)
(* settled in the end.                                                     *)
(***************************************************************************)
CONSTANT Reports   (* the usage reports, one per request                   *)

VARIABLES status,  (* status[r]: how far report r is                       *)
          ledger,  (* the reports the control plane has recorded           *)
          running  (* FALSE once the gateway process has stopped           *)

vars == <<status, ledger, running>>

Init ==
    /\ status = [r \in Reports |-> "new"]
    /\ ledger = {}
    /\ running = TRUE

Take(r) ==
    /\ running
    /\ status[r] = "new"
    /\ status' = [status EXCEPT ![r] = "taken"]
    /\ UNCHANGED <<ledger, running>>

TurnAway(r) ==
    /\ running
    /\ status[r] = "new"
    /\ status' = [status EXCEPT ![r] = "turnedAway"]
    /\ UNCHANGED <<ledger, running>>

Settle(r) ==
    /\ running
    /\ status[r] = "taken"
    /\ status' = [status EXCEPT ![r] = "settled"]
    /\ UNCHANGED <<ledger, running>>

Record(r) ==
    /\ status[r] \in {"taken", "settled"}
    /\ r \notin ledger
    /\ ledger' = ledger \union {r}
    /\ UNCHANGED <<status, running>>

Stop ==
    /\ running
    /\ running' = FALSE
    /\ UNCHANGED <<status, ledger>>

Next ==
    \/ \E r \in Reports : Take(r) \/ TurnAway(r) \/ Settle(r) \/ Record(r)
    \/ Stop

(* Only settling is promised: nobody has to offer a report, and nothing    *)
(* forces the control plane to record one.                                 *)
Spec == Init /\ [][Next]_vars /\ \A r \in Reports : WF_vars(Settle(r))
=============================================================================
