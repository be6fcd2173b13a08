---------------------------- MODULE RelayContract ---------------------------
(***************************************************************************)
(* What relay and classifyTruncation (internal/proxy/handler.go) hand back *)
(* to the request: the status to report, why the response was cut short,   *)
(* and whether any token is billed.  Relay is checked to produce nothing   *)
(* else, and Requests assumes nothing else.                                *)
(***************************************************************************)

Truncations == {"none", "request_timeout", "client_disconnect",
                "translation_error", "upstream_stream_error"}

(* classifyTruncation: the status reported for a response cut short.       *)
TruncatedStatus(truncated) ==
    CASE truncated = "request_timeout"   -> 504
      [] truncated = "client_disconnect" -> 499
      [] OTHER                           -> 502

(* What can have cut a response short, given what the contexts say by the  *)
(* time relay returns.                                                     *)
Causes(translated, ctxErr, clientGone) ==
    CASE ctxErr = "deadline" -> {"request_timeout"}
      [] ctxErr = "canceled" -> {"client_disconnect"}
      [] OTHER -> {"upstream_stream_error"}
                    \union (IF translated THEN {"translation_error"} ELSE {})
                    \union (IF clientGone THEN {"client_disconnect"} ELSE {})

(* An uncut response keeps the upstream's status, or is the gateway's own  *)
(* 502 (unreadable, oversized or untranslatable body); only the former and *)
(* no cut one can carry tokens.                                            *)
RelayOutcomes(upstreamStatus, translated, ctxErr, clientGone) ==
    [status : {upstreamStatus}, truncated : {"none"}, billed : BOOLEAN]
        \union [status : {502}, truncated : {"none"}, billed : {FALSE}]
        \union {[status |-> TruncatedStatus(t), truncated |-> t, billed |-> FALSE] :
                    t \in Causes(translated, ctxErr, clientGone)}
=============================================================================
