----------------------------- MODULE MCRouting ------------------------------
(***************************************************************************)
(* Three tables besides the empty one: two tiers with a weight of 0, one   *)
(* tier with a negative weight, and a model left without providers.        *)
(***************************************************************************)
EXTENDS Routing

P(code, priority, weight) == [code |-> code, priority |-> priority, weight |-> weight]

MCTable == {"empty", "two", "one", "bare"}

MCProviders ==
    [t \in MCTable \ {"empty"} |->
        CASE t = "two"  -> <<P("a", 2, 2), P("b", 1, 0), P("c", 2, 1)>>
          [] t = "one"  -> <<P("b", 1, -1), P("a", 1, 2)>>
          [] t = "bare" -> <<>>]
=============================================================================
