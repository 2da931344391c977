------------------------------ MODULE MCPayout ------------------------------
(* Two scheduler slots, two settlements of two merchants. *)
EXTENDS Payout, TLC

CONSTANTS e1, e2, m1, m2

TwoMerchants == (e1 :> m1) @@ (e2 :> m2)
=============================================================================
