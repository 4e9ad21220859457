------------------------------ MODULE MCKeeper -------------------------------
(* Instances of GuardKeeper for TLC. ICRs are percentages.                   *)
EXTENDS GuardKeeper, TLC

CONSTANT u1

Offers == u1 :> {[action |-> "RepayMUSD", triggerICR |-> 120, amount |-> 1,
                  keeperReward |-> 0]}
Escrow == ("MUSD" :> (u1 :> 1)) @@ ("BTC" :> (u1 :> 0))
=============================================================================
