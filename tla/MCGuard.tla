------------------------------- MODULE MCGuard -------------------------------
(* Instances of Guard for TLC. ICRs are percentages.                         *)
EXTENDS Guard, TLC

CONSTANTS u1, u2

Repay(x, r) == [action |-> "RepayMUSD", triggerICR |-> 120, amount |-> x,
                keeperReward |-> r]
Add(x, r) == [action |-> "AddColl", triggerICR |-> 120, amount |-> x,
              keeperReward |-> r]

(* One borrower may arm either kind of policy, the other one of them         *)
ThreeOffers == (u1 :> {Repay(1, 1), Add(1, 1)}) @@ (u2 :> {Repay(1, 1)})
SharedEscrow == ("MUSD" :> (u1 :> 2 @@ u2 :> 3)) @@ ("BTC" :> (u1 :> 2 @@ u2 :> 0))
=============================================================================
