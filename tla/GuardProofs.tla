----------------------------- MODULE GuardProofs -----------------------------
(* What holds of the Guard, and of the keeper beside it, for any borrowers,  *)
(* policies, prices and protocol parameters. The inductive invariant of the  *)
(* contract joins the types, the backing of every reservation (without it a  *)
(* balance could be driven below zero) and what a policy remembers of its    *)
(* signature.                                                                *)
EXTENDS GuardKeeper, FoldLemmas

IInv == GuardTypeOK /\ ReservedBacked /\ PolicySound

(* Every step that leaves balances and policies alone keeps the reservations *)
(* and the policies as they are.                                             *)
LEMMA FrameStep ==
  ASSUME IInv, UNCHANGED << balance, policy >>,
         GuardTypeOK'
  PROVE  IInv'
BY DEF IInv, ReservedBacked, PolicySound, Reserved, Cost

LEMMA CostType == \A p \in Policies : Cost(p) \in Nat
BY DEF Cost, Policies

LEMMA Parameters == /\ Coll \in Nat /\ Debt \in Nat /\ Debt > 0 /\ OwnRepay \in Nat
                    /\ MCR \in Nat /\ minNetDebt \in Nat
                    /\ MUSD_GAS_COMPENSATION \in Nat /\ MUSD_GAS_COMPENSATION > 0
BY GuardAssumption

TroveType == [active : BOOLEAN, coll : Nat, debt : Nat \ {0}]

(* A repayment that leaves the minimum net debt leaves a trove with debt     *)
LEMMA AdjustedType ==
  ASSUME NEW s \in TroveType, NEW p \in Policies, RepayKeepsMinNetDebt(s, p)
  PROVE  Adjusted(s, p) \in TroveType
<1> USE Parameters DEF TroveType
<1>1. CASE p.action = "RepayMUSD"
  <2>1. s.debt - p.amount \in Nat \ {0}
    BY <1>1 DEF RepayKeepsMinNetDebt, Policies
  <2> QED BY <1>1, <2>1 DEF Adjusted
<1>2. CASE p.action # "RepayMUSD"
  <2>1. s.coll + p.amount \in Nat BY DEF Policies
  <2> QED BY <1>2, <2>1 DEF Adjusted
<1> QED BY <1>1, <1>2

(* Replacing the policy of one borrower changes no other reservation         *)
LEMMA OtherReserved ==
  ASSUME IInv, NEW u \in Borrowers, NEW q, policy' = [policy EXCEPT ![u] = q],
         NEW v \in Users, v # u, NEW a \in Assets
  PROVE  Reserved(v, a)' = Reserved(v, a)
BY DEF IInv, GuardTypeOK, Reserved

(* The type of the price and of the Mezo state after a step of Mezo          *)
LEMMA MezoStep == ASSUME IInv, Mezo PROVE IInv'
<1> USE GuardAssumption DEF IInv
<1>1. CASE PriceMoves
  <2>1. GuardTypeOK' BY <1>1 DEF PriceMoves, GuardTypeOK
  <2> QED BY <1>1, <2>1, FrameStep DEF PriceMoves
<1>2. CASE Donation
  <2>1. held' \in [Assets -> Int] BY <1>2 DEF Donation, GuardTypeOK, Assets
  <2>2. GuardTypeOK' BY <1>2, <2>1 DEF Donation, GuardTypeOK, mezoVars
  <2> QED BY <1>2, <2>2, FrameStep DEF Donation
<1>3. ASSUME NEW u \in Borrowers, SignedElsewhere(u) PROVE IInv'
  <2>1. GuardTypeOK' BY <1>3 DEF SignedElsewhere, GuardTypeOK
  <2> QED BY <1>3, <2>1, FrameStep DEF SignedElsewhere
<1>4. ASSUME NEW u \in Borrowers, RepaysDirectly(u) PROVE IInv'
  <2>1. trove[u].debt - OwnRepay \in Nat \ {0}
    BY <1>4, Parameters DEF RepaysDirectly, GuardTypeOK
  <2>2. trove' \in [Borrowers -> TroveType]
    BY <1>4, <2>1 DEF RepaysDirectly, GuardTypeOK, TroveType
  <2>3. GuardTypeOK' BY <1>4, <2>2 DEF RepaysDirectly, GuardTypeOK, TroveType
  <2> QED BY <1>4, <2>3, FrameStep DEF RepaysDirectly
<1>5. ASSUME NEW u \in Borrowers, Closes(u) \/ Opens(u) PROVE IInv'
  <2>1. trove' \in [Borrowers -> TroveType]
    <3>1. CASE Closes(u) BY <3>1 DEF Closes, GuardTypeOK, TroveType
    <3>2. [active |-> TRUE, coll |-> Coll, debt |-> Debt] \in TroveType
      BY Parameters DEF TroveType
    <3>3. CASE Opens(u) BY <3>2, <3>3 DEF Opens, GuardTypeOK, TroveType
    <3> QED BY <1>5, <3>1, <3>3
  <2>2. GuardTypeOK' BY <1>5, <2>1 DEF Closes, Opens, GuardTypeOK, TroveType
  <2> QED BY <1>5, <2>2, FrameStep DEF Closes, Opens
<1>6. ASSUME NEW u \in Borrowers, DeadlinePasses(u) PROVE IInv'
  <2>1. policy[u] \in Policies BY <1>6 DEF DeadlinePasses, GuardTypeOK
  <2>2. GuardTypeOK'
    BY <1>6, <2>1 DEF DeadlinePasses, GuardTypeOK, Policies, mezoVars
  <2>3. ReservedBacked'
    BY <1>6, <2>1, NullAssumption
    DEF DeadlinePasses, ReservedBacked, Reserved, Cost, GuardTypeOK, Policies
  <2>4. PolicySound'
    BY <1>6, <2>1 DEF DeadlinePasses, PolicySound, GuardTypeOK, Policies
  <2> QED BY <2>2, <2>3, <2>4
<1> QED BY <1>1, <1>2, <1>3, <1>4, <1>5, <1>6 DEF Mezo

LEMMA EscrowStep == ASSUME IInv, EscrowMoves PROVE IInv'
<1> USE DEF IInv
<1> SUFFICES ASSUME NEW a \in Assets, NEW u \in Users, NEW x \in Nat,
                    Deposit(a, u, x) \/ Withdraw(a, u, x)
             PROVE  IInv'
  BY GuardAssumption DEF EscrowMoves
<1>1. balance[a][u] \in Nat /\ Reserved(u, a) <= balance[a][u]
  BY DEF GuardTypeOK, ReservedBacked
<1>2. Reserved(u, a) \in Nat
  BY CostType DEF Reserved, GuardTypeOK
<1>3. PICK y \in Int :
        /\ balance[a][u] + y >= Reserved(u, a)
        /\ Credit(a, u, y)
  <2>1. CASE Deposit(a, u, x) BY <1>1, <1>2, <2>1 DEF Deposit
  <2>2. CASE Withdraw(a, u, x) BY <1>1, <1>2, <2>2 DEF Withdraw, Free
  <2> QED BY <2>1, <2>2
<1>4. UNCHANGED << policy, events, trove, nonce, price >>
  BY DEF Deposit, Withdraw, mezoVars
<1>5. GuardTypeOK' BY <1>1, <1>2, <1>3, <1>4 DEF GuardTypeOK, Credit
<1>6. ReservedBacked'
  BY <1>1, <1>3, <1>4 DEF ReservedBacked, Reserved, Credit, GuardTypeOK
<1>7. PolicySound' BY <1>4 DEF PolicySound
<1> QED BY <1>5, <1>6, <1>7

LEMMA ArmStep ==
  ASSUME IInv, NEW u \in Borrowers, NEW o \in offers[u], NEW n \in Nat, arm(u, o, n)
  PROVE  IInv'
<1> DEFINE p == [action |-> o.action, triggerICR |-> o.triggerICR,
                 amount |-> o.amount, keeperReward |-> o.keeperReward,
                 expired |-> FALSE, sigNonce |-> nonce[u], signed |-> n]
<1>1. o \in Offer /\ u \in Users BY OfferAssumption, GuardAssumption
<1>2. p \in Policies /\ p.signed = p.sigNonce /\ p.sigNonce < MaxNonce
  BY <1>1 DEF IInv, GuardTypeOK, arm, Recover, Policies, Offer
<1>3. /\ policy' = [policy EXCEPT ![u] = p]
      /\ events' = Append(events, [kind |-> "Armed", user |-> u])
      /\ UNCHANGED << balance, total, held, trove, nonce, price >>
      /\ Cost(p) <= balance[Asset(p.action)][u]
  BY DEF arm, Emit, mezoVars, Needed, Cost
<1> HIDE DEF p
<1>4. GuardTypeOK' BY <1>2, <1>3 DEF IInv, GuardTypeOK
<1>5. ReservedBacked'
  <2> SUFFICES ASSUME NEW b \in Assets, NEW v \in Users
               PROVE  Reserved(v, b)' <= balance'[b][v]
    BY DEF ReservedBacked
  <2>1. CASE v = u
    <3>1. policy'[u] = p BY <1>3 DEF IInv, GuardTypeOK
    <3>2. balance[b][u] \in Nat BY <1>1 DEF IInv, GuardTypeOK
    <3> QED BY <1>3, <2>1, <3>1, <3>2 DEF Reserved, Cost
  <2>2. CASE v # u BY <1>3, <2>2, OtherReserved DEF IInv, ReservedBacked
  <2> QED BY <2>1, <2>2
<1>6. PolicySound' BY <1>2, <1>3 DEF IInv, GuardTypeOK, PolicySound
<1> QED BY <1>4, <1>5, <1>6 DEF IInv

LEMMA DisarmStep ==
  ASSUME IInv, NEW u \in Borrowers, disarm(u)
  PROVE  IInv'
<1>1. GuardTypeOK' BY DEF IInv, GuardTypeOK, disarm, Emit, mezoVars
<1>2. ReservedBacked'
  <2> SUFFICES ASSUME NEW b \in Assets, NEW v \in Users
               PROVE  Reserved(v, b)' <= balance'[b][v]
    BY DEF ReservedBacked
  <2>1. CASE v = u
    <3>1. policy'[u] = NULL BY DEF IInv, GuardTypeOK, disarm
    <3>2. balance'[b][v] \in Nat BY <1>1 DEF GuardTypeOK
    <3> QED BY <2>1, <3>1, <3>2 DEF Reserved
  <2>2. CASE v # u BY <2>2, OtherReserved DEF disarm, IInv, ReservedBacked
  <2> QED BY <2>1, <2>2
<1>3. PolicySound' BY DEF IInv, GuardTypeOK, PolicySound, disarm
<1> QED BY <1>1, <1>2, <1>3 DEF IInv

(* What the checks of _evaluate and protect give an execution                *)
LEMMA ExecutableMeans ==
  ASSUME IInv, NEW u \in Borrowers, Executable(u)
  PROVE  /\ policy[u] \in Policies /\ trove[u].active
         /\ nonce[u] = policy[u].sigNonce
         /\ ~Healthy(u)
         /\ RepayKeepsMinNetDebt(trove[u], policy[u])
         /\ ~(ICR(Adjusted(trove[u], policy[u]), price) < MCR)
         /\ Improves(u)
<1>1. Evaluate(u) = "Ready" /\ Improves(u) BY DEF Executable, checker
<1> QED BY <1>1 DEF Evaluate, IInv, GuardTypeOK

LEMMA ProtectStep ==
  ASSUME IInv, NEW u \in Borrowers, protect(u)
  PROVE  IInv'
<1> DEFINE p == policy[u]
           a == Asset(p.action)
           t == Adjusted(trove[u], p)
<1>1. p \in Policies /\ nonce[u] = p.sigNonce /\ RepayKeepsMinNetDebt(trove[u], p)
  BY ExecutableMeans DEF protect
<1>2. /\ Credit(a, u, 0 - Cost(p))
      /\ policy' = [policy EXCEPT ![u] = NULL]
      /\ trove' = [trove EXCEPT ![u] = t]
      /\ nonce' = [nonce EXCEPT ![u] = @ + 1]
      /\ events' = Append(events, [kind |-> "Protected", user |-> u])
      /\ price' = price
  BY DEF protect, Emit, IInv, GuardTypeOK
<1>3. a \in Assets /\ Cost(p) \in Nat /\ u \in Users
  BY <1>1, CostType, GuardAssumption DEF Asset, Assets
<1>4. p # NULL /\ p.sigNonce < MaxNonce
  BY <1>1, NullAssumption DEF IInv, PolicySound
<1>5. balance[a][u] \in Nat /\ Cost(p) <= balance[a][u]
  <2>1. Reserved(u, a) = Cost(p) BY <1>4 DEF Reserved
  <2> QED BY <1>3, <2>1 DEF IInv, GuardTypeOK, ReservedBacked
<1>6. t \in TroveType BY <1>1, AdjustedType DEF IInv, GuardTypeOK, TroveType
<1> HIDE DEF p, a, t
<1>7. GuardTypeOK'
  <2>1. balance' \in [Assets -> [Users -> Nat]]
    <3>1. balance[a][u] + (0 - Cost(p)) \in Nat BY <1>3, <1>5
    <3> QED BY <1>2, <1>3, <3>1 DEF IInv, GuardTypeOK, Credit
  <2>2. total' \in [Assets -> Int] /\ held' \in [Assets -> Int]
    BY <1>2, <1>3 DEF IInv, GuardTypeOK, Credit
  <2>3. nonce' \in [Borrowers -> 0 .. MaxNonce]
    <3>1. MaxNonce \in Nat /\ nonce \in [Borrowers -> 0 .. MaxNonce]
      BY GuardAssumption DEF IInv, GuardTypeOK
    <3>2. nonce[u] + 1 \in 0 .. MaxNonce BY <1>1, <1>4, <3>1
    <3> QED BY <1>2, <3>1, <3>2
  <2>4. trove' \in [Borrowers -> TroveType]
    BY <1>2, <1>6 DEF IInv, GuardTypeOK, TroveType
  <2>5. /\ events' \in Seq([kind : {"Armed", "Disarmed", "Protected"}, user : Borrowers])
        /\ policy' \in [Borrowers -> Policies \cup {NULL}] /\ price' \in Prices
    BY <1>2 DEF IInv, GuardTypeOK
  <2> QED BY <2>1, <2>2, <2>3, <2>4, <2>5 DEF GuardTypeOK, TroveType
<1>8. ReservedBacked'
  <2> SUFFICES ASSUME NEW b \in Assets, NEW v \in Users
               PROVE  Reserved(v, b)' <= balance'[b][v]
    BY DEF ReservedBacked
  <2>1. CASE v = u
    <3>1. Reserved(v, b)' = 0 BY <1>2, <2>1 DEF Reserved, IInv, GuardTypeOK
    <3> QED BY <3>1, <1>7 DEF GuardTypeOK
  <2>2. CASE v # u
    <3>1. Reserved(v, b)' = Reserved(v, b) /\ balance'[b][v] = balance[b][v]
      BY <1>2, <1>3, <2>2 DEF Reserved, IInv, GuardTypeOK, Credit
    <3> QED BY <3>1 DEF IInv, ReservedBacked
  <2> QED BY <2>1, <2>2
<1>9. PolicySound' BY <1>2 DEF IInv, GuardTypeOK, PolicySound
<1> QED BY <1>7, <1>8, <1>9 DEF IInv

LEMMA InitInv == GuardInit => IInv
BY GuardAssumption
DEF GuardInit, IInv, GuardTypeOK, ReservedBacked, Reserved, PolicySound, Assets

LEMMA NextInv == IInv /\ [GuardNext]_guardVars => IInv'
<1> SUFFICES ASSUME IInv, [GuardNext]_guardVars PROVE IInv' OBVIOUS
<1>1. CASE UNCHANGED guardVars
  BY <1>1 DEF guardVars, IInv, GuardTypeOK, ReservedBacked, Reserved, PolicySound, Cost
<1>2. ASSUME NEW u \in Borrowers, Borrower(u) PROVE IInv'
  <2>1. ASSUME NEW o \in offers[u], NEW n \in 0 .. MaxNonce, arm(u, o, n) PROVE IInv'
    BY <2>1, ArmStep, GuardAssumption
  <2> QED BY <1>2, <2>1, DisarmStep, ProtectStep DEF Borrower
<1> QED BY <1>1, <1>2, EscrowStep, MezoStep DEF GuardNext

LEMMA GuardInvariant == GuardSpec => []IInv
BY InitInv, NextInv, PTL DEF GuardSpec

(* The state of the contract keeps its types; in particular no balance ever  *)
(* falls below zero, whatever the borrowers, the market and the keepers do.  *)
THEOREM GuardTypes == GuardSpec => []GuardTypeOK
<1>1. IInv => GuardTypeOK BY DEF IInv
<1> QED BY <1>1, GuardInvariant, PTL

(* What an armed policy may spend is always in its borrower's balance, so    *)
(* protect, freeMUSD and freeBTC never underflow.                            *)
THEOREM ReservationsBacked == GuardSpec => []ReservedBacked
<1>1. IInv => ReservedBacked BY DEF IInv
<1> QED BY <1>1, GuardInvariant, PTL

(* A policy that checker() calls executable carries a signature over the     *)
(* present nonce, which Mezo will accept.                                    *)
THEOREM ReadySigned == GuardSpec => []ReadyIsSigned
<1>1. IInv => ReadyIsSigned
  BY DEF IInv, PolicySound, ReadyIsSigned, checker, Evaluate, MezoAccepts
<1> QED BY <1>1, GuardInvariant, PTL

(* ICRs are integers: troves have debt. *)
LEMMA ICRType == \A c, q \in Nat, d \in Nat \ {0} : (c * q) \div d \in Int
OBVIOUS

(* The execution of a policy is the one its borrower signed up for.          *)
LEMMA ProtectExecutes ==
  ASSUME IInv, NEW u \in Borrowers, protect(u)
  PROVE  Executed(u) /\ \A a \in Assets, v \in Users :
                           balance'[a][v] < balance[a][v] => v = u
<1> DEFINE p == policy[u]
           a == Asset(p.action)
           t == Adjusted(trove[u], p)
<1>1. /\ p \in Policies /\ ~Healthy(u) /\ Improves(u)
      /\ ~(ICR(t, price) < MCR) /\ RepayKeepsMinNetDebt(trove[u], p)
  BY ExecutableMeans DEF protect
<1>2. /\ Credit(a, u, 0 - Cost(p))
      /\ policy' = [policy EXCEPT ![u] = NULL]
      /\ trove' = [trove EXCEPT ![u] = t]
  BY DEF protect, IInv, GuardTypeOK
<1>3. a \in Assets /\ Cost(p) \in Nat /\ u \in Users
  BY <1>1, CostType, GuardAssumption DEF Asset, Assets
<1>4. t \in TroveType BY <1>1, AdjustedType DEF IInv, GuardTypeOK, TroveType
<1>5. /\ ICR(t, price) \in Int /\ ICR(trove[u], price) \in Int
      /\ p.triggerICR \in Int /\ MCR \in Int
  <2>1. trove[u] \in TroveType /\ price \in Nat
    BY GuardAssumption DEF IInv, GuardTypeOK, TroveType
  <2>2. ASSUME NEW s \in TroveType PROVE ICR(s, price) \in Int
    BY <2>1, ICRType DEF ICR, TroveType
  <2> QED BY <1>1, <1>4, <2>1, <2>2, Parameters DEF Policies
<1>6. trove'[u] = t /\ policy'[u] = NULL /\ p # NULL
  BY <1>1, <1>2, NullAssumption DEF IInv, GuardTypeOK
<1>7. balance'[a][u] = balance[a][u] - Cost(p)
  BY <1>2, <1>3 DEF Credit, IInv, GuardTypeOK
<1>8. /\ ICR(trove[u], price) < p.triggerICR
      /\ ICR(t, price) > ICR(trove[u], price) /\ ICR(t, price) >= MCR
  <2> HIDE DEF p, t
  <2>1. ~(ICR(trove[u], price) >= p.triggerICR) BY <1>1 DEF Healthy, p
  <2>2. ICR(t, price) > ICR(trove[u], price) BY <1>1 DEF Improves, p, t
  <2> QED BY <1>1, <1>5, <2>1, <2>2
<1>9. Executed(u) BY <1>6, <1>7, <1>8 DEF Executed
<1>10. ASSUME NEW b \in Assets, NEW v \in Users, v # u
       PROVE  ~(balance'[b][v] < balance[b][v])
  BY <1>2, <1>3, <1>10 DEF Credit, IInv, GuardTypeOK
<1> QED BY <1>9, <1>10

(* A borrower's money leaves the contract only as that borrower decided: by  *)
(* a withdrawal of free funds or by its own policy, below the trigger and    *)
(* with the trove made safe.                                                 *)
THEOREM SpentAsSigned == GuardSpec => OnlyAsSigned
<1> DEFINE A(a, u) == balance'[a][u] < balance[a][u] =>
                        \/ policy' = policy /\ balance'[a][u] >= Reserved(u, a)
                        \/ u \in Borrowers /\ Executed(u)
<1>1. ASSUME IInv, [GuardNext]_guardVars
      PROVE  [\A a \in Assets, u \in Users : A(a, u)]_guardVars
  <2> SUFFICES ASSUME GuardNext, NEW a \in Assets, NEW u \in Users
               PROVE  A(a, u)
    BY <1>1
  <2>1. balance[a][u] \in Nat BY <1>1 DEF IInv, GuardTypeOK
  <2>2. ASSUME balance' = balance PROVE A(a, u) BY <2>1, <2>2
  <2>3. CASE Mezo
    BY <2>2, <2>3 DEF Mezo, PriceMoves, Donation, SignedElsewhere, RepaysDirectly,
       Closes, Opens, DeadlinePasses
  <2>4. CASE EscrowMoves
    <3>1. PICK b \in Assets, v \in Users, x \in Nat :
             Deposit(b, v, x) \/ Withdraw(b, v, x)
      BY <2>4, GuardAssumption DEF EscrowMoves
    <3>2. policy' = policy BY <3>1 DEF Deposit, Withdraw
    <3>3. balance[b][v] \in Nat /\ Reserved(v, b) \in Nat
      BY <1>1, CostType DEF IInv, GuardTypeOK, Reserved
    <3>4. CASE b = a /\ v = u
      <4>1. CASE Deposit(b, v, x)
        BY <1>1, <3>3, <3>4, <4>1 DEF Deposit, Credit, IInv, GuardTypeOK
      <4>2. CASE Withdraw(b, v, x)
        <5>1. balance'[a][u] = balance[a][u] - x
          <6>1. balance' = [balance EXCEPT ![a][u] = @ + (0 - x)]
            BY <3>4, <4>2 DEF Withdraw, Credit
          <6>2. balance'[a][u] = balance[a][u] + (0 - x)
            BY <1>1, <6>1 DEF IInv, GuardTypeOK
          <6> QED BY <2>1, <6>2
        <5>2. x <= balance[a][u] - Reserved(u, a) BY <3>4, <4>2 DEF Withdraw, Free
        <5> QED BY <3>2, <3>3, <3>4, <5>1, <5>2
      <4> QED BY <3>1, <4>1, <4>2
    <3>5. CASE ~(b = a /\ v = u)
      <4>1. balance'[a][u] = balance[a][u]
        BY <1>1, <3>1, <3>5 DEF Deposit, Withdraw, Credit, IInv, GuardTypeOK
      <4> QED BY <2>1, <4>1
    <3> QED BY <3>4, <3>5
  <2>5. ASSUME NEW v \in Borrowers, Borrower(v) PROVE A(a, u)
    <3>1. CASE protect(v) BY <1>1, <3>1, ProtectExecutes
    <3>2. CASE disarm(v) BY <2>2, <3>2 DEF disarm
    <3>3. ASSUME NEW o \in offers[v], NEW n \in 0 .. MaxNonce, arm(v, o, n)
          PROVE  A(a, u)
      BY <2>2, <3>3 DEF arm
    <3> QED BY <2>5, <3>1, <3>2, <3>3 DEF Borrower
  <2> QED BY <2>3, <2>4, <2>5 DEF GuardNext
<1> QED BY <1>1, GuardInvariant, PTL DEF GuardSpec, OnlyAsSigned

-----------------------------------------------------------------------------
(* The escrow is covered *)

LEMMA SumIs == ASSUME NEW v PROVE Sum(v) = SumFunctionOnSet(v, Users)
BY DEF Sum, MapThenSumSet, SumFunctionOnSet, FoldFunctionOnSet, MapThenFoldSet

LEMMA SumOfNothing == Sum([u \in Users |-> 0]) = 0
<1>1. PICK v : v = [u \in Users |-> 0] OBVIOUS
<1>2. SumFunctionOnSet(v, Users) = 0 BY <1>1, UsersFinite, SumZero
<1> QED BY <1>1, <1>2, SumIs

LEMMA SumCredited ==
  ASSUME NEW v \in [Users -> Int], NEW u \in Users, NEW x \in Int
  PROVE  Sum(v) \in Int /\ Sum([v EXCEPT ![u] = v[u] + x]) = Sum(v) + x
<1>1. PICK w : w = [v EXCEPT ![u] = v[u] + x] OBVIOUS
<1>2. /\ SumFunctionOnSet(v, Users) \in Int
      /\ SumFunctionOnSet(w, Users) = SumFunctionOnSet(v, Users) + x
  BY <1>1, UsersFinite, SumUpdated
<1> QED BY <1>1, <1>2, SumIs

LEMMA CreditCovered ==
  ASSUME IInv, EscrowCovered, NEW a \in Assets, NEW u \in Users, NEW x \in Int,
         Credit(a, u, x)
  PROVE  EscrowCovered'
<1> SUFFICES ASSUME NEW b \in Assets
             PROVE  total'[b] = Sum(balance'[b]) /\ total'[b] <= held'[b]
  BY DEF EscrowCovered
<1>1. /\ total \in [Assets -> Int] /\ held \in [Assets -> Int]
      /\ balance \in [Assets -> [Users -> Nat]]
  BY DEF IInv, GuardTypeOK
<1>2. total[b] = Sum(balance[b]) /\ total[b] <= held[b] BY DEF EscrowCovered
<1>3. CASE b = a
  <2>1. PICK v \in [Users -> Int] : v = balance[b] BY <1>1
  <2>2. PICK w : w = [v EXCEPT ![u] = v[u] + x] OBVIOUS
  <2>3. balance'[b] = w BY <1>1, <1>3, <2>1, <2>2 DEF Credit
  <2>4. Sum(w) = Sum(v) + x BY <2>2, SumCredited
  <2>5. total[b] = Sum(v) BY <1>2, <2>1
  <2>6. total'[b] = total[b] + x /\ held'[b] = held[b] + x
    BY <1>1, <1>3 DEF Credit
  <2>7. total[b] \in Int /\ held[b] \in Int BY <1>1
  <2>8. total'[b] = Sum(w) BY <2>4, <2>5, <2>6
  <2>9. Sum(balance'[b]) = Sum(w) BY <2>3
  <2> QED BY <1>2, <2>6, <2>7, <2>8, <2>9
<1>4. CASE b # a
  <2>1. PICK v : v = balance[b] OBVIOUS
  <2>2. balance'[b] = v BY <1>1, <1>4, <2>1 DEF Credit
  <2>3. total'[b] = total[b] /\ held'[b] = held[b] BY <1>1, <1>4 DEF Credit
  <2>4. Sum(balance'[b]) = Sum(v) /\ Sum(balance[b]) = Sum(v) BY <2>1, <2>2
  <2> QED BY <1>2, <2>3, <2>4
<1> QED BY <1>3, <1>4

LEMMA InitCovered == GuardInit => EscrowCovered
<1> SUFFICES ASSUME GuardInit, NEW a \in Assets
             PROVE  total[a] = Sum(balance[a]) /\ total[a] <= held[a]
  BY DEF EscrowCovered
<1>1. PICK v : v = [u \in Users |-> 0] OBVIOUS
<1>2. Sum(v) = 0 BY <1>1, SumOfNothing
<1>3. balance[a] = v BY <1>1 DEF GuardInit
<1>4. Sum(balance[a]) = Sum(v) BY <1>3
<1> QED BY <1>2, <1>4 DEF GuardInit

(* A step that moves no escrow                                               *)
LEMMA EscrowKept ==
  ASSUME EscrowCovered, balance' = balance, total' = total, held' = held
  PROVE  EscrowCovered'
BY DEF EscrowCovered

LEMMA NextCovered ==
  ASSUME IInv, EscrowCovered, [GuardNext]_guardVars
  PROVE  EscrowCovered'
<1>1. CASE UNCHANGED guardVars BY <1>1, EscrowKept DEF guardVars
<1>2. ASSUME NEW a \in Assets, NEW u \in Users, NEW x \in 1 .. maxEscrow[a][u],
             Deposit(a, u, x) \/ Withdraw(a, u, x)
      PROVE  EscrowCovered'
  <2>1. x \in Int /\ 0 - x \in Int BY GuardAssumption
  <2>2. Credit(a, u, x) \/ Credit(a, u, 0 - x) BY <1>2 DEF Deposit, Withdraw
  <2> QED BY <2>1, <2>2, CreditCovered
<1>3. ASSUME NEW u \in Borrowers, protect(u) PROVE EscrowCovered'
  <2>1. PICK a, c : a = Asset(policy[u].action) /\ c = Cost(policy[u]) OBVIOUS
  <2>2. policy[u] \in Policies BY <1>3, ExecutableMeans DEF protect
  <2>3. a \in Assets BY <2>1 DEF Asset, Assets
  <2>4. 0 - c \in Int BY <2>1, <2>2, CostType
  <2>5. Credit(a, u, 0 - c) BY <1>3, <2>1 DEF protect, Credit
  <2>6. u \in Users BY GuardAssumption
  <2> QED BY <2>3, <2>4, <2>5, <2>6, CreditCovered
<1>4. ASSUME NEW u \in Borrowers, Borrower(u) PROVE EscrowCovered'
  <2>1. ASSUME NEW o \in offers[u], NEW n \in 0 .. MaxNonce, arm(u, o, n)
        PROVE  EscrowCovered'
    BY <2>1, EscrowKept DEF arm
  <2>2. CASE disarm(u) BY <2>2, EscrowKept DEF disarm
  <2> QED BY <1>3, <1>4, <2>1, <2>2 DEF Borrower
<1>5. CASE Mezo
  <2>1. CASE Donation
    <3> SUFFICES ASSUME NEW a \in Assets
                 PROVE  total'[a] = Sum(balance'[a]) /\ total'[a] <= held'[a]
      BY DEF EscrowCovered
    <3>1. balance' = balance /\ total' = total BY <2>1 DEF Donation
    <3>2. total[a] \in Int /\ held[a] \in Int /\ held'[a] \in {held[a], held[a] + 1}
      BY <2>1 DEF Donation, IInv, GuardTypeOK
    <3>3. total[a] <= held[a] BY DEF EscrowCovered
    <3>4. total'[a] <= held'[a] BY <3>1, <3>2, <3>3
    <3>5. total'[a] = Sum(balance'[a]) BY <3>1 DEF EscrowCovered
    <3> QED BY <3>4, <3>5
  <2>2. CASE ~Donation
    BY <1>5, <2>2, EscrowKept
    DEF Mezo, PriceMoves, SignedElsewhere, RepaysDirectly, Closes, Opens,
        DeadlinePasses
  <2> QED BY <2>1, <2>2
<1> QED BY <1>1, <1>2, <1>4, <1>5 DEF GuardNext, EscrowMoves

(* The totals of the escrow are the sums of the borrowers' balances, and the *)
(* contract owns at least as much, whatever the number of users and after    *)
(* any deposits, withdrawals and executions of LiqveraGuard: no withdrawal   *)
(* can fail for lack of funds.                                               *)
THEOREM EscrowIsCovered == GuardSpec => []EscrowCovered
<1>1. GuardInit => IInv /\ EscrowCovered BY InitInv, InitCovered
<1>2. IInv /\ EscrowCovered /\ [GuardNext]_guardVars => (IInv /\ EscrowCovered)'
  BY NextInv, NextCovered
<1> QED BY <1>1, <1>2, PTL DEF GuardSpec

-----------------------------------------------------------------------------
(* The keeper beside the contract, for any length of the event log           *)

Log == [kind : {"Armed", "Disarmed", "Protected"}, user : Borrowers]

-----------------------------------------------------------------------------
(* The inductive invariant *)

(* The last of the first n events about u is Armed.                          *)
ArmedAt(n, u) ==
  \E i \in 1 .. n : /\ events[i].user = u /\ events[i].kind = "Armed"
                    /\ \A j \in i + 1 .. n : events[j].user # u

Touched(n, u) == \E i \in n + 1 .. Len(events) : events[i].user = u

(* A policy that can never become Ready: gone, expired, or signed over a     *)
(* nonce that was used.                                                      *)
Final(u) == policy[u] = NULL \/ policy[u].expired \/ policy[u].sigNonce # nonce[u]

(* The contract's policies are what its events say, and no policy is signed  *)
(* over a nonce to come.                                                     *)
EventsTell == \A u \in Borrowers : policy[u] # NULL <=> ArmedAt(Len(events), u)
NonceReached == \A u \in Borrowers : policy[u] # NULL => policy[u].sigNonce <= nonce[u]

(* The tracker is what the applied events say; a tick applies no event past  *)
(* the head it reads statuses at; borrowers wait only while they are tried.  *)
Applied == \A u \in Borrowers : u \in tracker.armed <=> ArmedAt(scanned, u)
WithinHead == phase = "sync" => scanned <= head
NoneReady == phase \in {"idle", "sync"} => ready = {}

(* A terminal status read at the head stays true unless an event about the   *)
(* borrower has come since.                                                  *)
SnapFinal ==
  phase # "idle" =>
    \A u \in Borrowers : isTerminal(snap[u].status) /\ ~ Touched(head, u) => Final(u)
MarkFinal == \A u \in tracker.terminal : ~ Touched(scanned, u) => Final(u)

KInv ==
  /\ TypeOK /\ IInv /\ EventsTell /\ NonceReached
  /\ Applied /\ WithinHead /\ NoneReady /\ SnapFinal /\ MarkFinal

-----------------------------------------------------------------------------
(* The event log *)

LEMMA LogLength == ASSUME NEW q \in Seq(Log) PROVE Len(q) \in Nat /\ DOMAIN q = 1 .. Len(q)
OBVIOUS

LEMMA LogElement == ASSUME NEW q \in Seq(Log), NEW i \in 1 .. Len(q) PROVE q[i] \in Log
OBVIOUS

LEMMA Appended ==
  ASSUME NEW q \in Seq(Log), NEW e \in Log
  PROVE  LET a == Append(q, e)
         IN /\ a \in Seq(Log) /\ Len(a) = Len(q) + 1 /\ a[Len(q) + 1] = e
            /\ \A i \in 1 .. Len(q) : a[i] = q[i]
OBVIOUS

LEMMA Chunk ==
  ASSUME NEW q \in Seq(Log), NEW m \in Nat, NEW n \in Nat, m < n, n <= Len(q)
  PROVE  LET c == SubSeq(q, m + 1, n)
         IN /\ Len(c) = n - m /\ DOMAIN c = 1 .. n - m
            /\ \A i \in 1 .. n - m : c[i] = q[m + i]
OBVIOUS

-----------------------------------------------------------------------------
(* What a step of the contract or of Mezo does to the policies and the log *)

(* Nothing is logged: policies may expire and nonces grow.                   *)
Silent ==
  /\ UNCHANGED events
  /\ \A u \in Borrowers :
       /\ policy'[u] = NULL <=> policy[u] = NULL
       /\ policy[u] # NULL => /\ policy'[u].sigNonce = policy[u].sigNonce
                              /\ policy[u].expired => policy'[u].expired
       /\ nonce[u] <= nonce'[u]

(* One borrower's policy is replaced or removed, and that is logged.         *)
Logged(kind, u) ==
  /\ Emit(kind, u)
  /\ policy'[u] # NULL <=> kind = "Armed"
  /\ policy'[u] # NULL => policy'[u].sigNonce <= nonce'[u]
  /\ \A v \in Borrowers \ {u} : policy'[v] = policy[v] /\ nonce'[v] = nonce[v]

LEMMA GuardSteps ==
  ASSUME IInv, [GuardNext]_guardVars
  PROVE  Silent \/ \E u \in Borrowers, kind \in {"Armed", "Disarmed", "Protected"} : Logged(kind, u)
<1>0. /\ policy \in [Borrowers -> Policies \cup {NULL}] /\ nonce \in [Borrowers -> 0 .. MaxNonce]
      /\ MaxNonce \in Nat
  BY GuardAssumption DEF IInv, GuardTypeOK
<1>1. ASSUME UNCHANGED << policy, events, nonce >> PROVE Silent
  BY <1>0, <1>1 DEF Silent
<1>2. CASE UNCHANGED guardVars BY <1>1, <1>2 DEF guardVars
<1>3. CASE EscrowMoves
  BY <1>1, <1>3 DEF EscrowMoves, Deposit, Withdraw, mezoVars
<1>4. CASE Mezo
  <2>1. CASE PriceMoves \/ Donation BY <1>1, <2>1 DEF PriceMoves, Donation, mezoVars
  <2>2. ASSUME NEW u \in Borrowers, RepaysDirectly(u) \/ Closes(u) \/ Opens(u) PROVE Silent
    BY <1>1, <2>2 DEF RepaysDirectly, Closes, Opens
  <2>3. ASSUME NEW u \in Borrowers, SignedElsewhere(u) PROVE Silent
    BY <1>0, <2>3 DEF SignedElsewhere, Silent
  <2>4. ASSUME NEW u \in Borrowers, DeadlinePasses(u) PROVE Silent
    <3>1. policy[u] \in Policies /\ policy[u] # NULL BY <1>0, <2>4 DEF DeadlinePasses
    <3>2. /\ \A v \in Borrowers \ {u} : policy'[v] = policy[v]
          /\ policy'[u] = [policy[u] EXCEPT !.expired = TRUE]
      BY <1>0, <2>4 DEF DeadlinePasses
    <3>3. /\ policy'[u] \in Policies /\ policy'[u].expired
          /\ policy'[u].sigNonce = policy[u].sigNonce
      BY <3>1, <3>2 DEF Policies
    <3>4. UNCHANGED << events, nonce >> BY <2>4 DEF DeadlinePasses, mezoVars
    <3>5. policy'[u] # NULL BY <3>3, NullAssumption
    <3>6. \A v \in Borrowers : nonce[v] <= nonce'[v] BY <1>0, <3>4
    <3> QED BY <3>1, <3>2, <3>3, <3>4, <3>5, <3>6 DEF Silent
  <2> QED BY <1>4, <2>1, <2>2, <2>3, <2>4 DEF Mezo
<1>5. ASSUME NEW u \in Borrowers, disarm(u) PROVE Logged("Disarmed", u)
  BY <1>0, <1>5 DEF disarm, Logged, mezoVars
<1>6. ASSUME NEW u \in Borrowers, protect(u) PROVE Logged("Protected", u)
  BY <1>0, <1>6 DEF protect, Logged
<1>7. ASSUME NEW u \in Borrowers, NEW o \in offers[u], NEW n \in 0 .. MaxNonce, arm(u, o, n)
      PROVE  Logged("Armed", u)
  <2> DEFINE p == [action |-> o.action, triggerICR |-> o.triggerICR, amount |-> o.amount,
                   keeperReward |-> o.keeperReward, expired |-> FALSE,
                   sigNonce |-> nonce[u], signed |-> n]
  <2>1. o \in Offer BY OfferAssumption
  <2>2. p \in Policies BY <1>0, <2>1 DEF Offer, Policies
  <2>3. policy' = [policy EXCEPT ![u] = p] /\ UNCHANGED nonce /\ Emit("Armed", u)
    BY <1>7 DEF arm, mezoVars
  <2>4. p.sigNonce = nonce[u] OBVIOUS
  <2> HIDE DEF p
  <2> QED BY <1>0, <2>2, <2>3, <2>4, NullAssumption DEF Logged
<1> QED BY <1>2, <1>3, <1>4, <1>5, <1>6, <1>7 DEF GuardNext, Borrower

LEMMA LogTyped == ASSUME IInv PROVE events \in Seq(Log) /\ Len(events) \in Nat
BY DEF IInv, GuardTypeOK, Log

(* The log only grows, so what its first n events say does not change.       *)
LEMMA LogGrows ==
  ASSUME IInv, [GuardNext]_guardVars
  PROVE  /\ Len(events') \in Nat /\ Len(events) <= Len(events')
         /\ \A i \in 1 .. Len(events) : events'[i] = events[i]
         /\ \A n \in 0 .. Len(events), u \in Borrowers : ArmedAt(n, u)' <=> ArmedAt(n, u)
         /\ \A n \in 0 .. Len(events), u \in Borrowers : Touched(n, u) => Touched(n, u)'
<1>0. events \in Seq(Log) /\ Len(events) \in Nat BY LogTyped
<1>1. /\ Len(events') \in Nat /\ Len(events) <= Len(events')
      /\ \A i \in 1 .. Len(events) : events'[i] = events[i]
  <2>1. CASE UNCHANGED events BY <1>0, <2>1
  <2>2. ASSUME NEW u \in Borrowers, NEW kind \in {"Armed", "Disarmed", "Protected"},
               Emit(kind, u)
        PROVE  /\ Len(events') \in Nat /\ Len(events) <= Len(events')
               /\ \A i \in 1 .. Len(events) : events'[i] = events[i]
    <3>1. [kind |-> kind, user |-> u] \in Log BY DEF Log
    <3> QED BY <1>0, <2>2, <3>1, Appended DEF Emit
  <2> QED BY <2>1, <2>2, GuardSteps DEF Silent, Logged
<1>2. ASSUME NEW n \in 0 .. Len(events), NEW u \in Borrowers PROVE ArmedAt(n, u)' <=> ArmedAt(n, u)
  <2>1. \A i \in 1 .. n : events'[i] = events[i] BY <1>0, <1>1
  <2>2. \A i \in 1 .. n : \A j \in i + 1 .. n : j \in 1 .. n BY <1>0
  <2> QED BY <2>1, <2>2 DEF ArmedAt
<1>3. ASSUME NEW n \in 0 .. Len(events), NEW u \in Borrowers, Touched(n, u) PROVE Touched(n, u)'
  <2>1. PICK i \in n + 1 .. Len(events) : events[i].user = u BY <1>3 DEF Touched
  <2>2. i \in 1 .. Len(events) /\ i \in n + 1 .. Len(events') BY <1>0, <1>1
  <2> QED BY <1>1, <2>1, <2>2 DEF Touched
<1> QED BY <1>1, <1>2, <1>3

LEMMA NonceTyped ==
  ASSUME IInv, [GuardNext]_guardVars
  PROVE  \A u \in Borrowers : nonce[u] \in Nat /\ nonce'[u] \in Nat
<1>1. IInv' BY NextInv
<1>2. /\ nonce \in [Borrowers -> 0 .. MaxNonce] /\ nonce' \in [Borrowers -> 0 .. MaxNonce]
      /\ MaxNonce \in Nat
  BY <1>1, GuardAssumption DEF IInv, GuardTypeOK
<1> QED BY <1>2

(* A policy that is final stays so until an event about its borrower.        *)
LEMMA FinalStays ==
  ASSUME IInv, NonceReached, [GuardNext]_guardVars, NEW u \in Borrowers, Final(u),
         NEW n \in 0 .. Len(events), ~ Touched(n, u)'
  PROVE  Final(u)'
<1>0. events \in Seq(Log) /\ Len(events) \in Nat /\ nonce[u] \in Nat /\ nonce'[u] \in Nat
  BY LogTyped, NonceTyped
<1>1. CASE Silent
  <2>1. policy[u] # NULL => policy[u].sigNonce \in Nat
    BY DEF IInv, GuardTypeOK, Policies
  <2> QED BY <1>0, <1>1, <2>1 DEF Silent, Final, NonceReached
<1>2. ASSUME NEW v \in Borrowers, NEW kind \in {"Armed", "Disarmed", "Protected"}, Logged(kind, v)
      PROVE  Final(u)'
  <2>1. [kind |-> kind, user |-> v] \in Log BY DEF Log
  <2>2. Len(events') = Len(events) + 1 /\ events'[Len(events) + 1].user = v
    BY <1>0, <1>2, <2>1, Appended DEF Logged, Emit
  <2>3. Len(events) + 1 \in n + 1 .. Len(events') BY <1>0, <2>2
  <2>4. u # v BY <2>2, <2>3 DEF Touched
  <2> QED BY <1>2, <2>4 DEF Logged, Final
<1> QED BY <1>1, <1>2, GuardSteps

(* The events go on telling the policies.                                    *)
LEMMA EventsKept ==
  ASSUME IInv, EventsTell, NonceReached, [GuardNext]_guardVars
  PROVE  EventsTell' /\ NonceReached'
<1>0. events \in Seq(Log) /\ Len(events) \in Nat BY LogTyped
<1>1. CASE Silent
  <2>1. EventsTell' BY <1>1 DEF Silent, EventsTell, ArmedAt
  <2>2. ASSUME NEW u \in Borrowers, policy'[u] # NULL PROVE policy'[u].sigNonce <= nonce'[u]
    <3>1. /\ policy[u].sigNonce \in Nat /\ nonce[u] \in Nat /\ nonce'[u] \in Nat
      BY <1>1, <2>2, NonceTyped DEF Silent, IInv, GuardTypeOK, Policies
    <3> QED BY <1>1, <2>2, <3>1 DEF Silent, NonceReached
  <2> QED BY <2>1, <2>2 DEF NonceReached
<1>2. ASSUME NEW v \in Borrowers, NEW kind \in {"Armed", "Disarmed", "Protected"}, Logged(kind, v)
      PROVE  EventsTell' /\ NonceReached'
  <2> DEFINE e == [kind |-> kind, user |-> v]
             n == Len(events)
  <2>1. e \in Log /\ e.kind = kind /\ e.user = v BY DEF Log
  <2>2. events' = Append(events, e) BY <1>2 DEF Logged, Emit
  <2> HIDE DEF e
  <2>3. /\ Len(events') = n + 1 /\ events'[n + 1] = e
        /\ \A i \in 1 .. n : events'[i] = events[i]
    BY <1>0, <2>1, <2>2, Appended
  <2>4. ASSUME NEW u \in Borrowers PROVE policy'[u] # NULL <=> ArmedAt(Len(events), u)'
    <3>1. CASE u = v
      <4>1. ASSUME kind = "Armed" PROVE ArmedAt(Len(events), u)'
        <5>1. n + 1 \in 1 .. n + 1 /\ n + 1 + 1 .. n + 1 = {} BY <1>0
        <5> QED BY <2>1, <2>3, <3>1, <4>1, <5>1 DEF ArmedAt
      <4>2. ASSUME ArmedAt(Len(events), u)' PROVE kind = "Armed"
        <5>1. PICK i \in 1 .. n + 1 : /\ events'[i].user = u /\ events'[i].kind = "Armed"
                                     /\ \A j \in i + 1 .. n + 1 : events'[j].user # u
          BY <2>3, <4>2 DEF ArmedAt
        <5>2. i = n + 1
          <6>1. n + 1 \notin i + 1 .. n + 1 BY <2>1, <2>3, <3>1, <5>1
          <6> QED BY <1>0, <6>1
        <5> QED BY <2>1, <2>3, <5>1, <5>2
      <4> QED BY <1>2, <3>1, <4>1, <4>2 DEF Logged
    <3>2. CASE u # v
      <4>1. ASSUME ArmedAt(n, u) PROVE ArmedAt(Len(events), u)'
        <5>1. PICK i \in 1 .. n : /\ events[i].user = u /\ events[i].kind = "Armed"
                                 /\ \A j \in i + 1 .. n : events[j].user # u
          BY <4>1 DEF ArmedAt
        <5>2. i \in 1 .. n + 1 /\ events'[i] = events[i] BY <1>0, <2>3
        <5>3. \A j \in i + 1 .. n + 1 : events'[j].user # u
          <6>1. \A j \in i + 1 .. n + 1 : (j \in i + 1 .. n /\ j \in 1 .. n) \/ j = n + 1 BY <1>0
          <6> QED BY <2>1, <2>3, <3>2, <5>1, <6>1
        <5> QED BY <2>3, <5>1, <5>2, <5>3 DEF ArmedAt
      <4>2. ASSUME ArmedAt(Len(events), u)' PROVE ArmedAt(n, u)
        <5>1. PICK i \in 1 .. n + 1 : /\ events'[i].user = u /\ events'[i].kind = "Armed"
                                     /\ \A j \in i + 1 .. n + 1 : events'[j].user # u
          BY <2>3, <4>2 DEF ArmedAt
        <5>2. i \in 1 .. n BY <1>0, <2>1, <2>3, <3>2, <5>1
        <5>3. \A j \in i + 1 .. n : j \in i + 1 .. n + 1 /\ j \in 1 .. n BY <1>0
        <5> QED BY <2>3, <5>1, <5>2, <5>3 DEF ArmedAt
      <4> QED BY <1>2, <3>2, <4>1, <4>2 DEF Logged, EventsTell
    <3> QED BY <3>1, <3>2
  <2>5. NonceReached' BY <1>2 DEF Logged, NonceReached
  <2> QED BY <2>4, <2>5 DEF EventsTell
<1> QED BY <1>1, <1>2, GuardSteps

-----------------------------------------------------------------------------
(* Steps that leave the tracker and the cursor alone *)

LEMMA ContractPart == ASSUME [Next]_vars PROVE [GuardNext]_guardVars
<1>1. ASSUME NEW u \in Borrowers, Mined(u) PROVE [GuardNext]_guardVars
  BY <1>1 DEF Mined, GuardNext, Borrower
<1> QED BY <1>1 DEF Next, Keeper, SyncHead, Sync, SyncChunk, PollStatuses, TickFails, Restart,
                    Simulate, Skip, SendFails, vars, guardVars

LEMMA Cursors ==
  ASSUME KInv
  PROVE  /\ scanned \in Nat /\ head \in Nat /\ Len(events) \in Nat
         /\ scanned \in 0 .. Len(events) /\ head \in 0 .. Len(events)
         /\ tracker.armed \subseteq Borrowers /\ tracker.terminal \subseteq tracker.armed
         /\ tracker = [armed |-> tracker.armed, terminal |-> tracker.terminal]
BY LogTyped DEF KInv, TypeOK

LEMMA TrackerStays ==
  ASSUME KInv, [GuardNext]_guardVars, UNCHANGED << scanned, tracker >>
  PROVE  Applied' /\ MarkFinal' /\ scanned' \in 0 .. Len(events')
<1>0. IInv /\ NonceReached BY DEF KInv
<1>1. PICK n : n = scanned OBVIOUS
<1>2. n \in 0 .. Len(events) /\ n \in Nat /\ Len(events) \in Nat BY <1>1, Cursors
<1>3. Applied'
  <2>1. ASSUME NEW u \in Borrowers PROVE u \in tracker.armed <=> ArmedAt(n, u)
    BY <1>1 DEF KInv, Applied, ArmedAt
  <2>2. ASSUME NEW u \in Borrowers PROVE u \in tracker'.armed <=> ArmedAt(n, u)'
    BY <1>0, <1>2, <2>1, LogGrows
  <2> QED BY <1>1, <2>2 DEF Applied, ArmedAt
<1>4. MarkFinal'
  <2> SUFFICES ASSUME NEW u \in tracker.terminal, ~ Touched(n, u)' PROVE Final(u)'
    BY <1>1 DEF MarkFinal, Touched
  <2>1. u \in Borrowers BY Cursors
  <2>2. ~ Touched(n, u) BY <1>0, <1>2, <2>1, LogGrows
  <2>3. Final(u) BY <1>1, <2>2 DEF KInv, MarkFinal, Touched
  <2> QED BY <1>0, <1>2, <2>1, <2>3, FinalStays
<1>5. n \in 0 .. Len(events') BY <1>0, <1>2, LogGrows
<1> QED BY <1>1, <1>3, <1>4, <1>5

LEMMA SnapStays ==
  ASSUME KInv, [GuardNext]_guardVars, UNCHANGED head,
         phase' = "idle" \/ (phase # "idle" /\ snap' = snap)
  PROVE  SnapFinal' /\ head' \in 0 .. Len(events')
<1>0. IInv /\ NonceReached BY DEF KInv
<1>1. PICK n : n = head OBVIOUS
<1>2. n \in 0 .. Len(events) /\ n \in Nat /\ Len(events) \in Nat BY <1>1, Cursors
<1>3. SnapFinal'
  <2> SUFFICES ASSUME phase # "idle", snap' = snap, NEW u \in Borrowers,
                      isTerminal(snap[u].status), ~ Touched(n, u)'
               PROVE  Final(u)'
    BY <1>1 DEF SnapFinal, Touched
  <2>1. ~ Touched(n, u) BY <1>0, <1>2, LogGrows
  <2>2. Final(u) BY <1>1, <2>1 DEF KInv, SnapFinal, Touched
  <2> QED BY <1>0, <1>2, <2>2, FinalStays
<1>4. n \in 0 .. Len(events') BY <1>0, <1>2, LogGrows
<1> QED BY <1>1, <1>3, <1>4

(* The borrowers found Ready are tried one after another.                    *)
LEMMA TryingKeeps ==
  ASSUME KInv, [GuardNext]_guardVars, UNCHANGED << scanned, tracker, head, restarts >>,
         ready' \subseteq ready,
         \/ UNCHANGED << phase, snap >>
         \/ phase' \in {"run", "send"} /\ phase \in {"run", "send"} /\ snap' = snap
         \/ phase' = "idle" /\ ready' = {}
  PROVE  KInv'
<1>1. IInv' /\ EventsTell' /\ NonceReached' BY NextInv, EventsKept DEF KInv
<1>2. Applied' /\ MarkFinal' /\ scanned' \in 0 .. Len(events') BY TrackerStays
<1>3. SnapFinal' /\ head' \in 0 .. Len(events')
  <2>1. phase' = "idle" \/ (phase # "idle" /\ snap' = snap) OBVIOUS
  <2> QED BY <2>1, SnapStays
<1>4. GuardTypeOK' BY <1>1 DEF IInv
<1>5. TypeOK' BY <1>2, <1>3, <1>4 DEF KInv, TypeOK
<1>6. WithinHead' /\ NoneReady' BY DEF KInv, WithinHead, NoneReady
<1> QED BY <1>1, <1>2, <1>3, <1>5, <1>6 DEF KInv

-----------------------------------------------------------------------------
(* The steps of syncLogs and pollStatuses *)

LEMMA Unmoved ==
  ASSUME KInv, UNCHANGED guardVars
  PROVE  IInv' /\ EventsTell' /\ NonceReached' /\ GuardTypeOK' /\ events' = events
<1>1. [GuardNext]_guardVars OBVIOUS
<1>2. IInv' /\ EventsTell' /\ NonceReached' BY <1>1, NextInv, EventsKept DEF KInv
<1> QED BY <1>2 DEF IInv, guardVars

(* A terminal status is a final policy.                                      *)
LEMMA TerminalStatus ==
  ASSUME NEW u \in Borrowers, isTerminal(Evaluate(u))
  PROVE  Final(u)
BY DEF isTerminal, Evaluate, Final

LEMMA SyncHeadKeeps == ASSUME KInv, SyncHead PROVE KInv'
<1>1. /\ UNCHANGED guardVars /\ phase = "idle" /\ phase' = "sync" /\ head' = Len(events)
      /\ snap' = [u \in Borrowers |-> ReadStatus(u)] /\ UNCHANGED << scanned, tracker, ready, restarts >>
  BY DEF SyncHead
<1>2. IInv' /\ EventsTell' /\ NonceReached' /\ GuardTypeOK' /\ events' = events
  BY <1>1, Unmoved
<1>3. Applied' /\ MarkFinal' /\ scanned' \in 0 .. Len(events')
  <2>1. [GuardNext]_guardVars BY <1>1
  <2> QED BY <1>1, <2>1, TrackerStays
<1>4. head' \in 0 .. Len(events') /\ scanned' <= head' BY <1>1, <1>2, Cursors
<1>5. SnapFinal'
  <2> SUFFICES ASSUME NEW u \in Borrowers, isTerminal(snap'[u].status) PROVE Final(u)'
    BY DEF SnapFinal
  <2>1. snap'[u].status = Evaluate(u) BY <1>1 DEF ReadStatus
  <2>2. Final(u) BY <2>1, TerminalStatus DEF isTerminal
  <2> QED BY <1>1, <2>2 DEF Final, guardVars
<1>6. TypeOK' BY <1>1, <1>2, <1>3, <1>4 DEF KInv, TypeOK
<1>7. WithinHead' /\ NoneReady' BY <1>1, <1>4 DEF KInv, WithinHead, NoneReady
<1> QED BY <1>2, <1>3, <1>5, <1>6, <1>7 DEF KInv

(* Applying a chunk of the log takes the tracker from what the first m       *)
(* events say to what the first n say.                                       *)
LEMMA ChunkApplied ==
  ASSUME IInv, NEW m \in Nat, NEW n \in Nat, m < n, n <= Len(events), NEW u \in Borrowers,
         NEW tr, u \in tr.armed <=> ArmedAt(m, u)
  PROVE  LET c == SubSeq(events, m + 1, n)
         IN /\ u \in apply(tr, c).armed <=> ArmedAt(n, u)
            /\ u \in apply(tr, c).terminal
                 => u \in tr.terminal /\ \A i \in m + 1 .. n : events[i].user # u
<1> DEFINE c == SubSeq(events, m + 1, n)
<1>0. events \in Seq(Log) /\ Len(events) \in Nat BY LogTyped
<1>1. /\ Len(c) = n - m /\ DOMAIN c = 1 .. n - m
      /\ \A i \in 1 .. n - m : c[i] = events[m + i]
  BY <1>0, Chunk
<1> HIDE DEF c
<1>2. u \in Mentioned(c) <=> \E i \in m + 1 .. n : events[i].user = u
  <2>1. ASSUME u \in Mentioned(c) PROVE \E i \in m + 1 .. n : events[i].user = u
    <3>1. PICK i \in 1 .. n - m : c[i].user = u BY <1>1, <2>1 DEF Mentioned
    <3>2. m + i \in m + 1 .. n /\ events[m + i].user = u BY <1>1, <3>1
    <3> QED BY <3>2
  <2>2. ASSUME NEW i \in m + 1 .. n, events[i].user = u PROVE u \in Mentioned(c)
    <3>1. i - m \in 1 .. n - m /\ m + (i - m) = i OBVIOUS
    <3>2. c[i - m].user = u BY <1>1, <2>2, <3>1
    <3> QED BY <1>1, <3>1, <3>2 DEF Mentioned
  <2> QED BY <2>1, <2>2
<1>3. u \in LastArmed(c) <=>
        \E i \in m + 1 .. n : /\ events[i].user = u /\ events[i].kind = "Armed"
                              /\ \A j \in i + 1 .. n : events[j].user # u
  <2>1. ASSUME u \in LastArmed(c)
        PROVE  \E i \in m + 1 .. n : /\ events[i].user = u /\ events[i].kind = "Armed"
                                     /\ \A j \in i + 1 .. n : events[j].user # u
    <3>1. PICK i \in 1 .. n - m : /\ c[i].user = u /\ c[i].kind = "Armed"
                                 /\ \A j \in i + 1 .. n - m : c[j].user # c[i].user
      BY <1>1, <2>1 DEF LastArmed, LastAbout
    <3>2. /\ m + i \in m + 1 .. n /\ events[m + i].user = u /\ events[m + i].kind = "Armed"
      BY <1>1, <3>1
    <3>3. ASSUME NEW j \in m + i + 1 .. n PROVE events[j].user # u
      <4>1. j - m \in i + 1 .. n - m /\ j - m \in 1 .. n - m /\ m + (j - m) = j OBVIOUS
      <4> QED BY <1>1, <3>1, <4>1
    <3> QED BY <3>2, <3>3
  <2>2. ASSUME NEW i \in m + 1 .. n, events[i].user = u, events[i].kind = "Armed",
               \A j \in i + 1 .. n : events[j].user # u
        PROVE  u \in LastArmed(c)
    <3>1. i - m \in 1 .. n - m /\ m + (i - m) = i OBVIOUS
    <3>2. c[i - m] = events[i] BY <1>1, <3>1
    <3>3. ASSUME NEW j \in i - m + 1 .. n - m PROVE c[j].user # u
      <4>1. j \in 1 .. n - m /\ m + j \in i + 1 .. n OBVIOUS
      <4> QED BY <1>1, <2>2, <4>1
    <3>4. LastAbout(c, i - m) BY <1>1, <2>2, <3>2, <3>3 DEF LastAbout
    <3> QED BY <1>1, <2>2, <3>1, <3>2, <3>4 DEF LastArmed
  <2> QED BY <2>1, <2>2
<1>4. /\ u \in apply(tr, c).armed <=> (u \in tr.armed /\ u \notin Mentioned(c)) \/ u \in LastArmed(c)
      /\ u \in apply(tr, c).terminal <=> u \in tr.terminal /\ u \notin Mentioned(c)
  BY DEF apply
<1>5. ASSUME u \notin Mentioned(c) PROVE ArmedAt(n, u) <=> ArmedAt(m, u)
  <2>1. \A i \in m + 1 .. n : events[i].user # u BY <1>2, <1>5
  <2>2. \A i \in 1 .. m : i \in 1 .. n OBVIOUS
  <2>3. \A i \in 1 .. n : i \in 1 .. m \/ i \in m + 1 .. n OBVIOUS
  <2>4. \A i \in 1 .. m : \A j \in i + 1 .. n : j \in i + 1 .. m \/ j \in m + 1 .. n OBVIOUS
  <2>5. \A i \in 1 .. m : \A j \in i + 1 .. m : j \in i + 1 .. n OBVIOUS
  <2> QED BY <2>1, <2>2, <2>3, <2>4, <2>5 DEF ArmedAt
<1>6. ASSUME u \in Mentioned(c) PROVE ArmedAt(n, u) <=> u \in LastArmed(c)
  <2>1. PICK x \in m + 1 .. n : events[x].user = u BY <1>2, <1>6
  <2>2. \A i \in 1 .. m : x \in i + 1 .. n OBVIOUS
  <2>3. \A i \in 1 .. n : i \in 1 .. m \/ i \in m + 1 .. n OBVIOUS
  <2>4. \A i \in m + 1 .. n : i \in 1 .. n OBVIOUS
  <2> QED BY <1>3, <2>1, <2>2, <2>3, <2>4 DEF ArmedAt
<1>7. u \in LastArmed(c) => u \in Mentioned(c) BY <1>2, <1>3
<1> QED BY <1>2, <1>4, <1>5, <1>6, <1>7 DEF c

LEMMA SyncChunkKeeps == ASSUME KInv, NEW to \in Nat, SyncChunk(to) PROVE KInv'
<1>1. /\ UNCHANGED << guardVars, phase, head, snap, ready, restarts >>
      /\ phase = "sync" /\ scanned < to /\ to <= head /\ scanned' = to
      /\ tracker' = apply(tracker, SubSeq(events, scanned + 1, to))
  BY DEF SyncChunk, To
<1>2. IInv' /\ EventsTell' /\ NonceReached' /\ GuardTypeOK' /\ events' = events
  BY <1>1, Unmoved
<1>3. PICK m \in Nat : m = scanned BY Cursors
<1>4. /\ m < to /\ to <= Len(events) /\ to \in 0 .. Len(events) /\ Len(events) \in Nat
  BY <1>1, <1>3, Cursors
<1>5. PICK tr : tr = tracker OBVIOUS
<1>6. ASSUME NEW u \in Borrowers
      PROVE  /\ u \in tracker'.armed <=> ArmedAt(to, u)
             /\ u \in tracker'.terminal
                  => u \in tracker.terminal /\ \A i \in m + 1 .. to : events[i].user # u
  <2>1. IInv /\ (u \in tr.armed <=> ArmedAt(m, u)) BY <1>3, <1>5 DEF KInv, Applied, ArmedAt
  <2>2. tracker' = apply(tr, SubSeq(events, m + 1, to)) BY <1>1, <1>3, <1>5
  <2>3. LET c == SubSeq(events, m + 1, to)
        IN /\ u \in apply(tr, c).armed <=> ArmedAt(to, u)
           /\ u \in apply(tr, c).terminal
                => u \in tr.terminal /\ \A i \in m + 1 .. to : events[i].user # u
    BY <1>4, <2>1, ChunkApplied
  <2> QED BY <1>5, <2>2, <2>3
<1>7. tracker' \in [armed : SUBSET Borrowers, terminal : SUBSET Borrowers]
  <2>1. events \in Seq(Log) BY LogTyped DEF KInv
  <2>2. PICK c : c = SubSeq(events, m + 1, to) OBVIOUS
  <2>3. DOMAIN c = 1 .. to - m /\ \A i \in 1 .. to - m : c[i] = events[m + i]
    BY <1>4, <2>1, <2>2, Chunk
  <2>4. \A i \in DOMAIN c : c[i].user \in Borrowers
    <3>1. ASSUME NEW i \in 1 .. to - m PROVE c[i].user \in Borrowers
      <4>1. m + i \in 1 .. Len(events) BY <1>4
      <4>2. events[m + i] \in Log BY <2>1, <4>1, LogElement
      <4> QED BY <2>3, <4>2 DEF Log
    <3> QED BY <2>3, <3>1
  <2>5. LastArmed(c) \subseteq Borrowers BY <2>4 DEF LastArmed
  <2>6. tracker' = apply(tracker, c) BY <1>1, <1>3, <2>2
  <2> QED BY <2>5, <2>6, Cursors DEF apply
<1>8. Applied' BY <1>1, <1>2, <1>6 DEF Applied, ArmedAt
<1>9. tracker'.terminal \subseteq tracker'.armed
  <2> SUFFICES ASSUME NEW u \in tracker'.terminal PROVE u \in tracker'.armed OBVIOUS
  <2>1. PICK c : c = SubSeq(events, m + 1, to) OBVIOUS
  <2>2. tracker' = apply(tracker, c) BY <1>1, <1>3, <2>1
  <2> QED BY <2>2, Cursors DEF apply
<1>10. MarkFinal'
  <2> SUFFICES ASSUME NEW u \in tracker'.terminal, ~ Touched(to, u) PROVE Final(u)
    BY <1>1, <1>2 DEF MarkFinal, Touched, Final, guardVars
  <2>1. u \in Borrowers BY <1>7
  <2>2. u \in tracker.terminal /\ \A i \in m + 1 .. to : events[i].user # u
    BY <1>6, <2>1
  <2>3. \A i \in m + 1 .. Len(events) : i \in m + 1 .. to \/ i \in to + 1 .. Len(events)
    BY <1>4
  <2>4. ~ Touched(m, u) BY <2>2, <2>3 DEF Touched
  <2> QED BY <1>3, <2>2, <2>4 DEF KInv, MarkFinal, Touched
<1>11. SnapFinal' /\ head' \in 0 .. Len(events')
  <2>1. [GuardNext]_guardVars BY <1>1
  <2>2. phase # "idle" /\ snap' = snap /\ UNCHANGED head BY <1>1
  <2> QED BY <2>1, <2>2, SnapStays
<1>12. TypeOK' BY <1>1, <1>2, <1>4, <1>7, <1>9, <1>11 DEF KInv, TypeOK, NoneReady
<1>13. WithinHead' /\ NoneReady' BY <1>1 DEF KInv, WithinHead, NoneReady
<1> QED BY <1>2, <1>8, <1>10, <1>11, <1>12, <1>13 DEF KInv

(* Statuses are marked only when every event up to the head is applied.      *)
LEMMA MarkingKeeps ==
  ASSUME KInv, UNCHANGED guardVars, phase = "sync", NEW S \in SUBSET pollable,
         S # {} => scanned >= head, tracker' = Marked(S), UNCHANGED << scanned, head, restarts >>,
         ready' \subseteq pollable,
         \/ phase' = "idle" /\ ready' = {}
         \/ phase' = "run" /\ snap' = snap
  PROVE  KInv'
<1>1. IInv' /\ EventsTell' /\ NonceReached' /\ GuardTypeOK' /\ events' = events
  BY Unmoved
<1>2. /\ tracker'.armed = tracker.armed
      /\ tracker'.terminal = tracker.terminal \cup {u \in S : isTerminal(snap[u].status)}
      /\ tracker' \in [armed : SUBSET Borrowers, terminal : SUBSET Borrowers]
      /\ tracker'.terminal \subseteq tracker'.armed
  <2>1. tracker \in [armed : SUBSET Borrowers, terminal : SUBSET Borrowers] BY DEF KInv, TypeOK
  <2> QED BY <2>1, Cursors DEF Marked, pollable
<1>3. Applied' BY <1>1, <1>2 DEF KInv, Applied, ArmedAt
<1>4. MarkFinal'
  <2> SUFFICES ASSUME NEW u \in tracker'.terminal, ~ Touched(scanned, u) PROVE Final(u)
    BY <1>1 DEF MarkFinal, Touched, Final, guardVars
  <2>1. CASE u \in tracker.terminal BY <2>1 DEF KInv, MarkFinal
  <2>2. CASE u \in S /\ isTerminal(snap[u].status)
    <3>1. scanned = head BY <2>2, Cursors DEF KInv, WithinHead
    <3>2. u \in Borrowers BY <2>2, Cursors DEF pollable
    <3>3. ~ Touched(head, u) BY <3>1 DEF Touched
    <3> QED BY <2>2, <3>2, <3>3 DEF KInv, SnapFinal
  <2> QED BY <1>2, <2>1, <2>2
<1>5. SnapFinal' /\ head' \in 0 .. Len(events')
  <2>1. [GuardNext]_guardVars /\ (phase' = "idle" \/ (phase # "idle" /\ snap' = snap)) OBVIOUS
  <2> QED BY <2>1, SnapStays
<1>6. scanned' \in 0 .. Len(events') BY <1>1, Cursors
<1>7. TypeOK' BY <1>1, <1>2, <1>5, <1>6 DEF KInv, TypeOK, pollable
<1>8. WithinHead' /\ NoneReady' BY DEF WithinHead, NoneReady
<1> QED BY <1>1, <1>3, <1>4, <1>5, <1>7, <1>8 DEF KInv

LEMMA RestartKeeps == ASSUME KInv, Restart PROVE KInv'
<1>1. /\ UNCHANGED guardVars /\ phase' = "idle" /\ scanned' = 0 /\ head' = 0 /\ ready' = {}
      /\ tracker' = [armed |-> {}, terminal |-> {}] /\ restarts < MaxRestarts
      /\ restarts' = restarts + 1
  BY DEF Restart, ToIdle
<1>2. IInv' /\ EventsTell' /\ NonceReached' /\ GuardTypeOK' /\ events' = events
  BY <1>1, Unmoved
<1>3. TypeOK' BY <1>1, <1>2, Cursors, RestartAssumption DEF KInv, TypeOK
<1>4. Applied' /\ MarkFinal' BY <1>1 DEF Applied, MarkFinal, ArmedAt
<1>5. WithinHead' /\ NoneReady' /\ SnapFinal' BY <1>1 DEF WithinHead, NoneReady, SnapFinal
<1> QED BY <1>2, <1>3, <1>4, <1>5 DEF KInv

-----------------------------------------------------------------------------
LEMMA KeeperInit == Init => KInv
<1> SUFFICES ASSUME Init PROVE KInv OBVIOUS
<1>1. IInv /\ events = << >> /\ policy = [u \in Borrowers |-> NULL]
  BY InitInv DEF Init, GuardInit
<1>2. GuardTypeOK /\ Len(events) = 0 BY <1>1 DEF IInv
<1>3. TypeOK BY <1>2, RestartAssumption DEF Init, TypeOK
<1>4. EventsTell /\ NonceReached BY <1>1, <1>2 DEF EventsTell, NonceReached, ArmedAt
<1>5. Applied /\ MarkFinal /\ WithinHead /\ NoneReady /\ SnapFinal
  BY DEF Init, Applied, MarkFinal, WithinHead, NoneReady, SnapFinal, ArmedAt
<1> QED BY <1>1, <1>3, <1>4, <1>5 DEF KInv

LEMMA KeeperNext == KInv /\ [Next]_vars => KInv'
<1> SUFFICES ASSUME KInv, [Next]_vars PROVE KInv' OBVIOUS
<1>0. [GuardNext]_guardVars BY ContractPart
<1>1. CASE GuardNext /\ UNCHANGED keeperVars BY <1>0, <1>1, TryingKeeps DEF keeperVars
<1>2. CASE UNCHANGED vars BY <1>0, <1>2, TryingKeeps DEF vars, keeperVars
<1>3. ASSUME NEW u \in Borrowers, Simulate(u) \/ Skip(u) \/ Mined(u) \/ SendFails(u) PROVE KInv'
  BY <1>0, <1>3, TryingKeeps DEF Simulate, Skip, Mined, SendFails, NextBorrower, ToIdle
<1>4. CASE PollStatuses
  <2>1. ready' \subseteq pollable BY <1>4 DEF PollStatuses
  <2> QED BY <1>4, <2>1, MarkingKeeps DEF PollStatuses, ToIdle
<1>5. CASE TickFails
  <2>1. PICK S \in SUBSET pollable : (scanned < head => S = {}) /\ tracker' = Marked(S)
    BY <1>5 DEF TickFails
  <2>2. ready' = {} /\ phase = "sync" /\ phase' = "idle" BY <1>5 DEF TickFails, ToIdle, KInv, NoneReady
  <2>3. S # {} => scanned >= head BY <2>1, Cursors
  <2> QED BY <1>5, <2>1, <2>2, <2>3, MarkingKeeps DEF TickFails
<1>6. CASE Sync
  <2>1. PICK to \in 1 .. Len(events) : SyncChunk(to) BY <1>6 DEF Sync
  <2>2. to \in Nat BY Cursors
  <2> QED BY <2>1, <2>2, SyncChunkKeeps
<1> QED BY <1>1, <1>2, <1>3, <1>4, <1>5, <1>6, SyncHeadKeeps, RestartKeeps DEF Next, Keeper

LEMMA KeeperInvariant == Spec => []KInv
BY KeeperInit, KeeperNext, PTL DEF Spec

-----------------------------------------------------------------------------
(* Theorems *)

(* The contract and the keeper's memory keep their types: whoever is marked  *)
(* terminal or waits to be tried is a borrower the tracker believes armed.   *)
THEOREM KeeperTypes == Spec => []TypeOK
<1>1. KInv => TypeOK BY DEF KInv
<1> QED BY <1>1, KeeperInvariant, PTL

(* PolicyTracker, fed chunk by chunk over failed ticks and restarts, holds   *)
(* exactly the borrowers with a policy, up to the events still to be applied.*)
THEOREM TrackerTells == Spec => []TrackerFollows
<1>1. ASSUME KInv PROVE TrackerFollows
  <2> SUFFICES ASSUME NEW u \in Borrowers, ~ Pending(u)
               PROVE  u \in tracker.armed <=> policy[u] # NULL
    BY DEF TrackerFollows
  <2>1. PICK m \in Nat, n \in Nat : m = scanned /\ n = Len(events) /\ m <= n
    BY <1>1, Cursors
  <2>2. \A i \in m + 1 .. n : events[i].user # u BY <2>1 DEF Pending
  <2>3. ArmedAt(n, u) <=> ArmedAt(m, u)
    <3>1. \A i \in 1 .. m : i \in 1 .. n BY <2>1
    <3>2. \A i \in 1 .. n : i \in 1 .. m \/ i \in m + 1 .. n BY <2>1
    <3>3. \A i \in 1 .. m : \A j \in i + 1 .. n : j \in i + 1 .. m \/ j \in m + 1 .. n BY <2>1
    <3>4. \A i \in 1 .. m : \A j \in i + 1 .. m : j \in i + 1 .. n BY <2>1
    <3> QED BY <2>2, <3>1, <3>2, <3>3, <3>4 DEF ArmedAt
  <2> QED BY <1>1, <2>1, <2>3 DEF KInv, Applied, EventsTell, ArmedAt
<1> QED BY <1>1, KeeperInvariant, PTL

(* A terminal mark never hides a policy that can still become Ready: status  *)
(* is read at the head whose events are applied, and what is final then is   *)
(* final until the next event about the borrower clears the mark.            *)
THEOREM MarksAreFinal == Spec => []TerminalIsFinal
<1>1. KInv => TerminalIsFinal
  BY DEF KInv, MarkFinal, Touched, Final, TerminalIsFinal, Pending
<1> QED BY <1>1, KeeperInvariant, PTL
==============================================================================
