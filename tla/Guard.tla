-------------------------------- MODULE Guard --------------------------------
(* The LiqveraGuard contract: escrow of MUSD and BTC, one protection policy  *)
(* per borrower, and its permissionless execution. Every function that       *)
(* changes state holds the nonReentrant lock and a failed transaction leaves *)
(* no trace, so a function is one step and a revert is no step. The deadline *)
(* of a policy is the step at which it expires. Of Mezo, the price, a        *)
(* borrower's signature nonce and trove are kept, as far as the Guard reads  *)
(* them.                                                                     *)
EXTENDS Integers, FiniteSets, Sequences, FiniteSetsExt

CONSTANTS Users,
          Borrowers,   \* those of them who have a trove
          offers,      \* the policies each borrower may arm
          Prices,      \* of one unit of collateral
          MCR, MAX_TRIGGER_ICR,
          minNetDebt, MUSD_GAS_COMPENSATION,
          Coll, Debt,  \* of a trove when it is opened
          OwnRepay,    \* what a borrower repays without the Guard
          maxEscrow,   \* bound on a user's balance of an asset
          MaxNonce,    \* bound on a borrower's signed Mezo operations
          MaxArms,     \* bound on the policies armed
          MaxDonation, \* bound on MUSD sent without a deposit
          NULL

Assets == {"MUSD", "BTC"}
Asset(action) == IF action = "RepayMUSD" THEN "MUSD" ELSE "BTC"
Offer == [action : {"RepayMUSD", "AddColl"}, triggerICR : Nat,
          amount : Nat, keeperReward : Nat]

ASSUME OfferAssumption == /\ DOMAIN offers = Borrowers
                          /\ \A u \in Borrowers : offers[u] \subseteq Offer
ASSUME GuardAssumption == /\ {Coll, Debt, OwnRepay} \subseteq Nat \ {0}
                          /\ {MCR, minNetDebt, MUSD_GAS_COMPENSATION} \subseteq Nat
                          /\ maxEscrow \in [Assets -> [Users -> Nat]]
                          /\ Borrowers \subseteq Users
                          /\ MUSD_GAS_COMPENSATION > 0
                          /\ MaxNonce \in Nat /\ Prices \subseteq Nat
                          /\ Debt - MUSD_GAS_COMPENSATION >= minNetDebt

ASSUME UsersFinite == IsFiniteSet(Users)

VARIABLES
  balance,  \* musdBalance and btcBalance, by asset and borrower
  total,    \* totalMUSDEscrow and totalBTCEscrow
  policy,   \* _policies
  events,   \* Armed, Disarmed and Protected, in the order of the chain
  held,     \* what the contract owns of each asset
  trove, nonce, price

guardVars == << balance, total, policy, events, held, trove, nonce, price >>
mezoVars == << trove, nonce, price >>

Policies == [action : {"RepayMUSD", "AddColl"}, triggerICR : Nat, amount : Nat,
             keeperReward : Nat, expired : BOOLEAN,
             sigNonce : Nat, signed : Nat]

ASSUME NullAssumption == NULL \notin Policies

GuardTypeOK ==
  /\ balance \in [Assets -> [Users -> Nat]]
  /\ total \in [Assets -> Int] /\ held \in [Assets -> Int]
  /\ policy \in [Borrowers -> Policies \cup {NULL}]
  /\ events \in Seq([kind : {"Armed", "Disarmed", "Protected"}, user : Borrowers])
  /\ trove \in [Borrowers -> [active : BOOLEAN, coll : Nat, debt : Nat \ {0}]]
  /\ nonce \in [Borrowers -> 0 .. MaxNonce] /\ price \in Prices

GuardInit ==
  /\ balance = [a \in Assets |-> [u \in Users |-> 0]]
  /\ total = [a \in Assets |-> 0] /\ held = [a \in Assets |-> 0]
  /\ policy = [u \in Borrowers |-> NULL] /\ events = << >>
  /\ trove = [u \in Borrowers |-> [active |-> TRUE, coll |-> Coll, debt |-> Debt]]
  /\ nonce = [u \in Borrowers |-> 0] /\ price \in Prices

Emit(kind, u) == events' = Append(events, [kind |-> kind, user |-> u])

-----------------------------------------------------------------------------
(* Views *)

Cost(p) == p.amount + p.keeperReward

Reserved(u, a) ==
  IF u \in Borrowers /\ policy[u] # NULL /\ Asset(policy[u].action) = a
  THEN Cost(policy[u]) ELSE 0

Mut_Free(a, u) == balance[a][u]

(* freeMUSD and freeBTC *)
Free(a, u) == balance[a][u] - Reserved(u, a)

(* TroveManager.getCurrentICR, in the units of MCR *)
ICR(t, p) == (t.coll * p) \div t.debt

(* The trove after Mezo has executed a policy *)
Adjusted(t, p) == IF p.action = "RepayMUSD"
                  THEN [t EXCEPT !.debt = @ - p.amount]
                  ELSE [t EXCEPT !.coll = @ + p.amount]

RepayKeepsMinNetDebt(t, p) ==
  p.action = "RepayMUSD" =>
     t.debt - MUSD_GAS_COMPENSATION - p.amount >= minNetDebt

Mut_Healthy(u) == ICR(trove[u], price) > policy[u].triggerICR

Healthy(u) == ICR(trove[u], price) >= policy[u].triggerICR

(* Of the reasons that apply, the first one in the order of the code *)
Evaluate(u) ==
  LET p == policy[u]
      t == trove[u]
  IN IF p = NULL THEN "NoPolicy"
     ELSE IF p.expired THEN "Expired"
     ELSE IF nonce[u] # p.sigNonce THEN "StaleNonce"
     ELSE IF ~t.active THEN "TroveNotActive"
     ELSE IF Healthy(u) THEN "Healthy"
     ELSE IF ~RepayKeepsMinNetDebt(t, p) THEN "BelowMinNetDebt"
     ELSE IF ICR(Adjusted(t, p), price) < MCR THEN "StillBelowMCR"
     ELSE "Ready"

checker(u) == Evaluate(u) = "Ready"

-----------------------------------------------------------------------------
(* Escrow *)

Mut_Credit(a, u, x) ==
  /\ balance' = [balance EXCEPT ![a][u] = @ + x]
  /\ total' = [total EXCEPT ![a] = IF x > 0 THEN @ + x ELSE @]
  /\ held' = [held EXCEPT ![a] = @ + x]

Credit(a, u, x) ==
  /\ balance' = [balance EXCEPT ![a][u] = @ + x]
  /\ total' = [total EXCEPT ![a] = @ + x]
  /\ held' = [held EXCEPT ![a] = @ + x]

(* depositMUSD and depositBTC *)
Deposit(a, u, x) ==
  /\ x > 0 /\ balance[a][u] + x <= maxEscrow[a][u]
  /\ Credit(a, u, x)
  /\ UNCHANGED << policy, events, mezoVars >>

(* withdrawMUSD and withdrawBTC *)
Withdraw(a, u, x) ==
  /\ x > 0 /\ x <= Free(a, u)
  /\ Credit(a, u, 0 - x)
  /\ UNCHANGED << policy, events, mezoVars >>

-----------------------------------------------------------------------------
(* Policy. A signature is the nonce it was made over: the other signed       *)
(* fields are those of the offer.                                            *)

Mut_Recover(u, n) == n <= nonce[u]

Recover(u, n) == n = nonce[u]

Mut_Needed(o) == o.amount

Needed(o) == o.amount + o.keeperReward

Armed == Cardinality({i \in DOMAIN events : events[i].kind = "Armed"})

arm(u, o, n) ==
  /\ Armed < MaxArms /\ nonce[u] < MaxNonce
  /\ o.amount > 0 /\ o.triggerICR > MCR /\ o.triggerICR <= MAX_TRIGGER_ICR
  /\ trove[u].active
  /\ Needed(o) <= balance[Asset(o.action)][u]
  /\ RepayKeepsMinNetDebt(trove[u], o)
  /\ Recover(u, n)
  /\ policy' = [policy EXCEPT ![u] =
         [action |-> o.action, triggerICR |-> o.triggerICR, amount |-> o.amount,
          keeperReward |-> o.keeperReward, expired |-> FALSE,
          sigNonce |-> nonce[u], signed |-> n]]
  /\ Emit("Armed", u)
  /\ UNCHANGED << balance, total, held, mezoVars >>

disarm(u) ==
  /\ policy[u] # NULL
  /\ policy' = [policy EXCEPT ![u] = NULL]
  /\ Emit("Disarmed", u)
  /\ UNCHANGED << balance, total, held, mezoVars >>

-----------------------------------------------------------------------------
(* protect *)

(* BorrowerOperationsSignatures executes a signature that is unexpired and   *)
(* was made over the borrower's nonce.                                       *)
MezoAccepts(u) == policy[u].signed = nonce[u] /\ ~policy[u].expired

(* The ICR has to rise as an integer *)
Improves(u) == ICR(Adjusted(trove[u], policy[u]), price) > ICR(trove[u], price)

Executable(u) == checker(u) /\ MezoAccepts(u) /\ Improves(u)

protect(u) ==
  LET p == policy[u]
      a == Asset(p.action)
  IN /\ Executable(u)
     /\ Credit(a, u, 0 - Cost(p))
     /\ policy' = [policy EXCEPT ![u] = NULL]
     /\ trove' = [trove EXCEPT ![u] = Adjusted(@, p)]
     /\ nonce' = [nonce EXCEPT ![u] = @ + 1]
     /\ Emit("Protected", u)
     /\ UNCHANGED price

-----------------------------------------------------------------------------
(* Mezo and the borrowers outside the Guard *)

PriceMoves == /\ price' \in Prices \ {price}
              /\ UNCHANGED << balance, total, held, policy, events, trove, nonce >>

(* A signed Mezo operation of the borrower, or anyone's direct use of the    *)
(* signature that arm() made public.                                         *)
SignedElsewhere(u) ==
  /\ nonce[u] < MaxNonce /\ nonce' = [nonce EXCEPT ![u] = @ + 1]
  /\ UNCHANGED << balance, total, held, policy, events, trove, price >>

RepaysDirectly(u) ==
  /\ trove[u].active
  /\ trove[u].debt - MUSD_GAS_COMPENSATION - OwnRepay >= minNetDebt
  /\ trove' = [trove EXCEPT ![u].debt = @ - OwnRepay]
  /\ UNCHANGED << balance, total, held, policy, events, nonce, price >>

(* Liquidation, redemption or closing, and opening again *)
Closes(u) == /\ trove[u].active /\ trove' = [trove EXCEPT ![u].active = FALSE]
             /\ UNCHANGED << balance, total, held, policy, events, nonce, price >>

Opens(u) ==
  /\ ~trove[u].active
  /\ trove' = [trove EXCEPT ![u] = [active |-> TRUE, coll |-> Coll, debt |-> Debt]]
  /\ UNCHANGED << balance, total, held, policy, events, nonce, price >>

DeadlinePasses(u) ==
  /\ policy[u] # NULL /\ ~policy[u].expired
  /\ policy' = [policy EXCEPT ![u].expired = TRUE]
  /\ UNCHANGED << balance, total, held, events, mezoVars >>

(* MUSD can be sent to the contract without depositMUSD *)
Donation ==
  /\ held["MUSD"] - total["MUSD"] < MaxDonation
  /\ held' = [held EXCEPT !["MUSD"] = @ + 1]
  /\ UNCHANGED << balance, total, policy, events, mezoVars >>

EscrowMoves == \E a \in Assets, u \in Users : \E x \in 1 .. maxEscrow[a][u] :
                  Deposit(a, u, x) \/ Withdraw(a, u, x)

Borrower(u) == \/ \E o \in offers[u], n \in 0 .. MaxNonce : arm(u, o, n)
               \/ disarm(u) \/ protect(u)

Mezo ==
  \/ PriceMoves \/ Donation
  \/ \E u \in Borrowers : \/ SignedElsewhere(u) \/ RepaysDirectly(u)
                          \/ Closes(u) \/ Opens(u) \/ DeadlinePasses(u)

GuardNext == EscrowMoves \/ Mezo \/ \E u \in Borrowers : Borrower(u)

GuardSpec == GuardInit /\ [][GuardNext]_guardVars

-----------------------------------------------------------------------------
(* Properties of the contract *)

Sum(f) == MapThenSumSet(LAMBDA u : f[u], Users)

(* What a policy keeps from being armed to being executed: the signature was *)
(* made over the nonce the contract recorded.                                *)
PolicySound ==
  \A u \in Borrowers : policy[u] # NULL => /\ policy[u].signed = policy[u].sigNonce
                                         /\ policy[u].sigNonce < MaxNonce

(* The escrow totals are the sum of the borrowers' balances, and the         *)
(* contract always owns what it owes: after any deposits, withdrawals and    *)
(* executions, no borrower's withdrawal can fail for lack of funds.          *)
EscrowCovered ==
  \A a \in Assets : total[a] = Sum(balance[a]) /\ total[a] <= held[a]

(* What an armed policy may spend stays in its borrower's balance of the     *)
(* right asset, whatever was withdrawn or re-armed meanwhile: protect never  *)
(* underflows, and neither do freeMUSD and freeBTC.                          *)
ReservedBacked == \A a \in Assets, u \in Users : Reserved(u, a) <= balance[a][u]

(* A policy the views call Ready carries a signature Mezo will execute, made *)
(* over the borrower's present nonce: arm admitted no other and the nonce    *)
(* check of Evaluate has noticed every later use.                           *)
ReadyIsSigned == \A u \in Borrowers : checker(u) => MezoAccepts(u)

Executed(u) ==
  LET p == policy[u]
      a == Asset(p.action)
  IN /\ p # NULL /\ policy'[u] = NULL
     /\ ICR(trove[u], price) < p.triggerICR
     /\ balance'[a][u] = balance[a][u] - Cost(p)
     /\ ICR(trove'[u], price) > ICR(trove[u], price)
     /\ ICR(trove'[u], price) >= MCR

(* A balance falls only by a withdrawal of what no policy reserves, or by    *)
(* the execution of the policy of that very borrower, below its trigger, for *)
(* exactly its cost, with the trove lifted and no longer liquidatable.       *)
OnlyAsSigned ==
  [][\A a \in Assets, u \in Users : balance'[a][u] < balance[a][u] =>
        \/ policy' = policy /\ balance'[a][u] >= Reserved(u, a)
        \/ u \in Borrowers /\ Executed(u)]_guardVars
=============================================================================
