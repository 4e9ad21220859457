-------------------------------- MODULE Sale --------------------------------
(* What the gateway promises about the sale of one report per quote,         *)
(* whatever handlers, retries, crashes and chain reorganisations do:         *)
(*   - an authorization is committed to at most one quote, and is settled    *)
(*     at most once, after the commitment;                                   *)
(*   - a quote is paid only after an authorization was committed to it;      *)
(*   - a quote that closed unsold never opens again;                         *)
(*   - a report is delivered only while the sale stands, and a sale that is  *)
(*     withdrawn after payment is never reinstated automatically.            *)
EXTENDS Naturals

CONSTANTS Quotes, Auths

VARIABLES
  sale,       \* state of the sale of a quote
  spent,      \* authorizations committed to some quote
  settled,    \* authorizations handed to the facilitator
  deliveries  \* quotes whose report was delivered

SaleStates == {"open", "committed", "paid", "disputed", "withdrawn", "closed"}

Init == /\ sale = [q \in Quotes |-> "open"]
        /\ spent = {} /\ settled = {} /\ deliveries = {}

Move(q, from, to) == sale[q] \in from /\ sale' = [sale EXCEPT ![q] = to]

Submit(q, a) == /\ Move(q, {"open"}, "committed")
                /\ a \notin spent /\ spent' = spent \cup {a}
                /\ UNCHANGED << settled, deliveries >>

Settle(a) == /\ a \in spent \ settled /\ settled' = settled \cup {a}
             /\ UNCHANGED << sale, spent, deliveries >>

Pay(q) == /\ Move(q, {"committed", "disputed"}, "paid")
          /\ UNCHANGED << spent, settled, deliveries >>

Dispute(q) == /\ Move(q, {"committed"}, "disputed")
              /\ UNCHANGED << spent, settled, deliveries >>

Withdraw(q) == /\ Move(q, {"paid"}, "withdrawn")
               /\ UNCHANGED << spent, settled, deliveries >>

Deliver(q) == /\ sale[q] = "paid"
              /\ deliveries' = deliveries \cup {q}
              /\ UNCHANGED << sale, spent, settled >>

(* Expired quotes close, several at once when a worker sweeps them.          *)
Close(S) == /\ \A q \in S : sale[q] = "open"
            /\ sale' = [q \in Quotes |-> IF q \in S THEN "closed" ELSE sale[q]]
            /\ UNCHANGED << spent, settled, deliveries >>

Next == \/ \E q \in Quotes : \/ \E a \in Auths : Submit(q, a)
                             \/ Pay(q) \/ Dispute(q) \/ Withdraw(q) \/ Deliver(q)
        \/ \E a \in Auths : Settle(a)
        \/ \E S \in SUBSET Quotes : Close(S)

vars == << sale, spent, settled, deliveries >>

Spec == Init /\ [][Next]_vars
=============================================================================
