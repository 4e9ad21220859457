---------------------------- MODULE GatewaySale -----------------------------
(* The properties of the payment gateway, and the mapping under which it     *)
(* implements Sale.                                                          *)
EXTENDS Gateway

SameAuthorization(x, y) == authorization[x] = authorization[y]

(* A quote's state and the state of its attempts move together, although     *)
(* they are separate rows, updated by guarded statements of a dozen          *)
(* transactions: a live attempt determines the state of its quote, it is the *)
(* only live one, and a quote that waits for or had a payment has one.       *)
Live(x) == attempts[x] \notin {"NONE", "REJECTED"}

Follows(x) ==
  LET q == quotes[quote_id[x]] IN
  CASE attempts[x] \in {"VERIFIED", "SUBMITTING"} -> q = "PAYMENT_PENDING"
    [] attempts[x] = "UNKNOWN" -> q = "PAYMENT_UNCERTAIN"
    [] attempts[x] = "CONFIRMED" -> q = "PAID"
    [] attempts[x] = "MANUAL_REVIEW" -> q = "MANUAL_REVIEW"
    [] OTHER -> ~Live(x)

StateFollows == \A x \in Attempts : Follows(x)
OneLive == \A x, y \in Attempts : quote_id[x] = quote_id[y] /\ Live(x) /\ Live(y) => x = y
SoldIsLive == \A q \in Quotes : quotes[q] \notin {"READY", "EXPIRED"} => ActiveAttempt(q)

QuoteFollowsAttempt == StateFollows /\ OneLive /\ SoldIsLive

(* "The durable SUBMITTING boundary precedes the sole external settle call": *)
(* a signed authorization is handed to the facilitator at most once in its   *)
(* life, over all quotes, processes, retries and crashes.                    *)
OneSettlementPerAuthorization ==
  /\ \A x \in Attempts : settle_calls[x] <= 1
  /\ \A x, y \in Attempts : x # y /\ SameAuthorization(x, y)
                            => settle_calls[x] = 0 \/ settle_calls[y] = 0

(* Whatever reaches the chain is known to the ledger as submitted: no path   *)
(* rejects an attempt, or frees its quote, once settle may have run.         *)
NoChargeWithoutRecord ==
  \A x \in Attempts : settle_calls[x] > 0 => attempts[x] \in Submitted

(* The runbook's "never delete artifacts": the evidence of a quote that was  *)
(* or may have been charged is neither removed nor marked removed, although  *)
(* cleanup calls the report service before its transaction commits.          *)
ChargedEvidenceKept ==
  \A x \in Attempts : attempts[x] \in Submitted =>
    files[quote_id[x]] # "REMOVED" /\ artifacts[quote_id[x]] # "DELETED"

(* An entitlement rests on a transfer that was final in the recorded block,  *)
(* that carries the attempt's own authorization, and that pays no other      *)
(* attempt.                                                                  *)
EntitledByOwnTransfer ==
  \A q \in Quotes : entitlements[q] # NULL =>
    LET x == entitlements[q]
        t == chain_events[x]
    IN /\ quote_id[x] = q /\ attempts[x] \in {"CONFIRMED", "MANUAL_REVIEW"}
       /\ t # NULL /\ tx_hash[x] = t
       /\ SameAuthorization(x, t)
       /\ receipts[x] \in 1 .. inclusions[t]
       /\ \A y \in Attempts : chain_events[y] = t => y = x

(* The budget of a grant bounds the settle calls, not only the reservations: *)
(* one for a v1 grant; max_submissions, one per payer, for a v2 grant.       *)
GrantBudget ==
  LET called == {x \in Attempts : settle_calls[x] > 0} IN
  /\ Mode = "v1" => Cardinality(called) <= 1
  /\ Mode = "v2" => /\ Cardinality(called) <= MaxSubmissions
                    /\ \A x, y \in called : payer[x] = payer[y] => x = y

(* A transaction hash, once associated with an attempt, is never lost or     *)
(* replaced, not by a worker that read the row before the hash was stored.   *)
TransactionKept ==
  [][\A x \in Attempts : tx_hash[x] # NULL => tx_hash'[x] = tx_hash[x]]_vars

(* One payment, one report: whoever was given a report had its authorization *)
(* handed to the facilitator, once, and transferred; no other report was     *)
(* given for it; and the sale is paid or under review from then on,          *)
(* whatever other readers, recoveries, workers and the chain do.             *)
DeliveredWasBought ==
  \A q \in deliveries :
    LET x == entitlements[q] IN
    /\ x # NULL /\ quotes[q] \in {"PAID", "MANUAL_REVIEW"}
    /\ settle_calls[x] = 1 /\ inclusions[x] > 0
    /\ \A r \in deliveries : SameAuthorization(x, entitlements[r]) => r = q

(* Every attempt the ledger accepted is decided: the workers see to it with  *)
(* no help from the buyer, the handler or the chain.                         *)
AttemptsResolve ==
  \A x \in Attempts : attempts[x] \in {"VERIFIED", "SUBMITTING", "UNKNOWN"}
                      ~> attempts[x] \in {"REJECTED", "CONFIRMED", "MANUAL_REVIEW"}

(* The evidence of a quote that nobody submitted a payment for is removed    *)
(* after it expired, also if its last attempt was abandoned by its handler.  *)
UnsoldEvidenceRemoved ==
  \A q \in Quotes :
    /\ age[q] = 2
    /\ \A x \in Attempts : quote_id[x] = q => attempts[x] \notin Submitted
    ~> artifacts[q] = "DELETED"

-----------------------------------------------------------------------------
(* Refinement *)

saleOf(q) ==
  CASE quotes[q] = "READY" -> "open"
    [] quotes[q] = "EXPIRED" -> "closed"
    [] quotes[q] = "PAID" -> "paid"
    [] quotes[q] = "PAYMENT_UNCERTAIN" -> "committed"
    [] quotes[q] = "PAYMENT_PENDING" ->
         IF \E x \in Attempts : quote_id[x] = q /\ attempts[x] = "SUBMITTING"
         THEN "committed" ELSE "open"
    [] quotes[q] = "MANUAL_REVIEW" ->
         IF entitlements[q] = NULL THEN "disputed" ELSE "withdrawn"

sale == INSTANCE Sale WITH
  sale <- [q \in Quotes |-> saleOf(q)],
  spent <- {authorization[x] : x \in {y \in Attempts : attempts[y] \in Submitted}},
  settled <- {authorization[x] : x \in {y \in Attempts : settle_calls[y] > 0}}

(* The gateway implements Sale.                                              *)
ImplementsSale == sale!Spec

-----------------------------------------------------------------------------
(* Statements of the repository that the code does not keep *)

(* "Confirmed entitlement allows repeated delivery": while the recorded      *)
(* transfer stands in its block, looking it up can succeed.                  *)
PaidIsDeliverable ==
  \A q \in Quotes :
    LET x == entitlements[q] IN
    quotes[q] = "PAID" /\ chain[chain_events[x]] = "FINAL"
                       /\ inclusions[chain_events[x]] = receipts[x]
    => "FINAL" \in revalidate(x)

(* "A temporarily incomplete RPC observation is not evidence of a reorg.     *)
(* Keep the durable PAID entitlement": a quote stops being PAID only when    *)
(* the recorded transfer does not stand in its block.                        *)
PaidUntilReorg ==
  [][\A q \in Quotes :
       LET x == entitlements[q] IN
       quotes[q] = "PAID" /\ quotes'[q] # "PAID"
       => ~(chain[chain_events[x]] = "FINAL"
            /\ inclusions[chain_events[x]] = receipts[x])]_vars
=============================================================================
