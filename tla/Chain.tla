------------------------------- MODULE Chain --------------------------------
(* The Mezo chain and the x402 facilitator as the gateway meets them, and    *)
(* what the gateway's receipt reader can conclude from the chain.            *)
(*                                                                           *)
(* The facilitator answers a settle call by broadcasting at most one         *)
(* transaction; the transaction settled for attempt x is named x.  It        *)
(* carries the signed authorization of x, not the quote: another attempt     *)
(* with the same authorization is bound by the same transfer.                *)
EXTENDS Ledger

CONSTANT MaxInclusions   \* bound: how often a transaction may become final

ASSUME ChainAssumption == MaxInclusions \in Nat

VARIABLES
  settle_calls,    \* settle calls made for an attempt
  chain,           \* the transaction settled for an attempt
  inclusions,      \* times it became final; its current block while it is final
  lateFor          \* quotes whose expires_at lies before that block's timestamp

chainVars == << settle_calls, chain, inclusions, lateFor >>

ChainTypeOK ==
  /\ settle_calls \in [Attempts -> Nat]
  /\ chain \in [Attempts -> {"NONE", "PENDING", "FINAL", "FAILED"}]
  /\ inclusions \in [Attempts -> Nat]
  /\ lateFor \in [Attempts -> SUBSET Quotes]

ChainInit ==
  /\ settle_calls = [x \in Attempts |-> 0]
  /\ chain = [x \in Attempts |-> "NONE"]
  /\ inclusions = [x \in Attempts |-> 0]
  /\ lateFor = [x \in Attempts |-> {}]

-----------------------------------------------------------------------------
(* The facilitator may broadcast long after its caller gave up waiting.      *)
Broadcast(x) ==
  /\ settle_calls[x] > 0 /\ chain[x] = "NONE"
  /\ chain' = [chain EXCEPT ![x] = "PENDING"]
  /\ UNCHANGED << settle_calls, inclusions, lateFor >>

(* Twelve confirmations.  Permit2 burns the nonce and enforces the deadline  *)
(* in the block's timestamp; it knows nothing of the quote's expiry.         *)
Finalize(x) ==
  /\ chain[x] = "PENDING" /\ inclusions[x] < MaxInclusions
  /\ valid[authorization[x]]
  /\ \A y \in Attempts : authorization[y] = authorization[x] => chain[y] # "FINAL"
  /\ chain' = [chain EXCEPT ![x] = "FINAL"]
  /\ inclusions' = [inclusions EXCEPT ![x] = @ + 1]
  /\ lateFor' = [lateFor EXCEPT ![x] = {q \in Quotes : age[q] > 0}]
  /\ UNCHANGED settle_calls

Revert(x) ==
  /\ chain[x] = "PENDING"
  /\ chain' = [chain EXCEPT ![x] = "FAILED"]
  /\ UNCHANGED << settle_calls, inclusions, lateFor >>

(* A reorganisation deeper than the finality rule takes the block away.      *)
Reorg(x) ==
  /\ chain[x] = "FINAL" /\ inclusions[x] < MaxInclusions
  /\ chain' = [chain EXCEPT ![x] = "PENDING"]
  /\ UNCHANGED << settle_calls, inclusions, lateFor >>

ChainStep == \E x \in Attempts : Broadcast(x) \/ Finalize(x) \/ Revert(x) \/ Reorg(x)

-----------------------------------------------------------------------------
(* MezoReceiptReader.confirmation: does transaction t prove that attempt x   *)
(* was paid?  `hinted` reads look the transaction up in a given block, and   *)
(* only those compare the block's timestamp with the expiry of the quote.    *)
Mut_bindsTransfer(x, t) == TRUE

bindsTransfer(x, t) == authorization[t] = authorization[x]

Confirmable(x, t, hinted) ==
  /\ t # NULL
  /\ chain[t] = "FINAL"
  /\ bindsTransfer(x, t)
  /\ hinted => quote_id[x] \notin lateFor[t]

(* A read may always end without a confirmation: no receipt yet, an RPC      *)
(* error, a timeout.  MANUAL_REVIEW answers a failed receipt, a block hash   *)
(* that changed between two calls, a native balance that moved, and also any *)
(* failure of the first call, eth_chainId.  Without a hash nothing is read.  *)
confirmation(x, t, hinted) ==
  {"NONE"} \cup (IF t = NULL THEN {} ELSE {"MANUAL_REVIEW"})
           \cup (IF Confirmable(x, t, hinted) THEN {"FINAL"} ELSE {})

(* OfficialX402.revalidate of the receipt of a confirmed attempt.            *)
revalidate(x) ==
  LET t == tx_hash[x]
      seen == confirmation(x, t, TRUE)
  IN  (seen \ {"FINAL"})
        \cup (IF "FINAL" \notin seen THEN {}
              ELSE IF inclusions[t] = receipts[x] THEN {"FINAL"} ELSE {"CHANGED"})
=============================================================================
