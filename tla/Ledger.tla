------------------------------- MODULE Ledger -------------------------------
(* The payment ledger of the gateway: the PostgreSQL tables quotes,          *)
(* payment_attempts, chain_events, receipts, entitlements, artifacts,        *)
(* delivery_attempts and the live-grant tables, with the unique indexes and  *)
(* triggers of the migrations.  Every method of class Ledger is one database *)
(* transaction, so each is one atomic operator over the tables; who calls    *)
(* them, and in which order, is the business of module Gateway.              *)
(*                                                                           *)
(* A report has one artifact and one quote, so the three share a key.  Rows  *)
(* of payment_attempts are keyed by their authorization identity, a hash of  *)
(* the signed Permit2 authorization and of the quote it is presented for.    *)
EXTENDS Naturals, FiniteSets

CONSTANTS
  Quotes,          \* ids of published quotes
  Auths,           \* signed Permit2 authorizations; each has a nonce of its own
  Payers,          \* wallets
  Attempts,        \* authorization identities a handler can see
  quote_id,        \* the quote of an attempt
  authorization,   \* the signed authorization of an attempt
  payer,           \* the wallet that signed it
  NULL,            \* SQL NULL
  Mode,            \* how payments are authorized: merchant, or a v1 / v2 grant
  MaxSubmissions   \* max_submissions of the v2 grant

ASSUME LedgerAssumption ==
  /\ quote_id \in [Attempts -> Quotes]
  /\ authorization \in [Attempts -> Auths]
  /\ payer \in [Attempts -> Payers]
  /\ \A x, y \in Attempts : authorization[x] = authorization[y] => payer[x] = payer[y]
  /\ NULL \notin Attempts
  /\ Mode \in {"merchant", "v1", "v2"}
  /\ MaxSubmissions \in Nat

VARIABLES
  quotes,          \* quotes.state
  attempts,        \* payment_attempts.state, "NONE" while there is no row
  tx_hash,         \* payment_attempts.tx_hash
  chain_events,    \* the transaction whose transfer pays the attempt, or NULL
  receipts,        \* the block recorded for that transfer, 0 if none
  entitlements,    \* the attempt that paid the quote, or NULL
  reservations,    \* attempts in live_grant_consumptions / live_grant_reservations
  grantLive,       \* the configured grant is inside its validity window
  artifacts,       \* artifacts.storage_state
  deliveries,      \* quotes with a row in delivery_attempts
  age,             \* 0: now < expires_at; 1: expired; 2: expired over 15 minutes ago
  valid,           \* authorization_valid_until is in the future
  retained         \* the entitlement's retain_until is in the future

tables == << quotes, attempts, tx_hash, chain_events, receipts, entitlements,
             reservations, artifacts, deliveries >>
clock  == << age, valid, retained, grantLive >>

-----------------------------------------------------------------------------
(* Types *)

QuoteStates == {"READY", "PAYMENT_PENDING", "PAYMENT_UNCERTAIN", "PAID", "EXPIRED",
                "MANUAL_REVIEW"}
AttemptStates == {"NONE", "RECEIVED", "VERIFIED", "SUBMITTING", "CONFIRMED", "REJECTED",
                  "UNKNOWN", "MANUAL_REVIEW"}
StorageStates == {"AVAILABLE", "RECOVERY", "DELETED"}

LedgerTypeOK ==
  /\ quotes \in [Quotes -> QuoteStates]
  /\ attempts \in [Attempts -> AttemptStates]
  /\ tx_hash \in [Attempts -> Attempts \cup {NULL}]
  /\ chain_events \in [Attempts -> Attempts \cup {NULL}]
  /\ receipts \in [Attempts -> Nat]
  /\ entitlements \in [Quotes -> Attempts \cup {NULL}]
  /\ reservations \subseteq Attempts
  /\ grantLive \in BOOLEAN
  /\ artifacts \in [Quotes -> StorageStates]
  /\ deliveries \subseteq Quotes
  /\ age \in [Quotes -> 0 .. 2]
  /\ valid \in [Auths -> BOOLEAN]
  /\ retained \in [Quotes -> BOOLEAN]

(* publish() has inserted every artifact and quote; nobody has paid yet.     *)
LedgerInit ==
  /\ quotes = [q \in Quotes |-> "READY"]
  /\ attempts = [x \in Attempts |-> "NONE"]
  /\ tx_hash = [x \in Attempts |-> NULL]
  /\ chain_events = [x \in Attempts |-> NULL]
  /\ receipts = [x \in Attempts |-> 0]
  /\ entitlements = [q \in Quotes |-> NULL]
  /\ reservations = {}
  /\ grantLive = TRUE
  /\ artifacts = [q \in Quotes |-> "AVAILABLE"]
  /\ deliveries = {}
  /\ age = [q \in Quotes |-> 0]
  /\ valid = [a \in Auths |-> TRUE]
  /\ retained = [q \in Quotes |-> TRUE]

-----------------------------------------------------------------------------
(* What the schema enforces *)

(* The state machine of trigger enforce_state_transition on quotes.          *)
QuoteMoves ==
  ({"READY"} \X {"PAYMENT_PENDING", "EXPIRED"})
    \cup ({"PAYMENT_PENDING"} \X {"PAYMENT_UNCERTAIN", "PAID", "READY", "EXPIRED",
                                  "MANUAL_REVIEW"})
    \cup ({"PAYMENT_UNCERTAIN"} \X {"PAID", "MANUAL_REVIEW"})
    \cup {<< "PAID", "MANUAL_REVIEW" >>, << "MANUAL_REVIEW", "PAID" >>}

QuoteMayBecome(q, s) == quotes[q] = s \/ << quotes[q], s >> \in QuoteMoves

(* Attempts that crossed the durable submit boundary.                        *)
Submitted == {"SUBMITTING", "UNKNOWN", "CONFIRMED", "MANUAL_REVIEW"}

(* one_active_attempt and merchant_permit2_nonce are unique indexes, the     *)
(* authorization identity is UNIQUE.                                         *)
ActiveAttempt(q) == \E x \in Attempts : quote_id[x] = q
                                        /\ attempts[x] \notin {"NONE", "REJECTED"}
NonceSpent(x) == \E y \in Attempts : authorization[y] = authorization[x]
                                     /\ attempts[y] # "NONE"

Mut_MayInsert(x) == attempts[x] = "NONE" /\ ~ActiveAttempt(quote_id[x])

MayInsert(x) == /\ attempts[x] = "NONE"
                /\ ~ActiveAttempt(quote_id[x])
                /\ Mode = "merchant" => ~NonceSpent(x)

-----------------------------------------------------------------------------
(* Transactions of class Ledger *)

SetQuote(q, s) == quotes' = [quotes EXCEPT ![q] = s]
SetAttempt(x, s) == attempts' = [attempts EXCEPT ![x] = s]

expire(q) ==
  /\ quotes[q] = "READY" /\ age[q] > 0
  /\ SetQuote(q, "EXPIRED")
  /\ UNCHANGED << attempts, tx_hash, chain_events, receipts, entitlements, reservations,
                  artifacts, deliveries >>

(* The row is inserted RECEIVED and is VERIFIED when the transaction commits. *)
MayBegin(x) == quotes[quote_id[x]] = "READY" /\ age[quote_id[x]] = 0 /\ MayInsert(x)

beginAttempt(x) ==
  /\ MayBegin(x)
  /\ SetAttempt(x, "VERIFIED")
  /\ SetQuote(quote_id[x], "PAYMENT_PENDING")
  /\ UNCHANGED << tx_hash, chain_events, receipts, entitlements, reservations, artifacts,
                  deliveries >>

(* The settlement budget of the grant: a v1 grant is consumed once, a v2     *)
(* grant has max_submissions reservations, at most one of them per payer.    *)
Mut_MayReserve(x) == TRUE

MayReserve(x) ==
  CASE Mode = "merchant" -> TRUE
    [] Mode = "v1" -> reservations = {}
    [] Mode = "v2" -> /\ grantLive
                      /\ Cardinality(reservations) < MaxSubmissions
                      /\ \A y \in reservations : payer[y] # payer[x]

(* The four results of markSubmitting.  The row locks make the whole method  *)
(* one step; INVALID_STATE, and a transition the trigger forbids, change     *)
(* nothing.                                                                  *)
TooLate(x) == age[quote_id[x]] > 0 \/ ~valid[authorization[x]]

Mut_SubmitsFrom(x) == attempts[x] \in {"VERIFIED", "REJECTED"}

SubmitsFrom(x) ==
  /\ attempts[x] = "VERIFIED"
  /\ IF TooLate(x) THEN QuoteMayBecome(quote_id[x], "EXPIRED")
                   ELSE Mode = "merchant" => quotes[quote_id[x]] = "PAYMENT_PENDING"

submitExpired(x) ==
  /\ SubmitsFrom(x) /\ TooLate(x)
  /\ SetAttempt(x, "REJECTED")
  /\ SetQuote(quote_id[x], "EXPIRED")
  /\ UNCHANGED << tx_hash, chain_events, receipts, entitlements, reservations, artifacts,
                  deliveries >>

submitRefused(x) ==
  /\ SubmitsFrom(x) /\ ~TooLate(x) /\ ~MayReserve(x)
  /\ SetAttempt(x, "REJECTED")
  /\ IF quotes[quote_id[x]] = "PAYMENT_PENDING" THEN SetQuote(quote_id[x], "READY")
                                                ELSE UNCHANGED quotes
  /\ UNCHANGED << tx_hash, chain_events, receipts, entitlements, reservations, artifacts,
                  deliveries >>

submitAccepted(x) ==
  /\ SubmitsFrom(x) /\ ~TooLate(x) /\ MayReserve(x)
  /\ SetAttempt(x, "SUBMITTING")
  /\ reservations' = IF Mode = "merchant" THEN reservations ELSE reservations \cup {x}
  /\ UNCHANGED << quotes, tx_hash, chain_events, receipts, entitlements, artifacts,
                  deliveries >>

(* unknown: the outcome of a submitted attempt is open.  tx_hash is written  *)
(* through COALESCE, so an association once made is kept.                    *)
Mut_Coalesce(old, t) == t

Coalesce(old, t) == IF old = NULL THEN t ELSE old

unknown(x, t) ==
  /\ IF attempts[x] \in {"SUBMITTING", "UNKNOWN"}
     THEN /\ SetAttempt(x, "UNKNOWN")
          /\ tx_hash' = [tx_hash EXCEPT ![x] = Coalesce(@, t)]
     ELSE UNCHANGED << attempts, tx_hash >>
  /\ IF quotes[quote_id[x]] = "PAYMENT_PENDING"
     THEN SetQuote(quote_id[x], "PAYMENT_UNCERTAIN")
     ELSE UNCHANGED quotes
  /\ UNCHANGED << chain_events, receipts, entitlements, reservations, artifacts, deliveries >>

(* confirm: the primary and unique keys of chain_events, receipts and        *)
(* entitlements and the immutable tx_hash roll the transaction back.         *)
EventUnused(x, t) == /\ chain_events[x] = NULL
                     /\ \A y \in Attempts : chain_events[y] # t

MayConfirm(x, t) ==
  /\ attempts[x] \in {"SUBMITTING", "UNKNOWN", "MANUAL_REVIEW"}
  /\ EventUnused(x, t)
  /\ entitlements[quote_id[x]] = NULL
  /\ tx_hash[x] \in {NULL, t}
  /\ QuoteMayBecome(quote_id[x], "PAID")

confirm(x, t, block) ==
  /\ MayConfirm(x, t)
  /\ chain_events' = [chain_events EXCEPT ![x] = t]
  /\ receipts' = [receipts EXCEPT ![x] = block]
  /\ entitlements' = [entitlements EXCEPT ![quote_id[x]] = x]
  /\ SetAttempt(x, "CONFIRMED")
  /\ tx_hash' = [tx_hash EXCEPT ![x] = t]
  /\ SetQuote(quote_id[x], "PAID")
  /\ UNCHANGED << reservations, artifacts, deliveries >>

(* manualReview passes through UNKNOWN, so any submitted attempt ends there. *)
manualReview(x) ==
  /\ IF attempts[x] \in {"SUBMITTING", "UNKNOWN", "CONFIRMED"}
     THEN SetAttempt(x, "MANUAL_REVIEW")
     ELSE UNCHANGED attempts
  /\ IF quotes[quote_id[x]] \in {"PAYMENT_PENDING", "PAYMENT_UNCERTAIN", "PAID"}
     THEN SetQuote(quote_id[x], "MANUAL_REVIEW")
     ELSE UNCHANGED quotes
  /\ UNCHANGED << tx_hash, chain_events, receipts, entitlements, reservations, artifacts,
                  deliveries >>

Mut_Deliverable(q) == entitlements[q] # NULL /\ retained[q]

Deliverable(q) == /\ quotes[q] = "PAID"
                  /\ entitlements[q] # NULL /\ retained[q]
                  /\ attempts[entitlements[q]] = "CONFIRMED"

recordDelivery(q) ==
  /\ Deliverable(q)
  /\ deliveries' = deliveries \cup {q}
  /\ UNCHANGED << quotes, attempts, tx_hash, chain_events, receipts, entitlements,
                  reservations, artifacts >>

(* A paid artifact that cannot be read back is marked by the reading handler. *)
markRecovery(q) ==
  /\ artifacts' = [artifacts EXCEPT ![q] = "RECOVERY"]
  /\ UNCHANGED << quotes, attempts, tx_hash, chain_events, receipts, entitlements,
                  reservations, deliveries >>

(* salesHealthy and currentBlockers: may a READY quote be paid at all?       *)
SalesOpen ==
  /\ \A q \in Quotes : artifacts[q] # "RECOVERY"
  /\ CASE Mode = "merchant" -> TRUE
       [] Mode = "v1" -> grantLive /\ reservations = {}
       [] Mode = "v2" -> grantLive /\ Cardinality(reservations) < MaxSubmissions

-----------------------------------------------------------------------------
(* Transactions of the background workers *)

(* recoverUnsubmitted: one transaction over a batch S of attempts that were  *)
(* VERIFIED for over 60 seconds.  Handlers have no deadline of their own, so *)
(* any VERIFIED attempt may be that old, its handler still running.          *)
Mut_Unsubmitted(x) == attempts[x] \in {"RECEIVED", "VERIFIED", "SUBMITTING"}

Unsubmitted(x) == attempts[x] \in {"RECEIVED", "VERIFIED"}

Mut_Released(q) == "REJECTED"

Released(q) == IF age[q] > 0 THEN "EXPIRED" ELSE "READY"

recoverUnsubmitted(S) ==
  /\ S # {} /\ \A x \in S : Unsubmitted(x)
  /\ attempts' = [x \in Attempts |-> IF x \in S THEN "REJECTED" ELSE attempts[x]]
  /\ quotes' = [q \in Quotes |->
                  IF quotes[q] = "PAYMENT_PENDING" /\ \E x \in S : quote_id[x] = q
                  THEN Released(q) ELSE quotes[q]]
  /\ UNCHANGED << tx_hash, chain_events, receipts, entitlements, reservations, artifacts,
                  deliveries >>

(* The rows retainAndRecover selects for cleanup.                            *)
Mut_Removable(q) == quotes[q] # "PAID" /\ age[q] = 2 /\ artifacts[q] = "AVAILABLE"
Mut_RemovableUntouched(q) == /\ quotes[q] = "EXPIRED" /\ age[q] = 2
                             /\ artifacts[q] = "AVAILABLE"
                             /\ \A x \in Attempts : quote_id[x] = q => attempts[x] = "NONE"

Removable(q) == /\ quotes[q] = "EXPIRED" /\ age[q] = 2 /\ artifacts[q] = "AVAILABLE"
                /\ ~ActiveAttempt(q)
                /\ entitlements[q] = NULL

removeArtifacts(S) ==
  /\ artifacts' = [q \in Quotes |-> IF q \in S THEN "DELETED" ELSE artifacts[q]]
  /\ UNCHANGED << quotes, attempts, tx_hash, chain_events, receipts, entitlements,
                  reservations, deliveries >>

sweepExpired ==
  /\ quotes' = [q \in Quotes |-> IF quotes[q] = "READY" /\ age[q] > 0 THEN "EXPIRED"
                                                                      ELSE quotes[q]]
  /\ UNCHANGED << attempts, tx_hash, chain_events, receipts, entitlements, reservations,
                  artifacts, deliveries >>

-----------------------------------------------------------------------------
(* Time passes *)

QuoteAges(q) ==
  /\ age[q] < 2
  /\ age' = [age EXCEPT ![q] = @ + 1]
  /\ UNCHANGED << tables, valid, retained, grantLive >>

(* The authorization deadline is independent of the quote's: at most 600 s   *)
(* away, while the quote lives 120 s.                                        *)
AuthorizationLapses(a) ==
  /\ valid[a]
  /\ valid' = [valid EXCEPT ![a] = FALSE]
  /\ UNCHANGED << tables, age, retained, grantLive >>

RetentionEnds(q) ==
  /\ retained[q] /\ entitlements[q] # NULL
  /\ retained' = [retained EXCEPT ![q] = FALSE]
  /\ UNCHANGED << tables, age, valid, grantLive >>

GrantExpires ==
  /\ Mode # "merchant" /\ grantLive
  /\ grantLive' = FALSE
  /\ UNCHANGED << tables, age, valid, retained >>

Time == \/ \E q \in Quotes : QuoteAges(q) \/ RetentionEnds(q)
        \/ \E a \in Auths : AuthorizationLapses(a)
        \/ GrantExpires
=============================================================================
