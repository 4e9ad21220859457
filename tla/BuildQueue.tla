----------------------------- MODULE BuildQueue -----------------------------
(* The table report_requests as the build queue: what Gateway.create inserts *)
(* and answers, and the transactions claimBuild, publish and rejectBuild of  *)
(* postgres.ts.  A request is named by its idempotency key (within a scope)  *)
(* and its report by the request.                                            *)
EXTENDS Naturals, Sequences, FiniteSets

CONSTANTS
  Keys,       \* idempotency keys of a scope, one per report_requests row
  Bodies,     \* canonical request bodies
  Calls,      \* calls of POST /v1/report-quotes
  key,        \* the idempotency key of a call
  sent,       \* the body of a call
  MaxActive,  \* live leases claimBuild allows (4 in the code)
  RateLimit,  \* requests a scope creates in a minute (5 in the code)
  NULL        \* no body, no report

ASSUME QueueAssumption ==
  /\ key \in [Calls -> Keys] /\ sent \in [Calls -> Bodies]
  /\ NULL \notin Keys \cup Bodies
  /\ MaxActive \in Nat \ {0} /\ RateLimit \in Nat \ {0}

VARIABLES
  state,      \* report_requests.state, or "NONE" without a row
  body,       \* report_requests.body_hash
  lease,      \* lease_until: NULL, in the future or in the past
  created,    \* the rows in the order of created_at
  hits,       \* the scope's rate bucket of the current minute
  call,       \* how far Gateway.create is with a call
  answer      \* what the caller was told

queueVars == << state, body, lease, created, hits, call, answer >>
callVars == << call, answer >>

Decided == {"READY", "REJECTED", "BUILD_FAILED"}
RequestStates == Decided \cup {"NONE", "PREPARING"}
Refusals == {"PAYMENT_NOT_READY", "RATE_LIMITED", "IDEMPOTENCY_CONFLICT"}

QueueTypeOK ==
  /\ state \in [Keys -> RequestStates]
  /\ body \in [Keys -> Bodies \cup {NULL}]
  /\ lease \in [Keys -> {"NONE", "LIVE", "LAPSED"}]
  /\ created \in Seq(Keys)
  /\ hits \in 0 .. RateLimit
  /\ call \in [Calls -> {"lookup", "create", "answered"}]
  /\ answer \in [Calls -> RequestStates \cup Refusals]

QueueInit ==
  /\ state = [k \in Keys |-> "NONE"] /\ body = [k \in Keys |-> NULL]
  /\ lease = [k \in Keys |-> "NONE"] /\ created = << >>
  /\ hits = 0
  /\ call = [c \in Calls |-> "lookup"] /\ answer = [c \in Calls |-> "NONE"]

Answered(c, a) == /\ call' = [call EXCEPT ![c] = "answered"]
                  /\ answer' = [answer EXCEPT ![c] = a]

-----------------------------------------------------------------------------
(* Gateway.create: readiness, which comes and goes with the payment side, is *)
(* checked only for a key that has no row yet.                               *)
Lookup(c) ==
  /\ call[c] = "lookup"
  /\ \/ state[key[c]] = "NONE" /\ Answered(c, "PAYMENT_NOT_READY")
     \/ call' = [call EXCEPT ![c] = "create"] /\ UNCHANGED answer
  /\ UNCHANGED << state, body, lease, created, hits >>

Mut_BudgetSpent == hits > RateLimit
BudgetSpent == hits = RateLimit

(* The transaction of createRequest, ON CONFLICT DO NOTHING: the inserted    *)
(* row is rolled back with its hit when the minute's budget is spent.        *)
Insert(c) ==
  /\ state[key[c]] = "NONE"
  /\ IF BudgetSpent
     THEN Answered(c, "RATE_LIMITED") /\ UNCHANGED << state, body, created, hits >>
     ELSE /\ state' = [state EXCEPT ![key[c]] = "PREPARING"]
          /\ body' = [body EXCEPT ![key[c]] = sent[c]]
          /\ created' = Append(created, key[c])
          /\ hits' = hits + 1
          /\ Answered(c, "PREPARING")

SameBody(c) == body[key[c]] = sent[c]

(* An existing row answers for itself, if it was made from the same body.    *)
Replay(c) ==
  /\ state[key[c]] # "NONE"
  /\ Answered(c, IF SameBody(c) THEN state[key[c]] ELSE "IDEMPOTENCY_CONFLICT")
  /\ UNCHANGED << state, body, created, hits >>

CreateRequest(c) ==
  /\ call[c] = "create"
  /\ Insert(c) \/ Replay(c)
  /\ UNCHANGED << lease >>

(* GET /v1/report-requests/{id} by a caller whose report was in preparation. *)
Poll(c) ==
  /\ answer[c] = "PREPARING" /\ state[key[c]] # "PREPARING"
  /\ Answered(c, state[key[c]])
  /\ UNCHANGED << state, body, lease, created, hits >>

-----------------------------------------------------------------------------
(* claimBuild.  The advisory lock makes it one step over all replicas.       *)

Mut_Lapsed == {}
Lapsed == {k \in Keys : state[k] = "PREPARING" /\ lease[k] = "LAPSED"}

Waiting == {k \in Keys : state[k] = "PREPARING" /\ lease[k] = "NONE"}

Mut_SlotFree == Cardinality({k \in Keys : state[k] = "PREPARING" /\ lease[k] = "LIVE"}) <= MaxActive
SlotFree == Cardinality({k \in Keys : state[k] = "PREPARING" /\ lease[k] = "LIVE"}) < MaxActive

(* FOR UPDATE SKIP LOCKED: a row that a replayed createRequest holds may be  *)
(* passed over, otherwise the oldest row is taken.                           *)
BeingRead(k) == \E c \in Calls : key[c] = k /\ call[c] = "create"
Claimable(k) ==
  /\ k \in Waiting
  /\ \E i \in 1 .. Len(created) :
       /\ created[i] = k
       /\ \A j \in 1 .. i - 1 : created[j] \in Waiting => BeingRead(created[j])

(* What the transaction does to every row: the lapsed ones have failed, and  *)
(* k, if one was claimed, has a lease of 20 seconds.                         *)
Mut_AfterClaim(k) ==
  /\ lease' = [x \in Keys |-> IF x = k THEN "LIVE" ELSE IF x \in Lapsed THEN "NONE" ELSE lease[x]]
  /\ UNCHANGED << state, body, created, hits, callVars >>
AfterClaim(k) ==
  /\ state' = [x \in Keys |-> IF x \in Lapsed THEN "BUILD_FAILED" ELSE state[x]]
  /\ lease' = [x \in Keys |-> IF x = k THEN "LIVE" ELSE IF x \in Lapsed THEN "NONE" ELSE lease[x]]
  /\ UNCHANGED << body, created, hits, callVars >>

claimBuild(k) == SlotFree /\ Claimable(k) /\ AfterClaim(k)

claimNone == /\ Lapsed # {}
             /\ ~SlotFree \/ \A k \in Waiting : BeingRead(k)
             /\ AfterClaim(NULL)

(* The row is read FOR UPDATE, so a build that failed meanwhile is seen.     *)
(* The artifact and the quote are inserted with the change to READY.         *)
Mut_MayPublish(k) == TRUE
MayPublish(k) == state[k] = "PREPARING"

publish(k) ==
  /\ MayPublish(k)
  /\ state' = [state EXCEPT ![k] = "READY"]
  /\ lease' = [lease EXCEPT ![k] = "NONE"]
  /\ UNCHANGED << body, created, hits, callVars >>

rejectBuild(k, final) ==
  /\ IF state[k] = "PREPARING"
     THEN /\ state' = [state EXCEPT ![k] = final]
          /\ lease' = [lease EXCEPT ![k] = "NONE"]
     ELSE UNCHANGED << state, lease >>
  /\ UNCHANGED << body, created, hits, callVars >>

-----------------------------------------------------------------------------
(* Time *)

LeaseLapses(k) ==
  /\ state[k] = "PREPARING" /\ lease[k] = "LIVE"
  /\ lease' = [lease EXCEPT ![k] = "LAPSED"]
  /\ UNCHANGED << state, body, created, hits, callVars >>

NewMinute == /\ hits > 0 /\ hits' = 0
             /\ UNCHANGED << state, body, lease, created, callVars >>
=============================================================================
