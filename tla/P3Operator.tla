----------------------------- MODULE P3Operator -----------------------------
(* One-shot payment operator: a process that spends a payment grant durably, *)
(* hands the signed payment to the facilitator at most once, and afterwards  *)
(* only looks for its confirmation.  There are two implementations of it:    *)
(* the compiled p3-operator.ts, which the runner starts as a child process,  *)
(* and p3_operator.py, the class the end-to-end tests use in its place.      *)
(* "impl" says which one a behaviour runs.                                   *)
EXTENDS LiveGrants

CONSTANTS Runs,            \* the callers, each with at most one operator alive
          MaxSubmissions   \* bound: size of the facilitator's and chain's memory

ASSUME SubmissionAssumption == MaxSubmissions \in Nat

VARIABLES impl,         \* "ts" or "py"
          migrated,     \* the database carries exactly the approved migrations
          attempt,      \* the durable row of the grant's only attempt
          submissions,  \* calls of the facilitator's settle
          transfer,     \* per submission: what the chain knows of it
          op            \* per caller: the operator process

opVars == << impl, migrated, attempt, submissions, transfer, op >>

States == {"NONE", "SUBMITTING", "UNKNOWN", "CONFIRMED"}
Txs == 0 .. MaxSubmissions             \* 0: no transaction hash
Row == [state : States, tx : Txs]
NoRow == [state |-> "NONE", tx |-> 0]
Places == {"idle", "open", "verify", "submit", "settle", "mark", "raised", "reconcile",
           "done"}
Outs == {"none", "UNKNOWN", "CONFIRMED", "failed"}

OpState == [at : Places, row : Row, out : Outs]

OperatorTypeOK ==
  /\ impl \in {"ts", "py"} /\ migrated \in BOOLEAN
  /\ attempt \in Row
  /\ submissions \in Nat
  /\ transfer \in [1 .. MaxSubmissions -> {"none", "sent", "deep"}]
  /\ op \in [Runs -> OpState]

Idle == [at |-> "idle", row |-> NoRow, out |-> "none"]

OperatorInit ==
  /\ impl \in {"ts", "py"} /\ migrated \in BOOLEAN
  /\ attempt = NoRow
  /\ submissions = 0
  /\ transfer = [n \in 1 .. MaxSubmissions |-> "none"]
  /\ op = [r \in Runs |-> Idle]

Moves(r, at, row) == op' = [op EXCEPT ![r] = [at |-> at, row |-> row, out |-> "none"]]
Ends(r, out, row) == op' = [op EXCEPT ![r] = [at |-> "done", row |-> row, out |-> out]]
Fails(r) == Ends(r, "failed", NoRow)
StoreUnchanged == UNCHANGED << impl, migrated, attempt, submissions, transfer >>

-----------------------------------------------------------------------------
(* The bundle and the payment are validated, then the migrations, and only   *)
(* then is the store asked for an earlier consumption.  The class insists on *)
(* an unexpired grant every time, the child process only for a new payment;  *)
(* the child process also insists on the checked out commit.                 *)
Validates(subject, head) ==
  /\ migrated
  /\ p3.bound /\ p3.subject = subject
  /\ impl = "py" => Expiry(p3, now)
  /\ impl = "ts" => head.clean /\ head.commit = subject

Open(r, subject, head) ==
  /\ op[r].at = "open"
  /\ IF ~ Validates(subject, head)
       THEN Fails(r)
       ELSE IF attempt.state # "NONE"
              THEN Moves(r, "reconcile", attempt)
              ELSE IF Expiry(p3, now) THEN Moves(r, "verify", NoRow) ELSE Fails(r)
  /\ StoreUnchanged

(* The snapshot or the verification of the payment fails, or the ledger      *)
(* refuses the attempt for a reason of its own: the quote is not READY, the  *)
(* authorization was used, or either expired before the submission.          *)
VerifyFails(r) == op[r].at \in {"verify", "submit"} /\ Fails(r) /\ StoreUnchanged

(* Ledger.beginAttempt, a transaction of the child process alone.  The       *)
(* VERIFIED row it inserts belongs to the payment, not to the grant, and no  *)
(* operator looks one up; all it does later is to refuse another attempt for *)
(* the same payment, which VerifyFails allows at any time.  A process killed *)
(* here stays at "submit": its row is there and the grant is not consumed.   *)
BeginAttempt(r) ==
  /\ op[r].at = "verify" /\ impl = "ts"
  /\ Moves(r, "submit", NoRow)
  /\ StoreUnchanged

Mut_MayConsume == attempt.state \in {"NONE", "SUBMITTING"}
MayConsume == attempt.state = "NONE"

(* One transaction inserts the consumption and moves the attempt to          *)
(* SUBMITTING; the class has no earlier one.  A loser ends (child) or        *)
(* follows the winner's row (class).                                         *)
Consume(r) ==
  /\ op[r].at = IF impl = "ts" THEN "submit" ELSE "verify"
  /\ IF MayConsume
       THEN /\ attempt' = [state |-> "SUBMITTING", tx |-> 0]
            /\ Moves(r, "settle", NoRow)
       ELSE /\ IF impl = "py" THEN Moves(r, "reconcile", attempt) ELSE Fails(r)
            /\ UNCHANGED attempt
  /\ UNCHANGED << impl, migrated, submissions, transfer >>

(* The facilitator takes the payment and answers with a hash or without one, *)
(* or the call raises; whatever the answer, the transfer may be on its way.  *)
Settle(r) ==
  /\ op[r].at = "settle"
  /\ submissions < MaxSubmissions
  /\ submissions' = submissions + 1
  /\ \/ transfer' = [transfer EXCEPT ![submissions + 1] = "sent"]
     \/ UNCHANGED transfer
  /\ \/ Moves(r, "mark", [state |-> "UNKNOWN", tx |-> submissions + 1])
     \/ Moves(r, "mark", [state |-> "UNKNOWN", tx |-> 0])
     \/ Moves(r, "raised", [state |-> "UNKNOWN", tx |-> 0])
  /\ UNCHANGED << impl, migrated, attempt >>

Stored(row) == [state |-> "UNKNOWN", tx |-> row.tx]

Mark(r) ==
  /\ op[r].at = "mark"
  /\ attempt' = Stored(op[r].row)
  /\ Moves(r, "reconcile", Stored(op[r].row))
  /\ UNCHANGED << impl, migrated, submissions, transfer >>

(* Only the child process records the attempt UNKNOWN before it gives up.    *)
MarkRaised(r) ==
  /\ op[r].at = "raised"
  /\ attempt' = IF impl = "ts" THEN Stored(op[r].row) ELSE attempt
  /\ Fails(r)
  /\ UNCHANGED << impl, migrated, submissions, transfer >>

Deep(tx) == tx # 0 /\ transfer[tx] = "deep"

(* Confirm-only: from a row read earlier, answer what is already confirmed,  *)
(* or confirm a transfer twelve blocks deep, or report the attempt pending.  *)
Reconcile(r) ==
  /\ op[r].at = "reconcile"
  /\ \/ /\ op[r].row.state = "CONFIRMED"
        /\ Ends(r, "CONFIRMED", op[r].row)
        /\ UNCHANGED attempt
     \/ /\ op[r].row.state # "CONFIRMED" /\ Deep(op[r].row.tx)
        /\ attempt' = [state |-> "CONFIRMED", tx |-> op[r].row.tx]
        /\ Ends(r, "CONFIRMED", [state |-> "CONFIRMED", tx |-> op[r].row.tx])
     \/ /\ op[r].row.state # "CONFIRMED" /\ ~ Deep(op[r].row.tx)
        /\ Ends(r, "UNKNOWN", op[r].row)
        /\ UNCHANGED attempt
     \/ /\ op[r].row.state # "CONFIRMED"   \* the node fails or contradicts
        /\ Fails(r)
        /\ UNCHANGED attempt
  /\ UNCHANGED << impl, migrated, submissions, transfer >>

(* The chain buries a transfer under enough blocks.                          *)
Deepen(n) ==
  /\ transfer[n] = "sent"
  /\ transfer' = [transfer EXCEPT ![n] = "deep"]
  /\ UNCHANGED << impl, migrated, attempt, submissions, op >>

OperatorStep(r, subject, head) ==
  \/ Open(r, subject, head) \/ VerifyFails(r) \/ BeginAttempt(r)
  \/ Consume(r) \/ Settle(r) \/ Mark(r) \/ MarkRaised(r) \/ Reconcile(r)

-----------------------------------------------------------------------------
(* Safety.                                                                   *)

(* P3Operator.execute: however many operator processes run for one grant,    *)
(* are killed or fail at any step, the facilitator is asked to settle once.  *)
OneSettlement == submissions <= 1
=============================================================================
