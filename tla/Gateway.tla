------------------------------ MODULE Gateway -------------------------------
(* The gateway's payment handlers and workers over the ledger and the chain. *)
(* A process is one running call of Gateway.read, Gateway.recover or         *)
(* reconcileOne, in any gateway replica.  Its steps are the database         *)
(* transactions and the external calls it awaits; between two of them every  *)
(* other process, the chain and the clock may move, and the process may die  *)
(* (crash, lost connection, exception), which loses its local variables and  *)
(* nothing else.                                                             *)
EXTENDS Chain

CONSTANTS
  Handlers,        \* processes that serve HTTP requests
  Workers,         \* processes that run the reconciliation worker
  ReconcileLimit   \* reconciliations before manual review; 10 in the code

ASSUME GatewayAssumption == ReconcileLimit \in Nat \ {0}

VARIABLES
  pc,              \* where a process is
  kind,            \* which call it runs
  att,             \* the attempt it works on
  tx,              \* the transaction hash it holds
  blk,             \* the block of the transfer it observed
  reconciliation_count,  \* payment_attempts.reconciliation_count, up to the limit
  files,           \* the artifact's files on the evidence volume
  retention        \* the next part of the retention worker's pass

Procs == Handlers \cup Workers
locals == << pc, kind, att, tx, blk >>
vars == << tables, clock, chainVars, locals, reconciliation_count, files, retention >>

Labels == {"idle", "verified", "begun", "readback", "settle", "settling", "unknown", "observe",
           "catch", "catchReview", "commit", "persist", "review", "entitled", "revalidate",
           "deliver", "record"}
Kinds == {"read", "recover", "reconcile", "lastReconcile"}

TypeOK ==
  /\ LedgerTypeOK /\ ChainTypeOK
  /\ pc \in [Procs -> Labels]
  /\ kind \in [Procs -> Kinds]
  /\ att \in [Procs -> Attempts \cup {NULL}]
  /\ tx \in [Procs -> Attempts \cup {NULL}]
  /\ blk \in [Procs -> Nat]
  /\ reconciliation_count \in [Attempts -> 0 .. ReconcileLimit]
  /\ files \in [Quotes -> {"INTACT", "DAMAGED", "REMOVED"}]
  /\ retention \in {"cleanup", "sweep"}

Init ==
  /\ LedgerInit /\ ChainInit
  /\ pc = [p \in Procs |-> "idle"]
  /\ kind = [p \in Procs |-> "read"]
  /\ att = [p \in Procs |-> NULL]
  /\ tx = [p \in Procs |-> NULL]
  /\ blk = [p \in Procs |-> 0]
  /\ reconciliation_count = [x \in Attempts |-> 0]
  /\ files = [q \in Quotes |-> "INTACT"]
  /\ retention = "cleanup"

-----------------------------------------------------------------------------
(* Control of a process *)

Goto(p, l) == pc' = [pc EXCEPT ![p] = l] /\ UNCHANGED << kind, att, tx, blk >>

Start(p, k, l, x, t) ==
  /\ pc[p] = "idle"
  /\ pc' = [pc EXCEPT ![p] = l]
  /\ kind' = [kind EXCEPT ![p] = k]
  /\ att' = [att EXCEPT ![p] = x]
  /\ tx' = [tx EXCEPT ![p] = t]
  /\ UNCHANGED blk

(* The call returns, throws or dies.                                         *)
Finish(p) ==
  /\ pc' = [pc EXCEPT ![p] = "idle"]
  /\ kind' = [kind EXCEPT ![p] = "read"]
  /\ att' = [att EXCEPT ![p] = NULL]
  /\ tx' = [tx EXCEPT ![p] = NULL]
  /\ blk' = [blk EXCEPT ![p] = 0]

GotoOrFinish(p, l) == IF l = "idle" THEN Finish(p) ELSE Goto(p, l)

OnlyLocals == UNCHANGED << tables, clock, chainVars, reconciliation_count, files, retention >>
OnlyTables == UNCHANGED << clock, chainVars, reconciliation_count, files, retention >>

-----------------------------------------------------------------------------
(* Gateway.read *)

(* A read of a READY quote whose deadline passed, and GET of such a quote.   *)
ReadExpired(q) ==
  /\ expire(q)
  /\ UNCHANGED << locals >> /\ OnlyTables

(* A read with a payment signature: blockers, artifact readback and verify   *)
(* have all passed after the quote was loaded.  None of them can fail once   *)
(* and pass later, so all of them held when it was loaded.                   *)
ReadPayment(p, x) ==
  /\ quotes[quote_id[x]] = "READY" /\ age[quote_id[x]] = 0
  /\ SalesOpen /\ files[quote_id[x]] = "INTACT"
  /\ valid[authorization[x]]
  /\ Start(p, "read", "verified", x, NULL)
  /\ OnlyLocals

(* A read of a PAID quote goes straight to delivery.                         *)
ReadPaid(p, q) ==
  /\ quotes[q] = "PAID" /\ entitlements[q] # NULL
  /\ Start(p, "read", "entitled", entitlements[q], NULL)
  /\ OnlyLocals

BeginAttempt(p) ==
  /\ pc[p] = "verified"
  /\ IF MayBegin(att[p]) THEN beginAttempt(att[p]) /\ Goto(p, "begun")
                         ELSE UNCHANGED tables /\ Finish(p)
  /\ OnlyTables

(* The artifacts are read back once more; a failure leaves the attempt       *)
(* VERIFIED for recoverUnsubmitted.                                          *)
ReadBack(p) ==
  /\ pc[p] = "begun"
  /\ IF files[quote_id[att[p]]] = "INTACT" THEN Goto(p, "readback") ELSE Finish(p)
  /\ OnlyLocals

MarkSubmitting(p) ==
  /\ pc[p] = "readback"
  /\ LET x == att[p] IN
       \/ submitAccepted(x) /\ Goto(p, "settle")
       \/ (submitExpired(x) \/ submitRefused(x)) /\ Finish(p)
       \/ ~SubmitsFrom(x) /\ UNCHANGED tables /\ Finish(p)
  /\ OnlyTables

(* The only place of the program that calls settle.                          *)
Settle(p) ==
  /\ pc[p] = "settle"
  /\ settle_calls' = [settle_calls EXCEPT ![att[p]] = @ + 1]
  /\ Goto(p, "settling")
  /\ UNCHANGED << tables, clock, chain, inclusions, lateFor, reconciliation_count, files,
                  retention >>

(* The facilitator names a transaction it broadcast, names none, or fails.   *)
SettleReturns(p) ==
  /\ pc[p] = "settling"
  /\ \/ \E t \in {NULL} \cup {y \in Attempts : y = att[p] /\ chain[y] # "NONE"} :
          /\ tx' = [tx EXCEPT ![p] = t]
          /\ pc' = [pc EXCEPT ![p] = "unknown"]
          /\ UNCHANGED << kind, att, blk >>
     \/ Goto(p, "catch")
  /\ OnlyLocals

-----------------------------------------------------------------------------
(* Steps that read, recover and reconcileOne share *)

(* ledger.unknown before the receipt is looked up, in the catch block, and   *)
(* in recover after it was.                                                  *)
Unknown(p) ==
  /\ pc[p] \in {"unknown", "catch", "catchReview", "persist"}
  /\ unknown(att[p], tx[p])
  /\ CASE pc[p] = "unknown" -> Goto(p, "observe")
       [] pc[p] = "catch" -> Finish(p)
       [] pc[p] = "catchReview" -> Goto(p, "review")
       [] pc[p] = "persist" -> Goto(p, "commit")
  /\ OnlyTables

(* Where a call goes when it could not confirm, and when it must review.     *)
Mut_AfterFailure(k) == CASE k = "read" -> "settle" [] OTHER -> "idle"

AfterFailure(k) == CASE k = "read" -> "catch"
                     [] k = "lastReconcile" -> "review"
                     [] OTHER -> "idle"

AfterReview(k) == IF k = "read" THEN "catchReview" ELSE "review"

(* payment.confirm: one look at the chain.                                   *)
Observe(p) ==
  /\ pc[p] = "observe"
  /\ \E seen \in confirmation(att[p], tx[p], kind[p] = "recover") :
       \/ /\ seen = "FINAL"
          /\ pc' = [pc EXCEPT ![p] = IF kind[p] = "recover" THEN "persist" ELSE "commit"]
          /\ blk' = [blk EXCEPT ![p] = inclusions[tx[p]]]
          /\ UNCHANGED << kind, att, tx >>
       \/ seen = "NONE" /\ GotoOrFinish(p, AfterFailure(kind[p]))
       \/ seen = "MANUAL_REVIEW" /\ Goto(p, AfterReview(kind[p]))
  /\ OnlyLocals

(* ledger.confirm.  A CONFIRMED attempt counts as success, a rolled back     *)
(* transaction is an exception.                                              *)
Commit(p) ==
  /\ pc[p] = "commit"
  /\ LET x == att[p]
         confirmed == IF kind[p] \in {"read", "recover"} THEN "entitled" ELSE "idle"
     IN \/ confirm(x, tx[p], blk[p]) /\ GotoOrFinish(p, confirmed)
        \/ attempts[x] = "CONFIRMED" /\ UNCHANGED tables /\ GotoOrFinish(p, confirmed)
        \/ /\ ~MayConfirm(x, tx[p]) /\ attempts[x] # "CONFIRMED"
           /\ UNCHANGED tables /\ GotoOrFinish(p, AfterFailure(kind[p]))
  /\ OnlyTables

Review(p) ==
  /\ pc[p] = "review"
  /\ manualReview(att[p]) /\ Finish(p)
  /\ OnlyTables

-----------------------------------------------------------------------------
(* Delivery, the second half of Gateway.read *)

LoadEntitlement(p) ==
  /\ pc[p] = "entitled"
  /\ LET q == quote_id[att[p]] IN
       IF quotes[q] = "PAID" /\ entitlements[q] # NULL /\ retained[q]
          /\ attempts[entitlements[q]] = "CONFIRMED"
       THEN /\ pc' = [pc EXCEPT ![p] = "revalidate"]
            /\ att' = [att EXCEPT ![p] = entitlements[q]]
            /\ UNCHANGED << kind, tx, blk >>
       ELSE Finish(p)
  /\ OnlyLocals

Revalidate(p) ==
  /\ pc[p] = "revalidate"
  /\ \E seen \in revalidate(att[p]) :
       \/ seen = "FINAL" /\ Goto(p, "deliver")
       \/ seen \in {"CHANGED", "MANUAL_REVIEW"} /\ Goto(p, "review")
       \/ seen = "NONE" /\ Finish(p)
  /\ OnlyLocals

(* The bytes are read; evidence that cannot be read is marked.               *)
ReadArtifact(p) ==
  /\ pc[p] = "deliver"
  /\ LET q == quote_id[att[p]] IN
       \/ files[q] = "INTACT" /\ Goto(p, "record") /\ UNCHANGED tables
       \/ files[q] # "INTACT" /\ markRecovery(q) /\ Finish(p)
  /\ OnlyTables

(* The bytes are answered once their delivery is recorded.                   *)
Deliver(p) ==
  /\ pc[p] = "record"
  /\ LET q == quote_id[att[p]] IN
       \/ recordDelivery(q)
       \/ ~Deliverable(q) /\ UNCHANGED tables
  /\ Finish(p)
  /\ OnlyTables

-----------------------------------------------------------------------------
(* Gateway.recover: the buyer names a transaction and its block.             *)
Recover(p, x, t) ==
  /\ quotes[quote_id[x]] \in {"PAYMENT_PENDING", "PAYMENT_UNCERTAIN", "EXPIRED"}
  /\ attempts[x] \in {"SUBMITTING", "UNKNOWN"}
  /\ tx_hash[x] \in {NULL, t}
  /\ Start(p, "recover", "observe", x, t)
  /\ OnlyLocals

(* reconcileOne leases an unsettled attempt.  Its snapshot of the row, count *)
(* and hash, is what the rest of the call uses; the lease only delays the    *)
(* next one, so two calls may work on the same attempt.                      *)
Mut_Reconcilable(x) == attempts[x] = "UNKNOWN"

Reconcilable(x) == attempts[x] \in {"SUBMITTING", "UNKNOWN"}

ReconcileOne(p, x) ==
  /\ Reconcilable(x)
  /\ LET count == reconciliation_count[x] + 1 IN
       /\ reconciliation_count' = [reconciliation_count EXCEPT ![x] =
                                     IF count < ReconcileLimit THEN count ELSE ReconcileLimit]
       /\ Start(p, IF count >= ReconcileLimit THEN "lastReconcile" ELSE "reconcile",
                "unknown", x, tx_hash[x])
  /\ UNCHANGED << tables, clock, chainVars, files, retention >>

-----------------------------------------------------------------------------
(* Workers that run in one transaction, and the environment *)

RecoverUnsubmitted ==
  /\ \E S \in SUBSET Attempts : recoverUnsubmitted(S)
  /\ UNCHANGED locals /\ OnlyTables

(* retainAndRecover: cleanup asks the report service, one artifact after the *)
(* other, to delete files while the rows are locked.  Its answer may be      *)
(* unusable although the files are gone; an exception rolls the rows back    *)
(* and ends the pass before the sweep.  The report service never recovers an *)
(* artifact, so that part of the pass changes nothing.                       *)
CleanupOf(S) ==
  /\ retention = "cleanup"
  /\ \A q \in S : Removable(q)
  /\ files' = [q \in Quotes |-> IF q \in S THEN "REMOVED" ELSE files[q]]
  /\ \/ \E D \in SUBSET S : removeArtifacts(D) /\ retention' = "sweep"
     \/ UNCHANGED << tables, retention >>
  /\ UNCHANGED << locals, clock, chainVars, reconciliation_count >>

RetentionCleanup == \E S \in SUBSET Quotes : CleanupOf(S)

(* Every selected artifact is deleted and the transaction commits.           *)
CleanupSucceeds(q) == RetentionCleanup /\ Removable(q) /\ artifacts'[q] = "DELETED"

RetentionSweep ==
  /\ retention = "sweep" /\ retention' = "cleanup"
  /\ sweepExpired
  /\ UNCHANGED << locals, clock, chainVars, reconciliation_count, files >>

(* A process dies.  Its database work is in transactions, so nothing is half *)
(* done; what it knew is lost.                                               *)
Crash(p) == pc[p] # "idle" /\ Finish(p) /\ OnlyLocals

Damage(q) ==
  /\ files[q] = "INTACT"
  /\ files' = [files EXCEPT ![q] = "DAMAGED"]
  /\ UNCHANGED << tables, clock, chainVars, locals, reconciliation_count, retention >>

-----------------------------------------------------------------------------
Step(p) == \/ BeginAttempt(p) \/ ReadBack(p) \/ MarkSubmitting(p)
           \/ Settle(p) \/ SettleReturns(p)
           \/ Unknown(p) \/ Observe(p) \/ Commit(p) \/ Review(p)
           \/ LoadEntitlement(p) \/ Revalidate(p) \/ ReadArtifact(p) \/ Deliver(p)

Request(p) == \/ \E x \in Attempts : ReadPayment(p, x)
              \/ \E q \in Quotes : ReadPaid(p, q)
              \/ \E x, t \in Attempts : Recover(p, x, t)

Environment ==
  \/ Time /\ UNCHANGED << locals, chainVars, reconciliation_count, files, retention >>
  \/ ChainStep /\ UNCHANGED << locals, tables, clock, reconciliation_count, files, retention >>
  \/ \E q \in Quotes : Damage(q)

Next == \/ \E p \in Handlers : Request(p)
        \/ \E p \in Workers : \E x \in Attempts : ReconcileOne(p, x)
        \/ \E p \in Procs : Step(p) \/ Crash(p)
        \/ \E q \in Quotes : ReadExpired(q)
        \/ RecoverUnsubmitted \/ RetentionCleanup \/ RetentionSweep
        \/ Environment

Spec == Init /\ [][Next]_vars

(* The scheduler keeps calling its workers, and reconcileOne takes the       *)
(* attempt that waited longest, so no attempt is passed over for ever.       *)
(* External calls have timeouts.  Crashes may go on for ever but do not hit  *)
(* the same step each time, and the report service does not refuse the same  *)
(* deletion for ever.  Nothing is assumed of buyers or of the chain.         *)
Fairness ==
  /\ \A x \in Attempts : SF_vars(\E p \in Workers : ReconcileOne(p, x))
  /\ \A p \in Workers : /\ SF_vars(Unknown(p)) /\ SF_vars(Observe(p))
                        /\ SF_vars(Commit(p)) /\ SF_vars(Review(p))
  /\ WF_vars(RecoverUnsubmitted)
  /\ SF_vars(RetentionCleanup /\ retention' = "sweep") /\ WF_vars(RetentionSweep)
  /\ \A q \in Quotes : SF_vars(CleanupSucceeds(q))

FairSpec == Spec /\ Fairness

=============================================================================
