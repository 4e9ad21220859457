--------------------------- MODULE GatewayProofs ----------------------------
(* Machine-checked proofs about the payment gateway, for every set of        *)
(* quotes, authorizations and processes and in every grant mode.             *)
EXTENDS GatewaySale, TLAPS

-----------------------------------------------------------------------------
(* Types.  TypeOK is not inductive: a step indexes the tables with the       *)
(* attempt its process works on, so a process inside a call must have one.   *)

TablesOK ==
  /\ quotes \in [Quotes -> QuoteStates]
  /\ attempts \in [Attempts -> AttemptStates]
  /\ tx_hash \in [Attempts -> Attempts \cup {NULL}]
  /\ chain_events \in [Attempts -> Attempts \cup {NULL}]
  /\ receipts \in [Attempts -> Nat]
  /\ entitlements \in [Quotes -> Attempts \cup {NULL}]
  /\ reservations \subseteq Attempts
  /\ artifacts \in [Quotes -> StorageStates]
  /\ deliveries \subseteq Quotes

ClockOK ==
  /\ grantLive \in BOOLEAN
  /\ age \in [Quotes -> 0 .. 2]
  /\ valid \in [Auths -> BOOLEAN]
  /\ retained \in [Quotes -> BOOLEAN]

LocalsOK ==
  /\ pc \in [Procs -> Labels]
  /\ kind \in [Procs -> Kinds]
  /\ att \in [Procs -> Attempts \cup {NULL}]
  /\ tx \in [Procs -> Attempts \cup {NULL}]
  /\ blk \in [Procs -> Nat]
  /\ \A p \in Procs : pc[p] # "idle" => att[p] \in Attempts

RestOK ==
  /\ reconciliation_count \in [Attempts -> 0 .. ReconcileLimit]
  /\ files \in [Quotes -> {"INTACT", "DAMAGED", "REMOVED"}]
  /\ retention \in {"cleanup", "sweep"}

TInv == TablesOK /\ ClockOK /\ ChainTypeOK /\ LocalsOK /\ RestOK

LEMMA TInvTypeOK == TInv => TypeOK
BY DEF TInv, TypeOK, TablesOK, ClockOK, LocalsOK, RestOK, LedgerTypeOK

(* The moves of a process keep its locals typed.                             *)
LEMMA GotoTyped ==
  ASSUME LocalsOK, NEW p \in Procs, pc[p] # "idle", NEW l \in Labels, Goto(p, l)
  PROVE  LocalsOK'
BY DEF LocalsOK, Goto

LEMMA FinishTyped ==
  ASSUME LocalsOK, NEW p \in Procs, Finish(p)
  PROVE  LocalsOK'
BY DEF LocalsOK, Finish, Labels, Kinds

LEMMA StartTyped ==
  ASSUME LocalsOK, NEW p \in Procs, NEW k \in Kinds, NEW l \in Labels, NEW x \in Attempts,
         NEW t \in Attempts \cup {NULL}, Start(p, k, l, x, t)
  PROVE  LocalsOK'
BY DEF LocalsOK, Start

(* Every transaction of the ledger keeps the tables typed.                   *)
LEMMA SubmitTyped ==
  ASSUME TablesOK, NEW x \in Attempts,
         submitExpired(x) \/ submitRefused(x) \/ submitAccepted(x)
  PROVE  TablesOK'
BY LedgerAssumption
   DEF TablesOK, submitExpired, submitRefused, submitAccepted, SetQuote, SetAttempt,
       QuoteStates, AttemptStates

LEMMA BeginTyped ==
  ASSUME TablesOK, NEW x \in Attempts, beginAttempt(x)
  PROVE  TablesOK'
BY LedgerAssumption
   DEF TablesOK, beginAttempt, SetQuote, SetAttempt, QuoteStates, AttemptStates

LEMMA UnknownTyped ==
  ASSUME TablesOK, NEW x \in Attempts, NEW t \in Attempts \cup {NULL}, unknown(x, t)
  PROVE  TablesOK'
BY LedgerAssumption
   DEF TablesOK, unknown, Coalesce, SetQuote, SetAttempt, QuoteStates, AttemptStates

LEMMA ConfirmTyped ==
  ASSUME TablesOK, NEW x \in Attempts, NEW t \in Attempts \cup {NULL}, NEW b \in Nat,
         confirm(x, t, b)
  PROVE  TablesOK'
BY LedgerAssumption
   DEF TablesOK, confirm, SetQuote, SetAttempt, QuoteStates, AttemptStates

LEMMA ReviewTyped ==
  ASSUME TablesOK, NEW x \in Attempts, manualReview(x)
  PROVE  TablesOK'
BY LedgerAssumption
   DEF TablesOK, manualReview, SetQuote, SetAttempt, QuoteStates, AttemptStates

LEMMA WorkerTyped ==
  ASSUME TablesOK,
         \/ \E S \in SUBSET Attempts : recoverUnsubmitted(S)
         \/ \E S \in SUBSET Quotes : removeArtifacts(S)
         \/ sweepExpired
         \/ \E q \in Quotes : recordDelivery(q) \/ markRecovery(q) \/ expire(q)
  PROVE  TablesOK'
<1>1. CASE \E S \in SUBSET Attempts : recoverUnsubmitted(S)
  BY <1>1 DEF TablesOK, recoverUnsubmitted, Released, QuoteStates, AttemptStates
<1>2. CASE \E S \in SUBSET Quotes : removeArtifacts(S)
  BY <1>2 DEF TablesOK, removeArtifacts, StorageStates
<1>3. CASE sweepExpired
  BY <1>3 DEF TablesOK, sweepExpired, QuoteStates
<1>4. CASE \E q \in Quotes : recordDelivery(q) \/ markRecovery(q) \/ expire(q)
  BY <1>4 DEF TablesOK, recordDelivery, markRecovery, expire, SetQuote, QuoteStates,
              StorageStates
<1> QED BY <1>1, <1>2, <1>3, <1>4

(* One step of a process, action by action.                                  *)
LEMMA StepTyped ==
  ASSUME TInv, NEW p \in Procs, Step(p)
  PROVE  TInv'
<1> USE DEF TInv
<1>0. pc[p] # "idle" /\ att[p] \in Attempts /\ quote_id[att[p]] \in Quotes
  BY LedgerAssumption DEF Step, LocalsOK, BeginAttempt, ReadBack, MarkSubmitting, Settle,
     SettleReturns, Unknown, Observe, Commit, Review, LoadEntitlement, Revalidate, ReadArtifact,
     Deliver
<1>l. {"idle", "verified", "begun", "readback", "settle", "settling", "unknown", "observe",
       "catch", "catchReview", "commit", "persist", "review", "entitled", "revalidate",
       "deliver", "record"} \subseteq Labels
  BY DEF Labels
<1>f. \A l \in Labels : GotoOrFinish(p, l) => LocalsOK'
  BY <1>0, GotoTyped, FinishTyped DEF GotoOrFinish
<1>k. \A k \in Kinds : AfterFailure(k) \in Labels /\ AfterReview(k) \in Labels
  BY DEF Kinds, Labels, AfterFailure, AfterReview
<1>t. kind[p] \in Kinds /\ tx[p] \in Attempts \cup {NULL} /\ blk[p] \in Nat
  BY DEF LocalsOK
<1>1. CASE BeginAttempt(p)
  <2>1. TablesOK' BY <1>0, <1>1, BeginTyped DEF BeginAttempt, TablesOK, tables
  <2>2. LocalsOK' BY <1>0, <1>1, <1>l, GotoTyped, FinishTyped DEF BeginAttempt
  <2> QED BY <1>1, <2>1, <2>2 DEF BeginAttempt, OnlyTables, clock, chainVars, ClockOK,
             ChainTypeOK, RestOK
<1>2. CASE MarkSubmitting(p)
  <2>1. TablesOK' BY <1>0, <1>2, SubmitTyped DEF MarkSubmitting, TablesOK, tables
  <2>2. LocalsOK' BY <1>0, <1>2, <1>l, GotoTyped, FinishTyped DEF MarkSubmitting
  <2> QED BY <1>2, <2>1, <2>2 DEF MarkSubmitting, OnlyTables, clock, chainVars, ClockOK,
             ChainTypeOK, RestOK
<1>3. CASE Settle(p)
  <2>1. LocalsOK' BY <1>0, <1>3, <1>l, GotoTyped DEF Settle
  <2>2. settle_calls' \in [Attempts -> Nat] BY <1>0, <1>3 DEF Settle, ChainTypeOK
  <2>3. ChainTypeOK' BY <1>3, <2>2 DEF Settle, ChainTypeOK
  <2> QED BY <1>3, <2>1, <2>3 DEF Settle, tables, clock, TablesOK, ClockOK, RestOK
<1>4. CASE SettleReturns(p)
  <2>1. LocalsOK'
    <3>1. CASE Goto(p, "catch") BY <1>0, <1>l, <3>1, GotoTyped
    <3>2. CASE ~Goto(p, "catch") BY <1>0, <1>l, <1>4, <3>2 DEF SettleReturns, LocalsOK
    <3> QED BY <3>1, <3>2
  <2> QED BY <1>4, <2>1 DEF SettleReturns, OnlyLocals, tables, clock, chainVars, TablesOK,
             ClockOK, ChainTypeOK, RestOK
<1>5. CASE Unknown(p)
  <2>1. TablesOK' BY <1>0, <1>5, <1>t, UnknownTyped DEF Unknown
  <2>2. LocalsOK' BY <1>0, <1>5, <1>l, GotoTyped, FinishTyped DEF Unknown
  <2> QED BY <1>5, <2>1, <2>2 DEF Unknown, OnlyTables, clock, chainVars, ClockOK,
             ChainTypeOK, RestOK
<1>6. CASE Observe(p)
  <2>1. PICK seen \in confirmation(att[p], tx[p], kind[p] = "recover") :
          \/ /\ seen = "FINAL"
             /\ pc' = [pc EXCEPT ![p] = IF kind[p] = "recover" THEN "persist" ELSE "commit"]
             /\ blk' = [blk EXCEPT ![p] = inclusions[tx[p]]]
             /\ UNCHANGED << kind, att, tx >>
          \/ seen = "NONE" /\ GotoOrFinish(p, AfterFailure(kind[p]))
          \/ seen = "MANUAL_REVIEW" /\ Goto(p, AfterReview(kind[p]))
    BY <1>6 DEF Observe
  <2>2. ASSUME seen = "FINAL" PROVE LocalsOK'
    <3>1. tx[p] \in Attempts BY <1>t, <2>1, <2>2 DEF confirmation, Confirmable
    <3>2. inclusions[tx[p]] \in Nat BY <3>1 DEF ChainTypeOK
    <3>3. (IF kind[p] = "recover" THEN "persist" ELSE "commit") \in Labels BY <1>l
    <3>4. blk' \in [Procs -> Nat] BY <2>1, <2>2, <3>2 DEF LocalsOK
    <3>5. pc' \in [Procs -> Labels] BY <2>1, <2>2, <3>3 DEF LocalsOK
    <3>6. UNCHANGED << kind, att, tx >> BY <2>1, <2>2
    <3>7. \A r \in Procs : pc'[r] # "idle" => att'[r] \in Attempts
      BY <1>0, <2>1, <2>2, <3>6 DEF LocalsOK
    <3> QED BY <3>4, <3>5, <3>6, <3>7 DEF LocalsOK
  <2>3. ASSUME seen = "NONE" PROVE LocalsOK'
    BY <1>f, <1>k, <1>t, <2>1, <2>3
  <2>3a. ASSUME seen = "MANUAL_REVIEW" PROVE LocalsOK'
    <3>1. AfterReview(kind[p]) \in Labels BY <1>k, <1>t
    <3>2. Goto(p, AfterReview(kind[p])) BY <2>1, <2>3a
    <3> QED BY <1>0, <3>1, <3>2, GotoTyped
  <2>4. LocalsOK' BY <2>1, <2>2, <2>3, <2>3a
  <2> QED BY <1>6, <2>4 DEF Observe, OnlyLocals, tables, clock, chainVars, TablesOK,
             ClockOK, ChainTypeOK, RestOK
<1>7. CASE Commit(p)
  <2>1. TablesOK' BY <1>0, <1>7, <1>t, ConfirmTyped DEF Commit, TablesOK, tables
  <2>2. LocalsOK' BY <1>7, <1>f, <1>k, <1>l, <1>t DEF Commit
  <2> QED BY <1>7, <2>1, <2>2 DEF Commit, OnlyTables, clock, chainVars, ClockOK,
             ChainTypeOK, RestOK
<1>8. CASE Review(p)
  <2>1. TablesOK' BY <1>0, <1>8, ReviewTyped DEF Review
  <2>2. LocalsOK' BY <1>8, FinishTyped DEF Review
  <2> QED BY <1>8, <2>1, <2>2 DEF Review, OnlyTables, clock, chainVars, ClockOK,
             ChainTypeOK, RestOK
<1>9. CASE LoadEntitlement(p)
  <2>1. CASE Finish(p)
    <3>1. LocalsOK' BY <2>1, FinishTyped
    <3> QED BY <1>9, <3>1 DEF LoadEntitlement, OnlyLocals, tables, clock, chainVars,
               TablesOK, ClockOK, ChainTypeOK, RestOK
  <2>2. CASE ~Finish(p)
    <3>1. entitlements[quote_id[att[p]]] \in Attempts
      BY <1>0, <1>9, <2>2 DEF LoadEntitlement, TablesOK
    <3>2. LocalsOK' BY <1>9, <1>l, <2>2, <3>1 DEF LoadEntitlement, LocalsOK
    <3> QED BY <1>9, <3>2 DEF LoadEntitlement, OnlyLocals, tables, clock, chainVars,
               TablesOK, ClockOK, ChainTypeOK, RestOK
  <2> QED BY <2>1, <2>2
<1>10. CASE Revalidate(p)
  <2>1. LocalsOK' BY <1>0, <1>10, <1>l, GotoTyped, FinishTyped DEF Revalidate
  <2> QED BY <1>10, <2>1 DEF Revalidate, OnlyLocals, tables, clock, chainVars, TablesOK,
             ClockOK, ChainTypeOK, RestOK
<1>11. CASE ReadArtifact(p) \/ Deliver(p)
  <2>1. TablesOK' BY <1>0, <1>11, WorkerTyped DEF ReadArtifact, Deliver, TablesOK, tables
  <2>2. LocalsOK' BY <1>0, <1>11, <1>l, GotoTyped, FinishTyped DEF ReadArtifact, Deliver
  <2> QED BY <1>11, <2>1, <2>2 DEF ReadArtifact, Deliver, OnlyTables, clock, chainVars, ClockOK,
             ChainTypeOK, RestOK
<1>12. CASE ReadBack(p)
  <2>1. LocalsOK' BY <1>0, <1>12, <1>l, GotoTyped, FinishTyped DEF ReadBack
  <2> QED BY <1>12, <2>1 DEF ReadBack, OnlyLocals, tables, clock, chainVars, TablesOK,
             ClockOK, ChainTypeOK, RestOK
<1> QED BY <1>1, <1>2, <1>3, <1>4, <1>5, <1>6, <1>7, <1>8, <1>9, <1>10, <1>11, <1>12 DEF Step

LEMMA RequestTyped ==
  ASSUME TInv, NEW p \in Procs, Request(p) \/ Crash(p) \/ \E x \in Attempts : ReconcileOne(p, x)
  PROVE  TInv'
<1> USE DEF TInv
<1>l. {"idle", "verified", "unknown", "observe", "entitled"} \subseteq Labels
      /\ {"read", "recover", "reconcile", "lastReconcile"} \subseteq Kinds
  BY DEF Labels, Kinds
<1>u. ASSUME OnlyLocals, LocalsOK' PROVE TInv'
  BY <1>u DEF OnlyLocals, tables, clock, chainVars, TablesOK, ClockOK, ChainTypeOK, RestOK
<1>1. ASSUME NEW x \in Attempts, ReadPayment(p, x) PROVE TInv'
  BY <1>1, <1>l, <1>u, StartTyped DEF ReadPayment
<1>2. ASSUME NEW q \in Quotes, ReadPaid(p, q) PROVE TInv'
  <2>1. entitlements[q] \in Attempts BY <1>2 DEF ReadPaid, TablesOK
  <2> QED BY <1>2, <1>l, <1>u, <2>1, StartTyped DEF ReadPaid
<1>3. ASSUME NEW x \in Attempts, NEW t \in Attempts, Recover(p, x, t) PROVE TInv'
  BY <1>3, <1>l, <1>u, StartTyped DEF Recover
<1>4. ASSUME Crash(p) PROVE TInv'
  BY <1>4, <1>u, FinishTyped DEF Crash
<1>5. ASSUME NEW x \in Attempts, ReconcileOne(p, x) PROVE TInv'
  <2>1. tx_hash[x] \in Attempts \cup {NULL} /\ reconciliation_count[x] \in 0 .. ReconcileLimit
    BY DEF TablesOK, RestOK
  <2>2. LocalsOK'
    BY <1>5, <1>l, <2>1, StartTyped DEF ReconcileOne
  <2>3. RestOK'
    BY <1>5, <2>1, GatewayAssumption DEF ReconcileOne, RestOK
  <2> QED BY <1>5, <2>2, <2>3 DEF ReconcileOne, tables, clock, chainVars, TablesOK, ClockOK,
             ChainTypeOK
<1> QED BY <1>1, <1>2, <1>3, <1>4, <1>5 DEF Request

LEMMA BackgroundTyped ==
  ASSUME TInv,
         \/ \E q \in Quotes : ReadExpired(q)
         \/ RecoverUnsubmitted \/ RetentionCleanup \/ RetentionSweep
         \/ Environment
  PROVE  TInv'
<1> USE DEF TInv
<1>1. ASSUME NEW q \in Quotes, ReadExpired(q) PROVE TInv'
  <2>1. TablesOK' BY <1>1, WorkerTyped DEF ReadExpired
  <2> QED BY <1>1, <2>1 DEF ReadExpired, OnlyTables, locals, clock, chainVars, ClockOK,
             ChainTypeOK, LocalsOK, RestOK
<1>2. ASSUME RecoverUnsubmitted PROVE TInv'
  <2>1. TablesOK' BY <1>2, WorkerTyped DEF RecoverUnsubmitted
  <2> QED BY <1>2, <2>1 DEF RecoverUnsubmitted, OnlyTables, locals, clock, chainVars, ClockOK,
             ChainTypeOK, LocalsOK, RestOK
<1>3. ASSUME RetentionCleanup PROVE TInv'
  <2>1. TablesOK' BY <1>3, WorkerTyped DEF RetentionCleanup, CleanupOf, TablesOK, tables
  <2>2. RestOK' BY <1>3 DEF RetentionCleanup, CleanupOf, RestOK
  <2> QED BY <1>3, <2>1, <2>2 DEF RetentionCleanup, CleanupOf, locals, clock, chainVars,
             ClockOK, ChainTypeOK, LocalsOK
<1>4. ASSUME RetentionSweep PROVE TInv'
  <2>1. TablesOK' BY <1>4, WorkerTyped DEF RetentionSweep
  <2> QED BY <1>4, <2>1 DEF RetentionSweep, locals, clock, chainVars, ClockOK, ChainTypeOK,
             LocalsOK, RestOK
<1>5. ASSUME Time, UNCHANGED << locals, chainVars, reconciliation_count, files, retention >>
      PROVE TInv'
  <2>1. UNCHANGED tables BY <1>5 DEF Time, QuoteAges, AuthorizationLapses, RetentionEnds,
                                     GrantExpires
  <2>2. ClockOK'
    <3>1. ASSUME NEW q \in Quotes, QuoteAges(q) PROVE ClockOK'
      <4>1. age' \in [Quotes -> 0 .. 2] BY <3>1 DEF QuoteAges, ClockOK
      <4> QED BY <3>1, <4>1 DEF QuoteAges, ClockOK
    <3>2. ASSUME NEW q \in Quotes, RetentionEnds(q) PROVE ClockOK'
      BY <3>2 DEF RetentionEnds, ClockOK
    <3>3. ASSUME NEW a \in Auths, AuthorizationLapses(a) PROVE ClockOK'
      BY <3>3 DEF AuthorizationLapses, ClockOK
    <3>4. ASSUME GrantExpires PROVE ClockOK'
      BY <3>4 DEF GrantExpires, ClockOK
    <3> QED BY <1>5, <3>1, <3>2, <3>3, <3>4 DEF Time
  <2> QED BY <1>5, <2>1, <2>2 DEF tables, locals, chainVars, TablesOK, ChainTypeOK, LocalsOK,
             RestOK
<1>6. ASSUME ChainStep,
             UNCHANGED << locals, tables, clock, reconciliation_count, files, retention >>
      PROVE TInv'
  <2>1. ChainTypeOK'
    BY <1>6 DEF ChainStep, Broadcast, Finalize, Revert, Reorg, ChainTypeOK
  <2> QED BY <1>6, <2>1 DEF tables, locals, clock, TablesOK, ClockOK, LocalsOK, RestOK
<1>7. ASSUME NEW q \in Quotes, Damage(q) PROVE TInv'
  BY <1>7 DEF Damage, tables, locals, clock, chainVars, TablesOK, ClockOK, ChainTypeOK,
              LocalsOK, RestOK
<1> QED BY <1>1, <1>2, <1>3, <1>4, <1>5, <1>6, <1>7 DEF Environment

LEMMA StutterTyped == TInv /\ UNCHANGED vars => TInv'
BY DEF TInv, vars, tables, locals, clock, chainVars, TablesOK, ClockOK, ChainTypeOK, LocalsOK,
       RestOK

(* The tables, the chain and the local variables of every handler and worker *)
(* keep their types, whatever the calls, the crashes and the workers do.     *)
THEOREM TypeCorrect == Spec => []TypeOK
<1>1. Init => TInv
  BY GatewayAssumption
     DEF Init, LedgerInit, ChainInit, TInv, TablesOK, ClockOK, ChainTypeOK, LocalsOK, RestOK,
         QuoteStates, AttemptStates, StorageStates, Labels, Kinds
<1>2. TInv /\ [Next]_vars => TInv'
  BY StepTyped, RequestTyped, BackgroundTyped, StutterTyped DEF Next, Procs
<1> QED BY <1>1, <1>2, TInvTypeOK, PTL DEF Spec

-----------------------------------------------------------------------------
(* An authorization is settled at most once, every charge is recorded, and   *)
(* the evidence of a charged quote is kept: the inductive invariant.         *)

PastSubmit == Labels \ {"idle", "verified", "begun", "readback"}

(* A call that got past markSubmitting works on a submitted attempt.         *)
ProcsSubmitted == \A p \in Procs : pc[p] \in PastSubmit => attempts[att[p]] \in Submitted

(* Whoever is about to call settle is the first and the only one.            *)
SettleOnce ==
  /\ \A x \in Attempts : settle_calls[x] <= 1
  /\ \A p \in Procs : pc[p] = "settle" => settle_calls[att[p]] = 0
  /\ \A p, r \in Procs : pc[p] = "settle" /\ pc[r] = "settle" /\ att[p] = att[r] => p = r

(* No two attempts with one authorization are submitted, because of the      *)
(* nonce index in merchant mode and of the grant's reservations otherwise.   *)
SubmittedOnce ==
  \A x, y \in Attempts : /\ attempts[x] \in Submitted /\ attempts[y] \in Submitted
                         /\ SameAuthorization(x, y)
                         => x = y
Reserved ==
  Mode # "merchant" => \A x \in Attempts : attempts[x] \in Submitted => x \in reservations

CallsInv == /\ ProcsSubmitted /\ NoChargeWithoutRecord /\ SettleOnce /\ SubmittedOnce
            /\ Reserved

NonceOnce ==
  Mode = "merchant" =>
    \A x, y \in Attempts :
      SameAuthorization(x, y) /\ attempts[x] # "NONE" /\ attempts[y] # "NONE" => x = y

EntitledSubmitted ==
  \A q \in Quotes : entitlements[q] # NULL =>
    /\ quote_id[entitlements[q]] = q
    /\ attempts[entitlements[q]] \in {"CONFIRMED", "MANUAL_REVIEW"}

(* Only what is marked DELETED or about to be is removed, and only of a      *)
(* quote that expired, which is final: it cannot be sold any more.           *)
RemovedUnsold ==
  \A q \in Quotes : /\ artifacts[q] = "DELETED" => files[q] = "REMOVED"
                    /\ files[q] = "REMOVED" => quotes[q] = "EXPIRED"

TablesInv == QuoteFollowsAttempt /\ NonceOnce /\ EntitledSubmitted /\ RemovedUnsold

IInv == TInv /\ CallsInv /\ TablesInv

-----------------------------------------------------------------------------
(* Quotes follow their attempts through every transaction of the ledger.     *)

(* Most transactions move one attempt and its quote: it is enough that the   *)
(* two agree afterwards and that no other attempt of the quote was live.     *)
LEMMA OneMoves ==
  ASSUME TablesOK, QuoteFollowsAttempt, NEW x \in Attempts,
         \A y \in Attempts \ {x} : quote_id[y] = quote_id[x] => ~Live(y),
         \A y \in Attempts \ {x} : attempts'[y] = attempts[y],
         \A q \in Quotes \ {quote_id[x]} : quotes'[q] = quotes[q],
         Follows(x)',
         ~Live(x)' => quotes'[quote_id[x]] \in {"READY", "EXPIRED"}
  PROVE  QuoteFollowsAttempt'
<1> USE LedgerAssumption DEF QuoteFollowsAttempt
<1>1. StateFollows'
  <2>1. ASSUME NEW y \in Attempts, y # x PROVE Follows(y)'
    <3>1. CASE Live(y)
      <4>1. quote_id[y] # quote_id[x] BY <2>1, <3>1
      <4>2. attempts'[y] = attempts[y] /\ quotes'[quote_id[y]] = quotes[quote_id[y]]
        BY <2>1, <4>1
      <4>3. Follows(y) BY DEF StateFollows
      <4> QED BY <4>2, <4>3 DEF Follows, Live
    <3>2. CASE ~Live(y)
      BY <2>1, <3>2 DEF Follows, Live
    <3> QED BY <3>1, <3>2
  <2> QED BY <2>1 DEF StateFollows
<1>2. OneLive' BY DEF OneLive, Live
<1>3. SoldIsLive'
  <2>1. ASSUME NEW q \in Quotes, q # quote_id[x], ActiveAttempt(q) PROVE ActiveAttempt(q)'
    BY <2>1 DEF ActiveAttempt
  <2>2. Live(x)' => ActiveAttempt(quote_id[x])' BY DEF ActiveAttempt, Live
  <2> QED BY <2>1, <2>2 DEF SoldIsLive
<1> QED BY <1>1, <1>2, <1>3

(* A live attempt is the only one of its quote.                              *)
LEMMA OnlyLive ==
  ASSUME QuoteFollowsAttempt, NEW x \in Attempts, Live(x)
  PROVE  /\ \A y \in Attempts \ {x} : quote_id[y] = quote_id[x] => ~Live(y)
         /\ Follows(x)
BY DEF QuoteFollowsAttempt, OneLive, StateFollows

LEMMA BeginFollows ==
  ASSUME TablesOK, QuoteFollowsAttempt, NEW x \in Attempts, beginAttempt(x)
  PROVE  QuoteFollowsAttempt'
<1> USE LedgerAssumption DEF TablesOK, beginAttempt, MayBegin, MayInsert, SetQuote, SetAttempt
<1>1. \A y \in Attempts \ {x} : quote_id[y] = quote_id[x] => ~Live(y)
  BY DEF ActiveAttempt, Live
<1>2. Follows(x)' /\ Live(x)' BY DEF Follows, Live
<1> QED BY <1>1, <1>2, OneMoves

LEMMA ExpiredFollows ==
  ASSUME TablesOK, QuoteFollowsAttempt, NEW x \in Attempts, submitExpired(x)
  PROVE  QuoteFollowsAttempt'
<1> USE LedgerAssumption DEF TablesOK, submitExpired, SubmitsFrom, SetQuote, SetAttempt
<1>1. Live(x) BY DEF Live
<1>2. Follows(x) BY <1>1, OnlyLive
<1>3. Follows(x)' BY <1>2 DEF Follows, Live
<1>4. ~Live(x)' => quotes'[quote_id[x]] \in {"READY", "EXPIRED"} BY <1>2 DEF Follows, Live
<1> QED BY <1>1, <1>3, <1>4, OneMoves, OnlyLive

LEMMA RefusedFollows ==
  ASSUME TablesOK, QuoteFollowsAttempt, NEW x \in Attempts, submitRefused(x)
  PROVE  QuoteFollowsAttempt'
<1> USE LedgerAssumption DEF TablesOK, submitRefused, SubmitsFrom, SetQuote, SetAttempt
<1>1. Live(x) BY DEF Live
<1>2. Follows(x) BY <1>1, OnlyLive
<1>3. Follows(x)' BY <1>2 DEF Follows, Live
<1>4. ~Live(x)' => quotes'[quote_id[x]] \in {"READY", "EXPIRED"} BY <1>2 DEF Follows, Live
<1> QED BY <1>1, <1>3, <1>4, OneMoves, OnlyLive

LEMMA AcceptedFollows ==
  ASSUME TablesOK, QuoteFollowsAttempt, NEW x \in Attempts, submitAccepted(x)
  PROVE  QuoteFollowsAttempt'
<1> USE LedgerAssumption DEF TablesOK, submitAccepted, SubmitsFrom, SetQuote, SetAttempt
<1>1. Live(x) BY DEF Live
<1>2. Follows(x) BY <1>1, OnlyLive
<1>3. Follows(x)' BY <1>2 DEF Follows, Live
<1>4. ~Live(x)' => quotes'[quote_id[x]] \in {"READY", "EXPIRED"} BY <1>2 DEF Follows, Live
<1> QED BY <1>1, <1>3, <1>4, OneMoves, OnlyLive

LEMMA UnknownFollows ==
  ASSUME TablesOK, QuoteFollowsAttempt, NEW x \in Attempts, NEW t,
         attempts[x] \in Submitted, unknown(x, t)
  PROVE  QuoteFollowsAttempt'
<1> USE LedgerAssumption DEF TablesOK, unknown, Submitted, SetQuote, SetAttempt
<1>1. Live(x) BY DEF Live
<1>2. Follows(x) BY <1>1, OnlyLive
<1>3. Follows(x)' BY <1>2 DEF Follows, Live
<1>4. ~Live(x)' => quotes'[quote_id[x]] \in {"READY", "EXPIRED"} BY <1>2 DEF Follows, Live
<1> QED BY <1>1, <1>3, <1>4, OneMoves, OnlyLive

LEMMA ConfirmFollows ==
  ASSUME TablesOK, QuoteFollowsAttempt, NEW x \in Attempts, NEW t, NEW b, confirm(x, t, b)
  PROVE  QuoteFollowsAttempt'
<1> USE LedgerAssumption DEF TablesOK, confirm, MayConfirm, SetQuote, SetAttempt
<1>1. Live(x) BY DEF Live
<1>2. Follows(x) BY <1>1, OnlyLive
<1>3. Follows(x)' BY <1>2 DEF Follows, Live
<1>4. ~Live(x)' => quotes'[quote_id[x]] \in {"READY", "EXPIRED"} BY <1>2 DEF Follows, Live
<1> QED BY <1>1, <1>3, <1>4, OneMoves, OnlyLive

LEMMA ReviewFollows ==
  ASSUME TablesOK, QuoteFollowsAttempt, NEW x \in Attempts, attempts[x] \in Submitted,
         manualReview(x)
  PROVE  QuoteFollowsAttempt'
<1> USE LedgerAssumption DEF TablesOK, manualReview, Submitted, SetQuote, SetAttempt
<1>1. Live(x) BY DEF Live
<1>2. Follows(x) BY <1>1, OnlyLive
<1>3. Follows(x)' BY <1>2 DEF Follows, Live
<1>4. ~Live(x)' => quotes'[quote_id[x]] \in {"READY", "EXPIRED"} BY <1>2 DEF Follows, Live
<1> QED BY <1>1, <1>3, <1>4, OneMoves, OnlyLive

LEMMA RecoverFollows ==
  ASSUME TablesOK, QuoteFollowsAttempt, NEW S \in SUBSET Attempts, recoverUnsubmitted(S)
  PROVE  QuoteFollowsAttempt'
<1> USE LedgerAssumption DEF TablesOK, QuoteFollowsAttempt, recoverUnsubmitted, Unsubmitted,
        Released
<1>1. StateFollows' BY DEF StateFollows, Follows, OneLive, Live
<1>2. OneLive' BY DEF OneLive, Live
<1>3. SoldIsLive' BY DEF StateFollows, Follows, OneLive, Live, SoldIsLive, ActiveAttempt
<1> QED BY <1>1, <1>2, <1>3

LEMMA SweepFollows ==
  ASSUME TablesOK, QuoteFollowsAttempt, sweepExpired \/ \E q \in Quotes : expire(q)
  PROVE  QuoteFollowsAttempt'
<1> USE LedgerAssumption DEF TablesOK, QuoteFollowsAttempt, sweepExpired, expire, SetQuote
<1>1. StateFollows' BY DEF StateFollows, Follows, Live
<1>2. OneLive' BY DEF OneLive, Live
<1>3. SoldIsLive' BY DEF SoldIsLive, ActiveAttempt
<1> QED BY <1>1, <1>2, <1>3

-----------------------------------------------------------------------------
(* Steps that submit nothing *)

SameSubmitted ==
  /\ \A x \in Attempts : attempts'[x] \in Submitted <=> attempts[x] \in Submitted
  /\ reservations' = reservations

(* What a step other than markSubmitting's success and settle may do: each   *)
(* process stays, or moves somewhere else than to the call of settle, and    *)
(* past the submit boundary only with a submitted attempt.                   *)
Quiet ==
  /\ SameSubmitted /\ UNCHANGED settle_calls
  /\ \A r \in Procs :
       \/ pc'[r] = pc[r] /\ att'[r] = att[r]
       \/ pc'[r] # "settle" /\ (pc'[r] \in PastSubmit => attempts[att'[r]] \in Submitted)

LEMMA QuietKeeps ==
  ASSUME IInv, Quiet, TInv'
  PROVE  CallsInv'
<1> USE DEF IInv, CallsInv, Quiet, SameSubmitted
<1>1. \A r \in Procs : pc'[r] \in PastSubmit => att'[r] \in Attempts
  BY DEF TInv, LocalsOK, PastSubmit
<1>2. ProcsSubmitted' BY <1>1 DEF ProcsSubmitted
<1>3. NoChargeWithoutRecord' BY DEF NoChargeWithoutRecord
<1>4. SettleOnce' BY DEF SettleOnce
<1>5. SubmittedOnce' BY DEF SubmittedOnce, SameAuthorization
<1>6. Reserved' BY DEF Reserved
<1> QED BY <1>2, <1>3, <1>4, <1>5, <1>6

(* Steps that leave the tables and the files alone.                          *)
LEMMA TablesStill ==
  ASSUME TablesInv, UNCHANGED << tables, files >>
  PROVE  TablesInv' /\ SameSubmitted
BY DEF TablesInv, tables, SameSubmitted, QuoteFollowsAttempt, StateFollows, Follows, OneLive,
       Live, SoldIsLive, ActiveAttempt, NonceOnce, SameAuthorization, EntitledSubmitted,
       RemovedUnsold

(* Transactions that submit nothing and leave the artifacts alone.           *)
LEMMA BeginKeeps ==
  ASSUME TablesOK, TablesInv, NEW x \in Attempts, beginAttempt(x), UNCHANGED files
  PROVE  TablesInv' /\ SameSubmitted
<1> USE DEF TablesInv
<1>1. QuoteFollowsAttempt' BY BeginFollows
<1> USE LedgerAssumption DEF TablesOK, beginAttempt, MayBegin, MayInsert, SetAttempt
<1>2. NonceOnce' BY DEF NonceOnce, NonceSpent, SameAuthorization
<1>3. SameSubmitted BY DEF SameSubmitted, Submitted
<1>4. EntitledSubmitted' BY DEF EntitledSubmitted
<1>5. RemovedUnsold' BY DEF RemovedUnsold, SetQuote
<1> QED BY <1>1, <1>2, <1>3, <1>4, <1>5

LEMMA MoveKeeps ==
  ASSUME TablesOK, TablesInv, QuoteFollowsAttempt', SameSubmitted,
         UNCHANGED << files, artifacts, entitlements >>,
         \A x \in Attempts : attempts'[x] = "NONE" <=> attempts[x] = "NONE",
         \A x \in Attempts : attempts[x] \in {"CONFIRMED", "MANUAL_REVIEW"}
                             => attempts'[x] \in {"CONFIRMED", "MANUAL_REVIEW"},
         \A q \in Quotes : quotes[q] = "EXPIRED" => quotes'[q] = "EXPIRED"
  PROVE  TablesInv'
<1> USE LedgerAssumption DEF TablesInv, TablesOK
<1>1. NonceOnce' BY DEF NonceOnce, SameAuthorization
<1>2. EntitledSubmitted' BY DEF EntitledSubmitted
<1>3. RemovedUnsold' BY DEF RemovedUnsold
<1> QED BY <1>1, <1>2, <1>3

LEMMA RejectKeeps ==
  ASSUME TablesOK, TablesInv, NEW x \in Attempts, submitExpired(x) \/ submitRefused(x),
         UNCHANGED files
  PROVE  TablesInv' /\ SameSubmitted
<1>1. QuoteFollowsAttempt' BY ExpiredFollows, RefusedFollows DEF TablesInv
<1>2. SameSubmitted
  BY DEF TablesOK, SameSubmitted, Submitted, submitExpired, submitRefused, SubmitsFrom, SetAttempt
<1> QED BY <1>1, <1>2, MoveKeeps
        DEF TablesOK, submitExpired, submitRefused, SubmitsFrom, SetAttempt, SetQuote

LEMMA UnknownKeeps ==
  ASSUME TablesOK, TablesInv, NEW x \in Attempts, NEW t, attempts[x] \in Submitted,
         unknown(x, t), UNCHANGED files
  PROVE  TablesInv' /\ SameSubmitted
<1>1. QuoteFollowsAttempt' BY UnknownFollows DEF TablesInv
<1>2. SameSubmitted BY DEF TablesOK, SameSubmitted, Submitted, unknown, SetAttempt
<1> QED BY <1>1, <1>2, MoveKeeps DEF TablesOK, unknown, SetAttempt, SetQuote

LEMMA ReviewKeeps ==
  ASSUME TablesOK, TablesInv, NEW x \in Attempts, attempts[x] \in Submitted,
         manualReview(x), UNCHANGED files
  PROVE  TablesInv' /\ SameSubmitted
<1>1. QuoteFollowsAttempt' BY ReviewFollows DEF TablesInv
<1>2. SameSubmitted BY DEF TablesOK, SameSubmitted, Submitted, manualReview, SetAttempt
<1> QED BY <1>1, <1>2, MoveKeeps DEF TablesOK, manualReview, SetAttempt, SetQuote

LEMMA ConfirmKeeps ==
  ASSUME TablesOK, TablesInv, NEW x \in Attempts, NEW t, NEW b, confirm(x, t, b),
         UNCHANGED files
  PROVE  TablesInv' /\ SameSubmitted
<1>1. QuoteFollowsAttempt' BY ConfirmFollows DEF TablesInv
<1> USE LedgerAssumption DEF TablesOK, TablesInv, confirm, MayConfirm, SetAttempt
<1>2. SameSubmitted BY DEF SameSubmitted, Submitted
<1>3. NonceOnce' BY DEF NonceOnce, SameAuthorization
<1>4. EntitledSubmitted' BY DEF EntitledSubmitted
<1>5. RemovedUnsold' BY DEF RemovedUnsold, QuoteMayBecome, QuoteMoves, SetQuote
<1> QED BY <1>1, <1>2, <1>3, <1>4, <1>5

LEMMA RecoverKeeps ==
  ASSUME TablesOK, TablesInv, NEW S \in SUBSET Attempts, recoverUnsubmitted(S),
         UNCHANGED files
  PROVE  TablesInv' /\ SameSubmitted
<1>1. QuoteFollowsAttempt' BY RecoverFollows DEF TablesInv
<1>2. SameSubmitted
  BY DEF TablesOK, SameSubmitted, Submitted, recoverUnsubmitted, Unsubmitted
<1> QED BY <1>1, <1>2, MoveKeeps DEF TablesOK, recoverUnsubmitted, Unsubmitted

LEMMA SweepKeeps ==
  ASSUME TablesOK, TablesInv, sweepExpired \/ \E q \in Quotes : expire(q), UNCHANGED files
  PROVE  TablesInv' /\ SameSubmitted
<1>1. QuoteFollowsAttempt' BY SweepFollows DEF TablesInv
<1>2. SameSubmitted BY DEF TablesOK, SameSubmitted, sweepExpired, expire
<1> QED BY <1>1, <1>2, MoveKeeps DEF TablesOK, sweepExpired, expire, SetQuote

LEMMA DeliverKeeps ==
  ASSUME TablesOK, TablesInv, NEW q \in Quotes, recordDelivery(q) \/ markRecovery(q),
         UNCHANGED files
  PROVE  TablesInv' /\ SameSubmitted
<1>1. UNCHANGED << quotes, attempts, entitlements, reservations >>
  BY DEF recordDelivery, markRecovery
<1>2. \A r \in Quotes : artifacts'[r] = "DELETED" => artifacts[r] = "DELETED"
  BY DEF TablesOK, recordDelivery, markRecovery
<1> QED BY <1>1, <1>2, LedgerAssumption
        DEF TablesInv, SameSubmitted, QuoteFollowsAttempt, StateFollows, Follows, OneLive, Live,
            SoldIsLive, ActiveAttempt, NonceOnce, SameAuthorization, EntitledSubmitted,
            RemovedUnsold

(* Cleanup touches only quotes without a live attempt, and marks no row      *)
(* whose files it did not remove.                                            *)
LEMMA CleanupKeeps ==
  ASSUME TablesOK, TablesInv, NEW S \in SUBSET Quotes, CleanupOf(S)
  PROVE  TablesInv' /\ SameSubmitted
<1>1. PICK D \in SUBSET S : removeArtifacts(D) \/ UNCHANGED tables
  BY DEF CleanupOf
<1>2. UNCHANGED << quotes, attempts, entitlements, reservations >>
  BY <1>1 DEF removeArtifacts, tables
<1>3. RemovedUnsold'
  BY <1>1, <1>2 DEF TablesInv, TablesOK, RemovedUnsold, CleanupOf, Removable, removeArtifacts,
                    tables
<1> QED BY <1>2, <1>3
        DEF TablesInv, SameSubmitted, QuoteFollowsAttempt, StateFollows, Follows, OneLive, Live,
            SoldIsLive, ActiveAttempt, NonceOnce, SameAuthorization, EntitledSubmitted

-----------------------------------------------------------------------------
(* The two steps that matter *)

(* markSubmitting succeeds: the attempt was not submitted before, so nobody  *)
(* else is about to settle it, and no attempt with its authorization was.    *)
LEMMA AcceptedKeeps ==
  ASSUME IInv, TInv', NEW p \in Procs, pc[p] = "readback", submitAccepted(att[p]),
         Goto(p, "settle"), OnlyTables
  PROVE  CallsInv' /\ TablesInv'
<1> DEFINE x == att[p]
<1> USE LedgerAssumption DEF IInv
<1>1. x \in Attempts /\ quote_id[x] \in Quotes BY DEF TInv, LocalsOK
<1>2. attempts[x] = "VERIFIED" /\ MayReserve(x) BY DEF submitAccepted, SubmitsFrom
<1>3. /\ attempts' = [attempts EXCEPT ![x] = "SUBMITTING"]
      /\ UNCHANGED << quotes, entitlements, artifacts, files, settle_calls >>
      /\ reservations' = IF Mode = "merchant" THEN reservations ELSE reservations \cup {x}
  BY DEF submitAccepted, SetAttempt, OnlyTables, chainVars
<1>4. \A y \in Attempts : attempts'[y] \in Submitted <=> y = x \/ attempts[y] \in Submitted
  BY <1>1, <1>2, <1>3 DEF TInv, TablesOK, Submitted
<1>5. /\ pc' = [pc EXCEPT ![p] = "settle"] /\ UNCHANGED att
      /\ pc \in [Procs -> Labels]
  BY DEF Goto, TInv, LocalsOK
<1>6. \A r \in Procs : pc[r] \in PastSubmit => att[r] \in Attempts /\ att[r] # x
  BY <1>2 DEF TInv, LocalsOK, PastSubmit, CallsInv, ProcsSubmitted, Submitted
<1>7. ProcsSubmitted'
  BY <1>1, <1>4, <1>5, <1>6 DEF CallsInv, ProcsSubmitted
<1>8. NoChargeWithoutRecord'
  BY <1>3, <1>4 DEF CallsInv, NoChargeWithoutRecord
<1>9. SettleOnce'
  <2>1. settle_calls[x] = 0
    BY <1>1, <1>2 DEF TInv, ChainTypeOK, CallsInv, NoChargeWithoutRecord, Submitted
  <2>2. \A r \in Procs : pc[r] = "settle" => att[r] # x
    BY <1>6 DEF PastSubmit, Labels
  <2> QED BY <1>3, <1>5, <2>1, <2>2 DEF CallsInv, SettleOnce
<1>10. \A y \in Attempts : SameAuthorization(x, y) /\ attempts[y] \in Submitted => y = x
  <2>1. CASE Mode = "merchant"
    BY <1>1, <1>2, <2>1 DEF TablesInv, NonceOnce, SameAuthorization, Submitted
  <2>2. CASE Mode = "v1"
    BY <1>2, <2>2 DEF CallsInv, Reserved, MayReserve
  <2>3. CASE Mode = "v2"
    <3>1. \A y \in reservations : payer[y] # payer[x] BY <1>2, <2>3 DEF MayReserve
    <3> QED BY <1>1, <2>3, <3>1 DEF CallsInv, Reserved, SameAuthorization
  <2> QED BY <2>1, <2>2, <2>3
<1>11. SubmittedOnce'
  BY <1>1, <1>4, <1>10 DEF CallsInv, SubmittedOnce, SameAuthorization
<1>12. Reserved'
  BY <1>3, <1>4 DEF CallsInv, Reserved
<1>13. QuoteFollowsAttempt'
  BY <1>1, AcceptedFollows DEF TInv, TablesInv
<1>14. NonceOnce' /\ EntitledSubmitted'
  BY <1>1, <1>2, <1>3 DEF TInv, TablesOK, TablesInv, NonceOnce, SameAuthorization,
                          EntitledSubmitted
<1>15. RemovedUnsold' BY <1>3 DEF TablesInv, RemovedUnsold
<1> QED BY <1>7, <1>8, <1>9, <1>11, <1>12, <1>13, <1>14, <1>15 DEF CallsInv, TablesInv

(* settle is called: the count of the attempt goes from 0 to 1.              *)
LEMMA SettleKeeps ==
  ASSUME IInv, TInv', NEW p \in Procs, Settle(p)
  PROVE  CallsInv' /\ TablesInv'
<1> DEFINE x == att[p]
<1> USE DEF IInv
<1>1. TablesInv' /\ SameSubmitted BY TablesStill DEF Settle
<1>2. x \in Attempts /\ attempts[x] \in Submitted /\ settle_calls[x] = 0
  BY DEF Settle, TInv, LocalsOK, CallsInv, ProcsSubmitted, PastSubmit, Labels, SettleOnce
<1>3. /\ settle_calls' = [settle_calls EXCEPT ![x] = settle_calls[x] + 1]
      /\ pc' = [pc EXCEPT ![p] = "settling"] /\ UNCHANGED << att, attempts, reservations >>
      /\ pc[p] = "settle"
  BY DEF Settle, Goto, tables
<1>4. settle_calls'[x] = 1 /\ \A y \in Attempts \ {x} : settle_calls'[y] = settle_calls[y]
  BY <1>2, <1>3 DEF TInv, ChainTypeOK
<1>5. ProcsSubmitted'
  BY <1>2, <1>3 DEF CallsInv, ProcsSubmitted, TInv, LocalsOK
<1>6. NoChargeWithoutRecord'
  BY <1>2, <1>3, <1>4 DEF CallsInv, NoChargeWithoutRecord
<1>7. SettleOnce'
  <2>1. ASSUME NEW r \in Procs, pc'[r] = "settle" PROVE r # p /\ pc[r] = "settle"
    BY <1>3, <2>1 DEF TInv, LocalsOK
  <2>2. ASSUME NEW r \in Procs, pc'[r] = "settle" PROVE att[r] \in Attempts \ {x}
    BY <1>3, <2>1, <2>2 DEF CallsInv, SettleOnce, TInv, LocalsOK
  <2> QED BY <1>3, <1>4, <2>1, <2>2 DEF CallsInv, SettleOnce
<1>8. SubmittedOnce' /\ Reserved'
  BY <1>3 DEF CallsInv, SubmittedOnce, SameAuthorization, Reserved
<1> QED BY <1>1, <1>5, <1>6, <1>7, <1>8 DEF CallsInv

-----------------------------------------------------------------------------
(* Every other step is quiet.  A process moves by Goto or Finish.            *)

LEMMA MoveIsQuiet ==
  ASSUME IInv, SameSubmitted, UNCHANGED settle_calls, NEW p \in Procs, NEW l \in Labels,
         l # "settle",
         \/ GotoOrFinish(p, l) /\ (l \in PastSubmit => attempts[att[p]] \in Submitted)
         \/ Finish(p)
  PROVE  Quiet
<1> USE DEF IInv, TInv, LocalsOK
<1>1. CASE Finish(p)
  BY <1>1 DEF Quiet, Finish, PastSubmit
<1>2. CASE Goto(p, l) /\ (l \in PastSubmit => attempts[att[p]] \in Submitted)
  BY <1>2 DEF Quiet, Goto
<1> QED BY <1>1, <1>2 DEF GotoOrFinish

LEMMA StepKeeps ==
  ASSUME IInv, TInv', NEW p \in Procs, Step(p)
  PROVE  CallsInv' /\ TablesInv'
<1> USE DEF IInv
<1>0. pc[p] # "idle" /\ att[p] \in Attempts /\ quote_id[att[p]] \in Quotes
      /\ kind[p] \in Kinds /\ pc[p] \in Labels /\ pc \in [Procs -> Labels]
  BY LedgerAssumption DEF TInv, Step, LocalsOK, BeginAttempt, ReadBack, MarkSubmitting, Settle,
     SettleReturns, Unknown, Observe, Commit, Review, LoadEntitlement, Revalidate, ReadArtifact,
     Deliver
<1>s. pc[p] \in PastSubmit => attempts[att[p]] \in Submitted
  BY DEF CallsInv, ProcsSubmitted
<1>k. \A k \in Kinds : /\ AfterFailure(k) \in Labels /\ AfterFailure(k) # "settle"
                       /\ AfterReview(k) \in Labels /\ AfterReview(k) # "settle"
                       /\ AfterReview(k) # "idle"
  BY DEF Kinds, Labels, AfterFailure, AfterReview
<1>q. ASSUME Quiet, TablesInv' PROVE CallsInv' /\ TablesInv' BY <1>q, QuietKeeps
<1>o. TablesOK BY DEF TInv
<1>1. CASE BeginAttempt(p)
  <2>1. TablesInv' /\ SameSubmitted
    BY <1>0, <1>1, <1>o, BeginKeeps, TablesStill DEF BeginAttempt, OnlyTables, IInv
  <2>2. GotoOrFinish(p, "begun") \/ Finish(p) BY <1>1 DEF BeginAttempt, GotoOrFinish
  <2>3. "begun" \in Labels \ PastSubmit BY DEF Labels, PastSubmit
  <2>4. Quiet
    BY <1>1, <2>1, <2>2, <2>3, MoveIsQuiet DEF BeginAttempt, OnlyTables, chainVars
  <2> QED BY <1>q, <2>1, <2>4
<1>2. CASE MarkSubmitting(p)
  <2>1. CASE submitAccepted(att[p]) /\ Goto(p, "settle")
    <3>1. pc[p] = "readback" /\ OnlyTables BY <1>2 DEF MarkSubmitting
    <3> QED BY <2>1, <3>1, AcceptedKeeps
  <2>2. CASE ~(submitAccepted(att[p]) /\ Goto(p, "settle"))
    <3>1. TablesInv' /\ SameSubmitted
      BY <1>0, <1>2, <1>o, <2>2, RejectKeeps, TablesStill DEF MarkSubmitting, OnlyTables
    <3>2. Finish(p) BY <1>2, <2>2 DEF MarkSubmitting
    <3>3. "idle" \in Labels BY DEF Labels
    <3>4. Quiet
      BY <1>2, <3>1, <3>2, <3>3, MoveIsQuiet DEF MarkSubmitting, OnlyTables, chainVars
    <3> QED BY <1>q, <3>1, <3>4
  <2> QED BY <2>1, <2>2
<1>3. CASE Settle(p) BY <1>3, SettleKeeps
<1>4. CASE SettleReturns(p)
  <2>1. TablesInv' /\ SameSubmitted BY <1>4, TablesStill DEF SettleReturns, OnlyLocals
  <2>2. attempts[att[p]] \in Submitted
    BY <1>4, <1>s DEF SettleReturns, PastSubmit, Labels
  <2>3. Quiet
    BY <1>0, <1>4, <2>1, <2>2 DEF SettleReturns, OnlyLocals, chainVars, Quiet, Goto
  <2> QED BY <1>q, <2>1, <2>3
<1>5. CASE Unknown(p)
  <2>1. attempts[att[p]] \in Submitted BY <1>5, <1>s DEF Unknown, PastSubmit, Labels
  <2>2. TablesInv' /\ SameSubmitted
    BY <1>0, <1>5, <1>o, <2>1, UnknownKeeps DEF Unknown, OnlyTables
  <2>3. \/ GotoOrFinish(p, "observe") \/ Finish(p)
        \/ GotoOrFinish(p, "review") \/ GotoOrFinish(p, "commit")
    BY <1>5 DEF Unknown, GotoOrFinish
  <2>4. {"observe", "review", "commit"} \subseteq Labels BY DEF Labels
  <2>5. Quiet
    BY <1>5, <2>1, <2>2, <2>3, <2>4, MoveIsQuiet DEF Unknown, OnlyTables, chainVars
  <2> QED BY <1>q, <2>2, <2>5
<1>6. CASE Observe(p)
  <2>1. attempts[att[p]] \in Submitted BY <1>6, <1>s DEF Observe, PastSubmit, Labels
  <2>2. TablesInv' /\ SameSubmitted BY <1>6, TablesStill DEF Observe, OnlyLocals
  <2>3. UNCHANGED settle_calls BY <1>6 DEF Observe, OnlyLocals, chainVars
  <2>4. \/ /\ pc' = [pc EXCEPT ![p] = IF kind[p] = "recover" THEN "persist" ELSE "commit"]
           /\ UNCHANGED att
        \/ GotoOrFinish(p, AfterFailure(kind[p]))
        \/ Goto(p, AfterReview(kind[p]))
    BY <1>6 DEF Observe
  <2>5. Quiet
    <3>1. ASSUME pc' = [pc EXCEPT ![p] = IF kind[p] = "recover" THEN "persist" ELSE "commit"],
                 UNCHANGED att
          PROVE  Quiet
      BY <1>0, <2>1, <2>2, <2>3, <3>1 DEF Quiet
    <3>2. ASSUME GotoOrFinish(p, AfterFailure(kind[p])) PROVE Quiet
      BY <1>0, <1>k, <2>1, <2>2, <2>3, <3>2, MoveIsQuiet
    <3>3. ASSUME Goto(p, AfterReview(kind[p])) PROVE Quiet
      <4>1. GotoOrFinish(p, AfterReview(kind[p])) BY <1>0, <1>k, <3>3 DEF GotoOrFinish
      <4> QED BY <1>0, <1>k, <2>1, <2>2, <2>3, <4>1, MoveIsQuiet
    <3> QED BY <2>4, <3>1, <3>2, <3>3
  <2> QED BY <1>q, <2>2, <2>5
<1>7. CASE Commit(p)
  <2>1. attempts[att[p]] \in Submitted BY <1>7, <1>s DEF Commit, PastSubmit, Labels
  <2>2. TablesInv' /\ SameSubmitted
    BY <1>0, <1>7, <1>o, ConfirmKeeps, TablesStill DEF Commit, OnlyTables
  <2>3. UNCHANGED settle_calls BY <1>7 DEF Commit, OnlyTables, chainVars
  <2>4. PICK l \in {"entitled", "idle", AfterFailure(kind[p])} : GotoOrFinish(p, l)
    BY <1>7 DEF Commit
  <2>5. l \in Labels /\ l # "settle" BY <1>0, <1>k, <2>4 DEF Labels
  <2>6. Quiet BY <2>1, <2>2, <2>3, <2>4, <2>5, MoveIsQuiet
  <2> QED BY <1>q, <2>2, <2>6
<1>8. CASE Review(p)
  <2>1. attempts[att[p]] \in Submitted BY <1>8, <1>s DEF Review, PastSubmit, Labels
  <2>2. TablesInv' /\ SameSubmitted
    BY <1>0, <1>8, <1>o, <2>1, ReviewKeeps DEF Review, OnlyTables
  <2>3. "idle" \in Labels BY DEF Labels
  <2>4. Quiet BY <1>8, <2>2, <2>3, MoveIsQuiet DEF Review, OnlyTables, chainVars
  <2> QED BY <1>q, <2>2, <2>4
<1>9. CASE LoadEntitlement(p)
  <2>1. TablesInv' /\ SameSubmitted BY <1>9, TablesStill DEF LoadEntitlement, OnlyLocals
  <2>2. UNCHANGED settle_calls BY <1>9 DEF LoadEntitlement, OnlyLocals, chainVars
  <2>3. CASE Finish(p)
    <3>1. "idle" \in Labels BY DEF Labels
    <3>2. Quiet BY <2>1, <2>2, <2>3, <3>1, MoveIsQuiet
    <3> QED BY <1>q, <2>1, <3>2
  <2>4. CASE ~Finish(p)
    <3>1. attempts[entitlements[quote_id[att[p]]]] \in Submitted
      BY <1>9, <2>4 DEF LoadEntitlement, Submitted
    <3>2. /\ pc' = [pc EXCEPT ![p] = "revalidate"]
          /\ att' = [att EXCEPT ![p] = entitlements[quote_id[att[p]]]]
      BY <1>9, <2>4 DEF LoadEntitlement
    <3>3. Quiet BY <2>1, <2>2, <3>1, <3>2 DEF Quiet, TInv, LocalsOK
    <3> QED BY <1>q, <2>1, <3>3
  <2> QED BY <2>3, <2>4
<1>10. CASE Revalidate(p)
  <2>1. attempts[att[p]] \in Submitted BY <1>10, <1>s DEF Revalidate, PastSubmit, Labels
  <2>2. TablesInv' /\ SameSubmitted BY <1>10, TablesStill DEF Revalidate, OnlyLocals
  <2>3. GotoOrFinish(p, "deliver") \/ GotoOrFinish(p, "review") \/ Finish(p)
    BY <1>10 DEF Revalidate, GotoOrFinish
  <2>4. {"deliver", "review"} \subseteq Labels BY DEF Labels
  <2>5. Quiet
    BY <1>10, <2>1, <2>2, <2>3, <2>4, MoveIsQuiet DEF Revalidate, OnlyLocals, chainVars
  <2> QED BY <1>q, <2>2, <2>5
<1>11. CASE ReadArtifact(p) \/ Deliver(p)
  <2>1. TablesInv' /\ SameSubmitted
    BY <1>0, <1>11, <1>o, DeliverKeeps, TablesStill DEF ReadArtifact, Deliver, OnlyTables
  <2>2. attempts[att[p]] \in Submitted
    BY <1>11, <1>s DEF ReadArtifact, Deliver, PastSubmit, Labels
  <2>3. "record" \in Labels BY DEF Labels
  <2>4. GotoOrFinish(p, "record") \/ Finish(p)
    BY <1>11 DEF ReadArtifact, Deliver, GotoOrFinish
  <2>5. UNCHANGED settle_calls BY <1>11 DEF ReadArtifact, Deliver, OnlyTables, chainVars
  <2>6. Quiet BY <2>1, <2>2, <2>3, <2>4, <2>5, MoveIsQuiet
  <2> QED BY <1>q, <2>1, <2>6
<1>12. CASE ReadBack(p)
  <2>1. TablesInv' /\ SameSubmitted BY <1>12, TablesStill DEF ReadBack, OnlyLocals
  <2>2. GotoOrFinish(p, "readback") \/ Finish(p) BY <1>12 DEF ReadBack, GotoOrFinish
  <2>3. "readback" \in Labels \ PastSubmit BY DEF Labels, PastSubmit
  <2>4. Quiet
    BY <1>12, <2>1, <2>2, <2>3, MoveIsQuiet DEF ReadBack, OnlyLocals, chainVars
  <2> QED BY <1>q, <2>1, <2>4
<1> QED BY <1>1, <1>2, <1>3, <1>4, <1>5, <1>6, <1>7, <1>8, <1>9, <1>10, <1>11, <1>12 DEF Step

(* New calls, crashes, leases: the tables stay, one process moves.           *)
LEMMA RequestKeeps ==
  ASSUME IInv, TInv', NEW p \in Procs,
         Request(p) \/ Crash(p) \/ \E x \in Attempts : ReconcileOne(p, x)
  PROVE  CallsInv' /\ TablesInv'
<1> USE DEF IInv
<1>1. UNCHANGED << tables, files, settle_calls >>
  BY DEF Request, ReadPayment, ReadPaid, Recover, Crash, ReconcileOne, OnlyLocals, chainVars
<1>2. TablesInv' /\ SameSubmitted BY <1>1, TablesStill
<1>3. Quiet
  <2> USE <1>1, <1>2 DEF Quiet, Start, TInv, LocalsOK
  <2>1. ASSUME NEW x \in Attempts, ReadPayment(p, x) PROVE Quiet
    BY <2>1 DEF ReadPayment, PastSubmit
  <2>2. ASSUME NEW q \in Quotes, ReadPaid(p, q) PROVE Quiet
    <3>1. attempts[entitlements[q]] \in Submitted
      BY <2>2 DEF ReadPaid, TablesInv, EntitledSubmitted, Submitted
    <3> QED BY <2>2, <3>1 DEF ReadPaid
  <2>3. ASSUME NEW x \in Attempts, NEW t \in Attempts, Recover(p, x, t) PROVE Quiet
    BY <2>3 DEF Recover, Submitted
  <2>4. ASSUME NEW x \in Attempts, ReconcileOne(p, x) PROVE Quiet
    <3>1. attempts[x] \in Submitted BY <2>4 DEF ReconcileOne, Reconcilable, Submitted
    <3>2. pc' = [pc EXCEPT ![p] = "unknown"] /\ att' = [att EXCEPT ![p] = x]
      BY <2>4 DEF ReconcileOne
    <3> QED BY <3>1, <3>2
  <2>5. ASSUME Crash(p) PROVE Quiet
    BY <2>5 DEF Crash, Finish, PastSubmit
  <2> QED BY <2>1, <2>2, <2>3, <2>4, <2>5 DEF Request
<1> QED BY <1>2, <1>3, QuietKeeps

LEMMA BackgroundKeeps ==
  ASSUME IInv, TInv',
         \/ \E q \in Quotes : ReadExpired(q)
         \/ RecoverUnsubmitted \/ RetentionCleanup \/ RetentionSweep
         \/ Environment \/ UNCHANGED vars
  PROVE  CallsInv' /\ TablesInv'
<1> USE DEF IInv
<1>o. TablesOK BY DEF TInv
<1>q. ASSUME TablesInv', SameSubmitted, UNCHANGED << pc, att, settle_calls >>
      PROVE  CallsInv' /\ TablesInv'
  BY <1>q, QuietKeeps DEF Quiet
<1>1. ASSUME NEW q \in Quotes, ReadExpired(q) PROVE CallsInv' /\ TablesInv'
  BY <1>1, <1>o, <1>q, SweepKeeps DEF ReadExpired, OnlyTables, locals, chainVars
<1>2. ASSUME RecoverUnsubmitted PROVE CallsInv' /\ TablesInv'
  BY <1>2, <1>o, <1>q, RecoverKeeps DEF RecoverUnsubmitted, OnlyTables, locals, chainVars
<1>3. ASSUME NEW S \in SUBSET Quotes, CleanupOf(S) PROVE CallsInv' /\ TablesInv'
  <2>1. TablesInv' /\ SameSubmitted BY <1>3, <1>o, CleanupKeeps
  <2> QED BY <1>3, <1>q, <2>1 DEF CleanupOf, locals, chainVars
<1>4. ASSUME RetentionSweep PROVE CallsInv' /\ TablesInv'
  BY <1>4, <1>o, <1>q, SweepKeeps DEF RetentionSweep, locals, chainVars
<1>5. ASSUME NEW q \in Quotes, Damage(q) PROVE CallsInv' /\ TablesInv'
  <2>1. \A r \in Quotes : files'[r] = "REMOVED" <=> files[r] = "REMOVED"
    BY <1>5 DEF Damage, TInv, RestOK
  <2>2. UNCHANGED << quotes, attempts, entitlements, reservations, artifacts >>
    BY <1>5 DEF Damage, tables
  <2>3. TablesInv' /\ SameSubmitted
    BY <2>1, <2>2, LedgerAssumption
       DEF TablesInv, SameSubmitted, QuoteFollowsAttempt, StateFollows, Follows, OneLive, Live,
           SoldIsLive, ActiveAttempt, NonceOnce, SameAuthorization, EntitledSubmitted,
           RemovedUnsold
  <2> QED BY <1>5, <1>q, <2>3 DEF Damage, locals, chainVars
<1>6. ASSUME \/ Time /\ UNCHANGED << locals, chainVars, files >>
             \/ ChainStep /\ UNCHANGED << locals, tables, files >>
             \/ UNCHANGED vars
      PROVE  CallsInv' /\ TablesInv'
  <2>1. UNCHANGED << tables, files, pc, att, settle_calls >>
    BY <1>6 DEF Time, QuoteAges, AuthorizationLapses, RetentionEnds, GrantExpires, ChainStep,
                Broadcast, Finalize, Revert, Reorg, vars, locals, chainVars
  <2> QED BY <1>q, <2>1, TablesStill
<1> QED BY <1>1, <1>2, <1>3, <1>4, <1>5, <1>6 DEF RetentionCleanup, Environment

-----------------------------------------------------------------------------
(* Theorems *)

LEMMA InitInv == Init => IInv
<1> SUFFICES ASSUME Init PROVE IInv OBVIOUS
<1>1. TInv
  BY GatewayAssumption
     DEF Init, LedgerInit, ChainInit, TInv, TablesOK, ClockOK, ChainTypeOK, LocalsOK, RestOK,
         QuoteStates, AttemptStates, StorageStates, Labels, Kinds
<1>2. CallsInv
  BY DEF Init, LedgerInit, ChainInit, CallsInv, ProcsSubmitted, PastSubmit, Submitted,
         NoChargeWithoutRecord, SettleOnce, SubmittedOnce, Reserved
<1>3. TablesInv
  BY LedgerAssumption
     DEF Init, LedgerInit, TablesInv, QuoteFollowsAttempt, StateFollows, Follows, OneLive, Live,
         SoldIsLive, NonceOnce, EntitledSubmitted, RemovedUnsold
<1> QED BY <1>1, <1>2, <1>3 DEF IInv

LEMMA NextInv == IInv /\ [Next]_vars => IInv'
<1> SUFFICES ASSUME IInv, [Next]_vars PROVE IInv' OBVIOUS
<1>1. TInv'
  BY StepTyped, RequestTyped, BackgroundTyped, StutterTyped DEF IInv, Next, Procs
<1>2. CallsInv' /\ TablesInv'
  BY <1>1, StepKeeps, RequestKeeps, BackgroundKeeps DEF Next, Procs
<1> QED BY <1>1, <1>2 DEF IInv

(* The state of a quote always agrees with its one live attempt, over every  *)
(* interleaving of handlers, recovery, reconciliation and retention.         *)
THEOREM QuotesFollow == Spec => []QuoteFollowsAttempt
<1>1. IInv => QuoteFollowsAttempt BY DEF IInv, TablesInv
<1> QED BY <1>1, InitInv, NextInv, PTL DEF Spec

(* A signed authorization is handed to the facilitator at most once, in      *)
(* merchant mode and under a v1 or v2 grant, for any number of quotes,       *)
(* retries, gateway processes and crashes.                                   *)
THEOREM SettledOnce == Spec => []OneSettlementPerAuthorization
<1>1. IInv => OneSettlementPerAuthorization
  <2> SUFFICES ASSUME IInv PROVE OneSettlementPerAuthorization OBVIOUS
  <2>1. \A x \in Attempts : settle_calls[x] \in Nat BY DEF IInv, TInv, ChainTypeOK
  <2> QED BY <2>1 DEF IInv, CallsInv, SettleOnce, NoChargeWithoutRecord, SubmittedOnce,
                      SameAuthorization, OneSettlementPerAuthorization
<1> QED BY <1>1, InitInv, NextInv, PTL DEF Spec

(* No attempt that settle was called for is ever rejected or forgotten.      *)
THEOREM ChargesRecorded == Spec => []NoChargeWithoutRecord
<1>1. IInv => NoChargeWithoutRecord BY DEF IInv, CallsInv
<1> QED BY <1>1, InitInv, NextInv, PTL DEF Spec

(* Retention never removes the evidence of a quote that may be charged.      *)
THEOREM EvidenceRetained == Spec => []ChargedEvidenceKept
<1>1. IInv => ChargedEvidenceKept
  BY LedgerAssumption DEF IInv, TablesInv, QuoteFollowsAttempt, StateFollows, Follows, Submitted,
                          RemovedUnsold, ChargedEvidenceKept
<1> QED BY <1>1, InitInv, NextInv, PTL DEF Spec
=============================================================================
