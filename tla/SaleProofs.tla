----------------------------- MODULE SaleProofs -----------------------------
(* Proofs that every entitlement rests on a final transfer of its own, that  *)
(* a grant bounds the settle calls, and that the gateway implements Sale.    *)
EXTENDS GatewayProofs, FiniteSetTheorems

-----------------------------------------------------------------------------
(* The inductive invariant of the transfers *)

(* A call that is about to commit saw a final transfer with its attempt's    *)
(* authorization; a later reorganisation takes the block away, but the       *)
(* number of inclusions never falls.                                         *)
Observed ==
  \A p \in Procs : pc[p] \in {"commit", "persist"} =>
    /\ tx[p] \in Attempts /\ SameAuthorization(att[p], tx[p])
    /\ blk[p] \in 1 .. inclusions[tx[p]]

FinalIncluded == \A x \in Attempts : chain[x] = "FINAL" => inclusions[x] >= 1

EventsBacked ==
  \A x \in Attempts : chain_events[x] # NULL =>
    /\ tx_hash[x] = chain_events[x] /\ SameAuthorization(x, chain_events[x])
    /\ receipts[x] \in 1 .. inclusions[chain_events[x]]

EventsOnce ==
  \A x, y \in Attempts : chain_events[x] = chain_events[y] /\ chain_events[x] # NULL => x = y

EntitledPaid ==
  \A q \in Quotes : entitlements[q] # NULL => chain_events[entitlements[q]] # NULL

EventsInv == EventsBacked /\ EventsOnce /\ EntitledPaid

TransferInv == Observed /\ FinalIncluded /\ EventsInv

-----------------------------------------------------------------------------
(* What a step does to the record of the transfers *)

EventsStill ==
  /\ UNCHANGED << chain_events, receipts, entitlements >>
  /\ \A x \in Attempts : tx_hash[x] # NULL => tx_hash'[x] = tx_hash[x]

Confirms(p) == pc[p] = "commit" /\ confirm(att[p], tx[p], blk[p])

LEMMA EventsMove ==
  ASSUME IInv, [Next]_vars
  PROVE  EventsStill \/ \E p \in Procs : Confirms(p)
<1> USE DEF EventsStill
<1>t. TablesOK /\ LocalsOK BY DEF IInv, TInv
<1>s. ASSUME UNCHANGED tables PROVE EventsStill BY <1>s DEF tables
<1>1. ASSUME NEW p \in Procs, Step(p) PROVE EventsStill \/ Confirms(p)
  <2>1. ASSUME BeginAttempt(p) PROVE EventsStill
    BY <1>s, <2>1 DEF BeginAttempt, beginAttempt
  <2>2. ASSUME MarkSubmitting(p) PROVE EventsStill
    BY <1>s, <2>2 DEF MarkSubmitting, submitAccepted, submitExpired, submitRefused
  <2>3. ASSUME Unknown(p) PROVE EventsStill
    <3>1. att[p] \in Attempts BY <1>t, <2>3 DEF Unknown, LocalsOK
    <3> QED BY <1>t, <2>3, <3>1 DEF Unknown, unknown, Coalesce, TablesOK
  <2>4. ASSUME Commit(p) PROVE EventsStill \/ Confirms(p)
    BY <1>s, <2>4 DEF Commit, Confirms
  <2>5. ASSUME Review(p) PROVE EventsStill
    BY <2>5 DEF Review, manualReview
  <2>6. ASSUME ReadArtifact(p) \/ Deliver(p) PROVE EventsStill
    BY <1>s, <2>6 DEF ReadArtifact, Deliver, recordDelivery, markRecovery
  <2>7. ASSUME ReadBack(p) \/ Settle(p) \/ SettleReturns(p) \/ Observe(p) \/ LoadEntitlement(p)
               \/ Revalidate(p)
        PROVE  EventsStill
    BY <1>s, <2>7 DEF ReadBack, Settle, SettleReturns, Observe, LoadEntitlement, Revalidate,
                      OnlyLocals
  <2> QED BY <1>1, <2>1, <2>2, <2>3, <2>4, <2>5, <2>6, <2>7 DEF Step
<1>2. ASSUME NEW p \in Procs, Request(p) \/ Crash(p) \/ \E x \in Attempts : ReconcileOne(p, x)
      PROVE  EventsStill
  BY <1>s, <1>2 DEF Request, ReadPayment, ReadPaid, Recover, Crash, ReconcileOne, OnlyLocals
<1>3. ASSUME \/ \E q \in Quotes : ReadExpired(q)
             \/ RecoverUnsubmitted \/ RetentionCleanup \/ RetentionSweep
      PROVE  EventsStill
  BY <1>s, <1>3 DEF ReadExpired, expire, RecoverUnsubmitted, recoverUnsubmitted,
     RetentionCleanup, CleanupOf, removeArtifacts, RetentionSweep, sweepExpired
<1>4. ASSUME Environment \/ UNCHANGED vars PROVE EventsStill
  BY <1>s, <1>4 DEF Environment, Time, QuoteAges, AuthorizationLapses, RetentionEnds,
     GrantExpires, Damage, vars
<1> QED BY <1>1, <1>2, <1>3, <1>4 DEF Next, Procs

(* A block number, once reached, stays reached.                              *)
ChainGrows ==
  \A x \in Attempts : /\ inclusions'[x] >= inclusions[x]
                      /\ chain'[x] = "FINAL" => chain[x] = "FINAL" \/ inclusions'[x] >= 1

LEMMA ChainMoves ==
  ASSUME IInv, [Next]_vars
  PROVE  ChainGrows
<1>t. ChainTypeOK BY DEF IInv, TInv
<1>s. ASSUME UNCHANGED << chain, inclusions >> PROVE ChainGrows
  BY <1>s, <1>t DEF ChainGrows, ChainTypeOK
<1>1. ASSUME NEW p \in Procs, Step(p) PROVE ChainGrows
  <2>1. UNCHANGED << chain, inclusions >>
    BY <1>1 DEF Step, BeginAttempt, ReadBack, MarkSubmitting, Settle, SettleReturns, Unknown,
       Observe, Commit, Review, LoadEntitlement, Revalidate, ReadArtifact, Deliver, OnlyLocals,
       OnlyTables, chainVars
  <2> QED BY <1>s, <2>1
<1>2. ASSUME NEW p \in Procs, Request(p) \/ Crash(p) \/ \E x \in Attempts : ReconcileOne(p, x)
      PROVE  ChainGrows
  BY <1>s, <1>2 DEF Request, ReadPayment, ReadPaid, Recover, Crash, ReconcileOne, OnlyLocals,
     chainVars
<1>3. ASSUME \/ \E q \in Quotes : ReadExpired(q)
             \/ RecoverUnsubmitted \/ RetentionCleanup \/ RetentionSweep
      PROVE  ChainGrows
  BY <1>s, <1>3 DEF ReadExpired, RecoverUnsubmitted, RetentionCleanup, CleanupOf,
     RetentionSweep, OnlyTables, chainVars
<1>4. ASSUME NEW x \in Attempts, Broadcast(x) \/ Finalize(x) \/ Revert(x) \/ Reorg(x)
      PROVE  ChainGrows
  BY <1>4, <1>t DEF Broadcast, Finalize, Revert, Reorg, ChainGrows, ChainTypeOK
<1>5. ASSUME Environment \/ UNCHANGED vars PROVE ChainGrows
  BY <1>s, <1>4, <1>5 DEF Environment, ChainStep, Damage, vars, chainVars
<1> QED BY <1>1, <1>2, <1>3, <1>5 DEF Next, Procs

(* How a call gets to the point of committing: it was there, or it sees the  *)
(* transfer now.                                                             *)
Committing == {"commit", "persist"}

SeesTransfer(r) ==
  \/ pc'[r] \notin Committing
  \/ /\ att'[r] = att[r] /\ tx'[r] = tx[r]
     /\ \/ pc[r] \in Committing /\ blk'[r] = blk[r]
        \/ /\ pc[r] = "observe"
           /\ Confirmable(att[r], tx[r], kind[r] = "recover")
           /\ blk'[r] = inclusions[tx[r]] /\ UNCHANGED inclusions

LEMMA OtherSees ==
  ASSUME LocalsOK, NEW p \in Procs, NEW l \in Labels,
         \/ Finish(p)
         \/ Goto(p, l) /\ (l \in Committing => pc[p] \in Committing)
         \/ \E k \in Kinds, x \in Attempts, t \in Attempts \cup {NULL} :
              Start(p, k, l, x, t) /\ l \notin Committing
  PROVE  \A r \in Procs : SeesTransfer(r)
<1> SUFFICES ASSUME NEW r \in Procs PROVE SeesTransfer(r) OBVIOUS
<1>1. CASE r = p
  BY <1>1 DEF LocalsOK, Finish, Goto, Start, SeesTransfer, Committing
<1>2. CASE r # p
  BY <1>2 DEF LocalsOK, Finish, Goto, Start, SeesTransfer, Committing
<1> QED BY <1>1, <1>2

LEMMA SightMoves ==
  ASSUME IInv, [Next]_vars
  PROVE  \A r \in Procs : SeesTransfer(r)
<1>t. LocalsOK BY DEF IInv, TInv
<1>s. ASSUME UNCHANGED locals PROVE \A r \in Procs : SeesTransfer(r)
  BY <1>s DEF locals, SeesTransfer
<1>l. Labels = {"idle", "verified", "begun", "readback", "settle", "settling", "unknown",
                "observe", "catch", "catchReview", "commit", "persist", "review", "entitled",
                "revalidate", "deliver", "record"}
  BY DEF Labels
<1>k. /\ \A k \in Kinds : /\ AfterFailure(k) \in Labels \ Committing
                          /\ AfterReview(k) \in Labels \ Committing
      /\ {"read", "recover", "reconcile", "lastReconcile"} \subseteq Kinds
  BY DEF Kinds, Labels, AfterFailure, AfterReview, Committing
<1>1. ASSUME NEW p \in Procs, Step(p) PROVE \A r \in Procs : SeesTransfer(r)
  <2>k. kind[p] \in Kinds BY <1>t DEF LocalsOK
  <2>g. ASSUME NEW l \in Labels \ Committing, Goto(p, l) \/ GotoOrFinish(p, l) \/ Finish(p)
        PROVE  \A r \in Procs : SeesTransfer(r)
    BY <1>t, <2>g, OtherSees DEF GotoOrFinish
  <2>1. ASSUME \/ BeginAttempt(p) \/ ReadBack(p) \/ MarkSubmitting(p) \/ Settle(p) \/ Review(p)
               \/ Revalidate(p) \/ ReadArtifact(p) \/ Deliver(p)
        PROVE  \A r \in Procs : SeesTransfer(r)
    <3> DEFINE Next1 == {"begun", "readback", "settle", "settling", "review", "deliver", "record"}
    <3>1. \E l \in Next1 : Goto(p, l) \/ Finish(p)
      BY <2>1 DEF BeginAttempt, ReadBack, MarkSubmitting, Settle, Review, Revalidate, ReadArtifact,
                  Deliver
    <3>2. \A l \in Next1 : l \in Labels \ Committing
      BY <1>l DEF Committing
    <3> QED BY <2>g, <3>1, <3>2
  <2>2. ASSUME SettleReturns(p) PROVE \A r \in Procs : SeesTransfer(r)
    <3>1. CASE Goto(p, "catch") BY <1>l, <2>g, <3>1 DEF Committing
    <3>2. CASE ~Goto(p, "catch")
      BY <1>t, <2>2, <3>2 DEF SettleReturns, LocalsOK, SeesTransfer, Committing
    <3> QED BY <3>1, <3>2
  <2>3. ASSUME Unknown(p) PROVE \A r \in Procs : SeesTransfer(r)
    <3>1. CASE pc[p] = "persist"
      BY <1>l, <1>t, <2>3, <3>1, OtherSees DEF Unknown, Committing
    <3>2. CASE pc[p] # "persist"
      <4>1. \E l \in {"observe", "review"} : Goto(p, l) \/ Finish(p)
        BY <2>3, <3>2 DEF Unknown
      <4> QED BY <1>l, <2>g, <4>1 DEF Committing
    <3> QED BY <3>1, <3>2
  <2>4. ASSUME Observe(p) PROVE \A r \in Procs : SeesTransfer(r)
    <3>1. PICK seen \in confirmation(att[p], tx[p], kind[p] = "recover") :
            \/ /\ seen = "FINAL"
               /\ pc' = [pc EXCEPT ![p] = IF kind[p] = "recover" THEN "persist" ELSE "commit"]
               /\ blk' = [blk EXCEPT ![p] = inclusions[tx[p]]]
               /\ UNCHANGED << kind, att, tx >>
            \/ seen = "NONE" /\ GotoOrFinish(p, AfterFailure(kind[p]))
            \/ seen = "MANUAL_REVIEW" /\ Goto(p, AfterReview(kind[p]))
      BY <2>4 DEF Observe
    <3>2. CASE seen = "FINAL"
      <4>1. Confirmable(att[p], tx[p], kind[p] = "recover")
        BY <3>1, <3>2 DEF confirmation
      <4>2. pc[p] = "observe" /\ UNCHANGED inclusions
        BY <2>4 DEF Observe, OnlyLocals, chainVars
      <4> QED BY <1>t, <3>1, <3>2, <4>1, <4>2 DEF LocalsOK, SeesTransfer
    <3>3. CASE seen # "FINAL"
      BY <1>k, <2>g, <2>k, <3>1, <3>3
    <3> QED BY <3>2, <3>3
  <2>5. ASSUME Commit(p) PROVE \A r \in Procs : SeesTransfer(r)
    <3>1. \E l \in {"entitled", "idle", AfterFailure(kind[p])} : GotoOrFinish(p, l)
      BY <2>5 DEF Commit
    <3>2. {"entitled", "idle", AfterFailure(kind[p])} \subseteq Labels \ Committing
      BY <1>k, <1>l, <2>k DEF Committing
    <3> QED BY <2>g, <3>1, <3>2
  <2>6. ASSUME LoadEntitlement(p) PROVE \A r \in Procs : SeesTransfer(r)
    <3>1. CASE Finish(p) BY <1>l, <2>g, <3>1 DEF Committing
    <3>2. CASE ~Finish(p)
      BY <1>t, <2>6, <3>2 DEF LoadEntitlement, LocalsOK, SeesTransfer, Committing
    <3> QED BY <3>1, <3>2
  <2> QED BY <1>1, <2>1, <2>2, <2>3, <2>4, <2>5, <2>6 DEF Step
<1>2. ASSUME NEW p \in Procs, Request(p) \/ Crash(p) \/ \E x \in Attempts : ReconcileOne(p, x)
      PROVE  \A r \in Procs : SeesTransfer(r)
  <2>1. CASE Crash(p) BY <1>l, <1>t, <2>1, OtherSees DEF Crash
  <2>2. CASE ~Crash(p)
    <3>1. \E l \in {"verified", "entitled", "observe", "unknown"} : pc' = [pc EXCEPT ![p] = l]
      BY <1>2, <2>2 DEF Request, ReadPayment, ReadPaid, Recover, ReconcileOne, Start
    <3>2. \A r \in Procs \ {p} : att'[r] = att[r] /\ tx'[r] = tx[r] /\ blk'[r] = blk[r]
      BY <1>2, <1>t, <2>2 DEF Request, ReadPayment, ReadPaid, Recover, ReconcileOne, Start,
                              LocalsOK
    <3> QED BY <1>t, <3>1, <3>2 DEF LocalsOK, SeesTransfer, Committing
  <2> QED BY <2>1, <2>2
<1>3. ASSUME \/ \E q \in Quotes : ReadExpired(q)
             \/ RecoverUnsubmitted \/ RetentionCleanup \/ RetentionSweep
             \/ Environment \/ UNCHANGED vars
      PROVE  \A r \in Procs : SeesTransfer(r)
  BY <1>3, <1>s DEF ReadExpired, RecoverUnsubmitted, RetentionCleanup, CleanupOf,
     RetentionSweep, Environment, Damage, vars
<1> QED BY <1>1, <1>2, <1>3 DEF Next, Procs

-----------------------------------------------------------------------------
(* The transfers stay recorded as they were *)

LEMMA TransferInit == Init => TransferInv
BY DEF Init, LedgerInit, ChainInit, TransferInv, EventsInv, Observed, FinalIncluded,
       EventsBacked, EventsOnce, EntitledPaid

LEMMA TransferNext ==
  ASSUME IInv, TInv', TransferInv, [Next]_vars
  PROVE  TransferInv'
<1> USE LedgerAssumption DEF TransferInv
<1>t. TablesOK /\ LocalsOK /\ ChainTypeOK /\ TablesOK' /\ LocalsOK' /\ ChainTypeOK'
  BY DEF IInv, TInv
<1>g. ChainGrows BY ChainMoves
<1>1. FinalIncluded'
  BY <1>g, <1>t DEF FinalIncluded, ChainGrows, ChainTypeOK
<1>2. Observed'
  <2> SUFFICES ASSUME NEW r \in Procs, pc'[r] \in Committing
               PROVE  /\ tx'[r] \in Attempts /\ SameAuthorization(att'[r], tx'[r])
                      /\ blk'[r] \in 1 .. inclusions'[tx'[r]]
    BY DEF Observed, Committing, SameAuthorization
  <2>1. SeesTransfer(r) BY SightMoves
  <2>2. CASE pc[r] \in Committing /\ blk'[r] = blk[r] /\ att'[r] = att[r] /\ tx'[r] = tx[r]
    <3>1. /\ tx[r] \in Attempts /\ SameAuthorization(att[r], tx[r])
          /\ blk[r] \in 1 .. inclusions[tx[r]]
      BY <2>2 DEF Observed, Committing
    <3> QED BY <1>g, <1>t, <2>2, <3>1 DEF ChainGrows, ChainTypeOK
  <2>3. CASE /\ att'[r] = att[r] /\ tx'[r] = tx[r]
             /\ Confirmable(att[r], tx[r], kind[r] = "recover")
             /\ blk'[r] = inclusions[tx[r]] /\ UNCHANGED inclusions
    <3>1. tx[r] \in Attempts /\ chain[tx[r]] = "FINAL" /\ SameAuthorization(att[r], tx[r])
      BY <1>t, <2>3 DEF LocalsOK, Confirmable, bindsTransfer, SameAuthorization
    <3>2. inclusions[tx[r]] >= 1 BY <3>1 DEF FinalIncluded
    <3> QED BY <1>t, <2>3, <3>1, <3>2 DEF ChainTypeOK
  <2> QED BY <2>1, <2>2, <2>3 DEF SeesTransfer
<1>3. EventsInv'
  <2>1. CASE EventsStill
    <3>1. EventsBacked'
      <4> SUFFICES ASSUME NEW x \in Attempts, chain_events'[x] # NULL
                   PROVE  /\ tx_hash'[x] = chain_events'[x]
                          /\ SameAuthorization(x, chain_events'[x])
                          /\ receipts'[x] \in 1 .. inclusions'[chain_events'[x]]
        BY DEF EventsBacked, SameAuthorization
      <4>1. /\ chain_events[x] # NULL /\ tx_hash[x] = chain_events[x]
            /\ SameAuthorization(x, chain_events[x])
            /\ receipts[x] \in 1 .. inclusions[chain_events[x]]
            /\ chain_events[x] \in Attempts
        BY <1>t, <2>1 DEF EventsInv, EventsBacked, EventsStill, TablesOK
      <4> QED BY <1>g, <1>t, <2>1, <4>1 DEF EventsStill, ChainGrows, ChainTypeOK
    <3> QED BY <2>1, <3>1 DEF EventsInv, EventsStill, EventsOnce, EntitledPaid
  <2>2. ASSUME NEW p \in Procs, Confirms(p) PROVE EventsInv'
    <3> DEFINE x == att[p]
               t == tx[p]
    <3>1. /\ x \in Attempts /\ t \in Attempts /\ SameAuthorization(x, t)
          /\ blk[p] \in 1 .. inclusions[t]
      BY <1>t, <2>2 DEF Confirms, LocalsOK, Observed
    <3>2. /\ EventUnused(x, t)
          /\ chain_events' = [chain_events EXCEPT ![x] = t]
          /\ receipts' = [receipts EXCEPT ![x] = blk[p]]
          /\ entitlements' = [entitlements EXCEPT ![quote_id[x]] = x]
          /\ tx_hash' = [tx_hash EXCEPT ![x] = t]
      BY <2>2 DEF Confirms, confirm, MayConfirm
    <3> HIDE DEF x, t
    <3>3. EventsBacked'
      <4> SUFFICES ASSUME NEW y \in Attempts, chain_events'[y] # NULL
                   PROVE  /\ tx_hash'[y] = chain_events'[y]
                          /\ SameAuthorization(y, chain_events'[y])
                          /\ receipts'[y] \in 1 .. inclusions'[chain_events'[y]]
        BY DEF EventsBacked, SameAuthorization
      <4>1. CASE y = x
        BY <1>g, <1>t, <3>1, <3>2, <4>1 DEF ChainGrows, ChainTypeOK, TablesOK, x, t
      <4>2. CASE y # x
        <5>1. /\ chain_events'[y] = chain_events[y] /\ tx_hash'[y] = tx_hash[y]
              /\ receipts'[y] = receipts[y] /\ chain_events[y] \in Attempts
          BY <1>t, <3>1, <3>2, <4>2 DEF TablesOK
        <5> QED BY <1>g, <1>t, <5>1 DEF EventsInv, EventsBacked, ChainGrows, ChainTypeOK
      <4> QED BY <4>1, <4>2
    <3>4. EventsOnce'
      BY <1>t, <3>1, <3>2 DEF EventsInv, EventsOnce, EventUnused, TablesOK
    <3>5. EntitledPaid'
      <4> SUFFICES ASSUME NEW q \in Quotes, entitlements'[q] # NULL
                   PROVE  chain_events'[entitlements'[q]] # NULL
        BY DEF EntitledPaid
      <4>1. CASE q = quote_id[x] BY <1>t, <3>1, <3>2, <4>1 DEF TablesOK
      <4>2. CASE q # quote_id[x]
        <5>1. entitlements[q] \in Attempts /\ entitlements'[q] = entitlements[q]
          BY <1>t, <3>2, <4>2 DEF TablesOK
        <5> QED BY <1>t, <3>1, <3>2, <5>1 DEF EventsInv, EntitledPaid, TablesOK
      <4> QED BY <4>1, <4>2
    <3> QED BY <3>3, <3>4, <3>5 DEF EventsInv
  <2> QED BY <2>1, <2>2, EventsMove
<1> QED BY <1>1, <1>2, <1>3

(* An entitlement always rests on a transfer that was final in the recorded  *)
(* block, carries the attempt's own authorization and pays nothing else,     *)
(* whatever was reorganised since and whichever call confirmed it.           *)
THEOREM EntitlementBacked == Spec => []EntitledByOwnTransfer
<1>1. IInv /\ TransferInv => EntitledByOwnTransfer
  <2> SUFFICES ASSUME IInv, TransferInv, NEW q \in Quotes, entitlements[q] # NULL
               PROVE  LET x == entitlements[q]
                          t == chain_events[x]
                      IN /\ quote_id[x] = q /\ attempts[x] \in {"CONFIRMED", "MANUAL_REVIEW"}
                         /\ t # NULL /\ tx_hash[x] = t
                         /\ SameAuthorization(x, t)
                         /\ receipts[x] \in 1 .. inclusions[t]
                         /\ \A y \in Attempts : chain_events[y] = t => y = x
    BY DEF EntitledByOwnTransfer
  <2>1. entitlements[q] \in Attempts BY DEF IInv, TInv, TablesOK
  <2> QED BY <2>1 DEF IInv, TablesInv, EntitledSubmitted, TransferInv, EventsInv,
                      EntitledPaid, EventsBacked, EventsOnce
<1>2. IInv /\ TransferInv /\ [Next]_vars => IInv' /\ TransferInv'
  <2>1. IInv' => TInv' BY DEF IInv
  <2> QED BY <2>1, NextInv, TransferNext
<1> QED BY <1>1, <1>2, InitInv, TransferInit, PTL DEF Spec

(* No worker, handler or recovery replaces or loses a transaction hash that  *)
(* was associated with an attempt.                                           *)
THEOREM HashKept == Spec => TransactionKept
<1>1. IInv /\ [Next]_vars
      => [\A x \in Attempts : tx_hash[x] # NULL => tx_hash'[x] = tx_hash[x]]_vars
  <2> SUFFICES ASSUME IInv, [Next]_vars, NEW x \in Attempts, tx_hash[x] # NULL
               PROVE  tx_hash'[x] = tx_hash[x]
    OBVIOUS
  <2>1. ASSUME NEW p \in Procs, Confirms(p) PROVE tx_hash'[x] = tx_hash[x]
    BY <2>1 DEF Confirms, confirm, MayConfirm, IInv, TInv, TablesOK
  <2> QED BY <2>1, EventsMove DEF EventsStill
<1> QED BY <1>1, InitInv, NextInv, PTL DEF Spec, TransactionKept

-----------------------------------------------------------------------------
(* The budget of a grant *)

(* The reservations are made when markSubmitting accepts and at no other     *)
(* time; they are never given back.                                          *)
LEMMA ReservationsMove ==
  ASSUME IInv, [Next]_vars
  PROVE  UNCHANGED reservations \/ \E x \in Attempts : submitAccepted(x)
<1>1. ASSUME NEW p \in Procs, Step(p)
      PROVE  UNCHANGED reservations \/ \E x \in Attempts : submitAccepted(x)
  <2>1. CASE MarkSubmitting(p)
    <3>1. att[p] \in Attempts BY <2>1 DEF MarkSubmitting, IInv, TInv, LocalsOK
    <3> QED BY <2>1, <3>1 DEF MarkSubmitting, submitExpired, submitRefused, tables
  <2> QED BY <1>1, <2>1 DEF Step, BeginAttempt, beginAttempt, ReadBack, Settle, SettleReturns,
       Unknown, unknown, Observe, Commit, confirm, Review, manualReview, LoadEntitlement,
       Revalidate, ReadArtifact, Deliver, recordDelivery, markRecovery, OnlyLocals, tables
<1>2. ASSUME NEW p \in Procs, Request(p) \/ Crash(p) \/ \E x \in Attempts : ReconcileOne(p, x)
      PROVE  UNCHANGED reservations
  BY <1>2 DEF Request, ReadPayment, ReadPaid, Recover, Crash, ReconcileOne, OnlyLocals, tables
<1>3. ASSUME \/ \E q \in Quotes : ReadExpired(q)
             \/ RecoverUnsubmitted \/ RetentionCleanup \/ RetentionSweep
             \/ Environment \/ UNCHANGED vars
      PROVE  UNCHANGED reservations
  BY <1>3 DEF ReadExpired, expire, RecoverUnsubmitted, recoverUnsubmitted, RetentionCleanup,
     CleanupOf, removeArtifacts, RetentionSweep, sweepExpired, Environment, Time, QuoteAges,
     AuthorizationLapses, RetentionEnds, GrantExpires, Damage, vars, tables
<1> QED BY <1>1, <1>2, <1>3 DEF Next, Procs

Budget ==
  /\ IsFiniteSet(reservations)
  /\ Mode = "v1" => Cardinality(reservations) <= 1
  /\ Mode = "v2" => /\ Cardinality(reservations) <= MaxSubmissions
                    /\ \A x, y \in reservations : payer[x] = payer[y] => x = y

LEMMA BudgetNext ==
  ASSUME IInv, Budget, [Next]_vars
  PROVE  Budget'
<1>1. CASE UNCHANGED reservations BY <1>1 DEF Budget
<1>2. ASSUME NEW x \in Attempts, submitAccepted(x) PROVE Budget'
  <2>1. MayReserve(x) BY <1>2 DEF submitAccepted
  <2>2. CASE Mode = "merchant" BY <1>2, <2>2 DEF submitAccepted, Budget
  <2>3. CASE Mode # "merchant"
    <3>1. reservations' = reservations \cup {x} BY <1>2, <2>3 DEF submitAccepted
    <3>2. /\ IsFiniteSet(reservations')
          /\ Cardinality(reservations') <= Cardinality(reservations) + 1
      <4>1. Cardinality(reservations) \in Nat BY FS_CardinalityType DEF Budget
      <4> QED BY <3>1, <4>1, FS_AddElement DEF Budget
    <3>3. Mode = "v1" => Cardinality(reservations') <= 1
      <4>1. Mode = "v1" => reservations' = {x} BY <2>1, <3>1 DEF MayReserve
      <4> QED BY <4>1, FS_Singleton
    <3>4. ASSUME Mode = "v2" PROVE Cardinality(reservations') <= MaxSubmissions
      <4>1. Cardinality(reservations) < MaxSubmissions
        BY <2>1, <3>4 DEF MayReserve
      <4>2. Cardinality(reservations) \in Nat /\ Cardinality(reservations') \in Nat
        BY <3>2, FS_CardinalityType DEF Budget
      <4> QED BY <3>2, <4>1, <4>2, LedgerAssumption
    <3>5. ASSUME Mode = "v2" PROVE \A y, z \in reservations' : payer[y] = payer[z] => y = z
      <4>1. \A y \in reservations : payer[y] # payer[x]
        BY <2>1, <3>5 DEF MayReserve
      <4> QED BY <3>1, <3>5, <4>1 DEF Budget
    <3> QED BY <3>2, <3>3, <3>4, <3>5 DEF Budget
  <2> QED BY <2>2, <2>3
<1> QED BY <1>1, <1>2, ReservationsMove

(* Under a grant the settle calls, of all quotes and processes together,     *)
(* never exceed its budget, and no payer is charged twice under a v2 grant.  *)
THEOREM BudgetKept == Spec => []GrantBudget
<1>1. Init => Budget
  BY LedgerAssumption, FS_EmptySet DEF Init, LedgerInit, Budget
<1>2. IInv /\ Budget => GrantBudget
  <2> SUFFICES ASSUME IInv, Budget PROVE GrantBudget OBVIOUS
  <2> DEFINE called == {x \in Attempts : settle_calls[x] > 0}
  <2>1. Mode # "merchant" => called \subseteq reservations
    BY DEF IInv, CallsInv, NoChargeWithoutRecord, Reserved
  <2>2. called \subseteq reservations
        => Cardinality(called) <= Cardinality(reservations) /\ Cardinality(called) \in Nat
    BY FS_Subset, FS_CardinalityType DEF Budget
  <2>3. Cardinality(reservations) \in Nat BY FS_CardinalityType DEF Budget
  <2> HIDE DEF called
  <2>4. Mode = "v1" => Cardinality(called) <= 1 BY <2>1, <2>2, <2>3 DEF Budget
  <2>5. Mode = "v2" => Cardinality(called) <= MaxSubmissions
    BY <2>1, <2>2, <2>3, LedgerAssumption DEF Budget
  <2>6. Mode = "v2" => \A x, y \in called : payer[x] = payer[y] => x = y
    BY <2>1 DEF Budget
  <2> QED BY <2>4, <2>5, <2>6 DEF GrantBudget, called
<1>3. IInv /\ Budget /\ [Next]_vars => Budget' BY BudgetNext
<1> QED BY <1>1, <1>2, <1>3, InitInv, NextInv, PTL DEF Spec

-----------------------------------------------------------------------------
(* Deliveries *)

LEMMA DeliveriesMove ==
  ASSUME IInv, [Next]_vars
  PROVE  UNCHANGED deliveries \/ \E q \in Quotes : recordDelivery(q)
<1>1. ASSUME NEW p \in Procs, Step(p), ~Deliver(p) PROVE UNCHANGED deliveries
  BY <1>1 DEF Step, BeginAttempt, beginAttempt, ReadBack, MarkSubmitting, submitAccepted,
     submitExpired, submitRefused, Settle, SettleReturns, Unknown, unknown, Observe, Commit,
     confirm, Review, manualReview, LoadEntitlement, Revalidate, ReadArtifact, markRecovery,
     OnlyLocals, tables
<1>2. ASSUME NEW p \in Procs, Deliver(p)
      PROVE  UNCHANGED deliveries \/ \E q \in Quotes : recordDelivery(q)
  <2>1. att[p] \in Attempts BY <1>2 DEF Deliver, IInv, TInv, LocalsOK
  <2> QED BY <1>2, <2>1, LedgerAssumption DEF Deliver, tables
<1>3. ASSUME NEW p \in Procs, Request(p) \/ Crash(p) \/ \E x \in Attempts : ReconcileOne(p, x)
      PROVE  UNCHANGED deliveries
  BY <1>3 DEF Request, ReadPayment, ReadPaid, Recover, Crash, ReconcileOne, OnlyLocals, tables
<1>4. ASSUME \/ \E q \in Quotes : ReadExpired(q)
             \/ RecoverUnsubmitted \/ RetentionCleanup \/ RetentionSweep
             \/ Environment \/ UNCHANGED vars
      PROVE  UNCHANGED deliveries
  BY <1>4 DEF ReadExpired, expire, RecoverUnsubmitted, recoverUnsubmitted, RetentionCleanup,
     CleanupOf, removeArtifacts, RetentionSweep, sweepExpired, Environment, Time, QuoteAges,
     AuthorizationLapses, RetentionEnds, GrantExpires, Damage, vars, tables
<1> QED BY <1>1, <1>2, <1>3, <1>4 DEF Next, Procs

(* Nothing reaches the chain that settle was not called for, and nobody      *)
(* takes an entitlement back.                                                *)
SentBySettle ==
  \A x \in Attempts : chain[x] # "NONE" \/ inclusions[x] > 0 => settle_calls[x] > 0

DeliveredEntitled == \A q \in deliveries : entitlements[q] # NULL

DeliveryInv == SentBySettle /\ DeliveredEntitled

LEMMA SentNext ==
  ASSUME IInv, SentBySettle, [Next]_vars
  PROVE  SentBySettle'
<1>t. ChainTypeOK BY DEF IInv, TInv
<1>s. ASSUME UNCHANGED << settle_calls, chain, inclusions >> PROVE SentBySettle'
  BY <1>s DEF SentBySettle
<1>1. ASSUME NEW p \in Procs, Step(p) PROVE SentBySettle'
  <2>1. CASE Settle(p)
    <3>1. att[p] \in Attempts BY <2>1 DEF Settle, IInv, TInv, LocalsOK
    <3> QED BY <1>t, <2>1, <3>1 DEF Settle, SentBySettle, ChainTypeOK
  <2>2. CASE ~Settle(p)
    <3>1. UNCHANGED chainVars
      BY <1>1, <2>2 DEF Step, BeginAttempt, ReadBack, MarkSubmitting, SettleReturns, Unknown,
         Observe, Commit, Review, LoadEntitlement, Revalidate, ReadArtifact, Deliver, OnlyLocals,
         OnlyTables
    <3> QED BY <1>s, <3>1 DEF chainVars
  <2> QED BY <2>1, <2>2
<1>2. ASSUME NEW p \in Procs, Request(p) \/ Crash(p) \/ \E x \in Attempts : ReconcileOne(p, x)
      PROVE  SentBySettle'
  BY <1>s, <1>2 DEF Request, ReadPayment, ReadPaid, Recover, Crash, ReconcileOne, OnlyLocals,
     chainVars
<1>3. ASSUME \/ \E q \in Quotes : ReadExpired(q)
             \/ RecoverUnsubmitted \/ RetentionCleanup \/ RetentionSweep
      PROVE  SentBySettle'
  BY <1>s, <1>3 DEF ReadExpired, RecoverUnsubmitted, RetentionCleanup, CleanupOf,
     RetentionSweep, OnlyTables, chainVars
<1>4. ASSUME NEW x \in Attempts, Broadcast(x) \/ Finalize(x) \/ Revert(x) \/ Reorg(x)
      PROVE  SentBySettle'
  BY <1>4, <1>t DEF Broadcast, Finalize, Revert, Reorg, SentBySettle, ChainTypeOK
<1>5. ASSUME Environment \/ UNCHANGED vars PROVE SentBySettle'
  BY <1>s, <1>4, <1>5 DEF Environment, ChainStep, Damage, vars, chainVars
<1> QED BY <1>1, <1>2, <1>3, <1>5 DEF Next, Procs

LEMMA DeliveredNext ==
  ASSUME IInv, DeliveredEntitled, [Next]_vars
  PROVE  DeliveredEntitled'
<1>t. TablesOK /\ LocalsOK BY DEF IInv, TInv
<1>1. \A q \in Quotes : entitlements[q] # NULL => entitlements'[q] # NULL
  <2>1. ASSUME NEW p \in Procs, Confirms(p), NEW q \in Quotes, entitlements[q] # NULL
        PROVE  entitlements'[q] # NULL
    <3>1. att[p] \in Attempts BY <1>t, <2>1 DEF Confirms, LocalsOK
    <3> QED BY <1>t, <2>1, <3>1, LedgerAssumption DEF Confirms, confirm, TablesOK
  <2> QED BY <2>1, EventsMove DEF EventsStill
<1>2. ASSUME NEW r \in Quotes, recordDelivery(r) PROVE DeliveredEntitled'
  BY <1>2 DEF recordDelivery, Deliverable, DeliveredEntitled
<1>3. ASSUME UNCHANGED deliveries PROVE DeliveredEntitled'
  BY <1>t, <1>1, <1>3 DEF TablesOK, DeliveredEntitled
<1> QED BY <1>2, <1>3, DeliveriesMove

(* The attempt behind an entitlement is the very one whose settle call made  *)
(* the transfer: the transfer's attempt is submitted because it was sent,    *)
(* the entitled one because it was confirmed, and no authorization is        *)
(* submitted twice.                                                          *)
LEMMA EntitledBySettle ==
  ASSUME IInv, TransferInv, SentBySettle, NEW q \in Quotes, entitlements[q] # NULL
  PROVE  LET x == entitlements[q] IN
         /\ x \in Attempts /\ quote_id[x] = q /\ attempts[x] \in {"CONFIRMED", "MANUAL_REVIEW"}
         /\ settle_calls[x] = 1 /\ inclusions[x] > 0
<1>1. PICK x \in Attempts : x = entitlements[q] BY DEF IInv, TInv, TablesOK
<1>2. quote_id[x] = q /\ attempts[x] \in {"CONFIRMED", "MANUAL_REVIEW"}
  BY <1>1 DEF IInv, TablesInv, EntitledSubmitted
<1>3. chain_events[x] # NULL
  BY <1>1 DEF TransferInv, EventsInv, EntitledPaid
<1>4. PICK t \in Attempts : t = chain_events[x] BY <1>1, <1>3 DEF IInv, TInv, TablesOK
<1>5. SameAuthorization(x, t) /\ inclusions[t] \in Nat /\ receipts[x] \in 1 .. inclusions[t]
  BY <1>3, <1>4 DEF TransferInv, EventsInv, EventsBacked, IInv, TInv, ChainTypeOK
<1>6. inclusions[t] > 0 BY <1>5
<1>7. settle_calls[t] \in Nat /\ settle_calls[t] > 0
  BY <1>6 DEF SentBySettle, IInv, TInv, ChainTypeOK
<1>8. attempts[t] \in Submitted /\ settle_calls[t] <= 1
  BY <1>7 DEF IInv, CallsInv, NoChargeWithoutRecord, SettleOnce
<1>9. attempts[x] \in Submitted BY <1>2 DEF Submitted
<1>10. x = t BY <1>5, <1>8, <1>9 DEF IInv, CallsInv, SubmittedOnce
<1> QED BY <1>1, <1>2, <1>6, <1>7, <1>8, <1>10

(* Every report that was delivered was bought by one settle call of its own, *)
(* whose transfer became final, and its sale is never undone, in every grant *)
(* mode and for any number of quotes, processes, crashes and forks.          *)
THEOREM DeliveriesBought == Spec => []DeliveredWasBought
<1>1. Init => DeliveryInv
  BY DEF Init, LedgerInit, ChainInit, DeliveryInv, SentBySettle, DeliveredEntitled
<1>2. IInv /\ TransferInv /\ DeliveryInv => DeliveredWasBought
  <2> SUFFICES ASSUME IInv, TransferInv, DeliveryInv, NEW q \in deliveries
               PROVE  LET x == entitlements[q] IN
                      /\ x # NULL /\ quotes[q] \in {"PAID", "MANUAL_REVIEW"}
                      /\ settle_calls[x] = 1 /\ inclusions[x] > 0
                      /\ \A r \in deliveries : SameAuthorization(x, entitlements[r]) => r = q
    BY DEF DeliveredWasBought
  <2>1. ASSUME NEW r \in deliveries
        PROVE  LET x == entitlements[r] IN
               /\ r \in Quotes /\ x # NULL /\ x \in Attempts /\ quote_id[x] = r
               /\ attempts[x] \in {"CONFIRMED", "MANUAL_REVIEW"}
               /\ settle_calls[x] = 1 /\ inclusions[x] > 0
    <3>1. r \in Quotes /\ entitlements[r] # NULL
      BY DEF IInv, TInv, TablesOK, DeliveryInv, DeliveredEntitled
    <3> QED BY <3>1, EntitledBySettle DEF DeliveryInv
  <2>2. PICK x \in Attempts : x = entitlements[q] BY <2>1
  <2>3. quotes[q] \in {"PAID", "MANUAL_REVIEW"}
    BY <2>1, <2>2 DEF IInv, TablesInv, QuoteFollowsAttempt, StateFollows, Follows
  <2>4. ASSUME NEW r \in deliveries, SameAuthorization(x, entitlements[r]) PROVE r = q
    <3>1. PICK y \in Attempts : y = entitlements[r] BY <2>1
    <3>2. attempts[x] \in Submitted /\ attempts[y] \in Submitted
      BY <2>1, <2>2, <3>1 DEF Submitted
    <3>3. SameAuthorization(x, y) BY <2>4, <3>1 DEF SameAuthorization
    <3>4. x = y BY <3>2, <3>3 DEF IInv, CallsInv, SubmittedOnce
    <3>5. quote_id[x] = q BY <2>1, <2>2
    <3>6. quote_id[y] = r BY <2>1, <3>1
    <3> QED BY <3>4, <3>5, <3>6
  <2> QED BY <2>1, <2>2, <2>3, <2>4
<1>3. IInv /\ TransferInv /\ DeliveryInv /\ [Next]_vars
      => IInv' /\ TransferInv' /\ DeliveryInv'
  <2>1. IInv' => TInv' BY DEF IInv
  <2> QED BY <2>1, NextInv, TransferNext, SentNext, DeliveredNext DEF DeliveryInv
<1> QED BY <1>1, <1>2, <1>3, InitInv, TransferInit, PTL DEF Spec

-----------------------------------------------------------------------------
(* The gateway implements Sale, transaction by transaction *)

SaleNow == [q \in Quotes |-> saleOf(q)]
SpentNow == {authorization[x] : x \in {y \in Attempts : attempts[y] \in Submitted}}
SettledNow == {authorization[x] : x \in {y \in Attempts : settle_calls[y] > 0}}

PaidEntitled == \A q \in Quotes : quotes[q] = "PAID" => entitlements[q] # NULL

Closes(S) == /\ \A q \in S : saleOf(q) = "open"
             /\ SaleNow' = [q \in Quotes |-> IF q \in S THEN "closed" ELSE SaleNow[q]]

Moves(q, from, to) == SaleNow[q] \in from /\ SaleNow' = [SaleNow EXCEPT ![q] = to]

(* A sale depends on the quote's own rows.                                   *)
LEMMA SaleFrame ==
  ASSUME NEW q \in Quotes, quotes'[q] = quotes[q], entitlements'[q] = entitlements[q],
         \A x \in Attempts : quote_id[x] = q
                             => (attempts'[x] = "SUBMITTING" <=> attempts[x] = "SUBMITTING")
  PROVE  saleOf(q)' = saleOf(q)
BY DEF saleOf

LEMMA OtherSales ==
  ASSUME TablesOK, NEW x \in Attempts,
         \A y \in Attempts \ {x} : attempts'[y] = attempts[y],
         \A q \in Quotes \ {quote_id[x]} : quotes'[q] = quotes[q]
                                           /\ entitlements'[q] = entitlements[q]
  PROVE  \A q \in Quotes \ {quote_id[x]} : saleOf(q)' = saleOf(q)
BY SaleFrame

(* The sale of the quote of a live attempt.                                  *)
LEMMA SaleOfLive ==
  ASSUME TablesOK, TablesInv, NEW x \in Attempts, Live(x)
  PROVE  /\ attempts[x] = "VERIFIED" => saleOf(quote_id[x]) = "open"
         /\ attempts[x] \in {"SUBMITTING", "UNKNOWN"}
            => saleOf(quote_id[x]) = "committed" /\ entitlements[quote_id[x]] = NULL
         /\ attempts[x] = "CONFIRMED" => saleOf(quote_id[x]) = "paid"
         /\ attempts[x] = "MANUAL_REVIEW" => saleOf(quote_id[x]) =
              IF entitlements[quote_id[x]] = NULL THEN "disputed" ELSE "withdrawn"
<1>1. Follows(x) /\ \A y \in Attempts \ {x} : quote_id[y] = quote_id[x] => ~Live(y)
  BY OnlyLive DEF TablesInv
<1>2. quote_id[x] \in Quotes BY LedgerAssumption
<1>3. attempts[x] = "VERIFIED" => saleOf(quote_id[x]) = "open"
  BY <1>1 DEF Follows, Live, saleOf
<1>4. attempts[x] \in {"SUBMITTING", "UNKNOWN"} => saleOf(quote_id[x]) = "committed"
  BY <1>1 DEF Follows, Live, saleOf
<1>5. attempts[x] \in {"SUBMITTING", "UNKNOWN"} => entitlements[quote_id[x]] = NULL
  <2> SUFFICES ASSUME attempts[x] \in {"SUBMITTING", "UNKNOWN"},
                      entitlements[quote_id[x]] # NULL
               PROVE  FALSE
    OBVIOUS
  <2> DEFINE y == entitlements[quote_id[x]]
  <2>1. y \in Attempts /\ quote_id[y] = quote_id[x]
        /\ attempts[y] \in {"CONFIRMED", "MANUAL_REVIEW"}
    BY <1>2 DEF TablesOK, TablesInv, EntitledSubmitted
  <2> HIDE DEF y
  <2> QED BY <1>1, <2>1 DEF Live
<1>6. attempts[x] = "CONFIRMED" => saleOf(quote_id[x]) = "paid"
  BY <1>1 DEF Follows, Live, saleOf
<1>7. attempts[x] = "MANUAL_REVIEW" => saleOf(quote_id[x]) =
              IF entitlements[quote_id[x]] = NULL THEN "disputed" ELSE "withdrawn"
  BY <1>1 DEF Follows, Live, saleOf
<1> QED BY <1>3, <1>4, <1>5, <1>6, <1>7

(* Transactions that leave every sale where it is.                           *)
LEMMA BeginSale ==
  ASSUME TablesOK, TablesInv, NEW x \in Attempts, beginAttempt(x)
  PROVE  SaleNow' = SaleNow
<1> USE LedgerAssumption DEF TablesOK, beginAttempt, SetQuote, SetAttempt, MayBegin
<1>1. \A q \in Quotes \ {quote_id[x]} : saleOf(q)' = saleOf(q) BY OtherSales
<1>2. saleOf(quote_id[x]) = "open" BY DEF saleOf
<1>3. \A y \in Attempts : quote_id[y] = quote_id[x] => attempts'[y] # "SUBMITTING"
  BY DEF MayInsert, ActiveAttempt
<1>4. saleOf(quote_id[x])' = "open" BY <1>3 DEF saleOf
<1> QED BY <1>1, <1>2, <1>4 DEF SaleNow

LEMMA UnknownSale ==
  ASSUME TablesOK, TablesInv, NEW x \in Attempts, NEW t, attempts[x] \in Submitted,
         unknown(x, t)
  PROVE  SaleNow' = SaleNow
<1> USE LedgerAssumption DEF TablesOK, unknown, SetQuote, SetAttempt
<1>0. Live(x) /\ Follows(x) BY OnlyLive DEF Live, Submitted, TablesInv
<1>1. \A q \in Quotes \ {quote_id[x]} : saleOf(q)' = saleOf(q) BY OtherSales
<1>2. CASE attempts[x] \in {"SUBMITTING", "UNKNOWN"}
  <2>1. saleOf(quote_id[x]) = "committed" BY <1>0, <1>2, SaleOfLive
  <2>q. quotes[quote_id[x]] \in {"PAYMENT_PENDING", "PAYMENT_UNCERTAIN"}
    BY <1>0, <1>2 DEF Follows
  <2>2. quotes'[quote_id[x]] = "PAYMENT_UNCERTAIN" BY <2>q
  <2>3. saleOf(quote_id[x])' = "committed" BY <2>2 DEF saleOf
  <2> QED BY <1>1, <2>1, <2>3 DEF SaleNow
<1>3. CASE attempts[x] \notin {"SUBMITTING", "UNKNOWN"}
  <2>1. UNCHANGED << quotes, attempts, entitlements >>
    BY <1>0, <1>3 DEF Follows, Submitted
  <2>2. saleOf(quote_id[x])' = saleOf(quote_id[x]) BY <2>1, SaleFrame
  <2> QED BY <1>1, <2>2 DEF SaleNow
<1> QED BY <1>2, <1>3

(* Transactions that close sales: a rejection after the deadline, the        *)
(* recovery of unsubmitted attempts, the sweep.                              *)
LEMMA RejectSale ==
  ASSUME TablesOK, TablesInv, NEW x \in Attempts, submitExpired(x) \/ submitRefused(x)
  PROVE  \E S \in SUBSET Quotes : Closes(S)
<1> USE LedgerAssumption DEF TablesOK, submitExpired, submitRefused, SubmitsFrom, SetQuote,
        SetAttempt
<1>0. Live(x) /\ Follows(x) BY OnlyLive DEF Live, TablesInv
<1>1. \A q \in Quotes \ {quote_id[x]} : saleOf(q)' = saleOf(q) BY OtherSales
<1>2. saleOf(quote_id[x]) = "open" BY <1>0, SaleOfLive
<1>3. quotes'[quote_id[x]] \in {"EXPIRED", "READY"} BY <1>0 DEF Follows
<1>4. saleOf(quote_id[x])' \in {"closed", "open"} BY <1>3 DEF saleOf
<1>5. CASE saleOf(quote_id[x])' = "closed"
  <2>1. Closes({quote_id[x]}) BY <1>1, <1>2, <1>5 DEF Closes, SaleNow
  <2> QED BY <2>1
<1>6. CASE saleOf(quote_id[x])' = "open"
  <2>1. Closes({}) BY <1>1, <1>2, <1>6 DEF Closes, SaleNow
  <2> QED BY <2>1
<1> QED BY <1>4, <1>5, <1>6

LEMMA ClosingSale ==
  ASSUME UNCHANGED entitlements,
         \A x \in Attempts : attempts'[x] = "SUBMITTING" <=> attempts[x] = "SUBMITTING",
         \A q \in Quotes : \/ quotes'[q] = quotes[q]
                           \/ saleOf(q) = "open" /\ quotes'[q] \in {"READY", "EXPIRED"}
  PROVE  \E S \in SUBSET Quotes : Closes(S)
<1> DEFINE S == {q \in Quotes : quotes'[q] # quotes[q] /\ quotes'[q] = "EXPIRED"}
<1>1. ASSUME NEW q \in Quotes, q \notin S PROVE saleOf(q)' = saleOf(q)
  <2>1. CASE quotes'[q] = quotes[q] BY <2>1, SaleFrame
  <2>2. CASE quotes'[q] # quotes[q]
    <3>1. quotes'[q] = "READY" /\ saleOf(q) = "open" BY <1>1, <2>2
    <3> QED BY <3>1 DEF saleOf
  <2> QED BY <2>1, <2>2
<1>2. ASSUME NEW q \in S PROVE saleOf(q) = "open" /\ saleOf(q)' = "closed"
  <2>1. saleOf(q)' = "closed" BY <1>2 DEF saleOf
  <2> QED BY <1>2, <2>1
<1>3. S \in SUBSET Quotes OBVIOUS
<1> HIDE DEF S
<1>4. Closes(S) BY <1>1, <1>2 DEF Closes, SaleNow
<1> QED BY <1>3, <1>4

LEMMA RecoverSale ==
  ASSUME TablesOK, TablesInv, NEW S \in SUBSET Attempts, recoverUnsubmitted(S)
  PROVE  \E T \in SUBSET Quotes : Closes(T)
<1> USE DEF TablesOK, recoverUnsubmitted, Unsubmitted, Released
<1>1. \A x \in Attempts : attempts'[x] = "SUBMITTING" <=> attempts[x] = "SUBMITTING"
  OBVIOUS
<1>2. ASSUME NEW q \in Quotes, quotes'[q] # quotes[q]
      PROVE  saleOf(q) = "open" /\ quotes'[q] \in {"READY", "EXPIRED"}
  <2>1. PICK x \in S : quote_id[x] = q BY <1>2
  <2>2. Live(x) /\ attempts[x] \in {"RECEIVED", "VERIFIED"} BY DEF Live
  <2>3. attempts[x] = "VERIFIED"
    BY <2>2 DEF TablesInv, QuoteFollowsAttempt, StateFollows, Follows
  <2>4. saleOf(q) = "open" BY <2>1, <2>2, <2>3, SaleOfLive
  <2> QED BY <1>2, <2>4
<1>3. UNCHANGED entitlements OBVIOUS
<1> QED BY <1>1, <1>2, <1>3, ClosingSale

LEMMA SweepSale ==
  ASSUME TablesOK, sweepExpired \/ \E q \in Quotes : expire(q)
  PROVE  \E T \in SUBSET Quotes : Closes(T)
<1>1. UNCHANGED << attempts, entitlements >> BY DEF sweepExpired, expire
<1>2. ASSUME NEW q \in Quotes, quotes'[q] # quotes[q]
      PROVE  saleOf(q) = "open" /\ quotes'[q] \in {"READY", "EXPIRED"}
  <2>1. quotes[q] = "READY" /\ quotes'[q] = "EXPIRED"
    BY <1>2 DEF TablesOK, sweepExpired, expire, SetQuote
  <2> QED BY <2>1 DEF saleOf
<1> QED BY <1>1, <1>2, ClosingSale

(* Transactions that move one sale.                                          *)
LEMMA AcceptedSale ==
  ASSUME TablesOK, TablesInv, NEW x \in Attempts, submitAccepted(x)
  PROVE  Moves(quote_id[x], {"open"}, "committed")
<1> USE LedgerAssumption DEF TablesOK, submitAccepted, SubmitsFrom, SetAttempt
<1>0. Live(x) /\ Follows(x) BY OnlyLive DEF Live, TablesInv
<1>1. \A q \in Quotes \ {quote_id[x]} : saleOf(q)' = saleOf(q) BY OtherSales
<1>2. saleOf(quote_id[x]) = "open" BY <1>0, SaleOfLive
<1>3. quotes'[quote_id[x]] = "PAYMENT_PENDING" /\ attempts'[x] = "SUBMITTING"
  BY <1>0 DEF Follows
<1>4. saleOf(quote_id[x])' = "committed" BY <1>3 DEF saleOf
<1> QED BY <1>1, <1>2, <1>4 DEF Moves, SaleNow

LEMMA ConfirmSale ==
  ASSUME TablesOK, TablesInv, NEW x \in Attempts, NEW t, NEW b, confirm(x, t, b)
  PROVE  Moves(quote_id[x], {"committed", "disputed"}, "paid")
<1> USE LedgerAssumption DEF TablesOK, confirm, MayConfirm, SetAttempt, SetQuote
<1>0. Live(x) BY DEF Live
<1>1. \A q \in Quotes \ {quote_id[x]} : saleOf(q)' = saleOf(q) BY OtherSales
<1>2. saleOf(quote_id[x]) \in {"committed", "disputed"} BY <1>0, SaleOfLive
<1>3. quotes'[quote_id[x]] = "PAID" OBVIOUS
<1>4. saleOf(quote_id[x])' = "paid" BY <1>3 DEF saleOf
<1> QED BY <1>1, <1>2, <1>4 DEF Moves, SaleNow

LEMMA ReviewSale ==
  ASSUME TablesOK, TablesInv, PaidEntitled, NEW x \in Attempts, attempts[x] \in Submitted,
         manualReview(x)
  PROVE  \/ SaleNow' = SaleNow
         \/ Moves(quote_id[x], {"committed"}, "disputed")
         \/ Moves(quote_id[x], {"paid"}, "withdrawn")
<1> USE LedgerAssumption DEF TablesOK, manualReview, SetAttempt, SetQuote
<1>0. Live(x) /\ Follows(x) BY OnlyLive DEF Live, Submitted, TablesInv
<1>1. \A q \in Quotes \ {quote_id[x]} : saleOf(q)' = saleOf(q) BY OtherSales
<1>2. CASE attempts[x] \in {"SUBMITTING", "UNKNOWN"}
  <2>1. saleOf(quote_id[x]) = "committed" /\ entitlements[quote_id[x]] = NULL
    BY <1>0, <1>2, SaleOfLive
  <2>2. quotes'[quote_id[x]] = "MANUAL_REVIEW" BY <1>0, <1>2 DEF Follows
  <2>3. saleOf(quote_id[x])' = "disputed" BY <2>1, <2>2 DEF saleOf
  <2> QED BY <1>1, <2>1, <2>3 DEF Moves, SaleNow
<1>3. CASE attempts[x] = "CONFIRMED"
  <2>1. saleOf(quote_id[x]) = "paid" /\ entitlements[quote_id[x]] # NULL
    BY <1>0, <1>3, SaleOfLive DEF Follows, PaidEntitled
  <2>q. quotes[quote_id[x]] = "PAID" BY <1>0, <1>3 DEF Follows
  <2>2. quotes'[quote_id[x]] = "MANUAL_REVIEW" BY <2>q
  <2>3. saleOf(quote_id[x])' = "withdrawn" BY <2>1, <2>2 DEF saleOf
  <2> QED BY <1>1, <2>1, <2>3 DEF Moves, SaleNow
<1>4. CASE attempts[x] = "MANUAL_REVIEW"
  <2>1. UNCHANGED << quotes, attempts, entitlements >>
    BY <1>0, <1>4 DEF Follows
  <2>2. saleOf(quote_id[x])' = saleOf(quote_id[x]) BY <2>1, SaleFrame
  <2> QED BY <1>1, <2>2 DEF SaleNow
<1> QED BY <1>2, <1>3, <1>4 DEF Submitted

(* The other two abstract variables.                                         *)
LEMMA SpentStill == ASSUME SameSubmitted PROVE SpentNow' = SpentNow
BY DEF SameSubmitted, SpentNow

LEMMA SettledStill == ASSUME UNCHANGED settle_calls PROVE SettledNow' = SettledNow
BY DEF SettledNow

LEMMA RowsStill ==
  ASSUME UNCHANGED << quotes, attempts, entitlements >>
  PROVE  SaleNow' = SaleNow /\ SpentNow' = SpentNow
<1>1. \A q \in Quotes : saleOf(q)' = saleOf(q) BY SaleFrame
<1> QED BY <1>1 DEF SaleNow, SpentNow

(* Abstract steps from what the concrete ones do.                            *)
LEMMA AbstractClose ==
  ASSUME \/ \E S \in SUBSET Quotes : Closes(S)
         \/ SaleNow' = SaleNow,
         SpentNow' = SpentNow, SettledNow' = SettledNow, UNCHANGED deliveries
  PROVE  [sale!Next]_(sale!vars)
<1>1. ASSUME NEW S \in SUBSET Quotes, Closes(S) PROVE sale!Close(S)
  <2>1. \A q \in S : SaleNow[q] = "open" BY <1>1 DEF Closes, SaleNow
  <2>2. /\ SaleNow' = [q \in Quotes |-> IF q \in S THEN "closed" ELSE SaleNow[q]]
        /\ SpentNow' = SpentNow /\ SettledNow' = SettledNow /\ deliveries' = deliveries
    BY <1>1 DEF Closes
  <2> QED BY <2>1, <2>2 DEF sale!Close, SaleNow, SpentNow, SettledNow
<1>2. ASSUME SaleNow' = SaleNow PROVE UNCHANGED sale!vars
  BY <1>2 DEF sale!vars, SaleNow, SpentNow, SettledNow
<1> QED BY <1>1, <1>2 DEF sale!Next

LEMMA AbstractMove ==
  ASSUME NEW q \in Quotes, SpentNow' = SpentNow, SettledNow' = SettledNow, UNCHANGED deliveries,
         \/ Moves(q, {"committed", "disputed"}, "paid")
         \/ Moves(q, {"committed"}, "disputed")
         \/ Moves(q, {"paid"}, "withdrawn")
  PROVE  sale!Next
<1> USE DEF Moves, SaleNow, SpentNow, SettledNow, sale!Move
<1>1. Moves(q, {"committed", "disputed"}, "paid") => sale!Pay(q) BY DEF sale!Pay
<1>2. Moves(q, {"committed"}, "disputed") => sale!Dispute(q) BY DEF sale!Dispute
<1>3. Moves(q, {"paid"}, "withdrawn") => sale!Withdraw(q) BY DEF sale!Withdraw
<1> HIDE DEF Moves
<1> QED BY <1>1, <1>2, <1>3 DEF sale!Next

(* markSubmitting accepts: the authorization was committed to no quote.      *)
LEMMA AbstractSubmit ==
  ASSUME IInv, IInv', NEW x \in Attempts, submitAccepted(x), UNCHANGED settle_calls
  PROVE  sale!Next
<1>1. /\ quote_id[x] \in Quotes /\ authorization[x] \in Auths
      /\ attempts \in [Attempts -> AttemptStates]
  BY LedgerAssumption DEF IInv, TInv, TablesOK
<1>2. Moves(quote_id[x], {"open"}, "committed") BY AcceptedSale DEF IInv, TInv
<1>3. /\ attempts[x] = "VERIFIED" /\ attempts' = [attempts EXCEPT ![x] = "SUBMITTING"]
      /\ UNCHANGED deliveries
  BY DEF submitAccepted, SubmitsFrom, SetAttempt
<1>4. \A y \in Attempts : attempts'[y] \in Submitted <=> y = x \/ attempts[y] \in Submitted
  BY <1>1, <1>3 DEF Submitted
<1>5. SpentNow' = SpentNow \cup {authorization[x]} BY <1>4 DEF SpentNow
<1>6. authorization[x] \notin SpentNow
  <2> SUFFICES ASSUME NEW y \in Attempts, attempts[y] \in Submitted,
                      authorization[y] = authorization[x]
               PROVE  FALSE
    BY DEF SpentNow
  <2>1. y = x BY <1>4 DEF IInv, CallsInv, SubmittedOnce, SameAuthorization
  <2> QED BY <1>3, <2>1 DEF Submitted
<1>7. SettledNow' = SettledNow BY SettledStill
<1>8. sale!Submit(quote_id[x], authorization[x])
  BY <1>2, <1>3, <1>5, <1>6, <1>7 DEF Moves, SaleNow, SpentNow, SettledNow, sale!Submit, sale!Move
<1> QED BY <1>1, <1>8 DEF sale!Next

(* settle is called: the authorization is committed and was not settled.     *)
LEMMA AbstractSettle ==
  ASSUME IInv, NEW p \in Procs, Settle(p)
  PROVE  sale!Next
<1> DEFINE x == att[p]
<1>1. x \in Attempts /\ attempts[x] \in Submitted /\ settle_calls[x] = 0
  BY DEF IInv, Settle, TInv, LocalsOK, CallsInv, ProcsSubmitted, PastSubmit, Labels, SettleOnce
<1>2. /\ settle_calls' = [settle_calls EXCEPT ![x] = settle_calls[x] + 1]
      /\ UNCHANGED << quotes, attempts, entitlements, deliveries >>
      /\ settle_calls \in [Attempts -> Nat] /\ authorization[x] \in Auths
  BY <1>1, LedgerAssumption DEF Settle, tables, IInv, TInv, ChainTypeOK
<1> HIDE DEF x
<1>3. \A y \in Attempts : settle_calls'[y] > 0 <=> y = x \/ settle_calls[y] > 0
  BY <1>1, <1>2
<1>4. SettledNow' = SettledNow \cup {authorization[x]} BY <1>1, <1>3 DEF SettledNow
<1>5. authorization[x] \in SpentNow BY <1>1 DEF SpentNow
<1>6. authorization[x] \notin SettledNow
  <2> SUFFICES ASSUME NEW y \in Attempts, settle_calls[y] > 0,
                      authorization[y] = authorization[x]
               PROVE  FALSE
    BY DEF SettledNow
  <2>1. y = x BY <1>1 DEF IInv, CallsInv, NoChargeWithoutRecord, SubmittedOnce, SameAuthorization
  <2> QED BY <1>1, <2>1
<1>7. SaleNow' = SaleNow /\ SpentNow' = SpentNow BY <1>2, RowsStill
<1>8. PICK a \in Auths : a = authorization[x] BY <1>2
<1>9. sale!Settle(a)
  BY <1>2, <1>4, <1>5, <1>6, <1>7, <1>8 DEF SaleNow, SpentNow, SettledNow, sale!Settle
<1> QED BY <1>9 DEF sale!Next

LEMMA AbstractDeliver ==
  ASSUME NEW q \in Quotes, recordDelivery(q), UNCHANGED settle_calls
  PROVE  sale!Next
<1>1. UNCHANGED << quotes, attempts, entitlements >> /\ deliveries' = deliveries \cup {q}
      /\ quotes[q] = "PAID"
  BY DEF recordDelivery, Deliverable
<1>2. SaleNow' = SaleNow /\ SpentNow' = SpentNow /\ SettledNow' = SettledNow
  BY <1>1, RowsStill, SettledStill
<1>3. saleOf(q) = "paid" BY <1>1 DEF saleOf
<1>4. sale!Deliver(q) BY <1>1, <1>2, <1>3 DEF SaleNow, SpentNow, SettledNow, sale!Deliver
<1> QED BY <1>4 DEF sale!Next

LEMMA StepSimulates ==
  ASSUME IInv, IInv', PaidEntitled, NEW p \in Procs, Step(p)
  PROVE  [sale!Next]_(sale!vars)
<1>t. TablesOK /\ TablesInv BY DEF IInv, TInv
<1>0. /\ pc[p] # "idle" /\ att[p] \in Attempts /\ quote_id[att[p]] \in Quotes
      /\ pc[p] \in Labels
  BY LedgerAssumption DEF IInv, TInv, Step, LocalsOK, BeginAttempt, ReadBack, MarkSubmitting,
     Settle, SettleReturns, Unknown, Observe, Commit, Review, LoadEntitlement, Revalidate,
     ReadArtifact, Deliver
<1>s. pc[p] \notin {"verified", "begun", "readback"} => attempts[att[p]] \in Submitted
  BY <1>0 DEF IInv, CallsInv, ProcsSubmitted, PastSubmit
<1>c. ASSUME UNCHANGED << quotes, attempts, entitlements, deliveries, settle_calls >>
      PROVE  [sale!Next]_(sale!vars)
  BY <1>c, RowsStill, SettledStill, AbstractClose
<1>1. CASE BeginAttempt(p)
  <2>1. UNCHANGED settle_calls BY <1>1 DEF BeginAttempt, OnlyTables, chainVars
  <2>2. CASE beginAttempt(att[p])
    <3>1. SameSubmitted BY <1>0, <1>1, <1>t, <2>2, BeginKeeps DEF BeginAttempt, OnlyTables
    <3>2. SaleNow' = SaleNow BY <1>0, <1>t, <2>2, BeginSale
    <3>3. UNCHANGED deliveries BY <2>2 DEF beginAttempt
    <3> QED BY <2>1, <3>1, <3>2, <3>3, SpentStill, SettledStill, AbstractClose
  <2>3. CASE ~beginAttempt(att[p])
    BY <1>1, <1>c, <2>1, <2>3 DEF BeginAttempt, tables
  <2> QED BY <2>2, <2>3
<1>2. CASE MarkSubmitting(p)
  <2>1. UNCHANGED settle_calls BY <1>2 DEF MarkSubmitting, OnlyTables, chainVars
  <2>2. CASE submitAccepted(att[p]) BY <1>0, <2>1, <2>2, AbstractSubmit
  <2>3. CASE submitExpired(att[p]) \/ submitRefused(att[p])
    <3>1. SameSubmitted BY <1>0, <1>2, <1>t, <2>3, RejectKeeps DEF MarkSubmitting, OnlyTables
    <3>2. UNCHANGED deliveries BY <2>3 DEF submitExpired, submitRefused
    <3> QED BY <1>0, <1>t, <2>1, <2>3, <3>1, <3>2, RejectSale, SpentStill, SettledStill,
               AbstractClose
  <2>4. CASE UNCHANGED tables BY <1>c, <2>1, <2>4 DEF tables
  <2> QED BY <1>2, <2>2, <2>3, <2>4 DEF MarkSubmitting
<1>3. CASE Settle(p) BY <1>3, AbstractSettle
<1>4. CASE ReadBack(p) \/ SettleReturns(p) \/ Observe(p) \/ LoadEntitlement(p) \/ Revalidate(p)
  BY <1>4, <1>c DEF ReadBack, SettleReturns, Observe, LoadEntitlement, Revalidate, OnlyLocals, tables,
                    chainVars
<1>5. CASE Unknown(p)
  <2>1. attempts[att[p]] \in Submitted BY <1>5, <1>s DEF Unknown
  <2>2. SameSubmitted BY <1>0, <1>5, <1>t, <2>1, UnknownKeeps DEF Unknown, OnlyTables
  <2>3. SaleNow' = SaleNow BY <1>0, <1>5, <1>t, <2>1, UnknownSale DEF Unknown
  <2>4. UNCHANGED << deliveries, settle_calls >>
    BY <1>5 DEF Unknown, unknown, OnlyTables, chainVars
  <2> QED BY <2>2, <2>3, <2>4, SpentStill, SettledStill, AbstractClose
<1>6. CASE Commit(p)
  <2>1. UNCHANGED settle_calls BY <1>6 DEF Commit, OnlyTables, chainVars
  <2>2. CASE confirm(att[p], tx[p], blk[p])
    <3>1. SameSubmitted BY <1>0, <1>6, <1>t, <2>2, ConfirmKeeps DEF Commit, OnlyTables
    <3>2. Moves(quote_id[att[p]], {"committed", "disputed"}, "paid")
      BY <1>0, <1>t, <2>2, ConfirmSale
    <3>3. UNCHANGED deliveries BY <2>2 DEF confirm
    <3> QED BY <1>0, <2>1, <3>1, <3>2, <3>3, SpentStill, SettledStill, AbstractMove
  <2>3. CASE UNCHANGED tables BY <1>c, <2>1, <2>3 DEF tables
  <2> QED BY <1>6, <2>2, <2>3 DEF Commit
<1>7. CASE Review(p)
  <2>1. attempts[att[p]] \in Submitted BY <1>7, <1>s DEF Review
  <2>2. SameSubmitted BY <1>0, <1>7, <1>t, <2>1, ReviewKeeps DEF Review, OnlyTables
  <2>3. UNCHANGED << deliveries, settle_calls >>
    BY <1>7 DEF Review, manualReview, OnlyTables, chainVars
  <2>4. \/ SaleNow' = SaleNow
        \/ Moves(quote_id[att[p]], {"committed"}, "disputed")
        \/ Moves(quote_id[att[p]], {"paid"}, "withdrawn")
    BY <1>0, <1>7, <1>t, <2>1, ReviewSale DEF Review
  <2> QED BY <1>0, <2>2, <2>3, <2>4, SpentStill, SettledStill, AbstractClose, AbstractMove
<1>8. CASE ReadArtifact(p) \/ Deliver(p)
  <2>1. UNCHANGED settle_calls BY <1>8 DEF ReadArtifact, Deliver, OnlyTables, chainVars
  <2>2. CASE recordDelivery(quote_id[att[p]]) BY <1>0, <2>1, <2>2, AbstractDeliver
  <2>3. CASE ~recordDelivery(quote_id[att[p]])
    BY <1>8, <1>c, <2>1, <2>3 DEF ReadArtifact, Deliver, markRecovery, tables
  <2> QED BY <2>2, <2>3
<1> QED BY <1>1, <1>2, <1>3, <1>4, <1>5, <1>6, <1>7, <1>8 DEF Step

LEMMA OthersSimulate ==
  ASSUME IInv,
         \/ \E p \in Procs : Request(p) \/ Crash(p) \/ \E x \in Attempts : ReconcileOne(p, x)
         \/ \E q \in Quotes : ReadExpired(q)
         \/ RecoverUnsubmitted \/ RetentionCleanup \/ RetentionSweep
         \/ Environment \/ UNCHANGED vars
  PROVE  [sale!Next]_(sale!vars)
<1>t. TablesOK /\ TablesInv BY DEF IInv, TInv
<1>c. ASSUME UNCHANGED << quotes, attempts, entitlements, deliveries, settle_calls >>
      PROVE  [sale!Next]_(sale!vars)
  BY <1>c, RowsStill, SettledStill, AbstractClose
<1>1. CASE \E p \in Procs : Request(p) \/ Crash(p) \/ \E x \in Attempts : ReconcileOne(p, x)
  BY <1>1, <1>c DEF Request, ReadPayment, ReadPaid, Recover, Crash, ReconcileOne, OnlyLocals,
                    tables, chainVars
<1>2. CASE RetentionSweep \/ \E q \in Quotes : ReadExpired(q)
  <2>1. sweepExpired \/ \E q \in Quotes : expire(q)
    BY <1>2 DEF RetentionSweep, ReadExpired
  <2>2. UNCHANGED << attempts, deliveries, files, settle_calls >>
    BY <1>2 DEF RetentionSweep, ReadExpired, sweepExpired, expire, OnlyTables, chainVars
  <2>3. SpentNow' = SpentNow /\ SettledNow' = SettledNow
    BY <2>2, SettledStill DEF SpentNow
  <2> QED BY <1>t, <2>1, <2>2, <2>3, SweepSale, AbstractClose
<1>3. CASE RecoverUnsubmitted
  <2>1. PICK S \in SUBSET Attempts : recoverUnsubmitted(S) BY <1>3 DEF RecoverUnsubmitted
  <2>2. UNCHANGED << deliveries, files, settle_calls >>
    BY <1>3, <2>1 DEF RecoverUnsubmitted, recoverUnsubmitted, OnlyTables, chainVars
  <2>3. SameSubmitted BY <1>t, <2>1, <2>2, RecoverKeeps
  <2> QED BY <1>t, <2>1, <2>2, <2>3, RecoverSale, SpentStill, SettledStill, AbstractClose
<1>4. CASE RetentionCleanup
  BY <1>4, <1>c DEF RetentionCleanup, CleanupOf, removeArtifacts, tables, chainVars
<1>5. CASE Environment \/ UNCHANGED vars
  <2>1. UNCHANGED << tables, settle_calls >>
    BY <1>5 DEF Environment, Time, QuoteAges, AuthorizationLapses, RetentionEnds, GrantExpires,
       ChainStep, Broadcast, Finalize, Revert, Reorg, Damage, vars, chainVars
  <2> QED BY <1>c, <2>1 DEF tables
<1> QED BY <1>1, <1>2, <1>3, <1>4, <1>5

(* A quote is paid exactly by confirm, which records the entitlement.        *)
LEMMA PaidNext ==
  ASSUME IInv, PaidEntitled, [Next]_vars
  PROVE  PaidEntitled'
<1>t. TablesOK /\ LocalsOK BY DEF IInv, TInv
<1>1. ASSUME NEW p \in Procs, Confirms(p) PROVE PaidEntitled'
  <2>1. att[p] \in Attempts BY <1>1, <1>t DEF Confirms, LocalsOK
  <2> QED BY <1>1, <1>t, <2>1, LedgerAssumption
          DEF Confirms, confirm, SetQuote, TablesOK, PaidEntitled
<1>2. ASSUME ~\E p \in Procs : Confirms(p), NEW q \in Quotes, quotes'[q] = "PAID"
      PROVE  quotes[q] = "PAID"
  <2>1. ASSUME NEW p \in Procs, Step(p) PROVE quotes[q] = "PAID"
    <3>1. att[p] \in Attempts
      BY <1>t, <2>1 DEF Step, LocalsOK, BeginAttempt, ReadBack, MarkSubmitting, Settle,
         SettleReturns, Unknown, Observe, Commit, Review, LoadEntitlement, Revalidate,
         ReadArtifact, Deliver
    <3> USE <1>2, <1>t, <3>1, LedgerAssumption DEF TablesOK, SetQuote, tables
    <3>2. CASE BeginAttempt(p) BY <3>2 DEF BeginAttempt, beginAttempt
    <3>3. CASE MarkSubmitting(p)
      BY <3>3 DEF MarkSubmitting, submitAccepted, submitExpired, submitRefused
    <3>4. CASE Unknown(p) BY <3>4 DEF Unknown, unknown
    <3>5. CASE Commit(p) BY <3>5 DEF Commit, Confirms
    <3>6. CASE Review(p) BY <3>6 DEF Review, manualReview
    <3>7. CASE ReadArtifact(p) \/ Deliver(p)
      BY <3>7 DEF ReadArtifact, Deliver, recordDelivery, markRecovery
    <3>8. CASE \/ ReadBack(p) \/ Settle(p) \/ SettleReturns(p) \/ Observe(p)
               \/ LoadEntitlement(p) \/ Revalidate(p)
      BY <3>8 DEF ReadBack, Settle, SettleReturns, Observe, LoadEntitlement, Revalidate, OnlyLocals
    <3> QED BY <2>1, <3>2, <3>3, <3>4, <3>5, <3>6, <3>7, <3>8 DEF Step
  <2>2. ASSUME NEW p \in Procs, Request(p) \/ Crash(p) \/ \E x \in Attempts : ReconcileOne(p, x)
        PROVE  quotes[q] = "PAID"
    BY <1>2, <2>2 DEF Request, ReadPayment, ReadPaid, Recover, Crash, ReconcileOne, OnlyLocals,
       tables
  <2>3. ASSUME \/ \E r \in Quotes : ReadExpired(r)
               \/ RecoverUnsubmitted \/ RetentionCleanup \/ RetentionSweep
        PROVE  quotes[q] = "PAID"
    BY <1>2, <1>t, <2>3 DEF ReadExpired, expire, SetQuote, RecoverUnsubmitted,
       recoverUnsubmitted, Released, RetentionCleanup, CleanupOf, removeArtifacts,
       RetentionSweep, sweepExpired, tables, TablesOK
  <2>4. ASSUME Environment \/ UNCHANGED vars PROVE quotes[q] = "PAID"
    BY <1>2, <2>4 DEF Environment, Time, QuoteAges, AuthorizationLapses, RetentionEnds,
       GrantExpires, Damage, vars, tables
  <2> QED BY <2>1, <2>2, <2>3, <2>4 DEF Next, Procs
<1> QED BY <1>1, <1>2, EventsMove DEF PaidEntitled, EventsStill

(* The gateway with all its processes, workers, crashes and the chain        *)
(* implements Sale: every step is a step of the sale of one report, or none. *)
THEOREM SaleImplemented == Spec => ImplementsSale
<1>1. Init => sale!Init
  <2> SUFFICES ASSUME Init PROVE sale!Init OBVIOUS
  <2>1. \A q \in Quotes : saleOf(q) = "open" BY DEF Init, LedgerInit, saleOf
  <2>2. SpentNow = {} BY DEF Init, LedgerInit, SpentNow, Submitted
  <2>3. SettledNow = {} BY DEF Init, ChainInit, SettledNow
  <2> QED BY <2>1, <2>2, <2>3 DEF sale!Init, Init, LedgerInit, SpentNow, SettledNow
<1>2. Init => PaidEntitled BY DEF Init, LedgerInit, PaidEntitled
<1>3. IInv /\ IInv' /\ PaidEntitled /\ [Next]_vars => [sale!Next]_(sale!vars)
  BY StepSimulates, OthersSimulate DEF Next, Procs
<1>4. IInv /\ PaidEntitled /\ [Next]_vars => PaidEntitled' BY PaidNext
<1> QED BY <1>1, <1>2, <1>3, <1>4, InitInv, NextInv, PTL DEF Spec, ImplementsSale, sale!Spec
=============================================================================
