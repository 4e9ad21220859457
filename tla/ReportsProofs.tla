---------------------------- MODULE ReportsProofs ---------------------------
(* Machine-checked proofs about the report service processes that share an   *)
(* artifact volume, for any number of processes, threads and reports.        *)
EXTENDS Reports, TLAPS

-----------------------------------------------------------------------------
(* The inductive invariant *)

Fields == {"step", "report", "request", "capture", "built", "bytes"}

(* What the proofs need of the types.                                        *)
Shaped ==
  /\ DOMAIN thread = Threads /\ \A t \in Threads : DOMAIN thread[t] = Fields
  /\ DOMAIN dir = Reports
  /\ \A r \in Reports : DOMAIN dir[r] = {"exists", "evidence", "report"}
  /\ lock \in [Reports -> Threads \cup {NULL}] /\ DOMAIN config = Procs

(* rebuild does not look at the clock.                                       *)
Verified(b) == rebuild(b, 0)

(* Whoever changes a directory holds the lock of its report.  What was built *)
(* for a request is of its report id, its request and the mode of its        *)
(* process, and what is staged has been verified.                            *)
Changing == {"rename", "unlink", "unlink2", "rmdir"}

Fits(t) ==
  /\ thread[t].built.report_id = thread[t].report
  /\ thread[t].built.request = thread[t].request
  /\ thread[t].built.source_mode = Config(t).mode

ThreadOK(t) ==
  LET h == thread[t] IN
  /\ h.step # "free" => h.report \in Reports
  /\ h.step \in Changing => lock[h.report] = t
  /\ h.step \in {"lock", "rename", "answer"} => Fits(t)
  /\ h.step = "answer" => h.bytes = h.built
  /\ h.step = "rename" => Verified(h.built)

StoreVerified ==
  \A r \in Reports : Complete(r) => Verified(dir[r].evidence) /\ dir[r].evidence = dir[r].report

IInv == Shaped /\ (\A t \in Threads : ThreadOK(t)) /\ StoreVerified

LEMMA AnyClock == \A b, clock : rebuild(b, clock) <=> Verified(b)
BY DEF Verified, rebuild

-----------------------------------------------------------------------------
(* The document that was published before the service started *)

LEMMA Pairs ==
  ASSUME NEW n \in Nat, NEW f, DOMAIN f = 1 .. n, \A i \in 1 .. n : ~ f[i][1]
  PROVE  FirstFault(f) = "ok"
BY DEF FirstFault

LEMMA EarlierInspected ==
  ASSUME NEW q
  PROVE  _inspect(capture_members(Earlier, "live-public", Healthy, q, 0)) = "ok"
<1> DEFINE p == capture_members(Earlier, "live-public", Healthy, q, 0)
<1>1. /\ p.mode = "live-public" /\ p.policy = "live-public" /\ p.identity_status = "UNVERIFIED"
      /\ p.feed.clock = "steady" /\ p.feed.age = "fresh" /\ p.feed.book = "sorted"
      /\ p.feed.btc = "listed"
  BY DEF capture_members, Healthy
<1>2. p.members = BaseMembers \cup {"mapping-evidence"} \cup (p.members \cap {"mezo-dex"})
  BY DEF capture_members, BaseMembers
<1> HIDE DEF p
<1>3. DOMAIN Faults(p) = 1 .. 13 BY DEF Faults
<1>4. /\ ~ Faults(p)[1][1] /\ ~ Faults(p)[2][1] /\ ~ Faults(p)[3][1] /\ ~ Faults(p)[4][1]
      /\ ~ Faults(p)[5][1] /\ ~ Faults(p)[6][1] /\ ~ Faults(p)[7][1] /\ ~ Faults(p)[8][1]
      /\ ~ Faults(p)[9][1] /\ ~ Faults(p)[10][1] /\ ~ Faults(p)[11][1] /\ ~ Faults(p)[12][1]
      /\ ~ Faults(p)[13][1]
  BY <1>1, <1>2, Zenon DEF Faults
<1>5. \A i \in 1 .. 13 : ~ Faults(p)[i][1] BY <1>4
<1> QED BY <1>3, <1>5, Pairs DEF _inspect, p

LEMMA EarlierOutcome ==
  ASSUME NEW q \in Requests
  PROVE  LET p == IF q \in TroveRequests THEN trove_members(Earlier, q, 0)
                  ELSE capture_members(Earlier, "live-public", Healthy, q, 0)
         IN BuildOutcome(p, q, 0) = "ok"
<1>1. CASE q \in TroveRequests
  <2> DEFINE p == trove_members(Earlier, q, 0)
             f == << << read_trove_package(p) # "ok", "INVALID_DATASET" >>,
                     << p.for # q, "INVALID_DATASET" >>,
                     << 0 < p.at, "CLOCK_SKEW" >> >>
  <2>1. read_trove_package(p) = "ok" /\ p.for = q /\ p.at = 0
    BY DEF trove_members, read_trove_package
  <2> HIDE DEF p
  <2>2. ~ (0 < p.at) BY <2>1
  <2>3. ~ f[1][1] /\ ~ f[2][1] /\ ~ f[3][1] BY <2>1, <2>2, Zenon
  <2>4. DOMAIN f = 1 .. 3 OBVIOUS
  <2> HIDE DEF f
  <2>5. \A i \in 1 .. 3 : ~ f[i][1] BY <2>3
  <2>6. FirstFault(f) = "ok" BY <2>4, <2>5, Pairs
  <2>7. TroveOutcome(p, q, 0) = "ok" BY <2>6 DEF TroveOutcome, f
  <2> QED BY <1>1, <2>7 DEF BuildOutcome, p
<1>2. CASE q \notin TroveRequests
  <2> DEFINE p == capture_members(Earlier, "live-public", Healthy, q, 0)
             f == << << _inspect(p) # "ok", _inspect(p) >>,
                     << p.feed.book = "thin", "DEPTH_INSUFFICIENT" >>,
                     << "mezo-dex" \in p.members /\ p.for # q, "MEZO_DEX_INVALID_EVIDENCE" >> >>
  <2>1. _inspect(p) = "ok" BY EarlierInspected
  <2>2. p.feed.book = "sorted" /\ p.for = q BY DEF capture_members, Healthy
  <2> HIDE DEF p
  <2>3. ~ f[1][1] /\ ~ f[2][1] /\ ~ f[3][1] BY <2>1, <2>2, Zenon
  <2>4. DOMAIN f = 1 .. 3 OBVIOUS
  <2> HIDE DEF f
  <2>5. \A i \in 1 .. 3 : ~ f[i][1] BY <2>3
  <2>6. FirstFault(f) = "ok" BY <2>4, <2>5, Pairs
  <2>7. MarketOutcome(p, q) = "ok" BY <2>6 DEF MarketOutcome, f
  <2> QED BY <1>2, <2>7 DEF BuildOutcome, p
<1> QED BY <1>1, <1>2

(* A report that was built without a fault is the report of its own bundle.  *)
LEMMA DocumentVerified ==
  ASSUME NEW r, NEW p, NEW q, NEW created, BuildOutcome(p, q, created) = "ok"
  PROVE  Verified(Document(r, p, q, created))
<1> DEFINE b == Document(r, p, q, created)
<1>1. b.package = p /\ b.request = q /\ b.created = created /\ b.report_id = r
  BY DEF Document, TroveDocument, MarketDocument
<1>2. b = IF q \in TroveRequests THEN TroveDocument(r, p, q, created)
          ELSE MarketDocument(r, p, q, created)
  BY DEF Document
<1> QED BY <1>1, <1>2 DEF Verified, rebuild, rebuild_trove_members

LEMMA InitInv == Init => IInv
<1> SUFFICES ASSUME Init PROVE IInv OBVIOUS
<1>1. /\ thread = [t \in Threads |-> Idle] /\ DOMAIN config = Procs
      /\ lock = [r \in Reports |-> NULL]
  BY DEF Init, StoreInit
<1>2. \A t \in Threads : ThreadOK(t) BY <1>1 DEF Idle, ThreadOK, Changing
<1>3. ASSUME NEW pub, StoreInit(pub),
             \A r \in Reports : pub[r] # NULL => Verified(pub[r])
      PROVE  /\ StoreVerified /\ DOMAIN dir = Reports
             /\ \A r \in Reports : DOMAIN dir[r] = {"exists", "evidence", "report"}
  BY <1>3 DEF StoreInit, StoreVerified, Complete
<1>4. PICK pub : StoreInit(pub) /\ \A r \in Reports : pub[r] # NULL => Verified(pub[r])
  <2>1. CASE StoreInit([r \in Reports |-> NULL]) BY <2>1
  <2>2. ASSUME NEW q \in Requests, NEW p, BuildOutcome(p, q, 0) = "ok",
               StoreInit([r \in Reports |-> Document(r, p, q, 0)])
        PROVE  \E pub : StoreInit(pub) /\ \A r \in Reports : pub[r] # NULL => Verified(pub[r])
    <3>1. \A r \in Reports : Verified(Document(r, p, q, 0)) BY <2>2, DocumentVerified
    <3> QED BY <2>2, <3>1
  <2> QED BY <2>1, <2>2, EarlierOutcome DEF Init
<1>5. Shaped BY <1>1, <1>3, <1>4 DEF Shaped, Idle, Fields
<1> QED BY <1>2, <1>3, <1>4, <1>5 DEF IInv

-----------------------------------------------------------------------------
(* A thread that a step does not touch *)

LEMMA ThreadStays ==
  ASSUME NEW u \in Threads, ThreadOK(u), thread'[u] = thread[u], Config(u)' = Config(u),
         thread[u].step \in Changing => lock'[thread[u].report] = u
  PROVE  ThreadOK(u)'
BY DEF ThreadOK, Fits

(* A step of one thread that leaves the store and the configuration alone.   *)
LEMMA OneThread ==
  ASSUME IInv, Shaped', NEW t \in Threads, UNCHANGED << storeVars, config >>,
         \A u \in Threads \ {t} : thread'[u] = thread[u], ThreadOK(t)'
  PROVE  IInv'
<1>1. \A u \in Threads \ {t} : ThreadOK(u)'
  <2> SUFFICES ASSUME NEW u \in Threads \ {t} PROVE ThreadOK(u)' OBVIOUS
  <2>1. ThreadOK(u) BY DEF IInv
  <2>2. Config(u)' = Config(u) BY DEF Config
  <2>3. thread[u].step \in Changing => lock'[thread[u].report] = u
    BY <2>1 DEF ThreadOK, storeVars
  <2> QED BY <2>1, <2>2, <2>3, ThreadStays
<1>2. StoreVerified' BY DEF IInv, StoreVerified, Complete, storeVars
<1> QED BY <1>1, <1>2 DEF IInv

LEMMA IdleOK == ASSUME NEW t \in Threads, thread'[t] = Idle PROVE ThreadOK(t)'
BY DEF ThreadOK, Idle, Changing

(* What an update of one thread does.                                        *)
LEMMA Updates ==
  ASSUME IInv, NEW t \in Threads
  PROVE  /\ Finish(t) => /\ thread'[t] = Idle /\ DOMAIN thread' = Threads
                         /\ \A u \in Threads \ {t} : thread'[u] = thread[u]
                         /\ \A u \in Threads : DOMAIN thread'[u] = Fields
         /\ \A s : Goto(t, s) => /\ thread'[t].step = s /\ DOMAIN thread' = Threads
                                 /\ \A u \in Threads \ {t} : thread'[u] = thread[u]
                                 /\ \A u \in Threads : DOMAIN thread'[u] = Fields
                                 /\ \A f \in Fields \ {"step"} : thread'[t][f] = thread[t][f]
BY DEF IInv, Shaped, Finish, Goto, Fields, Idle

-----------------------------------------------------------------------------
(* do_POST *)

ReadOnly(t) ==
  \/ Lookup(t) \/ ReadNames(t) \/ ReadEvidence(t) \/ ReadReport(t)
  \/ AskCapture(t) \/ AskFails(t) \/ CaptureAnswered(t) \/ CaptureFailed(t)
  \/ Build(t) \/ Answer(t)

LEMMA ReadOnlyKeeps ==
  ASSUME IInv, NEW t \in Threads, ReadOnly(t)
  PROVE  IInv'
<1>1. UNCHANGED << storeVars, config >>
  BY DEF ReadOnly, Lookup, ReadNames, ReadEvidence, ReadReport, AskCapture, AskFails,
     CaptureAnswered, CaptureFailed, Build, Answer, Quiet
<1>2. ASSUME DOMAIN thread' = Threads, \A u \in Threads \ {t} : thread'[u] = thread[u],
             DOMAIN thread'[t] = Fields, ThreadOK(t)'
      PROVE  IInv'
  <2>1. Shaped' BY <1>1, <1>2 DEF IInv, Shaped, storeVars
  <2> QED BY <1>1, <1>2, <2>1, OneThread
<1>3. ASSUME Finish(t) PROVE IInv' BY <1>2, <1>3, Updates, IdleOK
<1>4. ASSUME NEW s \in {"list", "capture", "evidence", "build"}, Goto(t, s),
             thread[t].step # "free"
      PROVE  IInv'
  <2>1. thread'[t].step = s /\ thread'[t].report = thread[t].report
    BY <1>4, Updates DEF Fields
  <2>2. ThreadOK(t)' BY <1>4, <2>1 DEF IInv, ThreadOK, Changing
  <2> QED BY <1>2, <1>4, <2>2, Updates
<1>5. CASE Lookup(t) BY <1>4, <1>5 DEF Lookup
<1>6. CASE ReadNames(t) BY <1>3, <1>4, <1>6 DEF ReadNames
<1>7. CASE ReadEvidence(t)
  <2>1. ASSUME NEW b, thread' = [thread EXCEPT ![t].step = "report", ![t].built = b]
        PROVE  IInv'
    <3>1. /\ thread'[t].step = "report" /\ thread'[t].report = thread[t].report
          /\ DOMAIN thread' = Threads /\ DOMAIN thread'[t] = Fields
          /\ \A u \in Threads \ {t} : thread'[u] = thread[u]
      BY <2>1 DEF IInv, Shaped, Fields
    <3>2. ThreadOK(t)' BY <1>7, <3>1 DEF IInv, ThreadOK, Changing, ReadEvidence
    <3> QED BY <1>2, <3>1, <3>2
  <2> QED BY <1>3, <1>7, <2>1 DEF ReadEvidence
<1>8. CASE ReadReport(t)
  <2>1. ASSUME NEW bytes, thread' = [thread EXCEPT ![t].step = "answer", ![t].bytes = bytes],
               SameReport(thread[t].report, thread[t].built, bytes),
               thread[t].built.request = thread[t].request,
               thread[t].built.source_mode = Config(t).mode
        PROVE  IInv'
    <3>1. /\ thread'[t].step = "answer" /\ thread'[t].report = thread[t].report
          /\ thread'[t].built = thread[t].built /\ thread'[t].bytes = bytes
          /\ thread'[t].request = thread[t].request
          /\ DOMAIN thread' = Threads /\ DOMAIN thread'[t] = Fields
          /\ \A u \in Threads \ {t} : thread'[u] = thread[u]
      BY <2>1 DEF IInv, Shaped, Fields
    <3>2. Config(t)' = Config(t) BY <1>1 DEF Config
    <3>3. ThreadOK(t)'
      BY <1>8, <2>1, <3>1, <3>2 DEF IInv, ThreadOK, Fits, Changing, ReadReport, SameReport
    <3> QED BY <1>2, <3>1, <3>3
  <2> QED BY <1>3, <1>8, <2>1 DEF ReadReport
<1>9. CASE AskCapture(t)
  <2>1. PICK c : thread' = [thread EXCEPT ![t].step = "await", ![t].capture = c]
    BY <1>9 DEF AskCapture
  <2>2. /\ thread'[t].step = "await" /\ thread'[t].report = thread[t].report
        /\ DOMAIN thread' = Threads /\ DOMAIN thread'[t] = Fields
        /\ \A u \in Threads \ {t} : thread'[u] = thread[u]
    BY <2>1 DEF IInv, Shaped, Fields
  <2>3. ThreadOK(t)' BY <1>9, <2>2 DEF IInv, ThreadOK, Changing, AskCapture
  <2> QED BY <1>2, <2>2, <2>3
<1>10. CASE AskFails(t) \/ CaptureFailed(t) \/ Answer(t)
  BY <1>3, <1>10 DEF AskFails, CaptureFailed, Answer
<1>11. CASE CaptureAnswered(t) BY <1>4, <1>11 DEF CaptureAnswered
<1>12. CASE Build(t)
  <2>1. ASSUME NEW p, NEW created, p.mode = Config(t).mode,
               thread' = [thread EXCEPT ![t].step = "lock",
                            ![t].built = Document(thread[t].report, p, thread[t].request, created)]
        PROVE  IInv'
    <3> DEFINE b == Document(thread[t].report, p, thread[t].request, created)
    <3>1. /\ b.report_id = thread[t].report /\ b.request = thread[t].request
          /\ b.source_mode = Config(t).mode
      BY <2>1 DEF Document, TroveDocument, MarketDocument
    <3> HIDE DEF b
    <3>2. /\ thread'[t].step = "lock" /\ thread'[t].report = thread[t].report
          /\ thread'[t].built = b /\ thread'[t].request = thread[t].request
          /\ DOMAIN thread' = Threads /\ DOMAIN thread'[t] = Fields
          /\ \A u \in Threads \ {t} : thread'[u] = thread[u]
      BY <2>1 DEF IInv, Shaped, Fields, b
    <3>3. Config(t)' = Config(t) BY <1>1 DEF Config
    <3>4. ThreadOK(t)'
      BY <1>12, <3>1, <3>2, <3>3 DEF IInv, ThreadOK, Fits, Changing, Build
    <3> QED BY <1>2, <3>2, <3>4
  <2> QED BY <1>3, <1>12, <2>1 DEF Build
<1> QED BY <1>5, <1>6, <1>7, <1>8, <1>9, <1>10, <1>11, <1>12 DEF ReadOnly

LEMMA PostKeeps ==
  ASSUME IInv, NEW t \in Threads, NEW r \in Reports, NEW q, Post(t, r, q)
  PROVE  IInv'
<1>1. /\ thread' = [thread EXCEPT ![t] = [Idle EXCEPT !.step = "lookup", !.report = r,
                                                      !.request = q]]
      /\ UNCHANGED << storeVars, config >>
  BY DEF Post
<1>2. /\ thread'[t].step = "lookup" /\ thread'[t].report = r
      /\ DOMAIN thread' = Threads /\ DOMAIN thread'[t] = Fields
      /\ \A u \in Threads \ {t} : thread'[u] = thread[u]
  BY <1>1 DEF IInv, Shaped, Fields, Idle
<1>3. ThreadOK(t)' BY <1>2 DEF ThreadOK, Changing
<1>4. Shaped' BY <1>1, <1>2 DEF IInv, Shaped, storeVars
<1> QED BY <1>1, <1>2, <1>3, <1>4, OneThread

(* The lock goes to a thread that nobody else excludes.                      *)
LEMMA LockTaken ==
  ASSUME IInv, NEW t \in Threads, NEW r \in Reports, _open_report_lock(t, r),
         UNCHANGED << dir, config >>, Shaped',
         \A u \in Threads \ {t} : thread'[u] = thread[u], ThreadOK(t)'
  PROVE  IInv'
<1>1. lock[r] = NULL /\ lock' = [lock EXCEPT ![r] = t] BY DEF _open_report_lock
<1>2. ASSUME NEW u \in Threads \ {t} PROVE ThreadOK(u)'
  <2>1. ThreadOK(u) BY DEF IInv
  <2>2. Config(u)' = Config(u) BY DEF Config
  <2>3. ASSUME thread[u].step \in Changing PROVE lock'[thread[u].report] = u
    <3>1. thread[u].report \in Reports /\ lock[thread[u].report] = u
      BY <2>1, <2>3 DEF ThreadOK, Changing
    <3> QED BY <1>1, <3>1, ProcAssumption DEF IInv, Shaped
  <2> QED BY <2>1, <2>2, <2>3, ThreadStays
<1>3. StoreVerified' BY DEF IInv, StoreVerified, Complete
<1> QED BY <1>2, <1>3 DEF IInv

LEMMA StageKeeps == ASSUME IInv, NEW t \in Threads, Stage(t) PROVE IInv'
<1>0. UNCHANGED << dir, config >> /\ thread[t].step = "lock" BY DEF Stage, Quiet
<1>1. thread[t].report \in Reports /\ ThreadOK(t) BY <1>0 DEF IInv, ThreadOK
<1>2. CASE Finish(t) /\ UNCHANGED lock
  <2>1. Shaped' BY <1>0, <1>2, Updates DEF IInv, Shaped
  <2> QED BY <1>0, <1>2, <2>1, Updates, IdleOK, OneThread DEF storeVars
<1>3. ASSUME NEW r \in Reports, r = thread[t].report, _open_report_lock(t, r),
             Goto(t, "rename"), rebuild(thread[t].built, now)
      PROVE  IInv'
  <2>1. /\ thread'[t].step = "rename" /\ thread'[t].report = r
        /\ thread'[t].built = thread[t].built /\ thread'[t].request = thread[t].request
    BY <1>3, Updates DEF Fields
  <2>2. lock' = [lock EXCEPT ![r] = t] BY <1>3 DEF _open_report_lock
  <2>3. Shaped' BY <1>0, <1>3, <2>2, Updates DEF IInv, Shaped
  <2>4. lock'[r] = t BY <2>2 DEF IInv, Shaped
  <2>5. Verified(thread[t].built) BY <1>3, AnyClock
  <2>6. Config(t)' = Config(t) BY <1>0 DEF Config
  <2>7. ThreadOK(t)'
    BY <1>0, <1>1, <1>3, <2>1, <2>4, <2>5, <2>6 DEF ThreadOK, Fits
  <2> QED BY <1>0, <1>3, <2>3, <2>7, Updates, LockTaken
<1> QED BY <1>1, <1>2, <1>3 DEF Stage

(* A step of the thread that holds the lock of r, on the directory of r.     *)
LEMMA HolderKeeps ==
  ASSUME IInv, NEW t \in Threads, NEW r \in Reports, NEW d, dir' = [dir EXCEPT ![r] = d],
         DOMAIN d = {"exists", "evidence", "report"}, UNCHANGED config,
         UNCHANGED lock \/ Unlock(t),
         \A u \in Threads \ {t} : thread'[u] = thread[u],
         DOMAIN thread' = Threads, DOMAIN thread'[t] = Fields, ThreadOK(t)',
         d.exists /\ d.evidence # NULL /\ d.report # NULL
           => Verified(d.evidence) /\ d.evidence = d.report
  PROVE  IInv'
<1>1. lock' \in [Reports -> Threads \cup {NULL}]
  BY DEF IInv, Shaped, Unlock
<1>2. Shaped' BY <1>1 DEF IInv, Shaped
<1>3. ASSUME NEW u \in Threads \ {t} PROVE ThreadOK(u)'
  <2>1. ThreadOK(u) BY DEF IInv
  <2>2. Config(u)' = Config(u) BY DEF Config
  <2>3. ASSUME thread[u].step \in Changing PROVE lock'[thread[u].report] = u
    <3>1. thread[u].report \in Reports /\ lock[thread[u].report] = u
      BY <2>1, <2>3 DEF ThreadOK, Changing
    <3> QED BY <1>3, <3>1 DEF Unlock
  <2> QED BY <2>1, <2>2, <2>3, ThreadStays
<1>4. StoreVerified'
  <2> SUFFICES ASSUME NEW x \in Reports, Complete(x)'
               PROVE  Verified(dir'[x].evidence) /\ dir'[x].evidence = dir'[x].report
    BY DEF StoreVerified, Verified, rebuild, BuildOutcome
  <2>1. CASE x = r BY <2>1 DEF IInv, Shaped, Complete
  <2>2. CASE x # r
    <3>1. dir'[x] = dir[x] BY <2>2 DEF IInv, Shaped
    <3> QED BY <3>1 DEF IInv, StoreVerified, Complete
  <2> QED BY <2>1, <2>2
<1> QED BY <1>2, <1>3, <1>4 DEF IInv

LEMMA RenameKeeps == ASSUME IInv, NEW t \in Threads, Rename(t) PROVE IInv'
<1>1. ThreadOK(t) /\ thread[t].step = "rename" BY DEF Rename, IInv
<1>2. PICK r \in Reports : r = thread[t].report BY <1>1 DEF ThreadOK
<1>3. PICK b : b = thread[t].built OBVIOUS
<1>4. Verified(b) BY <1>1, <1>3 DEF ThreadOK
<1> DEFINE d == [exists |-> TRUE, evidence |-> b, report |-> b]
<1>5. /\ dir' = [dir EXCEPT ![r] = d] /\ Unlock(t) /\ UNCHANGED config
      /\ thread' = [thread EXCEPT ![t].step = "answer", ![t].bytes = b]
  BY <1>2, <1>3 DEF Rename, RenameStaging, Quiet
<1>6. /\ thread'[t].step = "answer" /\ thread'[t].report = r /\ thread'[t].built = b
      /\ thread'[t].request = thread[t].request /\ thread'[t].bytes = b
      /\ DOMAIN thread' = Threads /\ DOMAIN thread'[t] = Fields
      /\ \A u \in Threads \ {t} : thread'[u] = thread[u]
  BY <1>2, <1>3, <1>5 DEF IInv, Shaped, Fields
<1>7. Config(t)' = Config(t) BY <1>5 DEF Config
<1>8. ThreadOK(t)' BY <1>1, <1>2, <1>3, <1>6, <1>7 DEF ThreadOK, Fits, Changing
<1>9. DOMAIN d = {"exists", "evidence", "report"} /\ d.evidence = b /\ d.report = b OBVIOUS
<1>10. Verified(d.evidence) /\ d.evidence = d.report BY <1>4, <1>9
<1> HIDE DEF d
<1> QED BY <1>5, <1>6, <1>8, <1>9, <1>10, HolderKeeps

-----------------------------------------------------------------------------
(* do_DELETE *)

LEMMA DeleteKeeps ==
  ASSUME IInv, NEW t \in Threads, NEW r \in Reports, Delete(t, r)
  PROVE  IInv'
<1>0. UNCHANGED << dir, config >> BY DEF Delete, Quiet
<1>1. CASE UNCHANGED << thread, lock >>
  <2>1. Shaped' BY <1>0, <1>1 DEF IInv, Shaped
  <2>2. ThreadOK(t)' BY <1>0, <1>1 DEF IInv, ThreadOK, Fits, Config
  <2> QED BY <1>0, <1>1, <2>1, <2>2, OneThread DEF storeVars
<1>2. CASE /\ _open_report_lock(t, r)
           /\ thread' = [thread EXCEPT ![t] = [Idle EXCEPT !.step = "unlink", !.report = r]]
  <2>1. /\ thread'[t].step = "unlink" /\ thread'[t].report = r
        /\ DOMAIN thread' = Threads /\ DOMAIN thread'[t] = Fields
        /\ \A u \in Threads \ {t} : thread'[u] = thread[u]
    BY <1>2 DEF IInv, Shaped, Fields, Idle
  <2>2. lock' = [lock EXCEPT ![r] = t] BY <1>2 DEF _open_report_lock
  <2>3. lock'[r] = t /\ Shaped' BY <1>0, <2>1, <2>2 DEF IInv, Shaped
  <2>4. ThreadOK(t)' BY <2>1, <2>3 DEF ThreadOK
  <2> QED BY <1>0, <1>2, <2>1, <2>3, <2>4, LockTaken
<1> QED BY <1>1, <1>2 DEF Delete

LEMMA RemovalKeeps ==
  ASSUME IInv, NEW t \in Threads, UnlinkFirst(t) \/ UnlinkSecond(t) \/ RemoveReport(t)
  PROVE  IInv'
<1>1. /\ ThreadOK(t) /\ thread[t].step \in {"unlink", "unlink2", "rmdir"} /\ UNCHANGED config
  BY DEF UnlinkFirst, UnlinkSecond, RemoveReport, IInv, Quiet
<1>2. PICK r \in Reports : r = thread[t].report BY <1>1 DEF ThreadOK
<1>3. DOMAIN dir[r] = {"exists", "evidence", "report"} BY DEF IInv, Shaped
<1>4. CASE UnlinkFirst(t)
  <2> DEFINE d == [dir[r] EXCEPT !.evidence = NULL]
  <2>1. dir' = [dir EXCEPT ![r] = d] /\ UNCHANGED lock /\ Goto(t, "unlink2")
    BY <1>2, <1>4 DEF UnlinkFirst, UnlinkEvidence
  <2>2. thread'[t].step = "unlink2" /\ thread'[t].report = thread[t].report
    BY <2>1, Updates DEF Fields
  <2>3. ThreadOK(t)' BY <1>1, <2>1, <2>2 DEF ThreadOK, Changing
  <2>4. DOMAIN d = {"exists", "evidence", "report"} /\ d.evidence = NULL BY <1>3
  <2> HIDE DEF d
  <2> QED BY <1>1, <2>1, <2>3, <2>4, Updates, HolderKeeps
<1>5. CASE UnlinkSecond(t)
  <2> DEFINE d == [dir[r] EXCEPT !.report = NULL]
  <2>1. dir' = [dir EXCEPT ![r] = d] /\ UNCHANGED lock /\ Goto(t, "rmdir")
    BY <1>2, <1>5 DEF UnlinkSecond, UnlinkReport
  <2>2. thread'[t].step = "rmdir" /\ thread'[t].report = thread[t].report
    BY <2>1, Updates DEF Fields
  <2>3. ThreadOK(t)' BY <1>1, <2>1, <2>2 DEF ThreadOK, Changing
  <2>4. DOMAIN d = {"exists", "evidence", "report"} /\ d.report = NULL BY <1>3
  <2> HIDE DEF d
  <2> QED BY <1>1, <2>1, <2>3, <2>4, Updates, HolderKeeps
<1>6. CASE RemoveReport(t)
  <2>1. dir' = [dir EXCEPT ![r] = Absent] /\ Unlock(t) /\ Finish(t)
    BY <1>2, <1>6 DEF RemoveReport, RemoveDirectory
  <2>2. DOMAIN Absent = {"exists", "evidence", "report"} /\ ~ Absent.exists BY DEF Absent
  <2> QED BY <1>1, <2>1, <2>2, Updates, IdleOK, HolderKeeps
<1> QED BY <1>4, <1>5, <1>6

-----------------------------------------------------------------------------
(* Crashes and the rest *)

LEMMA CrashKeeps == ASSUME IInv, NEW p \in Procs, ServiceCrash(p) PROVE IInv'
<1>1. PICK c : config' = [config EXCEPT ![p] = c] BY DEF ServiceCrash
<1>2. /\ thread' = [t \in Threads |-> IF proc_of[t] = p THEN Idle ELSE thread[t]]
      /\ lock' = [r \in Reports |-> IF \E t \in Threads : lock[r] = t /\ proc_of[t] = p
                                    THEN NULL ELSE lock[r]]
      /\ UNCHANGED dir
  BY DEF ServiceCrash
<1>3. Shaped'
  <2>1. lock' \in [Reports -> Threads \cup {NULL}] BY <1>2 DEF IInv, Shaped
  <2>2. DOMAIN thread' = Threads /\ \A t \in Threads : DOMAIN thread'[t] = Fields
    BY <1>2 DEF IInv, Shaped, Idle, Fields
  <2> QED BY <1>1, <1>2, <2>1, <2>2 DEF IInv, Shaped
<1>4. ASSUME NEW u \in Threads PROVE ThreadOK(u)'
  <2>1. CASE proc_of[u] = p BY <1>2, <2>1, IdleOK
  <2>2. CASE proc_of[u] # p
    <3>1. ThreadOK(u) /\ thread'[u] = thread[u] BY <1>2, <2>2 DEF IInv
    <3>2. proc_of[u] \in Procs BY ProcAssumption
    <3>3. Config(u)' = Config(u) BY <1>1, <2>2, <3>2 DEF Config, IInv, Shaped
    <3>4. ASSUME thread[u].step \in Changing PROVE lock'[thread[u].report] = u
      <4>1. thread[u].report \in Reports /\ lock[thread[u].report] = u
        BY <3>1, <3>4 DEF ThreadOK, Changing
      <4> QED BY <1>2, <2>2, <4>1
    <3> QED BY <3>1, <3>3, <3>4, ThreadStays
  <2> QED BY <2>1, <2>2
<1>5. StoreVerified' BY <1>2 DEF IInv, StoreVerified, Complete
<1> QED BY <1>3, <1>4, <1>5 DEF IInv

LEMMA FrameKeeps == ASSUME IInv, UNCHANGED << storeVars, config, thread >> PROVE IInv'
BY DEF IInv, Shaped, ThreadOK, Fits, Config, StoreVerified, Complete, storeVars

LEMMA NextInv == IInv /\ [Next]_vars => IInv'
<1> SUFFICES ASSUME IInv, [Next]_vars PROVE IInv' OBVIOUS
<1>1. CASE (\E r \in Reports : Select(r)) \/ CaptureRestart \/ Capture \/ Tick \/ UNCHANGED vars
  BY <1>1, FrameKeeps DEF Select, CaptureRestart, Capture, Tick, Quiet, vars, serviceVars
<1>2. ASSUME NEW t \in Threads, Work(t) PROVE IInv'
  BY <1>2, ReadOnlyKeeps, StageKeeps, RenameKeeps, RemovalKeeps DEF Work, ReadOnly
<1> QED BY <1>1, <1>2, PostKeeps, DeleteKeeps, CrashKeeps DEF Next

LEMMA ReportsInvariant == Spec => []IInv
BY InitInv, NextInv, PTL DEF Spec

-----------------------------------------------------------------------------
(* Theorems *)

(* Whoever is answered 200 is told of one publication, of the id, the        *)
(* request and the source mode asked for, although read_published takes no   *)
(* lock: the comparison of report.json with the bundle that was verified     *)
(* makes up for it.                                                          *)
THEOREM AnsweredOnePublication == Spec => []AnswerIsOnePublication
<1>1. IInv => AnswerIsOnePublication BY DEF IInv, ThreadOK, Fits, AnswerIsOnePublication
<1> QED BY <1>1, ReportsInvariant, PTL

(* What publish_artifact made visible verifies at every later time and under *)
(* every later configuration, until a delete has begun with it.              *)
THEOREM StoreVerifies == Spec => []StoredVerifies
<1>1. IInv => StoredVerifies BY AnyClock DEF IInv, StoreVerified, StoredVerifies
<1> QED BY <1>1, ReportsInvariant, PTL

(* One thread at a time renames into or removes the directory of a report,   *)
(* over all processes that share the volume, their crashes and restarts.     *)
OneChanges ==
  \A t, u \in Threads :
    /\ thread[t].step \in Changing /\ thread[u].step \in Changing
    /\ thread[t].report = thread[u].report
    => t = u

(* The flock of _open_report_lock is held from the check of the directory to *)
(* its last change, so publications and deletes of a report exclude each     *)
(* other.                                                                    *)
THEOREM ChangesExclude == Spec => []OneChanges
<1>1. IInv => OneChanges BY DEF IInv, ThreadOK, OneChanges
<1> QED BY <1>1, ReportsInvariant, PTL
=============================================================================
