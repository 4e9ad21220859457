------------------------------- MODULE Reports ------------------------------
(* Report service processes that share an artifact volume, and the capture   *)
(* service they ask: do_POST and do_DELETE, from the check of `active` to    *)
(* the answer.                                                               *)
EXTENDS ArtifactStore, CaptureService

CONSTANTS Procs,       \* report service processes
          proc_of,     \* the process of a thread
          Earlier,     \* the capture of a report published before
          Configs,     \* [mode, dex, troves]: what main() accepts
          MaxPosts,    \* POSTs the gateway sends
          MaxCrashes,  \* process ends
          MaxNow       \* clock ticks

ASSUME ProcAssumption == proc_of \in [Threads -> Procs] /\ NULL \notin Threads
ASSUME ConfigAssumption ==
  \A c \in Configs : c.mode \in Modes /\ (c.dex \/ c.troves => c.mode = "live-public")

VARIABLES
  config,   \* the configuration of a process
  active,   \* its set of reports being worked on
  thread,   \* per thread: its step, report, request, capture id and reads
  wanted,   \* reports the retention worker wants deleted: not answered 200 yet
  posts, crashes, now

serviceVars == << config, active, thread, wanted, posts, crashes, now >>
vars == << storeVars, captureVars, serviceVars >>

Idle == [step |-> "free", report |-> NULL, request |-> NULL, capture |-> NULL,
         built |-> NULL, bytes |-> NULL]

Init ==
  /\ \E c \in Configs : config = [p \in Procs |-> c] /\ CaptureInit(c.mode)
  /\ \/ StoreInit([r \in Reports |-> NULL])
     \/ \E q \in Requests :
          LET p == IF q \in TroveRequests THEN trove_members(Earlier, q, 0)
                   ELSE capture_members(Earlier, "live-public", Healthy, q, 0)
          IN StoreInit([r \in Reports |-> Document(r, p, q, 0)])
  /\ active = [p \in Procs |-> {}]
  /\ thread = [t \in Threads |-> Idle]
  /\ wanted = {} /\ posts = 0 /\ crashes = 0 /\ now = 0

Config(t) == config[proc_of[t]]
Goto(t, s) == thread' = [thread EXCEPT ![t].step = s]

(* `finally`: the report leaves `active`, the lock is closed, the thread     *)
(* ends.                                                                     *)
Finish(t) ==
  /\ active' = [active EXCEPT ![proc_of[t]] = @ \ {thread[t].report}]
  /\ thread' = [thread EXCEPT ![t] = Idle]

Quiet == UNCHANGED << config, posts, crashes, now >>

-----------------------------------------------------------------------------
(* do_POST *)

(* A free slot takes the request; a report its process already works on is   *)
(* answered 409 at once, which leaves no trace here.                         *)
Post(t, r, q) ==
  /\ thread[t].step = "free" /\ posts < MaxPosts
  /\ r \notin active[proc_of[t]]
  /\ active' = [active EXCEPT ![proc_of[t]] = @ \cup {r}]
  /\ thread' = [thread EXCEPT ![t] = [Idle EXCEPT !.step = "lookup", !.report = r, !.request = q]]
  /\ posts' = posts + 1
  /\ UNCHANGED << config, wanted, crashes, now, storeVars, captureVars >>

Lookup(t) ==
  /\ thread[t].step = "lookup"
  /\ Goto(t, IF dir[thread[t].report].exists THEN "list" ELSE "capture")
  /\ UNCHANGED << active, wanted, storeVars, captureVars >> /\ Quiet

(* read_published, without the lock: the names, the bundle, the report.  The *)
(* request and the mode of what was read must be those of this request.      *)
ReadNames(t) ==
  /\ thread[t].step = "list"
  /\ IF Complete(thread[t].report) THEN Goto(t, "evidence") /\ UNCHANGED active ELSE Finish(t)
  /\ UNCHANGED << wanted, storeVars, captureVars >> /\ Quiet

ReadEvidence(t) ==
  LET b == dir[thread[t].report].evidence IN
  /\ thread[t].step = "evidence"
  /\ IF b # NULL /\ rebuild(b, now)
     THEN /\ thread' = [thread EXCEPT ![t].step = "report", ![t].built = b]
          /\ UNCHANGED active
     ELSE Finish(t)
  /\ UNCHANGED << wanted, storeVars, captureVars >> /\ Quiet

ReadReport(t) ==
  LET r == thread[t].report
      b == thread[t].built
      bytes == dir[r].report
  IN
  /\ thread[t].step = "report"
  /\ IF /\ bytes # NULL /\ SameReport(r, b, bytes)
        /\ b.request = thread[t].request /\ b.source_mode = Config(t).mode
     THEN /\ thread' = [thread EXCEPT ![t].step = "answer", ![t].bytes = bytes]
          /\ UNCHANGED active
     ELSE Finish(t)
  /\ UNCHANGED << wanted, storeVars, captureVars >> /\ Quiet

(* _capture: the product follows the request and the configuration.          *)
Product(t) == IF thread[t].request \in TroveRequests THEN "trove"
              ELSE IF Config(t).dex THEN "dex" ELSE "market"

Used == {c \in Captures : captures[c] # NULL}
        \cup {backlog[i].id : i \in DOMAIN backlog}
        \cup {thread[t].capture : t \in Threads}
        \cup (IF serving.request = NULL THEN {} ELSE {serving.request.id})

AskCapture(t) ==
  /\ thread[t].step = "capture"
  /\ Product(t) = "trove" => Config(t).troves
  /\ Captures \ Used # {}
  /\ LET c == CHOOSE c \in Captures \ Used : TRUE IN
       /\ thread' = [thread EXCEPT ![t].step = "await", ![t].capture = c]
       /\ backlog' = Append(backlog,
            [id |-> c, product |-> Product(t),
             for |-> IF Product(t) = "market" THEN NULL ELSE thread[t].request])
  /\ UNCHANGED << active, wanted, storeVars, mode, serving, captures >> /\ Quiet

(* Trove reports are not enabled, or the capture service cannot be reached.  *)
AskFails(t) ==
  /\ thread[t].step = "capture"
  /\ Finish(t)
  /\ UNCHANGED << wanted, storeVars, captureVars >> /\ Quiet

(* The answer is 201, an error, or none within 12.5 seconds; a capture that  *)
(* ends after that is never read.                                            *)
CaptureAnswered(t) ==
  /\ thread[t].step = "await" /\ captures[thread[t].capture] # NULL
  /\ Goto(t, "build")
  /\ UNCHANGED << active, wanted, storeVars, captureVars >> /\ Quiet

CaptureFailed(t) ==
  /\ thread[t].step = "await"
  /\ Finish(t)
  /\ UNCHANGED << wanted, storeVars, captureVars >> /\ Quiet

(* The package is read and the report built; the deadline of 15 seconds is   *)
(* looked at before publication.                                             *)
Build(t) ==
  LET p == captures[thread[t].capture]
      q == thread[t].request
      created == created_at(p, q, now)
      b == Document(thread[t].report, p, q, created)
  IN
  /\ thread[t].step = "build"
  /\ \/ /\ p.mode = Config(t).mode
        /\ BuildOutcome(p, q, created) = "ok" /\ Sellable(b, Config(t).dex) = "ok"
        /\ thread' = [thread EXCEPT ![t].step = "lock", ![t].built = b]
        /\ UNCHANGED active
     \/ Finish(t)
  /\ UNCHANGED << wanted, storeVars, captureVars >> /\ Quiet

(* publish_artifact: the lock without waiting, no directory yet, the bundle  *)
(* staged and verified, the rename.                                          *)
Stage(t) ==
  LET r == thread[t].report IN
  /\ thread[t].step = "lock"
  /\ \/ /\ ~dir[r].exists /\ rebuild(thread[t].built, now)
        /\ _open_report_lock(t, r)
        /\ Goto(t, "rename") /\ UNCHANGED active
     \/ /\ dir[r].exists \/ lock[r] # NULL \/ ~rebuild(thread[t].built, now)
        /\ Finish(t) /\ UNCHANGED lock
  /\ UNCHANGED << wanted, dir, captureVars >> /\ Quiet

Rename(t) ==
  /\ thread[t].step = "rename"
  /\ RenameStaging(thread[t].report, thread[t].built)
  /\ Unlock(t)
  /\ thread' = [thread EXCEPT ![t].step = "answer", ![t].bytes = thread[t].built]
  /\ UNCHANGED << active, wanted, captureVars >> /\ Quiet

(* 200, or the deadline has passed after all.                                *)
Answer(t) ==
  /\ thread[t].step = "answer"
  /\ Finish(t)
  /\ UNCHANGED << wanted, storeVars, captureVars >> /\ Quiet

-----------------------------------------------------------------------------
(* do_DELETE.  The retention worker selects reports that were published, and *)
(* asks every 30 seconds until it is told 200; a report in `active` or       *)
(* locked is refused.                                                        *)

Select(r) ==
  /\ r \notin wanted /\ dir[r].exists
  /\ wanted' = wanted \cup {r}
  /\ UNCHANGED << active, thread, storeVars, captureVars >> /\ Quiet

Delete(t, r) ==
  /\ thread[t].step = "free" /\ r \in wanted /\ r \notin active[proc_of[t]]
  /\ \/ /\ Deletable(r) /\ _open_report_lock(t, r)
        /\ active' = [active EXCEPT ![proc_of[t]] = @ \cup {r}]
        /\ thread' = [thread EXCEPT ![t] = [Idle EXCEPT !.step = "unlink", !.report = r]]
        /\ UNCHANGED wanted
     \/ /\ ~dir[r].exists /\ lock[r] = NULL
        /\ wanted' = wanted \ {r}
        /\ UNCHANGED << active, thread, lock >>
  /\ UNCHANGED << dir, captureVars >> /\ Quiet

UnlinkFirst(t) ==
  /\ thread[t].step = "unlink"
  /\ UnlinkEvidence(thread[t].report) /\ Goto(t, "unlink2")
  /\ UNCHANGED << active, wanted, lock, captureVars >> /\ Quiet

UnlinkSecond(t) ==
  /\ thread[t].step = "unlink2"
  /\ UnlinkReport(thread[t].report) /\ Goto(t, "rmdir")
  /\ UNCHANGED << active, wanted, lock, captureVars >> /\ Quiet

RemoveReport(t) ==
  /\ thread[t].step = "rmdir"
  /\ RemoveDirectory(thread[t].report) /\ Unlock(t)
  /\ \E told \in BOOLEAN : wanted' = IF told THEN wanted \ {thread[t].report} ELSE wanted
  /\ Finish(t)
  /\ UNCHANGED captureVars /\ Quiet

-----------------------------------------------------------------------------
(* A process ends: its threads and `active` are gone, its locks are free,    *)
(* what it staged is never looked at again, its files stay.                  *)
ServiceCrash(p) ==
  /\ crashes < MaxCrashes
  /\ \E t \in Threads : proc_of[t] = p /\ thread[t].step # "free"
  /\ crashes' = crashes + 1
  /\ thread' = [t \in Threads |-> IF proc_of[t] = p THEN Idle ELSE thread[t]]
  /\ lock' = [r \in Reports |-> IF \E t \in Threads : lock[r] = t /\ proc_of[t] = p
                                THEN NULL ELSE lock[r]]
  /\ active' = [active EXCEPT ![p] = {}]
  /\ \E c \in Configs : config' = [config EXCEPT ![p] = c]
  /\ UNCHANGED << dir, captureVars, wanted, posts, now >>

CaptureRestart ==
  /\ crashes < MaxCrashes /\ (serving # Resting \/ backlog # << >>)
  /\ crashes' = crashes + 1
  /\ CaptureCrash
  /\ UNCHANGED << storeVars, config, active, thread, wanted, posts, now >>

Capture ==
  CaptureStep(now) /\ UNCHANGED << storeVars, serviceVars >>

Tick ==
  /\ now < MaxNow /\ now' = now + 1
  /\ UNCHANGED << storeVars, captureVars, config, active, thread, wanted, posts, crashes >>

Work(t) ==
  \/ Lookup(t) \/ ReadNames(t) \/ ReadEvidence(t) \/ ReadReport(t)
  \/ AskCapture(t) \/ AskFails(t) \/ CaptureAnswered(t) \/ CaptureFailed(t)
  \/ Build(t) \/ Stage(t) \/ Rename(t) \/ Answer(t)
  \/ UnlinkFirst(t) \/ UnlinkSecond(t) \/ RemoveReport(t)

Next ==
  \/ \E t \in Threads, r \in Reports : (\E q \in Requests : Post(t, r, q)) \/ Delete(t, r)
  \/ \E t \in Threads : Work(t)
  \/ \E r \in Reports : Select(r)
  \/ \E p \in Procs : ServiceCrash(p)
  \/ CaptureRestart \/ Capture \/ Tick

(* A thread that runs goes on; the retention worker asks again until it is   *)
(* told the report is gone.  Crashes and POSTs are bounded.                  *)
Fairness ==
  /\ WF_vars(\E t \in Threads : Work(t))
  /\ WF_vars(\E t \in Threads, r \in Reports : Delete(t, r))

Spec == Init /\ [][Next]_vars /\ Fairness

-----------------------------------------------------------------------------
(* Whoever is answered 200 is told of one publication: the report.json read  *)
(* is the report inside the bundle read, of the id, the request and the      *)
(* source mode asked for, although read_published takes no lock and the      *)
(* directory may be deleted and published again between its three reads.     *)
AnswerIsOnePublication ==
  \A t \in Threads :
    LET h == thread[t] IN
    h.step = "answer" => /\ h.bytes = h.built
                         /\ h.built.report_id = h.report
                         /\ h.built.request = h.request
                         /\ h.built.source_mode = Config(t).mode

(* A published bundle verifies at any later time and under any later         *)
(* configuration: building the report again from the bundle gives the same   *)
(* bytes, however old the snapshot has become.                               *)
StoredVerifies ==
  \A r \in Reports :
    Complete(r) => rebuild(dir[r].evidence, now) /\ dir[r].evidence = dir[r].report

(* What an interrupted delete leaves of a directory does not stay: the next  *)
(* delete takes a subset of the files for what it is, and no lock survives   *)
(* the process that held it.                                                 *)
RemnantGoes == \A r \in Reports : Remnant(r) ~> ~dir[r].exists
=============================================================================
