------------------------------- MODULE Builds -------------------------------
(* The path of a request from POST /v1/report-quotes to a quote: the queue,  *)
(* the build slots of every gateway process (buildOne of workers/builds.ts)  *)
(* and the report service they call, each with its own idea of the time.     *)
EXTENDS BuildQueue

CONSTANTS Slots,    \* build slots, four in each gateway process
          Procs,    \* gateway processes
          runs_in,  \* the process of a slot
          Threads   \* threads of the report service

ASSUME SlotAssumption == runs_in \in [Slots -> Procs] /\ NULL \notin Threads

VARIABLES
  step,     \* how far buildOne is in a slot
  job,      \* the request the slot claimed
  conn,     \* the service thread whose answer the slot awaits
  thread, active, captures, store

Service == INSTANCE ReportService WITH Reports <- Keys, NoReport <- NULL

slotVars == << step, job, conn >>
serviceVars == << thread, active, captures, store >>
vars == << queueVars, slotVars, serviceVars >>

Steps == {"idle", "post", "wait", "verify", "publish", "reject", "fail"}

TypeOK ==
  /\ QueueTypeOK
  /\ Service!ServiceTypeOK
  /\ step \in [Slots -> Steps]
  /\ job \in [Slots -> Keys \cup {NULL}]
  /\ conn \in [Slots -> Threads \cup {NULL}]

Init ==
  /\ QueueInit
  /\ Service!ServiceInit
  /\ step = [s \in Slots |-> "idle"] /\ job = [s \in Slots |-> NULL]
  /\ conn = [s \in Slots |-> NULL]

Goto(s, n) == step' = [step EXCEPT ![s] = n]
Finish(s) == /\ Goto(s, "idle") /\ job' = [job EXCEPT ![s] = NULL]
             /\ conn' = [conn EXCEPT ![s] = NULL]

-----------------------------------------------------------------------------
(* buildOne, one step for every await *)

Claim(s) ==
  /\ step[s] = "idle"
  /\ \/ \E k \in Keys : /\ claimBuild(k)
                        /\ Goto(s, "post") /\ job' = [job EXCEPT ![s] = k]
     \/ claimNone /\ UNCHANGED << step, job >>
  /\ UNCHANGED << conn, serviceVars >>

Post(s) ==
  /\ step[s] = "post"
  /\ \E t \in Threads : /\ Service!Accept(t, job[s])
                        /\ conn' = [conn EXCEPT ![s] = t]
  /\ Goto(s, "wait")
  /\ UNCHANGED << queueVars, job >>

(* No thread was free, the connection broke or the 15 seconds are up: the    *)
(* slot gives up, whatever the service is still doing.                       *)
CallFails(s) ==
  /\ step[s] \in {"post", "wait"}
  /\ Goto(s, "fail")
  /\ conn' = [conn EXCEPT ![s] = NULL]
  /\ UNCHANGED << queueVars, serviceVars, job >>

(* The answer reaches the slot that still waits for this thread, if any; an  *)
(* error's code decides whether the request is rejected or has failed.       *)
Answer(t) ==
  LET waiting == {s \in Slots : conn[s] = t} IN
  /\ Service!Reply(t)
  /\ \E next \in IF thread[t].step = "200" THEN {"verify"} ELSE {"reject", "fail"} :
       step' = [s \in Slots |-> IF s \in waiting THEN next ELSE step[s]]
  /\ conn' = [s \in Slots |-> IF s \in waiting THEN NULL ELSE conn[s]]
  /\ UNCHANGED << queueVars, job >>

(* A slot that is told 409 fails.                                            *)
ServiceBegin(t) ==
  /\ Service!Begin(t)
  /\ step' = [s \in Slots |-> IF conn[s] = t /\ thread'[t].step = "free" THEN "fail" ELSE step[s]]
  /\ conn' = [s \in Slots |-> IF conn[s] = t /\ thread'[t].step = "free" THEN NULL ELSE conn[s]]
  /\ UNCHANGED << queueVars, job >>

ServiceCapture(t) == Service!Capture(t) /\ UNCHANGED << queueVars, slotVars >>
ServicePublish(t) == Service!PublishArtifact(t) /\ UNCHANGED << queueVars, slotVars >>

(* Both files are read back; then the report itself may be rejected, and     *)
(* sales may have closed.                                                    *)
ReadsBack(s) == job[s] \in store

Verify(s) ==
  /\ step[s] = "verify"
  /\ \/ ReadsBack(s) /\ Goto(s, "publish")
     \/ Goto(s, "reject")
     \/ Goto(s, "fail")
  /\ UNCHANGED << queueVars, serviceVars, job, conn >>

(* ledger.publish; any failure, INVALID_STATE included, ends in rejectBuild. *)
Publish(s) ==
  /\ step[s] = "publish"
  /\ \/ publish(job[s]) /\ Finish(s)
     \/ Goto(s, "fail") /\ UNCHANGED << queueVars, job, conn >>
  /\ UNCHANGED serviceVars

(* rejectBuild from the catch block; when it fails too, the lease is left to *)
(* lapse.                                                                    *)
Reject(s) ==
  /\ step[s] \in {"reject", "fail"}
  /\ \/ rejectBuild(job[s], IF step[s] = "reject" THEN "REJECTED" ELSE "BUILD_FAILED")
     \/ UNCHANGED queueVars
  /\ Finish(s)
  /\ UNCHANGED serviceVars

-----------------------------------------------------------------------------
(* Restarts *)

Crash(p) ==
  LET lost == {s \in Slots : runs_in[s] = p} IN
  /\ \E s \in lost : step[s] # "idle"
  /\ step' = [s \in Slots |-> IF s \in lost THEN "idle" ELSE step[s]]
  /\ job' = [s \in Slots |-> IF s \in lost THEN NULL ELSE job[s]]
  /\ conn' = [s \in Slots |-> IF s \in lost THEN NULL ELSE conn[s]]
  /\ UNCHANGED << queueVars, serviceVars >>

ServiceRestart ==
  /\ Service!ServiceCrash
  /\ step' = [s \in Slots |-> IF conn[s] # NULL THEN "fail" ELSE step[s]]
  /\ conn' = [s \in Slots |-> NULL]
  /\ UNCHANGED << queueVars, job >>

-----------------------------------------------------------------------------
Create(c) == (Lookup(c) \/ CreateRequest(c) \/ Poll(c)) /\ UNCHANGED << slotVars, serviceVars >>

Slot(s) == CallFails(s) \/ Verify(s) \/ Publish(s) \/ Reject(s)

LeaseEnds == (\E k \in Keys : LeaseLapses(k)) /\ UNCHANGED << slotVars, serviceVars >>
MinuteEnds == NewMinute /\ UNCHANGED << slotVars, serviceVars >>

Next ==
  \/ \E c \in Calls : Create(c)
  \/ \E s \in Slots : Claim(s) \/ Post(s) \/ Slot(s)
  \/ \E t \in Threads : ServiceBegin(t) \/ ServiceCapture(t) \/ ServicePublish(t) \/ Answer(t)
  \/ \E p \in Procs : Crash(p)
  \/ ServiceRestart
  \/ LeaseEnds \/ MinuteEnds

Spec == Init /\ [][Next]_vars

(* Every slot is scheduled each 500 ms and its awaits end by their timeouts; *)
(* request handlers end and callers poll; leases of 20 seconds run out.  The *)
(* report service owes nothing.                                              *)
Fairness ==
  /\ \A s \in Slots : WF_vars(Claim(s) \/ Slot(s))
  /\ WF_vars(\E c \in Calls : Create(c))
  /\ WF_vars(LeaseEnds)

FairSpec == Spec /\ Fairness

-----------------------------------------------------------------------------
(* Properties *)

(* claimBuild's limit over all replicas: no more than four builds hold a     *)
(* lease, whatever lapses, crashes and late publications happen.             *)
BuildSlots ==
  Cardinality({k \in Keys : state[k] = "PREPARING" /\ lease[k] = "LIVE"}) <= MaxActive

(* "Never rebuild using a fresh market snapshot": over all slots, restarts   *)
(* and lapsed leases the market is captured at most once for a report.       *)
OneSnapshot == \A k \in Keys : captures[k] <= 1

(* "One logical request per access scope and idempotency key": what a caller *)
(* was told about its body stays true, although the slot whose lease lapsed  *)
(* may still try to publish.                                                 *)
AnswersHold ==
  \A c \in Calls : answer[c] \in Decided \cup {"PREPARING"} =>
    /\ body[key[c]] = sent[c]
    /\ answer[c] \in Decided => state[key[c]] = answer[c]

(* A caller who polls gets an answer: no crash, lost reply or failed write   *)
(* leaves a request in preparation for ever.  (Every call is made once, so   *)
(* the queue drains.)                                                        *)
Preparing == {c \in Calls : answer[c] = "PREPARING"}
RequestsResolve == Preparing # {} ~> Preparing = {}
=============================================================================
