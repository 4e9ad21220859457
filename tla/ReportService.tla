--------------------------- MODULE ReportService ----------------------------
(* The report service: its request threads, the set of reports being built   *)
(* and the artifact directory.                                               *)
EXTENDS Naturals

CONSTANTS Reports,   \* report ids
          Threads,   \* the threads the BoundedSemaphore admits (4 in the code)
          NoReport   \* a thread that serves nobody

VARIABLES
  thread,    \* per thread: its step and its report
  active,    \* the set `active` guarded by active_lock
  captures,  \* how often a market snapshot was taken for a report
  store      \* the reports whose directory is published

serviceVars == << thread, active, captures, store >>

Idle == [step |-> "free", report |-> NoReport]

ServiceTypeOK ==
  /\ thread \in [Threads -> [step : {"free", "begin", "capture", "publish", "200", "error"},
                             report : Reports \cup {NoReport}]]
  /\ active \subseteq Reports
  /\ captures \in [Reports -> Nat]
  /\ store \subseteq Reports

ServiceInit ==
  /\ thread = [t \in Threads |-> Idle]
  /\ active = {}
  /\ captures = [r \in Reports |-> 0]
  /\ store = {}

Goto(t, s) == thread' = [thread EXCEPT ![t].step = s]

(* process_request: a thread is taken without waiting, or the caller gets a  *)
(* 503.                                                                      *)
Accept(t, r) ==
  /\ thread[t].step = "free"
  /\ thread' = [thread EXCEPT ![t] = [step |-> "begin", report |-> r]]
  /\ UNCHANGED << active, captures, store >>

(* A second request for a report under way gets 409, which the gateway does  *)
(* not tell from 503; `active` then stays the other thread's.  A report on   *)
(* disk is answered from disk, or refused: it cannot be read back, it is of  *)
(* another request or source mode, or the deadline passes.                   *)
Begin(t) ==
  LET r == thread[t].report IN
  /\ thread[t].step = "begin"
  /\ IF r \in active
     THEN thread' = [thread EXCEPT ![t] = Idle] /\ UNCHANGED active
     ELSE /\ active' = active \cup {r}
          /\ \E s \in IF r \in store THEN {"200", "error"} ELSE {"capture"} : Goto(t, s)
  /\ UNCHANGED << captures, store >>

(* _capture and build_report: a fresh snapshot is taken; it may be           *)
(* unavailable (503) or rejected (422): an error either way, which the       *)
(* gateway sorts by its code.                                                *)
Capture(t) ==
  LET r == thread[t].report IN
  /\ thread[t].step = "capture"
  /\ captures' = [captures EXCEPT ![r] = @ + 1]
  /\ \E s \in {"publish", "error"} : Goto(t, s)
  /\ UNCHANGED << active, store >>

(* publish_artifact: staged, verified and renamed under the report's lock;   *)
(* the deadline may pass before it starts or after it is done.               *)
PublishArtifact(t) ==
  LET r == thread[t].report IN
  /\ thread[t].step = "publish"
  /\ \/ /\ r \notin store
        /\ store' = store \cup {r}
        /\ \E s \in {"200", "error"} : Goto(t, s)
     \/ Goto(t, "error") /\ UNCHANGED store
  /\ UNCHANGED << active, captures >>

(* The answer is written, then `finally` gives the report and the thread up. *)
Reply(t) ==
  /\ thread[t].step \in {"200", "error"}
  /\ active' = active \ {thread[t].report}
  /\ thread' = [thread EXCEPT ![t] = Idle]
  /\ UNCHANGED << captures, store >>

(* The service is restarted: threads and `active` are memory, the published  *)
(* directories are not.                                                      *)
ServiceCrash ==
  /\ \E t \in Threads : thread[t].step # "free"
  /\ thread' = [t \in Threads |-> Idle]
  /\ active' = {}
  /\ UNCHANGED << captures, store >>
=============================================================================
