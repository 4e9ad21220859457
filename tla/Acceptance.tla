----------------------------- MODULE Acceptance -----------------------------
(* The acceptance runner (tools/mezo_acceptance/runner.py): it goes through  *)
(* the cases in order, runs or blocks each, collects one evidence file per   *)
(* executed case, seals the directory, publishes a result and verifies it.   *)
(* Several runs may be under way on one checkout, one grant journal and one  *)
(* payment database, while commits are made, grants expire and processes die.*)
(* The thirty cases are abstracted to one of each kind, plus A13 and A14.    *)
EXTENDS P3Operator, Sequences

CONSTANTS Options,     \* per run: the command lines it may be started with
          MaxDrift     \* bound: how often the checkout changes

VARIABLES head,     \* the checkout: its commit, and whether it is clean
          drift,    \* how often it changed
          run,      \* per run: its place, options, subject, rows and memory
          file,     \* per run and case: the evidence file
          result    \* per run: "none", "published" (final name), "invalid"

runVars == << head, drift, run, file, result >>
vars == << now, grantVars, opVars, runVars >>

CaseOrder == << "A01", "A07", "A13", "A14", "A29" >>
Cases == {"A01", "A07", "A13", "A14", "A29"}
Local == {"A01"}
Paid == {"A13", "A14"}
Statuses == {"none", "PASS", "FAIL", "BLOCKED", "PENDING", "NOT_RUN"}

Option == [mode : {"offline", "live"}, plan : BOOLEAN, p2 : BOOLEAN,
           p3 : BOOLEAN, pay : BOOLEAN]
ASSUME OptionAssumption == MaxDrift \in Nat /\ \A r \in Runs : Options[r] \subseteq Option
Heads == [commit : Commits, clean : BOOLEAN]
NoFile == [there |-> FALSE]
Observation == [status : {"none", "UNKNOWN", "CONFIRMED", "local", "harness"}, tx : Txs]
Says(status) == [status |-> status, tx |-> 0]
Files == {NoFile} \cup [there : {TRUE}, subject : Commits, says : Observation,
                        sealed : BOOLEAN]
RunPlaces == {"off", "new", "case", "local", "a07", "harness", "operator",
              "verify", "accepted", "exit2", "crashed"}

RunState == [at : RunPlaces, opts : Option, subject : Commits, before : Commits,
             next : 1 .. Len(CaseOrder) + 1, rows : [Cases -> Statuses], obs : Observation]

(* TypeOK: every variable of the runner, the operators and the grants holds  *)
(* a value of its kind; a file's subject is a commit, never a dirty tree.    *)
TypeOK ==
  /\ GrantsTypeOK /\ OperatorTypeOK
  /\ head \in Heads /\ drift \in 0 .. MaxDrift
  /\ run \in [Runs -> RunState]
  /\ file \in [Runs -> [Cases -> Files]]
  /\ result \in [Runs -> {"none", "published", "invalid"}]

NoOptions == [mode |-> "offline", plan |-> FALSE, p2 |-> FALSE, p3 |-> FALSE, pay |-> FALSE]
NewRun(at) == [at |-> at, opts |-> NoOptions, subject |-> head.commit,
               before |-> head.commit, next |-> 1,
               rows |-> [c \in Cases |-> "none"], obs |-> Says("none")]

(* Runs and plain public reads only share the journal directory, in which    *)
(* their grants have different markers: a behaviour has the ones or the      *)
(* others.                                                                   *)
Init ==
  /\ GrantsInit /\ OperatorInit
  /\ head \in [commit : Commits, clean : {TRUE}] /\ drift = 0
  /\ \E reading \in BOOLEAN :
       /\ read = [d \in Readers |-> [at |-> IF reading THEN "new" ELSE "off", addrs |-> {}]]
       /\ run = [r \in Runs |-> NewRun(IF reading THEN "off" ELSE "new")]
  /\ file = [r \in Runs |-> [c \in Cases |-> NoFile]]
  /\ result = [r \in Runs |-> "none"]

(* A process that ends or dies takes its memory with it: the rows survive    *)
(* only in a published result.                                               *)
Ended(r, at) ==
  [at |-> at, opts |-> NoOptions, subject |-> run[r].subject, before |-> run[r].subject,
   next |-> 1, obs |-> Says("none"),
   rows |-> IF result'[r] = "none" THEN [c \in Cases |-> "none"] ELSE run[r].rows]

-----------------------------------------------------------------------------
(* Starting a run.                                                           *)

(* repo_identity: a dirty checkout has no identity.                          *)
IsSubject(h, c) == h.clean /\ h.commit = c

(* The checks of the options and of the bundles, before anything is written. *)
Admissible(o) ==
  /\ head.clean
  /\ o.mode = "offline" => ~ o.p2 /\ ~ o.p3
  /\ o.mode = "live" => o.p2 \/ o.p3
  /\ o.p2 => ValidP2(head.commit, now)
  /\ o.p3 => ValidP3(head.commit, now)

Start(r) ==
  /\ run[r].at = "new"
  /\ UNCHANGED << now, grantVars, opVars, head, drift, file, result >>
  /\ \/ \E o \in Options[r] :
          /\ Admissible(o)
          /\ run' = [run EXCEPT ![r].at = "case", ![r].opts = o, ![r].subject = head.commit]
     \/ run' = [run EXCEPT ![r] = Ended(r, "exit2")]   \* or an input is unreadable

-----------------------------------------------------------------------------
(* The cases.                                                                *)

InCase(r, place) == run[r].at = place /\ run[r].next <= Len(CaseOrder)
Current(r) == CaseOrder[run[r].next]
IsExecuted(r, c) ==
  \/ c \in Local /\ run[r].opts.plan
  \/ c = "A07" /\ run[r].opts.p2
  \/ c \in Paid /\ run[r].opts.p3 /\ run[r].opts.pay

(* The row of the current case is appended, with its evidence file if any.   *)
AppendRow(r, status, evidence, obs) ==
  /\ run' = [run EXCEPT ![r].at = "case", ![r].next = @ + 1,
                        ![r].rows[Current(r)] = status, ![r].obs = obs]
  /\ file' = [file EXCEPT ![r][Current(r)] = evidence]
Record(r, status, evidence) == AppendRow(r, status, evidence, run[r].obs)
Evidence(subject, says) ==
  [there |-> TRUE, subject |-> subject, says |-> says, sealed |-> FALSE]

(* A case without its plan, its grant or its signed payment, and A29 always. *)
NotExecuted(r) ==
  /\ InCase(r, "case")
  /\ ~ IsExecuted(r, Current(r))
  /\ Record(r, IF Current(r) \in Local THEN "NOT_RUN" ELSE "BLOCKED", NoFile)
  /\ UNCHANGED << now, grantVars, opVars, head, drift, result >>

(* run_case: the dispatcher notes the commit, runs the assertion, compares   *)
(* the checkout with what it noted, writes its evidence and answers; the     *)
(* runner accepts only evidence of its own subject.                          *)
RunCase(r) ==
  /\ InCase(r, "case") /\ Current(r) \in Local
  /\ IsExecuted(r, Current(r))
  /\ run' = [run EXCEPT ![r].at = "local", ![r].before = head.commit]
  /\ UNCHANGED << now, grantVars, opVars, head, drift, file, result >>

DispatcherWrites(r) == IsSubject(head, run[r].before)
AcceptsEvidence(r) == run[r].before = run[r].subject

CaseEnds(r) ==
  /\ InCase(r, "local")
  /\ \/ Record(r, "FAIL", NoFile)   \* exit code, timeout, changed checkout
     \/ /\ DispatcherWrites(r) /\ AcceptsEvidence(r)
        /\ Record(r, "PASS", Evidence(run[r].before, Says("local")))
     \/ /\ DispatcherWrites(r)     \* timeout or refusal after the write
        /\ Record(r, "FAIL", Evidence(run[r].before, Says("local")))
  /\ UNCHANGED << now, grantVars, opVars, head, drift, result >>

(* A07 parses its grant again; an expired one ends the whole run.            *)
OpenA07(r) ==
  /\ InCase(r, "case") /\ Current(r) = "A07" /\ IsExecuted(r, "A07")
  /\ UNCHANGED << now, grantVars, opVars, head, drift, file, result >>
  /\ run' = [run EXCEPT ![r] = IF ParsesA07(now) THEN [@ EXCEPT !.at = "a07"]
                                                 ELSE Ended(r, "exit2")]

(* execute_a07: authorize, consume, build, run the harness once.             *)
ConsumeA07(r) ==
  /\ InCase(r, "a07")
  /\ IF Authorizes(p2, run[r].subject, now) /\ Consumable("A07")
       THEN /\ markers' = markers \cup {"A07"}
            /\ run' = [run EXCEPT ![r].at = "harness"]
            /\ UNCHANGED file
       ELSE Record(r, "FAIL", NoFile) /\ UNCHANGED markers
  /\ UNCHANGED << now, p2, p3, uses, read, opVars, head, drift, result >>

Harness(r) ==
  /\ InCase(r, "harness")
  /\ Use("A07")
  /\ \/ Record(r, "PASS", Evidence(run[r].subject, Says("harness")))
     \/ Record(r, "FAIL", NoFile)
  /\ UNCHANGED << now, p2, p3, markers, read, opVars, head, drift, result >>

(* A13 and A14 start an operator process each.                               *)
Invoke(r) ==
  /\ InCase(r, "case") /\ Current(r) \in Paid /\ IsExecuted(r, Current(r))
  /\ run' = [run EXCEPT ![r].at = "operator"]
  /\ op' = [op EXCEPT ![r] = [Idle EXCEPT !.at = "open"]]
  /\ UNCHANGED << now, grantVars, impl, migrated, attempt, submissions, transfer,
                  head, drift, file, result >>

(* evidence_reference raises in the handler of the exception: the run ends.  *)
UnreferencedEnds(r, says) ==
  /\ file' = [file EXCEPT ![r][Current(r)] = Evidence(run[r].subject, says)]
  /\ run' = [run EXCEPT ![r] = Ended(r, "exit2")]

Observed(r) == [status |-> op[r].out, tx |-> op[r].row.tx]

(* The operator answered: PASS for a confirmed payment, else it is pending.  *)
(* If the file just written fails evidence_reference, a confirmed payment's  *)
(* case is blocked and the file stays behind; a pending one's ends the run.  *)
Answered(r) ==
  /\ InCase(r, "operator") /\ op[r].at = "done" /\ op[r].out # "failed"
  /\ op' = [op EXCEPT ![r] = Idle]
  /\ UNCHANGED << now, grantVars, impl, migrated, attempt, submissions, transfer,
                  head, drift, result >>
  /\ \/ AppendRow(r, IF op[r].out = "CONFIRMED" THEN "PASS" ELSE "PENDING",
                  Evidence(run[r].subject, Observed(r)), Observed(r))
     \/ /\ op[r].out = "CONFIRMED"
        /\ AppendRow(r, "BLOCKED", Evidence(run[r].subject, Observed(r)), Observed(r))
     \/ /\ op[r].out = "UNKNOWN"
        /\ UnreferencedEnds(r, Observed(r))

Mut_HoldsPending(r) == run[r].obs.status # "CONFIRMED"
HoldsPending(r) == run[r].obs.status = "UNKNOWN"

(* It failed, or was killed after ninety seconds.  The runner then files the *)
(* observation it still holds, for A14 possibly that of A13.                 *)
Unanswered(r) ==
  /\ InCase(r, "operator") /\ op[r].out \in {"none", "failed"}
  /\ op' = [op EXCEPT ![r] = Idle]
  /\ UNCHANGED << now, grantVars, impl, migrated, attempt, submissions, transfer,
                  head, drift, result >>
  /\ IF HoldsPending(r)
       THEN \/ Record(r, "PENDING", Evidence(run[r].subject, run[r].obs))
            \/ UnreferencedEnds(r, run[r].obs)
       ELSE Record(r, "BLOCKED", NoFile)

-----------------------------------------------------------------------------
(* Sealing and publishing.                                                   *)

Referenced(r, c) == run[r].rows[c] \in {"PASS", "PENDING"}

(* _seal_evidence_tree: a file no row refers to is still writable.           *)
TreeSealable(r) == \A c \in Cases : file[r][c].there => Referenced(r, c)

(* payment_reference: A14 names the transaction of a passing A13.            *)
payment_reference(r) ==
  /\ run[r].rows["A13"] = "PASS"
  /\ file[r]["A14"].says.tx = file[r]["A13"].says.tx

(* validate_result_semantics on the rows as they will be published.          *)
Mut_Semantics(r) == TRUE
Semantics(r) == run[r].rows["A14"] = "PASS" => payment_reference(r)

Seals(r) == TreeSealable(r) /\ IsSubject(head, run[r].subject) /\ Semantics(r)

SealedFile(f) == IF f.there THEN [f EXCEPT !.sealed = TRUE] ELSE f

Publish(r) ==
  /\ run[r].at = "case" /\ run[r].next > Len(CaseOrder)
  /\ \/ /\ Seals(r)
        /\ file' = [file EXCEPT ![r] = [c \in Cases |-> SealedFile(file[r][c])]]
        /\ result' = [result EXCEPT ![r] = "published"]
        /\ run' = [run EXCEPT ![r].at = "verify"]
     \/ /\ UNCHANGED << file, result >>   \* refused, or the plan file changed
        /\ run' = [run EXCEPT ![r] = Ended(r, "exit2")]
  /\ UNCHANGED << now, grantVars, opVars, head, drift >>

(* verify_sealed_result on the published file, against the checkout as it is *)
(* now; a result that fails is renamed away.                                 *)
VerifySealed(r) ==
  /\ run[r].at = "verify"
  /\ IF IsSubject(head, run[r].subject)
       THEN UNCHANGED result /\ run' = [run EXCEPT ![r] = Ended(r, "accepted")]
       ELSE /\ result' = [result EXCEPT ![r] = "invalid"]
            /\ run' = [run EXCEPT ![r] = Ended(r, "exit2")]
  /\ UNCHANGED << now, grantVars, opVars, head, drift, file >>

-----------------------------------------------------------------------------
(* The environment.                                                          *)

Active(r) == run[r].at \notin {"off", "new", "accepted", "exit2", "crashed"}

(* The runner dies; an operator process it started lives on.                 *)
Crash(r) ==
  /\ Active(r)
  /\ UNCHANGED << now, grantVars, opVars, head, drift, file, result >>
  /\ run' = [run EXCEPT ![r] = Ended(r, "crashed")]

(* Somebody commits or checks out another commit, or edits a tracked file.   *)
Drift ==
  /\ drift < MaxDrift
  /\ drift' = drift + 1
  /\ \/ \E c \in Commits \ {head.commit} : head' = [commit |-> c, clean |-> TRUE]
     \/ head' = [head EXCEPT !.clean = ~ @]
  /\ UNCHANGED << now, grantVars, opVars, run, file, result >>

Clock == Tick /\ UNCHANGED << opVars, runVars >>
Chain == (\E n \in 1 .. MaxSubmissions : Deepen(n)) /\ UNCHANGED << now, grantVars, runVars >>
Operator(r) ==
  /\ OperatorStep(r, run[r].subject, head)
  /\ UNCHANGED << now, grantVars, runVars >>
Reader(d) == ReadStep(d, head.commit) /\ UNCHANGED << opVars, runVars >>

Next ==
  \/ \E r \in Runs :
       \/ Start(r) \/ NotExecuted(r) \/ RunCase(r) \/ CaseEnds(r)
       \/ OpenA07(r) \/ ConsumeA07(r) \/ Harness(r)
       \/ Invoke(r) \/ Answered(r) \/ Unanswered(r)
       \/ Publish(r) \/ VerifySealed(r) \/ Crash(r) \/ Operator(r)
  \/ \E d \in Readers : Reader(d)
  \/ Drift \/ Clock \/ Chain

Spec == Init /\ [][Next]_vars

-----------------------------------------------------------------------------
(* Safety.                                                                   *)

(* consume_public_read_grant: concurrent runs and readers, restarted after   *)
(* any failure, use one grant for one harness run or one request.            *)
GrantUsedOnce == \A g \in Grants : uses[g] <= 1

(* main, verify_sealed_result: a result under its final name, even one whose *)
(* run died before verifying it, is backed by the files beside it: every     *)
(* passing case has sealed evidence of this run's commit, nothing else lies  *)
(* in the directory, and passing payment cases show one transfer that the    *)
(* chain has buried and the database has confirmed.                          *)
Backed(r, c) ==
  /\ file[r][c].there /\ file[r][c].sealed
  /\ file[r][c].subject = run[r].subject
  /\ c \in Paid => /\ file[r][c].says = [status |-> "CONFIRMED", tx |-> attempt.tx]
                   /\ attempt.state = "CONFIRMED" /\ transfer[attempt.tx] = "deep"
                   /\ run[r].rows["A13"] = "PASS"

SealedIsBacked ==
  \A r \in Runs : result[r] = "published" =>
    \A c \in Cases : /\ run[r].rows[c] = "PASS" => Backed(r, c)
                     /\ file[r][c].there => Referenced(r, c)

(* main, the A13/A14 branch: a pending row is filed only while the ledger    *)
(* holds the grant's attempt as submitted or later, though the row's         *)
(* evidence may be older than the case, and no later run finds the grant     *)
(* unspent.  It does not say that settle was called: an operator killed      *)
(* between the consumption and the call leaves such an attempt too.          *)
PendingIsSpent ==
  \A r \in Runs, c \in Paid :
    run[r].rows[c] = "PENDING" => attempt.state # "NONE" /\ file[r][c].says.status = "UNKNOWN"
=============================================================================
