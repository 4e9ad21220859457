--------------------------- MODULE AcceptanceProofs ---------------------------
(* What holds of acceptance runs for any number of runs, readers, commits,   *)
(* command lines and bundles.  The inductive invariant has four parts: the   *)
(* types; what an operator process may still do to the one attempt           *)
(* (Handover); who still holds a spent grant (Spending); and what the rows   *)
(* and files of a run say of the attempt (Filed).                            *)
EXTENDS Acceptance, TLAPS

-----------------------------------------------------------------------------
(* The inductive invariant.                                                  *)

Handing(r) == op[r].at \in {"settle", "mark", "raised"}
Follows(r) == op[r].at \in {"reconcile", "done"}

(* While a process is between consumption and record, the attempt is fresh   *)
(* and no other process is there; a row read later agrees with the attempt   *)
(* on the transaction it names, and a confirmed attempt never changes.       *)
Handover ==
  /\ submissions <= 1
  /\ attempt.state = "NONE" => submissions = 0 /\ attempt.tx = 0
  /\ attempt.state = "CONFIRMED" => attempt.tx # 0 /\ transfer[attempt.tx] = "deep"
  /\ \A r \in Runs :
       /\ Handing(r) => attempt = [state |-> "SUBMITTING", tx |-> 0]
       /\ op[r].at = "settle" => submissions = 0
       /\ op[r].at = "done" => op[r].out # "none"
       /\ op[r].at = "reconcile" \/ op[r].out \in {"UNKNOWN", "CONFIRMED"} => attempt.state # "NONE"
       /\ Follows(r) /\ op[r].row.tx # 0 => op[r].row.tx = attempt.tx
       /\ op[r].row.state = "CONFIRMED" \/ op[r].out = "CONFIRMED" =>
            attempt = [state |-> "CONFIRMED", tx |-> op[r].row.tx]
  /\ \A r, s \in Runs : Handing(r) /\ Handing(s) => r = s

(* Whoever stands before the use of a grant created its marker, alone.       *)
Spending ==
  /\ \A g \in Grants : uses[g] <= 1 /\ (g \notin markers => uses[g] = 0)
  /\ \A r \in Runs : run[r].at = "harness" => "A07" \in markers /\ uses["A07"] = 0
  /\ \A d \in Readers : read[d].at = "request" => "read" \in markers /\ uses["read"] = 0
  /\ \A r, s \in Runs : run[r].at = "harness" /\ run[s].at = "harness" => r = s
  /\ \A d, e \in Readers : read[d].at = "request" /\ read[e].at = "request" => d = e

Sealing == {"verify", "accepted", "exit2", "crashed"}

(* What a status filed for a case requires of its evidence and the attempt.  *)
FiledAs(status, evidence, subject, c) ==
  /\ status = "PENDING" => /\ attempt.state # "NONE"
                           /\ evidence.there /\ evidence.says.status = "UNKNOWN"
  /\ status = "PASS" =>
       /\ evidence.there /\ evidence.subject = subject
       /\ c \in Paid => /\ attempt.state = "CONFIRMED"
                        /\ evidence.says = [status |-> "CONFIRMED", tx |-> attempt.tx]

FiledBy(r) ==
  /\ run[r].obs.status = "UNKNOWN" => attempt.state # "NONE"
  /\ run[r].at \in {"off", "new"} => \A c \in Cases : run[r].rows[c] = "none"
  /\ run[r].at = "local" /\ run[r].next <= Len(CaseOrder) => Current(r) \in Local
  /\ run[r].at \in {"a07", "harness"} /\ run[r].next <= Len(CaseOrder) => Current(r) = "A07"
  /\ result[r] # "none" => run[r].at \in Sealing
  /\ \A c \in Cases : FiledAs(run[r].rows[c], file[r][c], run[r].subject, c)
  /\ result[r] = "published" =>
       /\ \A c \in Cases : file[r][c].there => file[r][c].sealed /\ Referenced(r, c)
       /\ run[r].rows["A14"] = "PASS" => run[r].rows["A13"] = "PASS"

Filed == \A r \in Runs : FiledBy(r)

Inv == TypeOK /\ Handover /\ Spending /\ Filed

-----------------------------------------------------------------------------
(* Types.                                                                    *)

(* The case a run is at is one of the cases.                                 *)
LEMMA CurrentCase ==
  ASSUME TypeOK, NEW r \in Runs, run[r].next <= Len(CaseOrder)
  PROVE  Current(r) \in Cases /\ run[r].next + 1 \in 1 .. Len(CaseOrder) + 1
<1>1. run[r].next \in 1 .. 5 BY DEF TypeOK, RunState, CaseOrder
<1>2. CaseOrder[run[r].next] \in Cases BY <1>1 DEF CaseOrder, Cases
<1> QED BY <1>1, <1>2 DEF Current, CaseOrder

(* A process that ends is left in a well-formed state.                       *)
LEMMA EndedType ==
  ASSUME TypeOK, NEW r \in Runs, NEW at \in RunPlaces
  PROVE  Ended(r, at) \in RunState
<1>1. run[r] \in RunState BY DEF TypeOK
<1>2. NoOptions \in Option BY DEF NoOptions, Option
<1>3. Says("none") \in Observation BY SubmissionAssumption DEF Says, Observation, Txs
<1>4. [c \in Cases |-> "none"] \in [Cases -> Statuses] BY DEF Statuses
<1>5. 1 \in 1 .. Len(CaseOrder) + 1 BY DEF CaseOrder
<1> QED BY <1>1, <1>2, <1>3, <1>4, <1>5 DEF Ended, RunState

(* A row and its file are appended within their types.                       *)
LEMMA AppendType ==
  ASSUME TypeOK, NEW r \in Runs, run[r].next <= Len(CaseOrder),
         NEW status \in Statuses, NEW evidence \in Files, NEW obs \in Observation,
         AppendRow(r, status, evidence, obs)
  PROVE  run' \in [Runs -> RunState] /\ file' \in [Runs -> [Cases -> Files]]
<1>1. Current(r) \in Cases /\ run[r].next + 1 \in 1 .. Len(CaseOrder) + 1 BY CurrentCase
<1>2. run[r] \in RunState BY DEF TypeOK
<1>3. [run[r].rows EXCEPT ![Current(r)] = status] \in [Cases -> Statuses]
  BY <1>1, <1>2 DEF RunState
<1>4. run' = [run EXCEPT ![r] = [run[r] EXCEPT !.at = "case", !.next = run[r].next + 1,
                !.rows = [run[r].rows EXCEPT ![Current(r)] = status], !.obs = obs]]
  BY DEF AppendRow, TypeOK, RunState
<1>5. [run[r] EXCEPT !.at = "case", !.next = run[r].next + 1,
                !.rows = [run[r].rows EXCEPT ![Current(r)] = status], !.obs = obs] \in RunState
  BY <1>1, <1>2, <1>3 DEF RunState, RunPlaces
<1>6. run' \in [Runs -> RunState] BY <1>4, <1>5 DEF TypeOK
<1>7. file' \in [Runs -> [Cases -> Files]] BY <1>1 DEF AppendRow, TypeOK
<1> QED BY <1>6, <1>7

LEMMA EvidenceType ==
  ASSUME NEW c \in Commits, NEW says \in Observation
  PROVE  Evidence(c, says) \in Files
BY DEF Evidence, Files

(* A run that ends beside a file it has just written stays well formed.      *)
LEMMA UnreferencedType ==
  ASSUME TypeOK, NEW r \in Runs, run[r].next <= Len(CaseOrder), NEW says \in Observation,
         UnreferencedEnds(r, says)
  PROVE  run' \in [Runs -> RunState] /\ file' \in [Runs -> [Cases -> Files]]
<1>1. Ended(r, "exit2") \in RunState BY EndedType DEF RunPlaces
<1>2. run[r].subject \in Commits /\ Current(r) \in Cases BY CurrentCase DEF TypeOK, RunState
<1>3. Evidence(run[r].subject, says) \in Files BY <1>2, EvidenceType
<1> QED BY <1>1, <1>2, <1>3 DEF UnreferencedEnds, TypeOK

LEMMA SaysType ==
  /\ Says("local") \in Observation /\ Says("harness") \in Observation
  /\ Says("none") \in Observation
BY SubmissionAssumption DEF Says, Observation, Txs

RunStep(r) ==
  \/ Start(r) \/ NotExecuted(r) \/ RunCase(r) \/ CaseEnds(r)
  \/ OpenA07(r) \/ ConsumeA07(r) \/ Harness(r)
  \/ Invoke(r) \/ Answered(r) \/ Unanswered(r)
  \/ Publish(r) \/ VerifySealed(r) \/ Crash(r)

(* The runner's steps keep the types.                                        *)
LEMMA RunTypes == ASSUME TypeOK, NEW r \in Runs, RunStep(r) PROVE TypeOK'
<1> DEFINE RunsOK == /\ run' \in [Runs -> RunState] /\ file' \in [Runs -> [Cases -> Files]]
                     /\ result' \in [Runs -> {"none", "published", "invalid"}]
<1>0. /\ run[r] \in RunState /\ file[r] \in [Cases -> Files] /\ head \in Heads
      /\ op[r] \in OpState
  BY DEF TypeOK, OperatorTypeOK
<1>u. UNCHANGED << now, grantVars >> => GrantsTypeOK' BY DEF TypeOK, GrantsTypeOK, grantVars
<1>v. UNCHANGED opVars => OperatorTypeOK' BY DEF TypeOK, OperatorTypeOK, opVars
<1>w. /\ "BLOCKED" \in Statuses /\ "FAIL" \in Statuses /\ "PASS" \in Statuses
      /\ "NOT_RUN" \in Statuses /\ "PENDING" \in Statuses
      /\ NoFile \in Files
  BY DEF Statuses, Files
<1>x. /\ run[r].subject \in Commits /\ run[r].before \in Commits /\ run[r].obs \in Observation
  BY <1>0 DEF RunState
<1>y. ASSUME NEW at \in RunPlaces, run' = [run EXCEPT ![r] = Ended(r, at)]
      PROVE  run' \in [Runs -> RunState]
  <2>1. Ended(r, at) \in RunState BY EndedType
  <2> QED BY <1>y, <2>1 DEF TypeOK
<1>1. CASE Start(r)
  <2>1. ASSUME NEW o \in Options[r],
               run' = [run EXCEPT ![r].at = "case", ![r].opts = o, ![r].subject = head.commit]
        PROVE  run' \in [Runs -> RunState]
    <3>1. o \in Option BY OptionAssumption
    <3>2. head.commit \in Commits BY <1>0 DEF Heads
    <3> QED BY <1>0, <2>1, <3>1, <3>2 DEF TypeOK, RunState, RunPlaces
  <2>2. run' \in [Runs -> RunState] BY <1>1, <1>y, <2>1 DEF Start, RunPlaces
  <2> QED BY <1>1, <1>u, <1>v, <2>2 DEF Start, TypeOK
<1>2. CASE NotExecuted(r)
  <2>1. RunsOK BY <1>2, <1>w, <1>x, AppendType DEF NotExecuted, InCase, Record, TypeOK
  <2> QED BY <1>2, <1>u, <1>v, <2>1 DEF NotExecuted, TypeOK
<1>3. CASE RunCase(r)
  <2>1. head.commit \in Commits BY <1>0 DEF Heads
  <2>2. run' \in [Runs -> RunState] BY <1>0, <1>3, <2>1 DEF RunCase, TypeOK, RunState, RunPlaces
  <2> QED BY <1>3, <1>u, <1>v, <2>2 DEF RunCase, TypeOK
<1>4. CASE CaseEnds(r)
  <2>1. Evidence(run[r].before, Says("local")) \in Files BY <1>x, EvidenceType, SaysType
  <2>2. RunsOK BY <1>4, <1>w, <1>x, <2>1, AppendType DEF CaseEnds, InCase, Record, TypeOK
  <2> QED BY <1>4, <1>u, <1>v, <2>2 DEF CaseEnds, TypeOK
<1>5. CASE OpenA07(r)
  <2>1. [run EXCEPT ![r] = [run[r] EXCEPT !.at = "a07"]] \in [Runs -> RunState]
    BY <1>0 DEF TypeOK, RunState, RunPlaces
  <2>2. \/ run' = [run EXCEPT ![r] = [run[r] EXCEPT !.at = "a07"]]
        \/ run' = [run EXCEPT ![r] = Ended(r, "exit2")]
    BY <1>5 DEF OpenA07, TypeOK
  <2>3. run' \in [Runs -> RunState] BY <1>y, <2>1, <2>2 DEF RunPlaces
  <2> QED BY <1>5, <1>u, <1>v, <2>3 DEF OpenA07, TypeOK
<1>6. CASE ConsumeA07(r)
  <2>1. CASE Authorizes(p2, run[r].subject, now) /\ Consumable("A07")
    <3>a. run' = [run EXCEPT ![r].at = "harness"] BY <1>6, <2>1 DEF ConsumeA07
    <3>1. run' \in [Runs -> RunState] BY <1>0, <3>a DEF TypeOK, RunState, RunPlaces
    <3>2. GrantsTypeOK' BY <1>6, <2>1 DEF ConsumeA07, TypeOK, GrantsTypeOK, Grants
    <3> QED BY <1>6, <1>v, <2>1, <3>1, <3>2 DEF ConsumeA07, TypeOK
  <2>2. CASE ~ (Authorizes(p2, run[r].subject, now) /\ Consumable("A07"))
    <3>1. RunsOK BY <1>6, <1>w, <1>x, <2>2, AppendType DEF ConsumeA07, InCase, Record, TypeOK
    <3>2. GrantsTypeOK' BY <1>6, <2>2 DEF ConsumeA07, TypeOK, GrantsTypeOK
    <3> QED BY <1>6, <1>v, <3>1, <3>2 DEF ConsumeA07, TypeOK
  <2> QED BY <2>1, <2>2
<1>7. CASE Harness(r)
  <2>1. Evidence(run[r].subject, Says("harness")) \in Files BY <1>x, EvidenceType, SaysType
  <2>2. RunsOK BY <1>7, <1>w, <1>x, <2>1, AppendType DEF Harness, InCase, Record, TypeOK
  <2>3. GrantsTypeOK' BY <1>7 DEF Harness, Use, TypeOK, GrantsTypeOK, Grants
  <2> QED BY <1>7, <1>v, <2>2, <2>3 DEF Harness, TypeOK
<1>o. ASSUME NEW x \in OpState, op' = [op EXCEPT ![r] = x],
             UNCHANGED << impl, migrated, attempt, submissions, transfer >>
      PROVE  OperatorTypeOK'
  BY <1>o DEF TypeOK, OperatorTypeOK
<1>i. Idle \in OpState /\ [Idle EXCEPT !.at = "open"] \in OpState
  BY SubmissionAssumption DEF Idle, OpState, NoRow, Row, States, Txs, Places, Outs
<1>8. CASE Invoke(r)
  <2>1. run' \in [Runs -> RunState] BY <1>0, <1>8 DEF Invoke, TypeOK, RunState, RunPlaces
  <2>2. OperatorTypeOK' BY <1>8, <1>o, <1>i DEF Invoke
  <2> QED BY <1>8, <1>u, <2>1, <2>2 DEF Invoke, TypeOK
<1>9. CASE Answered(r)
  <2>1. Observed(r) \in Observation
    BY <1>0, <1>9 DEF Answered, Observed, OpState, Outs, Row, Observation
  <2>2. Evidence(run[r].subject, Observed(r)) \in Files BY <1>x, <2>1, EvidenceType
  <2>3. RunsOK
    BY <1>9, <1>w, <1>x, <2>1, <2>2, AppendType, UnreferencedType DEF Answered, InCase, TypeOK
  <2>4. OperatorTypeOK' BY <1>9, <1>o, <1>i DEF Answered
  <2> QED BY <1>9, <1>u, <2>3, <2>4 DEF Answered, TypeOK
<1>10. CASE Unanswered(r)
  <2>2. Evidence(run[r].subject, run[r].obs) \in Files BY <1>x, EvidenceType
  <2>3. RunsOK
    BY <1>10, <1>w, <1>x, <2>2, AppendType, UnreferencedType
    DEF Unanswered, InCase, Record, TypeOK
  <2>4. OperatorTypeOK' BY <1>10, <1>o, <1>i DEF Unanswered
  <2> QED BY <1>10, <1>u, <2>3, <2>4 DEF Unanswered, TypeOK
<1>11. CASE Publish(r)
  <2>1. \A f \in Files : SealedFile(f) \in Files BY DEF SealedFile, Files, NoFile
  <2>2. [c \in Cases |-> SealedFile(file[r][c])] \in [Cases -> Files] BY <1>0, <2>1
  <2>3. file' \in [Runs -> [Cases -> Files]] BY <1>11, <2>2 DEF Publish, TypeOK
  <2>4. result' \in [Runs -> {"none", "published", "invalid"}] BY <1>11 DEF Publish, TypeOK
  <2>5. \/ run' = [run EXCEPT ![r] = [run[r] EXCEPT !.at = "verify"]]
        \/ run' = [run EXCEPT ![r] = Ended(r, "exit2")]
    BY <1>11 DEF Publish, TypeOK
  <2>6. [run EXCEPT ![r] = [run[r] EXCEPT !.at = "verify"]] \in [Runs -> RunState]
    BY <1>0 DEF TypeOK, RunState, RunPlaces
  <2>7. run' \in [Runs -> RunState] BY <1>y, <2>5, <2>6 DEF RunPlaces
  <2> QED BY <1>11, <1>u, <1>v, <2>3, <2>4, <2>7 DEF Publish, TypeOK
<1>12. CASE VerifySealed(r)
  <2>1. run' \in [Runs -> RunState] BY <1>12, <1>y DEF VerifySealed, RunPlaces
  <2>2. result' \in [Runs -> {"none", "published", "invalid"}] BY <1>12 DEF VerifySealed, TypeOK
  <2> QED BY <1>12, <1>u, <1>v, <2>1, <2>2 DEF VerifySealed, TypeOK
<1>13. CASE Crash(r)
  <2>1. run' \in [Runs -> RunState] BY <1>13, <1>y DEF Crash, RunPlaces
  <2> QED BY <1>13, <1>u, <1>v, <2>1 DEF Crash, TypeOK
<1> QED BY <1>1, <1>2, <1>3, <1>4, <1>5, <1>6, <1>7, <1>8, <1>9, <1>10, <1>11, <1>12, <1>13 DEF RunStep

(* The operators' steps keep the types.                                      *)
LEMMA OperatorTypes == ASSUME TypeOK, NEW r \in Runs, Operator(r) PROVE TypeOK'
<1>0. op[r] \in OpState /\ op[r].row \in Row /\ attempt \in Row
      /\ op \in [Runs -> OpState] /\ submissions \in Nat
      /\ transfer \in [1 .. MaxSubmissions -> {"none", "sent", "deep"}]
  BY DEF TypeOK, OperatorTypeOK, OpState
<1>1. ASSUME NEW at \in Places, NEW row \in Row, NEW out \in Outs,
             op' = [op EXCEPT ![r] = [at |-> at, row |-> row, out |-> out]]
      PROVE  op' \in [Runs -> OpState]
  <2>1. [at |-> at, row |-> row, out |-> out] \in OpState BY DEF OpState
  <2> QED BY <1>0, <1>1, <2>1
<1>2. NoRow \in Row /\ [state |-> "SUBMITTING", tx |-> 0] \in Row
      /\ [state |-> "UNKNOWN", tx |-> 0] \in Row
  BY SubmissionAssumption DEF NoRow, Row, States, Txs
<1>3. \A row \in Row : Stored(row) \in Row BY DEF Stored, Row, States
<1>4. ASSUME NEW row \in Row, \/ \E at \in Places : Moves(r, at, row)
                              \/ \E out \in Outs : Ends(r, out, row)
      PROVE  op' \in [Runs -> OpState]
  BY <1>1, <1>4 DEF Moves, Ends, Places, Outs
<1>5. Fails(r) => op' \in [Runs -> OpState] BY <1>2, <1>4 DEF Fails, Outs
<1>6. ASSUME op' \in [Runs -> OpState], attempt' \in Row, submissions' \in Nat,
             transfer' \in [1 .. MaxSubmissions -> {"none", "sent", "deep"}],
             UNCHANGED << impl, migrated >>
      PROVE  TypeOK'
  <2>1. OperatorTypeOK' BY <1>6 DEF TypeOK, OperatorTypeOK
  <2>2. GrantsTypeOK' BY DEF Operator, TypeOK, GrantsTypeOK, grantVars
  <2> QED BY <2>1, <2>2 DEF TypeOK, Operator, runVars
<1>7. CASE Open(r, run[r].subject, head)
  <2>1. op' \in [Runs -> OpState] BY <1>0, <1>2, <1>4, <1>5, <1>7 DEF Open, Places
  <2> QED BY <1>0, <1>6, <1>7, <2>1 DEF Open, StoreUnchanged
<1>8. CASE VerifyFails(r) BY <1>0, <1>5, <1>6, <1>8 DEF VerifyFails, StoreUnchanged
<1>9. CASE Consume(r)
  <2>1. op' \in [Runs -> OpState] BY <1>0, <1>2, <1>4, <1>5, <1>9 DEF Consume, Places
  <2>2. attempt' \in Row BY <1>0, <1>2, <1>9 DEF Consume
  <2> QED BY <1>0, <1>6, <1>9, <2>1, <2>2 DEF Consume
<1>10. CASE Settle(r)
  <2>1. submissions + 1 \in 1 .. MaxSubmissions /\ submissions + 1 \in Txs
    BY <1>0, <1>10, SubmissionAssumption DEF Settle, Txs
  <2>2. [state |-> "UNKNOWN", tx |-> submissions + 1] \in Row BY <2>1 DEF Row, States
  <2>3. op' \in [Runs -> OpState] BY <1>2, <1>4, <1>10, <2>2 DEF Settle, Places
  <2>4. transfer' \in [1 .. MaxSubmissions -> {"none", "sent", "deep"}] BY <1>0, <1>10 DEF Settle
  <2> QED BY <1>0, <1>6, <1>10, <2>3, <2>4 DEF Settle
<1>11. CASE Mark(r)
  <2>1. op' \in [Runs -> OpState] BY <1>0, <1>3, <1>4, <1>11 DEF Mark, Places
  <2> QED BY <1>0, <1>3, <1>6, <1>11, <2>1 DEF Mark
<1>12. CASE MarkRaised(r) BY <1>0, <1>3, <1>5, <1>6, <1>12 DEF MarkRaised
<1>13. CASE Reconcile(r)
  <2>1. [state |-> "CONFIRMED", tx |-> op[r].row.tx] \in Row BY <1>0 DEF Row, States
  <2>2. op' \in [Runs -> OpState] BY <1>0, <1>4, <1>5, <1>13, <2>1 DEF Reconcile, Outs
  <2>3. attempt' \in Row BY <1>0, <1>13, <2>1 DEF Reconcile
  <2> QED BY <1>0, <1>6, <1>13, <2>2, <2>3 DEF Reconcile
<1>14. CASE BeginAttempt(r)
  <2>1. op' \in [Runs -> OpState] BY <1>2, <1>4, <1>14 DEF BeginAttempt, Places
  <2> QED BY <1>0, <1>6, <1>14, <2>1 DEF BeginAttempt, StoreUnchanged
<1> QED BY <1>7, <1>8, <1>9, <1>10, <1>11, <1>12, <1>13, <1>14 DEF Operator, OperatorStep

(* The readers' steps keep the types.                                        *)
LEMMA ReaderTypes == ASSUME TypeOK, NEW d \in Readers, Reader(d) PROVE TypeOK'
<1> DEFINE ReadState == [at : ReadPlaces, addrs : SUBSET Addresses]
<1>0. read \in [Readers -> ReadState] /\ read[d].addrs \in SUBSET Addresses
  BY DEF TypeOK, GrantsTypeOK
<1>1. ASSUME NEW at \in ReadPlaces, NEW addrs \in SUBSET Addresses, ReadMoves(d, at, addrs)
      PROVE  read' \in [Readers -> ReadState]
  BY <1>0, <1>1 DEF ReadMoves
<1>2. OperatorTypeOK' BY DEF Reader, TypeOK, OperatorTypeOK, opVars
<1>3. ASSUME read' \in [Readers -> ReadState], markers' \subseteq Grants, uses' \in [Grants -> Nat],
             UNCHANGED << now, p2, p3 >>
      PROVE  TypeOK'
  <2>1. GrantsTypeOK' BY <1>3 DEF TypeOK, GrantsTypeOK
  <2> QED BY <1>2, <2>1 DEF TypeOK, Reader, runVars
<1>4. markers \subseteq Grants /\ uses \in [Grants -> Nat] BY DEF TypeOK, GrantsTypeOK
<1>5. CASE ReadOpen(d, head.commit)
  <2>1. read' \in [Readers -> ReadState] BY <1>1, <1>5 DEF ReadOpen, ReadPlaces
  <2> QED BY <1>3, <1>4, <1>5, <2>1 DEF ReadOpen
<1>6. CASE ReadResolve(d)
  <2>1. read' \in [Readers -> ReadState] BY <1>1, <1>6 DEF ReadResolve, ReadPlaces
  <2> QED BY <1>3, <1>4, <1>6, <2>1 DEF ReadResolve
<1>7. CASE ReadConsume(d)
  <2>1. read' \in [Readers -> ReadState] BY <1>0, <1>1, <1>7 DEF ReadConsume, ReadPlaces
  <2>2. markers' \subseteq Grants BY <1>4, <1>7 DEF ReadConsume, Grants
  <2> QED BY <1>3, <1>4, <1>7, <2>1, <2>2 DEF ReadConsume
<1>8. CASE ReadRequest(d)
  <2>1. read' \in [Readers -> ReadState] BY <1>0, <1>1, <1>8 DEF ReadRequest, ReadPlaces
  <2>2. uses' \in [Grants -> Nat] BY <1>4, <1>8 DEF ReadRequest, Use, Grants
  <2> QED BY <1>3, <1>4, <1>8, <2>1, <2>2 DEF ReadRequest
<1> QED BY <1>5, <1>6, <1>7, <1>8 DEF Reader, ReadStep

Environment == Drift \/ Clock \/ Chain

(* Commits, time and blocks keep the types.                                  *)
LEMMA EnvironmentTypes == ASSUME TypeOK, Environment PROVE TypeOK'
<1>1. CASE Drift
  <2>a. head \in Heads /\ (~ head.clean) \in BOOLEAN BY DEF TypeOK, Heads
  <2>b. \A b \in BOOLEAN : [head EXCEPT !.clean = b] \in Heads BY <2>a DEF Heads
  <2>c. \A c \in Commits : [commit |-> c, clean |-> TRUE] \in Heads BY DEF Heads
  <2>1. head' \in Heads BY <1>1, <2>a, <2>b, <2>c DEF Drift
  <2>2. drift' \in 0 .. MaxDrift BY <1>1, OptionAssumption DEF Drift, TypeOK
  <2>3. GrantsTypeOK' /\ OperatorTypeOK'
    BY <1>1 DEF Drift, TypeOK, GrantsTypeOK, OperatorTypeOK, grantVars, opVars
  <2> QED BY <1>1, <2>1, <2>2, <2>3 DEF Drift, TypeOK
<1>2. CASE Clock
  <2>1. now' \in 0 .. MaxNow BY <1>2, GrantAssumption DEF Clock, Tick, TypeOK, GrantsTypeOK
  <2>2. GrantsTypeOK' /\ OperatorTypeOK'
    BY <1>2, <2>1 DEF Clock, Tick, TypeOK, GrantsTypeOK, OperatorTypeOK, grantVars, opVars
  <2> QED BY <1>2, <2>2 DEF Clock, TypeOK, runVars
<1>3. CASE Chain
  <2>1. OperatorTypeOK' BY <1>3 DEF Chain, Deepen, TypeOK, OperatorTypeOK
  <2>2. GrantsTypeOK' BY <1>3 DEF Chain, TypeOK, GrantsTypeOK, grantVars
  <2> QED BY <1>3, <2>1, <2>2 DEF Chain, TypeOK, runVars
<1> QED BY <1>1, <1>2, <1>3 DEF Environment

-----------------------------------------------------------------------------
(* Handover.                                                                 *)

(* A step that leaves the attempt, the chain and the operators alone.        *)
LEMMA HandoverFrame ==
  ASSUME Handover, UNCHANGED << attempt, submissions, transfer, op >>
  PROVE  Handover'
BY DEF Handover, Handing, Follows

(* A runner that starts an operator or forgets one changes no other.         *)
LEMMA HandoverReset ==
  ASSUME TypeOK, Handover, NEW r \in Runs, NEW at \in {"idle", "open"},
         op' = [op EXCEPT ![r] = [at |-> at, row |-> NoRow, out |-> "none"]],
         UNCHANGED << attempt, submissions, transfer >>
  PROVE  Handover'
<1>1. \A s \in Runs : op'[s] = IF s = r THEN [at |-> at, row |-> NoRow, out |-> "none"] ELSE op[s]
  BY DEF TypeOK, OperatorTypeOK
<1> QED BY <1>1 DEF Handover, Handing, Follows, NoRow

(* Only one operator hands the payment over, and it does so once.            *)
LEMMA HandoverOperator ==
  ASSUME TypeOK, Handover, NEW r \in Runs, Operator(r)
  PROVE  Handover'
<1>0. /\ op \in [Runs -> OpState] /\ submissions \in Nat /\ attempt \in Row
      /\ transfer \in [1 .. MaxSubmissions -> {"none", "sent", "deep"}]
  BY DEF TypeOK, OperatorTypeOK
<1>1. ASSUME NEW x, op' = [op EXCEPT ![r] = x]
      PROVE  \A s \in Runs : op'[s] = IF s = r THEN x ELSE op[s]
  BY <1>0, <1>1
<1> USE DEF Handover, Handing, Follows
<1>2. ASSUME Fails(r), UNCHANGED << attempt, submissions, transfer >> PROVE Handover'
  <2>1. \A s \in Runs : op'[s] = IF s = r THEN [at |-> "done", row |-> NoRow, out |-> "failed"]
                                         ELSE op[s]
    BY <1>1, <1>2 DEF Fails, Ends
  <2> QED BY <1>2, <2>1 DEF NoRow
<1>3. ASSUME attempt.state # "NONE", Moves(r, "reconcile", attempt),
             UNCHANGED << attempt, submissions, transfer >>
      PROVE  Handover'
  <2>1. \A s \in Runs : op'[s] = IF s = r THEN [at |-> "reconcile", row |-> attempt, out |-> "none"]
                                         ELSE op[s]
    BY <1>1, <1>3 DEF Moves
  <2>2. attempt = [state |-> attempt.state, tx |-> attempt.tx] BY <1>0 DEF Row
  <2> QED BY <1>3, <2>1, <2>2
<1>4. CASE Open(r, run[r].subject, head)
  <2>1. ASSUME Moves(r, "verify", NoRow) PROVE Handover'
    <3>1. \A s \in Runs : op'[s] = IF s = r THEN [at |-> "verify", row |-> NoRow, out |-> "none"]
                                           ELSE op[s]
      BY <1>1, <2>1 DEF Moves
    <3> QED BY <1>4, <3>1 DEF Open, StoreUnchanged, NoRow
  <2> QED BY <1>2, <1>3, <1>4, <2>1 DEF Open, StoreUnchanged
<1>5. CASE VerifyFails(r) BY <1>2, <1>5 DEF VerifyFails, StoreUnchanged
<1>6. CASE Consume(r)
  <2>1. CASE MayConsume
    <3>1. attempt.state = "NONE" /\ attempt' = [state |-> "SUBMITTING", tx |-> 0]
          /\ submissions' = submissions /\ transfer' = transfer
      BY <1>6, <2>1 DEF Consume, MayConsume
    <3>2. \A s \in Runs : op'[s] = IF s = r THEN [at |-> "settle", row |-> NoRow, out |-> "none"]
                                           ELSE op[s]
      BY <1>1, <1>6, <2>1 DEF Consume, Moves
    <3>3. \A s \in Runs : ~ Handing(s) /\ op[s].at # "reconcile"
                          /\ op[s].out \notin {"UNKNOWN", "CONFIRMED"} /\ op[s].row.state # "CONFIRMED"
      BY <3>1
    <3>4. \A s \in Runs : op[s].at \in {"reconcile", "done"} => op[s].row.tx = 0
      BY <3>1, <3>3
    <3> QED BY <3>1, <3>2, <3>3, <3>4 DEF NoRow
  <2>2. CASE ~ MayConsume BY <1>2, <1>3, <1>6, <2>2 DEF Consume, MayConsume
  <2> QED BY <2>1, <2>2
<1>7. CASE Settle(r)
  <2>1. attempt = [state |-> "SUBMITTING", tx |-> 0] /\ submissions = 0 /\ attempt' = attempt
        /\ submissions' = 1
    BY <1>7 DEF Settle
  <2>2. PICK x \in OpState : /\ op' = [op EXCEPT ![r] = x] /\ x.at \in {"mark", "raised"}
                             /\ x.row.state = "UNKNOWN" /\ x.out = "none"
    <3>1. 1 \in Txs /\ 0 \in Txs BY <1>7, <2>1, SubmissionAssumption DEF Settle, Txs
    <3>2. PICK at \in {"mark", "raised"}, tx \in {0, 1} : Moves(r, at, [state |-> "UNKNOWN", tx |-> tx])
      BY <1>7, <2>1 DEF Settle
    <3>3. [at |-> at, row |-> [state |-> "UNKNOWN", tx |-> tx], out |-> "none"] \in OpState
      BY <3>1 DEF OpState, Row, States, Places, Outs
    <3> QED BY <3>2, <3>3 DEF Moves
  <2>3. \A s \in Runs : op'[s] = IF s = r THEN x ELSE op[s] BY <1>1, <2>2
  <2>4. \A s \in Runs : s # r => ~ Handing(s) BY <1>7 DEF Settle
  <2> QED BY <2>1, <2>2, <2>3, <2>4
<1>8. CASE Mark(r)
  <2>1. attempt = [state |-> "SUBMITTING", tx |-> 0] BY <1>8 DEF Mark
  <2>2. /\ attempt' = [state |-> "UNKNOWN", tx |-> op[r].row.tx]
        /\ submissions' = submissions /\ transfer' = transfer
    BY <1>8 DEF Mark, Stored
  <2>3. \A s \in Runs : op'[s] = IF s = r THEN [at |-> "reconcile", row |-> attempt', out |-> "none"]
                                         ELSE op[s]
    BY <1>1, <1>8 DEF Mark, Moves
  <2>4. \A s \in Runs : s # r => ~ Handing(s) BY <1>8 DEF Mark
  <2> QED BY <2>1, <2>2, <2>3, <2>4
<1>9. CASE MarkRaised(r)
  <2>1. attempt = [state |-> "SUBMITTING", tx |-> 0] BY <1>9 DEF MarkRaised
  <2>2. /\ attempt'.state \in {"SUBMITTING", "UNKNOWN"}
        /\ submissions' = submissions /\ transfer' = transfer
    BY <1>9, <2>1 DEF MarkRaised, Stored
  <2>3. \A s \in Runs : op'[s] = IF s = r THEN [at |-> "done", row |-> NoRow, out |-> "failed"]
                                         ELSE op[s]
    BY <1>1, <1>9 DEF MarkRaised, Fails, Ends
  <2>4. \A s \in Runs : s # r => ~ Handing(s) BY <1>9 DEF MarkRaised
  <2>5. \A s \in Runs : /\ op[s].at \in {"reconcile", "done"} => op[s].row.tx = 0
                        /\ op[s].row.state # "CONFIRMED" /\ op[s].out # "CONFIRMED"
    BY <2>1
  <2>6. \A s \in Runs : /\ ~ Handing(s)' /\ op'[s].row.state # "CONFIRMED"
                        /\ op'[s].out # "CONFIRMED"
                        /\ op'[s].at \in {"reconcile", "done"} => op'[s].row.tx = 0
                        /\ op'[s].at = "done" => op'[s].out # "none"
    BY <2>3, <2>4, <2>5 DEF NoRow
  <2> QED BY <2>1, <2>2, <2>3, <2>6 DEF NoRow
<1>10. CASE Reconcile(r)
  <2>0. attempt.state # "NONE" /\ submissions' = submissions /\ transfer' = transfer
    BY <1>10 DEF Reconcile
  <2>1. CASE Ends(r, "CONFIRMED", op[r].row) /\ op[r].row.state = "CONFIRMED" /\ UNCHANGED attempt
    <3>1. \A s \in Runs : op'[s] = IF s = r THEN [at |-> "done", row |-> op[r].row, out |-> "CONFIRMED"]
                                           ELSE op[s]
      BY <1>1, <2>1 DEF Ends
    <3> QED BY <1>10, <2>0, <2>1, <3>1 DEF Reconcile
  <2>2. CASE /\ Deep(op[r].row.tx)
             /\ attempt' = [state |-> "CONFIRMED", tx |-> op[r].row.tx]
             /\ Ends(r, "CONFIRMED", [state |-> "CONFIRMED", tx |-> op[r].row.tx])
    <3>1. \A s \in Runs : op'[s] = IF s = r THEN [at |-> "done", row |-> attempt', out |-> "CONFIRMED"]
                                           ELSE op[s]
      BY <1>1, <2>2 DEF Ends
    <3>2. op[r].row.tx # 0 /\ attempt.tx = op[r].row.tx /\ transfer[op[r].row.tx] = "deep"
      BY <1>10, <2>2 DEF Reconcile, Deep
    <3>3. \A s \in Runs : ~ Handing(s) BY <3>2
    <3> QED BY <2>0, <2>2, <3>1, <3>2, <3>3
  <2>3. CASE Ends(r, "UNKNOWN", op[r].row) /\ op[r].row.state # "CONFIRMED" /\ UNCHANGED attempt
    <3>1. \A s \in Runs : op'[s] = IF s = r THEN [at |-> "done", row |-> op[r].row, out |-> "UNKNOWN"]
                                           ELSE op[s]
      BY <1>1, <2>3 DEF Ends
    <3> QED BY <1>10, <2>0, <2>3, <3>1 DEF Reconcile
  <2>4. CASE Fails(r) /\ UNCHANGED attempt BY <1>2, <2>0, <2>4
  <2> QED BY <1>10, <2>1, <2>2, <2>3, <2>4 DEF Reconcile
<1>11. CASE BeginAttempt(r)
  <2>1. \A s \in Runs : op'[s] = IF s = r THEN [at |-> "submit", row |-> NoRow, out |-> "none"]
                                         ELSE op[s]
    BY <1>1, <1>11 DEF BeginAttempt, Moves
  <2> QED BY <1>11, <2>1 DEF BeginAttempt, StoreUnchanged, NoRow
<1> QED BY <1>4, <1>5, <1>6, <1>7, <1>8, <1>9, <1>10, <1>11 DEF Operator, OperatorStep

(* What an operator does never takes back a consumption or a confirmation.   *)
LEMMA OperatorKeeps ==
  ASSUME TypeOK, Handover, NEW r \in Runs, Operator(r)
  PROVE  /\ attempt.state # "NONE" => attempt'.state # "NONE"
         /\ attempt.state = "CONFIRMED" => attempt' = attempt
<1>0. attempt = [state |-> attempt.state, tx |-> attempt.tx] BY DEF TypeOK, OperatorTypeOK, Row
<1>1. CASE Consume(r) BY <1>1 DEF Consume, MayConsume
<1>2. CASE Mark(r) BY <1>2 DEF Mark, Stored, Handover, Handing
<1>3. CASE MarkRaised(r) BY <1>3 DEF MarkRaised, Stored, Handover, Handing
<1>4. CASE Reconcile(r) BY <1>0, <1>4 DEF Reconcile, Deep, Handover, Follows
<1> QED BY <1>1, <1>2, <1>3, <1>4
     DEF Operator, OperatorStep, Open, VerifyFails, BeginAttempt, Settle, StoreUnchanged

-----------------------------------------------------------------------------
(* Spending.                                                                 *)

(* A step that spends nothing and brings nobody before a use.                *)
LEMMA SpendingFrame ==
  ASSUME Spending, UNCHANGED << markers, uses >>,
         \A s \in Runs : run'[s].at = "harness" => run[s].at = "harness",
         \A d \in Readers : read'[d].at = "request" => read[d].at = "request"
  PROVE  Spending'
BY DEF Spending

(* What a step of one run does to the runs.                                  *)
LEMMA OtherRuns ==
  ASSUME TypeOK, NEW r \in Runs, RunStep(r), NEW s \in Runs, s # r
  PROVE  run'[s] = run[s] /\ file'[s] = file[s] /\ result'[s] = result[s]
BY DEF RunStep, Start, NotExecuted, RunCase, CaseEnds, OpenA07, ConsumeA07, Harness, Invoke,
       Answered, Unanswered, Publish, VerifySealed, Crash, Record, AppendRow, UnreferencedEnds, TypeOK

(* A row is appended to one run.                                             *)
LEMMA Appended ==
  ASSUME TypeOK, NEW r \in Runs, run[r].next <= Len(CaseOrder),
         NEW status, NEW evidence, NEW obs, AppendRow(r, status, evidence, obs)
  PROVE  /\ run'[r].at = "case" /\ run'[r].obs = obs /\ run'[r].subject = run[r].subject
         /\ \A c \in Cases : /\ run'[r].rows[c] = IF c = Current(r) THEN status ELSE run[r].rows[c]
                             /\ file'[r][c] = IF c = Current(r) THEN evidence ELSE file[r][c]
<1>1. Current(r) \in Cases BY CurrentCase
<1>2. run[r] \in RunState BY DEF TypeOK
<1> QED BY <1>1, <1>2 DEF AppendRow, TypeOK, RunState

LEMMA RunSpending ==
  ASSUME TypeOK, Spending, NEW r \in Runs, RunStep(r)
  PROVE  Spending'
<1>0. \A s \in Runs : s # r => run'[s] = run[s] BY OtherRuns
<1>1. CASE ConsumeA07(r) /\ Authorizes(p2, run[r].subject, now) /\ Consumable("A07")
  <2>1. /\ "A07" \notin markers /\ markers' = markers \cup {"A07"} /\ uses' = uses /\ read' = read
    BY <1>1 DEF ConsumeA07, Consumable
  <2>2. \A s \in Runs : run[s].at # "harness" BY <2>1 DEF Spending
  <2>3. "A07" \in Grants BY DEF Grants
  <2> QED BY <1>0, <2>1, <2>2, <2>3 DEF Spending
<1>2. CASE Harness(r)
  <2>1. /\ uses' = [uses EXCEPT !["A07"] = @ + 1] /\ markers' = markers /\ read' = read
        /\ run[r].at = "harness"
    BY <1>2 DEF Harness, Use, InCase
  <2>2. run'[r].at = "case" BY <1>2, Appended DEF Harness, InCase, Record
  <2>3. uses["A07"] = 0 /\ "A07" \in markers /\ "A07" \in Grants /\ uses \in [Grants -> Nat]
    BY <2>1 DEF Spending, Grants, TypeOK, GrantsTypeOK
  <2>4. \A s \in Runs : s # r => run[s].at # "harness" BY <2>1 DEF Spending
  <2>5. uses'["A07"] = 1 /\ uses'["read"] = uses["read"] BY <2>1, <2>3 DEF Grants
  <2> QED BY <1>0, <2>1, <2>2, <2>3, <2>4, <2>5 DEF Spending, Grants
<1>3. ASSUME UNCHANGED << markers, uses, read >>, run'[r].at # "harness" PROVE Spending'
  BY <1>0, <1>3, SpendingFrame
<1>4. CASE ConsumeA07(r) /\ ~ (Authorizes(p2, run[r].subject, now) /\ Consumable("A07"))
  <2>1. run'[r].at = "case" BY <1>4, Appended DEF ConsumeA07, InCase, Record
  <2> QED BY <1>3, <1>4, <2>1 DEF ConsumeA07
<1>5. CASE NotExecuted(r) \/ CaseEnds(r) \/ Answered(r) \/ Unanswered(r)
  <2>0. ASSUME NEW says, UnreferencedEnds(r, says) PROVE run'[r].at = "exit2"
    BY <2>0 DEF UnreferencedEnds, Ended, TypeOK
  <2>1. run'[r].at \in {"case", "exit2"}
    BY <1>5, <2>0, Appended DEF NotExecuted, CaseEnds, Answered, Unanswered, InCase, Record
  <2> QED BY <1>3, <1>5, <2>1 DEF NotExecuted, CaseEnds, Answered, Unanswered, grantVars
<1>6. CASE Start(r) \/ RunCase(r) \/ OpenA07(r) \/ Invoke(r) \/ Publish(r) \/ VerifySealed(r) \/ Crash(r)
  <2>0. ASSUME NEW at, run' = [run EXCEPT ![r] = Ended(r, at)] PROVE run'[r].at = at
    BY <2>0 DEF Ended, TypeOK
  <2>1. run'[r].at # "harness"
    <3>a. ASSUME NEW o, run' = [run EXCEPT ![r].at = "case", ![r].opts = o, ![r].subject = head.commit]
          PROVE  run'[r].at = "case"
      BY <3>a DEF TypeOK, RunState
    <3>1. CASE Start(r) BY <2>0, <3>1, <3>a DEF Start
    <3>2. CASE OpenA07(r) BY <2>0, <3>2 DEF OpenA07, TypeOK, RunState
    <3>3. CASE Publish(r) BY <2>0, <3>3 DEF Publish, TypeOK, RunState
    <3>4. CASE RunCase(r) \/ Invoke(r) BY <3>4 DEF RunCase, Invoke, TypeOK, RunState
    <3>5. CASE VerifySealed(r) \/ Crash(r) BY <2>0, <3>5 DEF VerifySealed, Crash
    <3> QED BY <1>6, <3>1, <3>2, <3>3, <3>4, <3>5
  <2> QED BY <1>3, <1>6, <2>1
       DEF Start, RunCase, OpenA07, Invoke, Publish, VerifySealed, Crash, grantVars
<1> QED BY <1>1, <1>2, <1>4, <1>5, <1>6 DEF RunStep

LEMMA ReaderSpending ==
  ASSUME TypeOK, Spending, NEW d \in Readers, Reader(d)
  PROVE  Spending'
<1>0. \A e \in Readers : e # d => read'[e] = read[e]
  BY DEF Reader, ReadStep, ReadOpen, ReadResolve, ReadConsume, ReadRequest, ReadMoves, TypeOK, GrantsTypeOK
<1>1. run' = run BY DEF Reader, runVars
<1>2. ASSUME UNCHANGED << markers, uses >>, read'[d].at # "request" PROVE Spending'
  BY <1>0, <1>1, <1>2, SpendingFrame
<1>3. ASSUME NEW at, NEW addrs, ReadMoves(d, at, addrs) PROVE read'[d].at = at
  BY <1>3 DEF ReadMoves, TypeOK, GrantsTypeOK
<1>4. CASE ReadOpen(d, head.commit) BY <1>2, <1>3, <1>4 DEF ReadOpen
<1>5. CASE ReadResolve(d) BY <1>2, <1>3, <1>5 DEF ReadResolve
<1>6. CASE ReadConsume(d)
  <2>1. CASE Consumable("read")
    <3>1. "read" \notin markers /\ markers' = markers \cup {"read"} /\ uses' = uses
      BY <1>6, <2>1 DEF ReadConsume, Consumable
    <3>2. \A e \in Readers : read[e].at # "request" BY <3>1 DEF Spending
    <3>3. "read" \in Grants BY DEF Grants
    <3> QED BY <1>0, <1>1, <3>1, <3>2, <3>3 DEF Spending
  <2>2. CASE ~ Consumable("read") BY <1>2, <1>3, <1>6, <2>2 DEF ReadConsume
  <2> QED BY <2>1, <2>2
<1>7. CASE ReadRequest(d)
  <2>1. /\ uses' = [uses EXCEPT !["read"] = @ + 1] /\ markers' = markers /\ read[d].at = "request"
    BY <1>7 DEF ReadRequest, Use
  <2>2. read'[d].at # "request" BY <1>3, <1>7 DEF ReadRequest
  <2>3. uses["read"] = 0 /\ "read" \in markers /\ "read" \in Grants /\ uses \in [Grants -> Nat]
    BY <2>1 DEF Spending, Grants, TypeOK, GrantsTypeOK
  <2>4. \A e \in Readers : e # d => read[e].at # "request" BY <2>1 DEF Spending
  <2>5. uses'["read"] = 1 /\ uses'["A07"] = uses["A07"] BY <2>1, <2>3 DEF Grants
  <2> QED BY <1>0, <1>1, <2>1, <2>2, <2>3, <2>4, <2>5 DEF Spending, Grants
<1> QED BY <1>4, <1>5, <1>6, <1>7 DEF Reader, ReadStep

-----------------------------------------------------------------------------
(* Filed.                                                                    *)

AttemptKept ==
  /\ attempt.state # "NONE" => attempt'.state # "NONE"
  /\ attempt.state = "CONFIRMED" => attempt' = attempt

(* Nothing of a run changes, and the attempt is not taken back.              *)
LEMMA FiledFrame ==
  ASSUME NEW r \in Runs, FiledBy(r), AttemptKept,
         run'[r] = run[r], file'[r] = file[r], result'[r] = result[r]
  PROVE  FiledBy(r)'
<1>1. Current(r)' = Current(r) BY DEF Current
<1>2. \A c \in Cases : Referenced(r, c)' <=> Referenced(r, c) BY DEF Referenced
<1>3. \A c \in Cases : FiledAs(run[r].rows[c], file[r][c], run[r].subject, c)'
  BY DEF FiledBy, FiledAs, AttemptKept
<1> QED BY <1>1, <1>2, <1>3 DEF FiledBy, AttemptKept

(* A row is appended whose status its evidence and the attempt warrant.      *)
LEMMA FiledAppend ==
  ASSUME TypeOK, NEW r \in Runs, FiledBy(r), UNCHANGED << attempt, result >>,
         run[r].at \notin Sealing, run[r].next <= Len(CaseOrder),
         NEW status, NEW evidence, NEW obs, AppendRow(r, status, evidence, obs),
         FiledAs(status, evidence, run[r].subject, Current(r)),
         obs.status = "UNKNOWN" => attempt.state # "NONE"
  PROVE  FiledBy(r)'
<1>1. /\ run'[r].at = "case" /\ run'[r].obs = obs /\ run'[r].subject = run[r].subject
      /\ \A c \in Cases : /\ run'[r].rows[c] = IF c = Current(r) THEN status ELSE run[r].rows[c]
                          /\ file'[r][c] = IF c = Current(r) THEN evidence ELSE file[r][c]
  BY Appended
<1>2. result'[r] = "none" BY DEF FiledBy
<1>3. \A c \in Cases : FiledAs(run[r].rows[c], file[r][c], run[r].subject, c)'
  BY <1>1 DEF FiledBy, FiledAs
<1> QED BY <1>1, <1>2, <1>3 DEF FiledBy

(* A run ends: what it leaves is filed as it was.                            *)
LEMMA FiledEnd ==
  ASSUME TypeOK, NEW r \in Runs, FiledBy(r), UNCHANGED << attempt, file >>,
         NEW at \in {"accepted", "exit2", "crashed"},
         run' = [run EXCEPT ![r] = Ended(r, at)], result'[r] \in {result[r], "invalid"}
  PROVE  FiledBy(r)'
<1>1. /\ run'[r].at = at /\ run'[r].obs = Says("none") /\ run'[r].subject = run[r].subject
      /\ run'[r].rows = IF result'[r] = "none" THEN [c \in Cases |-> "none"] ELSE run[r].rows
  BY DEF Ended, TypeOK
<1>2. \A c \in Cases : FiledAs(run[r].rows[c], file[r][c], run[r].subject, c)'
  BY <1>1 DEF FiledBy, FiledAs
<1>3. result'[r] = "published" => /\ result[r] = "published"
                                  /\ \A c \in Cases : Referenced(r, c)' <=> Referenced(r, c)
  BY <1>1 DEF Referenced
<1> QED BY <1>1, <1>2, <1>3 DEF FiledBy, Says, Sealing

(* A run that ends beside an unreferenced file had published nothing.        *)
LEMMA FiledUnreferenced ==
  ASSUME TypeOK, NEW r \in Runs, FiledBy(r), UNCHANGED << attempt, result >>,
         run[r].at \notin Sealing, NEW says, UnreferencedEnds(r, says)
  PROVE  FiledBy(r)'
<1>1. result'[r] = "none" BY DEF FiledBy
<1>2. /\ run'[r].at = "exit2" /\ run'[r].obs = Says("none")
      /\ run'[r].rows = [c \in Cases |-> "none"]
  BY <1>1 DEF UnreferencedEnds, Ended, TypeOK
<1>3. \A c \in Cases : FiledAs(run[r].rows[c], file[r][c], run[r].subject, c)'
  BY <1>2 DEF FiledAs
<1> QED BY <1>1, <1>2, <1>3 DEF FiledBy, Says

LEMMA RunFiled ==
  ASSUME Inv, NEW r \in Runs, RunStep(r)
  PROVE  Filed'
<1> USE DEF Inv
<1>0. FiledBy(r) BY DEF Filed
<1>a. attempt' = attempt
  BY DEF RunStep, Start, NotExecuted, RunCase, CaseEnds, OpenA07, ConsumeA07, Harness, Invoke,
         Answered, Unanswered, Publish, VerifySealed, Crash, opVars
<1>b. ASSUME NEW s \in Runs, s # r PROVE FiledBy(s)'
  BY <1>a, <1>b, OtherRuns, FiledFrame DEF Filed, AttemptKept
<1>c. SUFFICES FiledBy(r)' BY <1>b DEF Filed
<1>d. run[r] \in RunState BY DEF TypeOK
<1>e. \A c : FiledAs("FAIL", NoFile, run[r].subject, c) /\ FiledAs("BLOCKED", NoFile, run[r].subject, c)
             /\ FiledAs("NOT_RUN", NoFile, run[r].subject, c)
  BY DEF FiledAs
<1>f. run[r].obs.status = "UNKNOWN" => attempt.state # "NONE" BY <1>0 DEF FiledBy
<1>1. CASE Start(r)
  <2>1. UNCHANGED << file, result >> BY <1>1 DEF Start
  <2>2. ASSUME NEW o, run' = [run EXCEPT ![r].at = "case", ![r].opts = o, ![r].subject = head.commit]
        PROVE  FiledBy(r)'
    <3>1. /\ run'[r].at = "case" /\ run'[r].rows = run[r].rows /\ run'[r].obs = run[r].obs
      BY <1>d, <2>2 DEF TypeOK, RunState
    <3>2. \A c \in Cases : run[r].rows[c] = "none" BY <1>0, <1>1 DEF FiledBy, Start
    <3>3. result[r] = "none" BY <1>0, <1>1 DEF FiledBy, Start, Sealing
    <3>4. \A c \in Cases : FiledAs(run[r].rows[c], file[r][c], run[r].subject, c)'
      BY <3>1, <3>2 DEF FiledAs
    <3> QED BY <1>a, <1>f, <2>1, <3>1, <3>3, <3>4 DEF FiledBy
  <2> QED BY <1>0, <1>1, <1>a, <2>1, <2>2, FiledEnd DEF Start
<1>2. CASE NotExecuted(r)
  <2> QED BY <1>0, <1>2, <1>a, <1>e, <1>f, FiledAppend DEF NotExecuted, InCase, Record, Sealing
<1>3. CASE RunCase(r)
  <2>1. /\ run'[r].at = "local" /\ run'[r].rows = run[r].rows /\ run'[r].obs = run[r].obs
        /\ run'[r].subject = run[r].subject /\ run'[r].next = run[r].next
    BY <1>3, <1>d DEF RunCase, TypeOK, RunState
  <2>2. UNCHANGED << file, result >> /\ result[r] = "none" /\ Current(r) \in Local
    BY <1>0, <1>3 DEF RunCase, InCase, FiledBy, Sealing
  <2>3. Current(r)' = Current(r) BY <2>1 DEF Current
  <2>4. \A c \in Cases : FiledAs(run[r].rows[c], file[r][c], run[r].subject, c)'
    BY <1>0, <1>a, <2>1, <2>2 DEF FiledBy, FiledAs
  <2> QED BY <1>a, <1>f, <2>1, <2>2, <2>3, <2>4 DEF FiledBy
<1>4. CASE CaseEnds(r)
  <2>1. Current(r) \notin Paid BY <1>0, <1>4 DEF CaseEnds, InCase, FiledBy, Local, Paid
  <2>2. /\ AcceptsEvidence(r) => FiledAs("PASS", Evidence(run[r].before, Says("local")), run[r].subject, Current(r))
        /\ FiledAs("FAIL", Evidence(run[r].before, Says("local")), run[r].subject, Current(r))
    BY <2>1 DEF FiledAs, Evidence, AcceptsEvidence
  <2> QED BY <1>0, <1>4, <1>a, <1>e, <1>f, <2>2, FiledAppend DEF CaseEnds, InCase, Record, Sealing
<1>5. CASE OpenA07(r)
  <2>1. CASE run' = [run EXCEPT ![r] = [run[r] EXCEPT !.at = "a07"]]
    <3>1. /\ run'[r].at = "a07" /\ run'[r].rows = run[r].rows /\ run'[r].obs = run[r].obs
          /\ run'[r].subject = run[r].subject /\ run'[r].next = run[r].next
      BY <1>d, <2>1 DEF TypeOK, RunState
    <3>2. UNCHANGED << file, result >> /\ result[r] = "none" /\ Current(r) = "A07"
      BY <1>0, <1>5 DEF OpenA07, InCase, FiledBy, Sealing
    <3>3. Current(r)' = Current(r) BY <3>1 DEF Current
    <3>4. \A c \in Cases : FiledAs(run[r].rows[c], file[r][c], run[r].subject, c)'
      BY <1>0, <1>a, <3>1, <3>2 DEF FiledBy, FiledAs
    <3> QED BY <1>a, <1>f, <3>1, <3>2, <3>3, <3>4 DEF FiledBy
  <2>2. CASE run' = [run EXCEPT ![r] = Ended(r, "exit2")]
    BY <1>0, <1>5, <1>a, <2>2, FiledEnd DEF OpenA07
  <2> QED BY <1>5, <2>1, <2>2 DEF OpenA07, TypeOK
<1>6. CASE ConsumeA07(r)
  <2>1. CASE Authorizes(p2, run[r].subject, now) /\ Consumable("A07")
    <3>0. run' = [run EXCEPT ![r].at = "harness"] BY <1>6, <2>1 DEF ConsumeA07
    <3>1. /\ run'[r].at = "harness" /\ run'[r].rows = run[r].rows /\ run'[r].obs = run[r].obs
          /\ run'[r].subject = run[r].subject /\ run'[r].next = run[r].next
      BY <1>d, <3>0 DEF TypeOK, RunState
    <3>2. UNCHANGED << file, result >> /\ result[r] = "none" /\ Current(r) = "A07"
      BY <1>0, <1>6, <2>1 DEF ConsumeA07, InCase, FiledBy, Sealing
    <3>3. Current(r)' = Current(r) BY <3>1 DEF Current
    <3>4. \A c \in Cases : FiledAs(run[r].rows[c], file[r][c], run[r].subject, c)'
      BY <1>0, <1>a, <3>1, <3>2 DEF FiledBy, FiledAs
    <3> QED BY <1>a, <1>f, <3>1, <3>2, <3>3, <3>4 DEF FiledBy
  <2>2. CASE ~ (Authorizes(p2, run[r].subject, now) /\ Consumable("A07"))
    BY <1>0, <1>6, <1>a, <1>e, <1>f, <2>2, FiledAppend DEF ConsumeA07, InCase, Record, Sealing
  <2> QED BY <2>1, <2>2
<1>7. CASE Harness(r)
  <2>1. Current(r) \notin Paid BY <1>0, <1>7 DEF Harness, InCase, FiledBy, Paid
  <2>2. FiledAs("PASS", Evidence(run[r].subject, Says("harness")), run[r].subject, Current(r))
    BY <2>1 DEF FiledAs, Evidence
  <2> QED BY <1>0, <1>7, <1>a, <1>e, <1>f, <2>2, FiledAppend DEF Harness, InCase, Record, Sealing
<1>8. CASE Invoke(r)
  <2>1. /\ run'[r].at = "operator" /\ run'[r].rows = run[r].rows /\ run'[r].obs = run[r].obs
        /\ run'[r].subject = run[r].subject
    BY <1>8, <1>d DEF Invoke, TypeOK, RunState
  <2>2. UNCHANGED << file, result >> /\ result[r] = "none"
    BY <1>0, <1>8 DEF Invoke, InCase, FiledBy, Sealing
  <2>4. \A c \in Cases : FiledAs(run[r].rows[c], file[r][c], run[r].subject, c)'
    BY <1>0, <1>a, <2>1, <2>2 DEF FiledBy, FiledAs
  <2> QED BY <1>a, <1>f, <2>1, <2>2, <2>4 DEF FiledBy
<1>9. CASE Answered(r)
  <2>0. op[r] \in OpState BY DEF TypeOK, OperatorTypeOK
  <2>1. op[r].out \in {"UNKNOWN", "CONFIRMED"} => attempt.state # "NONE" BY DEF Handover
  <2>2. op[r].out = "CONFIRMED" => attempt = [state |-> "CONFIRMED", tx |-> op[r].row.tx]
    BY DEF Handover
  <2>3. op[r].out \in {"UNKNOWN", "CONFIRMED"}
    BY <1>9, <2>0 DEF Answered, Handover, OpState, Outs
  <2>4. /\ op[r].out = "CONFIRMED" =>
             FiledAs("PASS", Evidence(run[r].subject, Observed(r)), run[r].subject, Current(r))
        /\ op[r].out # "CONFIRMED" =>
             FiledAs("PENDING", Evidence(run[r].subject, Observed(r)), run[r].subject, Current(r))
        /\ FiledAs("BLOCKED", Evidence(run[r].subject, Observed(r)), run[r].subject, Current(r))
    BY <2>1, <2>2, <2>3 DEF FiledAs, Evidence, Observed
  <2>5. Observed(r).status = "UNKNOWN" => attempt.state # "NONE" BY <2>1 DEF Observed
  <2> QED BY <1>0, <1>9, <1>a, <2>4, <2>5, FiledAppend, FiledUnreferenced
          DEF Answered, InCase, Sealing
<1>10. CASE Unanswered(r)
  <2>1. HoldsPending(r) =>
          FiledAs("PENDING", Evidence(run[r].subject, run[r].obs), run[r].subject, Current(r))
    BY <1>f DEF HoldsPending, FiledAs, Evidence
  <2> QED BY <1>0, <1>10, <1>a, <1>e, <1>f, <2>1, FiledAppend, FiledUnreferenced
          DEF Unanswered, InCase, Record, Sealing
<1>11. CASE Publish(r)
  <2>0. result[r] = "none" BY <1>0, <1>11 DEF Publish, FiledBy, Sealing
  <2>1. CASE UNCHANGED << file, result >> /\ run' = [run EXCEPT ![r] = Ended(r, "exit2")]
    BY <1>0, <1>a, <2>1, FiledEnd
  <2>2. CASE /\ Seals(r)
             /\ file' = [file EXCEPT ![r] = [c \in Cases |-> SealedFile(file[r][c])]]
             /\ run' = [run EXCEPT ![r].at = "verify"]
    <3>1. /\ run'[r].at = "verify" /\ run'[r].rows = run[r].rows /\ run'[r].obs = run[r].obs
          /\ run'[r].subject = run[r].subject
      BY <1>d, <2>2 DEF TypeOK, RunState
    <3>2. \A c \in Cases : file'[r][c] = SealedFile(file[r][c]) BY <2>2 DEF TypeOK
    <3>3. \A f \in Files : /\ SealedFile(f).there = f.there
                           /\ f.there => /\ SealedFile(f).sealed /\ SealedFile(f).says = f.says
                                         /\ SealedFile(f).subject = f.subject
      BY DEF SealedFile, Files, NoFile
    <3>4. \A c \in Cases : file[r][c] \in Files BY DEF TypeOK
    <3>5. \A c \in Cases : FiledAs(run[r].rows[c], file[r][c], run[r].subject, c)'
      BY <1>0, <1>a, <3>1, <3>2, <3>3, <3>4 DEF FiledBy, FiledAs
    <3>6. \A c \in Cases : file'[r][c].there => file'[r][c].sealed /\ Referenced(r, c)'
      BY <2>2, <3>1, <3>2, <3>3, <3>4 DEF Seals, TreeSealable, Referenced
    <3>7. run'[r].rows["A14"] = "PASS" => run'[r].rows["A13"] = "PASS"
      BY <2>2, <3>1 DEF Seals, Semantics, payment_reference
    <3> QED BY <1>a, <1>f, <3>1, <3>5, <3>6, <3>7 DEF FiledBy, Sealing
  <2> QED BY <1>11, <2>1, <2>2 DEF Publish
<1>12. CASE VerifySealed(r)
  <2>1. result'[r] \in {result[r], "invalid"} BY <1>12 DEF VerifySealed, TypeOK
  <2> QED BY <1>0, <1>12, <1>a, <2>1, FiledEnd DEF VerifySealed
<1>13. CASE Crash(r) BY <1>0, <1>13, <1>a, FiledEnd DEF Crash
<1> QED BY <1>1, <1>2, <1>3, <1>4, <1>5, <1>6, <1>7, <1>8, <1>9, <1>10, <1>11, <1>12, <1>13 DEF RunStep

-----------------------------------------------------------------------------
(* The theorems.                                                             *)

(* The initial states satisfy the inductive invariant.                       *)
LEMMA InitInv == ASSUME Init PROVE Inv
<1>1. GrantsTypeOK
  <2>1. read \in [Readers -> [at : ReadPlaces, addrs : SUBSET Addresses]] BY DEF Init, ReadPlaces
  <2>2. now \in 0 .. MaxNow BY GrantAssumption DEF Init, GrantsInit
  <2> QED BY <2>1, <2>2 DEF Init, GrantsInit, GrantsTypeOK
<1>2. NoRow \in Row /\ Idle \in OpState
  BY SubmissionAssumption DEF Row, NoRow, States, Txs, Idle, OpState, Places, Outs
<1>3. OperatorTypeOK BY <1>2 DEF Init, OperatorInit, OperatorTypeOK
<1>4. head \in Heads /\ drift \in 0 .. MaxDrift
  <2>1. head \in [commit : Commits, clean : {TRUE}] /\ drift = 0 BY DEF Init
  <2>2. drift \in 0 .. MaxDrift BY <2>1, OptionAssumption
  <2>3. head \in Heads BY <2>1 DEF Heads
  <2> QED BY <2>2, <2>3
<1>5. \A at \in {"off", "new"} : NewRun(at) \in RunState
  <2>1. NoOptions \in Option BY DEF NoOptions, Option
  <2>2. head.commit \in Commits BY <1>4 DEF Heads
  <2>3. [c \in Cases |-> "none"] \in [Cases -> Statuses] BY DEF Statuses
  <2>4. 1 \in 1 .. Len(CaseOrder) + 1 BY DEF CaseOrder
  <2> QED BY <2>1, <2>2, <2>3, <2>4, SaysType DEF NewRun, RunState, RunPlaces
<1>6. \E at \in {"off", "new"} : run = [r \in Runs |-> NewRun(at)]
  BY DEF Init
<1>7. run \in [Runs -> RunState] BY <1>5, <1>6
<1>8. file \in [Runs -> [Cases -> Files]] BY DEF Init, Files
<1>9. TypeOK BY <1>1, <1>3, <1>4, <1>7, <1>8 DEF TypeOK, Init
<1>10. Handover BY DEF Init, OperatorInit, Handover, Handing, Follows, Idle, NoRow
<1>11. \A r \in Runs : /\ run[r].at \in {"off", "new"} /\ run[r].obs.status = "none"
                       /\ \A c \in Cases : run[r].rows[c] = "none"
  BY <1>6 DEF NewRun, Says
<1>12. Spending BY <1>11 DEF Init, GrantsInit, Spending
<1>13. Filed BY <1>11 DEF Init, Filed, FiledBy, FiledAs
<1> QED BY <1>9, <1>10, <1>12, <1>13 DEF Inv

(* Every step keeps it.                                                      *)
LEMMA NextInv == ASSUME Inv, [Next]_vars PROVE Inv'
<1>1. ASSUME NEW r \in Runs, RunStep(r) PROVE Inv'
  <2>1. TypeOK' /\ Spending' /\ Filed' BY <1>1, RunTypes, RunSpending, RunFiled DEF Inv
  <2>2. ASSUME UNCHANGED opVars PROVE Handover' BY <2>2, HandoverFrame DEF Inv, opVars
  <2>3. CASE Invoke(r)
    <3>1. [Idle EXCEPT !.at = "open"] = [at |-> "open", row |-> NoRow, out |-> "none"] BY DEF Idle
    <3> QED BY <2>1, <2>3, <3>1, HandoverReset DEF Inv, Invoke
  <2>4. CASE Answered(r) \/ Unanswered(r)
    BY <2>1, <2>4, HandoverReset DEF Inv, Answered, Unanswered, Idle
  <2>5. CASE ~ Invoke(r) /\ ~ Answered(r) /\ ~ Unanswered(r)
    <3>1. UNCHANGED opVars
      BY <1>1, <2>5 DEF RunStep, Start, NotExecuted, RunCase, CaseEnds, OpenA07, ConsumeA07,
                       Harness, Publish, VerifySealed, Crash
    <3> QED BY <2>1, <2>2, <3>1 DEF Inv
  <2> QED BY <2>3, <2>4, <2>5
<1>2. ASSUME NEW r \in Runs, Operator(r) PROVE Inv'
  <2>1. TypeOK' /\ Handover' /\ AttemptKept
    BY <1>2, OperatorTypes, HandoverOperator, OperatorKeeps DEF Inv, AttemptKept
  <2>2. UNCHANGED << markers, uses, read, run, file, result >> BY <1>2 DEF Operator, grantVars, runVars
  <2>3. Spending' BY <2>2, SpendingFrame DEF Inv
  <2>4. Filed' BY <2>1, <2>2, FiledFrame DEF Inv, Filed
  <2> QED BY <2>1, <2>3, <2>4 DEF Inv
<1>3. ASSUME NEW d \in Readers, Reader(d) PROVE Inv'
  <2>1. TypeOK' /\ Spending' BY <1>3, ReaderTypes, ReaderSpending DEF Inv
  <2>2. UNCHANGED << opVars, run, file, result >> BY <1>3 DEF Reader, runVars
  <2>3. Handover' BY <2>2, HandoverFrame DEF Inv, opVars
  <2>4. Filed' BY <2>2, FiledFrame DEF Inv, Filed, AttemptKept, opVars
  <2> QED BY <2>1, <2>3, <2>4 DEF Inv
<1>4. CASE Environment
  <2>1. TypeOK' BY <1>4, EnvironmentTypes DEF Inv
  <2>2. UNCHANGED << attempt, submissions, op, markers, uses, read, run, file, result >>
    BY <1>4 DEF Environment, Drift, Clock, Tick, Chain, Deepen, opVars, grantVars, runVars
  <2>3. transfer' = transfer \/ Chain
    BY <1>4 DEF Environment, Drift, Clock, opVars
  <2>4. \A n \in 1 .. MaxSubmissions : transfer[n] = "deep" => transfer'[n] = "deep"
    BY <2>3 DEF Chain, Deepen, Inv, TypeOK, OperatorTypeOK
  <2>5. attempt.tx # 0 => attempt.tx \in 1 .. MaxSubmissions
    BY DEF Inv, TypeOK, OperatorTypeOK, Row, Txs
  <2>6. Handover' BY <2>2, <2>4, <2>5 DEF Inv, Handover, Handing, Follows
  <2>7. Spending' BY <2>2, SpendingFrame DEF Inv
  <2>8. Filed' BY <2>2, FiledFrame DEF Inv, Filed, AttemptKept
  <2> QED BY <2>1, <2>6, <2>7, <2>8 DEF Inv
<1>5. CASE UNCHANGED vars
  <2>1. UNCHANGED << now, grantVars, opVars, runVars >> BY <1>5 DEF vars
  <2>2. TypeOK'
    BY <2>1 DEF Inv, TypeOK, GrantsTypeOK, OperatorTypeOK, grantVars, opVars, runVars
  <2>3. Handover' BY <2>1, HandoverFrame DEF Inv, opVars
  <2>4. Spending' BY <2>1, SpendingFrame DEF Inv, grantVars, runVars
  <2>5. Filed' BY <2>1, FiledFrame DEF Inv, Filed, AttemptKept, opVars, runVars
  <2> QED BY <2>2, <2>3, <2>4, <2>5 DEF Inv
<1> QED BY <1>1, <1>2, <1>3, <1>4, <1>5 DEF Next, RunStep, Environment

(* Every reachable state of runs, operators and readers is well formed.      *)
THEOREM AcceptanceTypes == Spec => []TypeOK
<1>1. Inv => TypeOK BY DEF Inv
<1> QED BY InitInv, NextInv, <1>1, PTL DEF Spec

(* P3Operator.execute and p3-operator.ts: whatever runs race, fail, die or   *)
(* are repeated, the facilitator is asked to settle a grant's payment once.  *)
THEOREM SettledOnceByOperators == Spec => []OneSettlement
<1>1. Inv => OneSettlement BY DEF Inv, Handover, OneSettlement
<1> QED BY InitInv, NextInv, <1>1, PTL DEF Spec

(* consume_public_read_grant: the marker file lets one caller use a grant.   *)
THEOREM GrantsSpentOnce == Spec => []GrantUsedOnce
<1>1. Inv => GrantUsedOnce BY DEF Inv, Spending, GrantUsedOnce
<1> QED BY InitInv, NextInv, <1>1, PTL DEF Spec

(* main, the A13/A14 branch: a row filed as pending speaks of an attempt the *)
(* ledger recorded as submitted, whichever process observed it.              *)
THEOREM PendingSpent == Spec => []PendingIsSpent
<1>1. Inv => PendingIsSpent
  <2>1. Paid \subseteq Cases BY DEF Paid, Cases
  <2> QED BY <2>1 DEF Inv, Filed, FiledBy, FiledAs, PendingIsSpent
<1> QED BY InitInv, NextInv, <1>1, PTL DEF Spec

(* main, verify_sealed_result: a result under its final name is backed by    *)
(* sealed evidence of its own commit, and its payment cases by one transfer. *)
THEOREM SealedBacked == Spec => []SealedIsBacked
<1>1. Inv => SealedIsBacked
  <2>1. SUFFICES ASSUME Inv, NEW r \in Runs, result[r] = "published", NEW c \in Cases
                 PROVE  /\ run[r].rows[c] = "PASS" => Backed(r, c)
                        /\ file[r][c].there => Referenced(r, c)
    BY DEF SealedIsBacked
  <2>2. FiledBy(r) BY <2>1 DEF Inv, Filed
  <2>3. ASSUME run[r].rows[c] = "PASS", c \in Paid
        PROVE  /\ file[r][c].says = [status |-> "CONFIRMED", tx |-> attempt.tx]
               /\ attempt.state = "CONFIRMED" /\ transfer[attempt.tx] = "deep"
               /\ run[r].rows["A13"] = "PASS"
    BY <2>1, <2>2, <2>3 DEF FiledBy, FiledAs, Inv, Handover, Paid
  <2>4. run[r].rows[c] = "PASS" => Backed(r, c)
    BY <2>1, <2>2, <2>3 DEF FiledBy, FiledAs, Backed
  <2> QED BY <2>1, <2>2, <2>4 DEF FiledBy
<1> QED BY InitInv, NextInv, <1>1, PTL DEF Spec
=============================================================================
