----------------------------- MODULE GuardKeeper -----------------------------
(* The keeper service beside the contract: it follows the Guard's events,    *)
(* reads the status of the borrowers it believes armed, and executes what is *)
(* Ready. One tick is: read the head, apply the logs up to it in chunks,     *)
(* read every status AT that head, then simulate and send protect for one    *)
(* borrower after another. The contract, Mezo and other keepers go on        *)
(* between any two of these steps, and a call to the RPC may fail.           *)
EXTENDS Guard

CONSTANT MaxRestarts   \* bound on restarts of the keeper

ASSUME RestartAssumption == MaxRestarts \in Nat

VARIABLES
  phase,     \* where tick() is
  scanned,   \* events applied so far
  tracker,   \* PolicyTracker: the armed borrowers and the terminal marks
  head,      \* the head this tick synchronises to
  snap,      \* what status() answers at that head
  ready,     \* borrowers found Ready and not yet tried
  restarts

keeperVars == << phase, scanned, tracker, head, snap, ready, restarts >>
vars == << guardVars, keeperVars >>

TypeOK ==
  /\ GuardTypeOK
  /\ phase \in {"idle", "sync", "run", "send"}
  /\ {scanned, head} \subseteq 0 .. Len(events)
  /\ tracker \in [armed : SUBSET Borrowers, terminal : SUBSET Borrowers]
  /\ tracker.terminal \subseteq tracker.armed
  /\ phase # "idle" => DOMAIN snap = Borrowers
  /\ ready \subseteq tracker.armed /\ restarts \in 0 .. MaxRestarts

Init ==
  /\ GuardInit
  /\ phase = "idle" /\ scanned = 0 /\ head = 0 /\ snap = << >> /\ ready = {}
  /\ tracker = [armed |-> {}, terminal |-> {}] /\ restarts = 0

(* status() of the contract *)
ReadStatus(u) == [status |-> Evaluate(u), icr |-> ICR(trove[u], price)]

-----------------------------------------------------------------------------
(* PolicyTracker.apply goes through the logs in the order of the chain: the  *)
(* last one about a borrower decides whether it is armed, and every one      *)
(* clears its terminal mark.                                                 *)

Mentioned(logs) == {logs[i].user : i \in DOMAIN logs}

LastAbout(logs, i) == \A j \in i + 1 .. Len(logs) : logs[j].user # logs[i].user

Mut_LastArmed(logs) ==
  {logs[i].user : i \in {x \in DOMAIN logs : LastAbout(logs, x) /\ logs[x].kind # "Disarmed"}}

LastArmed(logs) ==
  {logs[i].user : i \in {x \in DOMAIN logs : LastAbout(logs, x) /\ logs[x].kind = "Armed"}}

Mut_apply(tr, logs) ==
  [tr EXCEPT !.armed = (@ \ Mentioned(logs)) \cup LastArmed(logs)]

apply(tr, logs) ==
  [armed |-> (tr.armed \ Mentioned(logs)) \cup LastArmed(logs),
   terminal |-> tr.terminal \ Mentioned(logs)]

pollable == tracker.armed \ tracker.terminal

Mut_isTerminal(status) ==
  status \in {"NoPolicy", "Expired", "StaleNonce", "TroveNotActive"}

isTerminal(status) == status \in {"NoPolicy", "Expired", "StaleNonce"}

(* pollStatuses marks the borrowers of S, those it has read *)
Marked(S) ==
  [tracker EXCEPT !.terminal = @ \cup {u \in S : isTerminal(snap[u].status)}]

-----------------------------------------------------------------------------
(* tick *)

SyncHead ==
  /\ phase = "idle" /\ phase' = "sync"
  /\ head' = Len(events) /\ snap' = [u \in Borrowers |-> ReadStatus(u)]
  /\ UNCHANGED << guardVars, scanned, tracker, ready, restarts >>

Mut_To == Len(events)

To == head

SyncChunk(to) ==
  /\ phase = "sync" /\ scanned < to /\ to <= To
  /\ tracker' = apply(tracker, SubSeq(events, scanned + 1, to)) /\ scanned' = to
  /\ UNCHANGED << guardVars, phase, head, snap, ready, restarts >>

ToIdle == phase' = "idle" /\ snap' = << >>

PollStatuses ==
  /\ phase = "sync" /\ scanned >= head
  /\ tracker' = Marked(pollable)
  /\ ready' = {u \in pollable : snap[u].status = "Ready"}
  /\ IF ready' = {} THEN ToIdle ELSE phase' = "run" /\ UNCHANGED snap
  /\ UNCHANGED << guardVars, scanned, head, restarts >>

(* A read fails: of the head, the logs, or some status; the marks made stay  *)
TickFails ==
  /\ phase = "sync" /\ ToIdle
  /\ \E S \in SUBSET pollable :
        /\ scanned < head => S = {}
        /\ tracker' = Marked(S)
  /\ UNCHANGED << guardVars, scanned, head, ready, restarts >>

(* selectReady: the lowest ICR first *)
MostUrgent(u) == u \in ready /\ \A v \in ready : snap[u].icr <= snap[v].icr

NextBorrower(u) ==
  /\ ready' = ready \ {u}
  /\ IF ready' = {} THEN ToIdle ELSE phase' = "run" /\ UNCHANGED snap

(* The simulation reverts when the policy is no longer executable *)
Simulate(u) ==
  /\ phase = "run" /\ MostUrgent(u) /\ Executable(u)
  /\ phase' = "send"
  /\ UNCHANGED << guardVars, scanned, tracker, head, snap, ready, restarts >>

Skip(u) ==
  /\ phase = "run" /\ MostUrgent(u) /\ NextBorrower(u)
  /\ UNCHANGED << guardVars, scanned, tracker, head, restarts >>

(* The transaction is mined, and succeeds or reverts *)
Mined(u) ==
  /\ phase = "send" /\ MostUrgent(u) /\ NextBorrower(u)
  /\ IF Executable(u) THEN protect(u) ELSE UNCHANGED guardVars
  /\ UNCHANGED << scanned, tracker, head, restarts >>

(* writeContract or the wait for the receipt fails; a transaction that was   *)
(* sent may still be mined later, as another keeper's would be.              *)
SendFails(u) ==
  /\ phase = "send" /\ MostUrgent(u) /\ NextBorrower(u)
  /\ UNCHANGED << guardVars, scanned, tracker, head, restarts >>

Restart ==
  /\ restarts < MaxRestarts /\ restarts' = restarts + 1
  /\ ToIdle /\ scanned' = 0 /\ head' = 0 /\ ready' = {}
  /\ tracker' = [armed |-> {}, terminal |-> {}]
  /\ UNCHANGED guardVars

Sync == \E to \in 1 .. Len(events) : SyncChunk(to)

Keeper ==
  \/ SyncHead \/ Sync \/ PollStatuses \/ TickFails \/ Restart
  \/ \E u \in Borrowers : Simulate(u) \/ Skip(u) \/ Mined(u) \/ SendFails(u)

Next == Keeper \/ (GuardNext /\ UNCHANGED keeperVars)

(* main() ticks for ever, and neither the RPC nor the simulation of one      *)
(* borrower nor the mining of its transaction fails every time.              *)
Fairness ==
  /\ WF_vars(SyncHead) /\ SF_vars(Sync) /\ SF_vars(PollStatuses)
  /\ \A u \in Borrowers : SF_vars(Simulate(u)) /\ SF_vars(Mined(u))
  /\ WF_vars(\E u \in Borrowers : Skip(u) \/ Mined(u))

Spec == Init /\ [][Next]_vars
FairSpec == Spec /\ Fairness

-----------------------------------------------------------------------------
(* Properties of the keeper beside the contract *)

Pending(u) == \E i \in scanned + 1 .. Len(events) : events[i].user = u

(* The tracker, fed in chunks over failed ticks and restarts, holds exactly  *)
(* the borrowers the contract has a policy for, except where an event is     *)
(* still to be applied.                                                      *)
TrackerFollows ==
  \A u \in Borrowers : ~Pending(u) => (u \in tracker.armed <=> policy[u] # NULL)

(* A terminal mark never hides a policy that can become Ready: whoever is    *)
(* marked, with no event still to be applied, is expired or stale for good.  *)
TerminalIsFinal ==
  \A u \in tracker.terminal : ~Pending(u) =>
     policy[u] = NULL \/ policy[u].expired \/ policy[u].sigNonce # nonce[u]

(* A policy that can be executed does not stay so: the keeper executes it,   *)
(* or somebody else or the market makes it not executable.                   *)
Protects == \A u \in Borrowers : Executable(u) ~> ~Executable(u)
=============================================================================
