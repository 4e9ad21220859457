---------------------------- MODULE BuildsProofs ----------------------------
(* Machine-checked proofs about the build queue, its slots and the report    *)
(* service, for any number of keys, calls, replicas, slots and threads.      *)
EXTENDS Builds, TLAPS, FiniteSetTheorems

-----------------------------------------------------------------------------
(* The inductive invariant *)

(* A slot between two awaits has a job, and only a waiting slot holds a      *)
(* connection.  A thread serves a report unless it is free.                  *)
SlotsBusy ==
  \A s \in Slots : /\ step[s] # "idle" => job[s] \in Keys
                   /\ step[s] = "idle" => job[s] = NULL
                   /\ conn[s] # NULL => step[s] = "wait"

ThreadsBusy == \A t \in Threads : thread[t].step # "free" => thread[t].report \in Keys

(* A lease exists only while the request is prepared.                        *)
LeaseHeld == \A k \in Keys : lease[k] # "NONE" => state[k] = "PREPARING"

(* Nobody has claimed the request; nobody has worked on its report.          *)
Unclaimed(k) == state[k] = "NONE" \/ k \in Waiting
Fresh(k) == captures[k] = 0 /\ \A t \in Threads : thread[t].report # k

(* A request is claimed once in its life, by one slot, which posts it once,  *)
(* to one thread, which captures once.                                       *)
ClaimedOnce ==
  /\ \A k \in Keys : Unclaimed(k) => Fresh(k) /\ \A s \in Slots : job[s] # k
  /\ \A s, r \in Slots : job[s] = job[r] /\ job[s] # NULL => s = r
PostedOnce ==
  /\ \A s \in Slots, k \in Keys : step[s] = "post" /\ job[s] = k => Fresh(k)
  /\ \A t, u \in Threads : thread[t].report = thread[u].report /\ thread[t].report # NULL
                           => t = u
CapturedOnce ==
  \A t \in Threads : thread[t].step \in {"begin", "capture"} => captures[thread[t].report] = 0

(* An answer other than a refusal is about a row that exists.                *)
AnswersHaveRow ==
  \A c \in Calls : answer[c] \in Decided \cup {"PREPARING"} => state[key[c]] # "NONE"

LiveLeases == {k \in Keys : state[k] = "PREPARING" /\ lease[k] = "LIVE"}
SlotsBounded == IsFiniteSet(LiveLeases) /\ Cardinality(LiveLeases) <= MaxActive

WorkInv == SlotsBusy /\ ThreadsBusy /\ ClaimedOnce /\ PostedOnce /\ CapturedOnce /\ OneSnapshot
QueueInv == LeaseHeld /\ AnswersHaveRow /\ AnswersHold /\ SlotsBounded

IInv == TypeOK /\ WorkInv /\ QueueInv

-----------------------------------------------------------------------------
(* What a step does to a row of the queue *)

(* A row is inserted PREPARING and without a lease, gets one lease, and is   *)
(* decided once; its body is the one of the call that inserted it.           *)
RowMoves(k) ==
  \/ state'[k] = state[k] /\ lease'[k] = lease[k] /\ body'[k] = body[k]
  \/ /\ state[k] = "NONE" /\ state'[k] = "PREPARING" /\ lease'[k] = lease[k]
  \/ /\ state[k] = "PREPARING" /\ state'[k] = "PREPARING" /\ body'[k] = body[k]
     /\ lease[k] = "LIVE" /\ lease'[k] = "LAPSED"
  \/ state[k] = "PREPARING" /\ state'[k] \in Decided /\ lease'[k] = "NONE" /\ body'[k] = body[k]

Claims(s, k) ==
  /\ step[s] = "idle" /\ claimBuild(k)
  /\ Goto(s, "post") /\ job' = [job EXCEPT ![s] = k] /\ UNCHANGED << conn, serviceVars >>

LEMMA RowsMove ==
  ASSUME TypeOK, WorkInv, [Next]_vars
  PROVE  \/ \A k \in Keys : RowMoves(k)
         \/ \E s \in Slots, k \in Keys : Claims(s, k)
<1> USE DEF TypeOK, QueueTypeOK
<1>0. UNCHANGED queueVars => \A k \in Keys : RowMoves(k) BY DEF queueVars, RowMoves
<1>1. ASSUME NEW c \in Calls, Create(c) PROVE \A k \in Keys : RowMoves(k)
  <2>1. key[c] \in Keys BY QueueAssumption
  <2> QED BY <1>1, <2>1 DEF Create, Lookup, CreateRequest, Insert, Replay, Poll, RowMoves
<1>2. ASSUME NEW s \in Slots, Claim(s)
      PROVE  (\A k \in Keys : RowMoves(k)) \/ \E k \in Keys : Claims(s, k)
  <2>1. ASSUME claimNone PROVE \A k \in Keys : RowMoves(k)
    BY <2>1, QueueAssumption DEF claimNone, AfterClaim, Lapsed, RowMoves, Decided
  <2> QED BY <1>2, <2>1 DEF Claim, Claims
<1>3. ASSUME NEW s \in Slots, Publish(s) \/ Reject(s) PROVE \A k \in Keys : RowMoves(k)
  <2>1. job[s] \in Keys BY <1>3 DEF Publish, Reject, WorkInv, SlotsBusy
  <2> QED BY <1>0, <1>3, <2>1 DEF Publish, Reject, publish, MayPublish, rejectBuild, RowMoves,
                                 Decided
<1>4. ASSUME NEW s \in Slots, Post(s) \/ CallFails(s) \/ Verify(s)
      PROVE  \A k \in Keys : RowMoves(k)
  BY <1>0, <1>4 DEF Post, CallFails, Verify
<1>5. ASSUME NEW t \in Threads,
             ServiceBegin(t) \/ ServiceCapture(t) \/ ServicePublish(t) \/ Answer(t)
      PROVE  \A k \in Keys : RowMoves(k)
  BY <1>0, <1>5 DEF ServiceBegin, ServiceCapture, ServicePublish, Answer
<1>6. ASSUME (\E q \in Procs : Crash(q)) \/ ServiceRestart \/ UNCHANGED vars
      PROVE  \A k \in Keys : RowMoves(k)
  BY <1>0, <1>6 DEF Crash, ServiceRestart, vars
<1>7. ASSUME LeaseEnds \/ MinuteEnds PROVE \A k \in Keys : RowMoves(k)
  BY <1>7 DEF LeaseEnds, MinuteEnds, LeaseLapses, NewMinute, RowMoves
<1> QED BY <1>1, <1>2, <1>3, <1>4, <1>5, <1>6, <1>7 DEF Next, Slot

(* A claim takes a waiting row, fails the lapsed ones, and takes no other.   *)
LEMMA ClaimMoves ==
  ASSUME TypeOK, NEW s \in Slots, NEW k \in Keys, Claims(s, k)
  PROVE  /\ k \in Waiting /\ SlotFree
         /\ state'[k] = "PREPARING" /\ lease'[k] = "LIVE"
         /\ \A x \in Keys \ {k} : RowMoves(x)
         /\ UNCHANGED << body, callVars >>
<1> USE DEF TypeOK, QueueTypeOK, Claims, claimBuild, AfterClaim
<1>1. k \in Waiting /\ k \notin Lapsed BY DEF Claimable, Waiting, Lapsed
<1>2. state'[k] = "PREPARING" /\ lease'[k] = "LIVE" BY <1>1 DEF Waiting
<1>3. \A x \in Keys \ {k} : RowMoves(x) BY DEF RowMoves, Lapsed, Decided
<1> QED BY <1>1, <1>2, <1>3

-----------------------------------------------------------------------------
(* Types *)

LEMMA AppendTyped == ASSUME NEW S, NEW q \in Seq(S), NEW e \in S PROVE Append(q, e) \in Seq(S)
OBVIOUS

LEMMA TypesKept ==
  ASSUME IInv, [Next]_vars
  PROVE  TypeOK'
<1> USE DEF IInv, TypeOK, Service!ServiceTypeOK
<1>0. ASSUME UNCHANGED queueVars PROVE QueueTypeOK' BY <1>0 DEF queueVars, QueueTypeOK
<1>s. ASSUME UNCHANGED serviceVars PROVE Service!ServiceTypeOK' BY <1>s DEF serviceVars
<1>l. /\ {"idle", "post", "wait", "verify", "publish", "reject", "fail"} \subseteq Steps
  BY DEF Steps
<1>1. ASSUME NEW c \in Calls, Create(c) PROVE TypeOK'
  <2>1. key[c] \in Keys /\ sent[c] \in Bodies BY QueueAssumption
  <2>2. QueueTypeOK'
    <3> USE <2>1 DEF QueueTypeOK, Answered, RequestStates, Refusals, Decided
    <3>1. CASE Lookup(c) BY <3>1 DEF Lookup
    <3>2. CASE Poll(c) BY <3>2 DEF Poll
    <3>3. CASE call[c] = "create" /\ Insert(c) /\ UNCHANGED lease
      <4>1. hits' \in 0 .. RateLimit BY <3>3, QueueAssumption DEF Insert, BudgetSpent
      <4>2. created' \in Seq(Keys)
        <5>1. created' = created \/ created' = Append(created, key[c]) BY <3>3 DEF Insert
        <5>2. created \in Seq(Keys) OBVIOUS
        <5>3. Append(created, key[c]) \in Seq(Keys) BY ONLY <2>1, <5>2, AppendTyped
        <5> QED BY ONLY <5>1, <5>2, <5>3
      <4> QED BY <3>3, <4>1, <4>2 DEF Insert
    <3>4. CASE call[c] = "create" /\ Replay(c) /\ UNCHANGED lease BY <3>4 DEF Replay
    <3> QED BY <1>1, <3>1, <3>2, <3>3, <3>4 DEF Create, CreateRequest
  <2> QED BY <1>1, <1>s, <2>2 DEF Create, slotVars
<1>2. ASSUME NEW s \in Slots, Claim(s) PROVE TypeOK'
  <2>1. QueueTypeOK'
    <3>1. PICK k \in Keys \cup {NULL} : AfterClaim(k)
      BY <1>2 DEF Claim, claimBuild, claimNone
    <3> QED BY <3>1 DEF AfterClaim, QueueTypeOK, callVars, RequestStates, Decided
  <2>2. step' \in [Slots -> Steps] /\ job' \in [Slots -> Keys \cup {NULL}]
    BY <1>2, <1>l DEF Claim, Goto
  <2> QED BY <1>2, <1>s, <2>1, <2>2 DEF Claim
<1>3. ASSUME NEW s \in Slots, Post(s) PROVE TypeOK'
  <2>1. job[s] \in Keys BY <1>3 DEF Post, WorkInv, SlotsBusy
  <2>2. PICK t \in Threads : Service!Accept(t, job[s]) /\ conn' = [conn EXCEPT ![s] = t]
    BY <1>3 DEF Post
  <2>3. Service!ServiceTypeOK' BY <2>1, <2>2 DEF Service!Accept
  <2>4. step' \in [Slots -> Steps] /\ conn' \in [Slots -> Threads \cup {NULL}]
    BY <1>3, <1>l, <2>2 DEF Post, Goto
  <2> QED BY <1>0, <1>3, <2>3, <2>4 DEF Post
<1>4. ASSUME NEW s \in Slots, CallFails(s) \/ Verify(s) PROVE TypeOK'
  BY <1>0, <1>4, <1>l, <1>s DEF CallFails, Verify, Goto
<1>5. ASSUME NEW s \in Slots, Publish(s) \/ Reject(s) PROVE TypeOK'
  <2>1. job[s] \in Keys BY <1>5 DEF Publish, Reject, WorkInv, SlotsBusy
  <2>2. QueueTypeOK'
    BY <1>0, <1>5, <2>1 DEF Publish, Reject, publish, rejectBuild, QueueTypeOK, callVars,
                            RequestStates, Decided
  <2>3. /\ step' \in [Slots -> Steps] /\ job' \in [Slots -> Keys \cup {NULL}]
        /\ conn' \in [Slots -> Threads \cup {NULL}]
    BY <1>5, <1>l DEF Publish, Reject, Finish, Goto
  <2> QED BY <1>5, <1>s, <2>2, <2>3 DEF Publish, Reject
<1>6. ASSUME NEW t \in Threads,
             ServiceBegin(t) \/ ServiceCapture(t) \/ ServicePublish(t) \/ Answer(t)
      PROVE  TypeOK'
  <2>1. Service!ServiceTypeOK'
    <3>1. CASE ServiceBegin(t)
      <4>1. thread[t].report \in Keys
        BY <3>1 DEF ServiceBegin, Service!Begin, WorkInv, ThreadsBusy
      <4> QED BY <3>1, <4>1 DEF ServiceBegin, Service!Begin, Service!Goto, Service!Idle
    <3>2. CASE ServiceCapture(t)
      <4>1. thread[t].report \in Keys
        BY <3>2 DEF ServiceCapture, Service!Capture, WorkInv, ThreadsBusy
      <4> QED BY <3>2, <4>1 DEF ServiceCapture, Service!Capture, Service!Goto
    <3>3. CASE ServicePublish(t)
      <4>1. thread[t].report \in Keys
        BY <3>3 DEF ServicePublish, Service!PublishArtifact, WorkInv, ThreadsBusy
      <4> QED BY <3>3, <4>1 DEF ServicePublish, Service!PublishArtifact, Service!Goto
    <3>4. CASE Answer(t)
      BY <3>4 DEF Answer, Service!Reply, Service!Idle
    <3> QED BY <1>6, <3>1, <3>2, <3>3, <3>4
  <2>2. /\ step' \in [Slots -> Steps] /\ job' \in [Slots -> Keys \cup {NULL}]
        /\ conn' \in [Slots -> Threads \cup {NULL}]
    BY <1>6, <1>l DEF ServiceBegin, ServiceCapture, ServicePublish, Answer, slotVars
  <2>3. QueueTypeOK' BY <1>0, <1>6 DEF ServiceBegin, ServiceCapture, ServicePublish, Answer
  <2> QED BY <2>1, <2>2, <2>3
<1>7. ASSUME NEW q \in Procs, Crash(q) PROVE TypeOK'
  BY <1>0, <1>7, <1>l, <1>s DEF Crash
<1>8. ASSUME ServiceRestart PROVE TypeOK'
  <2>1. Service!ServiceTypeOK' BY <1>8 DEF ServiceRestart, Service!ServiceCrash, Service!Idle
  <2> QED BY <1>0, <1>8, <1>l, <2>1 DEF ServiceRestart
<1>9. ASSUME LeaseEnds \/ MinuteEnds PROVE TypeOK'
  <2>1. QueueTypeOK'
    <3>1. CASE LeaseEnds BY <3>1 DEF LeaseEnds, LeaseLapses, QueueTypeOK, callVars
    <3>2. CASE MinuteEnds
      BY <3>2, QueueAssumption DEF MinuteEnds, NewMinute, QueueTypeOK, callVars
    <3> QED BY <1>9, <3>1, <3>2
  <2> QED BY <1>9, <1>s, <2>1 DEF LeaseEnds, MinuteEnds, slotVars
<1>10. ASSUME UNCHANGED vars PROVE TypeOK'
  BY <1>0, <1>10, <1>s DEF vars, slotVars
<1> QED BY <1>1, <1>2, <1>3, <1>4, <1>5, <1>6, <1>7, <1>8, <1>9, <1>10 DEF Next, Slot

-----------------------------------------------------------------------------
(* The queue: leases and answers *)

LEMMA LeasesKept ==
  ASSUME IInv, TypeOK', [Next]_vars
  PROVE  LeaseHeld'
<1>1. ASSUME NEW k \in Keys, RowMoves(k), lease'[k] # "NONE" PROVE state'[k] = "PREPARING"
  BY <1>1 DEF IInv, QueueInv, LeaseHeld, RowMoves
<1>2. ASSUME NEW s \in Slots, NEW k \in Keys, Claims(s, k) PROVE LeaseHeld'
  BY <1>1, <1>2, ClaimMoves DEF IInv, LeaseHeld
<1> QED BY <1>1, <1>2, RowsMove DEF IInv, LeaseHeld

(* A row keeps its body, and keeps its state once it is decided.             *)
LEMMA RowStays ==
  ASSUME IInv, [Next]_vars, NEW k \in Keys, state[k] # "NONE"
  PROVE  /\ state'[k] # "NONE" /\ body'[k] = body[k]
         /\ state[k] \in Decided => state'[k] = state[k]
<1>1. ASSUME RowMoves(k)
      PROVE  /\ state'[k] # "NONE" /\ body'[k] = body[k]
             /\ state[k] \in Decided => state'[k] = state[k]
  BY <1>1 DEF RowMoves, Decided
<1>2. ASSUME NEW s \in Slots, NEW x \in Keys, Claims(s, x)
      PROVE  /\ state'[k] # "NONE" /\ body'[k] = body[k]
             /\ state[k] \in Decided => state'[k] = state[k]
  BY <1>1, <1>2, ClaimMoves DEF IInv, Waiting, Decided
<1> QED BY <1>1, <1>2, RowsMove DEF IInv

(* What a caller may be told anew: a refusal, or the state of its row.       *)
ToldRow(c) ==
  \/ answer'[c] = answer[c] \/ answer'[c] \in Refusals
  \/ /\ state'[key[c]] = answer'[c] /\ answer'[c] # "NONE"
     /\ body'[key[c]] = sent[c]

LEMMA AnswersMove ==
  ASSUME IInv, [Next]_vars
  PROVE  \A c \in Calls : ToldRow(c)
<1>0. ASSUME UNCHANGED answer PROVE \A c \in Calls : ToldRow(c) BY <1>0 DEF ToldRow
<1>1. ASSUME NEW c \in Calls, Create(c) PROVE \A d \in Calls : ToldRow(d)
  <2>1. key[c] \in Keys /\ TypeOK BY QueueAssumption DEF IInv
  <2>2. ASSUME NEW d \in Calls, d # c PROVE answer'[d] = answer[d]
    BY <1>1, <2>1, <2>2 DEF Create, Lookup, CreateRequest, Insert, Replay, Poll, Answered,
                            TypeOK, QueueTypeOK
  <2> USE <2>1 DEF TypeOK, QueueTypeOK, Answered, ToldRow, Refusals
  <2>3. CASE Lookup(c)
    BY <2>3 DEF Lookup
  <2>4. CASE CreateRequest(c)
    BY <2>4 DEF CreateRequest, Insert, Replay, SameBody
  <2>5. CASE Poll(c)
    <3>1. /\ body[key[c]] = sent[c] /\ state[key[c]] # "NONE"
      BY <2>5 DEF Poll, IInv, QueueInv, AnswersHold, AnswersHaveRow
    <3> QED BY <2>5, <3>1 DEF Poll
  <2>6. ToldRow(c) BY <1>1, <2>3, <2>4, <2>5 DEF Create
  <2> QED BY <2>2, <2>6
<1>2. ASSUME NEW s \in Slots, Claim(s) \/ Post(s) \/ Slot(s) PROVE UNCHANGED answer
  BY <1>2 DEF Claim, claimBuild, claimNone, AfterClaim, Post, Slot, CallFails, Verify, Publish,
     publish, Reject, rejectBuild, queueVars, callVars
<1>3. ASSUME NEW t \in Threads,
             ServiceBegin(t) \/ ServiceCapture(t) \/ ServicePublish(t) \/ Answer(t)
      PROVE  UNCHANGED answer
  BY <1>3 DEF ServiceBegin, ServiceCapture, ServicePublish, Answer, queueVars
<1>4. ASSUME \/ \E q \in Procs : Crash(q)
             \/ ServiceRestart \/ LeaseEnds \/ MinuteEnds \/ UNCHANGED vars
      PROVE  UNCHANGED answer
  BY <1>4 DEF Crash, ServiceRestart, LeaseEnds, LeaseLapses, MinuteEnds, NewMinute, vars,
     queueVars, callVars
<1> QED BY <1>0, <1>1, <1>2, <1>3, <1>4 DEF Next

LEMMA AnswersKept ==
  ASSUME IInv, TypeOK', [Next]_vars
  PROVE  AnswersHold' /\ AnswersHaveRow'
<1> SUFFICES ASSUME NEW c \in Calls, answer'[c] \in Decided \cup {"PREPARING"}
             PROVE  /\ body'[key[c]] = sent[c]
                    /\ answer'[c] \in Decided => state'[key[c]] = answer'[c]
                    /\ state'[key[c]] # "NONE"
  BY DEF AnswersHold, AnswersHaveRow
<1>1. ToldRow(c) /\ key[c] \in Keys BY AnswersMove, QueueAssumption
<1>2. answer'[c] \notin Refusals BY DEF Decided, Refusals
<1>3. CASE answer'[c] = answer[c]
  <2>1. /\ body[key[c]] = sent[c] /\ state[key[c]] # "NONE"
        /\ answer[c] \in Decided => state[key[c]] = answer[c]
    BY <1>3 DEF IInv, QueueInv, AnswersHold, AnswersHaveRow
  <2> QED BY <1>1, <1>3, <2>1, RowStays
<1>4. CASE state'[key[c]] = answer'[c] /\ body'[key[c]] = sent[c]
  BY <1>4 DEF Decided
<1> QED BY <1>1, <1>2, <1>3, <1>4 DEF ToldRow

(* Only a claim adds a live lease, and it counts the live ones first.        *)
LEMMA LeasesBounded ==
  ASSUME IInv, TypeOK', [Next]_vars
  PROVE  SlotsBounded'
<1> USE DEF IInv, QueueInv
<1>0. IsFiniteSet(LiveLeases) /\ Cardinality(LiveLeases) \in Nat
  BY FS_CardinalityType DEF SlotsBounded
<1>1. ASSUME NEW k \in Keys, RowMoves(k), k \in LiveLeases' PROVE k \in LiveLeases
  BY <1>1 DEF RowMoves, LiveLeases, LeaseHeld, Decided
<1>2. CASE \A k \in Keys : RowMoves(k)
  <2>1. LiveLeases' \subseteq LiveLeases BY <1>1, <1>2 DEF LiveLeases
  <2> QED BY <1>0, <2>1, FS_Subset, FS_CardinalityType, QueueAssumption DEF SlotsBounded
<1>3. ASSUME NEW s \in Slots, NEW k \in Keys, Claims(s, k) PROVE SlotsBounded'
  <2>1. LiveLeases' \subseteq LiveLeases \cup {k}
    BY <1>1, <1>3, ClaimMoves DEF LiveLeases
  <2>2. Cardinality(LiveLeases) < MaxActive
    BY <1>3, ClaimMoves DEF SlotFree, LiveLeases
  <2>3. /\ IsFiniteSet(LiveLeases \cup {k})
        /\ Cardinality(LiveLeases \cup {k}) <= Cardinality(LiveLeases) + 1
    <3>1. Cardinality(LiveLeases \cup {k})
          = IF k \in LiveLeases THEN Cardinality(LiveLeases) ELSE Cardinality(LiveLeases) + 1
      BY <1>0, FS_AddElement
    <3>2. IsFiniteSet(LiveLeases \cup {k}) BY <1>0, FS_AddElement
    <3> QED BY <1>0, <3>1, <3>2
  <2>4. /\ IsFiniteSet(LiveLeases')
        /\ Cardinality(LiveLeases') <= Cardinality(LiveLeases \cup {k})
    BY <2>1, <2>3, FS_Subset
  <2>5. Cardinality(LiveLeases') \in Nat /\ Cardinality(LiveLeases \cup {k}) \in Nat
    BY <2>3, <2>4, FS_CardinalityType
  <2> QED BY <1>0, <2>2, <2>3, <2>4, <2>5, QueueAssumption DEF SlotsBounded
<1> QED BY <1>2, <1>3, RowsMove

-----------------------------------------------------------------------------
(* The work: one claim, one post, one capture *)

OnceInv == ClaimedOnce /\ PostedOnce /\ CapturedOnce /\ OneSnapshot

LEMMA UnclaimedBefore == ASSUME NEW k \in Keys, RowMoves(k), Unclaimed(k)' PROVE Unclaimed(k)
BY DEF RowMoves, Unclaimed, Waiting, Decided

(* Every other step only gives work up.                                      *)
GivesUp ==
  /\ \A s \in Slots : /\ job'[s] \in {job[s], NULL}
                      /\ step'[s] = "post" => step[s] = "post" /\ job'[s] = job[s]
  /\ \A t \in Threads :
       /\ thread'[t].report \in {thread[t].report, NULL}
       /\ thread'[t].step \in {"begin", "capture"} =>
            thread[t].step \in {"begin", "capture"} /\ thread'[t].report = thread[t].report
  /\ UNCHANGED captures

LEMMA GivingUpKeeps ==
  ASSUME IInv, TypeOK', \A k \in Keys : RowMoves(k), GivesUp
  PROVE  OnceInv'
<1> USE DEF GivesUp
<1>0. NULL \notin Keys BY QueueAssumption
<1>1. ASSUME NEW k \in Keys, Fresh(k) PROVE Fresh(k)'
  BY <1>0, <1>1 DEF Fresh
<1>2. ClaimedOnce'
  BY <1>0, <1>1, UnclaimedBefore DEF IInv, WorkInv, ClaimedOnce
<1>3. PostedOnce'
  <2>1. ASSUME NEW s \in Slots, NEW k \in Keys, step'[s] = "post", job'[s] = k PROVE Fresh(k)'
    BY <1>1, <2>1 DEF IInv, WorkInv, PostedOnce
  <2>2. \A t, u \in Threads : thread'[t].report = thread'[u].report /\ thread'[t].report # NULL
                              => t = u
    BY DEF IInv, WorkInv, PostedOnce
  <2> QED BY <2>1, <2>2 DEF PostedOnce
<1>4. CapturedOnce' BY DEF IInv, WorkInv, CapturedOnce
<1>5. OneSnapshot' BY DEF IInv, WorkInv, OneSnapshot
<1> QED BY <1>2, <1>3, <1>4, <1>5 DEF OnceInv

(* A claim gives a request that nobody ever worked on to one slot.           *)
LEMMA ClaimKeeps ==
  ASSUME IInv, TypeOK', NEW s \in Slots, NEW k \in Keys, Claims(s, k)
  PROVE  WorkInv'
<1> USE DEF IInv, WorkInv
<1>0. /\ k \in Waiting /\ state'[k] = "PREPARING" /\ lease'[k] = "LIVE"
      /\ \A x \in Keys \ {k} : RowMoves(x) /\ NULL \notin Keys
  BY ClaimMoves, QueueAssumption
<1>1. Fresh(k) /\ \A r \in Slots : job[r] # k
  BY <1>0 DEF ClaimedOnce, Unclaimed
<1>2. /\ job' = [job EXCEPT ![s] = k] /\ step' = [step EXCEPT ![s] = "post"]
      /\ UNCHANGED << conn, thread, active, captures, store >>
      /\ job \in [Slots -> Keys \cup {NULL}] /\ step \in [Slots -> Steps]
      /\ step[s] = "idle"
  BY DEF Claims, Goto, serviceVars, TypeOK
<1>3. \A x \in Keys : Fresh(x)' <=> Fresh(x) BY <1>2 DEF Fresh
<1>4. SlotsBusy' BY <1>0, <1>2 DEF SlotsBusy
<1>5. ThreadsBusy' /\ CapturedOnce' /\ OneSnapshot'
  BY <1>2 DEF ThreadsBusy, CapturedOnce, OneSnapshot
<1>6. ClaimedOnce'
  <2>1. ASSUME NEW x \in Keys, Unclaimed(x)'
        PROVE  Fresh(x)' /\ \A r \in Slots : job'[r] # x
    <3>1. x # k BY <1>0, <2>1 DEF Unclaimed, Waiting
    <3>2. Unclaimed(x) BY <1>0, <2>1, <3>1, UnclaimedBefore
    <3> QED BY <1>2, <1>3, <3>1, <3>2 DEF ClaimedOnce
  <2>2. \A r, u \in Slots : job'[r] = job'[u] /\ job'[r] # NULL => r = u
    BY <1>1, <1>2 DEF ClaimedOnce
  <2> QED BY <2>1, <2>2 DEF ClaimedOnce
<1>7. PostedOnce'
  BY <1>1, <1>2 DEF PostedOnce, Fresh
<1> QED BY <1>4, <1>5, <1>6, <1>7

(* A post hands it to one thread.                                            *)
LEMMA PostKeeps ==
  ASSUME IInv, TypeOK', NEW s \in Slots, Post(s)
  PROVE  WorkInv'
<1> USE DEF IInv, WorkInv
<1>1. PICK t \in Threads : Service!Accept(t, job[s]) /\ conn' = [conn EXCEPT ![s] = t]
  BY DEF Post
<1>2. PICK k \in Keys : k = job[s] BY DEF Post, SlotsBusy
<1>3. k = job[s] /\ Fresh(k) BY <1>2 DEF Post, PostedOnce
<1>4. /\ thread[t].step = "free"
      /\ thread' = [thread EXCEPT ![t] = [step |-> "begin", report |-> k]]
      /\ UNCHANGED << active, captures, store, job, state, lease >>
      /\ step' = [step EXCEPT ![s] = "wait"] /\ step[s] = "post"
  BY <1>1, <1>3 DEF Service!Accept, Post, Goto, queueVars
<1>5. /\ thread \in [Threads -> [step : {"free", "begin", "capture", "publish", "200", "error"},
                                 report : Keys \cup {NULL}]]
      /\ step \in [Slots -> Steps] /\ conn \in [Slots -> Threads \cup {NULL}]
  BY DEF TypeOK, Service!ServiceTypeOK
<1>6. SlotsBusy' BY <1>1, <1>4, <1>5 DEF SlotsBusy
<1>7. ThreadsBusy' BY <1>4, <1>5 DEF ThreadsBusy
<1>8. ASSUME NEW x \in Keys, x # k, Fresh(x) PROVE Fresh(x)'
  BY <1>4, <1>5, <1>8 DEF Fresh
<1>9. ClaimedOnce'
  <2>1. ASSUME NEW x \in Keys, Unclaimed(x)' PROVE Fresh(x)' /\ \A r \in Slots : job'[r] # x
    <3>1. Unclaimed(x) BY <1>4, <2>1 DEF Unclaimed, Waiting
    <3>2. x # k BY <1>3, <3>1 DEF ClaimedOnce
    <3> QED BY <1>4, <1>8, <3>1, <3>2 DEF ClaimedOnce
  <2> QED BY <1>4, <2>1 DEF ClaimedOnce
<1>10. PostedOnce'
  <2>1. ASSUME NEW r \in Slots, NEW x \in Keys, step'[r] = "post", job'[r] = x PROVE Fresh(x)'
    <3>1. r # s /\ step[r] = "post" /\ job[r] = x BY <1>4, <1>5, <2>1
    <3>2. x # k BY <1>3, <3>1, QueueAssumption DEF ClaimedOnce
    <3>3. Fresh(x) BY <3>1 DEF PostedOnce
    <3> QED BY <1>8, <3>2, <3>3
  <2>2. ASSUME NEW u \in Threads, u # t PROVE thread'[u].report = thread[u].report
                                              /\ thread'[u].report # k
    BY <1>2, <1>3, <1>4, <1>5, <2>2 DEF Fresh
  <2>3. thread'[t].report = k BY <1>4, <1>5
  <2>4. \A u, v \in Threads : thread'[u].report = thread'[v].report /\ thread'[u].report # NULL
                              => u = v
    BY <2>2, <2>3 DEF PostedOnce
  <2> QED BY <2>1, <2>4 DEF PostedOnce
<1>11. CapturedOnce'
  BY <1>3, <1>4, <1>5 DEF CapturedOnce, Fresh
<1>12. OneSnapshot' BY <1>4 DEF OneSnapshot
<1> QED BY <1>6, <1>7, <1>9, <1>10, <1>11, <1>12

(* A capture is the first one.                                               *)
LEMMA CaptureKeeps ==
  ASSUME IInv, TypeOK', NEW t \in Threads, ServiceCapture(t)
  PROVE  WorkInv'
<1> USE DEF IInv, WorkInv
<1>1. thread[t].step = "capture" /\ thread[t].report \in Keys /\ captures[thread[t].report] = 0
  BY DEF ServiceCapture, Service!Capture, ThreadsBusy, CapturedOnce
<1>2. PICK k \in Keys : k = thread[t].report BY <1>1
<1>3. PICK n \in {"publish", "error"} :
        /\ thread' = [thread EXCEPT ![t].step = n]
        /\ captures' = [captures EXCEPT ![k] = captures[k] + 1]
        /\ UNCHANGED << queueVars, slotVars, active, store >>
  BY <1>2 DEF ServiceCapture, Service!Capture, Service!Goto
<1>4. /\ thread \in [Threads -> [step : {"free", "begin", "capture", "publish", "200", "error"},
                                 report : Keys \cup {NULL}]]
      /\ captures \in [Keys -> Nat]
  BY DEF TypeOK, Service!ServiceTypeOK
<1>5. \A u \in Threads : thread'[u].report = thread[u].report
                         /\ (u # t => thread'[u].step = thread[u].step)
  BY <1>3, <1>4
<1>5a. thread'[t].step = n BY <1>3, <1>4
<1>6. SlotsBusy' BY <1>3 DEF SlotsBusy, slotVars
<1>7. ThreadsBusy' BY <1>1, <1>5 DEF ThreadsBusy
<1>8. ASSUME NEW x \in Keys, Fresh(x) PROVE Fresh(x)'
  BY <1>2, <1>3, <1>4, <1>5, <1>8 DEF Fresh
<1>9. ClaimedOnce'
  BY <1>3, <1>8 DEF ClaimedOnce, Unclaimed, Waiting, queueVars, slotVars
<1>10. PostedOnce'
  <2>1. ASSUME NEW r \in Slots, NEW x \in Keys, step'[r] = "post", job'[r] = x PROVE Fresh(x)'
    BY <1>3, <1>8, <2>1 DEF slotVars, PostedOnce
  <2>2. \A u, v \in Threads : thread'[u].report = thread'[v].report /\ thread'[u].report # NULL
                              => u = v
    BY <1>5 DEF PostedOnce
  <2> QED BY <2>1, <2>2 DEF PostedOnce
<1>11. CapturedOnce'
  <2> SUFFICES ASSUME NEW u \in Threads, thread'[u].step \in {"begin", "capture"}
               PROVE  captures'[thread'[u].report] = 0
    BY DEF CapturedOnce
  <2>1. u # t BY <1>5a
  <2>2. /\ thread[u].report \in Keys /\ captures[thread[u].report] = 0
        /\ thread[u].report # k
    BY <1>2, <1>5, <2>1, QueueAssumption DEF ThreadsBusy, CapturedOnce, PostedOnce
  <2> QED BY <1>3, <1>4, <1>5, <2>2
<1>12. OneSnapshot' BY <1>1, <1>2, <1>3, <1>4 DEF OneSnapshot
<1> QED BY <1>6, <1>7, <1>9, <1>10, <1>11, <1>12

(* The other steps.                                                          *)
LEMMA OthersGiveUp ==
  ASSUME IInv, TypeOK', [Next]_vars,
         \A s \in Slots, k \in Keys : ~ Claims(s, k),
         \A s \in Slots : ~ Post(s), \A t \in Threads : ~ ServiceCapture(t)
  PROVE  GivesUp /\ SlotsBusy' /\ ThreadsBusy'
<1> USE DEF IInv, WorkInv
<1>0. /\ thread \in [Threads -> [step : {"free", "begin", "capture", "publish", "200", "error"},
                                 report : Keys \cup {NULL}]]
      /\ step \in [Slots -> Steps] /\ job \in [Slots -> Keys \cup {NULL}]
      /\ conn \in [Slots -> Threads \cup {NULL}]
  BY DEF TypeOK, Service!ServiceTypeOK
<1>1. ASSUME UNCHANGED << slotVars, serviceVars >> PROVE GivesUp /\ SlotsBusy' /\ ThreadsBusy'
  BY <1>1 DEF slotVars, serviceVars, GivesUp, SlotsBusy, ThreadsBusy
<1>2. ASSUME NEW s \in Slots, Claim(s) PROVE UNCHANGED << slotVars, serviceVars >>
  BY <1>2 DEF Claim, Claims, slotVars
<1>3. ASSUME NEW c \in Calls, Create(c) PROVE UNCHANGED << slotVars, serviceVars >>
  BY <1>3 DEF Create
<1>4. ASSUME LeaseEnds \/ MinuteEnds \/ UNCHANGED vars
      PROVE  UNCHANGED << slotVars, serviceVars >>
  BY <1>4 DEF LeaseEnds, MinuteEnds, vars
<1>5. ASSUME NEW s \in Slots, Slot(s) PROVE GivesUp /\ SlotsBusy' /\ ThreadsBusy'
  <2>1. UNCHANGED serviceVars BY <1>5 DEF Slot, CallFails, Verify, Publish, Reject
  <2>2. ThreadsBusy' BY <2>1 DEF ThreadsBusy, serviceVars
  <2>3. /\ step[s] # "idle" /\ \A r \in Slots \ {s} : /\ step'[r] = step[r]
                                                     /\ job'[r] = job[r] /\ conn'[r] = conn[r]
        /\ \/ step'[s] = "idle" /\ job'[s] = NULL /\ conn'[s] = NULL
           \/ /\ step'[s] \notin {"idle", "post"} /\ job'[s] = job[s]
              /\ conn'[s] = NULL
    BY <1>0, <1>5 DEF Slot, CallFails, Verify, Publish, Reject, Finish, Goto, SlotsBusy
  <2>4. SlotsBusy' BY <2>3 DEF SlotsBusy
  <2>5. GivesUp BY <2>1, <2>3 DEF GivesUp, serviceVars
  <2> QED BY <2>2, <2>4, <2>5
<1>6. ASSUME NEW t \in Threads, ServiceBegin(t) \/ ServicePublish(t) \/ Answer(t)
      PROVE  GivesUp /\ SlotsBusy' /\ ThreadsBusy'
  <2>1. /\ \A u \in Threads \ {t} : thread'[u] = thread[u]
        /\ \/ thread'[t] = [step |-> "free", report |-> NULL]
           \/ /\ thread'[t].report = thread[t].report /\ thread[t].step # "free"
              /\ thread'[t].step = "capture" => thread[t].step = "begin"
              /\ thread'[t].step # "begin"
        /\ UNCHANGED captures
    BY <1>0, <1>6 DEF ServiceBegin, Service!Begin, ServicePublish, Service!PublishArtifact,
                      Answer, Service!Reply, Service!Goto, Service!Idle
  <2>2. ThreadsBusy' BY <2>1 DEF ThreadsBusy
  <2>3. \A r \in Slots : /\ job'[r] = job[r]
                         /\ \/ step'[r] = step[r] /\ conn'[r] = conn[r]
                            \/ /\ conn[r] # NULL /\ conn'[r] = NULL
                               /\ step'[r] \in {"verify", "reject", "fail"}
    BY <1>0, <1>6, SlotAssumption DEF ServiceBegin, ServicePublish, Answer, slotVars
  <2>4. SlotsBusy' BY <2>3 DEF SlotsBusy
  <2>5. GivesUp BY <2>1, <2>3 DEF GivesUp
  <2> QED BY <2>2, <2>4, <2>5
<1>7. ASSUME NEW q \in Procs, Crash(q) PROVE GivesUp /\ SlotsBusy' /\ ThreadsBusy'
  <2>1. /\ \A r \in Slots : \/ step'[r] = step[r] /\ job'[r] = job[r] /\ conn'[r] = conn[r]
                            \/ step'[r] = "idle" /\ job'[r] = NULL /\ conn'[r] = NULL
        /\ UNCHANGED serviceVars
    BY <1>0, <1>7 DEF Crash
  <2> QED BY <2>1 DEF GivesUp, SlotsBusy, ThreadsBusy, serviceVars
<1>8. ASSUME ServiceRestart PROVE GivesUp /\ SlotsBusy' /\ ThreadsBusy'
  <2>1. /\ \A t \in Threads : thread'[t] = [step |-> "free", report |-> NULL]
        /\ UNCHANGED << captures, job >>
    BY <1>8 DEF ServiceRestart, Service!ServiceCrash, Service!Idle
  <2>2. \A r \in Slots : /\ conn'[r] = NULL
                         /\ \/ step'[r] = step[r]
                            \/ conn[r] # NULL /\ step'[r] = "fail"
    BY <1>8 DEF ServiceRestart
  <2>3. ThreadsBusy' BY <2>1 DEF ThreadsBusy
  <2>4. SlotsBusy' BY <2>1, <2>2 DEF SlotsBusy
  <2>5. GivesUp BY <2>1, <2>2 DEF GivesUp
  <2> QED BY <2>3, <2>4, <2>5
<1> QED BY <1>1, <1>2, <1>3, <1>4, <1>5, <1>6, <1>7, <1>8 DEF Next

LEMMA WorkKept ==
  ASSUME IInv, TypeOK', [Next]_vars
  PROVE  WorkInv'
<1>1. CASE \E s \in Slots, k \in Keys : Claims(s, k) BY <1>1, ClaimKeeps
<1>2. CASE \E s \in Slots : Post(s) BY <1>2, PostKeeps
<1>3. CASE \E t \in Threads : ServiceCapture(t) BY <1>3, CaptureKeeps
<1>4. CASE /\ \A s \in Slots, k \in Keys : ~ Claims(s, k)
           /\ \A s \in Slots : ~ Post(s)
           /\ \A t \in Threads : ~ ServiceCapture(t)
  <2>1. GivesUp /\ SlotsBusy' /\ ThreadsBusy' BY <1>4, OthersGiveUp
  <2>2. \A k \in Keys : RowMoves(k) BY <1>4, RowsMove DEF IInv
  <2>3. OnceInv' BY <2>1, <2>2, GivingUpKeeps
  <2> QED BY <2>1, <2>3 DEF WorkInv, OnceInv
<1> QED BY <1>1, <1>2, <1>3, <1>4

LEMMA InitInv == Init => IInv
<1> SUFFICES ASSUME Init PROVE IInv OBVIOUS
<1> USE DEF Init, QueueInit, Service!ServiceInit, Service!Idle
<1>1. TypeOK
  <2>1. created \in Seq(Keys) OBVIOUS
  <2>2. QueueTypeOK BY <2>1, QueueAssumption DEF QueueTypeOK, RequestStates, Decided
  <2>3. Service!ServiceTypeOK BY DEF Service!ServiceTypeOK
  <2> QED BY <2>2, <2>3 DEF TypeOK, Steps
<1>2. SlotsBusy /\ ThreadsBusy BY DEF SlotsBusy, ThreadsBusy
<1>3. ClaimedOnce /\ PostedOnce /\ CapturedOnce /\ OneSnapshot
  BY QueueAssumption DEF ClaimedOnce, PostedOnce, CapturedOnce, OneSnapshot, Unclaimed, Waiting,
                         Fresh
<1>4. LeaseHeld /\ AnswersHaveRow /\ AnswersHold
  BY DEF LeaseHeld, AnswersHaveRow, AnswersHold, Decided
<1>5. SlotsBounded
  <2>1. LiveLeases = {} BY DEF LiveLeases
  <2> QED BY <2>1, FS_EmptySet, QueueAssumption DEF SlotsBounded
<1> QED BY <1>1, <1>2, <1>3, <1>4, <1>5 DEF IInv, WorkInv, QueueInv

LEMMA NextInv == IInv /\ [Next]_vars => IInv'
<1> SUFFICES ASSUME IInv, [Next]_vars PROVE IInv' OBVIOUS
<1>1. TypeOK' BY TypesKept
<1>2. WorkInv' BY <1>1, WorkKept
<1>3. QueueInv' BY <1>1, LeasesKept, AnswersKept, LeasesBounded DEF QueueInv
<1> QED BY <1>1, <1>2, <1>3 DEF IInv

LEMMA BuildsInvariant == Spec => []IInv
BY InitInv, NextInv, PTL DEF Spec

-----------------------------------------------------------------------------
(* Theorems *)

(* Rows, slots and service threads keep their types: no await of buildOne    *)
(* and no crash leaves a slot or a thread without the report it works on.    *)
THEOREM BuildTypes == Spec => []TypeOK
<1>1. IInv => TypeOK BY DEF IInv
<1> QED BY <1>1, BuildsInvariant, PTL

(* claimBuild never lets more than MaxActive builds hold a lease, over any   *)
(* number of replicas, whatever lapses, crashes or is published late.        *)
THEOREM SlotsKept == Spec => []BuildSlots
<1>1. IInv => BuildSlots BY DEF IInv, QueueInv, SlotsBounded, LiveLeases, BuildSlots
<1> QED BY <1>1, BuildsInvariant, PTL

(* The market is captured at most once for a report: claimBuild gives a row  *)
(* to one slot, once in its life, and buildOne posts it to one thread of the *)
(* service, once, over any crashes, lost answers and restarts.               *)
THEOREM SnapshotOnce == Spec => []OneSnapshot
<1>1. IInv => OneSnapshot BY DEF IInv, WorkInv
<1> QED BY <1>1, BuildsInvariant, PTL

(* What Gateway.create told a caller about its request stays true, although  *)
(* a slot whose lease lapsed may still try to publish.                       *)
THEOREM AnswersStay == Spec => []AnswersHold
<1>1. IInv => AnswersHold BY DEF IInv, QueueInv
<1> QED BY <1>1, BuildsInvariant, PTL
=============================================================================
