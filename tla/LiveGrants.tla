----------------------------- MODULE LiveGrants -----------------------------
(* The short-lived grants of a live acceptance run (live.py, public_read.py): *)
(* what makes a bundle acceptable, the journal directory in which a public    *)
(* read grant is spent by creating its marker file, and one public read.      *)
(* A bundle is abstracted to the commit it names, its expiry, and whether     *)
(* every other binding (schema, plan digest, case terms, journal, link of     *)
(* A13 and A14) is the canonical one.                                         *)
EXTENDS Integers, FiniteSets

CONSTANTS Commits,    \* the commits of the repository under acceptance
          Readers,    \* the processes that call execute_public_read
          Addresses,  \* the addresses a host name may resolve to
          Private,    \* those of them that are not global
          Window,     \* fifteen minutes, in ticks
          MaxNow,     \* bound: the clock stops here
          Bundles     \* the bundles there may be

ASSUME GrantAssumption == Window \in Nat /\ MaxNow \in Nat /\ \A b \in Bundles : b.expires \in Nat

VARIABLES now,      \* the wall clock
          p2, p3,   \* the two grant bundles on the operator's disk
          markers,  \* the journal: names of the grants whose marker exists
          uses,     \* how often each public read grant was used
          read      \* per reader: its place, what it resolved, its verdict

grantVars == << p2, p3, markers, uses, read >>


Grants == {"A07", "read"}   \* the grant in the P2 bundle, that of a plain read

ReadPlaces == {"off", "new", "resolve", "consume", "request", "done", "refused"}

GrantsTypeOK ==
  /\ now \in 0 .. MaxNow
  /\ p2 \in Bundles /\ p3 \in Bundles
  /\ markers \subseteq Grants
  /\ uses \in [Grants -> Nat]
  /\ read \in [Readers -> [at : ReadPlaces, addrs : SUBSET Addresses]]

GrantsInit ==
  /\ now = 0
  /\ p2 \in Bundles /\ p3 \in Bundles
  /\ markers = {}
  /\ uses = [g \in Grants |-> 0]

-----------------------------------------------------------------------------
(* Validation.                                                               *)

Expired(b, t) == t >= b.expires
Expiry(b, t) == ~ Expired(b, t) /\ b.expires <= t + Window

Base(b, subject, t) == b.subject = subject /\ Expiry(b, t)

ValidP2(subject, t) == Base(p2, subject, t) /\ p2.bound
ValidP3(subject, t) == Base(p3, subject, t) /\ p3.bound

(* The A07 grant is cut out of the bundle and parsed again when A07 starts.  *)
ParsesA07(t) == Expiry(p2, t)
Authorizes(b, subject, t) == ~ Expired(b, t) /\ b.subject = subject

-----------------------------------------------------------------------------
(* The journal.  The marker is created with O_EXCL: one caller succeeds.     *)

Mut_Consumable(g) == TRUE
Consumable(g) == g \notin markers

Use(g) == uses' = [uses EXCEPT ![g] = @ + 1]

-----------------------------------------------------------------------------
(* execute_public_read.  The read grant is the A07 grant with another        *)
(* method and url; it carries the expiry and the subject of the bundle.      *)

(* Both resolutions must give the same, non-empty set of global addresses.   *)
ValidResolution(before, connected) ==
  before # {} /\ before = connected /\ before \cap Private = {}

ReadMoves(d, at, addrs) == read' = [read EXCEPT ![d] = [at |-> at, addrs |-> addrs]]

ReadOpen(d, subject) ==
  /\ read[d].at = "new"
  /\ \/ Authorizes(p2, subject, now) /\ ReadMoves(d, "resolve", {})
     \/ ReadMoves(d, "refused", {})   \* not authorized, or ambient authority
  /\ UNCHANGED << now, p2, p3, markers, uses >>

ReadResolve(d) ==
  /\ read[d].at = "resolve"
  /\ \E before, connected \in SUBSET Addresses :
       IF ValidResolution(before, connected) /\ ~ Expired(p2, now)
         THEN ReadMoves(d, "consume", before)
         ELSE ReadMoves(d, "refused", {})
  /\ UNCHANGED << now, p2, p3, markers, uses >>

ReadConsume(d) ==
  /\ read[d].at = "consume"
  /\ IF Consumable("read")
       THEN markers' = markers \cup {"read"} /\ ReadMoves(d, "request", read[d].addrs)
       ELSE ReadMoves(d, "refused", {}) /\ UNCHANGED markers
  /\ UNCHANGED << now, p2, p3, uses >>

(* The evidence is accepted only when the connected address is the whole of  *)
(* what the name resolved to.                                                *)
EvidenceValid(addrs, connected, t) ==
  ~ Expired(p2, t) /\ ValidResolution(addrs, {connected})

ReadRequest(d) ==
  /\ read[d].at = "request"
  /\ Use("read")
  /\ \/ /\ \E a \in read[d].addrs : EvidenceValid(read[d].addrs, a, now)
        /\ ReadMoves(d, "done", read[d].addrs)
     \/ ReadMoves(d, "refused", {})   \* redirect, status, size, expiry, addresses
  /\ UNCHANGED << now, p2, p3, markers >>

Tick == now < MaxNow /\ now' = now + 1 /\ UNCHANGED grantVars

ReadStep(d, subject) ==
  ReadOpen(d, subject) \/ ReadResolve(d) \/ ReadConsume(d) \/ ReadRequest(d)
=============================================================================
