----------------------------- MODULE SealedInput ----------------------------
(* What a capture seals, how the report builder inspects it, and the report  *)
(* that follows from it.  A report is a function of the package, the request *)
(* and the time it was created: it can be rebuilt from its own bundle.       *)
EXTENDS Naturals, FiniteSetsExt

CONSTANTS Requests,     \* request identities
          TroveRequests, \* the ones with product_id trove_risk
          Captures,     \* capture ids, each a fresh uuid4
          Feeds,        \* what the public sources can answer
          NULL,
          MaxTroveAge   \* 30 s: the oldest block a trove report is sold for

ASSUME TroveAssumption == TroveRequests \subseteq Requests /\ MaxTroveAge \in Nat

Modes == {"fixture", "live-public"}

(* clock: the wall clock stepped back between the two requests, or away from *)
(* the monotonic one during a request; age: the book's time against its      *)
(* receipt; book: its coin and levels; btc: its entry in the universe.       *)
Feed == [clock : {"steady", "back", "drift"}, age : {"fresh", "stale", "future"},
         book : {"sorted", "unsorted", "crossed", "thin", "other"},
         btc : {"listed", "delisted", "missing"}]

Healthy == [clock |-> "steady", age |-> "fresh", book |-> "sorted", btc |-> "listed"]

BaseMembers == {"manifest", "terminal", "mapping_snapshot", "raw_batches", "raw_envelopes",
                "control_evidence", "quality_minutes", "metadata", "book", "capture"}

-----------------------------------------------------------------------------
(* capture_members: the identity policy and the status follow the mode; a    *)
(* live capture needs one BTC entry before anything is sealed.               *)
Sealable(mode, feed) == mode = "fixture" \/ feed.btc # "missing"

capture_members(id, mode, feed, for, at) ==
  [id |-> id, mode |-> mode, feed |-> feed, for |-> for, at |-> at,
   identity_status |-> IF mode = "fixture" THEN "SIMULATED" ELSE "UNVERIFIED",
   policy |-> mode,
   members |-> BaseMembers \cup {"mapping-evidence"} \cup (IF for = NULL THEN {} ELSE {"mezo-dex"})]

trove_members(id, for, at) ==
  [id |-> id, mode |-> "live-public", feed |-> Healthy, for |-> for, at |-> at,
   identity_status |-> "UNVERIFIED", policy |-> "trove",
   members |-> {"manifest", "trove-capture"}]

(* _inspect: the checks in the order of the code, each with its code         *)
Faults(p) ==
  LET live == p.mode = "live-public"
      expected == BaseMembers \cup {"mapping-evidence"}
                  \cup (p.members \cap {"mezo-dex"})
  IN << << p.members # expected, "INVALID_DATASET" >>,
        << live /\ p.feed.clock = "back", "INVALID_DATASET" >>,
        << live /\ p.identity_status # "UNVERIFIED", "INVALID_DATASET" >>,
        << live /\ p.feed.clock = "drift", "CLOCK_SKEW" >>,
        << p.feed.book = "other", "IDENTITY_MISMATCH" >>,
        << live /\ p.feed.age = "stale", "STALE_SOURCE" >>,
        << live /\ p.feed.age = "future", "CLOCK_SKEW" >>,
        << p.feed.book = "unsorted", "INVALID_DATASET" >>,
        << p.feed.book = "crossed", "CROSSED_BOOK" >>,
        << p.feed.btc = "missing", "IDENTITY_UNVERIFIED" >>,
        << p.feed.btc = "delisted", "UNSUPPORTED_INSTRUMENT" >>,
        << p.policy # p.mode, "IDENTITY_UNVERIFIED" >>,
        << ~live /\ p.identity_status # "SIMULATED", "IDENTITY_UNVERIFIED" >> >>

FirstFault(faults) ==
  LET hits == {i \in DOMAIN faults : faults[i][1]}
  IN IF hits = {} THEN "ok" ELSE faults[Min(hits)][2]

_inspect(p) == FirstFault(Faults(p))

(* read_trove_package and verify_trove_capture *)
read_trove_package(p) ==
  IF p.members = {"manifest", "trove-capture"} /\ p.mode = "live-public"
  THEN "ok" ELSE "INVALID_DATASET"

-----------------------------------------------------------------------------
(* build_inspected_report and build_trove_report: the outcome, and the       *)
(* document.  A market report is created when its book was received, a trove *)
(* report when it is built.                                                  *)
TroveOutcome(p, q, created) ==
  FirstFault(<< << read_trove_package(p) # "ok", "INVALID_DATASET" >>,
                << p.for # q, "INVALID_DATASET" >>,
                << created < p.at, "CLOCK_SKEW" >> >>)

MarketOutcome(p, q) ==
  FirstFault(<< << _inspect(p) # "ok", _inspect(p) >>,
                << p.feed.book = "thin", "DEPTH_INSUFFICIENT" >>,
                << "mezo-dex" \in p.members /\ p.for # q, "MEZO_DEX_INVALID_EVIDENCE" >> >>)

BuildOutcome(p, q, created) ==
  IF q \in TroveRequests THEN TroveOutcome(p, q, created) ELSE MarketOutcome(p, q)

created_at(p, q, clock) == IF q \in TroveRequests THEN clock ELSE p.at

snapshot_status(p, created) ==
  IF p.mode = "fixture" THEN "SIMULATED"
  ELSE IF created - p.at > MaxTroveAge THEN "HISTORICAL_SNAPSHOT"
  ELSE "VALID_FOR_SNAPSHOT_CALCULATION"

TroveDocument(r, p, q, created) ==
  [report_id |-> r, request |-> q, package |-> p, created |-> created,
   source_mode |-> p.mode, status |-> snapshot_status(p, created)]

MarketDocument(r, p, q, created) ==
  [report_id |-> r, request |-> q, package |-> p, created |-> created, source_mode |-> p.mode,
   status |-> IF p.mode = "fixture" THEN "SIMULATED" ELSE "VALID_FOR_SNAPSHOT_CALCULATION"]

Document(r, p, q, created) ==
  IF q \in TroveRequests THEN TroveDocument(r, p, q, created)
                         ELSE MarketDocument(r, p, q, created)

(* The second check of build_trove_product, and require_mezo_source when the *)
(* DEX source is enabled.                                                    *)
Sellable(b, dex_enabled) ==
  FirstFault(<< << b.request \in TroveRequests
                   /\ b.status # "VALID_FOR_SNAPSHOT_CALCULATION", "STALE_SOURCE" >>,
                << b.request \notin TroveRequests /\ dex_enabled
                   /\ "mezo-dex" \notin b.package.members, "MEZO_SOURCE_UNAVAILABLE" >> >>)

(* verify_bundle_bytes: the report is built again from the members of the    *)
(* bundle, with the request and the creation time it states, and compared.   *)
Mut_rebuild(b, clock) ==
  /\ BuildOutcome(b.package, b.request, clock) = "ok"
  /\ Document(b.report_id, b.package, b.request, created_at(b.package, b.request, clock)) = b

rebuild_trove_members(b) == TroveDocument(b.report_id, b.package, b.request, b.created)

rebuild(b, clock) ==
  /\ BuildOutcome(b.package, b.request, b.created) = "ok"
  /\ b = IF b.request \in TroveRequests THEN rebuild_trove_members(b)
         ELSE MarketDocument(b.report_id, b.package, b.request, b.created)
=============================================================================
