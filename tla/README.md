# Liqvera in TLA+

Liqvera sells evidence reports about markets and Mezo troves, one payment per report, and offers
trove owners a keeper-executed protection. This directory holds a formal model of the parts where
money, evidence and concurrency meet: the gateway that sells, its ledger and workers, the queue
that builds reports, the services that capture, build, store and delete them, the algorithms a
report rests on, the Guard contract and its keeper, and the acceptance runner that spends live
grants and seals results. The modules are translated from the code
under `src/`; `PROJECT.json` maps every definition to the lines it stands for.

## The system

| Part | State it keeps | Operations | What is hard |
| --- | --- | --- | --- |
| Payment ledger (`apps/mezo-gateway/src/adapters/postgres.ts`, `migrations/`) | quotes, payment attempts, grants and reservations, chain events, entitlements, deliveries, artifacts | `expire`, `beginAttempt`, `markSubmitting`, `unknown`, `confirm`, `manualReview`, `recordDelivery`, `recoverUnsubmitted`, cleanup, sweep | a dozen transactions over two rows that must agree; a trigger and unique indexes as the last line of defence |
| Gateway application (`application/gateway.ts`) | nothing beyond the call in progress | `create`, `status`, `read`, `recover` | every await is a point where another process may act, or this one may die |
| Workers (`workers/*.ts`) | none | `reconcileOne`, `recoverUnsubmitted`, `retainAndRecover`, `buildOne` | run in every replica, on rows they read earlier |
| Payment verification (`adapters/mezo-rpc.ts`, `adapters/x402.ts`, `security/payment-policy.ts`) | none | verify, settle, confirm, revalidate, `bindsTransfer` | lost answers, late blocks, reorganisations, RPC failures |
| Build queue (`postgres.ts`, `workers/builds.ts`) | `report_requests` with a lease | `createRequest`, `claimBuild`, `publish`, `rejectBuild` | leases that lapse while the owner works on |
| Report service (`packages/evidence-report`) | request threads, the set of active reports, report directories and their lock files | `do_POST`, `do_DELETE`, `publish_artifact`, `read_published`, `delete_published`, `verify_bundle` | threads outlive the connection that asked; reads without a lock; a crash between two files |
| Capture service (`packages/public-capture`) | the request under way, the listen queue, sealed captures | `capture_package`, trove and DEX captures, the order book reducer | sources that are stale or inconsistent; a chain reorganised between two calls |
| Guard contract (`contracts/guard`) | escrow balances and totals, one policy per borrower | deposit, withdraw, `arm`, `disarm`, `protect` | reservations, nonces used elsewhere, rounding |
| Guard keeper (`services/guard-keeper`) | the policy tracker, in memory | `syncLogs`, `pollStatuses`, `tick` | reads at different blocks, partial ticks, restarts |
| Web application (`apps/mezo-web`) | browser session, a signature in flight | payment flow, wallet events, trove actions | reloads and wallet changes between awaits |
| Readonly analyzer (`packages/readonly-analyzer`) | the books of open epochs | `reconstruct_books`, `sweep_depth`, verdict | gaps, repeats and reordering in a recorded stream |
| Acceptance runner (`tools/mezo_acceptance`) | rows, evidence files, one published result per run | `main`, `run_case`, `evidence_reference`, `verify_sealed_result` | the checkout moves, grants expire and processes die while it runs |
| Grants and P3 operator (`live.py`, `public_read.py`, `p3_operator.py`, `p3-operator.ts`) | the journal of spent grants, one attempt row per payment grant | `execute_public_read`, `consume_public_read_grant`, `execute`, `_reconcile` | one-shot authority under races, kills and lost answers |
| Migrations (`migrate.ts`) | the schema, an advisory lock | `migrate` | concurrent starts |

The gateway calls the facilitator (settle), a Mezo RPC node (receipts), the report service (build,
read, delete) and PostgreSQL. Handlers and workers share nothing but the database, and so do
replicas. The report service calls the capture service over HTTP and reads its packages from a
shared volume; the retention worker of the gateway calls its DELETE. The acceptance runner starts
the P3 operator as a child process, which uses the facilitator, an RPC node and the gateway's
database; runs share the checkout, the grant journal and that database. The keeper talks to the Guard only through
an RPC node; the Guard calls Mezo's contracts.

What makes each part correct: an authorization is settled at most once and a charge always has a
record; a quote's state agrees with its attempts; an entitlement rests on the buyer's own transfer;
evidence that may have been paid for is never deleted; a report is captured once and what a caller
was told stays true; an answer describes one publication, which can be rebuilt from its bundle for
ever; a capture that verifies is of one block, a recorded book is the live book; a live grant is
used once, and a sealed result says no more than its evidence; escrow is spent only as its owner signed; the keeper never gives up a policy
that can still run. The hazards in `PROJECT.json` name the lines where these could go wrong.

## Modules

### The sale

* `Ledger` is the database: one variable per table column that a property tells apart, and one
  operator per method of the `Ledger` class. A method is a single transaction, so it is a single
  step. The transition trigger (`QuoteMoves`), the partial unique index on active attempts
  (`ActiveAttempt`) and the nonce index of merchant mode (`NonceSpent`) are separate definitions.
  Time is abstract: a quote has an `age` (fresh, expired, past the cleanup grace), an authorization
  may lapse, a retention may end, a grant may expire, each in a step of its own.
* `Chain` is everything outside: settle calls reaching the facilitator, transactions that are
  broadcast, final, reverted or reorganised, and what `confirmation`, `revalidate` and
  `bindsTransfer` may answer about them. It is a library of answers as the code in `src/` uses
  them; the node itself is external.
* `Gateway` runs `Gateway.read`, `Gateway.recover` and `reconcileOne` as processes with a program
  counter, one step per await (the evidence is read before the submission and again before the delivery is
  recorded, each in a step of its own), beside the workers that run in one transaction, crashes, the clock
  and a volume that may be damaged. `pc` is the await, `att` the attempt row it read, `tx` and
  `blk` the transaction and block it learned.
* `Sale` is the abstract specification of what a buyer may rely on: a sale is open, committed,
  paid, disputed, withdrawn or closed; an authorization is spent once and settled only after it was
  spent; deliveries happen only while paid; a closed sale never took a payment.
* `GatewaySale` states the properties and the refinement mapping under which `Gateway` implements
  `Sale`. A quote in `PAYMENT_PENDING` maps to open until its attempt is `SUBMITTING`.
* `GatewayProofs` (types, rows and calls in progress) and `SaleProofs` (transfers, budget, the
  refinement) hold the proofs, the second resting on the first; `MCGateway` the instances for TLC.

### The builds

* `BuildQueue` is `report_requests`: creation under an idempotency key and a rate budget, polling,
  the claim with its lease and its limit, publication and rejection.
* `ReportService` is the Python service: its request threads, the set of active reports, captures
  of the market, and the report directories.
* `Builds` composes them with the build slots of the gateway replicas (`buildOne`, one step per
  await) and with restarts on both sides. `BuildsProofs` holds the proofs, `MCBuilds` is its instance.

### Reports on disk

* `SealedInput` is data: what a capture seals (`capture_members`, `trove_members`), the checks of
  `_inspect` in the order of the code (a table of condition and error code, of which the first hit
  counts), what a report says, and `rebuild`, the verification of a stored bundle. A package is the
  set of its members and the few facts about its sources that a check tells apart.
* `CaptureService` serves one request at a time and renames the staged package into place. A crash
  drops the request and the listen queue.
* `ArtifactStore` is the artifact volume, one step per change another process can see: the `flock`
  of a report, the rename of a staged directory, and the three removals of a delete.
* `Reports` composes them with the threads of several report service processes: `do_POST` from the
  check of `active` through the unlocked read (names, bundle, `report.json`), the capture, the build
  and the publication to the answer; `do_DELETE`; the retention worker that asks again until it is
  told 200; and crashes, after which a process may come back in another source mode. `ReportsProofs` holds the proofs, `MCReports`
  is its instance. `Builds` asks what the gateway sees of this service; `Reports` asks what happens
  inside it, so the two are separate compositions.

### What reports rest on

* `LighterBooks` has the two readers of the order book: the live reducer, a map from price to size
  that is sorted when asked, and the reconstruction of a frozen package, which keeps the order of the
  frames and gives up a book that is no longer sorted. Frames may come in any order, any number of times, or never.
  `sweep_depth` fills a quantity from a reconstructed book. Sorting is stated by the k-th smallest price
  (`Nth`) and removal by the k-th index that is kept (`Without`), so that both can be reasoned about.
* `MezoCapture` has the trove and DEX captures: phases of read calls at one block number, cut into
  requests that are in flight together, each answered from the chain as it is then; the second read
  of the header; and what `_verify` and `verify_capture` make of the answers. The node and the
  contracts are external. `Visit` is one turn of the loop over the sorted list, with the rank and the
  sums it carries, and `Walk` a recursive function over the turns: there are at most as many as
  owners, since each adds one to those seen. `gone` remembers the blocks the node left while the
  capture ran.
* `Analysis` puts the two side by side (they share no state), `MCAnalysis` is its instance and
  `AnalysisProofs` holds the proofs, with `FoldLemmas` for folds and sums.

### Acceptance

* `LiveGrants`: when a grant bundle is acceptable, the journal in which a grant is spent by creating
  its marker exclusively, and `execute_public_read` step by step (authorize, resolve, consume,
  request). A bundle is the commit it names, its expiry and whether its other bindings are the
  canonical ones.
* `P3Operator`: the operator process that spends a payment grant, hands the payment to the facilitator
  and afterwards only confirms. The compiled `p3-operator.ts` and the Python class differ in two checks
  and in what they do when they lose the race or settle raises; `impl` says which one runs.
* `Acceptance`: the runner. A run goes through the cases in order, appends a row and perhaps an
  evidence file for each (a file that fails `evidence_reference` is left without a reference), seals the directory, publishes the result and verifies it again. The
  thirty cases are abstracted to one of each kind (`A01` local, `A07` live read, `A29` never
  executed), with the two payment cases `A13` and `A14`, which are linked, as they are.
* `AcceptanceProofs` holds the proofs, `MCAcceptance` the instance.

### The Guard

* `Guard` is the contract. Every function that changes state holds the `nonReentrant` lock and a
  reverted transaction leaves no trace, so a function is one step and a revert is no step. The two
  balances and the two totals are one function of the asset each. A policy's deadline is the step
  `DeadlinePasses`; a signature is the nonce it was made over. Mezo is external: price, nonce and
  trove change by themselves.
* `GuardKeeper` adds the keeper: reading the head, applying logs in chunks (what `PolicyTracker.apply`
  leaves of a chunk is stated by the last log about each borrower), reading statuses at that head, simulating and sending `protect`. Other keepers are the contract's own permissionless
  `protect`, and so is a transaction of this keeper that is mined after the wait for its receipt
  gave up.
* `GuardProofs` holds the proofs of both, `MCGuard` and `MCKeeper` the instances.

## Runs

| Run | What it asks | Bounds |
| --- | --- | --- |
| `gateway_retry` | one quote, two authorizations, two processes that both serve and reconcile, the whole storage side: consistency of quote and attempts, single settlement, kept evidence, kept hashes, refinement of `Sale` | one inclusion per transaction, the reconciliation bound is reached at the first pass; processes and authorizations are symmetric |
| `gateway_replay` | one authorization presented for two quotes beside an honest one, and foreign transactions named in `recover`: one settlement, entitlements by the own transfer, and whatever was handed out was bought, once (`DeliveredWasBought`) | one process; constraint `PaymentsOnly` |
| `gateway_grant` | two handlers at the last submission of a v2 grant, with blocks that are reorganised and mined again | `MaxSubmissions` 1, two inclusions; constraint `PaymentsOnly` |
| `gateway_live` | liveness of one payment with one handler and one worker | two reconciliation passes |
| `gateway_late_block` | violation, see Findings | one payment |
| `gateway_rpc_failure` | violation, see Findings | one payment |
| `builds` | two keys, one of them asked for with two bodies, two replicas with a slot each, one service thread, one active build at a time, a rate budget of one per minute | every call is made once |
| `guard` | two borrowers, both kinds of policy, three prices around the trigger and MCR, troves that close and open | two policies armed, two signed operations per borrower |
| `keeper` | one borrower beside the keeper, with failing reads and transactions | two policies armed, one restart |
| `reports` | two processes (one with two threads) on one report directory, either empty or with a report published before, a market and a trove request, sources that are healthy, stale or incomplete | two POSTs, one process end, one tick of a clock in which a trove snapshot is stale after the first; two capture ids |
| `analysis` | two channels with snapshots and updates of up to two levels a side, sorted, unsorted, crossed and empty; troves of four forks (a list of three, of two, one longer than the traversal limit, one below the minimum ratio); pools with reserves from none to six and fees from none to the whole | four prices, sizes to two, quantities to four; `Batch` 4 so that a phase needs several requests, `Word` 60 so that products overflow, `Basis` 10; the node leaves at most two blocks during a capture, so that it may return |
| `acceptance` | two runs, one with any of four command lines and one with any of three, on one checkout and journal, or two plain public reads, with either operator | two commits, one change of the checkout, a clock of three instants at which a bundle is too far ahead, valid and expired; `MaxSubmissions` 2, so that a second settlement could happen |

Two attempts are enough for every race over a quote (the index admits one live attempt, so a third
only repeats the second), and two processes for every race over a row. The constraint
`PaymentsOnly` keeps the clock from reaching cleanup and the volume from being damaged in the runs
with two quotes; `gateway_retry` explores exactly that side without a constraint. In `guard`, the
prices give an ICR at the trigger (120), below it and repairable (100, where adding one unit gives
exactly MCR), and below it and not repairable (90); the minimum net debt allows one repayment and
refuses the second. The keeper's order of urgency does not matter to any property and is not
exercised by one borrower. `builds`, `reports`, `analysis` and `acceptance` may stop: callers call a
bounded number of times and a run ends.

In `reports`, two processes and three threads cover a reader, a deleter and a publisher at once; a
second report id would only repeat the first, because nothing is shared between ids but the capture
queue. In `analysis` a frame set closed under repetition and reordering makes the books explore
every sequence of frames. In `acceptance` the two runs race for both grants, and a run that follows
a dead one is the second run started late.

## Fairness

* `gateway_live`: the scheduler calls its workers for ever and `reconcileOne` takes the attempt that
  waited longest, so each attempt's reconciliation is strongly fair; awaits have timeouts; crashes
  may go on for ever but do not hit the same step each time; the report service does not refuse the
  same deletion for ever. Nothing is assumed of buyers or of the chain.
* `builds`: every slot is scheduled each 500 ms and its awaits end by timeouts, callers poll, leases
  run out. The report service owes nothing.
* `keeper`: `main()` ticks for ever; neither the reads, nor the simulation of a borrower, nor the
  mining of its transaction fails every time. Borrowers, Mezo and other keepers owe nothing.
* `reports`: a thread that is running goes on (weak fairness of `Work`), and the retention worker, which
  the scheduler calls every 30 seconds, asks for a deletion until it is told 200 (weak fairness of
  `Delete`). The capture service and the callers owe nothing.

## What is proved

TLAPS checks, for any sets of quotes, attempts, authorizations, processes, borrowers and policies:

* `TypeCorrect`: the gateway's type invariant. It needs the shape of a call in progress (`TInv`):
  whoever is past its first await has an attempt, and whoever confirms has a transaction and a
  block.
* `SettledOnce`, `ChargesRecorded`, `QuotesFollow`, `EvidenceRetained`. The inductive invariant has
  two parts. `CallsInv` is about calls in progress: past `markSubmitting` the attempt is submitted
  and stays so, at most one call stands before `settle` and no settle was made yet, and no two
  submitted attempts share an authorization (by the nonce index in merchant mode, by the grant's
  reservations otherwise). `TablesInv` is about rows: a live attempt determines its quote's state,
  entitlements belong to submitted attempts, and removed evidence belongs to expired quotes. Neither
  part is inductive alone: that `settle` is called once needs the rows, and that the rows agree needs
  what the calls in progress will still write.
* `EntitlementBacked`, `HashKept`, `BudgetKept`, `DeliveriesBought`, from the same invariant and three more
  parts: `TransferInv` (a call about to commit saw a transfer with its attempt's authorization; a chain
  event is backed by one and belongs to one attempt), `Budget` (the grant's limits, stated of the
  reservations, which every attempt handed over has) and `DeliveryInv` (a transfer on the chain was
  handed to the facilitator, and what was delivered stays entitled, paid or under review). `SaleImplemented` shows the refinement: initial states map to
  initial states, and each action maps to a step of `Sale` or leaves the mapped state alone.
* `BuildTypes`, `SlotsKept`, `SnapshotOnce`, `AnswersStay` for the builds. That a report is captured once is
  not inductive: a lapsed lease is closed and never claimed again, so a request is claimed by one slot,
  posted once, to one thread, which captures once (`ClaimedOnce`, `PostedOnce`, `CapturedOnce`); this in
  turn needs that a busy slot or thread has its report (`SlotsBusy`, `ThreadsBusy`), that only a request
  being prepared has a lease (`LeaseHeld`), and that an answer has its row (`AnswersHaveRow`).
* `AnsweredOnePublication`, `StoreVerifies`, `ChangesExclude` for the reports. `ThreadOK` says, step by step of
  `do_POST` and `do_DELETE`, whether the thread holds the flock and what it has in hand: a report built
  for this request, id and source mode, and a staged directory that verifies. `StoreVerified` says the
  same of the volume. A stored bundle verifies at any clock because `rebuild` takes the time from the
  bundle (`AnyClock`).
* `GuardTypes`, `ReservationsBacked`, `ReadySigned`, `SpentAsSigned` for the contract, from types, backed
  reservations and the fact that a policy's signature was made over the recorded nonce
  (`PolicySound`). Without the backing of reservations the balances would not stay natural numbers,
  so the type invariant is not inductive alone.
* `EscrowIsCovered`: the totals are the sums over the users. The sum is a fold over a set, so its two laws
  (`SumZero`, `SumUpdated`) are proved by induction over the subsets of `Users`. The library's induction
  theorems cannot be instantiated by the installed provers; `FoldLemmas` states induction with a set in
  place of the predicate (`EveryNat`, `UpTo`, `EverySubset`), which is first-order, and proves it from the
  well-foundedness of the natural numbers.
* `KeeperTypes`, `TrackerTells`, `MarksAreFinal` for the keeper beside the contract. The invariant relates
  the tracker to the logs already applied (`Applied`), the logs to the policies (`EventsTell`), the
  head a tick works at to the chain (`WithinHead`), nonces to policies (`NonceReached`), and says of a
  status read at an older head that a final one is final now, or that a later log is about the borrower
  (`SnapFinal`, `MarkFinal`): without it a mark set after the read could hide a policy armed meanwhile.
* `RecordedIsLive` and `SweepIsBestFill` for the order books. The invariant (`Agree`, `Rep`) is about a book
  that is still vouched for, sorted or not: its levels have distinct prices, positive sizes, and stand
  for exactly the reducer's map. It is kept by one delta (`RepDelta`: replaced in place, removed,
  appended, against an assignment to the map), hence by a list of them, by induction over its prefixes
  (`FoldFollows`). A list that stands for a map and is in order is the map's sorted snapshot
  (`AsksSorted`, `BidsSorted`): this is why giving up an unsorted book is enough. `SweepIsBest` is the
  exchange argument (`GreedyLeast`): after each level the sweep has taken at least as much as any other
  fill, and what it overpaid is at most the excess at the worst price so far; selling is the same with
  negated prices. The sweep is itself one of the fills (`SweepFills`).
* `QuoteIsLeast` and `PositionOfOneBlock` for the captures, for any pools, lists of troves, quantities,
  batch size and course of reorganisations. The inductive invariant (`CaptureInv`) says that the node
  still has the block of the header or it is in `gone`; and as long as it is not, every answer is that
  block's (`Honest`) and every call that the phases so far owe the verifier is answered or in flight
  (`Pursued`). The calls owed (`Due`) are stated by the contracts' state at the block and not by the
  answers, although each phase asks according to the answers of the one before: `OwnersKeeps` and
  `NodesKeeps` show the two agree, and `Covers` that the deduplication and the cutting into requests
  lose no call. `SameBlock` then gives, for a verified capture, that the block was never left, or left
  and returned to. For the DEX, `LessIsTooLittle` inverts the two roundings of the pool. For the troves,
  `VisitStep` follows the walk down the list: before place k it holds the number and the debts of the
  redeemable troves behind k (`Stands`), sums that grow by one element (`SumAdded`); `WalkEnds` says that
  a walk that succeeds reached the first trove, and the result is then compared with the definition
  read off the state at once (`Truth`).
* `SettledOnceByOperators`, `GrantsSpentOnce`, `PendingSpent`, `SealedBacked` and the types of the
  acceptance runner (`AcceptanceTypes`), for any runs, readers, commits, bundles and command lines. The
  inductive invariant has three parts beside the types. `Handover`: a process between the consumption
  of the grant and the record of the answer is alone there, and the attempt is still fresh; a row read
  later names the attempt's transaction or none; a confirmed attempt rests on a buried transfer. It is
  needed because `submissions <= 1` says nothing of a process that is about to settle. `Spending`:
  whoever stands before the use of a grant created its marker and is alone there. `Filed`: what a row's
  status requires of its evidence file and of the attempt, from the moment it is appended, since
  sealing checks only part of it again; and an observation still held is about a consumed attempt,
  which the late filing of A14 needs.

Assumptions are named in the modules that declare the constants (`NullAssumption`,
`GuardAssumption` and so on): sets of the right kind, `NULL` distinct from data and from threads,
positive debt and gas compensation, natural bounds, a finite set of users (`UsersFinite`), and frames
whose levels are pairs of a positive price and a size (`LevelAssumption`, `FrameAssumption`), which the
decoders of both readers enforce. For the captures: reserves, fees, collateral, debts and prices are
natural numbers and the quantities asked for positive (`MezoAssumption`), and the contract's sorted list
has every owner once and never the zero address (`TroveAssumption`), which is what a doubly linked list
keyed by address with zero as its end can hold. Nothing is assumed of the array of owners: that it
agrees with the list is what the verification checks. TLC evaluates the assumptions in the runs.

Only model-checked are the liveness properties (`AttemptsResolve`, `UnsoldEvidenceRemoved`,
`RequestsResolve`, `RemnantGoes`, `Protects`): fairness and `ENABLED` are out of the prover's reach. Every
invariant, action property and refinement of the passing runs is a theorem.

## Findings

1. A payment submitted in time and mined after the quote's expiry is confirmed and then never
   deliverable: revalidation passes the recorded block, the expiry check then applies and throws
   `PAYMENT_REJECTED`, which `Gateway.read` catches, and every read answers `PAYMENT_UNCERTAIN` 202
   (`gateway_late_block`).
2. One failed chain-id call during a paid read withdraws the entitlement for ever
   (`gateway_rpc_failure`).

Observed while modelling, without a run of its own:

* `checker()` of the Guard is true for a policy whose `protect()` reverts when the amount does not move
  the integer ICR (`LiqveraGuard.sol:309`); the keeper simulates first, so nothing is spent.
* A public read of a host with several addresses can never produce valid evidence: the connected
  address alone is compared with the whole resolution, after the grant was spent
  (`public_read.py:300`).
* An A07 grant that expires while earlier cases run ends the whole run without a result
  (`runner.py:1139`), and a failing A14 may file the observation of A13 (`runner.py:1289`);
  `PendingIsSpent` shows what that row still means: the ledger holds the grant's attempt as submitted.
  It does not mean that settle was called, since an operator may be killed between the two
  (`p3-operator.ts:102`).
* The captures compare the header before and after. If the chain leaves the block and returns to it
  during one capture, answers of the other block pass that comparison; a trove list or a pool quote
  that is inconsistent is then still refused, but consistent answers of the other block are not. Both
  properties of the captures therefore exclude it (`Returned`), and `analysis` reaches it.
* A report published after the gateway gave up on it is selected by no cleanup, which starts from
  quotes.

## Abstractions

Staging directories and lock files that a crash leaves behind are never read again and are not
state; capture ids are fresh; the rename of a capture and its reply are one step, since a capture
whose reply is lost is never read. `Reports` does not tell error codes apart, only success from
refusal; so does `ReportService`, where a stored report may be refused for any reason. In `Gateway`, the
checks that precede an attempt are one step with the load of the quote: none of them can fail once and
pass later, so all those that passed held when it was loaded. The VERIFIED row that the P3 operator's
`beginAttempt` inserts is per payment and no operator looks it up; it is the operator's place
(`submit`), and that it refuses a second attempt is a failure that `VerifyFails` always allows. The
Guard's signatures are nonces. Amounts, prices and sizes are small integers;
`amm_amount_out` and the ICR keep the code's integer divisions and overflow bounds.

## Not modelled, and why

HTTP routing, schemas, headers, configuration, ABI tables and constants keep no state. Hashing,
canonical JSON, ZIP and report layout are data the properties do not tell apart. The audit outbox is
written and never read by the modelled code. Hints for sorted troves and the dry-run mode of the
keeper change no state. Chain reorganisations are modelled for payments and captures, but not for the
keeper's log cursor: Mezo's consensus finalises blocks, and the code has no handling of it. Forced BTC
transfers to the Guard are left out. Of the acceptance tools, plan file formats, preflight, resource
limits of child processes and `mezo_compatibility.py` (a list of independent probes) are left out; of
public capture, market discovery and host pinning; of the analyzer, the frozen package reader
(parsing and digests), identity checks and the rendering of a verdict.

## Plan

1. The browser's payment flow and session: one signature per quote over reloads, wallet events and
   answers that arrive late; the trove actions with their receipts. Against `Sale`.
2. The migration lock, and the gateway's start against it.
