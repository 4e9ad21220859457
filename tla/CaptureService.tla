--------------------------- MODULE CaptureService ---------------------------
(* The capture service: one request at a time on the main thread, the rest   *)
(* in the listen queue, and the directory of sealed captures.  A capture id  *)
(* is a fresh uuid4, so neither its lock file nor its directory can be there *)
(* already, and what a crash leaves of them is never read.                   *)
EXTENDS SealedInput, Sequences

VARIABLES
  mode,      \* LIQVERA_SOURCE_MODE of the capture service
  backlog,   \* connections not yet accepted: [id, product, for]
  serving,   \* the request under way and the package fetched for it
  captures   \* capture_root: the sealed package of an id, or NULL

captureVars == << mode, backlog, serving, captures >>

Resting == [request |-> NULL, package |-> NULL]

CaptureInit(m) ==
  /\ mode = m
  /\ backlog = << >> /\ serving = Resting
  /\ captures = [c \in Captures |-> NULL]

(* do_POST reads the request; capture_package takes the lock of the id.      *)
AcceptCapture ==
  /\ serving = Resting /\ backlog # << >>
  /\ serving' = [Resting EXCEPT !.request = Head(backlog)]
  /\ backlog' = Tail(backlog)
  /\ UNCHANGED << mode, captures >>

Fetching == serving.request # NULL /\ serving.package = NULL

(* A trove or DEX capture needs the live mode; Mezo is asked first, then the *)
(* two public requests under the 12 second alarm.  What a trove capture      *)
(* holds is raw calls at one block, a market capture the two responses.      *)
NeedsLive == serving.request.product # "market" /\ mode = "fixture"

Answers == IF mode = "fixture" \/ serving.request.product = "trove" THEN {Healthy} ELSE Feeds

Fetch(clock) ==
  LET q == serving.request IN
  /\ Fetching /\ ~NeedsLive
  /\ \E f \in Answers :
       /\ Sealable(mode, f)
       /\ serving' = [serving EXCEPT
            !.package = IF q.product = "trove" THEN trove_members(q.id, q.for, clock)
                        ELSE capture_members(q.id, mode, f, q.for, clock)]
  /\ UNCHANGED << mode, backlog, captures >>

(* Any failure removes the staging directory and the lock, and is answered   *)
(* with an error; a fixture capture has none to meet.                        *)
FetchFails ==
  /\ Fetching
  /\ NeedsLive \/ mode = "live-public"
  /\ serving' = Resting
  /\ UNCHANGED << mode, backlog, captures >>

(* The staged directory is renamed and the caller answered 201.              *)
PublishCapture ==
  /\ serving.package # NULL
  /\ captures' = [captures EXCEPT ![serving.request.id] = serving.package]
  /\ serving' = Resting
  /\ UNCHANGED << mode, backlog >>

(* A crash drops the request and the queue; the container is started again.  *)
CaptureCrash ==
  /\ backlog' = << >> /\ serving' = Resting
  /\ UNCHANGED << mode, captures >>

CaptureStep(clock) == AcceptCapture \/ FetchFails \/ Fetch(clock) \/ PublishCapture
=============================================================================
