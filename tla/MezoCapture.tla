----------------------------- MODULE MezoCapture ----------------------------
(* The captures of Mezo state: read calls at one block number, answered by a *)
(* node whose chain may be reorganised between them, and what the verifiers  *)
(* make of the answers.  A call is a tuple: its name and its arguments.      *)
EXTENDS Integers, FiniteSetsExt, SequencesExt, TLC

CONSTANTS Forks,        \* blocks with the number of the capture, by their hash
          Zero,         \* the zero address
          Borrowers,    \* the owners asked about
          Troves,       \* fork -> the state of the trove contracts
          MCR, Gas,     \* constants of the trove contract
          Pools,        \* the pools there may be: functions from forks
          Quantities,   \* quantities asked for
          Basis,        \* 10 000: basis points
          Word,         \* 2^256
          QUEUE_LIMIT,  \* 500: the longest list that is walked
          Batch,        \* 64: calls in one request to the node
          MaxReorgs     \* the number of blocks the node may leave during one capture

ASSUME MezoAssumption ==
  /\ {Basis, Word, Batch} \subseteq Nat \ {0} /\ {QUEUE_LIMIT, MCR, Gas} \subseteq Nat
  /\ Quantities \subseteq Nat \ {0}
  /\ Pools \subseteq [Forks -> [musd : Nat, btc : Nat, fee : Nat]]

(* The sorted list of the troves has every owner once.                       *)
ASSUME TroveAssumption ==
  \A f \in Forks :
    LET t == Troves[f] IN
    /\ {t.debt, t.coll} \subseteq [DOMAIN t.debt -> Nat] /\ t.price \in Nat
    /\ t.list \in Seq(DOMAIN t.debt)
    /\ \A i, j \in DOMAIN t.list : t.list[i] = t.list[j] => i = j
    /\ \A i \in DOMAIN t.list : t.list[i] # Zero

VARIABLES
  fork,     \* the block the node has at the number now
  pool,     \* fork -> reserves and fee
  gone,     \* the blocks the node had there and left while the capture ran
  capture,  \* the capture under way: phase, request, header, requests in flight, answers
  verdict   \* "pending", "invalid" or "verified"

mezoVars == << fork, pool, gone, capture, verdict >>

MezoInit ==
  /\ fork \in Forks /\ pool \in Pools /\ gone = {}
  /\ capture = [phase |-> "none"] /\ verdict = "pending"

Reorg ==
  /\ Cardinality(gone) < MaxReorgs /\ capture.phase # "none" /\ verdict = "pending"
  /\ fork' \in Forks \ {fork}
  /\ gone' = gone \cup {fork}
  /\ UNCHANGED << pool, capture, verdict >>

-----------------------------------------------------------------------------
(* Arithmetic of the contracts, of calculation.py and of mezo_dex.py *)

_icr(coll, debt, price) == IF debt = 0 THEN Word - 1 ELSE (coll * price) \div debt

Net(amount, fee) == amount - (amount * fee) \div Basis

Overflows(amount, in, out, fee) ==
  \/ amount * fee >= Word
  \/ Net(amount, fee) * out >= Word
  \/ in + Net(amount, fee) >= Word

amm_amount_out(amount, in, out, fee) ==
  (Net(amount, fee) * out) \div (in + Net(amount, fee))

(* The least input whose quote reaches the quantity: both roundings of the   *)
(* pool inverted.  The capture and the report each have their own copy.      *)
LeastInput(quantity, in, out, fee) ==
  LET net == (quantity * in + (out - quantity) - 1) \div (out - quantity)
  IN ((net - 1) * Basis) \div (Basis - fee) + 1

Mut__buy_input(quantity, in, out, fee) ==
  LET net == (quantity * in + (out - quantity) - 1) \div (out - quantity)
  IN (net * Basis) \div (Basis - fee) + 1

_buy_input(quantity, in, out, fee) == LeastInput(quantity, in, out, fee)

-----------------------------------------------------------------------------
(* The node.  The list runs from first to last; a trove is active when its   *)
(* owner is in it.                                                           *)

Place(t, o) == CHOOSE i \in DOMAIN t.list : t.list[i] = o
Listed(t, o) == \E i \in DOMAIN t.list : t.list[i] = o
At(t, i) == IF i \in DOMAIN t.list THEN t.list[i] ELSE Zero
Total(t, f) == MapThenSumSet(LAMBDA o : f[o], {t.list[i] : i \in DOMAIN t.list})

Reverts(f, q) ==
  \/ q[1] = "owner" /\ q[2] \notin DOMAIN Troves[f].array
  \/ q[1] \in {"pool_quote", "router_quote"}
     /\ LET p == pool[f] IN \/ Overflows(q[2], p[q[3]], p[q[4]], p.fee)
                            \/ p[q[3]] + Net(q[2], p.fee) = 0

Answer(f, q) ==
  LET t == Troves[f]
      p == pool[f]
  IN CASE q[1] = "price" -> t.price
       [] q[1] = "size" -> Len(t.list)
       [] q[1] = "count" -> Len(t.array)
       [] q[1] = "first" -> At(t, 1)
       [] q[1] = "last" -> At(t, Len(t.list))
       [] q[1] = "totals" -> << Total(t, t.coll), Total(t, t.debt) >>
       [] q[1] = "owner" -> t.array[q[2]]
       [] q[1] = "tcr" -> _icr(Total(t, t.coll), Total(t, t.debt), q[2])
       [] q[1] = "trove" -> << t.coll[q[2]], t.debt[q[2]] >>
       [] q[1] = "active" -> Listed(t, q[2])
       [] q[1] = "icr" -> _icr(t.coll[q[2]], t.debt[q[2]], q[3])
       [] q[1] = "prev" -> IF Listed(t, q[2]) THEN At(t, Place(t, q[2]) - 1) ELSE Zero
       [] q[1] = "next" -> IF Listed(t, q[2]) THEN At(t, Place(t, q[2]) + 1) ELSE Zero
       [] q[1] = "reserves" -> << p.musd, p.btc >>
       [] q[1] = "fee" -> p.fee
       [] OTHER -> amm_amount_out(q[2], p[q[3]], p[q[4]], p.fee)

-----------------------------------------------------------------------------
(* collect: the calls not answered yet, each once, cut into requests that    *)
(* are in flight together.                                                   *)

Requested(calls) ==
  LET missing == {i \in DOMAIN calls : /\ calls[i] \notin DOMAIN capture.answers
                                       /\ \A j \in 1..(i - 1) : calls[j] # calls[i]}
      batch(i) == Cardinality({j \in missing : j < i}) \div Batch
  IN {{calls[j] : j \in {l \in missing : batch(l) = batch(i)}} : i \in missing}

Enter(phase, calls) ==
  /\ capture' = [capture EXCEPT !.phase = phase, !.flight = Requested(calls)]
  /\ UNCHANGED << fork, pool, gone, verdict >>

(* A request is answered from the chain as it is then; a call that reverts,  *)
(* or a transport that fails or is late, ends the capture.                   *)
Respond ==
  /\ capture.phase # "none" /\ verdict = "pending"
  /\ \E r \in capture.flight :
       \/ /\ \A q \in r : ~Reverts(fork, q)
          /\ capture' = [capture EXCEPT !.flight = @ \ {r},
                            !.answers = [q \in r \cup DOMAIN @ |->
                                           IF q \in r THEN Answer(fork, q) ELSE @[q]]]
          /\ UNCHANGED verdict
       \/ verdict' = "invalid" /\ UNCHANGED capture
  /\ UNCHANGED << fork, pool, gone >>

Begin(for) ==
  /\ capture.phase = "none"
  /\ capture' = [phase |-> "header", for |-> for, hash |-> fork, flight |-> {},
                 answers |-> << >>]
  /\ UNCHANGED << fork, pool, gone, verdict >>

-----------------------------------------------------------------------------
(* capture_trove *)

A(q) == capture.answers[q]
Walked == A(<<"size">>) <= QUEUE_LIMIT
Size == IF Walked THEN A(<<"size">>) ELSE 0
OwnerAt(i) == A(<<"owner", i>>)
Owners == {OwnerAt(i) : i \in 1..Size}
TroveCalls(o) == << <<"trove", o>>, <<"active", o>>, <<"icr", o, A(<<"price">>)>> >>
NodeCalls(o) == << <<"prev", o>>, <<"next", o>> >> \o TroveCalls(o)

TrovePhase ==
  \/ /\ capture.phase = "header"
     /\ Enter("system", << <<"price">>, <<"count">>, <<"totals">>, <<"size">>, <<"last">>, <<"first">> >>)
  \/ /\ capture.phase = "system"
     /\ Enter("owners", [i \in 1..Size |-> <<"owner", i>>]
                        \o << <<"tcr", A(<<"price">>)>> >> \o TroveCalls(capture.for.borrower))
  \/ /\ capture.phase = "owners"
     /\ Enter("nodes", [k \in 1..(5 * Size) |->
                          NodeCalls(OwnerAt(((k - 1) \div 5) + 1))[((k - 1) % 5) + 1]])

(* _verify *)

Icr(o) == A(<<"icr", o, A(<<"price">>)>>)
Debt(o) == A(<<"trove", o>>)[2]

Fits(coll, debt) == debt = 0 \/ coll * A(<<"price">>) < Word

TroveValid(o) ==
  /\ Fits(A(<<"trove", o>>)[1], Debt(o))
  /\ Icr(o) = _icr(A(<<"trove", o>>)[1], Debt(o), A(<<"price">>))
  /\ A(<<"active", o>>) => Debt(o) >= Gas

(* The result: the rank, and the debt ahead among redeemable troves with and *)
(* without their liquidation reserve.                                        *)
Bare(status) == [status |-> status, position |-> 0, ahead |-> 0, net |-> 0]

Start ==
  [ok |-> TRUE, current |-> A(<<"last">>), previous |-> Zero, seen |-> {},
   rank |-> 0, debt |-> 0, net |-> 0,
   found |-> Bare(IF A(<<"active", capture.for.borrower>>) THEN "TRAVERSAL_LIMIT"
                  ELSE "NOT_ACTIVE")]

(* One turn of the walk from last to first: a node not seen before, an       *)
(* owner, active, and linked back to the one before it.                      *)
Visit(w) ==
  LET o == w.current
      redeemable == Icr(o) >= MCR
  IN IF ~w.ok \/ o = Zero THEN w
     ELSE IF \/ o \notin Owners \/ o \in w.seen \/ A(<<"next", o>>) # w.previous
             \/ ~TroveValid(o) \/ ~A(<<"active", o>>)
     THEN [w EXCEPT !.ok = FALSE]
     ELSE [ok |-> TRUE, current |-> A(<<"prev", o>>), previous |-> o, seen |-> w.seen \cup {o},
           rank |-> IF redeemable THEN w.rank + 1 ELSE w.rank,
           debt |-> IF redeemable THEN w.debt + Debt(o) ELSE w.debt,
           net |-> IF redeemable THEN w.net + (Debt(o) - Gas) ELSE w.net,
           found |-> IF redeemable /\ o = capture.for.borrower
                     THEN [status |-> "PROVEN", position |-> w.rank + 1,
                           ahead |-> w.debt, net |-> w.net]
                     ELSE w.found]

(* A turn adds an owner to those seen, so there are at most so many.         *)
Walk ==
  LET turn[k \in 0..(Size + 1)] == IF k = 0 THEN Start ELSE Visit(turn[k - 1])
  IN turn[Size + 1]

SystemValid ==
  /\ A(<<"price">>) > 0 /\ A(<<"size">>) = A(<<"count">>)
  /\ Fits(A(<<"totals">>)[1], A(<<"totals">>)[2])
  /\ A(<<"tcr", A(<<"price">>)>>) = _icr(A(<<"totals">>)[1], A(<<"totals">>)[2], A(<<"price">>))
  /\ IF A(<<"size">>) = 0 THEN A(<<"first">>) = Zero /\ A(<<"last">>) = Zero
     ELSE A(<<"first">>) # Zero /\ A(<<"last">>) # Zero
  /\ TroveValid(capture.for.borrower)

ListValid ==
  LET b == capture.for.borrower
  IN /\ Cardinality(Owners) = Size /\ Zero \notin Owners
     /\ (b \in Owners) <=> A(<<"active", b>>)
     /\ Walk.ok /\ Walk.seen = Owners /\ Walk.previous = A(<<"first">>)

_verify == SystemValid /\ (Walked => ListValid)

Result ==
  LET b == capture.for.borrower
      active == A(<<"active", b>>)
  IN IF ~Walked THEN Start.found
     ELSE IF A(<<"tcr", A(<<"price">>)>>) < MCR THEN Bare("SYSTEM_PAUSED")
     ELSE IF active /\ Icr(b) < MCR THEN Bare("BELOW_MCR")
     ELSE Walk.found

-----------------------------------------------------------------------------
(* capture_dex: one call at a time *)

In == IF capture.for.side = "SELL" THEN "btc" ELSE "musd"
Out == IF capture.for.side = "SELL" THEN "musd" ELSE "btc"
Reserve(c) == IF c = "musd" THEN A(<<"reserves">>)[1] ELSE A(<<"reserves">>)[2]

Buyable ==
  capture.for.side = "BUY" =>
    capture.for.quantity < Reserve("btc") /\ Reserve("musd") > 0 /\ A(<<"fee">>) < Basis

Amount ==
  IF capture.for.side = "SELL" THEN capture.for.quantity
  ELSE _buy_input(capture.for.quantity, Reserve("musd"), Reserve("btc"), A(<<"fee">>))

Quote(name) == <<name, Amount, In, Out>>

DexPhase ==
  \/ capture.phase = "header" /\ Enter("reserves", << <<"reserves">> >>)
  \/ capture.phase = "reserves" /\ Enter("fee", << <<"fee">> >>)
  \/ capture.phase = "fee" /\ Enter("pool", << Quote("pool_quote") >>)
  \/ capture.phase = "pool" /\ Enter("router", << Quote("router_quote") >>)

(* decode_probe and verify_capture *)
verify_capture ==
  LET expected == amm_amount_out(Amount, Reserve(In), Reserve(Out), A(<<"fee">>)) IN
  /\ Reserve("musd") > 0 /\ Reserve("btc") > 0 /\ A(<<"fee">>) < Basis /\ Buyable
  /\ ~Overflows(Amount, Reserve(In), Reserve(Out), A(<<"fee">>))
  /\ A(Quote("pool_quote")) = expected /\ A(Quote("router_quote")) = expected
  /\ capture.for.side = "BUY" => expected >= capture.for.quantity

-----------------------------------------------------------------------------
IsTrove == capture.for.product = "trove"
Collected == capture.flight = {} /\ capture.phase = IF IsTrove THEN "nodes" ELSE "router"

(* A check that fails before the last call ends the capture as well.         *)
Proceed ==
  CASE capture.phase = "system" -> A(<<"price">>) > 0 /\ A(<<"size">>) = A(<<"count">>)
    [] capture.phase = "owners" -> Zero \notin Owners
    [] capture.phase = "fee" -> Buyable
    [] OTHER -> TRUE

Refuse ==
  /\ capture.phase # "none" /\ verdict = "pending"
  /\ capture.flight = {} /\ ~Proceed
  /\ verdict' = "invalid"
  /\ UNCHANGED << fork, pool, gone, capture >>

(* The header is read again: the block must still be the one it was.         *)
Mut_SameBlock == TRUE

SameBlock == fork = capture.hash

Verify ==
  /\ capture.phase # "none" /\ verdict = "pending" /\ Collected
  /\ verdict' = IF SameBlock /\ (IF IsTrove THEN _verify ELSE verify_capture)
                THEN "verified" ELSE "invalid"
  /\ UNCHANGED << fork, pool, gone, capture >>

BeginTrove == \E b \in Borrowers : Begin([product |-> "trove", borrower |-> b])
BeginDex ==
  \E s \in {"BUY", "SELL"}, q \in Quantities : Begin([product |-> "dex", side |-> s, quantity |-> q])

Collect ==
  /\ capture.phase # "none" /\ verdict = "pending" /\ capture.flight = {} /\ Proceed
  /\ IF IsTrove THEN TrovePhase ELSE DexPhase

-----------------------------------------------------------------------------
(* The node left the block of the capture and has it again.                  *)
Returned == capture.hash \in gone /\ fork = capture.hash

(* What the contracts hold at a block, read off their state at once.         *)
Truth(f, b) ==
  LET t == Troves[f]
      eligible == {i \in DOMAIN t.list : _icr(t.coll[t.list[i]], t.debt[t.list[i]], t.price) >= MCR}
      behind == {i \in eligible : i > Place(t, b)}
      sum(v) == SumFunctionOnSet([i \in DOMAIN t.list |-> v[t.list[i]]], behind)
  IN IF Len(t.list) > QUEUE_LIMIT
     THEN Bare(IF Listed(t, b) THEN "TRAVERSAL_LIMIT" ELSE "NOT_ACTIVE")
     ELSE IF _icr(Total(t, t.coll), Total(t, t.debt), t.price) < MCR THEN Bare("SYSTEM_PAUSED")
     ELSE IF ~Listed(t, b) THEN Bare("NOT_ACTIVE")
     ELSE IF Place(t, b) \notin eligible THEN Bare("BELOW_MCR")
     ELSE [status |-> "PROVEN", position |-> Cardinality(behind) + 1,
           ahead |-> sum(t.debt), net |-> sum([o \in DOMAIN t.debt |-> t.debt[o] - Gas])]

(* A trove capture that verifies tells the borrower's place in the queue and *)
(* the debt ahead of it as they are at the block it names, although its      *)
(* calls were answered one request after another while the chain could be    *)
(* reorganised, as long as the node did not leave that block and return.     *)
PositionIsOfOneBlock ==
  capture.phase # "none" /\ verdict = "verified" /\ ~Returned =>
    (IsTrove => Result = Truth(capture.hash, capture.for.borrower))

(* A DEX capture that verifies is the best the pool of its block offers: for *)
(* a purchase no smaller input buys the quantity, although the input is      *)
(* inverted through two roundings, and the quoted output is that pool's.     *)
DexQuoteIsLeast ==
  capture.phase # "none" /\ verdict = "verified" /\ ~Returned =>
    (~IsTrove =>
      LET p == pool[capture.hash]
          out(a) == amm_amount_out(a, p[In], p[Out], p.fee)
      IN /\ A(Quote("router_quote")) = out(Amount)
         /\ capture.for.side = "BUY" =>
              /\ out(Amount) >= capture.for.quantity
              /\ \A a \in 0..(Amount - 1) : out(a) < capture.for.quantity)
=============================================================================
