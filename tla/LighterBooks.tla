---------------------------- MODULE LighterBooks ----------------------------
(* Two readers of the same order book frames: the live reducer of the public *)
(* adapter, a map from price to size per side, and the reconstruction of a   *)
(* frozen package, the levels in the order the frames gave them.             *)
EXTENDS Integers, FiniteSetsExt, SequencesExt

CONSTANTS Channels, Prices, Sizes, NoBook,
          Frames,  \* the frames the venue may deliver, in any order and number
          MaxQty   \* the largest quantity swept

ASSUME LevelAssumption == /\ Prices \subseteq Nat \ {0} /\ Sizes \subseteq Nat /\ 0 \in Sizes
                          /\ MaxQty \in Nat

ASSUME FrameAssumption ==
  Frames \subseteq [type : {"subscribed/order_book", "update/order_book"}, channel : Channels,
                    begin_nonce : Nat, nonce : Nat,
                    bids : Seq(Prices \X Sizes), asks : Seq(Prices \X Sizes)]

VARIABLES
  live,     \* channel -> LighterBookReducer: bids, asks, nonce, unavailable
  epochs,   \* lighter_epochs: channel -> the book of the open epoch, or NoBook
  aborted   \* reconstruct_books raised: the package is invalid

bookVars == << live, epochs, aborted >>

NoLevels == [p \in Prices |-> 0]

BooksInit ==
  /\ live = [c \in Channels |-> [bids |-> NoLevels, asks |-> NoLevels, nonce |-> NoBook,
                                 unavailable |-> TRUE]]
  /\ epochs = [c \in Channels |-> NoBook]
  /\ aborted = FALSE

-----------------------------------------------------------------------------
(* OrderBookSnapshot.__post_init__, on levels << price, quantity >>          *)
Descending(levels) == \A i \in 1..(Len(levels) - 1) : levels[i][1] > levels[i + 1][1]
Ascending(levels) == \A i \in 1..(Len(levels) - 1) : levels[i][1] < levels[i + 1][1]
Positive(levels) == \A i \in DOMAIN levels : levels[i][2] > 0

Admitted(bids, asks) ==
  /\ bids # << >> /\ asks # << >>
  /\ Descending(bids) /\ Ascending(asks)
  /\ bids[1][1] < asks[1][1]

(* The live side: _apply_levels, and the sorted levels of snapshot().        *)
_apply_levels(levels, deltas) ==
  FoldLeft(LAMBDA f, l : [f EXCEPT ![l[1]] = l[2]], levels, deltas)

(* The k-th smallest of a set of numbers *)
Nth(S, k) == CHOOSE i \in S : Cardinality({j \in S : j < i}) = k - 1

Displayed(levels) == {p \in Prices : levels[p] > 0}
Depth(levels) == Cardinality(Displayed(levels))
Level(levels, k) == LET p == Nth(Displayed(levels), k) IN << p, levels[p] >>
SortedAsks(levels) == [k \in 1..Depth(levels) |-> Level(levels, k)]
SortedBids(levels) == [k \in 1..Depth(levels) |-> Level(levels, Depth(levels) + 1 - k)]

(* apply of the reducer; a snapshot that is not admitted raises, which makes *)
(* the book unavailable until the next snapshot.                             *)
apply(r, m) ==
  LET fresh == m.type = "subscribed/order_book"
      bids == _apply_levels(IF fresh THEN NoLevels ELSE r.bids, m.bids)
      asks == _apply_levels(IF fresh THEN NoLevels ELSE r.asks, m.asks)
      next == [bids |-> bids, asks |-> asks, nonce |-> m.nonce,
               unavailable |-> ~Admitted(SortedBids(bids), SortedAsks(asks))]
  IN IF fresh THEN next
     ELSE IF r.unavailable THEN r
     ELSE IF m.begin_nonce # r.nonce \/ m.nonce <= m.begin_nonce
     THEN [r EXCEPT !.unavailable = TRUE]
     ELSE next

(* The recorded side: a price is replaced in its place, removed, or appended *)
(* at the end; nothing is sorted.                                            *)
Without(levels, price) ==
  LET kept == {i \in DOMAIN levels : levels[i][1] # price}
  IN [k \in 1..Cardinality(kept) |-> levels[Nth(kept, k)]]

ApplyDelta(levels, d) ==
  IF d[2] = 0 THEN Without(levels, d[1])
  ELSE IF \E i \in DOMAIN levels : levels[i][1] = d[1]
  THEN [i \in DOMAIN levels |-> IF levels[i][1] = d[1] THEN d ELSE levels[i]]
  ELSE Append(levels, d)

_apply_side(levels, deltas) == FoldLeft(ApplyDelta, levels, deltas)

apply_lighter_update(book, m) ==
  [bids |-> _apply_side(book.bids, m.bids), asks |-> _apply_side(book.asks, m.asks),
   nonce |-> m.nonce]

Mut_Contiguous(book, m) == m.nonce > book.nonce

Contiguous(book, m) == m.begin_nonce = book.nonce /\ m.nonce > m.begin_nonce

(* reconstruct_books on one envelope: a snapshot opens an epoch or aborts; a *)
(* gap, or an update whose result is not a book, closes it.                  *)
Snapshot(m) ==
  IF Positive(m.bids \o m.asks) /\ Admitted(m.bids, m.asks)
  THEN /\ epochs' = [epochs EXCEPT ![m.channel] =
                       [bids |-> m.bids, asks |-> m.asks, nonce |-> m.nonce]]
       /\ UNCHANGED aborted
  ELSE aborted' = TRUE /\ UNCHANGED epochs

Update(m) ==
  LET book == epochs[m.channel]
      next == apply_lighter_update(book, m)
  IN /\ epochs' = IF book = NoBook THEN epochs
                  ELSE [epochs EXCEPT ![m.channel] =
                          IF Contiguous(book, m) /\ Admitted(next.bids, next.asks)
                          THEN next ELSE NoBook]
     /\ UNCHANGED aborted

Frame ==
  /\ ~aborted
  /\ \E m \in Frames :
       /\ live' = [live EXCEPT ![m.channel] = apply(@, m)]
       /\ IF m.type = "subscribed/order_book" THEN Snapshot(m) ELSE Update(m)

-----------------------------------------------------------------------------
(* sweep_depth *)

Mut_SideLevels(book, side) == IF side = "BUY" THEN Reverse(book.asks) ELSE book.bids

SideLevels(book, side) == IF side = "BUY" THEN book.asks ELSE book.bids

Take(acc, l) ==
  LET taken == Min({acc.remaining, l[2]})
  IN IF taken = 0 THEN acc
     ELSE [remaining |-> acc.remaining - taken, notional |-> acc.notional + l[1] * taken,
           worst |-> l[1]]

sweep_depth(book, side, quantity) ==
  FoldLeft(Take, [remaining |-> quantity, notional |-> 0, worst |-> 0], SideLevels(book, side))

-----------------------------------------------------------------------------
(* Whatever frames were lost, repeated or reordered, a book the              *)
(* reconstruction of the package still vouches for is the book the live      *)
(* reducer holds: available, with the same nonce, the same prices and sizes. *)
(* The reconstruction appends where the reducer sorts; it may only give up   *)
(* earlier.                                                                  *)
RecordedBookIsLiveBook ==
  ~aborted => \A c \in Channels :
    epochs[c] # NoBook =>
      /\ ~live[c].unavailable
      /\ live[c].nonce = epochs[c].nonce
      /\ SortedBids(live[c].bids) = epochs[c].bids
      /\ SortedAsks(live[c].asks) = epochs[c].asks

(* The ways of filling a quantity from the displayed levels, level by level. *)
Fills(levels, quantity) ==
  {x \in [DOMAIN levels -> 0..quantity] :
     /\ \A i \in DOMAIN levels : x[i] <= levels[i][2]
     /\ FoldFunction(+, 0, x) = quantity}

Cost(levels, x) == FoldFunction(+, 0, [i \in DOMAIN levels |-> levels[i][1] * x[i]])

(* The sweep of a reconstructed book is the best fill of the quantity there  *)
(* is: the cheapest purchase or the dearest sale, and a refusal only when    *)
(* the displayed depth does not hold the quantity.                           *)
SweepIsBest ==
  \A c \in Channels, side \in {"BUY", "SELL"}, quantity \in 1..MaxQty :
    epochs[c] # NoBook /\ ~aborted =>
      LET fill == sweep_depth(epochs[c], side, quantity)
          levels == IF side = "BUY" THEN epochs[c].asks ELSE epochs[c].bids
          costs == {Cost(levels, x) : x \in Fills(levels, quantity)}
      IN /\ (fill.remaining # 0) <=> (costs = {})
         /\ costs # {} =>
              fill.notional = IF side = "BUY" THEN Min(costs) ELSE Max(costs)
=============================================================================
