----------------------------- MODULE MCAnalysis -----------------------------
(* Four prices, sizes to two, two channels of which one carries every kind of  *)
(* frame; forks with other trove lists, one too long to walk and one below   *)
(* the minimum ratio; pools of every small size, the empty ones included.    *)
EXTENDS Analysis

CONSTANTS ann, bob, cat, dan, left, right, long, paused, none

Deltas(n, prices) == UNION {[1..k -> prices \X Sizes] : k \in 0..n}

Bids == {<< <<2, 1>> >>, << <<2, 2>>, <<1, 1>> >>, << <<1, 1>>, <<2, 1>> >>, << <<1, 0>> >>}
Asks == {<< <<3, 1>> >>, << <<3, 1>>, <<4, 2>> >>, << <<2, 1>> >>}

Message(type, channel, begin, nonce, bids, asks) ==
  [type |-> type, channel |-> channel, begin_nonce |-> begin, nonce |-> nonce,
   bids |-> bids, asks |-> asks]

MCFrames ==
  {Message("subscribed/order_book", 1, 0, n, x, y) : n \in 0..1, x \in Bids, y \in Asks}
  \cup {Message("update/order_book", 1, n, m, x, y) :
          n \in 0..1, m \in 0..2, x \in Deltas(1, 1..3), y \in Deltas(1, 2..4)}
  \cup {Message("update/order_book", 1, 0, 1, x, << >>) : x \in Deltas(2, 1..3)}
  \cup {Message("subscribed/order_book", 2, 0, 0, << <<2, 1>> >>, << <<3, 1>> >>),
        Message("update/order_book", 2, 0, 1, << <<1, 2>> >>, << >>)}

Held(w, x, y, z) == ann :> w @@ bob :> x @@ cat :> y @@ dan :> z

MCTroves ==
  left :> [list |-> <<ann, bob, cat>>, array |-> <<bob, cat, ann>>, price |-> 2,
           coll |-> Held(6, 3, 1, 0), debt |-> Held(3, 2, 2, 0)]
  @@
  right :> [list |-> <<bob, ann>>, array |-> <<bob, ann>>, price |-> 2,
            coll |-> Held(3, 5, 0, 0), debt |-> Held(2, 3, 0, 0)]
  @@
  long :> [list |-> <<dan, bob, cat, ann>>, array |-> <<ann, bob, cat, dan>>, price |-> 2,
           coll |-> Held(2, 2, 2, 3), debt |-> Held(2, 2, 2, 2)]
  @@
  paused :> [list |-> <<ann>>, array |-> <<ann>>, price |-> 1,
             coll |-> Held(2, 0, 0, 0), debt |-> Held(2, 0, 0, 0)]

MCPools ==
  {left :> [musd |-> m, btc |-> n, fee |-> f]
   @@ [k \in {right, long, paused} |-> [musd |-> 4, btc |-> 3, fee |-> 1]] :
     m \in 0..6, n \in 0..6, f \in {0, 1, 3, 10}}
=============================================================================
