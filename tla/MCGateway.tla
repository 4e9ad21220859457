----------------------------- MODULE MCGateway ------------------------------
(* Instances of Gateway for TLC.  An attempt is written as the pair of the   *)
(* quote and the authorization presented for it.                             *)
EXTENDS GatewaySale, TLC

CONSTANTS q1, q2, a1, a2, w1, w2, p1, p2

(* Processes are interchangeable, and so are the authorizations of a retry.  *)
ProcSymmetry == Permutations({p1, p2})
RetrySymmetry == ProcSymmetry \cup Permutations({a1, a2})
(* Swapping the two sales of a pair as a whole.                              *)
Swap == (q1 :> q2) @@ (q2 :> q1) @@ (a1 :> a2) @@ (a2 :> a1) @@ (w1 :> w2) @@ (w2 :> w1)
PairSymmetry == ProcSymmetry \cup {Swap}

(* One quote, two authorizations of its payer: a retry after a rejection.    *)
RetryAttempts == {q1} \X {a1, a2}
(* One payment of one quote, the instance for liveness.                      *)
SingleAttempts == {<< q1, a1 >>}
(* Two quotes paid with an authorization each.                               *)
PairAttempts == {<< q1, a1 >>, << q2, a2 >>}
(* Two quotes; one authorization presented for both, another for the second. *)
ReplayAttempts == {<< q1, a1 >>, << q2, a1 >>, << q2, a2 >>}

(* A constraint for the instances with two quotes: the storage side, which   *)
(* the retry run explores, stays quiet, so that the payment side fits.       *)
PaymentsOnly == /\ \A q \in Quotes : files[q] = "INTACT" /\ age[q] < 2 /\ retained[q]
                /\ retention = "cleanup"

QuoteIdOf(S) == [x \in S |-> x[1]]
AuthOf(S) == [x \in S |-> x[2]]

RetryQuote == QuoteIdOf(RetryAttempts)
RetryAuth == AuthOf(RetryAttempts)
RetryPayer == [x \in RetryAttempts |-> w1]
ReplayQuote == QuoteIdOf(ReplayAttempts)
ReplayAuth == AuthOf(ReplayAttempts)
ReplayPayer == [x \in ReplayAttempts |-> IF x[2] = a1 THEN w1 ELSE w2]
SingleQuote == QuoteIdOf(SingleAttempts)
SingleAuth == AuthOf(SingleAttempts)
SinglePayer == [x \in SingleAttempts |-> w1]
PairQuote == QuoteIdOf(PairAttempts)
PairAuth == AuthOf(PairAttempts)
PairPayer == [x \in PairAttempts |-> IF x[2] = a1 THEN w1 ELSE w2]
=============================================================================
