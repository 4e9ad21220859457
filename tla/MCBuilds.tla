------------------------------ MODULE MCBuilds ------------------------------
(* Instances of Builds for TLC. *)
EXTENDS Builds, TLC

CONSTANTS k1, k2, b1, b2, c1, c2, c3, s1, s2, p1, p2

(* One key is asked for with two bodies, another once.                       *)
KeyOf == (c1 :> k1) @@ (c2 :> k1) @@ (c3 :> k2)
SentOf == (c1 :> b1) @@ (c2 :> b2) @@ (c3 :> b1)
(* One slot in each of two replicas.                                         *)
RunsIn == (s1 :> p1) @@ (s2 :> p2)
=============================================================================
