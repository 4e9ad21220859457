---------------------------- MODULE MCAcceptance ----------------------------
(* An instance of Acceptance for TLC: a run with every kind of command line  *)
(* beside a live run, or two concurrent plain reads.                         *)
EXTENDS Acceptance, TLC

CONSTANTS c1, c2, r1, r2, d1, d2

Opt(mode, plan, hasP2, hasP3, pay) ==
  [mode |-> mode, plan |-> plan, p2 |-> hasP2, p3 |-> hasP3, pay |-> pay]

OptionSets ==
  r1 :> {Opt("offline", TRUE, FALSE, FALSE, FALSE), Opt("offline", TRUE, FALSE, TRUE, TRUE),
         Opt("live", TRUE, TRUE, FALSE, FALSE), Opt("live", FALSE, TRUE, TRUE, TRUE)}
  @@ r2 :> {Opt("live", FALSE, TRUE, FALSE, FALSE), Opt("live", FALSE, FALSE, TRUE, TRUE),
            Opt("live", FALSE, FALSE, TRUE, FALSE)}

(* Too far ahead at time 0, good at time 1, expired at 2; and a malformed one. *)
SomeBundles == [bound : BOOLEAN, subject : {c1}, expires : {2}]
ReaderSymmetry == Permutations({d1, d2})
=============================================================================
