------------------------------ MODULE Analysis ------------------------------
(* The sources a report is made from.  They do not share state: a behaviour  *)
(* follows the order book frames, or one capture of a trove or of a pool.    *)
EXTENDS LighterBooks, MezoCapture

VARIABLE source  \* "books", "trove" or "dex"

vars == << bookVars, mezoVars, source >>

Init ==
  /\ source \in {"books", "trove", "dex"}
  /\ BooksInit /\ MezoInit
  /\ source = "books" => fork = CHOOSE f \in Forks : TRUE
  /\ source # "dex" => pool = CHOOSE p \in Pools : TRUE

Books == source = "books" /\ Frame /\ UNCHANGED << mezoVars, source >>
Mezo ==
  /\ \/ source = "trove" /\ BeginTrove
     \/ source = "dex" /\ BeginDex
     \/ Collect \/ Respond \/ Refuse \/ Verify \/ Reorg
  /\ UNCHANGED << bookVars, source >>

Next == Books \/ Mezo

Spec == Init /\ [][Next]_vars
=============================================================================
