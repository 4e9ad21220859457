----------------------------- MODULE MCReports ------------------------------
(* Two processes, one with two threads, one report id, a market and a trove  *)
(* request, and sources that are healthy, stale or without a BTC entry.      *)
EXTENDS Reports, TLC

CONSTANTS t1, t2, t3, p1, p2, market, trove

MCProcOf == t1 :> p1 @@ t2 :> p1 @@ t3 :> p2

MCFeeds == {Healthy, [Healthy EXCEPT !.age = "stale"], [Healthy EXCEPT !.btc = "missing"]}

MCConfigs == {[mode |-> "live-public", dex |-> TRUE, troves |-> TRUE],
              [mode |-> "fixture", dex |-> FALSE, troves |-> FALSE]}
=============================================================================
