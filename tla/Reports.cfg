SPECIFICATION Spec
CONSTANTS
  t1 = t1
  t2 = t2
  t3 = t3
  p1 = p1
  p2 = p2
  market = market
  trove = trove
  NULL = NULL
  Threads = {t1, t2, t3}
  Procs = {p1, p2}
  proc_of <- MCProcOf
  Reports = {r1}
  Requests = {market, trove}
  TroveRequests = {trove}
  Captures = {c1, c2}
  Feeds <- MCFeeds
  Configs <- MCConfigs
  MaxTroveAge = 0
  MaxPosts = 2
  Earlier = c0
  MaxCrashes = 1
  MaxNow = 1
INVARIANTS
  AnswerIsOnePublication
  StoredVerifies
PROPERTIES
  RemnantGoes
CHECK_DEADLOCK FALSE
