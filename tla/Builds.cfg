SPECIFICATION FairSpec
CONSTANTS
  k1 = k1  k2 = k2  b1 = b1  b2 = b2  c1 = c1  c2 = c2  c3 = c3
  s1 = s1  s2 = s2  p1 = p1  p2 = p2
  NULL = NULL
  Keys = {k1, k2}
  Bodies = {b1, b2}
  Calls = {c1, c2, c3}
  key <- KeyOf
  sent <- SentOf
  MaxActive = 1
  RateLimit = 1
  Slots = {s1, s2}
  Procs = {p1, p2}
  runs_in <- RunsIn
  Threads = {1}
INVARIANTS
  TypeOK
  BuildSlots
  OneSnapshot
  AnswersHold
PROPERTY RequestsResolve
CHECK_DEADLOCK FALSE
