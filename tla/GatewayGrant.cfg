SPECIFICATION Spec
CONSTANTS
  q1 = q1  q2 = q2  a1 = a1  a2 = a2  w1 = w1  w2 = w2  p1 = p1  p2 = p2
  NULL = NULL
  Quotes = {q1, q2}
  Auths = {a1, a2}
  Payers = {w1, w2}
  Attempts <- PairAttempts
  quote_id <- PairQuote
  authorization <- PairAuth
  payer <- PairPayer
  Mode = "v2"
  MaxSubmissions = 1
  MaxInclusions = 2
  Handlers = {p1, p2}
  Workers = {}
  ReconcileLimit = 1
CONSTRAINT PaymentsOnly
SYMMETRY PairSymmetry
INVARIANTS
  GrantBudget
