SPECIFICATION Spec
CONSTANTS
  q1 = q1  q2 = q2  a1 = a1  a2 = a2  w1 = w1  w2 = w2  p1 = p1  p2 = p2
  NULL = NULL
  Quotes = {q1}
  Auths = {a1, a2}
  Payers = {w1}
  Attempts <- RetryAttempts
  quote_id <- RetryQuote
  authorization <- RetryAuth
  payer <- RetryPayer
  Mode = "merchant"
  MaxSubmissions = 1
  MaxInclusions = 1
  Handlers = {p1, p2}
  Workers = {p1, p2}
  ReconcileLimit = 1
SYMMETRY RetrySymmetry
INVARIANTS
  TypeOK
  QuoteFollowsAttempt
  NoChargeWithoutRecord
  OneSettlementPerAuthorization
  ChargedEvidenceKept
PROPERTIES
  TransactionKept
  ImplementsSale
