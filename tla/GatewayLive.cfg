SPECIFICATION FairSpec
CONSTANTS
  q1 = q1  q2 = q2  a1 = a1  a2 = a2  w1 = w1  w2 = w2  p1 = p1  p2 = p2
  NULL = NULL
  Quotes = {q1}
  Auths = {a1}
  Payers = {w1}
  Attempts <- SingleAttempts
  quote_id <- SingleQuote
  authorization <- SingleAuth
  payer <- SinglePayer
  Mode = "merchant"
  MaxSubmissions = 1
  MaxInclusions = 1
  Handlers = {p1}
  Workers = {p2}
  ReconcileLimit = 2
PROPERTIES
  AttemptsResolve
  UnsoldEvidenceRemoved
