SPECIFICATION GuardSpec
CONSTANTS
  u1 = u1  u2 = u2  NULL = NULL
  Users = {u1, u2}
  Borrowers = {u1, u2}
  offers <- ThreeOffers
  maxEscrow <- SharedEscrow
  Prices = {120, 100, 90}
  MCR = 110
  MAX_TRIGGER_ICR = 1000
  minNetDebt = 8
  MUSD_GAS_COMPENSATION = 1
  Coll = 10
  Debt = 10
  OwnRepay = 1
  MaxNonce = 2
  MaxDonation = 1
  MaxArms = 2
INVARIANTS
  GuardTypeOK
  EscrowCovered
  ReservedBacked
  ReadyIsSigned
PROPERTY OnlyAsSigned
