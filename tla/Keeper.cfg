SPECIFICATION FairSpec
CONSTANTS
  u1 = u1  NULL = NULL
  Users = {u1}
  Borrowers = {u1}
  offers <- Offers
  maxEscrow <- Escrow
  Prices = {120, 100}
  MCR = 110
  MAX_TRIGGER_ICR = 1000
  minNetDebt = 8
  MUSD_GAS_COMPENSATION = 1
  Coll = 10
  Debt = 10
  OwnRepay = 1
  MaxNonce = 2
  MaxDonation = 0
  MaxArms = 2
  MaxRestarts = 1
INVARIANTS
  TypeOK
  TrackerFollows
  TerminalIsFinal
PROPERTY Protects
