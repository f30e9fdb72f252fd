SPECIFICATION Spec
CONSTANTS
  c1 = c1
  c2 = c2
  ann = ann
  bob = bob
  None = None
  Claims = {c1, c2}
  Users = {ann, bob}
  Voters = {ann}
  Senders = {ann}
  AnswerSides = {"YES"}
  Answerers = {bob}
  Backers <- MCBackers
  Opening <- MCOpening
  Amounts = {400, 1200}
  Rates <- MCRates
  TierBps = 10000
  Grants = {1000}
  Bps = 10000
  Unit = 7
  Window = 2
  MinAnswer = 400
  Polish = 1
  DeadTime = 4
  MaxNow = 5
  MaxMoves = 3
CHECK_DEADLOCK FALSE
INVARIANTS PoolsAreSums StakesStayBacked CreditFollowsCoin DrainKeepsTheBase BonusesWithinPot
PROPERTY ConvictionPinned
