SPECIFICATION FairSpec
CONSTANTS
  c1 = c1
  ann = ann
  bob = bob
  vic = vic
  wes = wes
  None = None
  Escrow = Escrow
  Bps = 10000
  Claims = {c1}
  Users = {ann, bob, vic, wes}
  Authors = {ann}
  Answerers = {bob}
  Disputers = {vic}
  Voters = {vic, wes}
  Stakers = {ann}
  AnswerSides = {"YES"}
  Opening <- MCOpening
  Convs <- MCConvs
  Deposit = 10
  XBars = {100}
  TierRefs = {100}
  Moves = {60}
  MatureTime = 1
  DeadTime = 2
  SettleTime = 2
  VotingTime = 1
  GraceTime = 1
  EscrowTime = 1
  FinalizeGrace = 1
  CarrotMin = 1000
  MaxNow = 4
  MaxMoves = 1
  MaxRounds = 3
  LastOpening = 1
CHECK_DEADLOCK FALSE
INVARIANTS EscrowExact VerdictFollowsVotes LadderFits VotesStayBacked CompsWithinBurns CarrotsCovered
PROPERTY ImplementsClaimLife AnsweredClaimsSettle
