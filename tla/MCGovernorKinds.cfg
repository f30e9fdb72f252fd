SPECIFICATION Spec
CONSTANTS
  v1 = v1
  v2 = v2
  v3 = v3
  mint = mint
  k1 = k1
  k2 = k2
  x = x
  y = y
  z = z
  Installed = {mint}
  Bps = 10
  SecsPerBlock = 1
  Names = {k1}
  Adopted = {}
  Floors = {0}
  Caps = {0}
  MaxWeighable = 100
  MaxLive = 2
  MaxOpen = 1
  SweepScan = 1
  MaxProposals = 3
  MaxEpoch = 2
  LastOpening = 0
  Addr <- KindsAddr
  Worlds <- KindsWorlds
  InitialRules <- KindsRules
  RulesChoices <- KindsOffers
  Questions <- KindsQuestions
  Rank <- KindsRank
INVARIANTS
  SlotsMatchQuestions
  SweepReclaims
PROPERTY
  PowersChangeByVote
