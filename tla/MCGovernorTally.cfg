SPECIFICATION FairSpec
CONSTANTS
  v1 = v1
  v2 = v2
  v3 = v3
  mint = mint
  k1 = k1
  k2 = k2
  x = x
  y = y
  z = z
  Installed = {mint}
  Bps = 10
  SecsPerBlock = 1
  Names = {k1}
  Adopted = {k1}
  Floors = {0, 4}
  Caps = {0, 1, 3}
  MaxWeighable = 100
  MaxLive = 2
  MaxOpen = 1
  SweepScan = 1
  MaxProposals = 1
  MaxEpoch = 2
  LastOpening = 1
  Addr <- TallyAddr
  Worlds <- TallyWorlds
  InitialRules <- TallyRules
  RulesChoices <- NoOffers
  Questions <- TallyQuestions
  Rank <- TallyRank
INVARIANTS
  TallyWithinSnapshot
PROPERTIES
  EarlyDecisionsStand
  DecisionsAreFinal
  ReactionTime
  SlotsComeBack
