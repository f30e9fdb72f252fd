\* Two addresses over three one-block epochs: every series rolls into the
\* archive, allowances are spent and coin is sent to oneself.
CONSTANTS
  a1 = a1
  a2 = a2
  Addr = {a1, a2}
  SupplyKey = SupplyKey
  PageEpochs = 1
  EpochBlocks = 1
  MaxSupply = 2
  Amounts = {1, 2}
  Approvals = {0, 1}
  MaxHeight = 2
SYMMETRY Symmetry
SPECIFICATION Spec
CHECK_DEADLOCK FALSE
INVARIANT VotesFollowBalances
PROPERTY ImplementsElectorate
