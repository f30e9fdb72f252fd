SPECIFICATION FairSpec
CONSTANTS
  PeriodBlocks = 2
  RMaxPeriods = 1
  StepNum = 1
  StepDen = 2
  Whole = 4
  BudgetStart = 12
  AbsStart = 4
  Amounts = {2}
  SupplyStart = 2
  MaxSupply = 3
  MaxIdle = 3
  MaxSeniors = 2
  MaxDraws = 1
  BurnsUntouched = TRUE
INVARIANTS AccrualMintedOnce Ceiling PeriodPaysItsBudget
PROPERTY SeniorsGetPaid
