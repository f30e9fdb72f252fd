SPECIFICATION Spec
CONSTANTS
  PeriodBlocks = 2
  RMaxPeriods = 2
  StepNum = 1
  StepDen = 2
  Whole = 4
  BudgetStart = 7
  AbsStart = 0
  Amounts = {3}
  SupplyStart = 4
  MaxSupply = 7
  MaxIdle = 3
  MaxSeniors = 2
  MaxDraws = 2
  BurnsUntouched = TRUE
INVARIANT BudgetReadAtTheBoundary
