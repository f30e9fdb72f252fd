SPECIFICATION FairSpec
CONSTANTS
  Files = {"f1", "f2"}
  LockCases = "lock cases"
  Controls <- MCControls
  Excused <- MCExcused
  Readers = {"guard"}
  MaxRuns = 1
  MaxSweeps = 1
  MaxKills = 1
  Asked = 2
  Batches <- MCBatches
  Beside <- MCBeside
INVARIANTS
  RefuseRatherThanReport
  OriginalsSurvive
  CaughtWasObjectedTo
  ResultCountsEveryRow
  RootsStayOwn
  PreflightSparesTheBatch
PROPERTY ReadersGetThrough
CHECK_DEADLOCK FALSE
