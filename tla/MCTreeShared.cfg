SPECIFICATION Spec
CONSTANTS
  Files = {"f1", "f2"}
  LockCases = "lock cases"
  Controls <- MCControls
  Excused <- MCExcused
  Readers = {"guard"}
  MaxRuns = 1
  MaxSweeps = 1
  MaxKills = 0
  Asked = 2
  Batches = {}
  Beside <- MCBeside
INVARIANT WholeWhenOver
CHECK_DEADLOCK FALSE
