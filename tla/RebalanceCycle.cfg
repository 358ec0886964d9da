SPECIFICATION Spec
CONSTANTS
  MaxCycles = 2
  MaxOps = 2
INVARIANTS ClearBatchHasLimits RowsAreTrue OutcomeIsRecorded
CHECK_DEADLOCK FALSE
