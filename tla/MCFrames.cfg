CONSTANTS
  Files <- MCFiles
  MaxRegisters = 2
  MaxFailing = 3
SPECIFICATION Spec
INVARIANTS TypeOK ListsDeliver RowsDeliver NothingStrays
CHECK_DEADLOCK FALSE
