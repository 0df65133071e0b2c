CONSTANTS
  Objects <- MCObjects
  STARTERMAX = 1
  MaxCalls = 2
SPECIFICATION Spec
INVARIANTS TypeOK SetupRight InfoHasAbbrev AnswersStayOwned AnswersAreWhole
CHECK_DEADLOCK FALSE
