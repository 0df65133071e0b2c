CONSTANTS
  Objects <- MCObjects
  STARTERMAX = 1
  MaxCalls = 2
SPECIFICATION Spec
CHECK_DEADLOCK FALSE
INVARIANT ErrorIsDelivered
