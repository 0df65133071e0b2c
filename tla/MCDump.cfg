SPECIFICATION Spec
CONSTANTS
  Runs <- MCRuns
  Handles = {1, 2, 3, 4, 5}
  DIE_STACK_SIZE = 3
INVARIANTS
  TypeOK
  OwnersPrinted
  HandlesRight
  NamesFound
PROPERTIES
  Ends
CHECK_DEADLOCK FALSE
