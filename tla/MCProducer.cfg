CONSTANTS
  NULL = NULL
  CHUNK_SIZE = 24
  DEFAULT_SLOTS_PER_BLOCK = 2
  MAXIMUM_LOC_EXPR_LENGTH = 20
  MIN_INST_LENGTH = 4
  BASE_MACINFO_MALLOC_LEN = 60
  Clients <- MCClients
  Faults = {0, 1, 2, 3, 4, 5, 6}
SPECIFICATION Spec
INVARIANTS
  TypeOK
  RelocsAtFields
  SectionsReadBack
  DiesReadBack
  AddressesFound
  BlocksRight
CHECK_DEADLOCK FALSE
