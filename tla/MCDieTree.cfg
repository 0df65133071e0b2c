CONSTANTS
  Dies <- DieNumbers
  Payload <- PayloadOf
  MaxEntries = 8
  NULL = NULL
  NoSibling = NoSibling
SPECIFICATION Spec
INVARIANTS TypeOK ReaderIsRight WriterIsRight
CHECK_DEADLOCK FALSE
