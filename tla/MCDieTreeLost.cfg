CONSTANTS
  Dies <- DieNumbers
  Payload <- PayloadOf
  MaxEntries = 8
  NULL = NULL
  NoSibling = NoSibling
SPECIFICATION Spec
INVARIANT LinksAreWritten
CHECK_DEADLOCK FALSE
