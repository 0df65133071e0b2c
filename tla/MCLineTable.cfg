CONSTANTS
  AddrSize = 16384
  IntSize = 4096
  HalfSize = 65536
  MIN_INST_LENGTH = 4
  Entries <- SpreadEntries
  MaxJump = 400
  ForeignPrefixes <- SomePrefixes
  ForeignOps <- SomeOps
  MaxAddress = 16
  MaxLine = 4
SPECIFICATION Spec
INVARIANTS TypeOK RegistersAgree ReadsBack PrintsWhatIsRead
CHECK_DEADLOCK FALSE
