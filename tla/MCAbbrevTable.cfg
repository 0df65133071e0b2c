CONSTANTS
  Abbrevs <- InSection
  Codes <- Asked
  HT_MULTIPLE = 1
  UnsignedSize = 8
  MaxEntries = 7
SPECIFICATION Spec
INVARIANTS TypeOK LookupsRight HeldStaysChained
CHECK_DEADLOCK FALSE
