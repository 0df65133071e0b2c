CONSTANTS
  CUs <- CUs32
  SimpleHeader = 5
  Wanted <- Offsets32
SPECIFICATION Spec
INVARIANTS TypeOK ContextsRight
PROPERTIES CusAreReached CallsReturn
