CONSTANTS
  Types = {die, frame}
  Constructed = {frame}
  Blocks = {b1, b2, b3}
  ah_structs_per_chunk <- StructsPerChunk
  MaxCount = 3
  Null = Null
  Unused = Unused
  Direct = Direct
  Special = Special
SYMMETRY Symmetry
SPECIFICATION Spec
INVARIANTS TypeOK Partition CountsExact ListsRight
PROPERTIES ChunksComeAndGo ImplementsPool
CHECK_DEADLOCK FALSE
