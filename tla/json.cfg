SPECIFICATION LibrarySpec
CONSTANTS
  Name = {a, b, c}
  Node = {root, n1, n2, n3}
  Root = root
  STARTING_CAPACITY = 1
  OBJECT_MAX_CAPACITY = 2
  MAX_NESTING = 1
  Chunk <- Chunks
  Word <- Words
  MaxChunks = 5
  MaxSize = 9
  MaxDepth = 5
INVARIANTS JsonTypeOK ObjectsSound OneOwner TextTypeOK
  SizeExact ReadsBack CutOffIsRefused StringsAreUtf8
PROPERTIES FailureKeeps ImplementsMap
SYMMETRY Interchangeable
CHECK_DEADLOCK FALSE
