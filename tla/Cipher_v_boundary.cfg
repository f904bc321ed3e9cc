CONSTANTS
  BLOCKSIZE = 256
  BUFFER_SIZE = 32
  Texts <- BoundaryTexts
SPECIFICATION Spec
INVARIANTS RoundTrip
