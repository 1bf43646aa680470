CONSTANTS
  Texts <- TwoCalls
  TypeOf <- ParTypes
  MaxChunk = 4
  MaxStreams = 1
SPECIFICATION Spec
INVARIANTS StreamedAsOneShot
