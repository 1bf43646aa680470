CONSTANTS
  Texts <- SomeTexts
  TypeOf <- ParTypes
  MaxChunk = 3
  MaxStreams = 2
SPECIFICATION Spec
INVARIANTS TypeOK StreamedAsOneShot CallsMeant NoFalseStart
