CONSTANTS
  Seqs = {s1, s2}
  NumSlots = 3
  TP = 2
  NumSpec = 1
  MaxLen = 4
  MaxChunk = 2
  MaxPads = 1
  MaxBlock = 1
  Modes = {"plain", "align", "computed", "all"}
  Zero = Zero
  Pad = Pad
SPECIFICATION Spec
INVARIANTS TypeOK CacheFollows RollbackWorks PaddingIsInert
PROPERTIES ExactAnswers
SYMMETRY Sym
