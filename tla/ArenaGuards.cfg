\* Guards over two Boolean variables: every arena of up to four nodes.
CONSTANTS
  p = p
  q = q
  a = a
  b = b
  Names = {p, q}
  SortOf <- MCGuardSorts
  UnaryOps = {}
  BinaryOps = {}
  CompareOps = {"eq"}
  ConstWidths = {}
  MaxWidth = 0
  MaxArgs = 3
  MaxNodes = 4

SPECIFICATION Spec

INVARIANTS
  InternedIsInverse
  GuardsAreNormal
  GuardMeaningPreserved
  RenderedMeansLowered
