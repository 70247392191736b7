\* Bit vectors of widths one and two: every arena of up to three nodes.
CONSTANTS
  p = p
  q = q
  a = a
  b = b
  Names = {a, b}
  SortOf <- MCVectorSorts
  UnaryOps = {"not", "neg"}
  BinaryOps = {"sub", "sdiv", "urem", "ashr", "xor"}
  CompareOps = {"eq", "ult", "sge"}
  ConstWidths = {1, 2}
  MaxWidth = 2
  MaxArgs = 2
  MaxNodes = 3

SPECIFICATION Spec

INVARIANTS
  LoweringSucceeds
  ConstantsFold
  VectorMeaningPreserved
  RenderedMeansLowered
