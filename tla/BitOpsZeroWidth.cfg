\* Shifts and multiplications where one operand is bits[0].
CONSTANTS
  Nodes <- MCZeroWidthNodes
  ValuesOf <- MCValuesOf

SPECIFICATION Spec

INVARIANT ZeroWidthOperandsAreSupported
