\* Every operation on every small operand, constant or not.
CONSTANTS
  Nodes <- MCNodes
  ValuesOf <- MCValuesOf

SPECIFICATION Spec

INVARIANTS
  BinopsAreXls
  BitsInPlace
  SelectionsAreXls
  AggregatesAreXls
