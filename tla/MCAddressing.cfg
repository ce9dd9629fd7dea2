CONSTANTS
  Children <- MCChildren
  Tuples <- MCTuples
  MaxDepth = 2
SPECIFICATION Spec
INVARIANT AddressingTypeOK
INVARIANT FlatInRange
INVARIANT CountIsExact
INVARIANT RoundTrip
INVARIANT HelperAgrees
PROPERTY AddressesAreDescribed
CHECK_DEADLOCK FALSE
