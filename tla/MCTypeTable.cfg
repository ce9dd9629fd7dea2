CONSTANTS
  Texts <- MCTexts
  s1 = s1
  s2 = s2
  p1 = p1
  p2 = p2
  p3 = p3
  p4 = p4
  Keywords = {}
  Imported = {}
  Foreign = {}
  Digital = {""}
  Bases <- MCBases
  Signatures <- MCSignatures
  Paths <- MCPaths
SPECIFICATION TableSpec
INVARIANT TableTypeOK
INVARIANT TypeNamesUnique
INVARIANT InstanceInItsType
INVARIANT VariantJustified
PROPERTY NeverRevised
PROPERTY SharesTypes
SYMMETRY Symmetry
CHECK_DEADLOCK FALSE
