CONSTANTS
  plain = plain
  changed = changed
  NoType = NoType
  NoReset = NoReset
  NoEncode = NoEncode
  Texts <- MCTexts
  Keywords = {}
  Imported = {}
  Foreign = {}
  Digital = {""}
  Bases <- MCBases
  Signatures = {}
  Paths <- MCPaths
  TopName <- MCTop
  InstNames <- MCNames
  RegDescs <- MCRegDescs
  GroupTypes <- MCGroupTypes
  Places <- MCPlaces
  TypeStyle = "lexical"
  EmitResetConsts = FALSE
  MaxNodes = 5
  MaxDepth = 3
  MaxChildren = 2
SPECIFICATION Spec
INVARIANT ScannerTypeOK
INVARIANT DefinedBeforeUsed
INVARIANT VariantsReported
INVARIANT NothingDropped
PROPERTY ScannerSharesTypes
CHECK_DEADLOCK FALSE
