CONSTANTS
  plain = plain
  changed = changed
  Scenario = "encodings"
  EmitIndexHelpers = TRUE
  NoType = NoType
  NoReset = NoReset
  NoEncode = NoEncode
  Texts <- MCTexts
  Keywords <- MCKeywords
  Imported = {}
  Foreign = {}
  Digital = {""}
  Bases <- MCBases
  Signatures = {}
  Paths <- MCPaths
  TopName <- MCTop
  InstNames <- MCNames
  RegDescs <- MCRegDescs
  GroupTypes <- MCGroupTypes
  Places <- MCPlaces
  TypeStyle = "lexical"
  EmitResetConsts = FALSE
  MaxNodes = 3
  MaxDepth = 2
  MaxChildren = 2
SPECIFICATION Spec
INVARIANT DeclaredOnce
CHECK_DEADLOCK FALSE
