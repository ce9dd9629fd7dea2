CONSTANTS
  plain = plain
  NoType = NoType
  NoReset = NoReset
  NoEncode = NoEncode
  Texts <- MCTexts
  Keywords <- MCKeywords
  Imported = {}
  Foreign = {}
  Digital = {""}
  Bases <- MCBases
  Signatures = {}
  Paths <- MCPaths
  TopName <- MCTop
  InstNames <- MCNames
  RegDescs <- MCRegDescs
  GroupTypes <- MCGroupTypes
  Places <- MCPlaces
  TypeStyle = "lexical"
  EmitResetConsts = TRUE
  MaxNodes = 4
  MaxDepth = 2
  MaxChildren = 3
SPECIFICATION Spec
INVARIANT MembersDistinct
INVARIANT InstanceNamesWin
INVARIANT RenamesReported
INVARIANT NothingDropped
CHECK_DEADLOCK FALSE
