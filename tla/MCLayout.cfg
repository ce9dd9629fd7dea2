CONSTANTS
  Texts <- MCTexts
  Keywords <- MCKeywords
  Imported = {}
  Foreign = {}
  Digital = {""}
  NoReset = NoReset
  RefReset = RefReset
  Registers <- MCRegisters
  RsvdPrefix <- MCPrefix
SPECIFICATION Spec
INVARIANT LayoutTypeOK
INVARIANT RowsCover
INVARIANT FieldsKeepTheirBits
INVARIANT ReservedNamesYield
INVARIANT ResetIsExact
INVARIANT AccessIsUnion
INVARIANT OverlapIsCaught
INVARIANT WarnedExactlyWhenLossy
CHECK_DEADLOCK FALSE
