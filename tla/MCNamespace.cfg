CONSTANTS
  Texts <- MCTexts
  Keywords <- MCKeywords
  Imported <- MCImported
  Foreign <- MCForeign
  Digital <- MCDigital
  Wanted <- MCWanted
  MaxGiven = 4
SPECIFICATION Spec
INVARIANT TypeOK
INVARIANT Distinct
INVARIANT NeverReserved
INVARIANT AlwaysLegal
INVARIANT RenameJustified
CHECK_DEADLOCK FALSE
