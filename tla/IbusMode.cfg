SPECIFICATION Spec
CONSTANTS
  Char <- MCChar
  Rules <- MCRules
  LetterN = "n"
  KanaN = "hN"
  Predict <- MCPredict
  MaxCandidateCount = 15
  MaxLen = 1
  KatakanaOf <- MCKatakanaOf
  Conversions <- MCConversions
  CandidateLists <- MCCandidateLists
  TypedChar <- MCTypedChar
  FullSpace = "FS"
  LeaveComposing = FALSE
INVARIANTS
  ModeShownIsMode
