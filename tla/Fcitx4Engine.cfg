SPECIFICATION Spec
CONSTANTS
  Char <- MCChar
  Rules <- MCRules
  LetterN = "n"
  KanaN = "hN"
  Predict <- MCPredict
  MaxCandidateCount = 9
  MaxLen = 2
  KatakanaOf <- MCKatakanaOf
  Conversions <- MCConversions
  CandidateLists <- MCCandidateLists
  TypedChar <- MCTypedChar
  FullSpace = "FS"
  InputContext = {ic1, ic2}
  SupportsPreedit = {ic1}
  PageSize = 2
  Width <- MCWidth
INVARIANTS
  WindowShowsState
  CaretInText
PROPERTIES
  ClickedWordShown
  CommitsInSight
