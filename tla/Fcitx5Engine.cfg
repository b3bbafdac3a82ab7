SPECIFICATION Spec
CONSTANTS
  Char <- MCChar
  Rules <- MCRules
  LetterN = "n"
  KanaN = "hN"
  Predict <- MCPredict
  MaxCandidateCount = 9
  MaxLen = 2
  KatakanaOf <- MCKatakanaOf
  Conversions <- MCConversions
  CandidateLists <- MCCandidateLists
  TypedChar <- MCTypedChar
  FullSpace = "FS"
  InputContext = {ic1, ic2}
  NoContext = NoContext
INVARIANTS
  TypeOK
  IndicesValid
  PanelsReflectState
  NothingComposedUnfocused
  PredictionsFresh
  KanaReadBack
PROPERTIES
  ImplementsComposer
  NoTextLost
  CandidatesOnlyExtended
  ClickedFormShown
