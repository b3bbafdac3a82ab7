SPECIFICATION Spec
CONSTANTS
  Char <- MCChar
  Rules <- MCRules
  LetterN = "n"
  KanaN = "hN"
  Predict <- MCPredict
  MaxCandidateCount = 99
  MaxLen = 2
  KatakanaOf <- MCKatakanaOf
  Conversions <- MCConversions
  CandidateLists <- MCCandidateLists
  TypedKey <- MCLetterKey
  KeyChar <- MCKeyChar
  LineBreak <- MCLineBreak
  Remembers = TRUE
  MaxHistory = 2
  Context = {c1, c2}
  PageSize = 2
  MaxRefusals = 1
  MaxDisturbed = 1
  Circumstances <- MCCircumstances
SYMMETRY ContextsAlike
CHECK_DEADLOCK FALSE
INVARIANTS
  DirectStateInDirectMode
  DocumentCatchesUp
  WindowShowsState
  CrashesHaveCauses
PROPERTIES
  ClaimedKeysHandled
  CorrectionsRemembered
  CommitsArrive
  ImplementsComposer
