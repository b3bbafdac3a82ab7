SPECIFICATION Spec
CONSTANTS
  Char <- MCChar
  Rules <- MCRules
  LetterN = "n"
  KanaN = "hN"
INVARIANTS
  RulesReached
CHECK_DEADLOCK FALSE
