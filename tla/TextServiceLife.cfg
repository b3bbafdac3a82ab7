SPECIFICATION Spec
CONSTANTS
  Service = {s1, s2}
  MaxImes = 2
  MaxNoise = 1
  MaxLocks = 2
  MaxFaults = 2
  ServerFaults = {"pipe", "inherit", "spawn", "death", "noise"}
  Refusals = {"category", "apartment", "class", "instance", "keystrokes", "button", "item", "bar_query", "key_query"}
  MaxRefusals = 1
  MaxApartments = 1
SYMMETRY Alike
CHECK_DEADLOCK FALSE
INVARIANTS
  AssertionsHold
  FailuresHaveCauses
  ObjectsOwnImes
  AnswersFit
  IconShowsMode
