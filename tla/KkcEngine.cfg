SPECIFICATION Spec
CONSTANTS
  Client = {c1, c2}
  Pron <- MCPron
  Ways <- BothWays
  Drainings <- Either
  StartupLines <- Either
  MaxLines = 2
INVARIANTS
  AnswersFit
  OneAnswerBehind
PROPERTIES
  RequestsEnd
