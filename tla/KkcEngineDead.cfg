SPECIFICATION Spec
CONSTANTS
  Client = {c1}
  Pron <- MCPron
  Ways <- Directly
  Drainings <- Either
  StartupLines <- Never
  MaxLines = 2
PROPERTIES
  DeadEngineRestarted
