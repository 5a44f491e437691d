SPECIFICATION MCSpec
CONSTANTS
  Parts = {"database"}
  Node <- MCNode
  Root = "root"
  Children <- MCChildren
  Flags <- MCFlags
  MaxRestarts = 1
  MAXIMUM_REPEAT_COUNT = 3
  MaxMade = 2
  MaxBreaks = 1
  MaxDecompiles = 1
  JumptableRecovery = TRUE
  Keys = {1, 2, 3}
  InitialKeys = {1, 3}
  OpCodes = {"INT_ADD", "COPY"}
  Rules = {"add", "collapse", "copy", "off"}
  perop <- MCperop
  Disabled = {"off"}
  RepeatLimit = 3
  MaxChanges = 2
  Name = {"universal", "decompile", "jumptable", "mine"}
  Base = {"base", "deadcode"}
  DefaultGroups <- MCDefaultGroups
  MaxEdits = 1
INVARIANT Usable
