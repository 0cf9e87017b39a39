SPECIFICATION Spec
CONSTANTS
  Files <- MCFiles
  Ports <- MCPorts
  Sizes <- MCSizes
  Vars <- MCVars
  Dirs = {"/", "r", "r2"}
  Underscored = {"my_db"}
  MinMemory = 8
  Word = 32768
  Half32 = 262144
  Process <- MCProcess
  Scenarios <- MCScenarios
  Fresh <- MCFresh
  StartsWith <- MCStartsWith
  MaxCrashes = 1
CHECK_DEADLOCK FALSE
INVARIANTS
  ParsedAsMeant
  AcceptedIffSane
  StoredAsValidated
  NamesUniqueUnlessRaced
  ResolveRight
