CONSTANTS
  Unreadable = Unreadable
  BadYaml = BadYaml
  NoInfo = NoInfo
  NoConfiguration = NoConfiguration
  NoSbi = NoSbi
  NoLogger = NoLogger
  Absent = Absent
  Tables = Tables
  Files <- MCFiles
  Env <- MCEnv
  ParsableLevels <- MCParsableLevels
SPECIFICATION Spec
INVARIANT LevelsAsConfigured
CHECK_DEADLOCK FALSE
