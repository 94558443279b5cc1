CONSTANTS
  Unreadable = Unreadable
  NoLogger = NoLogger
  Files <- MCFiles
  ParsableLevels <- MCParsableLevels
SPECIFICATION Spec
PROPERTY SigtermAfterRegistrationTerminates
CHECK_DEADLOCK FALSE
