SPECIFICATION Spec
CONSTANTS
  Paths <- MCPaths
  Targets <- MCTargets
  TempNames = {"b"}
  Sizes = {0, 2}
  Flags <- MCFlags
  CopyOptions <- MCCopyOptions
  MaxNodes = 3
  MaxOpen = 1
  MaxSize = 1
  MaxSegments = 4
  MaxLinks = 2
VIEW View

PROPERTY RenameKeepsNode
CHECK_DEADLOCK FALSE
