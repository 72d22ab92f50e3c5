SPECIFICATION Spec
CONSTANTS
  Inputs <- MCInputs
  OpenFlags <- MCOpenFlags
  PathCalls <- MCPathCalls
  FileCalls <- MCFileCalls
  Spelling <- MCSpelling
  Meaning <- MCMeaning
  MaxObjects = 2
  MaxNodes = 2
  MaxGiven = 2
  MaxAnswers = 1
  MaxSize = 1
  MaxSegments = 4
  MaxLinks = 2
VIEW View
INVARIANTS DescriptorsHaveHolders ChunksAreInTheFile GlobIsExact
PROPERTIES ObjectsKeepTheirFile
CHECK_DEADLOCK FALSE
