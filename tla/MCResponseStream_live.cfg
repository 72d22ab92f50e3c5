SPECIFICATION BoundedSpec
CONSTANTS
  Sources = {"worker", "host"}
  Capacity = 2
  MaxChunks = 4
INVARIANTS
  TerminatedIsWhole
  ChunksConserved
  SourceIsReleased
PROPERTY StreamEnds
CHECK_DEADLOCK FALSE
