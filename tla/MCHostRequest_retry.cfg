SPECIFICATION FairSpec
CONSTANTS
  Requests <- MCRequests
  Responses <- MCResponses
  Token = "session"
  Tokens = {"session", "stale"}
  ChunkedLists = {"chunked", "gzip, chunked"}
  MaxHeaders = 1
  MaxHttpBody = 2
INVARIANTS UnsafeOnce ServerReadsTheBody WholeIsWhole
PROPERTIES JobEnds
CHECK_DEADLOCK FALSE
