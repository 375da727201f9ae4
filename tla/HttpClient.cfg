SPECIFICATION FairSpec
CONSTANTS
  BYTE_BUFFER_LENGTH = 2
  MaxBody = 5
  MaxRewinds = 1
  MaxRedirects = 2
INVARIANTS
  ResponseIsWhole
  UploadIsWhole
  RunningIsAwaited
PROPERTIES
  CallersReturn
CHECK_DEADLOCK FALSE
