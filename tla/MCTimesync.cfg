\* Requests of 2 to 5 bytes and more, a buffer of 4, room for one response.
SPECIFICATION FairSpec
CONSTANTS
  BufLen = 4
  Term = 2
  RespLen = 2
  SendRoom = 3
  Pieces <- UpToFive
  MaxBytes = 9
INVARIANTS
  TypeOK
  OneReplyEach
  InStep
PROPERTIES
  Answered
  Removed
\* A connection that was removed or dropped does nothing.
CHECK_DEADLOCK FALSE
