SPECIFICATION FairSpec
CONSTANTS
  None = None
  Settings <- MCSettings
  Deal = "d"
  Signature = "s"
  Positions = {0, 1}
  OurChain = "ours"
  Words = {"", "0x", "0x0", "0x1", "0x60", "ours", "other"}
  Recipients = {"e", "x"}
  Logs <- MCLogs
  Replies <- MCReplies
INVARIANTS
  TypeOK
  AnswersHold
  RefusedWhenAllFailed
PROPERTIES
  ReadEnds
\* A read ends.
CHECK_DEADLOCK FALSE
