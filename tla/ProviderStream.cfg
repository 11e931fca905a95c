SPECIFICATION FairSpec
CONSTANTS
  Capacity = 2
  MaxLines = 3
INVARIANTS TypeOK NothingAfterTheEnd
PROPERTIES AnswerSpec
CHECK_DEADLOCK FALSE
