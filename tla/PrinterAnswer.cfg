SPECIFICATION FairSpec
CONSTANTS
  Answers <- OneAnswer
  IOBUFSZ = 20
CHECK_DEADLOCK FALSE
PROPERTY AnswerEnds
