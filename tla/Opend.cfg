SPECIFICATION FairSpec
CONSTANTS
  Clients = {a, b, c}
  NoClient = none
  NAlloc = 1
  MaxFd = 2
  MaxRequests = 1
  Loops = {"select", "poll"}
INVARIANTS TypeOK Registered ReadNeverBlocks AnswersAsked
PROPERTY Answered
