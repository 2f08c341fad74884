SPECIFICATION Spec
CONSTANTS
  Clients = {a, b}
  NoClient = none
  NAlloc = 2
  MaxFd = 2
  MaxRequests = 1
  Loops = {"poll"}
INVARIANT RequestUid
