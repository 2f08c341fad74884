SPECIFICATION Spec
CONSTANTS
  Clients = {c1, c2}
  NoOne = NoOne
  MaxJob = 2
  MaxDown = 2
  MaxFaults = 1
  MaxConf = 2
INVARIANTS TypeOK AckedKept PrintsOwnData PrintedOnce InOrder WakeupComing NoStaleConfig
