SPECIFICATION ScanSpec
CONSTANTS
  p1 = p1 p2 = p2
  ka = ka kb = kb kc = kc
  short = short long = long
  Blank = Blank
  Procs = {p1, p2}
  Keys = {ka, kb, kc}
  Data = {short, long}
  NHash = 2
  Hash <- Hash2
  KeyLen <- KeyLen1
  DatLen <- DatLen2
  PtrMax = 99
  Workload <- ScanWork
  MaxOps <- ScanOps
  MaxCrash = 0
  Preloads <- ScanPreloads
INVARIANTS ScanComplete ScanReadsLive
PROPERTIES ScanOnce
