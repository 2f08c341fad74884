SPECIFICATION Spec
CONSTANTS
  p1 = p1 p2 = p2
  ka = ka kb = kb kc = kc
  short = short long = long
  Blank = Blank None = None
  Procs = {p1, p2}
  Keys = {ka, kb, kc}
  Data = {short, long}
  NHash = 2
  Hash <- Hash2
  KeyLen <- KeyLen1
  DatLen <- DatLen2
  PtrMax = 6
  Workload <- CrashWork
  MaxOps <- TwoOps
  MaxCrash = 1
  Preloads <- OpsPreloads
INVARIANTS ChainsDisjoint KeysPlaced
PROPERTIES Linearizable
