SPECIFICATION Spec
CONSTANTS
  Off = Off Null = Null Nil = Nil Nobody = Nobody
  Chosen = {"FooObj", "JobQueue", "CondVar", "BarrierSort", "Timeout",
             "Getenv", "SignalPrograms", "AlarmList", "RecLocks", "Daemon",
             "Turns", "Coproc", "Popen", "PtyCopy", "AioCopy",
             "MemStream", "FdPass", "PollMsg", "Uptime", "Limits",
             "PrintSubmit", "PrinterAnswer"}
  MaxCalls = 2 MaxMsgs = 2 MaxSpurious = 1 MaxSignals = 2
  Threads = {t1, t2, t3} Objs = {o1, o2} Ids = {i1, i2}
  Workers = {w1, w2} Jobs = {j1, j2, j3} MaxPuts = 4
  Producers = {p1, p2}
  NTHR = 2 TNUM = 2 RandMax = 2 LongMax = 3
  SECTONSEC = 3 Delay = 1 MaxSec = 3
  Callers = {c1, c2} Wanted = {"a", "b", "c"} Length <- Lengths MAXSTRINGSZ = 3
  Seconds = 2
  Timers = {1, 2, 3} MaxSeconds = 2 MaxTime = 3
  Instances = {d1, d2}
  NLOOPS = 4 Str = 2
  Lines = 3
  NFd = 6 maxfd = 6
  MaxIn = 1 MaxOut = 2
  NBUF = 2 Size = 3 Bytes = {78, 109}
  Types <- StreamTypes Letters = {1} MaxSize = 2 MaxOps = 3
  Requests <- FileRequests MAXLINE = 4
  NQ = 2
  Clients = {a, b}
  Sys = 2 Path = 1
  Configs <- ConfigFiles Addresses <- TwoAddresses Blocks = 3 Header = 2
  MAXSLEEP = 4 JOBNM_MAX = 8 MaxName = 10
  Answers <- PrinterAnswers IOBUFSZ = 20
CHECK_DEADLOCK FALSE
INVARIANTS
  ObjectsCounted QueueLinked ThreadsWait SignalsSeen OneGoesOn PipesHandOver
  CopiesAgree AnswersFit PrintedAsAsked
PROPERTY EachEnds
