------------------------------ MODULE ThreadParts -----------------------------
(***************************************************************************)
(* The modules of Programs that model threads and signal handlers.         *)
(***************************************************************************)
EXTENDS ProgramVars

FooObj_ == INSTANCE FooObj WITH Variants <- {"mutex1", "mutex2", "mutex3"}
JobQueue_ == INSTANCE JobQueue
CondVar_ == INSTANCE CondVar WITH Programs <- {"condvar", "suspend"}
BarrierSort_ == INSTANCE BarrierSort
Timeout_ == INSTANCE Timeout
Getenv_ == INSTANCE Getenv WITH
  Programs <- {"getenv1", "getenv2", "getenv3"},
  Threads <- Callers, Names <- Wanted
SignalPrograms_ == INSTANCE SignalPrograms WITH
  Programs <- {"sleep1", "tsleep2", "read1", "read2", "critical", "suspend1",
  "suspend2", "mask", "sigtstp", "child", "system", "abort"}
===============================================================================
