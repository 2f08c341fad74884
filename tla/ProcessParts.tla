----------------------------- MODULE ProcessParts -----------------------------
(***************************************************************************)
(* The modules of Programs that model processes, their files, pipes,       *)
(* sockets and timers, and that are proved about.                          *)
(***************************************************************************)
EXTENDS ProgramVars

AlarmList_ == INSTANCE AlarmList
RecLocks_ == INSTANCE RecLocks WITH Programs <- {"pendlock", "deadlock", "mandatory"}
Daemon_ == INSTANCE Daemon WITH Programs <- {"reread", "reread2", "13_7"}
Turns_ == INSTANCE Turns WITH Programs <- {"devzero", "tellwait1", "tellwait2"}
Coproc_ == INSTANCE Coproc WITH Programs <- {"add2", "add2stdio"}
Popen_ == INSTANCE Popen
PtyCopy_ == INSTANCE PtyCopy
AioCopy_ == INSTANCE AioCopy WITH Programs <- {"rot13c2", "14_21"}
MemStream_ == INSTANCE MemStream WITH Bytes <- Letters, MaxCalls <- MaxOps
FdPass_ == INSTANCE FdPass WITH Names <- Requests
PollMsg_ == INSTANCE PollMsg WITH Programs <- {"pollmsg", "pollmsg2"}
Uptime_ == INSTANCE Uptime WITH Programs <- {"ruptimed", "ruptimed-fd", "ruptimed-dg"}
Limits_ == INSTANCE Limits WITH Programs <- {"options", "conf"}
===============================================================================
