--------------------------- MODULE Programs_proofs ---------------------------
(***************************************************************************)
(* Proofs about the programs of Programs, for any values of its constants. *)
(* The running module takes all the steps, so the inductive invariant says *)
(* of each module, if it is the one that runs, that its own invariant      *)
(* holds: those of ThreadParts_proofs and of ProcessParts_proofs.          *)
(***************************************************************************)
EXTENDS Programs, ProcessParts_proofs, ThreadParts_proofs

-----------------------------------------------------------------------------
\* One instance of a daemon runs, SIGHUP does not end it, and of two processes in a cycle of
\* record locks one is refused, for any instances and any order of their steps.
THEOREM GoingOn == Spec => []OneGoesOn
<1> DEFINE Inv == /\ Run("Daemon") => DaemonInv
                  /\ Run("RecLocks") => RecLocksInv
<1>1. Init => Inv
  BY DaemonInit, RecLocksInit DEF Init, Run
<1>2. ASSUME Inv, [Next]_all PROVE Inv'
  <2>1. module' = module
    BY <1>2 DEF Next, all
  <2>2. ASSUME Run("Daemon") PROVE DaemonInv'
    <3>1. [Daemon_!Next]_(Daemon_!vars)
      BY <1>2, <2>2 DEF Next, Run, all, Daemon_!vars, Daemon_!signalled
    <3> QED
      BY <1>2, <2>2, <3>1, DaemonStep
  <2>3. ASSUME Run("RecLocks") PROVE RecLocksInv'
    <3>1. [RecLocks_!Next]_(RecLocks_!vars)
      BY <1>2, <2>3 DEF Next, Run, all, RecLocks_!vars
    <3> QED
      BY <1>2, <2>3, <3>1, RecLocksStep
  <2> QED
    BY <2>1, <2>2, <2>3 DEF Run
<1>3. Inv => OneGoesOn
  BY RunsAlone, RecLocksHold DEF OneGoesOn, DaemonInv
<1> QED
  BY <1>1, <1>2, <1>3, PTL DEF Spec

-----------------------------------------------------------------------------
\* Processes that wait for each other by pipes alternate, the coprocess answers each line, and
\* no command keeps the write end of another one's pipe, for any number of loops, lines and
\* calls of popen.
THEOREM HandedOver == Spec => []PipesHandOver
<1> DEFINE Inv == /\ Run("Turns") => TurnsInv
                  /\ Run("Coproc") => CoprocInv
                  /\ Run("Popen") => PopenInv
<1>1. Init => Inv
  BY TurnsInit, CoprocInit, PopenInit DEF Init, Run
<1>2. ASSUME Inv, [Next]_all PROVE Inv'
  <2>1. module' = module
    BY <1>2 DEF Next, all
  <2>2. ASSUME Run("Turns") PROVE TurnsInv'
    <3>1. [Turns_!Next]_(Turns_!vars)
      BY <1>2, <2>2 DEF Next, Run, all, Turns_!vars
    <3> QED
      BY <1>2, <2>2, <3>1, TurnsStep
  <2>3. ASSUME Run("Coproc") PROVE CoprocInv'
    <3>1. [Coproc_!Next]_(Coproc_!vars)
      BY <1>2, <2>3 DEF Next, Run, all, Coproc_!vars
    <3> QED
      BY <1>2, <2>3, <3>1, CoprocStep
  <2>4. ASSUME Run("Popen") PROVE PopenInv'
    <3>1. [Popen_!Next]_(Popen_!vars)
      BY <1>2, <2>4 DEF Next, Run, all, Popen_!vars
    <3> QED
      BY <1>2, <2>4, <3>1, PopenStep
  <2> QED
    BY <2>1, <2>2, <2>3, <2>4 DEF Run
<1>3. Inv => PipesHandOver
  BY TurnsHold, CoprocHold, PopenHold DEF PipesHandOver
<1> QED
  BY <1>1, <1>2, <1>3, PTL DEF Spec

-----------------------------------------------------------------------------
\* rot13c2.c copies each block whole and 14_21.c keeps its buffers apart, the memory streams are
\* what their mode makes of the file, and the pty program copies in order and leaves the terminal
\* as it was unless atexit failed, for any number of buffers, blocks, bytes and calls.
THEOREM CopiesRight == Spec => []CopiesAgree
<1> DEFINE Inv == /\ Run("AioCopy") => AioInv
                  /\ Run("MemStream") => MemInv
                  /\ Run("PtyCopy") => PtyInv
<1>1. Init => Inv
  BY AioInit, MemInit, PtyInit DEF Init, Run
<1>2. ASSUME Inv, [Next]_all PROVE Inv'
  <2>1. module' = module
    BY <1>2 DEF Next, all
  <2>2. ASSUME Run("AioCopy") PROVE AioInv'
    <3>1. [AioCopy_!Next]_(AioCopy_!vars)
      BY <1>2, <2>2 DEF Next, Run, all, AioCopy_!vars
    <3> QED
      BY <1>2, <2>2, <3>1, AioStep
  <2>3. ASSUME Run("MemStream") PROVE MemInv'
    <3>1. [MemStream_!Next]_(MemStream_!vars)
      BY <1>2, <2>3 DEF Next, Run, all, MemStream_!vars
    <3> QED
      BY <1>2, <2>3, <3>1, MemStep
  <2>4. ASSUME Run("PtyCopy") PROVE PtyInv'
    <3>1. [PtyCopy_!Next]_(PtyCopy_!vars)
      BY <1>2, <2>4 DEF Next, Run, all, PtyCopy_!vars, PtyCopy_!parent, PtyCopy_!slave
    <3> QED
      BY <1>2, <2>4, <3>1, PtyStep
  <2> QED
    BY <2>1, <2>2, <2>3, <2>4 DEF Run
<1>3. Inv => CopiesAgree
  BY AioHold, MemHold, PtyHold DEF CopiesAgree
<1> QED
  BY <1>1, <1>2, <1>3, PTL DEF Spec

-----------------------------------------------------------------------------
\* Each request has its own answer, each message is printed once and in order, and each limit
\* is the one that was asked for, for any requests, queues and clients.
THEOREM AnswersRight == Spec => []AnswersFit
<1> DEFINE Inv == /\ Run("FdPass") => FdPassInv
                  /\ Run("PollMsg") => PollInv
                  /\ Run("Uptime") => UptimeInv
                  /\ Run("Limits") => LimitsInv
<1>1. Init => Inv
  BY FdPassInit, PollInit, UptimeInit, LimitsInit DEF Init, Run
<1>2. ASSUME Inv, [Next]_all PROVE Inv'
  <2>1. module' = module
    BY <1>2 DEF Next, all
  <2>2. ASSUME Run("FdPass") PROVE FdPassInv'
    <3>1. [FdPass_!Next]_(FdPass_!vars)
      BY <1>2, <2>2 DEF Next, Run, all, FdPass_!vars, FdPass_!recv
    <3> QED
      BY <1>2, <2>2, <3>1, FdPassStep
  <2>3. ASSUME Run("PollMsg") PROVE PollInv'
    <3>1. [PollMsg_!Next]_(PollMsg_!vars)
      BY <1>2, <2>3 DEF Next, Run, all, PollMsg_!vars, PollMsg_!helpers
    <3> QED
      BY <1>2, <2>3, <3>1, PollStep
  <2>4. ASSUME Run("Uptime") PROVE UptimeInv'
    <3>1. [Uptime_!Next]_(Uptime_!vars)
      BY <1>2, <2>4 DEF Next, Run, all, Uptime_!vars, Uptime_!conn
    <3> QED
      BY <1>2, <2>4, <3>1, UptimeStep
  <2>5. ASSUME Run("Limits") PROVE LimitsInv'
    <3>1. [Limits_!Next]_(Limits_!vars)
      BY <1>2, <2>5 DEF Next, Run, all, Limits_!vars
    <3> QED
      BY <1>2, <2>5, <3>1, LimitsStep
  <2> QED
    BY <2>1, <2>2, <2>3, <2>4, <2>5 DEF Run
<1>3. Inv => AnswersFit
  BY FdPassHold, PollHold, UptimeHold, LimitsHold DEF AnswersFit
<1> QED
  BY <1>1, <1>2, <1>3, PTL DEF Spec

-----------------------------------------------------------------------------
\* Between the threads of mutex1.c, mutex2.c and mutex3.c no object is used after it was
\* freed, f_count counts the pointers, and the list holds what can be found, for any threads
\* and objects.
THEOREM CountedRight == Spec => []ObjectsCounted
<1> DEFINE Inv == /\ Run("FooObj") => FooObjInv
<1>1. Init => Inv
  BY FooObjInit DEF Init, Run
<1>2. ASSUME Inv, [Next]_all PROVE Inv'
  <2>1. module' = module
    BY <1>2 DEF Next, all
  <2>2. ASSUME Run("FooObj") PROVE FooObjInv'
    <3>1. [FooObj_!Next]_(FooObj_!vars)
      BY <1>2, <2>2 DEF Next, Run, all, FooObj_!vars, FooObj_!locks
    <3> QED
      BY <1>2, <2>2, <3>1, FooObjStep
  <2> QED
    BY <2>1, <2>2 DEF Run
<1>3. Inv => ObjectsCounted
  BY FooObjHold DEF ObjectsCounted
<1> QED
  BY <1>1, <1>2, <1>3, PTL DEF Spec

-----------------------------------------------------------------------------
\* The two-way list of the job queue is a list in both directions, and job_find gives only jobs
\* that are in it, for any jobs and any threads.
THEOREM QueueHolds == Spec => []QueueLinked
<1> DEFINE Inv == /\ Run("JobQueue") => QueueInv
<1>1. Init => Inv
  BY QueueInit DEF Init, Run
<1>2. ASSUME Inv, [Next]_all PROVE Inv'
  <2>1. module' = module
    BY <1>2 DEF Next, all
  <2>2. ASSUME Run("JobQueue") PROVE QueueInv'
    <3>1. [JobQueue_!Next]_(JobQueue_!vars)
      BY <1>2, <2>2 DEF Next, Run, all, JobQueue_!vars, JobQueue_!ptrs
    <3> QED
      BY <1>2, <2>2, <3>1, QueueStep
  <2> QED
    BY <2>1, <2>2 DEF Run
<1>3. Inv => QueueLinked
  BY QueueHold DEF QueueLinked
<1> QED
  BY <1>1, <1>2, <1>3, PTL DEF Spec

-----------------------------------------------------------------------------
\* A thread goes on from a condition variable, from the barrier and from its sleep for the
\* reason it waited for, and a value that getenv_r gave is its caller's own, for any threads,
\* messages, numbers and times.
THEOREM WaitedFor == Spec => []ThreadsWait
<1> DEFINE Inv == /\ Run("CondVar") => CondVarInv
                  /\ Run("BarrierSort") => BarrierInv
                  /\ Run("Timeout") => TimeoutInv
                  /\ Run("Getenv") => GetenvInv
<1>1. Init => Inv
  BY CondVarInit, BarrierInit, TimeoutInit, GetenvInit DEF Init, Run
<1>2. ASSUME Inv, [Next]_all PROVE Inv'
  <2>1. module' = module
    BY <1>2 DEF Next, all
  <2>2. ASSUME Run("CondVar") PROVE CondVarInv'
    <3>1. [CondVar_!Next]_(CondVar_!vars)
      BY <1>2, <2>2 DEF Next, Run, all, CondVar_!vars, CondVar_!msgs, CondVar_!sigs
    <3> QED
      BY <1>2, <2>2, <3>1, CondVarStep
  <2>3. ASSUME Run("BarrierSort") PROVE BarrierInv'
    <3>1. [BarrierSort_!Next]_(BarrierSort_!vars)
      BY <1>2, <2>3 DEF Next, Run, all, BarrierSort_!vars
    <3> QED
      BY <1>2, <2>3, <3>1, BarrierStep
  <2>4. ASSUME Run("Timeout") PROVE TimeoutInv'
    <3>1. [Timeout_!Next]_(Timeout_!vars)
      BY <1>2, <2>4 DEF Next, Run, all, Timeout_!vars
    <3> QED
      BY <1>2, <2>4, <3>1, TimeoutStep
  <2>5. ASSUME Run("Getenv") PROVE GetenvInv'
    <3>1. [Getenv_!Next]_(Getenv_!vars)
      BY <1>2, <2>5 DEF Next, Run, all, Getenv_!vars, Getenv_!locals
    <3> QED
      BY <1>2, <2>5, <3>1, GetenvStep
  <2> QED
    BY <2>1, <2>2, <2>3, <2>4, <2>5 DEF Run
<1>3. Inv => ThreadsWait
  BY CondVarHold, BarrierHold, TimeoutHold, GetenvHold DEF ThreadsWait
<1> QED
  BY <1>1, <1>2, <1>3, PTL DEF Spec

-----------------------------------------------------------------------------
\* No wakeup by a signal is lost by the programs that are written against it, abort, system
\* and sigtstp end as promised, whatever handlers run inside each other; and no timer of the list
\* of alarms runs early, is used after it was freed or waits without an alarm, unless the handler
\* came at the line of an insertion that TimersRun names, for any timers, seconds and signals.
THEOREM SignalsRight == Spec => []SignalsSeen
<1> DEFINE Inv == /\ Run("SignalPrograms") => SignalInv
                  /\ Run("AlarmList") => AlarmInv
<1>1. Init => Inv
  BY SignalInit, AlarmInit DEF Init, Run
<1>2. ASSUME Inv, [Next]_all PROVE Inv'
  <2>1. module' = module
    BY <1>2 DEF Next, all
  <2>2. ASSUME Run("SignalPrograms") PROVE SignalInv'
    <3>1. [SignalPrograms_!Next]_(SignalPrograms_!vars)
      BY <1>2, <2>2 DEF Next, Run, all, SignalPrograms_!vars, SignalPrograms_!memory
    <3> QED
      BY <1>2, <2>2, <3>1, SignalStep
  <2>3. ASSUME Run("AlarmList") PROVE AlarmInv'
    <3>1. [AlarmList_!Next]_(AlarmList_!vars)
      BY <1>2, <2>3 DEF Next, Run, all, AlarmList_!vars, AlarmList_!local, AlarmList_!lists
    <3> QED
      BY <1>2, <2>3, <3>1, AlarmStep
  <2> QED
    BY <2>1, <2>2, <2>3 DEF Run
<1>3. Inv => SignalsSeen
  BY SignalHold, AlarmHold DEF SignalsSeen
<1> QED
  BY <1>1, <1>2, <1>3, PTL DEF Spec

=============================================================================
