------------------------------- MODULE Programs -------------------------------
(***************************************************************************)
(* The smaller programs of the book, one module each.  The initial state   *)
(* chooses the module that runs.  A module finds its constants and its     *)
(* variables here under its own names; the variables of the others are     *)
(* Off.                                                                    *)
(***************************************************************************)
EXTENDS ThreadParts, ProcessParts

all == <<module, pc, prog, variant, ptr, calls, live, f_count, f_id, f_lock, fh, hashlock,
         q_head, q_tail, j_next, j_prev, j_id, readers, jp, puts, queue, workq, mp, lock,
         next, processed, quitflag, pending, sent, mask, spurious, nums, snums, started,
         arrived, idx, clock, now, when, tip, helper, wake, owner, depth, retried, name,
         once, has, buf, result, st, at, stack, disp, saved, oldmask, env, flag, alarm,
         input, flushed, kid, status, t, cur, cur_time, ended_at, head, called, missed,
         held, told, leader, fds, hup, term, thread, pidfile, ending, signals, i, pfd1,
         pfd2, area, counter, out, ppc, cpc, n, fd1, fd2, line, stdout, std, pfd, type,
         childpid, pid, opts, echo, tty, registered, stdin, nsent, ptym, handler, sigcaught,
         infile, outfile, off, numop, bufs, flags, vsize, curpos, got, file, kept, server,
         c2s, s2c, request, opened, newfd, lost, hpc, m, sock, mpc, ready, printed, closed,
         net, srv, cl, errno, config, client, aip, numsec, block, jobnm, wire, daemon,
         nleft, spool, answer, stalled, bp, bufsz, datsz, success, pieces, readerr, relinked>>

PrintSubmit_ == INSTANCE PrintSubmit
PrinterAnswer_ == INSTANCE PrinterAnswer

-----------------------------------------------------------------------------
Run(c) == module = c

\* P holds of the variables that the running module does not have
Others(P(_)) ==
  /\ module \notin {"FooObj", "JobQueue", "CondVar", "BarrierSort", "Timeout", "Getenv",
                 "SignalPrograms", "AlarmList", "RecLocks", "Daemon", "Turns", "Popen",
                 "AioCopy", "MemStream", "Uptime", "Limits", "PrinterAnswer"} => P(pc)
  /\ module \notin {"CondVar", "Getenv", "SignalPrograms", "RecLocks", "Daemon", "Turns",
                 "Coproc", "PtyCopy", "AioCopy", "PollMsg", "Uptime", "Limits"} => P(prog)
  /\ module \notin {"FooObj", "Getenv", "MemStream", "FdPass"} => P(calls)
  /\ module \notin {"Turns", "AioCopy", "PollMsg", "PrinterAnswer"} => P(i)
  /\ module \notin {"JobQueue", "PollMsg", "Uptime"} => P(queue)
  /\ module \notin {"CondVar", "SignalPrograms", "Daemon"} => P(pending)
  /\ module \notin {"CondVar", "SignalPrograms", "PrinterAnswer"} => P(sent)
  /\ module \notin {"Getenv", "PtyCopy", "MemStream"} => P(buf)
  /\ module \notin {"SignalPrograms", "RecLocks", "Popen"} => P(st)
  /\ module \notin {"SignalPrograms", "AlarmList", "Uptime"} => P(alarm)
  /\ module \notin {"Coproc", "PtyCopy", "FdPass"} => P(cpc)
  /\ module \notin {"Coproc", "Popen", "Limits"} => P(n)
  /\ module \notin {"CondVar", "Daemon"} => P(lock)
  /\ module \notin {"CondVar", "SignalPrograms"} => P(mask)
  /\ module \notin {"CondVar", "PollMsg"} => P(spurious)
  /\ module \notin {"CondVar", "AlarmList"} => P(next)
  /\ module \notin {"PtyCopy", "PrintSubmit"} => P(readerr)
  /\ module \notin {"Timeout", "AlarmList"} => P(now)
  /\ module \notin {"Timeout", "Getenv"} => P(owner)
  /\ module \notin {"Getenv", "FdPass"} => P(name)
  /\ module \notin {"SignalPrograms", "FdPass"} => P(status)
  /\ module \notin {"RecLocks", "Limits"} => P(told)
  /\ module \notin {"Daemon", "Popen"} => P(fds)
  /\ module \notin {"Turns", "Coproc"} => P(out)
  /\ module \notin {"Coproc", "PtyCopy"} => P(ppc) /\ P(stdout)
  /\ module \notin {"MemStream", "Uptime"} => P(got)
  /\ module \notin {"Uptime", "PrinterAnswer"} => P(net)
  /\ ~Run("FooObj") => P(variant) /\ P(ptr) /\ P(live) /\ P(f_count) /\ P(f_id) /\ P(f_lock)
                       /\ P(fh) /\ P(hashlock)
  /\ ~Run("JobQueue") => P(q_head) /\ P(q_tail) /\ P(j_next) /\ P(j_prev) /\ P(j_id)
                         /\ P(readers) /\ P(jp) /\ P(puts)
  /\ ~Run("CondVar") => P(workq) /\ P(mp) /\ P(processed) /\ P(quitflag)
  /\ ~Run("BarrierSort") => P(nums) /\ P(snums) /\ P(started) /\ P(arrived) /\ P(idx)
  /\ ~Run("Timeout") => P(clock) /\ P(when) /\ P(tip) /\ P(helper) /\ P(wake) /\ P(depth)
                        /\ P(retried)
  /\ ~Run("Getenv") => P(once) /\ P(has) /\ P(result)
  /\ ~Run("SignalPrograms") => P(at) /\ P(stack) /\ P(disp) /\ P(saved) /\ P(oldmask) /\ P(env)
                               /\ P(flag) /\ P(input) /\ P(flushed) /\ P(kid)
  /\ ~Run("AlarmList") => P(t) /\ P(cur) /\ P(cur_time) /\ P(ended_at) /\ P(head) /\ P(called)
                          /\ P(missed) /\ P(relinked)
  /\ ~Run("RecLocks") => P(held)
  /\ ~Run("Daemon") => P(leader) /\ P(hup) /\ P(term) /\ P(thread) /\ P(pidfile) /\ P(ending)
                       /\ P(signals)
  /\ ~Run("Turns") => P(pfd1) /\ P(pfd2) /\ P(area) /\ P(counter)
  /\ ~Run("Coproc") => P(fd1) /\ P(fd2) /\ P(line)
  /\ ~Run("Popen") => P(std) /\ P(pfd) /\ P(type) /\ P(childpid) /\ P(pid)
  /\ ~Run("PtyCopy") => P(opts) /\ P(echo) /\ P(tty) /\ P(registered) /\ P(stdin) /\ P(nsent)
                        /\ P(ptym) /\ P(handler) /\ P(sigcaught)
  /\ ~Run("AioCopy") => P(infile) /\ P(outfile) /\ P(off) /\ P(numop) /\ P(bufs)
  /\ ~Run("MemStream") => P(flags) /\ P(vsize) /\ P(curpos) /\ P(file) /\ P(kept)
  /\ ~Run("FdPass") => P(server) /\ P(c2s) /\ P(s2c) /\ P(request) /\ P(opened) /\ P(newfd)
                       /\ P(lost)
  /\ ~Run("PollMsg") => P(hpc) /\ P(m) /\ P(sock) /\ P(mpc) /\ P(ready) /\ P(printed)
  /\ ~Run("Uptime") => P(closed) /\ P(srv) /\ P(cl)
  /\ ~Run("Limits") => P(errno)
  /\ ~Run("PrintSubmit") => P(config) /\ P(client) /\ P(aip) /\ P(numsec) /\ P(block)
                            /\ P(jobnm) /\ P(wire) /\ P(daemon) /\ P(nleft) /\ P(spool)
                            /\ P(answer) /\ P(stalled)
  /\ ~Run("PrinterAnswer") => P(bp) /\ P(bufsz) /\ P(datsz) /\ P(success) /\ P(pieces)

IsOff(v) == v = Off
Stays(v) == v' = v

Init ==
  /\ module \in Chosen
  /\ Run("FooObj") => FooObj_!Init
  /\ Run("JobQueue") => JobQueue_!Init
  /\ Run("CondVar") => CondVar_!Init
  /\ Run("BarrierSort") => BarrierSort_!Init
  /\ Run("Timeout") => Timeout_!Init
  /\ Run("Getenv") => Getenv_!Init
  /\ Run("SignalPrograms") => SignalPrograms_!Init
  /\ Run("AlarmList") => AlarmList_!Init
  /\ Run("RecLocks") => RecLocks_!Init
  /\ Run("Daemon") => Daemon_!Init
  /\ Run("Turns") => Turns_!Init
  /\ Run("Coproc") => Coproc_!Init
  /\ Run("Popen") => Popen_!Init
  /\ Run("PtyCopy") => PtyCopy_!Init
  /\ Run("AioCopy") => AioCopy_!Init
  /\ Run("MemStream") => MemStream_!Init
  /\ Run("FdPass") => FdPass_!Init
  /\ Run("PollMsg") => PollMsg_!Init
  /\ Run("Uptime") => Uptime_!Init
  /\ Run("Limits") => Limits_!Init
  /\ Run("PrintSubmit") => PrintSubmit_!Init
  /\ Run("PrinterAnswer") => PrinterAnswer_!Init
  /\ Others(IsOff)

Next ==
  /\ UNCHANGED module
  /\ \/ Run("FooObj") /\ FooObj_!Next
     \/ Run("JobQueue") /\ JobQueue_!Next
     \/ Run("CondVar") /\ CondVar_!Next
     \/ Run("BarrierSort") /\ BarrierSort_!Next
     \/ Run("Timeout") /\ Timeout_!Next
     \/ Run("Getenv") /\ Getenv_!Next
     \/ Run("SignalPrograms") /\ SignalPrograms_!Next
     \/ Run("AlarmList") /\ AlarmList_!Next
     \/ Run("RecLocks") /\ RecLocks_!Next
     \/ Run("Daemon") /\ Daemon_!Next
     \/ Run("Turns") /\ Turns_!Next
     \/ Run("Coproc") /\ Coproc_!Next
     \/ Run("Popen") /\ Popen_!Next
     \/ Run("PtyCopy") /\ PtyCopy_!Next
     \/ Run("AioCopy") /\ AioCopy_!Next
     \/ Run("MemStream") /\ MemStream_!Next
     \/ Run("FdPass") /\ FdPass_!Next
     \/ Run("PollMsg") /\ PollMsg_!Next
     \/ Run("Uptime") /\ Uptime_!Next
     \/ Run("Limits") /\ Limits_!Next
     \/ Run("PrintSubmit") /\ PrintSubmit_!Next
     \/ Run("PrinterAnswer") /\ PrinterAnswer_!Next
  /\ Others(Stays)

Spec == Init /\ [][Next]_all /\ WF_all(Next)
-----------------------------------------------------------------------------
\* The reference counts of mutex1.c to mutex3.c are the pointers that exist, nobody uses an
\* object that was freed, and the hash list holds the objects that can be found
\* (foo_alloc, foo_hold, foo_find, foo_rele).
ObjectsCounted ==
  Run("FooObj") => FooObj_!NoUseAfterFree /\ FooObj_!Counted /\ FooObj_!ListIsLive

\* The job queue of rwlock.c is linked both ways in its order after any calls, and a worker
\* finds queued jobs of its own only (job_insert, job_append, job_remove, job_find).
QueueLinked == Run("JobQueue") => JobQueue_!WellLinked /\ JobQueue_!FoundIsQueued

\* Threads go on only when what they wait for is there, and leave each other's data alone: at
\* the condition of condvar.c and suspend.c, the barrier of barrier.c, the time of timeout.c
\* and the buffers of getenv2.c and getenv3.c.
ThreadsWait ==
  /\ Run("CondVar") => CondVar_!WaitsForReason
  /\ Run("BarrierSort") => BarrierSort_!MergeSorts
  /\ Run("Timeout") => Timeout_!NotBeforeDue
  /\ Run("Getenv") => Getenv_!ValueIsOwn

\* Signals: no wakeup is lost, a process ends as abort, system and their callers were
\* promised, and no timer of p5.c runs its proc early, nor twice or never unless TimersRun
\* names the step of an insertion at which the handler came.
SignalsSeen ==
  /\ Run("SignalPrograms") => SignalPrograms_!WakeupNotLost /\ SignalPrograms_!EndsAsPromised
  /\ Run("AlarmList") => AlarmList_!TimersRun

\* One instance of a daemon runs, and SIGHUP does not end it (already_running, daemonize,
\* reread.c, reread2.c); of two processes in a cycle of record locks one is refused.
OneGoesOn ==
  /\ Run("Daemon") => Daemon_!OneDaemon /\ Daemon_!HupIgnored
  /\ Run("RecLocks") => RecLocks_!OneIsRefused

\* Processes joined by pipes take turns, answer line by line, and leave no write end open in
\* another command (TELL_WAIT, devzero.c, pipe4.c with its coprocess, popen and pclose).
PipesHandOver ==
  /\ Run("Turns") => Turns_!TurnsAlternate
  /\ Run("Coproc") => Coproc_!CoprocAnswers
  /\ Run("Popen") => Popen_!PcloseReturns

\* What is copied comes out as it was given: by rot13c2.c whole, by 14_21.c, which says nothing
\* of what a failed write left out, with no buffer used for two blocks, by the memory streams
\* of fmemopen.c as a stream of their mode, and by the pty program in order, which frees the
\* terminal.
CopiesAgree ==
  /\ Run("AioCopy") => AioCopy_!BuffersApart /\ AioCopy_!CopiedWhole
  /\ Run("MemStream") => MemStream_!StreamAgrees
  /\ Run("PtyCopy") => PtyCopy_!CopiedInOrder /\ PtyCopy_!TerminalFreed

\* Each request gets its own answer and each message is printed once: descriptors passed by
\* open.fe and opend.fe, queues bridged to poll by pollmsg.c, and the uptime servers.  And
\* options.c and conf.c print for each limit what its own call said (pr_sysconf, pr_pathconf).
AnswersFit ==
  /\ Run("FdPass") => FdPass_!AnswersMatch
  /\ Run("PollMsg") => PollMsg_!PrintedInOrder
  /\ Run("Uptime") => Uptime_!UptimeAnswered
  /\ Run("Limits") => Limits_!EachLimitIsItsOwn

\* The file of the print command is spooled as it is, and a job counts as printed only if the
\* printer accepted it (submit_file, client_thread, printer_status).
PrintedAsAsked ==
  /\ Run("PrintSubmit") => PrintSubmit_!SpooledIsFile
  /\ Run("PrinterAnswer") => PrinterAnswer_!PrintedMeansAccepted

\* the end of each program
Ended ==
  /\ Run("FooObj") => FooObj_!Done
  /\ Run("CondVar") => CondVar_!Done
  /\ Run("BarrierSort") => BarrierSort_!Done
  /\ Run("Timeout") => Timeout_!Done
  /\ Run("Getenv") => Getenv_!Done
  /\ Run("SignalPrograms") => SignalPrograms_!Done
  /\ Run("AlarmList") => AlarmList_!Done
  /\ Run("RecLocks") => RecLocks_!Done
  /\ Run("Daemon") => Daemon_!Done
  /\ Run("Turns") => Turns_!Done
  /\ Run("Coproc") => Coproc_!Done
  /\ Run("Popen") => Popen_!Done
  /\ Run("PtyCopy") => PtyCopy_!Done
  /\ Run("AioCopy") => AioCopy_!Done
  /\ Run("MemStream") => MemStream_!Done
  /\ Run("FdPass") => FdPass_!Done
  /\ Run("PollMsg") => PollMsg_!Done
  /\ Run("Uptime") => Uptime_!Done
  /\ Run("Limits") => Limits_!Done
  /\ Run("PrintSubmit") => PrintSubmit_!Done

\* No program waits for ever where its code does not ask for it: each comes to its end, or to
\* the one wait that its module names in Done.  (The job queue only has calls.)  The print
\* command whose file can no longer be read is named too: it reads it again and again.
EachEnds == <>Ended
=============================================================================
