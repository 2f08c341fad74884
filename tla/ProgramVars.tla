------------------------------ MODULE ProgramVars -----------------------------
(***************************************************************************)
(* The constants of Programs, with what is assumed of them, and its        *)
(* variables.                                                              *)
(***************************************************************************)
EXTENDS Integers, Sequences, FiniteSets

CONSTANTS Chosen,                  \* the modules to run, by name
          Off, Null, Nil, Nobody,
          MaxCalls, MaxMsgs, MaxSpurious, MaxSignals,   \* bounds of several modules
          Threads, Objs, Ids,                      \* FooObj
          Workers, Jobs, MaxPuts,                  \* JobQueue
          Producers,                               \* CondVar, which has Workers too
          NTHR, TNUM, RandMax, LongMax,            \* BarrierSort
          SECTONSEC, Delay, MaxSec,                \* Timeout
          Callers, Wanted, Length, MAXSTRINGSZ,    \* Getenv
          Seconds,                                 \* SignalPrograms
          Timers, MaxSeconds, MaxTime,             \* AlarmList
          Instances,                               \* Daemon
          NLOOPS, Str,                             \* Turns
          Lines,                                   \* Coproc
          NFd, maxfd,                              \* Popen
          MaxIn, MaxOut,                           \* PtyCopy
          NBUF, Size, Bytes,                       \* AioCopy
          Types, Letters, MaxSize, MaxOps,         \* MemStream
          Requests, MAXLINE,                       \* FdPass
          NQ,                                      \* PollMsg
          Clients,                                 \* Uptime
          Sys, Path,                               \* Limits
          Configs, Addresses, Blocks, Header, MAXSLEEP, JOBNM_MAX, MaxName,   \* PrintSubmit
          Answers, IOBUFSZ                         \* PrinterAnswer

ASSUME FooObjAssumption == IsFiniteSet(Threads) /\ Nil \notin Threads \cup Objs
ASSUME QueueAssumption == Nil \notin Jobs
ASSUME GetenvAssumption == Nobody \notin Callers
ASSUME CondVarAssumption ==
  /\ Workers \cap Producers = {} /\ {"main", "thr_fn"} \cap (Workers \cup Producers) = {}
  /\ Nobody \notin Workers \cup Producers \cup {"main", "thr_fn"}
ASSUME BarrierAssumption ==
  NTHR \in Nat \ {0} /\ TNUM \in Nat \ {0} /\ RandMax \in Nat /\ LongMax \in Nat /\ RandMax < LongMax
ASSUME TimeoutAssumption == SECTONSEC \in Nat \ {0} /\ Delay \in Nat
ASSUME DaemonAssumption == Nobody \notin Instances
ASSUME TurnsAssumption == NLOOPS \in Nat \ {0} /\ NLOOPS % 2 = 0 /\ Str \in Nat
ASSUME AlarmAssumption == Timers \subseteq Nat /\ MaxSeconds \in Nat /\ Null \notin Nat
ASSUME SecondsAssumption == Seconds \in Nat \ {0}
ASSUME PopenAssumption == NFd \in Nat /\ NFd > 2 /\ MaxCalls \in Nat
ASSUME AioAssumption == NBUF \in Nat \ {0} /\ Size \in Nat /\ Bytes \subseteq Nat
ASSUME PollAssumption == NQ \in Nat \ {0} /\ MaxMsgs \in Nat
ASSUME FdPassAssumption ==
  MAXLINE \in Nat /\ MAXLINE > 1 /\ \A x \in Requests : x.size \in Nat /\ x.size > 2

VARIABLES module, pc, prog, variant, ptr, calls, live, f_count, f_id, f_lock, fh, hashlock,
          q_head, q_tail, j_next, j_prev, j_id, readers, jp, puts, queue, workq, mp, lock,
          next, processed, quitflag, pending, sent, mask, spurious, nums, snums, started,
          arrived, idx, clock, now, when, tip, helper, wake, owner, depth, retried, name,
          once, has, buf, result, st, at, stack, disp, saved, oldmask, env, flag, alarm,
          input, flushed, kid, status, t, cur, cur_time, ended_at, head, called, missed,
          held, told, leader, fds, hup, term, thread, pidfile, ending, signals, i, pfd1,
          pfd2, area, counter, out, ppc, cpc, n, fd1, fd2, line, stdout, std, pfd, type,
          childpid, pid, opts, echo, tty, registered, stdin, nsent, ptym, handler,
          sigcaught, infile, outfile, off, numop, bufs, flags, vsize, curpos, got, file,
          kept, server, c2s, s2c, request, opened, newfd, lost, hpc, m, sock, mpc, ready,
          printed, closed, net, srv, cl, errno, config, client, aip, numsec, block, jobnm,
          wire, daemon, nleft, spool, answer, stalled, bp, bufsz, datsz, success, pieces,
          readerr, relinked
===============================================================================
