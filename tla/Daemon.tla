------------------------------- MODULE Daemon -------------------------------
(***************************************************************************)
(* The daemons of daemons/reread.c (a thread waits for the signals),       *)
(* reread2.c (signal handlers) and ch13/13_7.c, with daemonize of init.c   *)
(* and already_running of single.c.  Several instances are started; any    *)
(* of them may be killed.  A record lock belongs to one process and goes   *)
(* with it.  The rest of the daemon is external: it ends at any time.      *)
(***************************************************************************)
EXTENDS Naturals, FiniteSets

CONSTANTS Instances,
          Nobody,        \* no holder of the lock
          Programs,      \* of {"reread", "reread2", "13_7"}
          MaxSignals     \* bound: signals that are sent

VARIABLES prog,
          pc,            \* per instance
          leader,        \* is it a session leader?  One that is may get a terminal
          fds,           \* what its descriptors 0, 1, 2 are, in order
          hup, term,     \* the dispositions of SIGHUP and SIGTERM
          pending,       \* the signals it has blocked
          thread,        \* of reread: "none", "sigwait", "gone"
          lock, pidfile, \* the holder of the record lock; what the file holds
          ending,        \* how an instance ended
          signals        \* sent

signalled == <<hup, term, pending, thread>>
vars == <<prog, pc, leader, fds, signalled, lock, pidfile, ending, signals>>

All(v) == [d \in Instances |-> v]
Init ==
  /\ prog \in Programs
  /\ pc = All("fork1") /\ leader = All(FALSE) /\ fds = All("inherited")
  /\ hup = All("default") /\ term = All("default") /\ pending = All({})
  /\ thread = All("none") /\ ending = All("none")
  /\ lock = Nobody /\ pidfile = Nobody
  /\ signals = 0

Ended(d) == pc[d] = "ended"
Goto(d, l) == pc' = [pc EXCEPT ![d] = l] /\ UNCHANGED <<ending, lock>>
End(d, how) == /\ pc' = [pc EXCEPT ![d] = "ended"]
               /\ ending' = [ending EXCEPT ![d] = how]
               /\ lock' = IF lock = d THEN Nobody ELSE lock
\* a system call that fails ends the program
GotoOrQuit(d, l) == Goto(d, l) \/ End(d, "error")
At(d, l) == pc[d] = l

\* daemonize: the child of the first fork leads a new session, the child of the second
\* one does not; SIGHUP is ignored, as the end of the leader may send it
Fork1(d) ==
  /\ At(d, "fork1")
  /\ GotoOrQuit(d, "fork2")
  /\ leader' = [leader EXCEPT ![d] = TRUE]
  /\ hup' = [hup EXCEPT ![d] = "ignore"]
  /\ UNCHANGED <<prog, fds, term, pending, thread, pidfile, signals>>

\* mutant: no second fork
Fork2Not(d) ==
  /\ At(d, "fork2")
  /\ GotoOrQuit(d, "close")
  /\ UNCHANGED <<prog, leader, fds, signalled, pidfile, signals>>

Fork2(d) ==
  /\ At(d, "fork2")
  /\ GotoOrQuit(d, "close")
  /\ leader' = [leader EXCEPT ![d] = FALSE]
  /\ UNCHANGED <<prog, fds, signalled, pidfile, signals>>

\* every descriptor is closed, then 0, 1 and 2 are the null device
OpenNull(d) ==
  /\ At(d, "close")
  /\ GotoOrQuit(d, "open")
  /\ fds' = [fds EXCEPT ![d] = "null"]
  /\ UNCHANGED <<prog, leader, signalled, pidfile, signals>>

\* mutant: no lock: a pid in the file stands for a running daemon
LockFileByPid(d) ==
  /\ At(d, "open")
  /\ IF pidfile = Nobody THEN Goto(d, "write") ELSE End(d, "running")
  /\ UNCHANGED <<prog, leader, fds, signalled, pidfile, signals>>

\* already_running: the lock is tried without waiting
LockFile(d) ==
  /\ At(d, "open")
  /\ IF lock = Nobody
     THEN \/ /\ pc' = [pc EXCEPT ![d] = "write"] /\ lock' = d /\ UNCHANGED ending
          \/ End(d, "error")
     ELSE End(d, "running")
  /\ UNCHANGED <<prog, leader, fds, signalled, pidfile, signals>>

Truncate(d) ==
  /\ At(d, "write")
  /\ pidfile' = Nobody
  /\ Goto(d, "writePid")
  /\ UNCHANGED <<prog, leader, fds, signalled, signals>>

WritePid(d) ==
  /\ At(d, "writePid")
  /\ pidfile' = d
  /\ Goto(d, IF prog = "reread2" THEN "catchTerm" ELSE "default")
  /\ UNCHANGED <<prog, leader, fds, signalled, signals>>

\* reread2.c: the two handlers
CatchTerm(d) ==
  /\ At(d, "catchTerm")
  /\ GotoOrQuit(d, "catchHup")
  /\ term' = [term EXCEPT ![d] = "sigterm"]
  /\ UNCHANGED <<prog, leader, fds, hup, pending, thread, pidfile, signals>>

CatchHup(d) ==
  /\ At(d, "catchHup")
  /\ GotoOrQuit(d, "rest")
  /\ hup' = [hup EXCEPT ![d] = "sighup"]
  /\ UNCHANGED <<prog, leader, fds, term, pending, thread, pidfile, signals>>

\* reread.c: SIGHUP has its default again before it is blocked
RestoreHup(d) ==
  /\ At(d, "default")
  /\ GotoOrQuit(d, "mask")
  /\ hup' = [hup EXCEPT ![d] = "default"]
  /\ UNCHANGED <<prog, leader, fds, term, pending, thread, pidfile, signals>>

BlockAll(d) ==
  /\ At(d, "mask")
  /\ GotoOrQuit(d, "create")
  /\ hup' = [hup EXCEPT ![d] = "blocked"]
  /\ term' = [term EXCEPT ![d] = "blocked"]
  /\ UNCHANGED <<prog, leader, fds, pending, thread, pidfile, signals>>

CreateThread(d) ==
  /\ At(d, "create")
  /\ GotoOrQuit(d, "rest")
  /\ thread' = [thread EXCEPT ![d] = "sigwait"]
  /\ UNCHANGED <<prog, leader, fds, hup, term, pending, pidfile, signals>>

\* the thread: it waits for the next signal again, but not in 13_7.c
Sigwait(d) ==
  /\ thread[d] = "sigwait" /\ ~Ended(d)
  /\ \E s \in pending[d] :
       /\ pending' = [pending EXCEPT ![d] = @ \ {s}]
       /\ IF s = "TERM" THEN End(d, "term") /\ UNCHANGED thread
          ELSE /\ thread' = [thread EXCEPT ![d] = IF prog = "13_7" THEN "gone" ELSE "sigwait"]
               /\ UNCHANGED <<pc, ending, lock>>
  /\ UNCHANGED <<prog, leader, fds, hup, term, pidfile, signals>>

Rest(d) ==
  /\ At(d, "rest")
  /\ End(d, "exit")
  /\ UNCHANGED <<prog, leader, fds, signalled, pidfile, signals>>

\* a signal from outside: default, ignored, blocked or caught
Signal(d, s) ==
  LET how == IF s = "HUP" THEN hup[d] ELSE term[d]
  IN  /\ ~Ended(d) /\ signals < MaxSignals
      /\ signals' = signals + 1
      /\ pending' = IF how = "blocked" THEN [pending EXCEPT ![d] = @ \cup {s}] ELSE pending
      /\ IF how = "default" \/ s = "KILL" THEN End(d, s)
         ELSE IF how = "sigterm" THEN End(d, "term")
         ELSE UNCHANGED <<pc, ending, lock>>
      /\ UNCHANGED <<prog, leader, fds, hup, term, thread, pidfile>>

Next == \E d \in Instances :
  \/ Fork1(d) \/ Fork2(d) \/ OpenNull(d) \/ LockFile(d) \/ Truncate(d) \/ WritePid(d)
  \/ CatchTerm(d) \/ CatchHup(d) \/ RestoreHup(d) \/ BlockAll(d) \/ CreateThread(d)
  \/ Sigwait(d) \/ Rest(d)
  \/ \E s \in {"HUP", "TERM", "KILL"} : Signal(d, s)
Spec == Init /\ [][Next]_vars
Done == \A d \in Instances : Ended(d)
-----------------------------------------------------------------------------
Running(d) == pc[d] \in {"catchTerm", "catchHup", "default", "mask", "create", "rest"}

\* One instance runs at a time, whatever was killed before; the lock file holds its pid,
\* and it has no terminal: it leads no session and its descriptors are the null device.
OneDaemon ==
  \A d \in Instances : Running(d) =>
    /\ \A e \in Instances \ {d} : ~Running(e)
    /\ pidfile = d
    /\ ~leader[d] /\ fds[d] = "null"

\* Once it has its lock, SIGHUP ends an instance only before daemonize ignores it, or in
\* reread.c between the return to the default and the block.
HupIgnored ==
  \A d \in Instances : hup[d] = "default" /\ ~Ended(d) => pc[d] \in {"fork1", "mask"}
=============================================================================
