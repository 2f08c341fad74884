------------------------------ MODULE PtyCopy ------------------------------
(***************************************************************************)
(* The pty program: pty/main.c and pty/loop.c.  The parent copies the pty  *)
(* master to stdout, its child copies stdin to the master, and either ends *)
(* the other with SIGTERM.  A kill is delivered at once: before signal_intr*)
(* it ends the parent, later it interrupts the read only if the parent is  *)
(* in it.  What the slave sends is numbered 1, 2, ... in its order.        *)
(***************************************************************************)
EXTENDS Naturals, Sequences

CONSTANTS MaxIn, MaxOut      \* bounds: blocks on stdin, blocks the program writes

VARIABLES opts,              \* the options: interactive, driver, noecho, ignoreeof
          ppc, cpc,          \* parent; child of loop
          prog,              \* "none", "start" (before execvp), "runs", "gone"
          echo,              \* does the slave's line discipline echo?
          tty, registered,   \* the user's terminal; is tty_atexit registered?
          stdin, nsent,      \* blocks left on stdin; blocks the slave sent
          ptym, stdout,      \* to be read from the master; copied
          buf,               \* the parent's buffer
          handler, sigcaught,
          readerr            \* did a read of the master fail?

parent == <<ppc, stdout, buf, handler, sigcaught, readerr>>
slave == <<prog, echo, nsent, ptym>>
vars == <<opts, parent, cpc, slave, tty, registered, stdin>>

Init ==
  /\ opts \in [interactive : BOOLEAN, driver : BOOLEAN, noecho : BOOLEAN, ignoreeof : BOOLEAN]
  /\ ppc = "pty_fork" /\ cpc = "none" /\ prog = "none"
  /\ echo = TRUE
  /\ tty = "cooked" /\ registered = FALSE
  /\ stdin \in 0 .. MaxIn /\ nsent = 0
  /\ ptym = <<>> /\ stdout = <<>> /\ buf = <<>>
  /\ handler = FALSE /\ sigcaught = FALSE /\ readerr = FALSE

\* exit runs tty_atexit in each process that was forked after atexit
Exit == tty' = IF registered THEN "cooked" ELSE tty
Goto(l) == ppc' = l
Sends == nsent' = nsent + 1 /\ ptym' = Append(ptym, nsent + 1)

\* tcgetattr, ioctl or pty_fork may fail
PtyFork ==
  /\ ppc = "pty_fork"
  /\ \/ Goto("raw") /\ prog' = "start"
     \/ Goto("failed") /\ UNCHANGED prog
  /\ UNCHANGED <<opts, cpc, stdout, buf, handler, sigcaught, readerr, echo, nsent, ptym,
                 tty, registered, stdin>>

\* the program's process: set_noecho and execvp, either of which may end it
set_noecho ==
  /\ prog = "start"
  /\ \/ prog' = "runs" /\ echo' = ~opts.noecho /\ UNCHANGED <<nsent, ptym>>
     \/ prog' = "gone" /\ UNCHANGED <<echo, nsent, ptym>>
  /\ UNCHANGED <<opts, parent, cpc, tty, registered, stdin>>

\* mutant: no atexit
TtyRawOnly ==
  /\ ppc = "raw"
  /\ Goto("driver")
  /\ tty' = IF opts.interactive /\ ~opts.driver THEN "raw" ELSE tty
  /\ UNCHANGED <<opts, cpc, stdout, buf, handler, sigcaught, readerr, slave,
                 stdin, registered>>

\* the terminal is set to raw mode unless a driver takes its place; a process that cannot
\* register tty_atexit ends and leaves it so
TtyRaw ==
  /\ ppc = "raw"
  /\ IF opts.interactive /\ ~opts.driver
     THEN \/ Goto("failed") /\ UNCHANGED <<tty, registered>>
          \/ /\ tty' = "raw"
             /\ \/ Goto("driver") /\ registered' = TRUE
                \/ Goto("noAtexit") /\ UNCHANGED registered
     ELSE Goto("driver") /\ UNCHANGED <<tty, registered>>
  /\ UNCHANGED <<opts, cpc, stdout, buf, handler, sigcaught, readerr, slave, stdin>>

DoDriver ==
  /\ ppc = "driver"
  /\ \/ Goto("fork") /\ UNCHANGED tty
     \/ opts.driver /\ Goto("failed") /\ Exit
  /\ UNCHANGED <<opts, cpc, stdout, buf, handler, sigcaught, readerr, slave,
                 registered, stdin>>

Fork ==
  /\ ppc = "fork"
  /\ \/ Goto("handler") /\ cpc' = "read" /\ UNCHANGED tty
     \/ Goto("failed") /\ Exit /\ UNCHANGED cpc
  /\ UNCHANGED <<opts, stdout, buf, handler, sigcaught, readerr, slave, registered, stdin>>

signal_intr ==
  /\ ppc = "handler"
  /\ handler' = TRUE
  /\ Goto("loop")
  /\ UNCHANGED <<opts, cpc, stdout, buf, sigcaught, readerr, slave, tty, registered, stdin>>

CallRead ==
  /\ ppc = "loop"
  /\ Goto("read")
  /\ UNCHANGED <<opts, cpc, stdout, buf, handler, sigcaught, readerr, slave,
                 tty, registered, stdin>>

\* data first, then the end when the program is gone; an error ends the loop, too
ReadMaster ==
  /\ ppc = "read"
  /\ \/ /\ ptym # <<>>
        /\ \E n \in 1 .. Len(ptym) : /\ buf' = SubSeq(ptym, 1, n)
                                     /\ ptym' = SubSeq(ptym, n + 1, Len(ptym))
        /\ Goto("write") /\ UNCHANGED readerr
     \/ /\ ptym = <<>> /\ prog = "gone"
        /\ Goto("after") /\ UNCHANGED <<buf, ptym, readerr>>
     \/ Goto("after") /\ readerr' = TRUE /\ UNCHANGED <<buf, ptym>>
  /\ UNCHANGED <<opts, cpc, stdout, handler, sigcaught, prog, echo, nsent, tty, registered,
                 stdin>>

\* writen may fail: stdout does, or the signal interrupts it
WriteStdout ==
  /\ ppc = "write"
  /\ buf' = <<>>
  /\ \/ Goto("loop") /\ stdout' = stdout \o buf /\ UNCHANGED tty
     \/ Goto("failed") /\ Exit /\ UNCHANGED stdout
  /\ UNCHANGED <<opts, cpc, handler, sigcaught, readerr, slave, registered, stdin>>

\* mutant: the child is told only if it has ended itself
KillChildWhenCaught ==
  /\ ppc = "after"
  /\ cpc' = IF sigcaught THEN "gone" ELSE cpc
  /\ Goto("exit")
  /\ UNCHANGED <<opts, stdout, buf, handler, sigcaught, readerr, slave,
                 tty, registered, stdin>>

\* the child is told to end if it is not the one who said so
KillChild ==
  /\ ppc = "after"
  /\ cpc' = IF ~sigcaught THEN "gone" ELSE cpc
  /\ Goto("exit")
  /\ UNCHANGED <<opts, stdout, buf, handler, sigcaught, readerr, slave,
                 tty, registered, stdin>>

ExitParent ==
  /\ ppc = "exit"
  /\ Goto("exit0")
  /\ Exit
  /\ UNCHANGED <<opts, cpc, stdout, buf, handler, sigcaught, readerr, slave,
                 registered, stdin>>

\* the child: a read error ends it without a word to the parent
ReadStdin ==
  /\ cpc = "read"
  /\ \/ stdin > 0 /\ stdin' = stdin - 1 /\ cpc' = "write"
     \/ stdin = 0 /\ cpc' = (IF opts.ignoreeof THEN "exit" ELSE "notify") /\ UNCHANGED stdin
     \/ cpc' = "exit" /\ UNCHANGED stdin
  /\ UNCHANGED <<opts, parent, slave, tty, registered>>

WriteMaster ==
  /\ cpc = "write"
  /\ \/ cpc' = "read" /\ IF echo /\ prog # "gone" THEN Sends ELSE UNCHANGED <<nsent, ptym>>
     \/ cpc' = "exit" /\ UNCHANGED <<nsent, ptym>>
  /\ UNCHANGED <<opts, parent, prog, echo, tty, registered, stdin>>

\* kill of the parent: sig_term sets its flag; a parent that ended cannot be told
Alive == ppc \notin {"failed", "noAtexit", "exit0", "killed"}
KillParent ==
  /\ cpc = "notify"
  /\ cpc' = "exit"
  /\ IF ~Alive THEN UNCHANGED <<ppc, sigcaught>>
     ELSE IF handler THEN /\ sigcaught' = TRUE
                          /\ Goto(IF ppc = "read" THEN "after" ELSE ppc)
     ELSE Goto("killed") /\ UNCHANGED sigcaught
  /\ UNCHANGED <<opts, stdout, buf, handler, readerr, slave, tty, registered, stdin>>

ExitChild ==
  /\ cpc = "exit"
  /\ cpc' = "gone"
  /\ Exit
  /\ UNCHANGED <<opts, parent, slave, registered, stdin>>

\* the program under the pty
Output ==
  /\ prog = "runs"
  /\ \/ nsent < MaxOut /\ Sends /\ UNCHANGED prog
     \/ prog' = "gone" /\ UNCHANGED <<nsent, ptym>>
  /\ UNCHANGED <<opts, parent, cpc, echo, tty, registered, stdin>>

Next == \/ PtyFork \/ set_noecho \/ TtyRaw \/ DoDriver \/ Fork \/ signal_intr \/ CallRead
        \/ ReadMaster \/ WriteStdout \/ KillChild \/ ExitParent
        \/ ReadStdin \/ WriteMaster \/ KillParent \/ ExitChild \/ Output
Spec == Init /\ [][Next]_vars
Ended == ~Alive /\ cpc \in {"none", "gone"}
Done == Ended /\ prog \in {"none", "gone"}
-----------------------------------------------------------------------------
\* What the slave sends is copied in its order, all of it if its end was the parent's
\* reason to stop and not a signal or a failed read.
CopiedInOrder ==
  /\ ppc # "failed" => stdout \o buf \o ptym = [n \in 1 .. nsent |-> n]
  /\ ppc = "exit0" /\ ~sigcaught /\ ~readerr => ptym = <<>>

\* A parent that ends normally leaves no child that goes on to read the terminal, and after
\* the end of both the terminal is in its first mode again, however they ended but for one
\* way: nothing restores it for a process that could not register tty_atexit.
TerminalFreed ==
  /\ ppc = "exit0" => cpc \notin {"read", "write"}
  /\ Ended /\ ppc # "noAtexit" => tty = "cooked"
=============================================================================
