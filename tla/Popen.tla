------------------------------- MODULE Popen -------------------------------
(***************************************************************************)
(* popen and pclose of ipc1/popen.c, called in any order by one process,   *)
(* at the level of the descriptor tables.  A table maps a descriptor to    *)
(* the end of a pipe, <<"r", n>> or <<"w", n>> for the pipe of call n, to  *)
(* Other or to Closed.  The commands are external: one that reads goes on  *)
(* until no process holds the write end of its pipe.                       *)
(***************************************************************************)
EXTENDS Naturals

CONSTANTS NFd,           \* the kernel's limit: descriptors 0 .. NFd - 1
          maxfd,         \* open_max when childpid was allocated
          MaxCalls       \* bound: calls of popen

Fds == 0 .. NFd - 1
Calls == 1 .. MaxCalls
Other == <<"other", 0>>
Closed == <<"closed", 0>>

VARIABLES std,           \* the descriptors of 0, 1, 2 the process was started with
          pc, pfd,       \* popen and pclose; the pipe being set up
          n,             \* calls of popen
          type, st,      \* per call: "r" or "w"; its child
          childpid,      \* per process and descriptor: the call whose child it is for, or 0
          fds,           \* the tables: of the process (0) and of each child
          pid            \* the child that pclose waits for

vars == <<std, pc, pfd, n, type, st, childpid, fds, pid>>

Init ==
  /\ std \in SUBSET (0 .. 2)
  /\ pc = "idle" /\ pfd = <<>> /\ n = 0 /\ pid = 0
  /\ type = [c \in Calls |-> "none"]
  /\ st = [c \in Calls |-> "none"]
  /\ childpid = [p \in {0} \cup Calls |-> [f \in Fds |-> 0]]
  /\ fds = [p \in {0} \cup Calls |->
              [f \in Fds |-> IF p = 0 /\ f \in std THEN Other ELSE Closed]]

Unused(p) == {f \in Fds : fds[p][f] = Closed}

\* the pipe takes the two lowest descriptors; there is an error if there are none, or if
\* they lie beyond the array
Lowest(r, w) == r < w /\ \A f \in Unused(0) : f < w => f = r
Pipe(t) ==
  /\ pc = "idle" /\ n < MaxCalls
  /\ n' = n + 1
  /\ type' = [type EXCEPT ![n'] = t]
  /\ \/ \E r, w \in Unused(0) :
          /\ Lowest(r, w) /\ w < maxfd
          /\ pfd' = <<r, w>>
          /\ fds' = [fds EXCEPT ![0] = [@ EXCEPT ![r] = <<"r", n'>>, ![w] = <<"w", n'>>]]
          /\ pc' = "fork"
     \/ /\ \A r, w \in Unused(0) : Lowest(r, w) => w >= maxfd
        /\ UNCHANGED <<pc, pfd, fds>>
  /\ UNCHANGED <<std, st, childpid, pid>>

\* an error of fork leaves both ends of the pipe open
Fork ==
  /\ pc = "fork"
  /\ \/ /\ st' = [st EXCEPT ![n] = "forked"]
        /\ fds' = [fds EXCEPT ![n] = fds[0]]
        /\ childpid' = [childpid EXCEPT ![n] = childpid[0]]
        /\ pc' = "parent"
     \/ pc' = "idle" /\ UNCHANGED <<st, fds, childpid>>
  /\ UNCHANGED <<std, pfd, n, type, pid>>

\* the child: dup2 makes its end a standard descriptor, the other end is closed, and so is
\* every descriptor of childpid; then the command runs
Dup(table, from, to) ==
  IF from = to THEN table ELSE [table EXCEPT ![to] = table[from], ![from] = Closed]
Ends(c) == [e \in {"r", "w"} |-> CHOOSE f \in Fds : fds[c][f] = <<e, c>>]
Connected(c) ==
  IF type[c] = "r" THEN Dup([fds[c] EXCEPT ![Ends(c)["r"]] = Closed], Ends(c)["w"], 1)
                   ELSE Dup([fds[c] EXCEPT ![Ends(c)["w"]] = Closed], Ends(c)["r"], 0)
\* mutant: the child keeps the descriptors of the other pipes
CloseNone(c, table) == table
CloseAll(c, table) == [f \in Fds |-> IF childpid[c][f] > 0 THEN Closed ELSE table[f]]

Child(c) ==
  /\ st[c] = "forked"
  /\ st' = [st EXCEPT ![c] = "exec"]
  /\ fds' = [fds EXCEPT ![c] = CloseAll(c, Connected(c))]
  /\ UNCHANGED <<std, pc, pfd, n, type, childpid, pid>>

\* the parent keeps the other end and remembers the child; an error of fdopen leaves the
\* end open, and the child is forgotten
Parent ==
  LET mine == IF type[n] = "r" THEN pfd[1] ELSE pfd[2]
      his == IF type[n] = "r" THEN pfd[2] ELSE pfd[1]
  IN  /\ pc = "parent"
      /\ fds' = [fds EXCEPT ![0][his] = Closed]
      /\ childpid' = [childpid EXCEPT ![0][mine] = n] \/ UNCHANGED childpid
      /\ pc' = "idle"
      /\ UNCHANGED <<std, pfd, n, type, st, pid>>

\* pclose: the child is forgotten and its stream closed; an error of fclose ends the call
pclose(f) ==
  /\ pc = "idle"
  /\ childpid[0][f] > 0
  /\ childpid' = [childpid EXCEPT ![0][f] = 0]
  /\ fds' = [fds EXCEPT ![0][f] = Closed]
  /\ \/ pc' = "waitpid" /\ pid' = childpid[0][f]
     \/ UNCHANGED <<pc, pid>>
  /\ UNCHANGED <<std, pfd, n, type, st>>

Waitpid ==
  /\ pc = "waitpid"
  /\ st[pid] = "exited"
  /\ pc' = "idle"
  /\ UNCHANGED <<std, pfd, n, type, st, childpid, fds, pid>>

\* a command ends: one that reads does so at the end of its input
Writers(c) == {p \in DOMAIN fds : \E f \in Fds : fds[p][f] = <<"w", c>>}
Command(c) ==
  /\ st[c] = "exec"
  /\ type[c] = "w" => fds[c][0] = Closed \/ Writers(c) = {}
  /\ st' = [st EXCEPT ![c] = "exited"]
  /\ fds' = [fds EXCEPT ![c] = [f \in Fds |-> Closed]]
  /\ UNCHANGED <<std, pc, pfd, n, type, childpid, pid>>

Next == \/ \E t \in {"r", "w"} : Pipe(t)
        \/ Fork \/ Parent \/ Waitpid
        \/ \E c \in Calls : Child(c) \/ Command(c)
        \/ \E f \in Fds : pclose(f)
Spec == Init /\ [][Next]_vars

\* the process ends when it has closed its streams: no pclose waits for ever
Done == pc = "idle" /\ n = MaxCalls /\ childpid[0] = [f \in Fds |-> 0]
-----------------------------------------------------------------------------
\* While pclose waits for a command that reads, no other command holds the write end of
\* its pipe, not even one whose popen or pclose failed: the command sees the end of file.
\* And a command started with open standard descriptors reads or writes the pipe.
PcloseReturns ==
  /\ pc = "waitpid" /\ type[pid] = "w" /\ st[pid] = "exec" =>
       \A p \in Writers(pid) : st[p] = "forked"
  /\ \A c \in Calls : st[c] = "exec" /\ std = 0 .. 2 =>
       IF type[c] = "r" THEN fds[c][1] = <<"w", c>> ELSE fds[c][0] = <<"r", c>>
=============================================================================
