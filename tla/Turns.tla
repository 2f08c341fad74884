------------------------------- MODULE Turns -------------------------------
(***************************************************************************)
(* Parent and child that take turns by the pipes of ipc1/tellwait.c: the   *)
(* shared counter of ipc1/devzero.c, and the output of proc/tellwait2.c,   *)
(* with proc/tellwait1.c, which does not synchronise.  The processes hold  *)
(* both ends of both pipes, so a read never sees an end of file.           *)
(***************************************************************************)
EXTENDS Naturals, Sequences

CONSTANTS NLOOPS,        \* even
          Str,           \* characters of each output
          Programs       \* of {"devzero", "tellwait1", "tellwait2"}

VARIABLES prog,
          pc,            \* per process: 1 is the parent, 2 the child
          i,             \* the loop variable, or the characters written
          pfd1, pfd2,    \* to the child; to the parent
          area, counter, \* the shared long; the value a process is incrementing
          out            \* who wrote each character

vars == <<prog, pc, i, pfd1, pfd2, area, counter, out>>
Procs == {1, 2}

Init ==
  /\ prog \in Programs
  /\ pc = <<"fork", "none">>
  /\ i = <<0, IF prog = "devzero" THEN 1 ELSE 0>>
  /\ pfd1 = <<>> /\ pfd2 = <<>>
  /\ area = 0 /\ counter = <<0, 0>>
  /\ out = <<>>

Goto(p, l) == pc' = [pc EXCEPT ![p] = l]
Last == IF prog = "devzero" THEN NLOOPS ELSE Str

Fork ==
  /\ pc[1] = "fork"
  /\ \/ pc' = CASE prog = "devzero" -> <<"update", "wait">>
                [] prog = "tellwait1" -> <<"put", "put">>
                [] prog = "tellwait2" -> <<"put", "wait">>
     \/ Goto(1, "failed")
  /\ UNCHANGED <<prog, i, pfd1, pfd2, area, counter, out>>

\* update is a read and a write of the area
Load(p) ==
  /\ pc[p] = "update"
  /\ counter' = [counter EXCEPT ![p] = area]
  /\ Goto(p, "store")
  /\ UNCHANGED <<prog, i, pfd1, pfd2, area, out>>

Store(p) ==
  /\ pc[p] = "store"
  /\ area' = counter[p] + 1
  /\ Goto(p, IF counter[p] = i[p] THEN "tell" ELSE "failed")
  /\ UNCHANGED <<prog, i, pfd1, pfd2, counter, out>>

\* tellwait2: the parent ends after it told the child
NextTurn(p) ==
  /\ i' = [i EXCEPT ![p] = @ + 2]
  /\ Goto(p, IF i[p] + 2 >= Last + p - 1 THEN "exit" ELSE IF p = 1 THEN "update" ELSE "wait")

TELL_CHILD ==
  /\ pc[1] = "tell"
  /\ pfd1' = Append(pfd1, "p")
  /\ Goto(1, IF prog = "devzero" THEN "wait" ELSE "exit")
  /\ UNCHANGED <<prog, i, pfd2, area, counter, out>>

\* mutant: no read
WAIT_CHILD_Not ==
  /\ pc[1] = "wait"
  /\ NextTurn(1)
  /\ UNCHANGED <<prog, pfd1, pfd2, area, counter, out>>

WAIT_CHILD ==
  /\ pc[1] = "wait"
  /\ pfd2 # <<>>
  /\ pfd2' = Tail(pfd2)
  /\ IF Head(pfd2) = "c" THEN NextTurn(1) ELSE Goto(1, "failed") /\ UNCHANGED i
  /\ UNCHANGED <<prog, pfd1, area, counter, out>>

TELL_PARENT ==
  /\ pc[2] = "tell"
  /\ pfd2' = Append(pfd2, "c")
  /\ NextTurn(2)
  /\ UNCHANGED <<prog, pfd1, area, counter, out>>

WAIT_PARENT ==
  /\ pc[2] = "wait"
  /\ pfd1 # <<>>
  /\ pfd1' = Tail(pfd1)
  /\ Goto(2, IF Head(pfd1) # "p" THEN "failed" ELSE IF prog = "devzero" THEN "update" ELSE "put")
  /\ UNCHANGED <<prog, i, pfd2, area, counter, out>>

\* one putc: the stream is unbuffered
charatatime(p) ==
  /\ pc[p] = "put"
  /\ out' = Append(out, p)
  /\ i' = [i EXCEPT ![p] = @ + 1]
  /\ IF i[p] + 1 < Str THEN UNCHANGED pc
     ELSE Goto(p, IF prog = "tellwait2" /\ p = 1 THEN "tell" ELSE "exit")
  /\ UNCHANGED <<prog, pfd1, pfd2, area, counter>>

Next == \/ Fork \/ TELL_CHILD \/ WAIT_CHILD \/ TELL_PARENT \/ WAIT_PARENT
        \/ \E p \in Procs : Load(p) \/ Store(p) \/ charatatime(p)
Spec == Init /\ [][Next]_vars
Done == \A p \in Procs : pc[p] \in {"none", "exit", "failed"}
-----------------------------------------------------------------------------
\* The turns alternate: no process finds another counter than it expects, both end after
\* their last turn with nothing left in the pipes, and the child's output follows the
\* parent's.
TurnsAlternate ==
  /\ pc[2] # "none" => "failed" \notin {pc[1], pc[2]}
  /\ Done /\ prog = "devzero" /\ pc[2] # "none" => area = NLOOPS /\ pfd1 = <<>> /\ pfd2 = <<>>
  /\ prog = "tellwait2" => \A k, m \in DOMAIN out : k < m => out[k] <= out[m]
=============================================================================
