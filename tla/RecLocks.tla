------------------------------ MODULE RecLocks ------------------------------
(***************************************************************************)
(* The programs that try record locks, as the steps of their processes:    *)
(* exercises/pendlock.c, advio/deadlock.c and advio/mandatory.c.  The      *)
(* parent is 0.  A sleep orders nothing.  The kernel is external: a lock   *)
(* is of a process and goes with it, and a wait that would close a cycle   *)
(* is refused.  A step is                                                  *)
(*   "fork" p           an error ends the process                          *)
(*   "lock" k B r w     of kind k on the bytes B; r: "must" it succeed,    *)
(*                      must it "fail", or "any"; w: does it wait?         *)
(*   "tell" p, "hear" p one byte of a pipe;  "waitpid" p                   *)
(*   "pause"            until SIGINT, which is caught;  "kill" p sends it  *)
(***************************************************************************)
EXTENDS Naturals, Sequences, FiniteSets

CONSTANT Programs
Procs == 0 .. 3
All == {0, 1}

pendlockChild == << <<"lock", "R", All, "must", FALSE>>, <<"pause">> >>
pendlockChild3 == << <<"lock", "W", All, "any", FALSE>>, <<"lock", "W", All, "must", TRUE>>,
                     <<"pause">> >>
pendlock == << << <<"fork", 1>>, <<"fork", 2>>, <<"fork", 3>>, <<"lock", "R", All, "any", FALSE>>,
                  <<"kill", 1>>, <<"kill", 2>>, <<"kill", 3>> >>,
               pendlockChild, pendlockChild, pendlockChild3 >>

\* mutant: the parent does not wait for the child's lock
deadlockUnheard == << << <<"fork", 1>>, <<"lock", "W", {1}, "must", TRUE>>, <<"tell", 1>>,
                  <<"lock", "W", {0}, "must", TRUE>> >>,
               << <<"lock", "W", {0}, "must", TRUE>>, <<"tell", 0>>, <<"hear", 0>>,
                  <<"lock", "W", {1}, "must", TRUE>> >>, <<>>, <<>> >>

\* each process locks one byte and, when both have, the other one
deadlock == << << <<"fork", 1>>, <<"lock", "W", {1}, "must", TRUE>>, <<"tell", 1>>, <<"hear", 1>>,
                  <<"lock", "W", {0}, "must", TRUE>> >>,
               << <<"lock", "W", {0}, "must", TRUE>>, <<"tell", 0>>, <<"hear", 0>>,
                  <<"lock", "W", {1}, "must", TRUE>> >>, <<>>, <<>> >>

mandatory == << << <<"fork", 1>>, <<"lock", "W", All, "must", FALSE>>, <<"tell", 1>>,
                   <<"waitpid", 1>> >>,
                << <<"hear", 0>>, <<"lock", "R", All, "fail", FALSE>> >>, <<>>, <<>> >>

Program(p) == CASE p = "pendlock" -> pendlock [] p = "deadlock" -> deadlock
                [] p = "mandatory" -> mandatory

VARIABLES prog, pc,      \* per process: 0 before fork; beyond its steps at its end
          st,            \* per process: "no", "runs", "exit", "error"
          held,          \* the locks: <<process, kind, byte>>
          told           \* per process: bytes it was told and has not heard

vars == <<prog, pc, st, held, told>>

Init ==
  /\ prog \in Programs
  /\ pc = [p \in Procs |-> 1]
  /\ st = [p \in Procs |-> IF p = 0 THEN "runs" ELSE "no"]
  /\ held = {}
  /\ told = [p \in Procs |-> 0]

Steps(p) == Program(prog)[p + 1]
AtEnd(p) == pc[p] > Len(Steps(p))
Op(p) == Steps(p)[pc[p]]
Is(p, o) == st[p] = "runs" /\ ~AtEnd(p) /\ Op(p)[1] = o
Onward(p) == pc' = [pc EXCEPT ![p] = @ + 1]
Released(p) == {l \in held : l[1] # p}
End(p, how) == st' = [st EXCEPT ![p] = how] /\ held' = Released(p) /\ UNCHANGED pc

Fork(p) ==
  /\ Is(p, "fork")
  /\ \/ st' = [st EXCEPT ![Op(p)[2]] = "runs"] /\ Onward(p) /\ UNCHANGED held
     \/ End(p, "error")
  /\ UNCHANGED <<prog, told>>

\* who has a lock that conflicts with this step
Blockers(p) == {l[1] : l \in {l \in held : /\ l[1] # p /\ l[3] \in Op(p)[3]
                                           /\ "W" \in {l[2], Op(p)[2]}}}
Waiting(p) == Is(p, "lock") /\ Op(p)[5] /\ Blockers(p) # {}
\* two processes wait for each other
Cycle(p) == \E q \in Blockers(p) : Waiting(q) /\ p \in Blockers(q)

Lock(p) ==
  /\ Is(p, "lock")
  /\ IF Blockers(p) = {}
     THEN IF Op(p)[4] = "fail" THEN End(p, "error")
          ELSE /\ held' = {l \in held : l[1] # p \/ l[3] \notin Op(p)[3]}
                           \cup {<<p, Op(p)[2], b>> : b \in Op(p)[3]}
               /\ Onward(p) /\ UNCHANGED st
     ELSE /\ Op(p)[5] => Cycle(p)
          /\ IF Op(p)[4] = "must" THEN End(p, "error") ELSE Onward(p) /\ UNCHANGED <<st, held>>
  /\ UNCHANGED <<prog, told>>

Tell(p) ==
  /\ Is(p, "tell")
  /\ told' = [told EXCEPT ![Op(p)[2]] = @ + 1]
  /\ Onward(p)
  /\ UNCHANGED <<prog, st, held>>

Hear(p) ==
  /\ Is(p, "hear")
  /\ told[p] > 0
  /\ told' = [told EXCEPT ![p] = @ - 1]
  /\ Onward(p)
  /\ UNCHANGED <<prog, st, held>>

Ended(p) == st[p] \notin {"no", "runs"}
Waitpid(p) ==
  /\ Is(p, "waitpid")
  /\ Ended(Op(p)[2])
  /\ Onward(p)
  /\ UNCHANGED <<prog, st, held, told>>

\* SIGINT ends a pause or the wait for a lock, if the child is in it by now
Kill(p) ==
  /\ Is(p, "kill")
  /\ LET q == Op(p)[2]
         now == IF Is(q, "pause") \/ Waiting(q) THEN {"in", "before"} ELSE {"before"}
     IN  \E w \in now :
           IF w = "before" THEN Onward(p) /\ UNCHANGED <<st, held>>
           ELSE IF Waiting(q) THEN /\ pc' = [pc EXCEPT ![p] = @ + 1]
                                   /\ st' = [st EXCEPT ![q] = "error"]
                                   /\ held' = Released(q)
           ELSE pc' = [pc EXCEPT ![p] = @ + 1, ![q] = @ + 1] /\ UNCHANGED <<st, held>>
  /\ UNCHANGED <<prog, told>>

Exit(p) ==
  /\ st[p] = "runs" /\ AtEnd(p)
  /\ End(p, "exit")
  /\ UNCHANGED <<prog, told>>

Next == \E p \in Procs : \/ Fork(p) \/ Lock(p) \/ Tell(p) \/ Hear(p) \/ Waitpid(p)
                         \/ Kill(p) \/ Exit(p)
Spec == Init /\ [][Next]_vars

\* a child of pendlock that is in pause when its SIGINT is over stays there
Done == \A p \in Procs : \/ st[p] = "no" \/ Ended(p)
                         \/ prog = "pendlock" /\ p > 0 /\ (Is(p, "pause") \/ Waiting(p))
-----------------------------------------------------------------------------
\* deadlock.c: when both have locked a byte, the one that closes the cycle gets the error,
\* and the other one its second byte; a child of mandatory.c does not get the read lock.
OneIsRefused ==
  /\ prog = "deadlock" /\ st[1] # "no" =>
       /\ ~(st[0] = "error" /\ st[1] = "error")
       /\ Ended(0) /\ Ended(1) => "error" \in {st[0], st[1]}
  /\ prog = "mandatory" => st[1] # "error" /\ \A b \in All : <<1, "R", b>> \notin held
=============================================================================
