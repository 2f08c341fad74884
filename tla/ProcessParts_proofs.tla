-------------------------- MODULE ProcessParts_proofs --------------------------
(***************************************************************************)
(* Proofs about the modules of ProcessParts, processes that share files,   *)
(* pipes and sockets, for any values of their constants: the inductive     *)
(* invariant of each, that Init has it (XInit), that a step keeps it       *)
(* (XStep), and what it implies (XHold).  Programs_proofs combines them.   *)
(***************************************************************************)
EXTENDS ProcessParts, SequenceTheorems, FiniteSetTheorems, WellFoundedInduction, TLAPS

-----------------------------------------------------------------------------
(* Daemon: the lock is tried and taken in one step, so its invariant says    *)
(* who may be where while it is held, and what daemonize has done before.    *)
DaemonLabels == {"fork1", "fork2", "close", "open", "write", "writePid", "catchTerm", "catchHup",
           "default", "mask", "create", "rest", "ended"}
Locked(d) == pc[d] \in {"write", "writePid"} \/ Daemon_!Running(d)

\* The variables that are tables of the instances.
DaemonTypes ==
  /\ pc \in [Instances -> DaemonLabels]
  /\ leader \in [Instances -> BOOLEAN]
  /\ DOMAIN fds = Instances /\ DOMAIN hup = Instances

\* From the lock to its end an instance is the holder of the record lock.
HoldsLock == \A d \in Instances : Locked(d) => lock = d

\* What an instance has done before it comes to a label.
Daemonized ==
  \A d \in Instances :
    /\ Daemon_!Running(d) => pidfile = d
    /\ pc[d] \in {"close", "open"} \/ Locked(d) => ~leader[d]
    /\ pc[d] = "open" \/ Locked(d) => fds[d] = "null"

DaemonInv == DaemonTypes /\ HoldsLock /\ Daemonized /\ Daemon_!HupIgnored

\* The daemon starts with no lock, and every instance at the first fork.
LEMMA DaemonInit == Daemon_!Init => DaemonInv
BY DEF Daemon_!Init, Daemon_!All, DaemonInv, DaemonTypes, HoldsLock, Daemonized,
    Daemon_!HupIgnored, DaemonLabels, Locked, Daemon_!Running, Daemon_!Ended

\* No step of any instance, nor a signal, disturbs the invariant.
LEMMA DaemonStep == ASSUME DaemonInv, [Daemon_!Next]_(Daemon_!vars) PROVE DaemonInv'
<1> USE DaemonAssumption DEF DaemonInv, DaemonTypes, HoldsLock, Daemonized, Daemon_!HupIgnored,
      DaemonLabels, Locked, Daemon_!Running, Daemon_!Ended,
          Daemon_!At, Daemon_!Goto, Daemon_!GotoOrQuit, Daemon_!End, Daemon_!signalled
<1>1. ASSUME UNCHANGED Daemon_!vars PROVE DaemonInv'
  BY <1>1 DEF Daemon_!vars
<1>2. ASSUME NEW d \in Instances, Daemon_!Fork1(d) PROVE DaemonInv'
  BY <1>2 DEF Daemon_!Fork1
<1>3. ASSUME NEW d \in Instances, Daemon_!Fork2(d) PROVE DaemonInv'
  BY <1>3 DEF Daemon_!Fork2
<1>4. ASSUME NEW d \in Instances, Daemon_!OpenNull(d) PROVE DaemonInv'
  BY <1>4 DEF Daemon_!OpenNull
<1>5. ASSUME NEW d \in Instances, Daemon_!LockFile(d) PROVE DaemonInv'
  BY <1>5 DEF Daemon_!LockFile
<1>6. ASSUME NEW d \in Instances, Daemon_!Truncate(d) PROVE DaemonInv'
  BY <1>6 DEF Daemon_!Truncate
<1>7. ASSUME NEW d \in Instances, Daemon_!WritePid(d) PROVE DaemonInv'
  BY <1>7 DEF Daemon_!WritePid
<1>8. ASSUME NEW d \in Instances, Daemon_!CatchTerm(d) PROVE DaemonInv'
  BY <1>8 DEF Daemon_!CatchTerm
<1>9. ASSUME NEW d \in Instances, Daemon_!CatchHup(d) PROVE DaemonInv'
  BY <1>9 DEF Daemon_!CatchHup
<1>10. ASSUME NEW d \in Instances, Daemon_!RestoreHup(d) PROVE DaemonInv'
  BY <1>10 DEF Daemon_!RestoreHup
<1>11. ASSUME NEW d \in Instances, Daemon_!BlockAll(d) PROVE DaemonInv'
  BY <1>11 DEF Daemon_!BlockAll
<1>12. ASSUME NEW d \in Instances, Daemon_!CreateThread(d) PROVE DaemonInv'
  BY <1>12 DEF Daemon_!CreateThread
<1>13. ASSUME NEW d \in Instances, Daemon_!Sigwait(d) PROVE DaemonInv'
  BY <1>13 DEF Daemon_!Sigwait
<1>14. ASSUME NEW d \in Instances, Daemon_!Rest(d) PROVE DaemonInv'
  BY <1>14 DEF Daemon_!Rest
<1>15. ASSUME NEW d \in Instances, NEW s \in {"HUP", "TERM", "KILL"}, Daemon_!Signal(d, s)
         PROVE DaemonInv'
  BY <1>15 DEF Daemon_!Signal
<1> QED
  BY <1>1, <1>2, <1>3, <1>4, <1>5, <1>6, <1>7, <1>8, <1>9, <1>10, <1>11, <1>12, <1>13, <1>14,
     <1>15 DEF Daemon_!Next

\* The invariant gives the property: who runs has the lock, its pid in the file, and has
\* been through daemonize.
LEMMA RunsAlone == DaemonInv => Daemon_!OneDaemon
BY DEF DaemonInv, HoldsLock, Daemonized, Daemon_!OneDaemon, Locked


-----------------------------------------------------------------------------
(* Turns: at most one of the two processes is neither waiting nor ended, or  *)
(* a byte is in the pipe of the one that waits; the counter of each process  *)
(* is where the other one has left it.                                       *)

TurnsTypes ==
  /\ prog \in {"devzero", "tellwait1", "tellwait2"}
  /\ pc \in [{1, 2} -> {"fork", "none", "update", "store", "put", "tell", "wait", "exit",
       "failed"}]
  /\ i \in [{1, 2} -> Nat] /\ counter \in [{1, 2} -> Nat] /\ area \in Nat

\* devzero.c: whose turn it is, and what the counter is then
Rounds ==
  /\ i[1] \in {2 * k : k \in Nat}
  /\ \/ /\ pc[1] \in {"update", "store", "tell"} /\ pc[2] = "wait"
        /\ pfd1 = <<>> /\ pfd2 = <<>>
        /\ i[1] < NLOOPS /\ i[2] = i[1] + 1
        /\ area = IF pc[1] = "tell" THEN i[2] ELSE i[1]
        /\ pc[1] = "store" => counter[1] = area
     \/ /\ pc[1] = "wait" /\ pc[2] = "wait"
        /\ pfd1 = <<"p">> /\ pfd2 = <<>>
        /\ i[1] < NLOOPS /\ i[2] = i[1] + 1 /\ area = i[2]
     \/ /\ pc[1] = "wait" /\ pc[2] \in {"update", "store", "tell"}
        /\ pfd1 = <<>> /\ pfd2 = <<>>
        /\ i[1] < NLOOPS /\ i[2] = i[1] + 1
        /\ area = IF pc[2] = "tell" THEN i[2] + 1 ELSE i[2]
        /\ pc[2] = "store" => counter[2] = area
     \/ /\ pc[1] = "wait" /\ pc[2] = IF i[2] > NLOOPS THEN "exit" ELSE "wait"
        /\ pfd1 = <<>> /\ pfd2 = <<"c">>
        /\ i[1] < NLOOPS /\ i[2] = i[1] + 3 /\ area = i[1] + 2
     \/ /\ pc[1] = "exit" /\ pc[2] = "exit"
        /\ pfd1 = <<>> /\ pfd2 = <<>>
        /\ area = NLOOPS

\* tellwait2.c: the child waits until the parent has written all it writes
Output ==
  /\ out \in Seq({1, 2})
  /\ \A k, l \in DOMAIN out : k < l => out[k] <= out[l]
  /\ pfd2 = <<>>
  /\ \/ /\ pc[1] \in {"put", "tell"} /\ pc[2] = "wait" /\ pfd1 = <<>>
        /\ \A k \in DOMAIN out : out[k] = 1
     \/ pc[1] = "exit" /\ pc[2] = "wait" /\ pfd1 = <<"p">>
     \/ pc[1] = "exit" /\ pc[2] \in {"put", "exit"} /\ pfd1 = <<>>

TurnsInv ==
  /\ TurnsTypes
  /\ pc[2] = "none" => /\ pc[1] \in {"fork", "failed"} /\ pfd1 = <<>> /\ pfd2 = <<>>
                       /\ area = 0 /\ i[1] = 0 /\ out = <<>>
                       /\ i[2] = IF prog = "devzero" THEN 1 ELSE 0
  /\ pc[2] # "none" /\ prog = "devzero" => Rounds
  /\ pc[2] # "none" /\ prog = "tellwait1" => {pc[1], pc[2]} \subseteq {"put", "exit"}
  /\ pc[2] # "none" /\ prog = "tellwait2" => Output

\* Before the fork nothing has been written.
LEMMA TurnsInit == Turns_!Init => TurnsInv
BY DEF Turns_!Init, TurnsInv, TurnsTypes

\* A pipe holds one byte at a time.
LEMMA OneByte ==
  ASSUME NEW b
  PROVE  /\ Append(<<>>, b) = <<b>> /\ Head(<<b>>) = b /\ Tail(<<b>>) = <<>>
         /\ <<b>> # <<>>
BY SMT

\* devzero.c: the turns go round.
LEMMA RoundsStep ==
  ASSUME TurnsInv, prog = "devzero", pc[2] # "none", Turns_!Next PROVE TurnsInv'
<1> USE DEF TurnsInv, TurnsTypes, Turns_!Goto, Turns_!Last
<1> PICK k \in Nat : i[1] = 2 * k
  BY DEF Rounds
<1> PICK h \in Nat : NLOOPS = 2 * h
  BY TurnsAssumption
<1>0. i[1] + 2 = 2 * (k + 1) /\ k + 1 \in Nat
  OBVIOUS
<1>3. CASE Turns_!TELL_CHILD
  BY <1>3, OneByte DEF Turns_!TELL_CHILD, Rounds
<1>4. CASE Turns_!WAIT_CHILD
  <2>1. pfd2 = <<"c">>
    BY <1>4 DEF Turns_!WAIT_CHILD, Rounds
  <2>2. Head(pfd2) = "c" /\ Tail(pfd2) = <<>>
    BY <2>1, OneByte
  <2>3. /\ pfd2' = <<>> /\ i' = [i EXCEPT ![1] = i[1] + 2]
        /\ pc' = [pc EXCEPT ![1] = IF i[1] + 2 >= NLOOPS THEN "exit" ELSE "update"]
    BY <1>4, <2>2 DEF Turns_!WAIT_CHILD, Turns_!NextTurn
  <2> QED
    BY <1>0, <1>4, <2>1, <2>3 DEF Turns_!WAIT_CHILD, Rounds
<1>5. CASE Turns_!TELL_PARENT
  <2>1. pfd2 = <<>>
    BY <1>5 DEF Turns_!TELL_PARENT, Rounds
  <2>2. Append(pfd2, "c") = <<"c">>
    BY <2>1, OneByte
  <2>3. /\ pfd2' = <<"c">> /\ i' = [i EXCEPT ![2] = i[2] + 2]
        /\ pc' = [pc EXCEPT ![2] = IF i[2] + 2 >= NLOOPS + 1 THEN "exit" ELSE "wait"]
    BY <1>5, <2>2, TurnsAssumption DEF Turns_!TELL_PARENT, Turns_!NextTurn
  <2>4. /\ pc[1] = "wait" /\ i[1] < NLOOPS /\ i[2] = i[1] + 1 /\ area = i[1] + 2 /\ pfd1 = <<>>
        /\ UNCHANGED <<prog, pfd1, area, counter, out>>
    BY <1>5 DEF Turns_!TELL_PARENT, Rounds
  <2>5. /\ pc'[1] = "wait" /\ i'[1] = i[1] /\ i'[2] = i[1] + 3
        /\ pc'[2] = IF i'[2] > NLOOPS THEN "exit" ELSE "wait"
    BY <2>3, <2>4, TurnsAssumption
  <2>6. Rounds'
    BY <2>3, <2>4, <2>5 DEF Rounds
  <2>7. TurnsTypes'
    BY <2>3, <2>4
  <2> QED
    BY <2>4, <2>5, <2>6, <2>7
<1>6. CASE Turns_!WAIT_PARENT
  <2>1. pfd1 = <<"p">>
    BY <1>6 DEF Turns_!WAIT_PARENT, Rounds
  <2>2. Head(pfd1) = "p" /\ Tail(pfd1) = <<>>
    BY <2>1, OneByte
  <2>3. pfd1' = <<>> /\ pc' = [pc EXCEPT ![2] = "update"]
    BY <1>6, <2>2 DEF Turns_!WAIT_PARENT
  <2> QED
    BY <1>6, <2>1, <2>3 DEF Turns_!WAIT_PARENT, Rounds
<1>7. ASSUME NEW p \in {1, 2}, Turns_!Load(p) PROVE TurnsInv'
  BY <1>7 DEF Turns_!Load, Rounds
<1>8. ASSUME NEW p \in {1, 2}, Turns_!Store(p) PROVE TurnsInv'
  <2>1. /\ pc[p] = "store" /\ area' = counter[p] + 1
             /\ UNCHANGED <<prog, i, pfd1, pfd2, counter, out>>
        /\ pc' = [pc EXCEPT ![p] = IF counter[p] = i[p] THEN "tell" ELSE "failed"]
    BY <1>8 DEF Turns_!Store
  <2>2. CASE p = 1
    BY <2>1, <2>2 DEF Rounds
  <2>3. CASE p = 2
    BY <2>1, <2>3 DEF Rounds
  <2> QED
    BY <2>2, <2>3
<1>9. ~Turns_!Fork /\ \A p \in {1, 2} : ~Turns_!charatatime(p)
  BY DEF Turns_!Fork, Turns_!charatatime, Rounds
<1> QED
  BY <1>3, <1>4, <1>5, <1>6, <1>7, <1>8, <1>9 DEF Turns_!Next, Turns_!Procs

\* tellwait1.c and tellwait2.c: each process writes its characters.
LEMMA OutputStep ==
  ASSUME TurnsInv, prog # "devzero", pc[2] # "none", Turns_!Next PROVE TurnsInv'
<1> USE DEF TurnsInv, TurnsTypes, Turns_!Goto
<1>3. CASE Turns_!TELL_CHILD
  BY <1>3, OneByte DEF Turns_!TELL_CHILD, Output
<1>6. CASE Turns_!WAIT_PARENT
  BY <1>6, OneByte DEF Turns_!WAIT_PARENT, Output
<1>7. ASSUME NEW p \in {1, 2}, Turns_!charatatime(p) PROVE TurnsInv'
  <2>1. prog = "tellwait2" =>
          out' \in Seq({1, 2}) /\ \A k, l \in DOMAIN out' : k < l => out'[k] <= out'[l]
    BY <1>7 DEF Turns_!charatatime, Output
  <2>2. pc' = pc \/ pc' = [pc EXCEPT ![p] = IF prog = "tellwait2" /\ p = 1 THEN "tell" ELSE "exit"]
    BY <1>7 DEF Turns_!charatatime
  <2>3. TurnsTypes'
    BY <1>7, <2>2 DEF Turns_!charatatime
  <2>4. CASE prog = "tellwait2"
    <3>1. p = 1 => \A k \in DOMAIN out' : out'[k] = 1
      BY <1>7, <2>4 DEF Turns_!charatatime, Output
    <3> QED
      BY <1>7, <2>1, <2>2, <2>3, <2>4, <3>1 DEF Turns_!charatatime, Output
  <2>5. CASE prog = "tellwait1"
    BY <1>7, <2>2, <2>3, <2>5 DEF Turns_!charatatime
  <2> QED
    BY <2>4, <2>5
<1>9. /\ ~Turns_!Fork /\ ~Turns_!WAIT_CHILD /\ ~Turns_!TELL_PARENT
      /\ \A p \in {1, 2} : ~Turns_!Load(p) /\ ~Turns_!Store(p)
  BY DEF Turns_!Fork, Turns_!WAIT_CHILD, Turns_!TELL_PARENT, Turns_!Load, Turns_!Store, Output
<1> QED
  BY <1>3, <1>6, <1>7, <1>9 DEF Turns_!Next, Turns_!Procs

\* No step of either process disturbs the invariant.
LEMMA TurnsStep == ASSUME TurnsInv, [Turns_!Next]_(Turns_!vars) PROVE TurnsInv'
<1>1. CASE UNCHANGED Turns_!vars
  BY <1>1 DEF Turns_!vars, TurnsInv, TurnsTypes, Rounds, Output
<1>2. CASE Turns_!Next /\ pc[2] = "none"
  <2>1. Turns_!Fork
    BY <1>2 DEF Turns_!Next, TurnsInv, TurnsTypes, Turns_!TELL_CHILD, Turns_!WAIT_CHILD,
                Turns_!TELL_PARENT, Turns_!WAIT_PARENT, Turns_!Load, Turns_!Store,
                Turns_!charatatime, Turns_!Procs
  <2> QED
    BY <1>2, <2>1, TurnsAssumption DEF Turns_!Fork, Turns_!Goto, TurnsInv, TurnsTypes, Rounds,
        Output
<1> QED
  BY <1>1, <1>2, RoundsStep, OutputStep

\* Each process finds the counter that it expects, and both end after NLOOPS updates.
LEMMA TurnsHold == TurnsInv => Turns_!TurnsAlternate
<1> SUFFICES ASSUME TurnsInv PROVE Turns_!TurnsAlternate
  OBVIOUS
<1>1. pc[2] # "none" => "failed" \notin {pc[1], pc[2]}
  BY DEF TurnsInv, TurnsTypes, Rounds, Output
<1>2. ASSUME Turns_!Done, prog = "devzero", pc[2] # "none"
      PROVE  area = NLOOPS /\ pfd1 = <<>> /\ pfd2 = <<>>
  <2>1. Rounds /\ pc[1] \in {"exit", "failed"} /\ pc[2] \in {"exit", "failed"}
    BY <1>2 DEF Turns_!Done, Turns_!Procs, TurnsInv, TurnsTypes, Rounds
  <2> QED
    BY <1>2, <2>1, TurnsAssumption DEF Rounds
<1>3. prog = "tellwait2" => \A k, l \in DOMAIN out : k < l => out[k] <= out[l]
  BY DEF TurnsInv, Output
<1> QED
  BY <1>1, <1>2, <1>3 DEF Turns_!TurnsAlternate

-----------------------------------------------------------------------------
(* Coproc: one line is on its way at a time; the answers so far are those of *)
(* the lines before it.                                                      *)

CoprocTypes ==
  /\ prog \in {"add2", "add2stdio"}
  /\ ppc \in {"fork", "fgets", "write", "read", "exit", "failed"}
  /\ cpc \in {"none", "start", "read", "write", "gone"}
  /\ n \in Nat /\ line \in Nat /\ stdout \in Seq(Nat)

\* where line n is while the parent waits for its answer
OnItsWay ==
  \/ fd1 = <<n>> /\ fd2 = <<>> /\ cpc \in {"start", "read", "gone"}
  \/ fd1 = <<>> /\ fd2 = <<>> /\ cpc = "write" /\ line = n
  \/ fd1 = <<>> /\ fd2 = <<n>> /\ cpc = "read"
  \/ fd1 = <<>> /\ fd2 = <<>> /\ cpc = "read" /\ prog = "add2stdio" /\ stdout # <<>>

CoprocInv ==
  /\ CoprocTypes
  /\ out \in Seq(Nat) /\ \A k \in DOMAIN out : out[k] = k
  /\ ppc = "fork" => cpc = "none" /\ n = 0
  /\ cpc = "none" => ppc \in {"fork", "failed"}
  /\ ppc \in {"fork", "fgets"} => Len(out) = n /\ fd1 = <<>> /\ cpc # "write"
  /\ ppc = "write" => Len(out) + 1 = n /\ fd1 = <<>> /\ cpc # "write"
  /\ ppc = "read" => Len(out) + 1 = n /\ OnItsWay
  /\ ppc # "read" => fd2 = <<>> /\ cpc # "write"
  /\ ppc \in {"exit", "failed"} => fd1 = <<>> \/ cpc \in {"none", "gone"}

\* Nothing is read, written or answered at first.
LEMMA CoprocInit == Coproc_!Init => CoprocInv
BY DEF Coproc_!Init, CoprocInv, CoprocTypes

\* No step of the parent or the coprocess disturbs the invariant.
LEMMA CoprocStep == ASSUME CoprocInv, [Coproc_!Next]_(Coproc_!vars) PROVE CoprocInv'
<1> USE DEF CoprocInv, CoprocTypes
<1>0. fd1 = <<>> => Append(fd1, n) = <<n>>
  BY OneByte
<1>1. CASE UNCHANGED Coproc_!vars
  BY <1>1 DEF Coproc_!vars, OnItsWay
<1>2. CASE Coproc_!Fork
  BY <1>2 DEF Coproc_!Fork
<1>3. CASE Coproc_!Exec
  BY <1>3 DEF Coproc_!Exec, OnItsWay
<1>4. CASE Coproc_!Fgets
  BY <1>4 DEF Coproc_!Fgets
<1>5. CASE Coproc_!Write
  BY <1>0, <1>5 DEF Coproc_!Write, OnItsWay
<1>6. CASE Coproc_!Read
  <2>1. CASE fd2 # <<>>
    <3>1. fd2 = <<n>> /\ fd1 = <<>> /\ cpc = "read" /\ Len(out) + 1 = n
      BY <1>6, <2>1 DEF Coproc_!Read, OnItsWay
    <3>2. /\ out \o <<n>> \in Seq(Nat) /\ Len(out \o <<n>>) = n
          /\ \A k \in DOMAIN (out \o <<n>>) : (out \o <<n>>)[k] = k
      BY <3>1
    <3> QED
      BY <1>6, <2>1, <3>1, <3>2 DEF Coproc_!Read
  <2>2. CASE fd2 = <<>>
    BY <1>6, <2>2 DEF Coproc_!Read, OnItsWay
  <2> QED
    BY <2>1, <2>2
<1>7. CASE Coproc_!ReadLine
  <2>1. CASE fd1 # <<>>
    <3>1. ppc = "read" /\ fd1 = <<n>> /\ fd2 = <<>>
      BY <1>7, <2>1 DEF Coproc_!ReadLine, OnItsWay
    <3>2. Head(fd1) = n /\ Tail(fd1) = <<>>
      BY <3>1, OneByte
    <3> QED
      BY <1>7, <2>1, <3>1, <3>2 DEF Coproc_!ReadLine, OnItsWay
  <2>2. CASE fd1 = <<>>
    BY <1>7, <2>2 DEF Coproc_!ReadLine, Coproc_!ParentGone, OnItsWay
  <2> QED
    BY <2>1, <2>2
<1>8. CASE Coproc_!Answer
  <2>1. ppc = "read" /\ fd1 = <<>> /\ fd2 = <<>> /\ line = n
    BY <1>8 DEF Coproc_!Answer, OnItsWay
  <2>2. Append(fd2, line) = <<n>> /\ Append(stdout, line) \in Seq(Nat)
          /\ Append(stdout, line) # <<>>
    BY <2>1, OneByte
  <2> QED
    BY <1>8, <2>1, <2>2 DEF Coproc_!Answer, Coproc_!ParentGone, OnItsWay
<1> QED
  BY <1>1, <1>2, <1>3, <1>4, <1>5, <1>6, <1>7, <1>8 DEF Coproc_!Next

\* A sequence that counts is the function that counts.
LEMMA Counting ==
  ASSUME NEW s \in Seq(Nat), \A k \in DOMAIN s : s[k] = k PROVE s = [k \in DOMAIN s |-> k]
OBVIOUS

\* The answers printed and those in the pipe are for the lines up to n.
LEMMA CoprocHold == CoprocInv => Coproc_!CoprocAnswers
<1> SUFFICES ASSUME CoprocInv PROVE Coproc_!CoprocAnswers
  OBVIOUS
<1>1. fd2 = <<>> \/ (fd2 = <<n>> /\ Len(out) + 1 = n)
  BY DEF CoprocInv, OnItsWay
<1>2. out \in Seq(Nat) /\ n \in Nat /\ \A k \in DOMAIN out : out[k] = k
  BY DEF CoprocInv, CoprocTypes
<1>3. out \o fd2 \in Seq(Nat) /\ \A k \in DOMAIN (out \o fd2) : (out \o fd2)[k] = k
  <2>1. CASE fd2 = <<>>
    <3>1. out \o fd2 = out
      BY <1>2, <2>1
    <3> QED
      BY <1>2, <3>1
  <2>2. CASE fd2 = <<n>> /\ Len(out) + 1 = n
    BY <1>2, <2>2
  <2> QED
    BY <1>1, <2>1, <2>2
<1>4. out \o fd2 = [k \in DOMAIN (out \o fd2) |-> k]
  BY <1>3, Counting
<1>5. ppc = "fgets" => Len(out) = n
  BY DEF CoprocInv
<1>6. Coproc_!Stuck => prog = "add2stdio" /\ stdout # <<>>
  BY DEF CoprocInv, CoprocTypes, OnItsWay, Coproc_!Stuck
<1> QED
  BY <1>4, <1>5, <1>6, Zenon DEF Coproc_!CoprocAnswers

-----------------------------------------------------------------------------
(* Popen: which processes may hold the write end of a stream.  Only the      *)
(* child of the call and the children forked while the process has the       *)
(* stream get a copy; the latter remember to close theirs.                   *)

Tables == {0} \cup Popen_!Calls
ReadEnd(c) == <<"r", c>>
WriteEnd(c) == <<"w", c>>

PopenTypes ==
  /\ pc \in {"idle", "fork", "parent", "waitpid"}
  /\ n \in 0 .. MaxCalls
  /\ type \in [Popen_!Calls -> {"none", "r", "w"}]
  /\ st \in [Popen_!Calls -> {"none", "forked", "exec", "exited"}]
  /\ DOMAIN childpid = Tables /\ DOMAIN fds = Tables
  /\ \A p \in Tables : childpid[p] \in [Popen_!Fds -> {0} \cup Popen_!Calls]
  /\ \A p \in Tables : DOMAIN fds[p] = Popen_!Fds
  /\ \A c \in Popen_!Calls : st[c] # "none" => type[c] \in {"r", "w"}

\* a process before its exec
Copied(p) == p = 0 \/ st[p] = "forked"

\* it has each end of a pipe once, and it has none of a pipe that is still to be made
OneOfEach ==
  \A p \in Tables : Copied(p) => \A c \in Popen_!Calls : \A f, g \in Popen_!Fds :
    /\ fds[p][f] = ReadEnd(c) /\ fds[p][g] = ReadEnd(c) => f = g
    /\ fds[p][f] = WriteEnd(c) /\ fds[p][g] = WriteEnd(c) => f = g
Later ==
  \A c \in Popen_!Calls : c > n =>
    /\ st[c] = "none"
    /\ \A p \in Tables : \A f \in Popen_!Fds :
         fds[p][f] # ReadEnd(c) /\ fds[p][f] # WriteEnd(c) /\ childpid[p][f] # c
\* no child, no descriptors
Empty ==
  \A c \in Popen_!Calls : st[c] \in {"none", "exited"} =>
    \A f \in Popen_!Fds : fds[c][f] = Popen_!Closed
\* during popen the process has both ends, and only the new child may have one to write
SettingUp ==
  pc \in {"fork", "parent"} =>
    /\ n \in Popen_!Calls /\ type[n] \in {"r", "w"}
    /\ pfd[1] \in Popen_!Fds /\ pfd[2] \in Popen_!Fds
    /\ fds[0][pfd[1]] = ReadEnd(n) /\ fds[0][pfd[2]] = WriteEnd(n)
    /\ \A f \in Popen_!Fds : childpid[0][f] # n
    /\ \A p \in Popen_!Calls : \A f \in Popen_!Fds : fds[p][f] = WriteEnd(n) =>
         p = n /\ (type[n] = "w" => st[n] = "forked")
    /\ (pc = "fork") = (st[n] = "none")
\* a child that is remembered has its stream
Remembered ==
  \A f \in Popen_!Fds : \A c \in Popen_!Calls : childpid[0][f] = c =>
    /\ type[c] \in {"r", "w"}
    /\ fds[0][f] = IF type[c] = "r" THEN ReadEnd(c) ELSE WriteEnd(c)
\* a child before its exec has both ends of its pipe and does not close them
BothEnds ==
  \A c \in Popen_!Calls : st[c] = "forked" =>
    \E r, w \in Popen_!Fds : /\ fds[c][r] = ReadEnd(c) /\ fds[c][w] = WriteEnd(c)
                             /\ childpid[c][r] = 0 /\ childpid[c][w] = 0
\* the standard descriptors, if the process had them
Standard ==
  std = 0 .. 2 =>
    /\ \A p \in Tables : Copied(p) =>
         \A f \in 0 .. 2 : fds[p][f] = Popen_!Other /\ childpid[p][f] = 0
    /\ \A c \in Popen_!Calls : st[c] = "exec" =>
         IF type[c] = "r" THEN fds[c][1] = WriteEnd(c) ELSE fds[c][0] = ReadEnd(c)
\* the streams the process writes to and those it has closed, whose commands it waits for
Written(c) ==
  /\ type[c] = "w"
  /\ (\E f \in Popen_!Fds : childpid[0][f] = c) \/ (pc = "waitpid" /\ pid = c)
WriteEnds ==
  \A c \in Popen_!Calls : Written(c) =>
    \A p \in Popen_!Calls : \A f \in Popen_!Fds : fds[p][f] = WriteEnd(c) =>
      st[p] = "forked" /\ (p # c => childpid[p][f] # 0)
Waited ==
  pc = "waitpid" => /\ pid \in Popen_!Calls
                    /\ type[pid] = "w" => \A f \in Popen_!Fds : fds[0][f] # WriteEnd(pid)

PopenInv == /\ PopenTypes /\ OneOfEach /\ Later /\ Empty /\ SettingUp /\ Remembered /\ BothEnds
            /\ Standard /\ WriteEnds /\ Waited

\* The processes, the descriptors, and what is on them.
LEMMA PopenFacts ==
  /\ 0 \in Tables /\ Popen_!Calls \subseteq Tables /\ 0 \notin Popen_!Calls
  /\ \A p \in Tables : p # 0 => p \in Popen_!Calls
  /\ \A c \in Popen_!Calls : c \in Nat /\ c > 0
  /\ 0 .. 2 \subseteq Popen_!Fds
  /\ \A c, d : /\ ReadEnd(c) = ReadEnd(d) => c = d
               /\ WriteEnd(c) = WriteEnd(d) => c = d
               /\ ReadEnd(c) # WriteEnd(d)
               /\ Popen_!Closed \notin {ReadEnd(c), WriteEnd(c), Popen_!Other}
               /\ Popen_!Other \notin {ReadEnd(c), WriteEnd(c)}
BY PopenAssumption DEF Tables, Popen_!Calls, Popen_!Fds, ReadEnd, WriteEnd, Popen_!Closed,
    Popen_!Other

\* At first there is no pipe and no child.
LEMMA PopenInit == Popen_!Init => PopenInv
<1> SUFFICES ASSUME Popen_!Init PROVE PopenInv
  OBVIOUS
<1> USE PopenFacts
<1>1. /\ n = 0 /\ pc = "idle" /\ \A c \in Popen_!Calls : st[c] = "none"
      /\ \A p \in Tables : \A f \in Popen_!Fds :
           childpid[p][f] = 0 /\ fds[p][f] \in {Popen_!Closed, Popen_!Other}
      /\ \A c \in Popen_!Calls : \A f \in Popen_!Fds : fds[c][f] = Popen_!Closed
  BY DEF Popen_!Init, Tables
<1>2. PopenTypes
  BY PopenAssumption DEF Popen_!Init, PopenTypes, Tables
<1>3. OneOfEach /\ Later /\ Empty /\ SettingUp /\ Remembered /\ BothEnds /\ WriteEnds /\ Waited
  BY <1>1 DEF OneOfEach, Later, Empty, SettingUp, Remembered, BothEnds, WriteEnds, Written, Waited
<1>4. std = 0 .. 2 => \A f \in 0 .. 2 : fds[0][f] = Popen_!Other
  BY DEF Popen_!Init, Tables
<1>5. Standard
  BY <1>1, <1>4 DEF Standard, Copied
<1> QED
  BY <1>2, <1>3, <1>5 DEF PopenInv

\* popen makes a pipe: its ends are new, and no process has one before.
LEMMA PipeKeeps == ASSUME PopenInv, NEW e \in {"r", "w"}, Popen_!Pipe(e) PROVE PopenInv'
<1> USE PopenFacts
<1>0. /\ n' = n + 1 /\ n \in Nat /\ n' \in Popen_!Calls /\ pc = "idle" /\ n' \in 0 .. MaxCalls
      /\ type' = [type EXCEPT ![n'] = e] /\ UNCHANGED <<std, st, childpid, pid>>
  BY PopenAssumption DEF PopenInv, PopenTypes, Popen_!Pipe, Popen_!Calls
<1>1. /\ \A c \in Popen_!Calls : c # n' => type'[c] = type[c]
      /\ type'[n'] = e /\ st[n'] = "none"
      /\ \A p \in Tables : \A f \in Popen_!Fds :
           childpid[p][f] # n' /\ fds[p][f] # WriteEnd(n') /\ fds[p][f] # ReadEnd(n')
  BY <1>0 DEF PopenInv, PopenTypes, Later
<1>2. type' \in [Popen_!Calls -> {"none", "r", "w"}]
  BY <1>0 DEF PopenInv, PopenTypes
<1>3. CASE UNCHANGED <<pc, pfd, fds>>
  <2>1. PopenTypes'
    BY <1>0, <1>1, <1>2, <1>3 DEF PopenInv, PopenTypes
  <2>2. OneOfEach' /\ Later' /\ Empty' /\ SettingUp'
    BY <1>0, <1>1, <1>3 DEF PopenInv, OneOfEach, Copied, Later, Empty, SettingUp
  <2>3. Remembered' /\ BothEnds' /\ Waited'
    BY <1>0, <1>1, <1>3 DEF PopenInv, Remembered, BothEnds, Waited
  <2>4. Standard'
    BY <1>0, <1>1, <1>3 DEF PopenInv, Standard, Copied
  <2>5. WriteEnds'
    BY <1>0, <1>1, <1>3 DEF PopenInv, WriteEnds, Written
  <2> QED
    BY <2>1, <2>2, <2>3, <2>4, <2>5 DEF PopenInv
<1>4. ASSUME NEW r \in Popen_!Unused(0), NEW w \in Popen_!Unused(0), Popen_!Lowest(r, w),
             pfd' = <<r, w>>, pc' = "fork",
             fds' = [fds EXCEPT ![0] = [@ EXCEPT ![r] = <<"r", n'>>, ![w] = <<"w", n'>>]]
      PROVE  PopenInv'
  <2>1. /\ r \in Popen_!Fds /\ w \in Popen_!Fds /\ r # w
        /\ fds[0][r] = Popen_!Closed /\ fds[0][w] = Popen_!Closed
    BY <1>4 DEF Popen_!Unused, Popen_!Lowest, Popen_!Fds
  <2>2. /\ \A p \in Popen_!Calls : fds'[p] = fds[p]
        /\ fds'[0][r] = ReadEnd(n') /\ fds'[0][w] = WriteEnd(n')
        /\ \A f \in Popen_!Fds \ {r, w} : fds'[0][f] = fds[0][f]
        /\ pfd'[1] = r /\ pfd'[2] = w
    BY <1>4, <2>1 DEF PopenInv, PopenTypes, ReadEnd, WriteEnd
  <2>3. DOMAIN fds' = Tables /\ \A p \in Tables : DOMAIN fds'[p] = Popen_!Fds
    BY <1>4, <2>1 DEF PopenInv, PopenTypes
  <2>4. PopenTypes'
    BY <1>0, <1>1, <1>2, <1>4, <2>3 DEF PopenInv, PopenTypes
  <2>5. OneOfEach'
    BY <1>0, <1>1, <2>1, <2>2 DEF PopenInv, OneOfEach, Copied
  <2>6. Empty'
    BY <1>0, <1>1, <2>1, <2>2 DEF PopenInv, Empty
  <2>11. Later'
    <3>1. \A c \in Popen_!Calls : c > n' => c > n /\ c # n'
      BY <1>0
    <3> QED
      BY <1>0, <1>1, <2>1, <2>2, <3>1 DEF PopenInv, Later
  <2>7. SettingUp'
    BY <1>0, <1>1, <1>4, <2>1, <2>2 DEF PopenInv, SettingUp
  <2>8. Remembered' /\ BothEnds' /\ Waited'
    BY <1>0, <1>1, <1>4, <2>1, <2>2 DEF PopenInv, Remembered, BothEnds, Waited
  <2>9. Standard'
    BY <1>0, <1>1, <2>1, <2>2 DEF PopenInv, Standard, Copied
  <2>10. WriteEnds'
    BY <1>0, <1>1, <1>4, <2>1, <2>2 DEF PopenInv, WriteEnds, Written
  <2> QED
    BY <2>4, <2>5, <2>6, <2>7, <2>8, <2>9, <2>10, <2>11 DEF PopenInv
<1> QED
  BY <1>3, <1>4 DEF Popen_!Pipe

\* The new child has a copy of everything, a failed fork changes nothing.
LEMMA ForkKeeps == ASSUME PopenInv, Popen_!Fork PROVE PopenInv'
<1> USE PopenFacts
<1>0. pc = "fork" /\ n \in Popen_!Calls /\ UNCHANGED <<std, pfd, n, type, pid>>
  BY DEF PopenInv, SettingUp, Popen_!Fork
<1>1. CASE pc' = "idle" /\ UNCHANGED <<st, fds, childpid>>
  <2>1. PopenTypes' /\ OneOfEach' /\ Later' /\ Empty' /\ SettingUp'
    BY <1>0, <1>1 DEF PopenInv, PopenTypes, OneOfEach, Copied, Later, Empty, SettingUp
  <2>2. Remembered' /\ BothEnds' /\ Waited' /\ WriteEnds'
    BY <1>0, <1>1 DEF PopenInv, Remembered, BothEnds, Waited, WriteEnds, Written
  <2>3. Standard'
    BY <1>0, <1>1 DEF PopenInv, Standard, Copied
  <2> QED
    BY <2>1, <2>2, <2>3 DEF PopenInv
<1>2. ASSUME st' = [st EXCEPT ![n] = "forked"],
             fds' = [fds EXCEPT ![n] = fds[0]],
             childpid' = [childpid EXCEPT ![n] = childpid[0]],
             pc' = "parent"
      PROVE  PopenInv'
  <2>1. /\ fds'[0] = fds[0] /\ fds'[n] = fds[0] /\ childpid'[0] = childpid[0]
        /\ childpid'[n] = childpid[0] /\ st'[n] = "forked" /\ st[n] = "none"
        /\ \A p \in Popen_!Calls \ {n} : fds'[p] = fds[p] /\ childpid'[p] = childpid[p]
             /\ st'[p] = st[p]
    BY <1>0, <1>2 DEF PopenInv, PopenTypes, SettingUp
  <2>2. PopenTypes'
    BY <1>0, <1>2 DEF PopenInv, PopenTypes, SettingUp
  <2>3. OneOfEach'
    BY <1>0, <2>1 DEF PopenInv, OneOfEach, Copied
  <2>4. Later' /\ Empty'
    BY <1>0, <2>1 DEF PopenInv, PopenTypes, Later, Empty
  <2>5. SettingUp'
    BY <1>0, <1>2, <2>1 DEF PopenInv, SettingUp
  <2>6. BothEnds'
    <3>1. /\ pfd[1] \in Popen_!Fds /\ pfd[2] \in Popen_!Fds
          /\ fds[0][pfd[1]] = ReadEnd(n) /\ fds[0][pfd[2]] = WriteEnd(n)
          /\ \A f \in Popen_!Fds : childpid[0][f] # n
      BY <1>0 DEF PopenInv, SettingUp
    <3>2. childpid[0][pfd[1]] = 0 /\ childpid[0][pfd[2]] = 0
      <4>1. SUFFICES ASSUME NEW f \in {pfd[1], pfd[2]}, childpid[0][f] # 0 PROVE FALSE
        OBVIOUS
      <4>2. PICK c \in Popen_!Calls : childpid[0][f] = c /\ f \in Popen_!Fds
        BY <3>1, <4>1 DEF PopenInv, PopenTypes
      <4>3. fds[0][f] = ReadEnd(c) \/ fds[0][f] = WriteEnd(c)
        BY <4>2 DEF PopenInv, Remembered
      <4> QED
        BY <3>1, <4>1, <4>2, <4>3
    <3> QED
      BY <1>0, <2>1, <3>1, <3>2 DEF PopenInv, BothEnds
  <2>7. Standard'
    BY <1>0, <2>1 DEF PopenInv, Standard, Copied
  <2>8. Remembered' /\ Waited'
    BY <1>0, <1>2, <2>1 DEF PopenInv, Remembered, Waited
  <2>9. WriteEnds'
    <3>1. ASSUME NEW c \in Popen_!Calls, Written(c)', NEW p \in Popen_!Calls, NEW f \in Popen_!Fds,
                 fds'[p][f] = WriteEnd(c)
          PROVE  st'[p] = "forked" /\ (p # c => childpid'[p][f] # 0)
      <4> PICK g \in Popen_!Fds : childpid[0][g] = c
        BY <1>0, <1>2, <2>1, <3>1 DEF Written
      <4>1. Written(c) /\ fds[0][g] = WriteEnd(c)
        BY <1>0, <1>2, <2>1, <3>1 DEF PopenInv, Remembered, Written
      <4>2. CASE p = n
        <5>1. f = g
          BY <2>1, <3>1, <4>1, <4>2 DEF PopenInv, OneOfEach, Copied
        <5> QED
          BY <2>1, <4>2, <5>1
      <4>3. CASE p # n
        BY <2>1, <3>1, <4>1, <4>3 DEF PopenInv, WriteEnds
      <4> QED
        BY <4>2, <4>3
    <3> QED
      BY <3>1 DEF WriteEnds
  <2> QED
    BY <2>2, <2>3, <2>4, <2>5, <2>6, <2>7, <2>8, <2>9 DEF PopenInv
<1> QED
  BY <1>1, <1>2 DEF Popen_!Fork

\* What a child has at its exec: of the ends of other pipes those that it does not close, its
\* own end as a standard descriptor, and not the other end.
LEMMA AfterExec ==
  ASSUME PopenInv, NEW c \in Popen_!Calls, Popen_!Child(c)
  PROVE  /\ DOMAIN fds'[c] = Popen_!Fds
         /\ \A d \in Popen_!Calls \ {c} : \A f \in Popen_!Fds :
              fds'[c][f] \in {ReadEnd(d), WriteEnd(d)} => fds'[c][f] = fds[c][f]
                /\ childpid[c][f] = 0
         /\ type[c] = "w" => \A f \in Popen_!Fds : fds'[c][f] # WriteEnd(c)
         /\ std = 0 .. 2 => IF type[c] = "r" THEN fds'[c][1] = WriteEnd(c)
              ELSE fds'[c][0] = ReadEnd(c)
<1> USE PopenFacts
<1>1. PICK r \in Popen_!Fds, w \in Popen_!Fds :
        /\ fds[c][r] = ReadEnd(c) /\ fds[c][w] = WriteEnd(c)
        /\ childpid[c][r] = 0 /\ childpid[c][w] = 0
  BY DEF PopenInv, BothEnds, Popen_!Child
<1>2. /\ \A f \in Popen_!Fds : fds[c][f] = ReadEnd(c) => f = r
      /\ \A f \in Popen_!Fds : fds[c][f] = WriteEnd(c) => f = w
  BY <1>1 DEF PopenInv, OneOfEach, Copied, Popen_!Child
<1>3. Popen_!Ends(c)["r"] = r /\ Popen_!Ends(c)["w"] = w
  BY <1>1, <1>2 DEF Popen_!Ends, ReadEnd, WriteEnd
<1>4. /\ DOMAIN fds[c] = Popen_!Fds /\ type[c] \in {"r", "w"}
      /\ fds'[c] = [f \in Popen_!Fds |-> IF childpid[c][f] > 0 THEN Popen_!Closed
                                                             ELSE Popen_!Connected(c)[f]]
  BY DEF PopenInv, PopenTypes, Popen_!Child, Popen_!CloseAll
<1>5. \A f \in Popen_!Fds : childpid[c][f] > 0 \/ childpid[c][f] = 0
  BY DEF PopenInv, PopenTypes
<1>6. std = 0 .. 2 => childpid[c][0] = 0 /\ childpid[c][1] = 0 /\ r \notin 0 .. 2
        /\ w \notin 0 .. 2
  BY <1>1 DEF PopenInv, Standard, Copied, Popen_!Child
<1>7. CASE type[c] = "r"
  <2>1. Popen_!Connected(c) = IF w = 1 THEN [fds[c] EXCEPT ![r] = Popen_!Closed]
          ELSE [[fds[c] EXCEPT ![r] = Popen_!Closed] EXCEPT
                  ![1] = [fds[c] EXCEPT ![r] = Popen_!Closed][w], ![w] = Popen_!Closed]
    BY <1>3, <1>7 DEF Popen_!Connected, Popen_!Dup
  <2>2. \A f \in Popen_!Fds : Popen_!Connected(c)[f] =
          IF f = 1 THEN WriteEnd(c) ELSE IF f \in {r, w} THEN Popen_!Closed ELSE fds[c][f]
    BY <1>1, <1>4, <2>1
  <2> QED
    BY <1>1, <1>2, <1>4, <1>5, <1>6, <1>7, <2>2
<1>8. CASE type[c] = "w"
  <2>1. Popen_!Connected(c) = IF r = 0 THEN [fds[c] EXCEPT ![w] = Popen_!Closed]
          ELSE [[fds[c] EXCEPT ![w] = Popen_!Closed] EXCEPT
                  ![0] = [fds[c] EXCEPT ![w] = Popen_!Closed][r], ![r] = Popen_!Closed]
    BY <1>3, <1>8 DEF Popen_!Connected, Popen_!Dup
  <2>2. \A f \in Popen_!Fds : Popen_!Connected(c)[f] =
          IF f = 0 THEN ReadEnd(c) ELSE IF f \in {r, w} THEN Popen_!Closed ELSE fds[c][f]
    BY <1>1, <1>4, <2>1
  <2> QED
    BY <1>1, <1>2, <1>4, <1>5, <1>6, <1>8, <2>2
<1> QED
  BY <1>4, <1>7, <1>8

\* A child that execs is no copy any more, and has lost the ends it must not have.
LEMMA ChildKeeps == ASSUME PopenInv, NEW c \in Popen_!Calls, Popen_!Child(c) PROVE PopenInv'
<1> USE PopenFacts
<1>0. /\ st[c] = "forked" /\ st' = [st EXCEPT ![c] = "exec"]
      /\ UNCHANGED <<std, pc, pfd, n, type, childpid, pid>>
      /\ fds' = [fds EXCEPT ![c] = Popen_!CloseAll(c, Popen_!Connected(c))]
  BY DEF Popen_!Child
<1>1. /\ st'[c] = "exec" /\ c # 0 /\ type[c] \in {"r", "w"}
      /\ \A d \in Popen_!Calls \ {c} : st'[d] = st[d]
      /\ \A p \in Tables \ {c} : fds'[p] = fds[p]
      /\ DOMAIN fds' = Tables /\ st' \in [Popen_!Calls -> {"none", "forked", "exec", "exited"}]
  BY <1>0 DEF PopenInv, PopenTypes
<1>2. /\ DOMAIN fds'[c] = Popen_!Fds
      /\ \A d \in Popen_!Calls \ {c} : \A f \in Popen_!Fds :
           fds'[c][f] \in {ReadEnd(d), WriteEnd(d)} => fds'[c][f] = fds[c][f] /\ childpid[c][f] = 0
      /\ type[c] = "w" => \A f \in Popen_!Fds : fds'[c][f] # WriteEnd(c)
      /\ std = 0 .. 2 => IF type[c] = "r" THEN fds'[c][1] = WriteEnd(c)
           ELSE fds'[c][0] = ReadEnd(c)
  BY AfterExec
<1>3. \A d \in Popen_!Calls : d > n => c # d
  BY <1>0 DEF PopenInv, Later
<1>4. PopenTypes'
  BY <1>0, <1>1, <1>2 DEF PopenInv, PopenTypes
<1>5. OneOfEach'
  BY <1>0, <1>1 DEF PopenInv, OneOfEach, Copied
<1>6. Later'
  BY <1>0, <1>1, <1>2, <1>3 DEF PopenInv, Later
<1>7. Empty' /\ SettingUp'
  BY <1>0, <1>1, <1>2 DEF PopenInv, Empty, SettingUp
<1>8. Remembered' /\ Waited'
  BY <1>0, <1>1 DEF PopenInv, Remembered, Waited
<1>9. BothEnds'
  BY <1>0, <1>1 DEF PopenInv, BothEnds
<1>10. Standard'
  BY <1>0, <1>1, <1>2 DEF PopenInv, Standard, Copied
<1>11. WriteEnds'
  BY <1>0, <1>1, <1>2 DEF PopenInv, WriteEnds, Written
<1> QED
  BY <1>4, <1>5, <1>6, <1>7, <1>8, <1>9, <1>10, <1>11 DEF PopenInv

\* The process keeps its end and closes the other one: it may remember the child.
LEMMA ParentKeeps == ASSUME PopenInv, Popen_!Parent PROVE PopenInv'
<1> USE PopenFacts
<1> DEFINE mine == IF type[n] = "r" THEN pfd[1] ELSE pfd[2]
           his == IF type[n] = "r" THEN pfd[2] ELSE pfd[1]
<1>0. /\ pc = "parent" /\ pc' = "idle" /\ UNCHANGED <<std, pfd, n, type, st, pid>>
      /\ n \in Popen_!Calls /\ type[n] \in {"r", "w"} /\ st[n] # "none"
      /\ mine \in Popen_!Fds /\ his \in Popen_!Fds /\ mine # his
      /\ fds[0][mine] = (IF type[n] = "r" THEN ReadEnd(n) ELSE WriteEnd(n))
      /\ fds[0][his] = (IF type[n] = "r" THEN WriteEnd(n) ELSE ReadEnd(n))
  BY DEF PopenInv, SettingUp, Popen_!Parent
<1>1. /\ \A p \in Popen_!Calls : fds'[p] = fds[p] /\ childpid'[p] = childpid[p]
      /\ fds'[0][his] = Popen_!Closed /\ \A f \in Popen_!Fds \ {his} : fds'[0][f] = fds[0][f]
      /\ \A f \in Popen_!Fds \ {mine} : childpid'[0][f] = childpid[0][f]
      /\ childpid'[0][mine] \in {n, childpid[0][mine]}
  BY <1>0 DEF PopenInv, PopenTypes, Popen_!Parent
<1>2. /\ DOMAIN fds' = Tables /\ DOMAIN childpid' = Tables
      /\ childpid'[0] \in [Popen_!Fds -> {0} \cup Popen_!Calls] /\ DOMAIN fds'[0] = Popen_!Fds
  BY <1>0 DEF PopenInv, PopenTypes, Popen_!Parent
<1>3. PopenTypes'
  BY <1>0, <1>1, <1>2 DEF PopenInv, PopenTypes
<1>4. /\ \A f \in Popen_!Fds : childpid[0][f] # n
      /\ \A p \in Popen_!Calls : \A f \in Popen_!Fds : fds[p][f] = WriteEnd(n) =>
           p = n /\ (type[n] = "w" => st[n] = "forked")
  BY <1>0 DEF PopenInv, SettingUp
<1>5. childpid[0][his] = 0 /\ childpid[0][mine] = 0
  <2>1. SUFFICES ASSUME NEW f \in {mine, his}, childpid[0][f] # 0 PROVE FALSE
    OBVIOUS
  <2>2. PICK c \in Popen_!Calls : childpid[0][f] = c
    <3>1. f \in Popen_!Fds
      BY <1>0, <2>1
    <3>2. childpid[0][f] \in {0} \cup Popen_!Calls
      BY <3>1 DEF PopenInv, PopenTypes
    <3> QED
      BY <2>1, <3>2
  <2>3. fds[0][f] = ReadEnd(c) \/ fds[0][f] = WriteEnd(c)
    BY <1>0, <2>2 DEF PopenInv, Remembered
  <2> QED
    BY <1>0, <1>4, <2>2, <2>3
<1>6. OneOfEach'
  BY <1>0, <1>1 DEF PopenInv, OneOfEach, Copied
<1>7. Later'
  BY <1>0, <1>1 DEF PopenInv, Later
<1>8. Empty' /\ SettingUp' /\ BothEnds' /\ Waited'
  BY <1>0, <1>1 DEF PopenInv, Empty, SettingUp, BothEnds, Waited
<1>9. Remembered'
  BY <1>0, <1>1, <1>5 DEF PopenInv, Remembered
<1>10. Standard'
  BY <1>0, <1>1 DEF PopenInv, Standard, Copied
<1>11. WriteEnds'
  BY <1>0, <1>1, <1>4 DEF PopenInv, WriteEnds, Written
<1> QED
  BY <1>3, <1>6, <1>7, <1>8, <1>9, <1>10, <1>11 DEF PopenInv

\* pclose closes the end of the stream: no child that starts later gets it.
LEMMA PcloseKeeps == ASSUME PopenInv, NEW g \in Popen_!Fds, Popen_!pclose(g) PROVE PopenInv'
<1> USE PopenFacts
<1>0. /\ pc = "idle" /\ UNCHANGED <<std, pfd, n, type, st>>
      /\ (pc' = "waitpid" /\ pid' = childpid[0][g]) \/ UNCHANGED <<pc, pid>>
      /\ childpid' = [childpid EXCEPT ![0][g] = 0]
      /\ fds' = [fds EXCEPT ![0][g] = Popen_!Closed]
  BY DEF Popen_!pclose
<1>1. PICK c \in Popen_!Calls : childpid[0][g] = c
  BY DEF PopenInv, PopenTypes, Popen_!pclose
<1>2. /\ \A p \in Popen_!Calls : fds'[p] = fds[p] /\ childpid'[p] = childpid[p]
      /\ fds'[0][g] = Popen_!Closed /\ \A f \in Popen_!Fds \ {g} : fds'[0][f] = fds[0][f]
      /\ childpid'[0][g] = 0 /\ \A f \in Popen_!Fds \ {g} : childpid'[0][f] = childpid[0][f]
  BY <1>0 DEF PopenInv, PopenTypes
<1>3. /\ DOMAIN fds' = Tables /\ DOMAIN childpid' = Tables
      /\ childpid'[0] \in [Popen_!Fds -> {0} \cup Popen_!Calls] /\ DOMAIN fds'[0] = Popen_!Fds
  BY <1>0 DEF PopenInv, PopenTypes
<1>4. PopenTypes'
  BY <1>0, <1>2, <1>3 DEF PopenInv, PopenTypes
<1>5. OneOfEach'
  BY <1>0, <1>2 DEF PopenInv, OneOfEach, Copied
<1>6. Later'
  BY <1>0, <1>2 DEF PopenInv, Later
<1>7. Empty' /\ SettingUp' /\ BothEnds'
  BY <1>0, <1>2 DEF PopenInv, Empty, SettingUp, BothEnds
<1>8. fds[0][g] = IF type[c] = "r" THEN ReadEnd(c) ELSE WriteEnd(c)
  BY <1>1 DEF PopenInv, Remembered
<1>9. Remembered'
  BY <1>0, <1>2 DEF PopenInv, Remembered
<1>10. Waited'
  BY <1>0, <1>1, <1>2, <1>8 DEF PopenInv, Waited, OneOfEach, Copied
<1>11. Standard'
  BY <1>0, <1>1, <1>2 DEF PopenInv, Standard, Copied
<1>12. \A d \in Popen_!Calls : Written(d)' => Written(d)
  BY <1>0, <1>1, <1>2 DEF PopenInv, Written
<1>13. WriteEnds'
  BY <1>0, <1>2, <1>12 DEF PopenInv, WriteEnds
<1> QED
  BY <1>4, <1>5, <1>6, <1>7, <1>9, <1>10, <1>11, <1>13 DEF PopenInv

\* The process has its answer; a command has ended.
LEMMA WaitpidKeeps == PopenInv /\ Popen_!Waitpid => PopenInv'
<1> SUFFICES ASSUME PopenInv, Popen_!Waitpid PROVE PopenInv'
  OBVIOUS
<1>0. pc' = "idle" /\ UNCHANGED <<std, pfd, n, type, st, childpid, fds, pid>>
  BY DEF Popen_!Waitpid
<1>1. PopenTypes' /\ OneOfEach' /\ Later' /\ Empty' /\ SettingUp'
  BY <1>0 DEF PopenInv, PopenTypes, OneOfEach, Copied, Later, Empty, SettingUp
<1>2. Remembered' /\ BothEnds' /\ Standard' /\ Waited' /\ WriteEnds'
  BY <1>0 DEF PopenInv, Remembered, BothEnds, Standard, Copied, Waited, WriteEnds, Written
<1> QED
  BY <1>1, <1>2 DEF PopenInv

\* What a child's command does keeps the invariant of popen.
LEMMA CommandKeeps == ASSUME PopenInv, NEW c \in Popen_!Calls, Popen_!Command(c) PROVE PopenInv'
<1> USE PopenFacts
<1>0. /\ st[c] = "exec" /\ UNCHANGED <<std, pc, pfd, n, type, childpid, pid>>
      /\ st' = [st EXCEPT ![c] = "exited"]
      /\ fds' = [fds EXCEPT ![c] = [f \in Popen_!Fds |-> Popen_!Closed]]
  BY DEF Popen_!Command
<1>1. /\ st'[c] = "exited" /\ c # 0
      /\ \A d \in Popen_!Calls \ {c} : st'[d] = st[d]
      /\ \A p \in Tables \ {c} : fds'[p] = fds[p]
      /\ DOMAIN fds' = Tables /\ st' \in [Popen_!Calls -> {"none", "forked", "exec", "exited"}]
      /\ DOMAIN fds'[c] = Popen_!Fds /\ \A f \in Popen_!Fds : fds'[c][f] = Popen_!Closed
  BY <1>0 DEF PopenInv, PopenTypes
<1>2. PopenTypes'
  BY <1>0, <1>1 DEF PopenInv, PopenTypes
<1>3. OneOfEach'
  BY <1>0, <1>1 DEF PopenInv, OneOfEach, Copied
<1>4. Later' /\ Empty' /\ SettingUp'
  BY <1>0, <1>1 DEF PopenInv, Later, Empty, SettingUp
<1>5. Remembered' /\ BothEnds' /\ Waited'
  BY <1>0, <1>1 DEF PopenInv, Remembered, BothEnds, Waited
<1>6. Standard'
  BY <1>0, <1>1 DEF PopenInv, Standard, Copied
<1>7. WriteEnds'
  <2>1. \A d \in Popen_!Calls : Written(d)' => Written(d)
    BY <1>0 DEF Written
  <2>2. ASSUME NEW d \in Popen_!Calls, Written(d), NEW p \in Popen_!Calls, NEW f \in Popen_!Fds,
               fds'[p][f] = WriteEnd(d)
        PROVE  st'[p] = "forked" /\ (p # d => childpid'[p][f] # 0)
    <3>1. p # c /\ fds[p][f] = WriteEnd(d)
      BY <1>1, <2>2
    <3> QED
      BY <1>0, <1>1, <2>2, <3>1 DEF PopenInv, WriteEnds
  <2> QED
    BY <2>1, <2>2 DEF WriteEnds
<1> QED
  BY <1>2, <1>3, <1>4, <1>5, <1>6, <1>7 DEF PopenInv

\* Each step of popen, pclose and the commands keeps PopenInv.
LEMMA PopenStep == ASSUME PopenInv, [Popen_!Next]_(Popen_!vars) PROVE PopenInv'
<1>1. CASE Popen_!Next
  BY <1>1, PipeKeeps, ForkKeeps, ParentKeeps, WaitpidKeeps, ChildKeeps, CommandKeeps, PcloseKeeps
     DEF Popen_!Next
<1>2. CASE UNCHANGED Popen_!vars
  <2>1. PopenTypes' /\ OneOfEach' /\ Later' /\ Empty' /\ SettingUp'
    BY <1>2 DEF Popen_!vars, PopenInv, PopenTypes, OneOfEach, Copied, Later, Empty, SettingUp
  <2>2. Remembered' /\ BothEnds' /\ Standard' /\ Waited' /\ WriteEnds'
    BY <1>2 DEF Popen_!vars, PopenInv, Remembered, BothEnds, Standard, Copied, Waited, WriteEnds,
        Written
  <2> QED
    BY <2>1, <2>2 DEF PopenInv
<1> QED
  BY <1>1, <1>2

\* The command that pclose waits for gets the end of file: whoever has its pipe is a child
\* that has not got to its exec yet.
LEMMA PopenHold == PopenInv => Popen_!PcloseReturns
<1> SUFFICES ASSUME PopenInv PROVE Popen_!PcloseReturns
  OBVIOUS
<1> USE PopenFacts
<1>1. ASSUME pc = "waitpid", type[pid] = "w", NEW p \in Popen_!Writers(pid)
      PROVE  st[p] = "forked"
  <2>1. p \in Tables /\ pid \in Popen_!Calls /\ \E f \in Popen_!Fds : fds[p][f] = WriteEnd(pid)
    BY <1>1 DEF PopenInv, PopenTypes, Waited, Popen_!Writers, WriteEnd
  <2>2. Written(pid) /\ p # 0
    BY <1>1, <2>1 DEF PopenInv, Waited, Written
  <2> QED
    BY <2>1, <2>2 DEF PopenInv, WriteEnds
<1>2. \A c \in Popen_!Calls : st[c] = "exec" /\ std = 0 .. 2 =>
        IF type[c] = "r" THEN fds[c][1] = <<"w", c>> ELSE fds[c][0] = <<"r", c>>
  BY DEF PopenInv, Standard, ReadEnd, WriteEnd
<1> QED
  BY <1>1, <1>2 DEF Popen_!PcloseReturns

-----------------------------------------------------------------------------
(* What the programs share.                                                  *)

One(b) == IF b THEN 1 ELSE 0

\* What Append does to a sequence.
LEMMA Appended ==
  ASSUME NEW S, NEW s \in Seq(S), NEW x \in S
  PROVE  /\ Append(s, x) \in Seq(S) /\ Len(Append(s, x)) = Len(s) + 1
         /\ Append(s, x)[Len(s) + 1] = x
         /\ \A k \in 1 .. Len(s) : Append(s, x)[k] = s[k]
OBVIOUS

-----------------------------------------------------------------------------
(* RecLocks: what each process of deadlock and of mandatory has locked and   *)
(* been told at each of its steps.                                           *)

Held(p, B) == {<<p, "W", b>> : b \in B}

\* Both reach their second lock with one byte each.  Only an error of the other one can give
\* a process both bytes.
Crossed ==
  /\ pc \in [RecLocks_!Procs -> Nat] /\ told \in [RecLocks_!Procs -> Nat]
  /\ DOMAIN st = RecLocks_!Procs /\ st[2] = "no" /\ st[3] = "no"
  /\ st[0] \in {"runs", "exit", "error"} /\ st[1] \in {"no", "runs", "exit", "error"}
  /\ pc[0] \in 1 .. 6 /\ pc[1] \in 1 .. 5
  /\ (pc[0] = 1) = (st[1] = "no") /\ (st[1] = "no" => pc[1] = 1)
  /\ told[1] + One(pc[1] > 3) = One(pc[0] > 3)
  /\ told[0] + One(pc[0] > 4) = One(pc[1] > 2)
  /\ held = Held(0, IF st[0] # "runs" \/ pc[0] < 3 THEN {} ELSE IF pc[0] = 6 THEN {0, 1} ELSE {1})
            \cup Held(1, IF st[1] # "runs" \/ pc[1] < 2 THEN {} ELSE IF pc[1] = 5 THEN {0, 1}
              ELSE {0})
  /\ st[0] = "error" => pc[0] \in {1, 5}
  /\ st[0] = "exit" => pc[0] = 6
  /\ st[1] = "error" => pc[1] = 4
  /\ st[1] = "exit" => pc[1] = 5
  /\ pc[0] = 6 => st[1] = "error"
  /\ pc[1] = 5 => st[0] = "error"
  /\ ~(st[0] = "error" /\ st[1] = "error")

\* The child asks for the file while its parent has it, and the parent waits for the child.
Refused ==
  /\ pc \in [RecLocks_!Procs -> Nat] /\ told \in [RecLocks_!Procs -> Nat]
  /\ DOMAIN st = RecLocks_!Procs /\ st[2] = "no" /\ st[3] = "no"
  /\ st[0] \in {"runs", "exit", "error"} /\ st[1] \in {"no", "runs", "exit"}
  /\ pc[0] \in 1 .. 5 /\ pc[1] \in 1 .. 3
  /\ (pc[0] = 1) = (st[1] = "no") /\ (st[1] = "no" => pc[1] = 1)
  /\ told[1] + One(pc[1] > 1) = One(pc[0] > 3)
  /\ held = Held(0, IF st[0] # "runs" \/ pc[0] < 3 THEN {} ELSE {0, 1})
  /\ st[0] = "error" => pc[0] = 1
  /\ st[0] = "exit" => pc[0] = 5
  /\ pc[0] = 5 => st[1] = "exit"
  /\ st[1] = "exit" => pc[1] = 3

RecLocksInv == (prog = "deadlock" => Crossed) /\ (prog = "mandatory" => Refused)

\* The steps of the programs, one by one.
Does(p, o, q) == RecLocks_!Op(p) = <<o, q>>
Waits(p, L) == RecLocks_!Op(p) = <<"lock", "W", L, "must", TRUE>>
Asks(p, L) == RecLocks_!Op(p) = <<"lock", "W", L, "must", FALSE>>
Tries(p, L) == RecLocks_!Op(p) = <<"lock", "R", L, "fail", FALSE>>

\* The programs of RecLocks have as many steps as their sources have calls.
LEMMA StepCount ==
  ASSUME NEW a, NEW b, NEW c, NEW d, NEW e
  PROVE  Len(<<a, b>>) = 2 /\ Len(<<a, b, c, d>>) = 4 /\ Len(<<a, b, c, d, e>>) = 5
OBVIOUS

\* What each step of deadlock.c is for the parent and for the child.
LEMMA DeadlockSteps ==
  ASSUME prog = "deadlock"
  PROVE  /\ RecLocks_!AtEnd(0) <=> pc[0] > 5
         /\ RecLocks_!AtEnd(1) <=> pc[1] > 4
         /\ pc[0] = 1 => Does(0, "fork", 1)
         /\ pc[0] = 2 => Waits(0, {1})
         /\ pc[0] = 3 => Does(0, "tell", 1)
         /\ pc[0] = 4 => Does(0, "hear", 1)
         /\ pc[0] = 5 => Waits(0, {0})
         /\ pc[1] = 1 => Waits(1, {0})
         /\ pc[1] = 2 => Does(1, "tell", 0)
         /\ pc[1] = 3 => Does(1, "hear", 0)
         /\ pc[1] = 4 => Waits(1, {1})
<1>1. RecLocks_!Steps(0) = RecLocks_!deadlock[1] /\ RecLocks_!Steps(1) = RecLocks_!deadlock[2]
  BY DEF RecLocks_!Steps, RecLocks_!Program
<1>2. RecLocks_!deadlock[1] =
        << <<"fork", 1>>, <<"lock", "W", {1}, "must", TRUE>>, <<"tell", 1>>, <<"hear", 1>>,
          <<"lock", "W", {0}, "must", TRUE>> >>
  BY Zenon DEF RecLocks_!deadlock
<1>3. RecLocks_!deadlock[2] =
        << <<"lock", "W", {0}, "must", TRUE>>, <<"tell", 0>>, <<"hear", 0>>,
          <<"lock", "W", {1}, "must", TRUE>> >>
  BY Zenon DEF RecLocks_!deadlock
<1>4. /\ RecLocks_!AtEnd(0) <=> pc[0] > 5
      /\ RecLocks_!AtEnd(1) <=> pc[1] > 4
  <2>1. Len(RecLocks_!Steps(0)) = 5 /\ Len(RecLocks_!Steps(1)) = 4
    BY <1>1, <1>2, <1>3, StepCount
  <2> QED
    BY <2>1, Zenon DEF RecLocks_!AtEnd
<1>5. RecLocks_!deadlock[1][1] = <<"fork", 1>>
  BY Zenon DEF RecLocks_!deadlock
<1>6. RecLocks_!deadlock[1][2] = <<"lock", "W", {1}, "must", TRUE>>
  BY Zenon DEF RecLocks_!deadlock
<1>7. RecLocks_!deadlock[1][3] = <<"tell", 1>>
  BY Zenon DEF RecLocks_!deadlock
<1>8. RecLocks_!deadlock[1][4] = <<"hear", 1>>
  BY Zenon DEF RecLocks_!deadlock
<1>9. RecLocks_!deadlock[1][5] = <<"lock", "W", {0}, "must", TRUE>>
  BY Zenon DEF RecLocks_!deadlock
<1>10. RecLocks_!deadlock[2][1] = <<"lock", "W", {0}, "must", TRUE>>
  BY Zenon DEF RecLocks_!deadlock
<1>11. RecLocks_!deadlock[2][2] = <<"tell", 0>>
  BY Zenon DEF RecLocks_!deadlock
<1>12. RecLocks_!deadlock[2][3] = <<"hear", 0>>
  BY Zenon DEF RecLocks_!deadlock
<1>13. RecLocks_!deadlock[2][4] = <<"lock", "W", {1}, "must", TRUE>>
  BY Zenon DEF RecLocks_!deadlock
<1>14. /\ pc[0] = 1 => RecLocks_!Op(0) = RecLocks_!deadlock[1][1]
       /\ pc[0] = 2 => RecLocks_!Op(0) = RecLocks_!deadlock[1][2]
       /\ pc[0] = 3 => RecLocks_!Op(0) = RecLocks_!deadlock[1][3]
       /\ pc[0] = 4 => RecLocks_!Op(0) = RecLocks_!deadlock[1][4]
       /\ pc[0] = 5 => RecLocks_!Op(0) = RecLocks_!deadlock[1][5]
       /\ pc[1] = 1 => RecLocks_!Op(1) = RecLocks_!deadlock[2][1]
       /\ pc[1] = 2 => RecLocks_!Op(1) = RecLocks_!deadlock[2][2]
       /\ pc[1] = 3 => RecLocks_!Op(1) = RecLocks_!deadlock[2][3]
       /\ pc[1] = 4 => RecLocks_!Op(1) = RecLocks_!deadlock[2][4]
  BY <1>1 DEF RecLocks_!Op
<1> QED
  BY <1>4, <1>5, <1>6, <1>7, <1>8, <1>9, <1>10, <1>11, <1>12, <1>13, <1>14, Zenon DEF Does, Asks,
      Waits, Tries

\* What each step of mandatory.c is for the parent and for the child.
LEMMA MandatorySteps ==
  ASSUME prog = "mandatory"
  PROVE  /\ RecLocks_!AtEnd(0) <=> pc[0] > 4
         /\ RecLocks_!AtEnd(1) <=> pc[1] > 2
         /\ pc[0] = 1 => Does(0, "fork", 1)
         /\ pc[0] = 2 => Asks(0, {0, 1})
         /\ pc[0] = 3 => Does(0, "tell", 1)
         /\ pc[0] = 4 => Does(0, "waitpid", 1)
         /\ pc[1] = 1 => Does(1, "hear", 0)
         /\ pc[1] = 2 => Tries(1, {0, 1})
<1>1. RecLocks_!Steps(0) = RecLocks_!mandatory[1] /\ RecLocks_!Steps(1) = RecLocks_!mandatory[2]
  BY DEF RecLocks_!Steps, RecLocks_!Program
<1>2. RecLocks_!mandatory[1] =
        << <<"fork", 1>>, <<"lock", "W", {0, 1}, "must", FALSE>>, <<"tell", 1>>,
          <<"waitpid", 1>> >>
  BY Zenon DEF RecLocks_!mandatory, RecLocks_!All
<1>3. RecLocks_!mandatory[2] =
        << <<"hear", 0>>, <<"lock", "R", {0, 1}, "fail", FALSE>> >>
  BY Zenon DEF RecLocks_!mandatory, RecLocks_!All
<1>4. /\ RecLocks_!AtEnd(0) <=> pc[0] > 4
      /\ RecLocks_!AtEnd(1) <=> pc[1] > 2
  <2>1. Len(RecLocks_!Steps(0)) = 4 /\ Len(RecLocks_!Steps(1)) = 2
    BY <1>1, <1>2, <1>3, StepCount
  <2> QED
    BY <2>1, Zenon DEF RecLocks_!AtEnd
<1>5. RecLocks_!mandatory[1][1] = <<"fork", 1>>
  BY Zenon DEF RecLocks_!mandatory, RecLocks_!All
<1>6. RecLocks_!mandatory[1][2] = <<"lock", "W", {0, 1}, "must", FALSE>>
  BY Zenon DEF RecLocks_!mandatory, RecLocks_!All
<1>7. RecLocks_!mandatory[1][3] = <<"tell", 1>>
  BY Zenon DEF RecLocks_!mandatory, RecLocks_!All
<1>8. RecLocks_!mandatory[1][4] = <<"waitpid", 1>>
  BY Zenon DEF RecLocks_!mandatory, RecLocks_!All
<1>9. RecLocks_!mandatory[2][1] = <<"hear", 0>>
  BY Zenon DEF RecLocks_!mandatory, RecLocks_!All
<1>10. RecLocks_!mandatory[2][2] = <<"lock", "R", {0, 1}, "fail", FALSE>>
  BY Zenon DEF RecLocks_!mandatory, RecLocks_!All
<1>11. /\ pc[0] = 1 => RecLocks_!Op(0) = RecLocks_!mandatory[1][1]
       /\ pc[0] = 2 => RecLocks_!Op(0) = RecLocks_!mandatory[1][2]
       /\ pc[0] = 3 => RecLocks_!Op(0) = RecLocks_!mandatory[1][3]
       /\ pc[0] = 4 => RecLocks_!Op(0) = RecLocks_!mandatory[1][4]
       /\ pc[1] = 1 => RecLocks_!Op(1) = RecLocks_!mandatory[2][1]
       /\ pc[1] = 2 => RecLocks_!Op(1) = RecLocks_!mandatory[2][2]
  BY <1>1 DEF RecLocks_!Op
<1> QED
  BY <1>4, <1>5, <1>6, <1>7, <1>8, <1>9, <1>10, <1>11, Zenon DEF Does, Asks, Waits, Tries

\* The locks are free when the programs begin.
LEMMA RecLocksInit == RecLocks_!Init => RecLocksInv
BY DEF RecLocks_!Init, RecLocksInv, Crossed, Refused, Held, One, RecLocks_!Procs

\* The locks that are left when a process ends.
LEMMA Locks ==
  ASSUME NEW B, NEW C, held = Held(0, B) \cup Held(1, C)
  PROVE  /\ RecLocks_!Released(0) = Held(0, {}) \cup Held(1, C)
         /\ RecLocks_!Released(1) = Held(0, B) \cup Held(1, {})
BY DEF Held, RecLocks_!Released

\* A write lock of p on the bytes L, while p has B and the other process q has C.
After(p, q, B, C, L) ==
  /\ UNCHANGED <<prog, told>>
  /\ \/ /\ L \cap C = {} /\ RecLocks_!Onward(p) /\ UNCHANGED st
        /\ held' = Held(p, B \cup L) \cup Held(q, C)
     \/ /\ L \cap C # {} /\ RecLocks_!End(p, "error")
        /\ Waits(p, L) => RecLocks_!Waiting(q)

\* A granted lock adds its bytes to those of one process.
LEMMA LockKeeps ==
  ASSUME NEW p, NEW q, p # q, NEW B, NEW C, held = Held(p, B) \cup Held(q, C),
         NEW L, Asks(p, L) \/ Waits(p, L), RecLocks_!Lock(p)
  PROVE  After(p, q, B, C, L)
<1>0. /\ RecLocks_!Op(p)[2] = "W" /\ RecLocks_!Op(p)[3] = L /\ RecLocks_!Op(p)[4] = "must"
      /\ Waits(p, L) => RecLocks_!Op(p)[5]
  <2>1. CASE Asks(p, L)
    BY <2>1 DEF Asks, Waits
  <2>2. CASE Waits(p, L)
    BY <2>2 DEF Waits
  <2> QED
    BY <2>1, <2>2
<1>1. RecLocks_!Blockers(p) = {l[1] : l \in {l \in held : l[1] # p /\ l[3] \in L}}
  BY <1>0 DEF RecLocks_!Blockers
<1>2. \A x \in RecLocks_!Blockers(p) : x = q
  BY <1>1 DEF Held
<1>3. ASSUME NEW b \in L \cap C PROVE q \in RecLocks_!Blockers(p)
  <2>1. <<q, "W", b>> \in held
    BY <1>3 DEF Held
  <2> QED
    BY <1>1, <1>3, <2>1
<1>4. ASSUME NEW x \in RecLocks_!Blockers(p) PROVE L \cap C # {}
  BY <1>1, <1>4 DEF Held
<1>5. CASE RecLocks_!Blockers(p) = {}
  <2>1. /\ UNCHANGED <<prog, told, st>> /\ RecLocks_!Onward(p)
        /\ held' = {l \in held : l[1] # p \/ l[3] \notin L} \cup {<<p, "W", b>> : b \in L}
    BY <1>0, <1>5 DEF RecLocks_!Lock
  <2> QED
    BY <1>3, <1>5, <2>1 DEF Held, After
<1>6. CASE RecLocks_!Blockers(p) # {}
  <2>1. UNCHANGED <<prog, told>> /\ RecLocks_!End(p, "error")
          /\ (Waits(p, L) => RecLocks_!Cycle(p))
    BY <1>0, <1>6 DEF RecLocks_!Lock
  <2> QED
    BY <1>2, <1>4, <1>6, <2>1 DEF RecLocks_!Cycle, After
<1> QED
  BY <1>5, <1>6

\* Which action a process that runs may take is a matter of its step.
LEMMA OneAction ==
  ASSUME NEW p \in RecLocks_!Procs, st[p] = "runs",
         \/ RecLocks_!Fork(p) \/ RecLocks_!Lock(p) \/ RecLocks_!Tell(p) \/ RecLocks_!Hear(p)
         \/ RecLocks_!Waitpid(p) \/ RecLocks_!Kill(p) \/ RecLocks_!Exit(p)
  PROVE  /\ RecLocks_!AtEnd(p) => RecLocks_!Exit(p)
         /\ ~RecLocks_!AtEnd(p) =>
              /\ \A q : /\ Does(p, "fork", q) => RecLocks_!Fork(p)
                        /\ Does(p, "tell", q) => RecLocks_!Tell(p)
                        /\ Does(p, "hear", q) => RecLocks_!Hear(p)
                        /\ Does(p, "waitpid", q) => RecLocks_!Waitpid(p)
              /\ \A L : Asks(p, L) \/ Waits(p, L) \/ Tries(p, L) => RecLocks_!Lock(p)
<1>1. /\ RecLocks_!Fork(p) => ~RecLocks_!AtEnd(p) /\ RecLocks_!Op(p)[1] = "fork"
      /\ RecLocks_!Lock(p) => ~RecLocks_!AtEnd(p) /\ RecLocks_!Op(p)[1] = "lock"
      /\ RecLocks_!Tell(p) => ~RecLocks_!AtEnd(p) /\ RecLocks_!Op(p)[1] = "tell"
      /\ RecLocks_!Hear(p) => ~RecLocks_!AtEnd(p) /\ RecLocks_!Op(p)[1] = "hear"
      /\ RecLocks_!Waitpid(p) => ~RecLocks_!AtEnd(p) /\ RecLocks_!Op(p)[1] = "waitpid"
      /\ RecLocks_!Kill(p) => ~RecLocks_!AtEnd(p) /\ RecLocks_!Op(p)[1] = "kill"
      /\ RecLocks_!Exit(p) => RecLocks_!AtEnd(p)
  BY DEF RecLocks_!Fork, RecLocks_!Lock, RecLocks_!Tell, RecLocks_!Hear, RecLocks_!Waitpid,
         RecLocks_!Kill, RecLocks_!Exit, RecLocks_!Is
<1>2. \A o, q : Does(p, o, q) => RecLocks_!Op(p)[1] = o
  BY DEF Does
<1>3. \A L : Asks(p, L) => RecLocks_!Op(p)[1] = "lock"
  BY DEF Asks
<1>4. \A L : Waits(p, L) => RecLocks_!Op(p)[1] = "lock"
  BY DEF Waits
<1>5. \A L : Tries(p, L) => RecLocks_!Op(p)[1] = "lock"
  BY DEF Tries
<1> QED
  BY <1>1, <1>2, <1>3, <1>4, <1>5

\* The actions but Lock, as what they do.
LEMMA OtherActions ==
  ASSUME NEW p \in RecLocks_!Procs, NEW q
  PROVE  /\ RecLocks_!Fork(p) /\ Does(p, "fork", q) =>
              /\ UNCHANGED <<prog, told>>
              /\ \/ st' = [st EXCEPT ![q] = "runs"] /\ RecLocks_!Onward(p) /\ UNCHANGED held
                 \/ RecLocks_!End(p, "error")
         /\ RecLocks_!Tell(p) /\ Does(p, "tell", q) =>
              /\ told' = [told EXCEPT ![q] = @ + 1] /\ RecLocks_!Onward(p)
              /\ UNCHANGED <<prog, st, held>>
         /\ RecLocks_!Waitpid(p) /\ Does(p, "waitpid", q) =>
              RecLocks_!Ended(q) /\ RecLocks_!Onward(p) /\ UNCHANGED <<prog, st, held, told>>
<1>1. \A o : Does(p, o, q) => RecLocks_!Op(p)[2] = q
  BY DEF Does
<1> QED
  BY <1>1 DEF RecLocks_!Fork, RecLocks_!Tell, RecLocks_!Waitpid

\* A step of the parent of deadlock.c, between the two locks of each.
LEMMA CrossedParent ==
  ASSUME prog = "deadlock", Crossed, st[0] = "runs",
         \/ RecLocks_!Fork(0) \/ RecLocks_!Lock(0) \/ RecLocks_!Tell(0) \/ RecLocks_!Hear(0)
         \/ RecLocks_!Waitpid(0) \/ RecLocks_!Kill(0) \/ RecLocks_!Exit(0)
  PROVE  Crossed'
<1> DEFINE C == IF st[1] # "runs" \/ pc[1] < 2 THEN {} ELSE IF pc[1] = 5 THEN {0, 1} ELSE {0}
<1> HIDE DEF C
<1>0. 0 \in RecLocks_!Procs /\ 1 \in RecLocks_!Procs /\ (RecLocks_!AtEnd(0) <=> pc[0] > 5)
  BY DeadlockSteps DEF RecLocks_!Procs
<1>1. CASE pc[0] = 1
  <2>1. Does(0, "fork", 1) /\ RecLocks_!Fork(0)
    BY <1>0, <1>1, DeadlockSteps, OneAction
  <2>2. /\ UNCHANGED <<prog, told>>
        /\ \/ st' = [st EXCEPT ![1] = "runs"] /\ RecLocks_!Onward(0) /\ UNCHANGED held
           \/ RecLocks_!End(0, "error")
    BY <1>0, <2>1, OtherActions
  <2>3. held = Held(0, {}) \cup Held(1, {}) /\ RecLocks_!Released(0) = Held(0, {}) \cup Held(1, {})
    BY <1>1, Locks DEF Crossed
  <2>4. CASE st' = [st EXCEPT ![1] = "runs"] /\ RecLocks_!Onward(0) /\ UNCHANGED held
    <3>1. /\ st'[0] = st[0] /\ st'[1] = "runs" /\ st'[2] = st[2] /\ st'[3] = st[3]
          /\ DOMAIN st' = RecLocks_!Procs /\ pc' \in [RecLocks_!Procs -> Nat]
          /\ pc'[0] = 2 /\ pc'[1] = 1 /\ pc[1] = 1
      BY <1>0, <1>1, <2>4 DEF Crossed, RecLocks_!Onward
    <3> QED
      BY <1>1, <2>2, <2>3, <2>4, <3>1 DEF Crossed, One
  <2>5. CASE RecLocks_!End(0, "error")
    <3>1. /\ st'[0] = "error" /\ st'[1] = st[1] /\ st'[2] = st[2] /\ st'[3] = st[3]
          /\ DOMAIN st' = RecLocks_!Procs /\ pc' = pc /\ held' = Held(0, {}) \cup Held(1, {})
      BY <1>0, <2>3, <2>5 DEF Crossed, RecLocks_!End
    <3> QED
      BY <1>1, <2>2, <3>1 DEF Crossed, One
  <2> QED
    BY <2>2, <2>4, <2>5
<1>2. CASE pc[0] = 2
  <2>1. Waits(0, {1}) /\ RecLocks_!Lock(0)
    BY <1>0, <1>2, DeadlockSteps, OneAction
  <2>2. held = Held(0, {}) \cup Held(1, C) /\ {1} \cap C = {} /\ {} \cup {1} = {1}
    BY <1>2 DEF C, Crossed, One
  <2>3. /\ UNCHANGED <<prog, told, st>> /\ RecLocks_!Onward(0)
        /\ held' = Held(0, {1}) \cup Held(1, C)
    <3>1. (Asks(0, {1}) \/ Waits(0, {1})) /\ 0 # 1
      BY <2>1
    <3>2. After(0, 1, {}, C, {1})
      BY <2>1, <2>2, <3>1, LockKeeps, Zenon
    <3> QED
      BY <2>2, <3>2 DEF After
  <2> QED
    BY <1>0, <1>2, <2>3 DEF C, Crossed, One, RecLocks_!Onward
<1>3. CASE pc[0] = 3
  <2>1. Does(0, "tell", 1) /\ RecLocks_!Tell(0)
    BY <1>0, <1>3, DeadlockSteps, OneAction
  <2>2. told' = [told EXCEPT ![1] = @ + 1] /\ RecLocks_!Onward(0) /\ UNCHANGED <<prog, st, held>>
    BY <1>0, <2>1, OtherActions
  <2> QED
    BY <1>0, <1>3, <2>2 DEF C, Crossed, One, RecLocks_!Onward
<1>4. CASE pc[0] = 4
  <2>1. RecLocks_!Hear(0)
    BY <1>0, <1>4, DeadlockSteps, OneAction
  <2> QED
    <3>1. /\ pc'[0] = 5 /\ pc'[1] = pc[1] /\ told'[0] = told[0] - 1 /\ told'[1] = told[1]
          /\ told[0] > 0 /\ told' \in [RecLocks_!Procs -> Nat] /\ pc' \in [RecLocks_!Procs -> Nat]
          /\ UNCHANGED <<prog, st, held>>
      BY <1>0, <1>4, <2>1 DEF Crossed, RecLocks_!Hear, RecLocks_!Onward
    <3>2. told[0] = 1 /\ told'[0] = 0 /\ pc[1] \in {3, 4}
      <4>1. told[0] \in Nat /\ pc[1] \in 1 .. 5 /\ (pc[1] = 5 => st[0] = "error")
        BY <1>0 DEF Crossed
      <4>2. told[0] + One(pc[0] > 4) = One(pc[1] > 2)
        BY DEF Crossed
      <4> QED
        BY <1>4, <3>1, <4>1, <4>2 DEF One
    <3> QED
      BY <1>4, <3>1, <3>2 DEF Crossed, One
<1>5. CASE pc[0] = 5
  <2>1. Waits(0, {0}) /\ RecLocks_!Lock(0)
    BY <1>0, <1>5, DeadlockSteps, OneAction
  <2>2. held = Held(0, {1}) \cup Held(1, C) /\ {1} \cup {0} = {0, 1}
    BY <1>5 DEF C, Crossed
  <2>3. /\ UNCHANGED <<prog, told>>
        /\ \/ /\ {0} \cap C = {} /\ RecLocks_!Onward(0) /\ UNCHANGED st
              /\ held' = Held(0, {0, 1}) \cup Held(1, C)
           \/ {0} \cap C # {} /\ RecLocks_!End(0, "error") /\ RecLocks_!Waiting(1)
    <3>1. (Asks(0, {0}) \/ Waits(0, {0})) /\ 0 # 1
      BY <2>1
    <3>2. After(0, 1, {1}, C, {0})
      BY <2>1, <2>2, <3>1, LockKeeps, Zenon
    <3> QED
      BY <2>1, <2>2, <3>2 DEF After
  <2>4. CASE {0} \cap C = {} /\ RecLocks_!Onward(0) /\ UNCHANGED st /\ held' = Held(0, {0, 1})
          \cup Held(1, C)
    <3>1. pc[1] > 2
      <4>1. told[0] \in Nat /\ told[0] + One(pc[0] > 4) = One(pc[1] > 2)
        BY <1>0 DEF Crossed
      <4> QED
        BY <1>5, <4>1 DEF One
    <3>2. st[1] # "no" /\ st[1] # "exit" /\ pc[1] # 5 /\ st[1] \in {"no", "runs", "exit", "error"}
      BY <3>1 DEF Crossed
    <3>3. st[1] # "runs"
      <4>1. st[1] = "runs" => C = {0}
        BY <3>1, <3>2 DEF C, Crossed
      <4>2. {0} \cap C = {}
        BY <2>4
      <4> QED
        BY <4>1, <4>2
    <3> QED
      BY <1>0, <1>5, <2>3, <2>4, <3>1, <3>2, <3>3 DEF C, Crossed, One, RecLocks_!Onward
  <2>5. CASE RecLocks_!End(0, "error") /\ RecLocks_!Waiting(1)
    <3>1. RecLocks_!Released(0) = Held(0, {}) \cup Held(1, C)
      BY <2>2, Locks
    <3>2. st[1] = "runs"
      BY <2>5 DEF RecLocks_!Waiting, RecLocks_!Is
    <3> QED
      BY <1>0, <1>5, <2>3, <2>5, <3>1, <3>2 DEF C, Crossed, One, RecLocks_!End
  <2> QED
    BY <2>3, <2>4, <2>5
<1>6. CASE pc[0] = 6
  <2>1. RecLocks_!Exit(0)
    BY <1>0, <1>6, OneAction
  <2>2. RecLocks_!Released(0) = Held(0, {}) \cup Held(1, C)
    BY Locks DEF C, Crossed
  <2> QED
    BY <1>0, <1>6, <2>1, <2>2 DEF C, Crossed, One, RecLocks_!Exit, RecLocks_!End
<1> QED
  BY <1>1, <1>2, <1>3, <1>4, <1>5, <1>6 DEF C, Crossed

\* The same for a step of the child.
LEMMA CrossedChild ==
  ASSUME prog = "deadlock", Crossed, st[1] = "runs",
         \/ RecLocks_!Fork(1) \/ RecLocks_!Lock(1) \/ RecLocks_!Tell(1) \/ RecLocks_!Hear(1)
         \/ RecLocks_!Waitpid(1) \/ RecLocks_!Kill(1) \/ RecLocks_!Exit(1)
  PROVE  Crossed'
<1> DEFINE B == IF st[0] # "runs" \/ pc[0] < 3 THEN {} ELSE IF pc[0] = 6 THEN {0, 1} ELSE {1}
<1> HIDE DEF B
<1>0. 0 \in RecLocks_!Procs /\ 1 \in RecLocks_!Procs /\ (RecLocks_!AtEnd(1) <=> pc[1] > 4)
        /\ pc[0] > 1
  BY DeadlockSteps DEF RecLocks_!Procs, Crossed
<1>1. CASE pc[1] = 1
  <2>1. Waits(1, {0}) /\ RecLocks_!Lock(1)
    BY <1>0, <1>1, DeadlockSteps, OneAction
  <2>2. held = Held(1, {}) \cup Held(0, B) /\ {0} \cap B = {} /\ {} \cup {0} = {0}
    BY <1>1 DEF B, Crossed, One
  <2>3. /\ UNCHANGED <<prog, told, st>> /\ RecLocks_!Onward(1)
        /\ held' = Held(1, {0}) \cup Held(0, B)
    <3>1. (Asks(1, {0}) \/ Waits(1, {0})) /\ 1 # 0
      BY <2>1
    <3>2. After(1, 0, {}, B, {0})
      BY <2>1, <2>2, <3>1, LockKeeps, Zenon
    <3> QED
      BY <2>2, <3>2 DEF After
  <2> QED
    BY <1>0, <1>1, <2>3 DEF B, Crossed, One, RecLocks_!Onward
<1>2. CASE pc[1] = 2
  <2>1. Does(1, "tell", 0) /\ RecLocks_!Tell(1)
    BY <1>0, <1>2, DeadlockSteps, OneAction
  <2>2. told' = [told EXCEPT ![0] = @ + 1] /\ RecLocks_!Onward(1) /\ UNCHANGED <<prog, st, held>>
    BY <1>0, <2>1, OtherActions
  <2> QED
    BY <1>0, <1>2, <2>2 DEF B, Crossed, One, RecLocks_!Onward
<1>3. CASE pc[1] = 3
  <2>1. RecLocks_!Hear(1)
    BY <1>0, <1>3, DeadlockSteps, OneAction
  <2> QED
    <3>1. /\ pc'[1] = 4 /\ pc'[0] = pc[0] /\ told'[1] = told[1] - 1 /\ told'[0] = told[0]
          /\ told[1] > 0 /\ told' \in [RecLocks_!Procs -> Nat] /\ pc' \in [RecLocks_!Procs -> Nat]
          /\ UNCHANGED <<prog, st, held>>
      BY <1>0, <1>3, <2>1 DEF Crossed, RecLocks_!Hear, RecLocks_!Onward
    <3>2. told[1] = 1 /\ told'[1] = 0 /\ pc[0] > 3
      <4>1. told[1] \in Nat /\ told[1] + One(pc[1] > 3) = One(pc[0] > 3)
        BY <1>0 DEF Crossed
      <4> QED
        BY <1>3, <3>1, <4>1 DEF One
    <3> QED
      BY <1>3, <3>1, <3>2 DEF Crossed, One
<1>4. CASE pc[1] = 4
  <2>1. Waits(1, {1}) /\ RecLocks_!Lock(1)
    BY <1>0, <1>4, DeadlockSteps, OneAction
  <2>2. held = Held(1, {0}) \cup Held(0, B) /\ {0} \cup {1} = {0, 1}
    BY <1>4 DEF B, Crossed
  <2>3. /\ UNCHANGED <<prog, told>>
        /\ \/ /\ {1} \cap B = {} /\ RecLocks_!Onward(1) /\ UNCHANGED st
              /\ held' = Held(1, {0, 1}) \cup Held(0, B)
           \/ {1} \cap B # {} /\ RecLocks_!End(1, "error") /\ RecLocks_!Waiting(0)
    <3>1. (Asks(1, {1}) \/ Waits(1, {1})) /\ 1 # 0
      BY <2>1
    <3>2. After(1, 0, {0}, B, {1})
      BY <2>1, <2>2, <3>1, LockKeeps, Zenon
    <3> QED
      BY <2>1, <2>2, <3>2 DEF After
  <2>4. CASE {1} \cap B = {} /\ RecLocks_!Onward(1) /\ UNCHANGED st /\ held' = Held(1, {0, 1})
          \cup Held(0, B)
    <3>1. pc[0] > 3
      <4>1. told[1] \in Nat /\ told[1] + One(pc[1] > 3) = One(pc[0] > 3)
        BY <1>0 DEF Crossed
      <4> QED
        BY <1>4, <4>1 DEF One
    <3>2. st[0] # "exit" /\ pc[0] # 6 /\ st[0] \in {"runs", "exit", "error"}
      BY <3>1 DEF Crossed
    <3>3. st[0] # "runs"
      <4>1. st[0] = "runs" => B = {1}
        BY <3>1, <3>2 DEF B, Crossed
      <4>2. {1} \cap B = {}
        BY <2>4
      <4> QED
        BY <4>1, <4>2
    <3> QED
      BY <1>0, <1>4, <2>3, <2>4, <3>1, <3>2, <3>3 DEF B, Crossed, One, RecLocks_!Onward
  <2>5. CASE RecLocks_!End(1, "error") /\ RecLocks_!Waiting(0)
    <3>1. RecLocks_!Released(1) = Held(0, B) \cup Held(1, {})
      BY <2>2, Locks
    <3>2. st[0] = "runs"
      BY <2>5 DEF RecLocks_!Waiting, RecLocks_!Is
    <3> QED
      BY <1>0, <1>4, <2>3, <2>5, <3>1, <3>2 DEF B, Crossed, One, RecLocks_!End
  <2> QED
    BY <2>3, <2>4, <2>5
<1>5. CASE pc[1] = 5
  <2>1. RecLocks_!Exit(1)
    BY <1>0, <1>5, OneAction
  <2>2. RecLocks_!Released(1) = Held(0, B) \cup Held(1, {})
    BY Locks DEF B, Crossed
  <2> QED
    BY <1>0, <1>5, <2>1, <2>2 DEF B, Crossed, One, RecLocks_!Exit, RecLocks_!End
<1> QED
  BY <1>1, <1>2, <1>3, <1>4, <1>5 DEF B, Crossed

\* After one of them was refused, the other one goes on to its end.
LEMMA RefusedStays ==
  ASSUME prog = "mandatory", Refused, NEW p \in {0, 1}, st[p] = "runs",
         \/ RecLocks_!Fork(p) \/ RecLocks_!Lock(p) \/ RecLocks_!Tell(p) \/ RecLocks_!Hear(p)
         \/ RecLocks_!Waitpid(p) \/ RecLocks_!Kill(p) \/ RecLocks_!Exit(p)
  PROVE  Refused'
<1>0. /\ 0 \in RecLocks_!Procs /\ 1 \in RecLocks_!Procs
      /\ (RecLocks_!AtEnd(0) <=> pc[0] > 4) /\ (RecLocks_!AtEnd(1) <=> pc[1] > 2)
  BY MandatorySteps DEF RecLocks_!Procs
<1>1. CASE p = 0 /\ pc[0] = 1
  <2>1. Does(0, "fork", 1) /\ RecLocks_!Fork(0)
    BY <1>0, <1>1, MandatorySteps, OneAction
  <2>2. /\ UNCHANGED <<prog, told>>
        /\ \/ st' = [st EXCEPT ![1] = "runs"] /\ RecLocks_!Onward(0) /\ UNCHANGED held
           \/ RecLocks_!End(0, "error")
    BY <1>0, <2>1, OtherActions
  <2>3. held = Held(0, {}) \cup Held(1, {}) /\ RecLocks_!Released(0) = Held(0, {})
    BY <1>1 DEF Refused, Held, RecLocks_!Released
  <2>4. CASE st' = [st EXCEPT ![1] = "runs"] /\ RecLocks_!Onward(0) /\ UNCHANGED held
    <3>1. /\ st'[0] = st[0] /\ st'[1] = "runs" /\ st'[2] = st[2] /\ st'[3] = st[3]
          /\ DOMAIN st' = RecLocks_!Procs /\ pc' \in [RecLocks_!Procs -> Nat]
          /\ pc'[0] = 2 /\ pc'[1] = 1 /\ pc[1] = 1
      BY <1>0, <1>1, <2>4 DEF Refused, RecLocks_!Onward
    <3> QED
      BY <1>1, <2>2, <2>3, <2>4, <3>1 DEF Refused, One
  <2>5. CASE RecLocks_!End(0, "error")
    <3>1. /\ st'[0] = "error" /\ st'[1] = st[1] /\ st'[2] = st[2] /\ st'[3] = st[3]
          /\ DOMAIN st' = RecLocks_!Procs /\ pc' = pc /\ held' = Held(0, {})
      BY <1>0, <2>3, <2>5 DEF Refused, RecLocks_!End
    <3> QED
      BY <1>1, <2>2, <3>1 DEF Refused, One
  <2> QED
    BY <1>1, <2>2, <2>4, <2>5
<1>2. CASE p = 0 /\ pc[0] = 2
  <2>1. Asks(0, {0, 1}) /\ RecLocks_!Lock(0)
    BY <1>0, <1>2, MandatorySteps, OneAction
  <2>2. held = Held(0, {}) \cup Held(1, {}) /\ {} \cup {0, 1} = {0, 1} /\ Held(1, {}) = {}
    BY <1>2 DEF Refused, Held
  <2>4. {0, 1} \cap {} = {}
    OBVIOUS
  <2>5. /\ UNCHANGED <<prog, told, st>> /\ RecLocks_!Onward(0)
        /\ held' = Held(0, {} \cup {0, 1}) \cup Held(1, {})
    <3>1. (Asks(0, {0, 1}) \/ Waits(0, {0, 1})) /\ 0 # 1
      BY <2>1
    <3>2. After(0, 1, {}, {}, {0, 1})
      BY <2>1, <2>2, <3>1, LockKeeps, Zenon
    <3> QED
      BY <2>4, <3>2 DEF After
  <2>3. /\ UNCHANGED <<prog, told, st>> /\ RecLocks_!Onward(0) /\ held' = Held(0, {0, 1})
    BY <2>2, <2>5
  <2> QED
    BY <1>0, <1>2, <2>3 DEF Refused, One, RecLocks_!Onward
<1>3. CASE p = 0 /\ pc[0] = 3
  <2>1. Does(0, "tell", 1) /\ RecLocks_!Tell(0)
    BY <1>0, <1>3, MandatorySteps, OneAction
  <2>2. told' = [told EXCEPT ![1] = @ + 1] /\ RecLocks_!Onward(0) /\ UNCHANGED <<prog, st, held>>
    BY <1>0, <2>1, OtherActions
  <2> QED
    BY <1>0, <1>3, <2>2 DEF Refused, One, RecLocks_!Onward
<1>4. CASE p = 0 /\ pc[0] = 4
  <2>1. Does(0, "waitpid", 1) /\ RecLocks_!Waitpid(0)
    BY <1>0, <1>4, MandatorySteps, OneAction
  <2>2. RecLocks_!Ended(1) /\ RecLocks_!Onward(0) /\ UNCHANGED <<prog, st, held, told>>
    BY <1>0, <2>1, OtherActions
  <2> QED
    BY <1>0, <1>4, <2>2 DEF Refused, One, RecLocks_!Onward, RecLocks_!Ended
<1>5. CASE p = 0 /\ pc[0] = 5
  <2>1. RecLocks_!Exit(0)
    BY <1>0, <1>5, OneAction
  <2>2. RecLocks_!Released(0) = Held(0, {})
    BY DEF Refused, Held, RecLocks_!Released
  <2> QED
    BY <1>0, <1>5, <2>1, <2>2 DEF Refused, One, RecLocks_!Exit, RecLocks_!End
<1>6. CASE p = 1 /\ pc[1] = 1
  <2>1. RecLocks_!Hear(1)
    BY <1>0, <1>6, MandatorySteps, OneAction
  <2> QED
    <3>1. /\ pc'[1] = 2 /\ pc'[0] = pc[0] /\ told'[1] = told[1] - 1
          /\ told[1] > 0 /\ told' \in [RecLocks_!Procs -> Nat] /\ pc' \in [RecLocks_!Procs -> Nat]
          /\ UNCHANGED <<prog, st, held>>
      BY <1>0, <1>6, <2>1 DEF Refused, RecLocks_!Hear, RecLocks_!Onward
    <3>2. told[1] = 1 /\ told'[1] = 0 /\ pc[0] > 3
      <4>1. told[1] \in Nat /\ told[1] + One(pc[1] > 1) = One(pc[0] > 3)
        BY <1>0 DEF Refused
      <4> QED
        BY <1>6, <3>1, <4>1 DEF One
    <3> QED
      BY <1>6, <3>1, <3>2 DEF Refused, One
<1>7. CASE p = 1 /\ pc[1] = 2
  <2>1. Tries(1, {0, 1}) /\ RecLocks_!Lock(1)
    BY <1>0, <1>7, MandatorySteps, OneAction
  <2>2. held = Held(0, {0, 1})
    <3>1. told[1] \in Nat /\ told[1] + One(pc[1] > 1) = One(pc[0] > 3)
      BY <1>0 DEF Refused
    <3>2. pc[0] > 3
      BY <1>7, <3>1 DEF One
    <3> QED
      BY <1>7, <3>2 DEF Refused
  <2>3. <<0, "W", 0>> \in held
    BY <2>2 DEF Held
  <2>6. RecLocks_!Op(1)[3] = {0, 1} /\ RecLocks_!Op(1)[4] = "fail" /\ ~RecLocks_!Op(1)[5]
    <3>1. \A L : Tries(1, L) => RecLocks_!Op(1)[3] = L /\ RecLocks_!Op(1)[4] = "fail"
      BY DEF Tries
    <3>2. ASSUME NEW L, Tries(1, L) PROVE ~RecLocks_!Op(1)[5]
      <4>1. RecLocks_!Op(1)[5] = <<"lock", "R", L, "fail", FALSE>>[5]
        BY <3>2, Zenon DEF Tries
      <4>2. <<"lock", "R", L, "fail", FALSE>>[5] = FALSE
        BY Zenon
      <4> QED
        BY <4>1, <4>2, Zenon
    <3> QED
      BY <2>1, <3>1, <3>2
  <2>4. RecLocks_!Blockers(1) # {}
    BY <2>3, <2>6 DEF RecLocks_!Blockers
  <2>5. RecLocks_!Onward(1) /\ UNCHANGED <<st, held, prog, told>>
    BY <2>1, <2>4, <2>6 DEF RecLocks_!Lock
  <2> QED
    BY <1>0, <1>7, <2>5 DEF Refused, One, RecLocks_!Onward
<1>8. CASE p = 1 /\ pc[1] = 3
  <2>1. RecLocks_!Exit(1)
    BY <1>0, <1>8, OneAction
  <2>2. RecLocks_!Released(1) = held
    BY DEF Refused, Held, RecLocks_!Released
  <2> QED
    BY <1>0, <1>8, <2>1, <2>2 DEF Refused, One, RecLocks_!Exit, RecLocks_!End
<1> QED
  BY <1>1, <1>2, <1>3, <1>4, <1>5, <1>6, <1>7, <1>8 DEF Refused

\* Each step of a program of RecLocks keeps RecLocksInv.
LEMMA RecLocksStep == ASSUME RecLocksInv, [RecLocks_!Next]_(RecLocks_!vars) PROVE RecLocksInv'
<1>1. CASE UNCHANGED RecLocks_!vars
  BY <1>1 DEF RecLocks_!vars, RecLocksInv, Crossed, Refused
<1>2. ASSUME NEW p \in RecLocks_!Procs,
             \/ RecLocks_!Fork(p) \/ RecLocks_!Lock(p) \/ RecLocks_!Tell(p) \/ RecLocks_!Hear(p)
             \/ RecLocks_!Waitpid(p) \/ RecLocks_!Kill(p) \/ RecLocks_!Exit(p)
      PROVE  RecLocksInv'
  <2>1. st[p] = "runs" /\ prog' = prog
    BY <1>2 DEF RecLocks_!Fork, RecLocks_!Lock, RecLocks_!Tell, RecLocks_!Hear, RecLocks_!Waitpid,
                RecLocks_!Kill, RecLocks_!Exit, RecLocks_!Is
  <2>2. RecLocksInv /\ (Crossed \/ Refused) => p \in {0, 1}
    BY <2>1 DEF Crossed, Refused, RecLocks_!Procs
  <2> QED
    BY <1>2, <2>1, <2>2, CrossedParent, CrossedChild, RefusedStays DEF RecLocksInv
<1> QED
  BY <1>1, <1>2 DEF RecLocks_!Next

\* With RecLocksInv, a process that was refused has another one that goes on.
LEMMA RecLocksHold == RecLocksInv => RecLocks_!OneIsRefused
BY DEF RecLocksInv, Crossed, Refused, Held, RecLocks_!OneIsRefused, RecLocks_!Ended, RecLocks_!All

-----------------------------------------------------------------------------
(* Limits: one entry per symbol, whose text is the one of its own result.    *)

Results == {"value", "nolimit", "EINVAL", "EIO", "ENOENT", "undefined"}
Texts == {"value", "no_limit", "not_supported", "error", "no_symbol"}
Entries == Results \X Texts
Fits(e) == /\ e[1] = "nolimit" => e[2] = "no_limit"
           /\ e[1] = "EINVAL" => e[2] = "not_supported"

LimitsInv ==
  /\ n \in Nat /\ told \in Seq(Entries) /\ Len(told) = n
  /\ \A k \in 1 .. n : Fits(told[k])
  /\ pc = "failed" => n > 0 /\ told[n][1] \in {"EIO", "ENOENT"}

\* Before the first line nothing was printed.
LEMMA LimitsInit == Limits_!Init => LimitsInv
BY DEF Limits_!Init, LimitsInv

\* An entry that fits is added, and an error ends the program.
LEMMA LimitAdded ==
  ASSUME LimitsInv, NEW e \in Entries, Fits(e), told' = Append(told, e), n' = n + 1,
         pc' = "failed" => e[1] \in {"EIO", "ENOENT"}
  PROVE  LimitsInv'
<1>1. told \in Seq(Entries) /\ Len(told) = n /\ n \in Nat
  BY DEF LimitsInv
<1>2. /\ told' \in Seq(Entries) /\ Len(told') = n + 1 /\ told'[n + 1] = e
      /\ \A k \in 1 .. n : told'[k] = told[k]
  BY <1>1, Appended
<1>3. \A k \in 1 .. n + 1 : Fits(told'[k])
  <2> SUFFICES ASSUME NEW k \in 1 .. n + 1 PROVE Fits(told'[k])
    OBVIOUS
  <2>1. CASE k = n + 1
    BY <1>2, <2>1
  <2>2. CASE k # n + 1
    <3>1. k \in 1 .. n
      BY <1>1, <2>2
    <3> QED
      BY <1>2, <3>1 DEF LimitsInv
  <2> QED
    BY <2>1, <2>2
<1>4. pc' = "failed" => n + 1 > 0 /\ told'[n + 1][1] \in {"EIO", "ENOENT"}
  BY <1>1, <1>2
<1> QED
  BY <1>1, <1>2, <1>3, <1>4 DEF LimitsInv

\* A call that begins with errno 0 adds an entry that fits.
LEMMA LimitAsked ==
  ASSUME LimitsInv, NEW error \in {"EIO", "ENOENT"}, n' = n + 1, Limits_!Ask("0", error)
  PROVE  LimitsInv'
<1>1. PICK r \in {"value", "nolimit", "EINVAL", error} :
        /\ told' = Append(told, <<r, Limits_!Text(r, Limits_!After(r, "0"))>>)
        /\ pc' = IF Limits_!Text(r, Limits_!After(r, "0")) = "error" THEN "failed" ELSE "run"
  BY DEF Limits_!Ask
<1> DEFINE text == Limits_!Text(r, Limits_!After(r, "0"))
<1>2. /\ text \in Texts
      /\ r = "nolimit" => text = "no_limit"
      /\ r = "EINVAL" => text = "not_supported"
      /\ text = "error" => r \in {"EIO", "ENOENT"}
  <2>1. CASE r = "value"
    BY <2>1 DEF Limits_!Text, Texts
  <2>2. CASE r = "nolimit"
    BY <2>2 DEF Limits_!Text, Limits_!After, Texts
  <2>3. CASE r = "EINVAL"
    BY <2>3 DEF Limits_!Text, Limits_!After, Texts
  <2>4. CASE r \in {"EIO", "ENOENT"}
    <3>1. Limits_!After(r, "0") = r
      BY <2>4 DEF Limits_!After
    <3>2. text = "error"
      BY <2>4, <3>1 DEF Limits_!Text
    <3> QED
      BY <2>4, <3>2 DEF Texts
  <2> QED
    BY <2>1, <2>2, <2>3, <2>4
<1>3. told' = Append(told, <<r, text>>) /\ (pc' = "failed" => text = "error") /\ r \in Results
  BY <1>1 DEF Results
<1> HIDE DEF text
<1>4. Fits(<<r, text>>) /\ <<r, text>> \in Entries /\ <<r, text>>[1] = r
  BY <1>2, <1>3 DEF Fits, Entries
<1> QED
  BY <1>2, <1>3, <1>4, LimitAdded

\* Each line of options.c and conf.c keeps LimitsInv.
LEMMA LimitsStep == ASSUME LimitsInv, [Limits_!Next]_(Limits_!vars) PROVE LimitsInv'
<1>1. CASE UNCHANGED Limits_!vars
  BY <1>1 DEF Limits_!vars, LimitsInv
<1>2. CASE Limits_!Exit
  BY <1>2 DEF Limits_!Exit, LimitsInv
<1>3. CASE pc = "run" /\ n' = n + 1 /\ Limits_!NoSymbol
  <2> DEFINE e == <<"undefined", "no_symbol">>
  <2>1. e \in Entries
    BY DEF Entries, Results, Texts
  <2>3. Fits(e)
    BY DEF Fits
  <2>2. told' = Append(told, e) /\ n' = n + 1 /\ pc' # "failed"
    BY <1>3 DEF Limits_!NoSymbol
  <2> HIDE DEF e
  <2> QED
    BY <2>1, <2>2, <2>3, LimitAdded
<1>4. CASE n' = n + 1 /\ (Limits_!pr_sysconf \/ Limits_!pr_pathconf)
  BY <1>4, LimitAsked DEF Limits_!pr_sysconf, Limits_!pr_pathconf
<1> QED
  BY <1>1, <1>2, <1>3, <1>4 DEF Limits_!Next, Limits_!OptionSys, Limits_!OptionPath,
     Limits_!ConfSys, Limits_!ConfPath, Limits_!Symbol

\* Every line that was printed is about its own limit.
LEMMA LimitsHold == LimitsInv => Limits_!EachLimitIsItsOwn
BY DEF LimitsInv, Fits, Entries, Limits_!EachLimitIsItsOwn

-----------------------------------------------------------------------------
(* Uptime: a client of ruptimed-dg has one datagram, or the server has it.   *)

Serves(c) == cl = c /\ srv \in {"run", "send"}
Mail(c) == {d \in net : d[2] = c}

UptimeInv ==
  /\ DOMAIN pc = Clients /\ DOMAIN got = Clients /\ DOMAIN alarm = Clients
  /\ queue \in Seq(Clients)
  /\ srv \in {"run", "send", "close"} => cl \in Clients
  /\ \A d \in net : d[2] \in Clients /\ (d[1] = "answer" => d[3] # "none")
  /\ srv = "killed" => prog = "ruptimed" /\ \E c \in Clients : pc[c] = "gone"
  /\ prog = "ruptimed-dg" => queue = <<>>
  /\ prog = "ruptimed-dg" => \A c \in Clients :
       /\ pc[c] \in {"call", "recv"} => alarm[c] # "off"
       /\ pc[c] = "ended" => got[c] # "none"
       /\ \A d \in Mail(c), e \in Mail(c) : d = e
       /\ Mail(c) # {} \/ Serves(c) => pc[c] \notin {"start", "ended"}
       /\ ~(Mail(c) # {} /\ Serves(c))

\* At first there are no requests.
LEMMA UptimeInit == Uptime_!Init => UptimeInv
BY DEF Uptime_!Init, UptimeInv, Mail, Serves

\* What the clients do, and what the net and the server do.
LEMMA ClientKeeps ==
  ASSUME UptimeInv, NEW c \in Clients,
         \/ Uptime_!Connect(c) \/ Uptime_!End(c) \/ Uptime_!Interrupt(c) \/ Uptime_!SetAlarm(c)
         \/ Uptime_!Call(c) \/ Uptime_!Timeout(c)
  PROVE  UptimeInv'
<1>1. CASE Uptime_!Connect(c)
  BY <1>1 DEF UptimeInv, Mail, Serves, Uptime_!Connect, Uptime_!Goto, Uptime_!Datagrams,
      Uptime_!Serving
<1>2. CASE Uptime_!End(c)
  BY <1>2 DEF UptimeInv, Mail, Serves, Uptime_!End, Uptime_!conn, Uptime_!Datagrams
<1>3. CASE Uptime_!Interrupt(c)
  BY <1>3 DEF UptimeInv, Mail, Serves, Uptime_!Interrupt, Uptime_!Goto, Uptime_!conn
<1>4. CASE Uptime_!SetAlarm(c)
  BY <1>4 DEF UptimeInv, Mail, Serves, Uptime_!SetAlarm, Uptime_!Goto, Uptime_!conn
<1>5. CASE Uptime_!Call(c)
  BY <1>5 DEF UptimeInv, Mail, Serves, Uptime_!Call, Uptime_!Goto, Uptime_!conn
<1>6. CASE Uptime_!Timeout(c)
  BY <1>6 DEF UptimeInv, Mail, Serves, Uptime_!Timeout, Uptime_!Goto, Uptime_!conn
<1> QED
  BY <1>1, <1>2, <1>3, <1>4, <1>5, <1>6

\* The datagrams of ruptimed-dg find no connection.
LEMMA DatagramKeeps ==
  ASSUME UptimeInv, NEW c \in Clients, Uptime_!Sendto(c) \/ Uptime_!Recvfrom(c) \/ Uptime_!Lose
  PROVE  UptimeInv'
<1>1. CASE Uptime_!Sendto(c)
  BY <1>1 DEF UptimeInv, Mail, Serves, Uptime_!Sendto, Uptime_!Goto, Uptime_!Datagrams,
      Uptime_!conn
<1>2. CASE Uptime_!Recvfrom(c)
  BY <1>2 DEF UptimeInv, Mail, Serves, Uptime_!Recvfrom, Uptime_!Goto, Uptime_!conn
<1>3. CASE Uptime_!Lose
  BY <1>3 DEF UptimeInv, Mail, Serves, Uptime_!Lose, Uptime_!conn
<1> QED
  BY <1>1, <1>2, <1>3

\* The steps of the server.
LEMMA ServerKeeps ==
  ASSUME UptimeInv, Uptime_!Accept \/ Uptime_!Run \/ Uptime_!Send \/ Uptime_!Close
  PROVE  UptimeInv'
<1>1. CASE Uptime_!Accept
  <2>1. UNCHANGED <<prog, pc, got, alarm, closed>> /\ srv = "ready" /\ srv' \in {"run", "exit"}
    BY <1>1 DEF Uptime_!Accept
  <2>2. ASSUME queue # <<>>, cl' = Head(queue), queue' = Tail(queue), srv' = "run", UNCHANGED net
        PROVE  UptimeInv'
    <3>1. prog # "ruptimed-dg"
      BY <1>1, <2>2 DEF UptimeInv
    <3> QED
      BY <2>1, <2>2, <3>1 DEF UptimeInv
  <2>3. ASSUME NEW d \in net, cl' = d[2], net' = net \ {d}, srv' = "run", UNCHANGED queue
        PROVE  UptimeInv'
    BY <2>1, <2>3 DEF UptimeInv, Mail, Serves
  <2>4. ASSUME srv' = "exit", UNCHANGED <<queue, net, cl>>
        PROVE  UptimeInv'
    BY <2>1, <2>4 DEF UptimeInv, Mail, Serves
  <2> QED
    BY <1>1, <2>2, <2>3, <2>4 DEF Uptime_!Accept
<1>2. CASE Uptime_!Run
  BY <1>2 DEF UptimeInv, Mail, Serves, Uptime_!Run, Uptime_!conn
<1>3. CASE Uptime_!Send
  <2>1. UNCHANGED <<prog, pc, alarm, queue, closed, cl>> /\ srv = "send" /\ cl \in Clients
    BY <1>3 DEF UptimeInv, Uptime_!Send, Uptime_!conn
  <2>2. CASE prog = "ruptimed-dg"
    <3>1. PICK s \in Uptime_!Texts : net' = net \cup {<<"answer", cl, s>>}
      BY <1>3, <2>2 DEF Uptime_!Send, Uptime_!Datagrams
    <3>2. srv' = "close" /\ UNCHANGED got /\ s # "none"
      BY <1>3, <2>2 DEF Uptime_!Send, Uptime_!Datagrams, Uptime_!Texts
    <3>3. /\ Mail(cl) = {} /\ Mail(cl)' = {<<"answer", cl, s>>} /\ pc[cl] \notin {"start", "ended"}
          /\ \A c \in Clients : c # cl => Mail(c)' = Mail(c)
      BY <2>1, <2>2, <3>1 DEF UptimeInv, Mail, Serves
    <3> QED
      BY <2>1, <2>2, <3>1, <3>2, <3>3 DEF UptimeInv, Serves
  <2>3. CASE prog # "ruptimed-dg"
    <3>1. /\ UNCHANGED net /\ DOMAIN got' = Clients
          /\ srv' = "killed" => prog = "ruptimed" /\ pc[cl] = "gone"
          /\ srv' \notin {"run", "send"}
      BY <1>3, <2>1, <2>3 DEF UptimeInv, Uptime_!Send, Uptime_!Datagrams, Uptime_!Killed
    <3> QED
      BY <2>1, <2>3, <3>1 DEF UptimeInv
  <2> QED
    BY <2>2, <2>3
<1>4. CASE Uptime_!Close
  BY <1>4 DEF UptimeInv, Mail, Serves, Uptime_!Close
<1> QED
  BY <1>1, <1>2, <1>3, <1>4

\* Each step of the uptime servers and their clients keeps UptimeInv.
LEMMA UptimeStep == ASSUME UptimeInv, [Uptime_!Next]_(Uptime_!vars) PROVE UptimeInv'
<1>1. CASE UNCHANGED Uptime_!vars
  BY <1>1 DEF Uptime_!vars, Uptime_!conn, UptimeInv, Mail, Serves
<1>2. ASSUME Uptime_!Lose PROVE UptimeInv'
  BY <1>2 DEF UptimeInv, Mail, Serves, Uptime_!Lose, Uptime_!conn
<1> QED
  BY <1>1, <1>2, ClientKeeps, DatagramKeeps, ServerKeeps DEF Uptime_!Next

\* Uptime names the same Cardinality.
LEMMA UptimeSize == \A S : Uptime_!Cardinality(S) = Cardinality(S)
BY Zenon DEF Uptime_!Cardinality, Cardinality

\* A client that ends has the uptime, all of it and once.
LEMMA UptimeHold == UptimeInv => Uptime_!UptimeAnswered
<1> SUFFICES ASSUME UptimeInv, prog = "ruptimed-dg", NEW c \in Clients
             PROVE  Cardinality(Mail(c)) <= (IF pc[c] \in {"start", "ended"} THEN 0 ELSE 1)
  BY UptimeSize DEF UptimeInv, Mail, Uptime_!UptimeAnswered, Uptime_!Datagrams
<1>1. CASE Mail(c) = {}
  BY <1>1, FS_EmptySet
<1>2. ASSUME NEW d \in Mail(c) PROVE Cardinality(Mail(c)) = 1 /\ pc[c] \notin {"start", "ended"}
  <2>1. Mail(c) = {d} /\ pc[c] \notin {"start", "ended"}
    BY <1>2 DEF UptimeInv
  <2> QED
    BY <2>1, FS_Singleton
<1> QED
  BY <1>1, <1>2

-----------------------------------------------------------------------------
(* PollMsg: what became of the messages of each queue.                       *)

\* the messages a + 1 to a + k
Numbers(a, k) == [j \in 1 .. k |-> a + j]

\* of the messages to a queue a are printed and b can be read; one may be on its way; the
\* queue has the rest.  In pollmsg2 the helper waits from its byte until the main thread has
\* printed the message and signalled.
Delivered(a, b, w, P, left, sk, text, h, x, sig) ==
  /\ w = One(h = "write") /\ a + b + w <= MaxMsgs
  /\ text = Numbers(0, a) /\ sk = Numbers(a, b)
  /\ left = Numbers(a + b + w, MaxMsgs - (a + b + w))
  /\ h \in {"write", "locked", "wait"} => x = a + b + w
  /\ P = "pollmsg" => sig = 0 /\ h \notin {"locked", "wait"}
  /\ P = "pollmsg2" => b + sig = One(h \in {"locked", "wait"})

Signals(q) == One(mpc = "signal" /\ i = q)
DeliveredAt(q) ==
  \E a \in Nat, b \in Nat, w \in {0, 1} :
    Delivered(a, b, w, prog, queue[q], sock[q], printed[q], hpc[q], m[q], Signals(q))

PollBody ==
  /\ prog \in {"pollmsg", "pollmsg2"}
  /\ DOMAIN queue = 1 .. NQ /\ DOMAIN sock = 1 .. NQ /\ DOMAIN printed = 1 .. NQ
  /\ DOMAIN hpc = 1 .. NQ /\ DOMAIN m = 1 .. NQ
  /\ i \in 1 .. NQ /\ ready \subseteq 1 .. NQ
  /\ mpc = "create" => \A q \in 1 .. NQ : q >= i => hpc[q] = "none"
  /\ mpc = "scan" => \A q \in ready : q >= i => sock[q] # <<>>
  /\ mpc = "signal" => \A q \in ready : q > i => sock[q] # <<>>
  /\ \A q \in 1 .. NQ : DeliveredAt(q)

Calm == prog = "pollmsg" \/ spurious = 0
PollInv == spurious \in Nat /\ (Calm => PollBody)

\* The messages from a + 1 on, k of them, are k.
LEMMA NumbersLen ==
  ASSUME NEW a \in Nat, NEW k \in Nat
  PROVE  /\ Numbers(a, k) \in Seq(Nat) /\ Len(Numbers(a, k)) = k /\ DOMAIN Numbers(a, k) = 1 .. k
         /\ Numbers(a, k) = <<>> <=> k = 0
         /\ \A j \in 1 .. k : Numbers(a, k)[j] = a + j
<1>1. Numbers(a, k) \in Seq(Nat) /\ Len(Numbers(a, k)) = k
  BY DEF Numbers
<1>2. DOMAIN Numbers(a, k) = 1 .. k /\ \A j \in 1 .. k : Numbers(a, k)[j] = a + j
  BY DEF Numbers
<1>3. Numbers(a, k) = <<>> <=> k = 0
  BY <1>1
<1> QED
  BY <1>1, <1>2, <1>3

\* The first one is taken, the next one added.
LEMMA NumbersMove ==
  ASSUME NEW a \in Nat, NEW k \in Nat
  PROVE  /\ Head(Numbers(a, k + 1)) = a + 1
         /\ Tail(Numbers(a, k + 1)) = Numbers(a + 1, k)
         /\ Append(Numbers(a, k), a + k + 1) = Numbers(a, k + 1)
<1>1. /\ Numbers(a, k + 1) \in Seq(Nat) /\ Len(Numbers(a, k + 1)) = k + 1
      /\ \A j \in 1 .. k + 1 : Numbers(a, k + 1)[j] = a + j
  BY NumbersLen
<1>2. /\ Numbers(a + 1, k) \in Seq(Nat) /\ Len(Numbers(a + 1, k)) = k
      /\ \A j \in 1 .. k : Numbers(a + 1, k)[j] = a + 1 + j
  BY NumbersLen
<1>3. /\ Numbers(a, k) \in Seq(Nat) /\ Len(Numbers(a, k)) = k
      /\ \A j \in 1 .. k : Numbers(a, k)[j] = a + j
  BY NumbersLen
<1> HIDE DEF Numbers
<1>4. Head(Numbers(a, k + 1)) = a + 1
  BY <1>1
<1>5. Tail(Numbers(a, k + 1)) = Numbers(a + 1, k)
  <2>1. /\ Tail(Numbers(a, k + 1)) \in Seq(Nat) /\ Len(Tail(Numbers(a, k + 1))) = k
        /\ \A j \in 1 .. k : Tail(Numbers(a, k + 1))[j] = Numbers(a, k + 1)[j + 1]
    BY <1>1
  <2>2. \A j \in 1 .. k : Tail(Numbers(a, k + 1))[j] = Numbers(a + 1, k)[j]
    BY <1>1, <1>2, <2>1
  <2> QED
    BY <1>2, <2>1, <2>2, SeqEqual
<1>6. Append(Numbers(a, k), a + k + 1) = Numbers(a, k + 1)
  <2> DEFINE s == Append(Numbers(a, k), a + k + 1)
  <2>1. s \in Seq(Nat) /\ Len(s) = k + 1 /\ s[k + 1] = a + k + 1
        /\ \A j \in 1 .. k : s[j] = Numbers(a, k)[j]
    BY <1>3, Appended
  <2> HIDE DEF s
  <2>2. \A j \in 1 .. k + 1 : s[j] = Numbers(a, k + 1)[j]
    BY <1>1, <1>3, <2>1
  <2> QED
    BY <1>1, <2>1, <2>2, SeqEqual DEF s
<1> QED
  BY <1>4, <1>5, <1>6

\* At first no message was sent.
LEMMA PollInit == PollMsg_!Init => PollInv
<1> SUFFICES ASSUME PollMsg_!Init PROVE PollInv
  OBVIOUS
<1>1. /\ prog \in {"pollmsg", "pollmsg2"} /\ mpc = "create" /\ ready = {} /\ i = 1 /\ spurious = 0
      /\ DOMAIN queue = 1 .. NQ /\ DOMAIN sock = 1 .. NQ /\ DOMAIN printed = 1 .. NQ
      /\ DOMAIN hpc = 1 .. NQ /\ DOMAIN m = 1 .. NQ
      /\ \A q \in 1 .. NQ : /\ queue[q] = [j \in 1 .. MaxMsgs |-> j] /\ hpc[q] = "none"
                            /\ m[q] = 0 /\ sock[q] = <<>> /\ printed[q] = <<>>
  BY DEF PollMsg_!Init, PollMsg_!Queues
<1>2. /\ Numbers(0, MaxMsgs - 0) = [j \in 1 .. MaxMsgs |-> j] /\ Numbers(0, 0) = <<>>
  <2>1. Numbers(0, 0) = <<>>
    BY NumbersLen
  <2>2. MaxMsgs - 0 = MaxMsgs /\ \A j \in 1 .. MaxMsgs : 0 + j = j
    BY PollAssumption
  <2> QED
    BY <2>1, <2>2 DEF Numbers
<1>3. ASSUME NEW q \in 1 .. NQ PROVE DeliveredAt(q)
  <2>1. Signals(q) = 0 /\ One(hpc[q] = "write") = 0 /\ One(hpc[q] \in {"locked", "wait"}) = 0
    BY <1>1 DEF Signals, One
  <2>2. Delivered(0, 0, 0, prog, queue[q], sock[q], printed[q], hpc[q], m[q], Signals(q))
    BY <1>1, <1>2, <2>1, PollAssumption DEF Delivered
  <2> QED
    BY <2>2 DEF DeliveredAt
<1> QED
  BY <1>1, <1>3, PollAssumption DEF PollInv, PollBody

\* The other queues are as they were.
LEMMA OthersDelivered ==
  ASSUME PollBody, NEW q, prog' = prog,
         \A z \in 1 .. NQ :
           z # q => /\ queue'[z] = queue[z] /\ sock'[z] = sock[z] /\ printed'[z] = printed[z]
                    /\ hpc'[z] = hpc[z] /\ m'[z] = m[z] /\ Signals(z)' = Signals(z)
  PROVE  \A z \in 1 .. NQ : z # q => DeliveredAt(z)'
BY DEF PollBody, DeliveredAt

\* Nothing but what belongs to queue q changes.
Kept(q) ==
  /\ DOMAIN queue' = 1 .. NQ /\ DOMAIN sock' = 1 .. NQ /\ DOMAIN printed' = 1 .. NQ
  /\ DOMAIN hpc' = 1 .. NQ /\ DOMAIN m' = 1 .. NQ
  /\ \A z \in 1 .. NQ :
       z # q => /\ queue'[z] = queue[z] /\ sock'[z] = sock[z] /\ printed'[z] = printed[z]
                /\ hpc'[z] = hpc[z] /\ m'[z] = m[z]

\* A helper leaves the queues and the sockets of the others alone.
LEMMA HelperFrame ==
  ASSUME PollBody, NEW q \in 1 .. NQ, UNCHANGED <<prog, mpc, ready, i>>, Kept(q),
         hpc[q] # "none", sock[q] # <<>> => sock'[q] # <<>>, DeliveredAt(q)'
  PROVE  PollBody'
<1>1. \A z : Signals(z)' = Signals(z)
  BY DEF Signals
<1>2. \A z \in 1 .. NQ : z # q => DeliveredAt(z)'
  BY <1>1, OthersDelivered DEF Kept
<1>3. \A z \in 1 .. NQ : DeliveredAt(z)'
  BY <1>2
<1>4. /\ mpc' = "create" => \A z \in 1 .. NQ : z >= i' => hpc'[z] = "none"
      /\ mpc' = "scan" => \A z \in ready' : z >= i' => sock'[z] # <<>>
      /\ mpc' = "signal" => \A z \in ready' : z > i' => sock'[z] # <<>>
  BY DEF PollBody, Kept
<1> QED
  BY <1>3, <1>4 DEF PollBody, Kept

\* What a helper does.
LEMMA HelperKeeps ==
  ASSUME PollBody, NEW q \in 1 .. NQ,
         PollMsg_!Clear(q) \/ PollMsg_!Msgrcv(q) \/ PollMsg_!Write(q) \/ PollMsg_!CondWait(q)
  PROVE  PollBody'
<1>1. UNCHANGED <<prog, mpc, ready, i>>
  BY DEF PollMsg_!Clear, PollMsg_!Msgrcv, PollMsg_!Write, PollMsg_!CondWait
<1>2. /\ DOMAIN queue = 1 .. NQ /\ DOMAIN sock = 1 .. NQ /\ DOMAIN printed = 1 .. NQ
      /\ DOMAIN hpc = 1 .. NQ /\ DOMAIN m = 1 .. NQ /\ DeliveredAt(q)
      /\ prog \in {"pollmsg", "pollmsg2"}
  BY DEF PollBody
<1>3. PICK a \in Nat, b \in Nat, w \in {0, 1} :
        Delivered(a, b, w, prog, queue[q], sock[q], printed[q], hpc[q], m[q], Signals(q))
  BY <1>2 DEF DeliveredAt
<1>4. Signals(q)' = Signals(q) /\ Signals(q) \in {0, 1}
  BY <1>1 DEF Signals, One
<1>5. CASE PollMsg_!Clear(q)
  <2>1. /\ Kept(q) /\ hpc[q] = "clear" /\ hpc'[q] = "msgrcv"
        /\ queue'[q] = queue[q] /\ sock'[q] = sock[q] /\ printed'[q] = printed[q]
    BY <1>2, <1>5 DEF Kept, PollMsg_!Clear, PollMsg_!Helper
  <2>2. Delivered(a, b, w, prog', queue'[q], sock'[q], printed'[q], hpc'[q], m'[q], Signals(q)')
    BY <1>1, <1>3, <1>4, <2>1 DEF Delivered, One
  <2>3. DeliveredAt(q)'
    BY <2>2 DEF DeliveredAt
  <2> QED
    BY <1>1, <2>1, <2>3, HelperFrame
<1>6. CASE PollMsg_!Msgrcv(q)
  <2>1. /\ Kept(q) /\ hpc[q] = "msgrcv" /\ hpc'[q] = "write" /\ queue[q] # <<>>
        /\ m'[q] = Head(queue[q]) /\ queue'[q] = Tail(queue[q])
        /\ sock'[q] = sock[q] /\ printed'[q] = printed[q]
    BY <1>2, <1>6 DEF Kept, PollMsg_!Msgrcv, PollMsg_!Helper
  <2>2. w = 0 /\ queue[q] = Numbers(a + b, MaxMsgs - (a + b)) /\ a + b < MaxMsgs
    <3>1. w = 0 /\ queue[q] = Numbers(a + b, MaxMsgs - (a + b)) /\ a + b <= MaxMsgs
      BY <1>3, <2>1 DEF Delivered, One
    <3>2. MaxMsgs - (a + b) \in Nat /\ a + b \in Nat
      BY <3>1, PollAssumption
    <3>3. MaxMsgs - (a + b) # 0
      BY <2>1, <3>1, <3>2, NumbersLen
    <3> QED
      BY <3>1, <3>2, <3>3, PollAssumption
  <2> DEFINE k == MaxMsgs - (a + b + 1)
  <2>3. k \in Nat /\ MaxMsgs - (a + b) = k + 1 /\ a + b \in Nat
    BY <2>2, PollAssumption
  <2>4. m'[q] = a + b + 1 /\ queue'[q] = Numbers(a + b + 1, k)
    <3>1. queue[q] = Numbers(a + b, k + 1)
      BY <2>2, <2>3
    <3> HIDE DEF k
    <3> QED
      BY <2>1, <2>3, <3>1, NumbersMove
  <2>5. Delivered(a, b, 1, prog', queue'[q], sock'[q], printed'[q], hpc'[q], m'[q], Signals(q)')
    <3>1. /\ printed[q] = Numbers(0, a) /\ sock[q] = Numbers(a, b)
          /\ prog = "pollmsg" => Signals(q) = 0
          /\ prog = "pollmsg2" => b + Signals(q) = 0
      BY <1>3, <2>1 DEF Delivered, One
    <3>2. a + b + 1 <= MaxMsgs
      BY <2>2, PollAssumption
    <3>3. One(hpc'[q] = "write") = 1 /\ One(hpc'[q] \in {"locked", "wait"}) = 0
      BY <2>1 DEF One
    <3> QED
      BY <1>1, <1>4, <2>1, <2>4, <3>1, <3>2, <3>3 DEF Delivered
  <2>6. DeliveredAt(q)'
    BY <2>5 DEF DeliveredAt
  <2> QED
    BY <1>1, <2>1, <2>6, HelperFrame
<1>7. CASE PollMsg_!Write(q)
  <2>1. /\ Kept(q) /\ hpc[q] = "write" /\ hpc'[q] = (IF prog = "pollmsg" THEN "clear"
             ELSE "locked")
        /\ m'[q] = m[q] /\ queue'[q] = queue[q]
        /\ sock'[q] = Append(sock[q], m[q]) /\ printed'[q] = printed[q]
    BY <1>2, <1>7 DEF Kept, PollMsg_!Write, PollMsg_!Helper
  <2>2. w = 1 /\ m[q] = a + b + 1 /\ sock[q] = Numbers(a, b)
    BY <1>3, <2>1 DEF Delivered, One
  <2>3. sock'[q] = Numbers(a, b + 1) /\ sock'[q] # <<>>
    <3>1. sock'[q] = Numbers(a, b + 1)
      BY <2>1, <2>2, NumbersMove
    <3>2. b + 1 \in Nat /\ b + 1 # 0
      OBVIOUS
    <3> QED
      BY <3>1, <3>2, NumbersLen
  <2>4. a + (b + 1) + 0 = a + b + 1
    OBVIOUS
  <2>5. Delivered(a, b + 1, 0, prog', queue'[q], sock'[q], printed'[q], hpc'[q], m'[q],
          Signals(q)')
    BY <1>1, <1>2, <1>3, <1>4, <2>1, <2>2, <2>3, <2>4 DEF Delivered, One
  <2>6. DeliveredAt(q)'
    BY <2>5 DEF DeliveredAt
  <2> QED
    BY <1>1, <2>1, <2>3, <2>6, HelperFrame
<1>8. CASE PollMsg_!CondWait(q)
  <2>1. /\ Kept(q) /\ hpc[q] = "locked" /\ hpc'[q] = "wait" /\ m'[q] = m[q]
        /\ queue'[q] = queue[q] /\ sock'[q] = sock[q] /\ printed'[q] = printed[q]
    BY <1>2, <1>8 DEF Kept, PollMsg_!CondWait, PollMsg_!Helper
  <2>2. Delivered(a, b, w, prog', queue'[q], sock'[q], printed'[q], hpc'[q], m'[q], Signals(q)')
    BY <1>1, <1>3, <1>4, <2>1 DEF Delivered, One
  <2>3. DeliveredAt(q)'
    BY <2>2 DEF DeliveredAt
  <2> QED
    BY <1>1, <2>1, <2>3, HelperFrame
<1> QED
  BY <1>5, <1>6, <1>7, <1>8

\* What the main thread does, which is at queue c.
LEMMA MainKeeps ==
  ASSUME PollBody, NEW c \in 1 .. NQ, c = i,
         PollMsg_!Create \/ PollMsg_!Poll \/ PollMsg_!Read \/ PollMsg_!Signal
  PROVE  PollBody'
<1>1. UNCHANGED <<prog, queue, m, spurious>>
  BY DEF PollMsg_!Create, PollMsg_!Poll, PollMsg_!Read, PollMsg_!Signal, PollMsg_!helpers
<1>2. /\ DOMAIN queue = 1 .. NQ /\ DOMAIN sock = 1 .. NQ /\ DOMAIN printed = 1 .. NQ
      /\ DOMAIN hpc = 1 .. NQ /\ DOMAIN m = 1 .. NQ
      /\ prog \in {"pollmsg", "pollmsg2"} /\ DeliveredAt(c) /\ ready \subseteq 1 .. NQ
      /\ NQ \in Nat \ {0}
  BY PollAssumption DEF PollBody
<1>3. PICK a \in Nat, b \in Nat, w \in {0, 1} :
        Delivered(a, b, w, prog, queue[c], sock[c], printed[c], hpc[c], m[c], Signals(c))
  BY <1>2 DEF DeliveredAt
\* what is left to show of each action
<1>4. ASSUME Kept(c), \A z \in 1 .. NQ : z # c => Signals(z)' = Signals(z), DeliveredAt(c)'
      PROVE  \A z \in 1 .. NQ : DeliveredAt(z)'
  <2>1. \A z \in 1 .. NQ : z # c => DeliveredAt(z)'
    BY <1>1, <1>4, OthersDelivered DEF Kept
  <2> QED
    BY <1>4, <2>1
<1>5. CASE PollMsg_!Create
  <2>1. /\ mpc = "create" /\ sock' = sock /\ ready' = ready /\ printed' = printed
        /\ \/ /\ hpc' = [hpc EXCEPT ![c] = "msgrcv"]
              /\ i' = (IF c = NQ THEN 1 ELSE c + 1) /\ mpc' = (IF c = NQ THEN "poll" ELSE "create")
           \/ mpc' = "failed" /\ hpc' = hpc /\ i' = c
    BY <1>5 DEF PollMsg_!Create, PollMsg_!Helper
  <2>2. Kept(c) /\ \A z : Signals(z)' = 0 /\ Signals(z) = 0
    BY <1>1, <1>2, <2>1 DEF Kept, Signals, One
  <2>3. hpc[c] = "none" /\ hpc'[c] \in {"none", "msgrcv"}
    BY <1>2, <2>1 DEF PollBody
  <2>4. Delivered(a, b, w, prog', queue'[c], sock'[c], printed'[c], hpc'[c], m'[c], Signals(c)')
    BY <1>1, <1>3, <2>1, <2>2, <2>3 DEF Delivered, One
  <2>5. DeliveredAt(c)'
    BY <2>4 DEF DeliveredAt
  <2>6. \A z \in 1 .. NQ : DeliveredAt(z)'
    BY <1>4, <2>2, <2>5
  <2>7. /\ i' \in 1 .. NQ /\ mpc' \notin {"scan", "signal"}
        /\ mpc' = "create" => \A z \in 1 .. NQ : z >= i' => hpc'[z] = "none"
    BY <1>2, <2>1 DEF PollBody
  <2> QED
    BY <1>1, <1>2, <2>1, <2>2, <2>6, <2>7 DEF PollBody, Kept
<1>6. CASE PollMsg_!Poll
  <2>1. /\ UNCHANGED <<hpc, sock, printed>> /\ mpc = "poll" /\ mpc' = "scan" /\ i' = 1
        /\ ready' = {q \in 1 .. NQ : sock[q] # <<>>}
    BY <1>6 DEF PollMsg_!Poll, PollMsg_!helpers, PollMsg_!Queues
  <2>2. \A z : Signals(z)' = Signals(z)
    BY <2>1 DEF Signals, One
  <2>3. \A z \in 1 .. NQ : DeliveredAt(z)'
    BY <1>1, <2>1, <2>2 DEF PollBody, DeliveredAt
  <2> QED
    BY <1>1, <1>2, <2>1, <2>3 DEF PollBody
<1>7. CASE PollMsg_!Read /\ c \notin ready
  <2>1. /\ UNCHANGED <<hpc, sock, printed, ready>> /\ mpc = "scan"
        /\ IF c = NQ THEN mpc' = "poll" /\ i' = 1 ELSE mpc' = "scan" /\ i' = c + 1
    BY <1>7 DEF PollMsg_!Read, PollMsg_!helpers, PollMsg_!Forward
  <2>2. \A z : Signals(z)' = Signals(z)
    BY <2>1 DEF Signals, One
  <2>3. \A z \in 1 .. NQ : DeliveredAt(z)'
    BY <1>1, <2>1, <2>2 DEF PollBody, DeliveredAt
  <2>4. i' \in 1 .. NQ /\ (mpc' = "scan" => \A z \in ready : z >= i' => sock[z] # <<>>)
    <3>1. \A z \in ready : z \in 1 .. NQ /\ z # c /\ (z >= c => sock[z] # <<>>)
      BY <1>7, <2>1 DEF PollBody
    <3> QED
      BY <1>2, <2>1, <3>1
  <2> QED
    BY <1>1, <1>2, <2>1, <2>3, <2>4 DEF PollBody
<1>8. CASE PollMsg_!Read /\ c \in ready
  <2>1. /\ UNCHANGED <<hpc, ready>> /\ mpc = "scan" /\ sock' = [sock EXCEPT ![c] = Tail(@)]
        /\ printed' = [printed EXCEPT ![c] =
                         Append(@, IF prog = "pollmsg" THEN Head(sock[c]) ELSE m[c])]
        /\ IF prog = "pollmsg"
           THEN IF c = NQ THEN mpc' = "poll" /\ i' = 1 ELSE mpc' = "scan" /\ i' = c + 1
           ELSE mpc' = "signal" /\ i' = c
    BY <1>8 DEF PollMsg_!Read, PollMsg_!helpers, PollMsg_!Forward
  <2>2. /\ Kept(c) /\ sock'[c] = Tail(sock[c])
        /\ printed'[c] = Append(printed[c], IF prog = "pollmsg" THEN Head(sock[c]) ELSE m[c])
        /\ sock[c] # <<>>
    BY <1>1, <1>2, <1>8, <2>1 DEF PollBody, Kept
  <2>3. sock[c] = Numbers(a, b) /\ printed[c] = Numbers(0, a) /\ Signals(c) = 0
    BY <1>3, <2>1 DEF Delivered, Signals, One
  <2>4. b # 0
    BY <2>2, <2>3, NumbersLen
  <2>5. PICK k \in Nat : b = k + 1
    BY <2>4
  <2>6. prog = "pollmsg2" => k = 0 /\ hpc[c] \in {"locked", "wait"} /\ w = 0 /\ m[c] = a + 1
    BY <1>3, <2>3, <2>5 DEF Delivered, One
  <2>7. sock'[c] = Numbers(a + 1, k) /\ Head(sock[c]) = a + 1
    <3>1. Head(Numbers(a, k + 1)) = a + 1 /\ Tail(Numbers(a, k + 1)) = Numbers(a + 1, k)
      BY NumbersMove
    <3> QED
      BY <2>2, <2>3, <2>5, <3>1
  <2>8. printed'[c] = Numbers(0, a + 1)
    <3>1. printed'[c] = Append(Numbers(0, a), a + 1)
      BY <1>2, <2>2, <2>3, <2>6, <2>7
    <3>2. Append(Numbers(0, a), 0 + a + 1) = Numbers(0, a + 1)
      BY NumbersMove
    <3>3. 0 + a + 1 = a + 1
      OBVIOUS
    <3> QED
      BY <3>1, <3>2, <3>3
  <2>9. /\ \A z \in 1 .. NQ : z # c => Signals(z)' = Signals(z)
        /\ Signals(c)' = (IF prog = "pollmsg" THEN 0 ELSE 1)
    BY <1>2, <2>1 DEF Signals, One
  <2>10. Delivered(a + 1, k, w, prog', queue'[c], sock'[c], printed'[c], hpc'[c], m'[c],
           Signals(c)')
    <3>1. a + 1 + k + w = a + b + w
      BY <2>5
    <3> QED
      BY <1>1, <1>2, <1>3, <2>1, <2>5, <2>6, <2>7, <2>8, <2>9, <3>1 DEF Delivered, One
  <2>11. DeliveredAt(c)'
    BY <2>10 DEF DeliveredAt
  <2>12. \A z \in 1 .. NQ : DeliveredAt(z)'
    BY <1>4, <2>2, <2>9, <2>11
  <2>13. /\ i' \in 1 .. NQ
         /\ mpc' = "scan" => \A z \in ready' : z >= i' => sock'[z] # <<>>
         /\ mpc' = "signal" => \A z \in ready' : z > i' => sock'[z] # <<>>
    BY <1>2, <2>1, <2>2 DEF PollBody, Kept
  <2> QED
    BY <1>1, <1>2, <2>1, <2>2, <2>12, <2>13 DEF PollBody, Kept
<1>9. CASE PollMsg_!Signal
  <2>1. /\ UNCHANGED <<sock, printed, ready>> /\ mpc = "signal" /\ hpc[c] # "locked"
        /\ hpc' = IF hpc[c] = "wait" THEN [hpc EXCEPT ![c] = "clear"] ELSE hpc
        /\ IF c = NQ THEN mpc' = "poll" /\ i' = 1 ELSE mpc' = "scan" /\ i' = c + 1
    BY <1>9 DEF PollMsg_!Signal, PollMsg_!Forward
  <2>2. Signals(c) = 1 /\ \A z \in 1 .. NQ : Signals(z)' = 0 /\ (z # c => Signals(z) = 0)
    BY <2>1 DEF Signals, One
  <2>3. hpc[c] = "wait" /\ b = 0 /\ prog = "pollmsg2"
    BY <1>2, <1>3, <2>1, <2>2 DEF Delivered, One
  <2>4. Kept(c) /\ hpc'[c] = "clear"
    BY <1>1, <1>2, <2>1, <2>3 DEF Kept
  <2>5. Delivered(a, b, w, prog', queue'[c], sock'[c], printed'[c], hpc'[c], m'[c], Signals(c)')
    BY <1>1, <1>3, <2>1, <2>2, <2>3, <2>4 DEF Delivered, One
  <2>6. DeliveredAt(c)'
    BY <2>5 DEF DeliveredAt
  <2>7. \A z \in 1 .. NQ : DeliveredAt(z)'
    BY <1>4, <2>2, <2>4, <2>6
  <2>8. i' \in 1 .. NQ /\ (mpc' = "scan" => \A z \in ready : z >= i' => sock[z] # <<>>)
    <3>1. \A z \in ready : z \in 1 .. NQ /\ (z > c => sock[z] # <<>>)
      BY <2>1 DEF PollBody
    <3>2. mpc' = "scan" => i' = c + 1
      BY <2>1
    <3>3. i' \in 1 .. NQ
      BY <1>2, <2>1
    <3> QED
      BY <3>1, <3>2, <3>3
  <2> QED
    BY <1>1, <1>2, <2>1, <2>4, <2>7, <2>8 DEF PollBody, Kept
<1> QED
  BY <1>5, <1>6, <1>7, <1>8, <1>9

\* Each step of pollmsg.c and pollmsg2.c keeps PollInv.
LEMMA PollStep == ASSUME PollInv, [PollMsg_!Next]_(PollMsg_!vars) PROVE PollInv'
<1>1. CASE UNCHANGED PollMsg_!vars
  <2>1. UNCHANGED <<prog, queue, hpc, m, sock, mpc, ready, i, printed, spurious>>
    BY <1>1 DEF PollMsg_!vars, PollMsg_!helpers
  <2>2. \A z : DeliveredAt(z)' = DeliveredAt(z)
    BY <2>1 DEF DeliveredAt, Signals
  <2> QED
    BY <2>1, <2>2 DEF PollInv, Calm, PollBody
<1>2. ASSUME PollMsg_!Create \/ PollMsg_!Poll \/ PollMsg_!Read \/ PollMsg_!Signal PROVE PollInv'
  <2>1. UNCHANGED <<prog, spurious>>
    BY <1>2 DEF PollMsg_!Create, PollMsg_!Poll, PollMsg_!Read, PollMsg_!Signal
  <2>2. PollBody => i \in 1 .. NQ
    BY DEF PollBody
  <2> QED
    BY <1>2, <2>1, <2>2, MainKeeps DEF PollInv, Calm
<1>3. ASSUME NEW q \in 1 .. NQ,
             PollMsg_!Clear(q) \/ PollMsg_!Msgrcv(q) \/ PollMsg_!Write(q) \/ PollMsg_!CondWait(q)
      PROVE  PollInv'
  <2>1. UNCHANGED <<prog, spurious>>
    BY <1>3 DEF PollMsg_!Clear, PollMsg_!Msgrcv, PollMsg_!Write, PollMsg_!CondWait
  <2> QED
    BY <1>3, <2>1, HelperKeeps DEF PollInv, Calm
<1>4. ASSUME NEW q \in 1 .. NQ, PollMsg_!Spurious(q) PROVE PollInv'
  <2>1. prog' = prog /\ spurious' = spurious + 1 /\ hpc[q] = "wait"
    BY <1>4 DEF PollMsg_!Spurious
  <2>2. spurious' \in Nat /\ spurious' # 0
    BY <2>1 DEF PollInv
  <2>3. PollBody => prog # "pollmsg"
    BY <2>1 DEF PollBody, DeliveredAt, Delivered
  <2> QED
    BY <2>1, <2>2, <2>3 DEF PollInv, Calm
<1> QED
  BY <1>1, <1>2, <1>3, <1>4 DEF PollMsg_!Next, PollMsg_!Queues

\* What was printed are the first messages that were sent, in order.
LEMMA PollHold == PollInv => PollMsg_!PrintedInOrder
<1> SUFFICES ASSUME PollBody, NEW q \in 1 .. NQ
             PROVE  /\ printed[q] = [j \in DOMAIN printed[q] |-> j]
                    /\ PollMsg_!Done /\ PollMsg_!Alive => Len(printed[q]) = MaxMsgs
  BY DEF PollInv, Calm, PollMsg_!PrintedInOrder, PollMsg_!Queues
<1>1. PICK a \in Nat, b \in Nat, w \in {0, 1} :
        Delivered(a, b, w, prog, queue[q], sock[q], printed[q], hpc[q], m[q], Signals(q))
  BY DEF PollBody, DeliveredAt
<1>2. /\ printed[q] = Numbers(0, a) /\ DOMAIN printed[q] = 1 .. a /\ Len(printed[q]) = a
  BY <1>1, NumbersLen DEF Delivered
<1>3. printed[q] = [j \in DOMAIN printed[q] |-> j]
  <2>1. printed[q] = [j \in 1 .. a |-> 0 + j]
    BY <1>2 DEF Numbers
  <2>2. \A j \in 1 .. a : 0 + j = j
    OBVIOUS
  <2> QED
    BY <1>2, <2>1, <2>2
<1>4. ASSUME PollMsg_!Done, PollMsg_!Alive PROVE a = MaxMsgs
  <2>1. hpc[q] = "msgrcv" /\ queue[q] = <<>> /\ sock[q] = <<>>
    BY <1>4 DEF PollMsg_!Done, PollMsg_!Queues
  <2>2. w = 0 /\ a + b <= MaxMsgs /\ Numbers(a, b) = <<>>
          /\ Numbers(a + b, MaxMsgs - (a + b)) = <<>>
    BY <1>1, <2>1 DEF Delivered, One
  <2>3. b = 0
    BY <2>2, NumbersLen
  <2>4. MaxMsgs - a \in Nat /\ Numbers(a, MaxMsgs - a) = <<>>
    BY <2>2, <2>3, PollAssumption
  <2>5. MaxMsgs - a = 0
    BY <2>4, NumbersLen
  <2> QED
    BY <2>5, PollAssumption
<1> QED
  BY <1>2, <1>3, <1>4

-----------------------------------------------------------------------------
(* FdPass: at most one request or answer is on its way.                      *)

\* the bytes of the two directions
Open == <<"open">>
Null_ == <<"null">>
Name(f) == <<"name", f>>
TextByte == <<"text">>
Status(e, f) == <<"status", e, f>>
RequestTokens == {Open, Null_} \cup {Name(x.file) : x \in Requests}
AnswerTokens == {TextByte, Null_, Status(1, Nil)} \cup {Status(0, x.file) : x \in Requests}

\* what a client asks, and what it may find: text, or text and the last two bytes
Asking(x) == [k \in 1 .. x.size |-> IF k = 1 THEN <<"open">> ELSE IF k = x.size THEN <<"null">>
                                    ELSE <<"name", x.file>>]
IsText(s) ==
  /\ s \in Seq(AnswerTokens) /\ Len(s) + 2 <= MAXLINE
  /\ \A k \in 1 .. Len(s) : s[k][1] = "text"
IsAnswer(s, e, f) ==
  /\ s \in Seq(AnswerTokens) /\ Len(s) > 1 /\ Len(s) <= MAXLINE
  /\ \A k \in 1 .. Len(s) - 2 : s[k][1] = "text"
  /\ s[Len(s) - 1][1] = "null"
  /\ s[Len(s)][1] = "status" /\ s[Len(s)][2] = e /\ s[Len(s)][3] = f

InFlight ==
  \/ c2s = Asking(name) /\ name.size <= MAXLINE /\ s2c = <<>>
       /\ server \in {"read", "close", "error"}
  \/ c2s = <<>> /\ s2c = <<>> /\ server = "answer" /\ request = Asking(name)
  \/ c2s = <<>> /\ IsText(s2c) /\ server = "status" /\ name.file = Nil
  \/ c2s = <<>> /\ IsAnswer(s2c, 1, Nil) /\ server = "read" /\ name.file = Nil
  \/ /\ c2s = <<>> /\ IsAnswer(s2c, 0, name.file) /\ server \in {"close", "read"}
     /\ name.file # Nil
  \/ c2s = <<>> /\ s2c = <<>> /\ server = "gone"

Between ==
  /\ c2s = <<>> /\ s2c = <<>> /\ server \in {"none", "error", "read", "close", "gone"}
  /\ server = "none" => cpc = "fgets"
  /\ server \in {"none", "error"} => status = -1 /\ cpc # "cat"
  /\ cpc = "cat" => newfd = name.file /\ status = 0
  /\ cpc = "fgets" /\ status > 0 => name.file = Nil /\ newfd = Nil

FdPassBody ==
  /\ name \in Requests /\ status \in Int
  /\ \/ cpc \in {"exit", "killed"}
     \/ cpc \in {"fgets", "writev", "cat"} /\ Between
     \/ cpc = "recvmsg" /\ status = -1 /\ InFlight
FdPassInv == ~lost => FdPassBody

\* What may stand on the way from the server: sequences of tokens.
LEMMA Tokens ==
  /\ TextByte[1] = "text" /\ Null_[1] = "null" /\ Open[1] = "open"
  /\ \A e, f : Status(e, f)[1] = "status" /\ Status(e, f)[2] = e /\ Status(e, f)[3] = f
  /\ \A f : Name(f)[1] = "name" /\ Name(f)[2] = f
<1>1. TextByte[1] = "text" /\ Null_[1] = "null" /\ Open[1] = "open"
  BY DEF TextByte, Null_, Open
<1>2. \A e, f : Status(e, f)[1] = "status" /\ Status(e, f)[2] = e /\ Status(e, f)[3] = f
  BY DEF Status
<1>3. \A f : Name(f)[1] = "name" /\ Name(f)[2] = f
  BY DEF Name
<1> QED
  BY <1>1, <1>2, <1>3

\* The least element of a set.
LEMMA SmallestIs ==
  ASSUME NEW S \in SUBSET Int, NEW x \in S, \A y \in S : x <= y
  PROVE  FdPass_!Smallest(S) = x
<1>1. FdPass_!Smallest(S) \in S /\ \A y \in S : FdPass_!Smallest(S) <= y
  BY DEF FdPass_!Smallest
<1>2. \A y \in S : y \in Int /\ x <= y
  OBVIOUS
<1>3. FdPass_!Smallest(S) <= x /\ x <= FdPass_!Smallest(S)
  BY <1>1, <1>2
<1>4. FdPass_!Smallest(S) \in Int /\ x \in Int
  BY <1>1, <1>2
<1> QED
  BY <1>3, <1>4

\* The server finds in a request the file that was asked for.
LEMMA RequestRead ==
  ASSUME NEW x \in Requests
  PROVE  /\ Asking(x) \in Seq(RequestTokens) /\ Len(Asking(x)) = x.size
         /\ FdPass_!File(Asking(x)) = x.file
<1> DEFINE r == Asking(x)
<1>1. x.size \in Nat /\ x.size > 2
  BY FdPassAssumption
<1>2. /\ DOMAIN r = 1 .. x.size /\ r[1] = Open /\ r[x.size] = Null_
      /\ \A k \in 2 .. x.size - 1 : r[k] = Name(x.file)
  <2>1. /\ DOMAIN r = 1 .. x.size
        /\ \A k \in 1 .. x.size : r[k] = IF k = 1 THEN Open ELSE IF k = x.size THEN Null_
                                         ELSE Name(x.file)
    BY Zenon DEF Asking, Open, Null_, Name
  <2> HIDE DEF r
  <2> QED
    BY <1>1, <2>1
<1>3. r \in Seq(RequestTokens) /\ Len(r) = x.size
  <2>1. \A k \in 1 .. x.size : r[k] \in RequestTokens
    <3> HIDE DEF r
    <3>1. Open \in RequestTokens /\ Null_ \in RequestTokens /\ Name(x.file) \in RequestTokens
      BY DEF RequestTokens
    <3> QED
      BY <1>1, <1>2, <3>1
  <2>2. r = [k \in 1 .. x.size |-> r[k]]
    BY <1>2 DEF Asking
  <2> HIDE DEF r
  <2>3. r \in [1 .. x.size -> RequestTokens]
    BY <2>1, <2>2
  <2> QED
    BY <1>1, <2>3
<1> HIDE DEF r
<1>4. FdPass_!Smallest({k \in DOMAIN r : r[k] = Null_}) = x.size
  <2>1. Open # Null_ /\ Name(x.file) # Null_
    BY Tokens
  <2>2. {k \in DOMAIN r : r[k] = Null_} = {x.size}
    BY <1>1, <1>2, <2>1
  <2>3. {x.size} \in SUBSET Int /\ x.size \in {x.size} /\ \A y \in {x.size} : x.size <= y
    BY <1>1
  <2>4. FdPass_!Smallest({x.size}) = x.size
    BY <2>3, SmallestIs
  <2> QED
    BY <2>2, <2>4
<1>5. FdPass_!First(r) = r
  <2>1. FdPass_!First(r) = SubSeq(r, 1, x.size)
    BY <1>4, Zenon DEF FdPass_!First, Null_
  <2> QED
    BY <1>3, <2>1, SubSeqFull
<1>6. FdPass_!File(r) = FdPass_!First(r)[2][2]
  BY <1>2, <1>3, Zenon DEF FdPass_!File, Null_, Open
<1>7. r[2][2] = x.file
  BY <1>1, <1>2, Tokens
<1> QED
  BY <1>3, <1>5, <1>6, <1>7 DEF r

\* The client reads what there is.
LEMMA PartWhole ==
  ASSUME s2c \in Seq(AnswerTokens), Len(s2c) <= MAXLINE, Len(s2c) > 0,
         \A k \in 1 .. Len(s2c) : s2c[k][1] = "status" => k = Len(s2c)
  PROVE  FdPass_!Part = s2c /\ SubSeq(s2c, Len(FdPass_!Part) + 1, Len(s2c)) = <<>>
<1> DEFINE fds_ == {k \in DOMAIN s2c : s2c[k][1] = "status" /\ s2c[k][3] # Nil}
<1>1. fds_ \subseteq {Len(s2c)}
  OBVIOUS
<1>2. FdPass_!Part = SubSeq(s2c, 1, FdPass_!Smallest({MAXLINE, Len(s2c)} \cup fds_))
  BY DEF FdPass_!Part
<1> HIDE DEF fds_
<1>3. FdPass_!Smallest({MAXLINE, Len(s2c)} \cup fds_) = Len(s2c)
  <2> DEFINE S == {MAXLINE, Len(s2c)} \cup fds_
  <2>1. Len(s2c) \in S /\ S \in SUBSET Int /\ \A y \in S : Len(s2c) <= y
    BY <1>1, FdPassAssumption
  <2> HIDE DEF S
  <2>2. FdPass_!Smallest(S) = Len(s2c)
    BY <2>1, SmallestIs
  <2> QED
    BY <2>2 DEF S
<1>4. FdPass_!Part = s2c
  BY <1>2, <1>3, SubSeqFull
<1> QED
  BY <1>4, SubSeqEmpty

\* At first no request was made.
LEMMA FdPassInit == FdPass_!Init => FdPassInv
BY DEF FdPass_!Init, FdPassInv, FdPassBody, Between

\* An answer that is text or the error goes out and comes in.
LEMMA SeqAppended ==
  ASSUME NEW S, NEW s \in Seq(S), NEW x \in S, NEW y \in S
  PROVE  /\ s \o <<x, y>> \in Seq(S) /\ Len(s \o <<x, y>>) = Len(s) + 2
         /\ \A k \in 1 .. Len(s) : (s \o <<x, y>>)[k] = s[k]
         /\ (s \o <<x, y>>)[Len(s) + 1] = x /\ (s \o <<x, y>>)[Len(s) + 2] = y
<1>1. <<x, y>> \in Seq(S) /\ Len(<<x, y>>) = 2 /\ <<x, y>>[1] = x /\ <<x, y>>[2] = y
  OBVIOUS
<1> DEFINE u == <<x, y>>
<1> HIDE DEF u
<1>2. u \in Seq(S) /\ Len(u) = 2 /\ u[1] = x /\ u[2] = y
  BY <1>1 DEF u
<1>3. /\ s \o u \in Seq(S) /\ Len(s \o u) = Len(s) + 2
      /\ \A k \in 1 .. Len(s) : (s \o u)[k] = s[k]
      /\ (s \o u)[Len(s) + 1] = x /\ (s \o u)[Len(s) + 2] = y
  <2>1. /\ s \o u \in Seq(S) /\ Len(s \o u) = Len(s) + 2
        /\ \A k \in 1 .. Len(s) + 2 : (s \o u)[k] = IF k <= Len(s) THEN s[k] ELSE u[k - Len(s)]
    <3>1. /\ s \o u \in Seq(S) /\ Len(s \o u) = Len(s) + Len(u)
          /\ \A k \in 1 .. Len(s) + Len(u) : (s \o u)[k] = IF k <= Len(s) THEN s[k]
               ELSE u[k - Len(s)]
      BY <1>2, ConcatProperties, Zenon
    <3>2. Len(u) = 2
      BY <1>2
    <3> QED
      BY <3>1, <3>2
  <2>2. PICK l \in Nat : l = Len(s)
    OBVIOUS
  <2>3. /\ \A k \in 1 .. l : k \in 1 .. l + 2 /\ k <= l
        /\ l + 1 \in 1 .. l + 2 /\ ~(l + 1 <= l) /\ (l + 1) - l = 1
        /\ l + 2 \in 1 .. l + 2 /\ ~(l + 2 <= l) /\ (l + 2) - l = 2
    BY <2>2
  <2> QED
    BY <1>2, <2>1, <2>2, <2>3, Zenon
<1> QED
  BY <1>3 DEF u

\* What the server sends.
LEMMA Sent ==
  /\ \A k \in 0 .. MAXLINE - 2 : IsText(FdPass_!Text(k))
  /\ \A s : IsText(s) => IsAnswer(s \o FdPass_!send_fd(-1, Nil), 1, Nil)
  /\ \A x \in Requests : IsAnswer(FdPass_!send_fd(0, x.file), 0, x.file)
<1>1. ASSUME NEW k \in 0 .. MAXLINE - 2 PROVE IsText(FdPass_!Text(k))
  <2>1. FdPass_!Text(k) = [j \in 1 .. k |-> TextByte]
    BY Zenon DEF FdPass_!Text, TextByte
  <2>2. TextByte \in AnswerTokens
    BY DEF AnswerTokens
  <2>3. [j \in 1 .. k |-> TextByte] \in Seq(AnswerTokens) /\ Len([j \in 1 .. k |-> TextByte]) = k
    BY <2>2
  <2> QED
    BY <2>1, <2>3, Tokens, FdPassAssumption DEF IsText
<1>2. ASSUME NEW s, IsText(s) PROVE IsAnswer(s \o FdPass_!send_fd(-1, Nil), 1, Nil)
  <2>1. FdPass_!send_fd(-1, Nil) = <<Null_, Status(1, Nil)>>
    <3>1. (-(-1)) % 256 = 1 /\ -1 < 0 /\ 1 # 0
      BY SMT
    <3> QED
      BY <3>1, Zenon DEF FdPass_!send_fd, Null_, Status
  <2>2. Null_ \in AnswerTokens /\ Status(1, Nil) \in AnswerTokens
    BY DEF AnswerTokens
  <2> DEFINE u == s \o <<Null_, Status(1, Nil)>>
  <2>3. /\ u \in Seq(AnswerTokens) /\ Len(u) = Len(s) + 2
        /\ \A k \in 1 .. Len(s) : u[k] = s[k]
        /\ u[Len(s) + 1] = Null_ /\ u[Len(s) + 2] = Status(1, Nil)
    BY <1>2, <2>2, SeqAppended DEF IsText
  <2> HIDE DEF u
  <2>4. IsAnswer(u, 1, Nil)
    BY <1>2, <2>3, Tokens, FdPassAssumption DEF IsText, IsAnswer
  <2> QED
    BY <2>1, <2>4 DEF u
<1>3. ASSUME NEW x \in Requests PROVE IsAnswer(FdPass_!send_fd(0, x.file), 0, x.file)
  <2>1. FdPass_!send_fd(0, x.file) = <<Null_, Status(0, x.file)>>
    <3>1. ~(0 < 0)
      BY SMT
    <3> QED
      BY <3>1, Zenon DEF FdPass_!send_fd, Null_, Status
  <2>2. Null_ \in AnswerTokens /\ Status(0, x.file) \in AnswerTokens
    BY DEF AnswerTokens
  <2> DEFINE u == <<>> \o <<Null_, Status(0, x.file)>>
  <2>3. /\ u \in Seq(AnswerTokens) /\ Len(u) = 0 + 2 /\ u[0 + 1] = Null_
             /\ u[0 + 2] = Status(0, x.file)
    <3>1. <<>> \in Seq(AnswerTokens) /\ Len(<<>>) = 0
      OBVIOUS
    <3> QED
      BY <2>2, <3>1, SeqAppended
  <2>4. u = FdPass_!send_fd(0, x.file)
    BY <2>1
  <2> HIDE DEF u
  <2>5. IsAnswer(u, 0, x.file)
    BY <2>3, Tokens, FdPassAssumption DEF IsAnswer
  <2> QED
    BY <2>4, <2>5
<1> QED
  BY <1>1, <1>2, <1>3

\* What the client makes of text, and of an answer.
LEMMA TextRead ==
  ASSUME status = -1, s2c # <<>>, IsText(s2c), FdPass_!Recvmsg, ~lost'
  PROVE  s2c' = <<>> /\ cpc' = "recvmsg" /\ UNCHANGED <<status, newfd, lost>>
<1> DEFINE N == {k \in DOMAIN FdPass_!Part : FdPass_!Part[k][1] = "null"}
<1>1. FdPass_!Part = s2c /\ SubSeq(s2c, Len(FdPass_!Part) + 1, Len(s2c)) = <<>>
  <2>1. s2c \in Seq(AnswerTokens) /\ Len(s2c) <= MAXLINE /\ Len(s2c) > 0
    BY FdPassAssumption DEF IsText
  <2>2. \A k \in 1 .. Len(s2c) : s2c[k][1] = "status" => k = Len(s2c)
    BY DEF IsText
  <2> QED
    BY <2>1, <2>2, PartWhole
<1>2. N = {}
  BY <1>1 DEF IsText
<1>3. /\ s2c' = SubSeq(s2c, Len(FdPass_!Part) + 1, Len(s2c)) /\ UNCHANGED <<status, newfd>>
      /\ \/ cpc' = (IF status' < 0 THEN "recvmsg" ELSE IF status' = 0 THEN "cat" ELSE "fgets")
            /\ lost' = lost
         \/ lost'
  BY <1>2 DEF FdPass_!Recvmsg, FdPass_!recv
<1> QED
  BY <1>1, <1>3

\* recv_fd at the end of an answer: the client has it whole, and nothing behind it.
LEMMA AnswerRead ==
  ASSUME NEW e \in {0, 1}, NEW f, IsAnswer(s2c, e, f), FdPass_!Recvmsg, ~lost'
  PROVE  /\ s2c' = <<>> /\ status' = e /\ newfd' = f /\ UNCHANGED lost
         /\ cpc' = IF e = 0 THEN "cat" ELSE "fgets"
<1> DEFINE N == {k \in DOMAIN FdPass_!Part : FdPass_!Part[k][1] = "null"}
<1>1. /\ s2c \in Seq(AnswerTokens) /\ Len(s2c) <= MAXLINE /\ Len(s2c) > 1
      /\ \A k \in 1 .. Len(s2c) - 2 : s2c[k][1] = "text"
      /\ s2c[Len(s2c) - 1][1] = "null" /\ s2c[Len(s2c)][1] = "status"
  BY DEF IsAnswer
<1>2. \A k \in 1 .. Len(s2c) : k \in 1 .. Len(s2c) - 2 \/ k = Len(s2c) - 1 \/ k = Len(s2c)
  BY <1>1
<1>3. FdPass_!Part = s2c /\ SubSeq(s2c, Len(FdPass_!Part) + 1, Len(s2c)) = <<>>
  <2>1. \A k \in 1 .. Len(s2c) : s2c[k][1] = "status" => k = Len(s2c)
    BY <1>1, <1>2
  <2> QED
    BY <1>1, <2>1, PartWhole
<1>4. N = {Len(s2c) - 1} /\ FdPass_!Smallest(N) = Len(FdPass_!Part) - 1
  <2>1. DOMAIN FdPass_!Part = 1 .. Len(s2c)
    BY <1>1, <1>3
  <2>2. N = {Len(s2c) - 1}
    <3>1. \A k \in 1 .. Len(s2c) : s2c[k][1] = "null" <=> k = Len(s2c) - 1
      BY <1>1, <1>2
    <3>2. Len(s2c) - 1 \in 1 .. Len(s2c)
      BY <1>1
    <3>3. N = {k \in 1 .. Len(s2c) : s2c[k][1] = "null"}
      BY <1>3, <2>1, Zenon
    <3> QED
      BY <3>1, <3>2, <3>3
  <2>3. {Len(s2c) - 1} \in SUBSET Int /\ \A y \in {Len(s2c) - 1} : Len(s2c) - 1 <= y
    BY <1>1
  <2>4. FdPass_!Smallest({Len(s2c) - 1}) = Len(s2c) - 1
    BY <2>3, SmallestIs
  <2> QED
    BY <1>3, <2>2, <2>4, Zenon
<1>5. /\ s2c' = SubSeq(s2c, Len(FdPass_!Part) + 1, Len(s2c))
      /\ status' = FdPass_!Part[Len(FdPass_!Part)][2]
           /\ newfd' = FdPass_!Part[Len(FdPass_!Part)][3]
      /\ \/ cpc' = (IF status' < 0 THEN "recvmsg" ELSE IF status' = 0 THEN "cat" ELSE "fgets")
            /\ lost' = lost
         \/ lost'
  <2>1. s2c # <<>> /\ N # {}
    BY <1>1, <1>4
  <2> QED
    BY <1>4, <2>1 DEF FdPass_!Recvmsg, FdPass_!recv
<1>6. status' = e /\ newfd' = f
  BY <1>3, <1>5 DEF IsAnswer
<1> QED
  BY <1>3, <1>5, <1>6

\* The steps of the client.
LEMMA ClientFdKeeps ==
  ASSUME FdPassBody, ~lost', \/ FdPass_!csopen \/ FdPass_!Writev \/ FdPass_!Recvmsg \/ FdPass_!Cat
                             \/ FdPass_!EndClient
  PROVE  FdPassBody' /\ ~lost
<1>1. CASE FdPass_!csopen
  <2>1. cpc = "fgets" /\ Between /\ UNCHANGED <<c2s, s2c, request, opened, status, newfd, lost>>
    BY <1>1 DEF FdPassBody, FdPass_!csopen, FdPass_!recv
  <2>2. name' \in Requests /\ IF server # "none" THEN cpc' = "writev" /\ UNCHANGED server
                              ELSE \/ cpc' = "writev" /\ server' = "read"
                                   \/ cpc' = "fgets" /\ server' \in {"none", "error"}
    BY <1>1 DEF FdPass_!csopen
  <2> QED
    BY <2>1, <2>2 DEF FdPassBody, Between
<1>2. CASE FdPass_!Writev
  <2>1. cpc = "writev" /\ Between /\ UNCHANGED <<server, name, calls, s2c, request, opened>>
    BY <1>2 DEF FdPassBody, FdPass_!Writev
  <2>2. CASE server = "gone"
    BY <1>2, <2>1, <2>2 DEF FdPassBody, FdPass_!Writev, FdPass_!recv
  <2>3. CASE server # "gone"
    <3>1. /\ cpc' = "recvmsg" /\ status' = -1 /\ ~lost /\ ~(name.size > MAXLINE)
          /\ c2s' = c2s \o Asking(name)
      BY <1>2, <2>3 DEF FdPass_!Writev, Asking
    <3>2. name \in Requests /\ name.size <= MAXLINE
      BY <3>1, FdPassAssumption DEF FdPassBody
    <3>3. c2s' = Asking(name)
      BY <2>1, <3>1, <3>2, RequestRead, ConcatEmptySeq DEF Between
    <3> QED
      BY <2>1, <2>3, <3>1, <3>2, <3>3 DEF FdPassBody, Between, InFlight, Asking
  <2> QED
    BY <2>2, <2>3
<1>3. CASE FdPass_!Recvmsg
  <2>1. /\ cpc = "recvmsg" /\ status = -1 /\ InFlight /\ name \in Requests
        /\ UNCHANGED <<server, name, calls, c2s, request, opened>>
    BY <1>3 DEF FdPassBody, FdPass_!Recvmsg
  <2>2. CASE s2c = <<>>
    <3>1. server = "gone" /\ cpc' = "fgets" /\ UNCHANGED <<s2c, status, newfd, lost>>
      BY <1>3, <2>2 DEF FdPass_!Recvmsg, FdPass_!recv
    <3>2. c2s = <<>>
      BY <2>1, <3>1 DEF InFlight
    <3> QED
      BY <2>1, <2>2, <3>1, <3>2 DEF FdPassBody, Between
  <2>3. CASE IsText(s2c) /\ s2c # <<>> /\ c2s = <<>> /\ server = "status" /\ name.file = Nil
    <3>1. s2c' = <<>> /\ cpc' = "recvmsg" /\ UNCHANGED <<status, newfd, lost>>
      BY <1>3, <2>1, <2>3, TextRead
    <3>2. IsText(<<>>)
      BY FdPassAssumption DEF IsText
    <3> QED
      BY <2>1, <2>3, <3>1, <3>2 DEF FdPassBody, InFlight
  <2>4. CASE IsAnswer(s2c, 1, Nil) /\ c2s = <<>> /\ server = "read" /\ name.file = Nil
    <3>1. s2c' = <<>> /\ status' = 1 /\ newfd' = Nil /\ lost' = lost /\ cpc' = "fgets"
      BY <1>3, <2>4, AnswerRead
    <3> QED
      BY <2>1, <2>4, <3>1 DEF FdPassBody, Between
  <2>5. CASE /\ IsAnswer(s2c, 0, name.file) /\ c2s = <<>> /\ server \in {"close", "read"}
             /\ name.file # Nil
    <3>1. s2c' = <<>> /\ status' = 0 /\ newfd' = name.file /\ lost' = lost /\ cpc' = "cat"
      BY <1>3, <2>5, AnswerRead
    <3> QED
      BY <2>1, <2>5, <3>1 DEF FdPassBody, Between
  <2> QED
    BY <2>1, <2>2, <2>3, <2>4, <2>5 DEF InFlight
<1>4. CASE FdPass_!Cat
  <2>1. /\ cpc = "cat" /\ cpc' \in {"fgets", "exit"}
        /\ UNCHANGED <<server, name, calls, c2s, s2c, request, opened, status, newfd, lost>>
    BY <1>4 DEF FdPass_!Cat, FdPass_!recv
  <2> QED
    BY <2>1 DEF FdPassBody, Between
<1>5. CASE FdPass_!EndClient
  <2>1. /\ cpc' = "exit"
        /\ UNCHANGED <<server, name, calls, c2s, s2c, request, opened, status, newfd, lost>>
    BY <1>5 DEF FdPass_!EndClient, FdPass_!recv
  <2> QED
    BY <2>1 DEF FdPassBody
<1> QED
  BY <1>1, <1>2, <1>3, <1>4, <1>5

\* The steps of the server.
LEMMA ServerFdKeeps ==
  ASSUME FdPassBody, \/ FdPass_!ReadRequest \/ FdPass_!handle_request \/ FdPass_!SendStatus
                     \/ FdPass_!CloseFd
  PROVE  FdPassBody'
<1>1. UNCHANGED <<cpc, name, status, newfd>>
  BY DEF FdPass_!ReadRequest, FdPass_!handle_request, FdPass_!SendStatus, FdPass_!CloseFd,
      FdPass_!recv
<1>2. CASE cpc \in {"exit", "killed"}
  BY <1>1, <1>2 DEF FdPassBody
<1>3. CASE cpc \in {"fgets", "writev", "cat"} /\ Between
  <2>1. ~FdPass_!ReadRequest /\ ~FdPass_!handle_request /\ ~FdPass_!SendStatus
    BY <1>3 DEF Between, FdPass_!ReadRequest, FdPass_!handle_request, FdPass_!SendStatus,
                FdPass_!ClientGone
  <2>2. server = "close" /\ server' = "read" /\ UNCHANGED <<c2s, s2c>>
    BY <2>1 DEF FdPass_!CloseFd
  <2> QED
    BY <1>1, <1>3, <2>2 DEF FdPassBody, Between
<1>4. CASE cpc = "recvmsg" /\ status = -1 /\ InFlight
  <2>1. name \in Requests
    BY DEF FdPassBody
  <2>2. CASE FdPass_!ReadRequest
    <3>1. server = "read" /\ UNCHANGED s2c
      BY <2>2 DEF FdPass_!ReadRequest
    <3>2. c2s # <<>>
      BY <1>4, <2>2 DEF FdPass_!ReadRequest, FdPass_!ClientGone
    <3>3. c2s = Asking(name) /\ name.size <= MAXLINE /\ s2c = <<>>
      BY <1>4, <3>1, <3>2 DEF InFlight
    <3>4. FdPass_!Smallest({MAXLINE, Len(c2s)}) = Len(c2s) /\ c2s \in Seq(RequestTokens)
      <4>1. Len(c2s) = name.size /\ c2s \in Seq(RequestTokens)
        BY <2>1, <3>3, RequestRead
      <4>2. /\ {MAXLINE, Len(c2s)} \in SUBSET Int /\ Len(c2s) \in {MAXLINE, Len(c2s)}
            /\ \A y \in {MAXLINE, Len(c2s)} : Len(c2s) <= y
        BY <3>3, <4>1, FdPassAssumption
      <4>3. FdPass_!Smallest({MAXLINE, Len(c2s)}) = Len(c2s)
        BY <4>2, SmallestIs
      <4> QED
        BY <4>1, <4>3
    <3>5. /\ request' = SubSeq(c2s, 1, Len(c2s)) /\ c2s' = SubSeq(c2s, Len(c2s) + 1, Len(c2s))
          /\ server' = "answer"
      BY <2>2, <3>2, <3>4 DEF FdPass_!ReadRequest
    <3>6. request' = Asking(name) /\ c2s' = <<>>
      BY <3>3, <3>4, <3>5, SubSeqFull, SubSeqEmpty
    <3> QED
      BY <1>1, <1>4, <2>1, <3>1, <3>3, <3>5, <3>6 DEF FdPassBody, InFlight, Asking
  <2>3. CASE FdPass_!handle_request
    <3>1. server = "answer" /\ UNCHANGED c2s
      BY <2>3 DEF FdPass_!handle_request
    <3>2. c2s = <<>> /\ s2c = <<>> /\ request = Asking(name)
      BY <1>4, <3>1 DEF InFlight
    <3>3. opened' = name.file
      BY <2>1, <2>3, <3>2, RequestRead DEF FdPass_!handle_request
    <3>4. CASE name.file = Nil
      <4>1. PICK k \in 0 .. MAXLINE - 2 : s2c' = s2c \o FdPass_!Text(k)
        BY <2>3, <3>3, <3>4 DEF FdPass_!handle_request
      <4>2. server' = "status" /\ IsText(FdPass_!Text(k))
        BY <2>3, <3>3, <3>4, Sent DEF FdPass_!handle_request
      <4>3. s2c' = FdPass_!Text(k)
        BY <3>2, <4>1, <4>2, ConcatEmptySeq DEF IsText
      <4> QED
        BY <1>1, <1>4, <2>1, <3>1, <3>2, <3>4, <4>2, <4>3 DEF FdPassBody, InFlight
    <3>5. CASE name.file # Nil
      <4>1. \/ server' = "close" /\ s2c' = s2c \o FdPass_!send_fd(0, name.file)
            \/ server' = "gone" /\ UNCHANGED s2c
        BY <2>3, <3>3, <3>5 DEF FdPass_!handle_request
      <4>2. s2c \o FdPass_!send_fd(0, name.file) = FdPass_!send_fd(0, name.file)
        BY <2>1, <3>2, Sent, ConcatEmptySeq DEF IsAnswer
      <4> QED
        BY <1>1, <1>4, <2>1, <3>1, <3>2, <3>5, <4>1, <4>2, Sent DEF FdPassBody, InFlight
    <3> QED
      BY <3>4, <3>5
  <2>4. CASE FdPass_!SendStatus
    <3>1. /\ server = "status" /\ server' = "read" /\ UNCHANGED c2s
          /\ s2c' = s2c \o FdPass_!send_fd(-1, Nil)
      BY <2>4 DEF FdPass_!SendStatus
    <3>2. c2s = <<>> /\ IsText(s2c) /\ name.file = Nil
      BY <1>4, <3>1 DEF InFlight
    <3> QED
      BY <1>1, <1>4, <2>1, <3>1, <3>2, Sent DEF FdPassBody, InFlight
  <2>5. CASE FdPass_!CloseFd
    <3>1. server = "close" /\ server' = "read" /\ UNCHANGED <<c2s, s2c, request>>
      BY <2>5 DEF FdPass_!CloseFd
    <3> QED
      BY <1>1, <1>4, <2>1, <3>1 DEF FdPassBody, InFlight, Asking
  <2> QED
    BY <2>2, <2>3, <2>4, <2>5
<1> QED
  BY <1>2, <1>3, <1>4 DEF FdPassBody

\* Each step of csopen and of the server keeps FdPassInv.
LEMMA FdPassStep == ASSUME FdPassInv, [FdPass_!Next]_(FdPass_!vars) PROVE FdPassInv'
<1>1. CASE UNCHANGED FdPass_!vars
  BY <1>1 DEF FdPass_!vars, FdPass_!recv, FdPassInv, FdPassBody, Between, InFlight, Asking
<1>2. ASSUME \/ FdPass_!csopen \/ FdPass_!Writev \/ FdPass_!Recvmsg \/ FdPass_!Cat
             \/ FdPass_!EndClient
      PROVE  FdPassInv'
  <2>1. ~lost' => ~lost
    BY <1>2 DEF FdPass_!csopen, FdPass_!Writev, FdPass_!Recvmsg, FdPass_!Cat, FdPass_!EndClient
  <2> QED
    BY <1>2, <2>1, ClientFdKeeps DEF FdPassInv
<1>3. ASSUME \/ FdPass_!ReadRequest \/ FdPass_!handle_request \/ FdPass_!SendStatus
             \/ FdPass_!CloseFd
      PROVE  FdPassInv'
  <2>1. lost' = lost
    BY <1>3 DEF FdPass_!ReadRequest, FdPass_!handle_request, FdPass_!SendStatus, FdPass_!CloseFd
  <2> QED
    BY <1>3, <2>1, ServerFdKeeps DEF FdPassInv
<1> QED
  BY <1>1, <1>2, <1>3 DEF FdPass_!Next

\* A client that has an answer has the one to its own request.
LEMMA FdPassHold == FdPassInv => FdPass_!AnswersMatch
BY DEF FdPassInv, FdPassBody, Between, FdPass_!AnswersMatch

-----------------------------------------------------------------------------
(* PtyCopy: where the blocks are, and what each process still has to do for  *)
(* the terminal.                                                             *)

PtyLabels == {"pty_fork", "raw", "driver", "fork", "handler", "loop", "read", "write", "after",
              "exit", "exit0", "failed", "noAtexit", "killed"}
UpTo(k) == [j \in 1 .. k |-> j]
Copy == (stdout \o buf) \o ptym

PtyInv ==
  /\ ppc \in PtyLabels
  /\ stdout \in Seq(Nat) /\ buf \in Seq(Nat) /\ ptym \in Seq(Nat) /\ nsent \in Nat
  /\ ppc # "write" => buf = <<>>
  /\ ppc # "failed" => Copy = UpTo(nsent)
  /\ ppc \in {"after", "exit", "exit0"} /\ ~sigcaught /\ ~readerr => ptym = <<>> /\ prog = "gone"
  /\ handler \in BOOLEAN /\ sigcaught \in BOOLEAN /\ readerr \in BOOLEAN
  /\ handler => ppc \in {"loop", "read", "write", "after", "exit", "exit0", "failed"}
  /\ ~handler => ppc \in {"pty_fork", "raw", "driver", "fork", "handler", "failed", "noAtexit",
                          "killed"}
  /\ sigcaught => handler /\ cpc \in {"exit", "gone"}
  /\ ppc \in {"exit", "exit0"} => cpc \in {"exit", "gone"}
  /\ tty \in {"cooked", "raw"} /\ (tty = "raw" => registered \/ ppc = "noAtexit")
  /\ ppc \in {"pty_fork", "raw", "failed", "exit0"} => tty = "cooked"
  /\ ppc = "killed" => cpc = "exit" \/ tty = "cooked"

\* What concatenation does to sequences of blocks.
LEMMA Joined ==
  \A s, p \in Seq(Nat) :
    /\ s \o p \in Seq(Nat) /\ Len(s \o p) = Len(s) + Len(p)
    /\ \A j \in 1 .. Len(s) + Len(p) : (s \o p)[j] = IF j <= Len(s) THEN s[j] ELSE p[j - Len(s)]
<1> SUFFICES ASSUME NEW s \in Seq(Nat), NEW p \in Seq(Nat)
             PROVE  /\ s \o p \in Seq(Nat) /\ Len(s \o p) = Len(s) + Len(p)
                    /\ \A j \in 1 .. Len(s) + Len(p) :
                         (s \o p)[j] = IF j <= Len(s) THEN s[j] ELSE p[j - Len(s)]
  OBVIOUS
<1> QED
  BY ConcatProperties, Zenon

\* The program starts with nothing sent.
LEMMA PtyInit == PtyCopy_!Init => PtyInv
<1> SUFFICES ASSUME PtyCopy_!Init PROVE PtyInv
  OBVIOUS
<1>1. Copy = UpTo(nsent)
  <2>1. \A s \in Seq(Nat) : s \o <<>> = s
    BY ConcatEmptySeq
  <2>2. <<>> \in Seq(Nat) /\ UpTo(0) = <<>>
    BY DEF UpTo
  <2> QED
    BY <2>1, <2>2 DEF PtyCopy_!Init, Copy
<1>2. <<>> \in Seq(Nat)
  OBVIOUS
<1> QED
  BY <1>1, <1>2 DEF PtyCopy_!Init, PtyInv, PtyLabels

\* A block that is sent is the last to come.
LEMMA SentLast ==
  ASSUME NEW s \in Seq(Nat), NEW p \in Seq(Nat), NEW k \in Nat, s \o p = UpTo(k)
  PROVE  s \o Append(p, k + 1) = UpTo(k + 1)
<1>1. Append(p, k + 1) \in Seq(Nat) /\ Len(Append(p, k + 1)) = Len(p) + 1
  OBVIOUS
<1>2. Len(s) + Len(p) = k /\ \A j \in 1 .. k : j = IF j <= Len(s) THEN s[j] ELSE p[j - Len(s)]
  <2>1. Len(s \o p) = k /\ \A j \in 1 .. k : (s \o p)[j] = j
    BY DEF UpTo
  <2> QED
    BY <2>1, Joined
<1>3. /\ s \o Append(p, k + 1) \in Seq(Nat) /\ Len(s \o Append(p, k + 1)) = k + 1
      /\ \A j \in 1 .. k + 1 : (s \o Append(p, k + 1))[j]
           = IF j <= Len(s) THEN s[j] ELSE Append(p, k + 1)[j - Len(s)]
  BY <1>1, <1>2, Joined
<1>4. ASSUME NEW j \in 1 .. k + 1 PROVE (s \o Append(p, k + 1))[j] = j
  <2>1. j <= Len(s) \/ j - Len(s) \in 1 .. Len(p) \/ (j = k + 1 /\ j - Len(s) = Len(p) + 1)
    BY <1>2
  <2> QED
    BY <1>2, <1>3, <2>1
<1>5. /\ UpTo(k + 1) \in Seq(Nat) /\ Len(UpTo(k + 1)) = k + 1
      /\ \A j \in 1 .. k + 1 : UpTo(k + 1)[j] = j
  BY DEF UpTo
<1> QED
  BY <1>3, <1>4, <1>5, SeqEqual

\* Concatenation may be regrouped.
LEMMA Regrouped == \A s, p, r \in Seq(Nat) : (s \o p) \o r = s \o (p \o r)
<1> SUFFICES ASSUME NEW s \in Seq(Nat), NEW p \in Seq(Nat), NEW r \in Seq(Nat)
             PROVE  (s \o p) \o r = s \o (p \o r)
  OBVIOUS
<1> DEFINE a == s \o p
           b == p \o r
           left == a \o r
           right == s \o b
<1>0. PICK ls \in Nat, lp \in Nat, lr \in Nat : ls = Len(s) /\ lp = Len(p) /\ lr = Len(r)
  OBVIOUS
<1>1. /\ a \in Seq(Nat) /\ Len(a) = ls + lp
      /\ \A j \in 1 .. ls + lp : a[j] = IF j <= ls THEN s[j] ELSE p[j - ls]
  BY <1>0, Joined
<1>2. /\ b \in Seq(Nat) /\ Len(b) = lp + lr
      /\ \A j \in 1 .. lp + lr : b[j] = IF j <= lp THEN p[j] ELSE r[j - lp]
  BY <1>0, Joined
<1> HIDE DEF a, b
<1>3. /\ left \in Seq(Nat) /\ Len(left) = (ls + lp) + lr
      /\ \A j \in 1 .. (ls + lp) + lr : left[j] = IF j <= ls + lp THEN a[j] ELSE r[j - (ls + lp)]
  <2>1. a \in Seq(Nat) /\ Len(a) = ls + lp
    BY <1>1
  <2>2. /\ left \in Seq(Nat) /\ Len(left) = Len(a) + Len(r)
        /\ \A j \in 1 .. Len(a) + Len(r) : left[j] = IF j <= Len(a) THEN a[j] ELSE r[j - Len(a)]
    BY <2>1, Joined
  <2> HIDE DEF left
  <2> QED
    BY <1>0, <2>1, <2>2
<1>4. /\ right \in Seq(Nat) /\ Len(right) = ls + (lp + lr)
      /\ \A j \in 1 .. ls + (lp + lr) : right[j] = IF j <= ls THEN s[j] ELSE b[j - ls]
  <2>1. b \in Seq(Nat) /\ Len(b) = lp + lr
    BY <1>2
  <2>2. /\ right \in Seq(Nat) /\ Len(right) = Len(s) + Len(b)
        /\ \A j \in 1 .. Len(s) + Len(b) : right[j] = IF j <= Len(s) THEN s[j] ELSE b[j - Len(s)]
    BY <2>1, Joined
  <2> HIDE DEF right
  <2> QED
    BY <1>0, <2>1, <2>2
<1> HIDE DEF left, right
<1>6. ASSUME NEW j \in 1 .. (ls + lp) + lr PROVE left[j] = right[j]
  <2>1. CASE j <= ls
    <3>1. j <= ls + lp /\ j \in 1 .. ls + (lp + lr) /\ j \in 1 .. ls + lp
      BY <2>1
    <3>2. left[j] = a[j] /\ right[j] = s[j]
      BY <1>3, <1>4, <2>1, <3>1
    <3>3. a[j] = s[j]
      BY <1>1, <2>1, <3>1
    <3> QED
      BY <3>2, <3>3
  <2>2. CASE ls < j /\ j <= ls + lp
    <3>1. /\ j - ls \in 1 .. lp + lr /\ j - ls <= lp /\ j \in 1 .. ls + (lp + lr)
          /\ j \in 1 .. ls + lp /\ ~(j <= ls) /\ j <= ls + lp
      BY <2>2
    <3>2. left[j] = a[j]
      BY <1>3, <3>1
    <3>3. a[j] = p[j - ls]
      BY <1>1, <3>1
    <3>4. right[j] = b[j - ls]
      BY <1>4, <3>1
    <3>5. b[j - ls] = p[j - ls]
      BY <1>2, <3>1
    <3> QED
      BY <3>2, <3>3, <3>4, <3>5
  <2>3. CASE ls + lp < j
    <3>1. j - ls \in 1 .. lp + lr /\ ~(j - ls <= lp) /\ j \in 1 .. ls + (lp + lr) /\ ~(j <= ls)
          /\ (j - ls) - lp = j - (ls + lp)
      BY <2>3
    <3>2. left[j] = r[j - (ls + lp)]
      BY <1>3, <2>3
    <3>3. right[j] = b[j - ls]
      BY <1>4, <3>1
    <3>4. b[j - ls] = r[j - (ls + lp)]
      BY <1>2, <3>1
    <3> QED
      BY <3>2, <3>3, <3>4
  <2> QED
    BY <2>1, <2>2, <2>3
<1>7. left = right
  <2>1. Len(left) = Len(right) /\ \A j \in 1 .. Len(left) : left[j] = right[j]
    BY <1>3, <1>4, <1>6
  <2> QED
    BY <1>3, <1>4, <2>1, SeqEqual
<1> QED
  BY <1>7 DEF a, b, left, right

\* The two parts of a sequence.
LEMMA Parted ==
  ASSUME NEW s \in Seq(Nat), NEW k \in 1 .. Len(s)
  PROVE  /\ SubSeq(s, 1, k) \in Seq(Nat) /\ SubSeq(s, k + 1, Len(s)) \in Seq(Nat)
         /\ SubSeq(s, 1, k) \o SubSeq(s, k + 1, Len(s)) = s
<1>1. \A j \in 1 .. Len(s) : s[j] \in Nat
  OBVIOUS
<1>2. SubSeq(s, 1, k) \in Seq(Nat) /\ SubSeq(s, k + 1, Len(s)) \in Seq(Nat)
  BY <1>1, SubSeqProperties
<1>3. 1 \in 1 .. Len(s) + 1 /\ k \in 1 - 1 .. Len(s) /\ Len(s) \in k .. Len(s)
  OBVIOUS
<1>4. SubSeq(s, 1, k) \o SubSeq(s, k + 1, Len(s)) = SubSeq(s, 1, Len(s))
  BY <1>3, ConcatAdjacentSubSeq, Zenon
<1>5. SubSeq(s, 1, Len(s)) = s
  BY SubSeqFull, Zenon
<1>6. SubSeq(s, 1, k) \o SubSeq(s, k + 1, Len(s)) = s
  BY <1>4, <1>5, Zenon
<1> QED
  BY <1>2, <1>6, Zenon

\* The steps that move no block.
LEMMA TerminalGoesOn ==
  ASSUME PtyInv,
         \/ PtyCopy_!PtyFork \/ PtyCopy_!TtyRaw \/ PtyCopy_!DoDriver \/ PtyCopy_!Fork
         \/ PtyCopy_!signal_intr \/ PtyCopy_!CallRead \/ PtyCopy_!KillChild \/ PtyCopy_!ExitParent
  PROVE  PtyInv'
<1>1. CASE PtyCopy_!PtyFork
  BY <1>1 DEF PtyInv, PtyLabels, Copy, PtyCopy_!PtyFork, PtyCopy_!Goto, PtyCopy_!Exit,
      PtyCopy_!slave
<1>2. CASE PtyCopy_!TtyRaw
  BY <1>2 DEF PtyInv, PtyLabels, Copy, PtyCopy_!TtyRaw, PtyCopy_!Goto, PtyCopy_!Exit,
      PtyCopy_!slave
<1>3. CASE PtyCopy_!DoDriver
  BY <1>3 DEF PtyInv, PtyLabels, Copy, PtyCopy_!DoDriver, PtyCopy_!Goto, PtyCopy_!Exit,
      PtyCopy_!slave
<1>4. CASE PtyCopy_!Fork
  BY <1>4 DEF PtyInv, PtyLabels, Copy, PtyCopy_!Fork, PtyCopy_!Goto, PtyCopy_!Exit, PtyCopy_!slave
<1>5. CASE PtyCopy_!signal_intr
  BY <1>5 DEF PtyInv, PtyLabels, Copy, PtyCopy_!signal_intr, PtyCopy_!Goto, PtyCopy_!Exit,
      PtyCopy_!slave
<1>6. CASE PtyCopy_!CallRead
  BY <1>6 DEF PtyInv, PtyLabels, Copy, PtyCopy_!CallRead, PtyCopy_!Goto, PtyCopy_!Exit,
      PtyCopy_!slave
<1>7. CASE PtyCopy_!KillChild
  BY <1>7 DEF PtyInv, PtyLabels, Copy, PtyCopy_!KillChild, PtyCopy_!Goto, PtyCopy_!Exit,
      PtyCopy_!slave
<1>8. CASE PtyCopy_!ExitParent
  BY <1>8 DEF PtyInv, PtyLabels, Copy, PtyCopy_!ExitParent, PtyCopy_!Goto, PtyCopy_!Exit,
      PtyCopy_!slave
<1> QED
  BY <1>1, <1>2, <1>3, <1>4, <1>5, <1>6, <1>7, <1>8

\* The steps of the child and of the line discipline that move no byte to the master.
LEMMA SlaveGoesOn ==
  ASSUME PtyInv, \/ PtyCopy_!ReadStdin \/ PtyCopy_!KillParent \/ PtyCopy_!ExitChild
    \/ PtyCopy_!set_noecho
  PROVE  PtyInv'
<1>1. CASE PtyCopy_!ReadStdin
  BY <1>1 DEF PtyInv, PtyLabels, Copy, PtyCopy_!ReadStdin, PtyCopy_!Goto, PtyCopy_!Exit,
      PtyCopy_!slave,
              PtyCopy_!parent, PtyCopy_!Alive
<1>2. CASE PtyCopy_!KillParent
  BY <1>2 DEF PtyInv, PtyLabels, Copy, PtyCopy_!KillParent, PtyCopy_!Goto, PtyCopy_!Exit,
      PtyCopy_!slave,
              PtyCopy_!parent, PtyCopy_!Alive
<1>3. CASE PtyCopy_!ExitChild
  BY <1>3 DEF PtyInv, PtyLabels, Copy, PtyCopy_!ExitChild, PtyCopy_!Goto, PtyCopy_!Exit,
      PtyCopy_!slave,
              PtyCopy_!parent, PtyCopy_!Alive
<1>4. CASE PtyCopy_!set_noecho
  BY <1>4 DEF PtyInv, PtyLabels, Copy, PtyCopy_!set_noecho, PtyCopy_!Goto, PtyCopy_!Exit,
      PtyCopy_!slave,
              PtyCopy_!parent, PtyCopy_!Alive
<1> QED
  BY <1>1, <1>2, <1>3, <1>4

\* The slave's output, and its echo.
LEMMA SendsKeeps ==
  ASSUME PtyInv, PtyCopy_!Sends, UNCHANGED <<ppc, stdout, buf, handler, sigcaught, readerr, tty,
    registered>>,
         prog # "gone", prog' = prog, cpc' = cpc \/ (cpc = "write" /\ cpc' \in {"read", "exit"})
  PROVE  PtyInv'
<1>1. stdout \o buf \in Seq(Nat) /\ ptym' \in Seq(Nat) /\ nsent' \in Nat
  BY Joined DEF PtyInv, PtyCopy_!Sends
<1>2. ppc # "failed" => Copy' = UpTo(nsent')
  <2>1. /\ ptym' = Append(ptym, nsent + 1) /\ nsent' = nsent + 1
        /\ ptym \in Seq(Nat) /\ nsent \in Nat /\ Copy' = (stdout \o buf) \o ptym'
    BY DEF PtyInv, Copy, PtyCopy_!Sends
  <2>2. ppc # "failed" => (stdout \o buf) \o ptym = UpTo(nsent)
    BY DEF PtyInv, Copy
  <2> DEFINE s == stdout \o buf
  <2> HIDE DEF s
  <2>3. s \in Seq(Nat) /\ (ppc # "failed" => s \o ptym = UpTo(nsent))
    BY <1>1, <2>2 DEF s
  <2>4. ppc # "failed" => s \o Append(ptym, nsent + 1) = UpTo(nsent + 1)
    BY <2>1, <2>3, SentLast
  <2> QED
    BY <2>1, <2>4 DEF s
<1> QED
  BY <1>1, <1>2 DEF PtyInv

\* The child of loop() writes what it read to the master.
LEMMA WriteMasterKeeps == ASSUME PtyInv, PtyCopy_!WriteMaster PROVE PtyInv'
<1>1. /\ cpc = "write" /\ cpc' \in {"read", "exit"}
      /\ UNCHANGED <<ppc, stdout, buf, handler, sigcaught, prog, tty, registered, readerr>>
      /\ (prog # "gone" /\ PtyCopy_!Sends) \/ UNCHANGED <<nsent, ptym>>
  BY DEF PtyCopy_!WriteMaster, PtyCopy_!parent
<1>2. CASE prog # "gone" /\ PtyCopy_!Sends
  BY <1>1, <1>2, SendsKeeps
<1>3. CASE UNCHANGED <<nsent, ptym>>
  BY <1>1, <1>3 DEF PtyInv, Copy
<1> QED
  BY <1>1, <1>2, <1>3

\* The program on the slave writes a byte.
LEMMA OutputKeeps == ASSUME PtyInv, PtyCopy_!Output PROVE PtyInv'
<1>1. /\ UNCHANGED <<ppc, cpc, stdout, buf, handler, sigcaught, tty, registered, readerr>>
      /\ prog = "runs"
      /\ (prog' = prog /\ PtyCopy_!Sends) \/ (prog' = "gone" /\ UNCHANGED <<nsent, ptym>>)
  BY DEF PtyCopy_!Output, PtyCopy_!parent
<1>2. CASE prog' = prog /\ PtyCopy_!Sends
  BY <1>1, <1>2, SendsKeeps
<1>3. CASE prog' = "gone" /\ UNCHANGED <<nsent, ptym>>
  BY <1>1, <1>3 DEF PtyInv, Copy
<1> QED
  BY <1>1, <1>2, <1>3

\* What is read from the master goes to the buffer, and from there to stdout.
LEMMA ReadMasterKeeps == ASSUME PtyInv, PtyCopy_!ReadMaster PROVE PtyInv'
<1>1. /\ ppc = "read" /\ UNCHANGED <<cpc, stdout, handler, sigcaught, prog, nsent, tty,
           registered>>
      /\ buf = <<>>
  BY DEF PtyInv, PtyCopy_!ReadMaster
<1>2. ASSUME NEW k \in 1 .. Len(ptym), buf' = SubSeq(ptym, 1, k),
             ptym' = SubSeq(ptym, k + 1, Len(ptym)), ppc' = "write", UNCHANGED readerr
      PROVE  PtyInv'
  <2>1. stdout \in Seq(Nat) /\ ptym \in Seq(Nat)
    BY DEF PtyInv
  <2>2. buf' \in Seq(Nat) /\ ptym' \in Seq(Nat) /\ buf' \o ptym' = ptym
    BY <1>2, <2>1, Parted
  <2>3. stdout \o <<>> = stdout
    BY <2>1, ConcatEmptySeq
  <2>4. (stdout \o buf') \o ptym' = stdout \o (buf' \o ptym')
    <3>1. \A p, r \in Seq(Nat) : (stdout \o p) \o r = stdout \o (p \o r)
      BY <2>1, Regrouped
    <3>2. buf' \in Seq(Nat) /\ ptym' \in Seq(Nat)
      BY <2>2
    <3> QED
      BY <3>1, <3>2
  <2>5. Copy' = Copy
    BY <1>1, <2>2, <2>3, <2>4 DEF Copy
  <2> QED
    BY <1>1, <1>2, <2>1, <2>2, <2>5 DEF PtyInv, PtyLabels
<1>3. ASSUME ptym = <<>>, prog = "gone", ppc' = "after", UNCHANGED <<buf, ptym, readerr>>
      PROVE  PtyInv'
  BY <1>1, <1>3 DEF PtyInv, Copy, PtyLabels
<1>4. ASSUME ppc' = "after", readerr', UNCHANGED <<buf, ptym>> PROVE PtyInv'
  BY <1>1, <1>4 DEF PtyInv, Copy, PtyLabels
<1> QED
  BY <1>2, <1>3, <1>4 DEF PtyCopy_!ReadMaster, PtyCopy_!Goto

\* The parent of loop() writes what it read to the standard output.
LEMMA WriteStdoutKeeps == ASSUME PtyInv, PtyCopy_!WriteStdout PROVE PtyInv'
<1>1. /\ ppc = "write"
      /\ UNCHANGED <<cpc, handler, sigcaught, readerr, prog, nsent, ptym, registered>>
      /\ buf' = <<>> /\ stdout \in Seq(Nat) /\ buf \in Seq(Nat) /\ handler
  BY DEF PtyInv, PtyCopy_!WriteStdout, PtyCopy_!slave
<1>2. ASSUME ppc' = "loop", stdout' = stdout \o buf, UNCHANGED tty PROVE PtyInv'
  <2>1. stdout' \in Seq(Nat) /\ stdout' \o <<>> = stdout'
    BY <1>1, <1>2, Joined, ConcatEmptySeq
  <2>2. Copy' = Copy
    BY <1>1, <1>2, <2>1 DEF Copy
  <2> QED
    BY <1>1, <1>2, <2>1, <2>2 DEF PtyInv, PtyLabels
<1>3. ASSUME ppc' = "failed", PtyCopy_!Exit, UNCHANGED stdout PROVE PtyInv'
  BY <1>1, <1>3 DEF PtyInv, PtyLabels, PtyCopy_!Exit
<1> QED
  BY <1>2, <1>3 DEF PtyCopy_!WriteStdout, PtyCopy_!Goto

\* Each step of the pty program keeps PtyInv.
LEMMA PtyStep == ASSUME PtyInv, [PtyCopy_!Next]_(PtyCopy_!vars) PROVE PtyInv'
<1>1. CASE UNCHANGED PtyCopy_!vars
  BY <1>1 DEF PtyCopy_!vars, PtyCopy_!parent, PtyCopy_!slave, PtyInv, Copy
<1>2. CASE PtyCopy_!Next
  BY <1>2, TerminalGoesOn, SlaveGoesOn, WriteMasterKeeps, OutputKeeps, ReadMasterKeeps,
     WriteStdoutKeeps DEF PtyCopy_!Next
<1> QED
  BY <1>1, <1>2

\* PtyInv has what CopiedInOrder and TerminalFreed ask for.
LEMMA PtyHold == PtyInv => PtyCopy_!CopiedInOrder /\ PtyCopy_!TerminalFreed
<1> SUFFICES ASSUME PtyInv PROVE PtyCopy_!CopiedInOrder /\ PtyCopy_!TerminalFreed
  OBVIOUS
<1>1. stdout \o buf \o ptym = Copy
  BY DEF Copy
<1>2. PtyCopy_!CopiedInOrder
  BY <1>1 DEF PtyInv, UpTo, PtyCopy_!CopiedInOrder
<1>3. PtyCopy_!TerminalFreed
  BY DEF PtyInv, PtyCopy_!TerminalFreed, PtyCopy_!Ended, PtyCopy_!Alive
<1> QED
  BY <1>2, <1>3

-----------------------------------------------------------------------------
(* AioCopy: what a buffer with an operation has to do with its block of the  *)
(* two files, and that every block read so far is written or in a buffer.    *)

Busy == {b \in 1 .. NBUF : AioCopy_!Pending(b)}
Rot(c) == AioCopy_!translate(c)
Turned(k) == infile[k] # 0 => outfile[k] = Rot(infile[k])

\* a buffer at work: its block, and its data once that is there
BufferFits(b) ==
  bufs[b].op # "UNUSED" =>
    /\ bufs[b].block \in 1 .. off
    /\ \/ bufs[b].op = "READ_PENDING"
       \/ bufs[b].op = "WRITE_PENDING"
    /\ bufs[b].result # "none"
    /\ bufs[b].op = "READ_PENDING" /\ bufs[b].result \in {"ok", "short"}
         /\ infile[bufs[b].block] # 0 => bufs[b].data = infile[bufs[b].block]
    /\ bufs[b].op = "WRITE_PENDING" /\ infile[bufs[b].block] # 0
         => bufs[b].data = Rot(infile[bufs[b].block])
    /\ bufs[b].op = "WRITE_PENDING" /\ bufs[b].result = "ok"
         => outfile[bufs[b].block] = bufs[b].data

Buffer == [op : {"UNUSED", "READ_PENDING", "WRITE_PENDING"}, block : Nat, data : Nat,
           result : {"none", "INPROGRESS", "ok", "short", "error"}, last : BOOLEAN]
AioTypes ==
  /\ i \in 1 .. NBUF /\ off \in 0 .. Size
  /\ infile \in [1 .. Size -> Nat] /\ DOMAIN outfile = 1 .. Size
  /\ bufs \in [1 .. NBUF -> Buffer]

BlocksApart ==
  \A b, c \in 1 .. NBUF :
    bufs[b].op # "UNUSED" /\ bufs[c].op # "UNUSED" /\ bufs[b].block = bufs[c].block => b = c

AioInv ==
  /\ AioTypes
  /\ numop = Cardinality(Busy) /\ IsFiniteSet(Busy)
  /\ BlocksApart
  /\ \A b \in 1 .. NBUF : BufferFits(b)
  /\ \A k \in 1 .. Size : outfile[k] # 0 => Turned(k)
  /\ \A k \in 1 .. off : Turned(k) \/ \E b \in 1 .. NBUF : bufs[b].op # "UNUSED"
       /\ bufs[b].block = k
  /\ prog = "rot13c2" /\ pc \in {"fsync", "exit0"} => numop = 0 /\ off = Size

\* The translation of a byte is a byte.
LEMMA RotType == \A c \in Nat : Rot(c) \in Nat
BY DEF Rot, AioCopy_!translate, AioCopy_!isalpha

\* Twice rot13 is nothing.
LEMMA RotTwice == \A c \in Nat : Rot(Rot(c)) = c
BY DEF Rot, AioCopy_!translate, AioCopy_!isalpha

\* All buffers are unused in the beginning.
LEMMA AioInit == AioCopy_!Init => AioInv
<1> SUFFICES ASSUME AioCopy_!Init PROVE AioInv
  OBVIOUS
<1>1. AioTypes
  <2>1. bufs \in [1 .. NBUF -> Buffer]
    BY DEF AioCopy_!Init, Buffer
  <2>2. infile \in [1 .. Size -> Nat] /\ DOMAIN outfile = 1 .. Size
    BY AioAssumption DEF AioCopy_!Init
  <2>3. i \in 1 .. NBUF /\ off \in 0 .. Size
    BY AioAssumption DEF AioCopy_!Init
  <2> QED
    BY <2>1, <2>2, <2>3 DEF AioTypes
<1>2. Busy = {}
  BY DEF AioCopy_!Init, Busy, AioCopy_!Pending
<1>3. Cardinality(Busy) = 0 /\ IsFiniteSet(Busy)
  BY <1>2, FS_EmptySet
<1> QED
  BY <1>1, <1>3 DEF AioCopy_!Init, AioInv, BlocksApart, BufferFits, Turned

\* A step that leaves the files, the buffers and their count alone.
LEMMA ControlKeeps ==
  ASSUME AioInv, UNCHANGED <<prog, infile, outfile, off, numop, bufs>>, i' \in 1 .. NBUF,
         prog = "rot13c2" /\ pc' \in {"fsync", "exit0"} /\ pc' # pc
           => (numop = 0 /\ off = Size) \/ pc = "fsync"
  PROVE  AioInv'
<1>1. UNCHANGED Busy /\ BlocksApart' /\ \A b \in 1 .. NBUF : BufferFits(b)'
  BY DEF AioInv, BlocksApart, BufferFits, Busy, AioCopy_!Pending
<1> QED
  BY <1>1 DEF AioInv, AioTypes, Turned

\* The loop over the buffers stays within them.
LEMMA NextBufKeeps == ASSUME i \in 1 .. NBUF, AioCopy_!NextBuf PROVE i' \in 1 .. NBUF
  /\ pc' \in {pc, "scanned"}
BY AioAssumption DEF AioCopy_!NextBuf

\* The steps that only look at a buffer.
LEMMA LookKeeps ==
  ASSUME AioInv, AioCopy_!InProgress \/ AioCopy_!EndScan \/ AioCopy_!EndScan21 \/ AioCopy_!Resume
    \/ AioCopy_!Fsync
  PROVE  AioInv'
<1>0. i \in 1 .. NBUF /\ off \in 0 .. Size /\ Size \in Nat
  BY AioAssumption DEF AioInv, AioTypes
<1>1. CASE AioCopy_!InProgress
  BY <1>0, <1>1, NextBufKeeps, ControlKeeps DEF AioCopy_!InProgress
<1>2. CASE AioCopy_!EndScan
  BY <1>0, <1>2, ControlKeeps DEF AioCopy_!EndScan
<1>3. CASE AioCopy_!EndScan21
  BY <1>0, <1>3, ControlKeeps DEF AioCopy_!EndScan21
<1>4. CASE AioCopy_!Resume
  BY <1>0, <1>4, ControlKeeps DEF AioCopy_!Resume
<1>5. CASE AioCopy_!Fsync
  BY <1>0, <1>5, ControlKeeps DEF AioCopy_!Fsync
<1> QED
  BY <1>1, <1>2, <1>3, <1>4, <1>5

\* An error ends the program.
LEMMA FailKeeps == ASSUME AioInv, UNCHANGED <<prog, infile, outfile>>, AioCopy_!Fail PROVE AioInv'
BY ControlKeeps DEF AioInv, AioTypes, AioCopy_!Fail

\* A block is read into a buffer that was not used.
LEMMA ReadBegins ==
  ASSUME AioInv, NEW r \in Buffer, off < Size, bufs[i].op = "UNUSED",
         r.op = "READ_PENDING", r.block = off + 1, r.result = "INPROGRESS",
         bufs' = [bufs EXCEPT ![i] = r], off' = off + 1, numop' = numop + 1, pc = "scan",
         AioCopy_!NextBuf, UNCHANGED <<prog, infile, outfile>>
  PROVE  AioInv'
<1>1. /\ i \in 1 .. NBUF /\ bufs' \in [1 .. NBUF -> Buffer] /\ bufs'[i] = r
      /\ \A c \in 1 .. NBUF : c # i => bufs'[c] = bufs[c]
  BY DEF AioInv, AioTypes
<1>2. i' \in 1 .. NBUF /\ pc' \notin {"fsync", "exit0"} /\ off \in 0 .. Size /\ off' \in 0 .. Size
  BY <1>1, NextBufKeeps, AioAssumption DEF AioInv, AioTypes
<1>3. numop' = Cardinality(Busy') /\ IsFiniteSet(Busy')
  <2>1. Busy' = Busy \cup {i} /\ i \notin Busy
    BY <1>1 DEF Busy, AioCopy_!Pending
  <2>2. IsFiniteSet(Busy) /\ numop = Cardinality(Busy)
    BY DEF AioInv
  <2>3. Cardinality(Busy \cup {i}) = Cardinality(Busy) + 1 /\ IsFiniteSet(Busy \cup {i})
    BY <2>1, <2>2, FS_AddElement
  <2> QED
    BY <2>1, <2>2, <2>3
<1>4. BlocksApart'
  <2>1. ASSUME NEW c \in 1 .. NBUF, c # i, bufs[c].op # "UNUSED" PROVE bufs[c].block # off + 1
    BY <1>2, <2>1, AioAssumption DEF AioInv, BufferFits
  <2> QED
    BY <1>1, <2>1 DEF AioInv, BlocksApart
<1>5. ASSUME NEW c \in 1 .. NBUF PROVE BufferFits(c)'
  BY <1>1, <1>2, AioAssumption DEF AioInv, BufferFits
<1>6. ASSUME NEW k \in 1 .. off'
      PROVE  Turned(k)' \/ \E b \in 1 .. NBUF : bufs'[b].op # "UNUSED" /\ bufs'[b].block = k
  <2>1. CASE k = off + 1
    BY <1>1, <2>1
  <2>2. CASE k # off + 1
    <3>1. k \in 1 .. off
      BY <1>2, <2>2, AioAssumption
    <3>2. CASE Turned(k)
      BY <3>2 DEF Turned
    <3>3. ASSUME NEW b \in 1 .. NBUF, bufs[b].op # "UNUSED", bufs[b].block = k
          PROVE  bufs'[b].op # "UNUSED" /\ bufs'[b].block = k
      BY <1>1, <3>3
    <3> QED
      BY <3>1, <3>2, <3>3 DEF AioInv
  <2> QED
    BY <2>1, <2>2
<1> QED
  BY <1>1, <1>2, <1>3, <1>4, <1>5, <1>6 DEF AioInv, AioTypes, Turned

\* A buffer goes on with its block.
LEMMA BufferGoesOn ==
  ASSUME AioInv, NEW b \in 1 .. NBUF, NEW r \in Buffer, bufs[b].op # "UNUSED", r.op # "UNUSED",
         r.block = bufs[b].block, bufs' = [bufs EXCEPT ![b] = r], BufferFits(b)',
         UNCHANGED <<prog, infile, off, numop>>, i' \in 1 .. NBUF,
         pc' = pc \/ pc' \notin {"fsync", "exit0"}, DOMAIN outfile' = 1 .. Size,
         \A k \in 1 .. Size : k # r.block => outfile'[k] = outfile[k],
         outfile'[r.block] # 0 => Turned(r.block)'
  PROVE  AioInv'
<1>1. /\ bufs' \in [1 .. NBUF -> Buffer] /\ bufs'[b] = r
      /\ \A c \in 1 .. NBUF : c # b => bufs'[c] = bufs[c]
  BY DEF AioInv, AioTypes
<1>2. Busy' = Busy /\ \A c \in 1 .. NBUF : bufs'[c].op # "UNUSED" <=> bufs[c].op # "UNUSED"
  BY <1>1 DEF Busy, AioCopy_!Pending
<1>3. BlocksApart'
  BY <1>1 DEF AioInv, BlocksApart
<1>4. off \in 0 .. Size /\ Size \in Nat
  BY AioAssumption DEF AioInv, AioTypes
<1>5. ASSUME NEW c \in 1 .. NBUF, c # b, bufs[c].op # "UNUSED"
      PROVE  bufs[c].block \in 1 .. Size /\ bufs[c].block # r.block
  BY <1>4, <1>5 DEF AioInv, BufferFits, BlocksApart
<1>6. ASSUME NEW c \in 1 .. NBUF PROVE BufferFits(c)'
  <2>1. CASE c = b
    BY <2>1
  <2>2. CASE c # b /\ bufs[c].op # "UNUSED"
    <3>1. bufs'[c] = bufs[c] /\ BufferFits(c) /\ outfile'[bufs[c].block] = outfile[bufs[c].block]
      BY <1>1, <1>5, <2>2 DEF AioInv
    <3> QED
      BY <3>1 DEF BufferFits
  <2>3. CASE c # b /\ bufs[c].op = "UNUSED"
    BY <1>1, <2>3 DEF BufferFits
  <2> QED
    BY <2>1, <2>2, <2>3
<1>7. ASSUME NEW k \in 1 .. off
      PROVE  Turned(k)' \/ \E c \in 1 .. NBUF : bufs'[c].op # "UNUSED" /\ bufs'[c].block = k
  <2>1. CASE k = r.block
    BY <1>1, <2>1
  <2>2. CASE k # r.block /\ Turned(k)
    BY <1>4, <2>2 DEF Turned
  <2>3. ASSUME NEW c \in 1 .. NBUF, bufs[c].op # "UNUSED", bufs[c].block = k
        PROVE  bufs'[c].op # "UNUSED" /\ bufs'[c].block = k
    BY <1>1, <2>3
  <2> QED
    BY <2>1, <2>2, <2>3 DEF AioInv
<1>8. ASSUME NEW k \in 1 .. Size, outfile'[k] # 0 PROVE Turned(k)'
  <2>1. CASE k = r.block
    BY <1>8, <2>1
  <2>2. CASE k # r.block
    BY <1>8, <2>2 DEF AioInv, Turned
  <2> QED
    BY <2>1, <2>2
<1>9. prog' = "rot13c2" /\ pc' \in {"fsync", "exit0"} => numop' = 0 /\ off' = Size
  BY DEF AioInv
<1>10. AioTypes'
  BY <1>1 DEF AioInv, AioTypes
<1> QED
  BY <1>2, <1>3, <1>6, <1>7, <1>8, <1>9, <1>10 DEF AioInv

\* aio_read is called for the next block.
LEMMA StartReadKeeps == ASSUME AioInv, AioCopy_!StartRead PROVE AioInv'
<1> DEFINE r == [op |-> "READ_PENDING", block |-> off + 1, data |-> 0, result |-> "INPROGRESS",
                 last |-> bufs[i].last \/ off + 1 >= Size]
<1>1. /\ UNCHANGED <<prog, infile, outfile>> /\ pc = "scan" /\ bufs[i].op = "UNUSED"
      /\ \/ /\ off < Size /\ bufs' = [bufs EXCEPT ![i] = r] /\ off' = off + 1
            /\ numop' = numop + 1 /\ AioCopy_!NextBuf
         \/ AioCopy_!Fail
         \/ AioCopy_!NextBuf /\ UNCHANGED <<off, numop, bufs>>
  BY DEF AioCopy_!StartRead, AioCopy_!At
<1>2. r \in Buffer
  <2>1. off + 1 \in Nat /\ bufs[i].last \in BOOLEAN
    BY AioAssumption DEF AioInv, AioTypes, Buffer
  <2> QED
    BY <2>1 DEF Buffer
<1>3. r.op = "READ_PENDING" /\ r.block = off + 1 /\ r.result = "INPROGRESS"
  OBVIOUS
<1> HIDE DEF r
<1>4. CASE AioCopy_!NextBuf /\ UNCHANGED <<off, numop, bufs>>
  <2>1. i' \in 1 .. NBUF /\ pc' \in {pc, "scanned"}
    BY <1>4, NextBufKeeps DEF AioInv, AioTypes
  <2> QED
    BY <1>1, <1>4, <2>1, ControlKeeps
<1> QED
  BY <1>1, <1>2, <1>3, <1>4, ReadBegins, FailKeeps

\* The block was read: it is translated and aio_write called.
LEMMA StartWriteKeeps == ASSUME AioInv, AioCopy_!StartWrite PROVE AioInv'
<1>0. PICK j \in 1 .. NBUF : j = i
  BY DEF AioInv, AioTypes
<1> DEFINE r == [bufs[j] EXCEPT !.op = "WRITE_PENDING", !.data = Rot(bufs[j].data),
      !.result = "INPROGRESS"]
<1>1. UNCHANGED <<prog, infile, outfile>> /\ bufs[j].op = "READ_PENDING"
  BY <1>0 DEF AioCopy_!StartWrite, AioCopy_!At
<1>2. /\ bufs[j] \in Buffer /\ BufferFits(j) /\ off \in 0 .. Size
      /\ bufs \in [1 .. NBUF -> Buffer] /\ DOMAIN outfile = 1 .. Size
  BY DEF AioInv, AioTypes
<1>3. r \in Buffer /\ r.op = "WRITE_PENDING" /\ r.block = bufs[j].block
        /\ r.data = Rot(bufs[j].data)
      /\ r.result = "INPROGRESS"
  BY <1>2, RotType DEF Buffer
<1>4. \/ AioCopy_!Fail
      \/ /\ AioCopy_!NextBuf /\ UNCHANGED <<off, numop>> /\ bufs[j].result \in {"ok", "short"}
         /\ bufs' = [bufs EXCEPT ![j] = r]
  <2>1. bufs[j].result \in {"INPROGRESS", "ok", "short", "error"}
    BY <1>1, <1>2 DEF Buffer, BufferFits
  <2>2. [bufs EXCEPT ![i].op = "WRITE_PENDING", ![i].data = AioCopy_!translate(@),
          ![i].result = "INPROGRESS"]
          = [bufs EXCEPT ![j] = r]
    BY <1>0, <1>2 DEF Buffer, Rot
  <2> HIDE DEF r
  <2> QED
    BY <1>0, <2>1, <2>2 DEF AioCopy_!StartWrite
<1> HIDE DEF r
<1>6. PICK q \in Buffer : q = r
  BY <1>3
<1>5. ASSUME AioCopy_!NextBuf, UNCHANGED <<off, numop>>, bufs' = [bufs EXCEPT ![j] = q],
             bufs[j].result \in {"ok", "short"}
      PROVE  AioInv'
  <2>1. i' \in 1 .. NBUF /\ pc' \in {pc, "scanned"}
    BY <1>0, <1>5, NextBufKeeps
  <2>2. bufs'[j] = q
    BY <1>2, <1>5
  <2>3. BufferFits(j)'
    BY <1>1, <1>2, <1>3, <1>5, <1>6, <2>2 DEF BufferFits
  <2>4. bufs[j].block \in 1 .. Size
    BY <1>1, <1>2, AioAssumption DEF BufferFits
  <2>5. outfile'[q.block] # 0 => Turned(q.block)'
    BY <1>1, <1>3, <1>6, <2>4 DEF AioInv, Turned
  <2> QED
    BY <1>1, <1>2, <1>3, <1>5, <1>6, <2>1, <2>3, <2>5, BufferGoesOn
<1> QED
  BY <1>1, <1>4, <1>5, <1>6, FailKeeps

\* A block is written and its buffer is free again.
LEMMA EndWriteKeeps == ASSUME AioInv, AioCopy_!EndWrite PROVE AioInv'
<1>0. PICK j \in 1 .. NBUF : j = i
  BY DEF AioInv, AioTypes
<1>1. /\ UNCHANGED <<prog, infile, outfile>> /\ bufs[j].op = "WRITE_PENDING"
      /\ pc = "scan" /\ bufs[j].result # "INPROGRESS"
  BY <1>0 DEF AioCopy_!EndWrite, AioCopy_!At
<1>2. /\ bufs[j] \in Buffer /\ BufferFits(j) /\ off \in 0 .. Size /\ bufs \in [1 .. NBUF -> Buffer]
  BY DEF AioInv, AioTypes
<1>3. ASSUME bufs[j].result = "ok", bufs' = [bufs EXCEPT ![i].op = "UNUSED"], numop' = numop - 1,
             AioCopy_!NextBuf, UNCHANGED off
      PROVE  AioInv'
  <2>1. i' \in 1 .. NBUF /\ pc' \notin {"fsync", "exit0"}
    BY <1>0, <1>1, <1>3, NextBufKeeps
  <2>2. PICK q \in Buffer : q.op = "UNUSED" /\ bufs' = [bufs EXCEPT ![j] = q]
    BY <1>0, <1>2, <1>3 DEF Buffer
  <2>3. /\ bufs' \in [1 .. NBUF -> Buffer] /\ bufs'[j] = q
        /\ \A c \in 1 .. NBUF : c # j => bufs'[c] = bufs[c]
    BY <1>2, <2>2
  <2>4. numop' = Cardinality(Busy') /\ IsFiniteSet(Busy')
    <3>1. Busy' = Busy \ {j} /\ j \in Busy
      BY <1>1, <2>2, <2>3 DEF Busy, AioCopy_!Pending
    <3>2. IsFiniteSet(Busy) /\ numop = Cardinality(Busy)
      BY DEF AioInv
    <3>3. Cardinality(Busy \ {j}) = Cardinality(Busy) - 1 /\ IsFiniteSet(Busy \ {j})
      BY <3>1, <3>2, FS_RemoveElement
    <3> QED
      BY <1>3, <3>1, <3>2, <3>3
  <2>5. BlocksApart' /\ \A c \in 1 .. NBUF : BufferFits(c)'
    BY <1>1, <1>3, <2>2, <2>3 DEF AioInv, BlocksApart, BufferFits
  <2>6. Turned(bufs[j].block)
    BY <1>1, <1>2, <1>3 DEF BufferFits, Turned
  <2>7. ASSUME NEW k \in 1 .. off
        PROVE  Turned(k)' \/ \E c \in 1 .. NBUF : bufs'[c].op # "UNUSED" /\ bufs'[c].block = k
    <3>1. CASE Turned(k)
      BY <1>1, <3>1 DEF Turned
    <3>2. ASSUME NEW c \in 1 .. NBUF, bufs[c].op # "UNUSED", bufs[c].block = k, ~Turned(k)
          PROVE  bufs'[c].op # "UNUSED" /\ bufs'[c].block = k
      <4>1. c # j
        BY <2>6, <3>2
      <4> QED
        BY <2>3, <3>2, <4>1
    <3> QED
      BY <3>1, <3>2 DEF AioInv
  <2>8. \A k \in 1 .. Size : outfile'[k] # 0 => Turned(k)'
    BY <1>1 DEF AioInv, Turned
  <2>9. AioTypes'
    BY <1>1, <1>3, <2>1, <2>3 DEF AioInv, AioTypes
  <2> QED
    BY <1>3, <2>1, <2>4, <2>5, <2>7, <2>8, <2>9 DEF AioInv
<1> QED
  BY <1>0, <1>1, <1>3, FailKeeps DEF AioCopy_!EndWrite

\* The system completes the operation of a buffer.
LEMMA CompleteKeeps == ASSUME AioInv, NEW b \in 1 .. NBUF, AioCopy_!Complete(b) PROVE AioInv'
<1>1. /\ UNCHANGED <<prog, infile, pc, i, off, numop>> /\ bufs[b].op # "UNUSED"
      /\ bufs[b].result = "INPROGRESS"
  BY DEF AioCopy_!Complete, AioCopy_!Pending
<1>2. /\ bufs[b] \in Buffer /\ BufferFits(b) /\ off \in 0 .. Size /\ bufs \in [1 .. NBUF -> Buffer]
      /\ DOMAIN outfile = 1 .. Size /\ infile \in [1 .. Size -> Nat] /\ i \in 1 .. NBUF
  BY DEF AioInv, AioTypes
<1>3. bufs[b].block \in 1 .. Size /\ infile[bufs[b].block] \in Nat
  BY <1>1, <1>2, AioAssumption DEF BufferFits
<1>4. \A k \in 1 .. Size : outfile[k] # 0 => Turned(k)
  BY DEF AioInv
<1>5. ASSUME bufs[b].op = "READ_PENDING", UNCHANGED outfile,
             bufs' = [bufs EXCEPT ![b].data = infile[bufs[b].block],
                   ![b].result = IF infile[bufs[b].block] = 0 THEN "short" ELSE "ok"]
      PROVE  AioInv'
  <2>1. PICK q \in Buffer : /\ q.op = "READ_PENDING" /\ q.block = bufs[b].block
                            /\ q.data = infile[bufs[b].block] /\ q.result # "none"
                            /\ bufs' = [bufs EXCEPT ![b] = q]
    <3> DEFINE q == [bufs[b] EXCEPT !.data = infile[bufs[b].block],
                                    !.result = IF infile[bufs[b].block] = 0 THEN "short" ELSE "ok"]
    <3>1. q \in Buffer /\ q.op = "READ_PENDING" /\ q.block = bufs[b].block
          /\ q.data = infile[bufs[b].block] /\ q.result # "none"
      BY <1>2, <1>3, <1>5 DEF Buffer
    <3>2. bufs' = [bufs EXCEPT ![b] = q]
      BY <1>2, <1>5 DEF Buffer
    <3> HIDE DEF q
    <3> QED
      BY <3>1, <3>2
  <2>2. bufs'[b] = q
    BY <1>2, <2>1
  <2>3. BufferFits(b)'
    BY <1>1, <1>2, <2>1, <2>2 DEF BufferFits
  <2>4. outfile'[q.block] # 0 => Turned(q.block)'
    BY <1>1, <1>3, <1>4, <1>5, <2>1 DEF Turned
  <2> QED
    BY <1>1, <1>2, <1>5, <2>1, <2>3, <2>4, BufferGoesOn
<1>6. ASSUME bufs' = [bufs EXCEPT ![b].result = "error"], UNCHANGED outfile PROVE AioInv'
  <2>1. PICK q \in Buffer : /\ q.op = bufs[b].op /\ q.block = bufs[b].block
                                 /\ q.data = bufs[b].data
                            /\ q.result = "error" /\ bufs' = [bufs EXCEPT ![b] = q]
    BY <1>2, <1>6 DEF Buffer
  <2>2. bufs'[b] = q
    BY <1>2, <2>1
  <2>3. BufferFits(b)'
    BY <1>1, <1>2, <2>1, <2>2 DEF BufferFits
  <2>4. outfile'[q.block] # 0 => Turned(q.block)'
    BY <1>1, <1>3, <1>4, <1>6, <2>1 DEF Turned
  <2> QED
    BY <1>1, <1>2, <1>6, <2>1, <2>3, <2>4, BufferGoesOn
<1>7. ASSUME bufs[b].op = "WRITE_PENDING", bufs' = [bufs EXCEPT ![b].result = "ok"],
             outfile' = [outfile EXCEPT ![bufs[b].block] = bufs[b].data]
      PROVE  AioInv'
  <2>1. PICK q \in Buffer : /\ q.op = "WRITE_PENDING" /\ q.block = bufs[b].block
                            /\ q.data = bufs[b].data /\ q.result = "ok"
                                 /\ bufs' = [bufs EXCEPT ![b] = q]
    BY <1>2, <1>7 DEF Buffer
  <2>2. bufs'[b] = q
    BY <1>2, <2>1
  <2>3. /\ DOMAIN outfile' = 1 .. Size /\ outfile'[q.block] = q.data
        /\ \A k \in 1 .. Size : k # q.block => outfile'[k] = outfile[k]
    BY <1>2, <1>3, <1>7, <2>1
  <2>4. BufferFits(b)'
    <3>1. /\ q.block \in 1 .. off /\ q.op = "WRITE_PENDING" /\ q.result = "ok"
          /\ infile[q.block] # 0 => q.data = Rot(infile[q.block])
      BY <1>1, <1>2, <1>7, <2>1 DEF BufferFits
    <3>2. UNCHANGED <<infile, off>> /\ bufs'[b] = q /\ outfile'[q.block] = q.data
      BY <1>1, <2>2, <2>3
    <3> QED
      BY <3>1, <3>2 DEF BufferFits
  <2>5. Turned(q.block)'
    BY <1>1, <1>2, <1>7, <2>1, <2>3 DEF BufferFits, Turned
  <2> QED
    BY <1>1, <1>2, <2>1, <2>3, <2>4, <2>5, BufferGoesOn
<1> QED
  BY <1>5, <1>6, <1>7 DEF AioCopy_!Complete

\* The input file gets shorter: nothing more is asked for a block that it has no longer.
LEMMA ShrinkKeeps == ASSUME AioInv, NEW k \in 1 .. Size - 1, AioCopy_!Shrink(k) PROVE AioInv'
<1>1. UNCHANGED <<prog, outfile, pc, i, off, numop, bufs>>
  BY DEF AioCopy_!Shrink
<1>2. infile' \in [1 .. Size -> Nat] /\ \A j \in 1 .. Size : infile'[j] = 0
        \/ infile'[j] = infile[j]
  BY DEF AioInv, AioTypes, AioCopy_!Shrink
<1>3. Busy' = Busy /\ BlocksApart' /\ off \in 0 .. Size /\ Size \in Nat
  BY <1>1, AioAssumption DEF AioInv, AioTypes, BlocksApart, Busy, AioCopy_!Pending
<1>4. ASSUME NEW b \in 1 .. NBUF PROVE BufferFits(b)'
  <2>1. CASE bufs[b].op # "UNUSED"
    <3>1. bufs[b].block \in 1 .. Size
      BY <1>3, <2>1 DEF AioInv, BufferFits
    <3> QED
      BY <1>1, <1>2, <3>1 DEF AioInv, BufferFits
  <2>2. CASE bufs[b].op = "UNUSED"
    BY <1>1, <2>2 DEF BufferFits
  <2> QED
    BY <2>1, <2>2
<1>5. ASSUME NEW j \in 1 .. Size, Turned(j) PROVE Turned(j)'
  BY <1>1, <1>2, <1>5 DEF Turned
<1>6. AioTypes'
  BY <1>1, <1>2 DEF AioInv, AioTypes
<1> QED
  BY <1>1, <1>3, <1>4, <1>5, <1>6 DEF AioInv

\* Each step of the asynchronous copies keeps AioInv.
LEMMA AioStep == ASSUME AioInv, [AioCopy_!Next]_(AioCopy_!vars) PROVE AioInv'
<1>1. CASE UNCHANGED AioCopy_!vars
  BY <1>1, ControlKeeps DEF AioInv, AioTypes, AioCopy_!vars
<1>2. CASE AioCopy_!Next
  BY <1>2, LookKeeps, StartReadKeeps, StartWriteKeeps, EndWriteKeeps, CompleteKeeps, ShrinkKeeps
     DEF AioCopy_!Next
<1> QED
  BY <1>1, <1>2

\* AioCopy names the same Cardinality.
LEMMA SizeOfBuffers == \A S : AioCopy_!Cardinality(S) = Cardinality(S)
BY Zenon DEF AioCopy_!Cardinality, Cardinality

\* AioInv has what BuffersApart and CopiedWhole ask for.
LEMMA AioHold == AioInv => AioCopy_!BuffersApart /\ AioCopy_!CopiedWhole
<1> SUFFICES ASSUME AioInv PROVE AioCopy_!BuffersApart /\ AioCopy_!CopiedWhole
  OBVIOUS
<1>1. numop = AioCopy_!Cardinality({b \in 1 .. NBUF : AioCopy_!Pending(b)})
  BY SizeOfBuffers DEF AioInv, Busy
<1>2. AioCopy_!BuffersApart
  BY <1>1 DEF AioInv, BlocksApart, Turned, Rot, AioCopy_!BuffersApart, AioCopy_!Pending
<1>3. ASSUME prog = "rot13c2", pc = "exit0", NEW k \in 1 .. Size, infile[k] # 0
      PROVE  Rot(outfile[k]) = infile[k]
  <2>1. Busy = {} /\ off = Size
    BY <1>3, FS_EmptySet DEF AioInv
  <2>2. ~\E b \in 1 .. NBUF : bufs[b].op # "UNUSED" /\ bufs[b].block = k
    BY <2>1 DEF Busy, AioCopy_!Pending
  <2>3. Turned(k) /\ infile[k] \in Nat
    BY <2>1, <2>2 DEF AioInv, AioTypes
  <2> QED
    BY <1>3, <2>3, RotTwice DEF Turned
<1> QED
  BY <1>2, <1>3 DEF AioCopy_!CopiedWhole, Rot

-----------------------------------------------------------------------------
(* MemStream: the agreement with the file, byte by byte.                     *)

Octets == Letters \cup {0}

MemInv ==
  pc = "open" =>
    /\ buf \in Seq(Octets) /\ Len(buf) > 0
    /\ vsize \in 0 .. Len(buf) /\ curpos \in 0 .. vsize /\ kept \in 0 .. vsize
    /\ file \in Seq(Octets) /\ Len(file) = vsize
    /\ MemStream_!WriteOnly \/ \A p \in 1 .. vsize : buf[p] = file[p]
    /\ MemStream_!WriteOnly => \A p \in 1 .. kept : buf[p] = file[p]

\* Nothing is open in the beginning.
LEMMA MemInit == MemStream_!Init => MemInv
BY DEF MemStream_!Init, MemInv

\* A set of naturals that is not empty has a least one.
LEMMA LeastIsIn ==
  ASSUME NEW I \in SUBSET Nat, I # {}
  PROVE  \E x \in I : \A y \in I : x <= y
<1>1. PICK x \in I : \A y \in I : ~(<<y, x>> \in OpToRel(<, Nat))
  <2>1. I \subseteq Nat
    OBVIOUS
  <2> QED
    BY <2>1, NatLessThanWellFounded, WFMin, Zenon
<1>2. ASSUME NEW y \in I PROVE x <= y
  <2>1. x \in Nat /\ y \in Nat
    OBVIOUS
  <2>2. ~(y < x)
    BY <1>1, <2>1 DEF OpToRel
  <2> QED
    BY <2>1, <2>2
<1> QED
  BY <1>2

\* The end that is found lies in the buffer.
LEMMA EndFound == ASSUME NEW b \in Seq(Octets) PROVE MemStream_!find_end(b) \in 0 .. Len(b)
<1> DEFINE I == {k \in 1 .. Len(b) : b[k] = 0}
           p == IF I # {} THEN MemStream_!Min(I) ELSE 0
<1>1. MemStream_!find_end(b) = IF p = 0 THEN Len(b) ELSE p - 1
  BY Zenon DEF MemStream_!find_end, MemStream_!SelectInSeq
<1>2. I # {} => MemStream_!Min(I) \in I
  <2>1. I \in SUBSET Nat
    OBVIOUS
  <2> QED
    BY <2>1, LeastIsIn DEF MemStream_!Min
<1>3. p \in 0 .. Len(b) /\ Len(b) \in Nat
  BY <1>2
<1> QED
  BY <1>1, <1>3

\* fmemopen takes the caller's buffer or its own, and the data starts and ends inside it.
LEMMA OpenKeeps ==
  ASSUME MemInv, NEW b, NEW kind, NEW mine, NEW k \in 0 .. MaxSize, b \in [1 .. k -> Octets],
         MemStream_!fmemopen(b, kind, mine)
  PROVE  MemInv'
<1>1. b \in Seq(Octets) /\ Len(b) = k /\ k \in Nat
  OBVIOUS
<1>2. MemStream_!find_end(b) \in 0 .. Len(b)
  BY <1>1, EndFound
<1>3. CASE MemStream_!Fails
  BY <1>3 DEF MemStream_!Fails, MemInv
<1>4. CASE ~MemStream_!Fails
  <2>1. PICK from, size :
          /\ from = 0 \/ from = MemStream_!find_end(b)
          /\ size = from \/ (from = 0 /\ size \in {0, Len(b)})
          /\ buf' = b /\ Len(b) > 0 /\ curpos' = from /\ vsize' = size /\ kept' = size
          /\ file' = SubSeq(b, 1, size)
    BY <1>4 DEF MemStream_!fmemopen
  <2>2. from \in 0 .. k /\ size \in 0 .. k /\ from <= size
    BY <1>1, <1>2, <2>1
  <2>3. /\ SubSeq(b, 1, size) \in Seq(Octets) /\ Len(SubSeq(b, 1, size)) = size
        /\ \A p \in 1 .. size : SubSeq(b, 1, size)[p] = b[p]
    BY <1>1, <2>2
  <2> QED
    BY <1>1, <2>1, <2>2, <2>3 DEF MemInv
<1> QED
  BY <1>3, <1>4

\* A read moves the position inside the data.
LEMMA ReadKeeps ==
  ASSUME MemInv, NEW len \in 1 .. MaxSize, MemStream_!mstream_read(len) PROVE MemInv'
<1> DEFINE nr == IF "MS_READ" \notin flags \/ curpos >= vsize THEN 0
                 ELSE MemStream_!Least(len, vsize - curpos)
<1>1. curpos' = curpos + nr
  BY DEF MemStream_!mstream_read
<1>2. UNCHANGED <<pc, buf, flags, vsize, file, kept>>
  BY DEF MemStream_!mstream_read
<1>3. CASE pc = "open"
  <2>1. nr \in 0 .. vsize - curpos
    BY <1>3 DEF MemInv, MemStream_!Least
  <2> HIDE DEF nr
  <2>2. curpos' \in 0 .. vsize
    BY <1>1, <1>3, <2>1 DEF MemInv
  <2> QED
    BY <1>2, <1>3, <2>2 DEF MemInv, MemStream_!WriteOnly
<1> QED
  BY <1>2, <1>3 DEF MemInv

\* So does a seek.
LEMMA SeekKeeps ==
  ASSUME MemInv, NEW k \in {-1, 0, 1}, NEW w \in {"SEEK_SET", "SEEK_CUR", "SEEK_END"},
         MemStream_!mstream_seek(k, w)
  PROVE  MemInv'
<1>1. UNCHANGED <<pc, buf, flags, vsize, file, kept>> /\ pc = "open"
  BY DEF MemStream_!mstream_seek, MemStream_!Call
<1>2. curpos' \in 0 .. vsize
  <2>1. /\ vsize \in Nat /\ curpos \in 0 .. vsize
        /\ \E d \in {0, vsize, curpos} :
             curpos' = IF k + d < 0 \/ k + d > vsize THEN curpos ELSE k + d
    <3>1. vsize \in Nat /\ curpos \in 0 .. vsize
      BY <1>1 DEF MemInv
    <3>2. CASE w = "SEEK_SET"
      BY <3>1, <3>2 DEF MemStream_!mstream_seek
    <3>3. CASE w = "SEEK_END"
      BY <3>1, <3>3 DEF MemStream_!mstream_seek
    <3>4. CASE w = "SEEK_CUR"
      BY <3>1, <3>4 DEF MemStream_!mstream_seek
    <3> QED
      BY <3>1, <3>2, <3>3, <3>4
  <2> QED
    BY <2>1
<1> QED
  BY <1>1, <1>2 DEF MemInv, MemStream_!WriteOnly

\* A write, byte by byte.
LEMMA WriteKeeps ==
  ASSUME MemInv, NEW k \in Nat, NEW s \in [1 .. k -> Octets], MemStream_!mstream_write(s)
  PROVE  MemInv'
<1>0. pc = "open" /\ UNCHANGED <<pc, flags>> /\ Len(s) = k
  BY DEF MemStream_!mstream_write, MemStream_!Call
<1> DEFINE o == IF "MS_APPEND" \in flags THEN vsize ELSE curpos
           nw == MemStream_!Least(Len(s), Len(buf) - o)
           data == MemStream_!Over(buf, o, SubSeq(s, 1, nw))
           end == o + nw
           nul == MemStream_!NulAt(end)
           agrees == IF kept >= o /\ end > kept THEN end ELSE kept
<1>1. o \in 0 .. vsize /\ vsize \in 0 .. Len(buf) /\ Len(buf) \in Nat \ {0} /\ kept \in 0 .. vsize
  BY <1>0 DEF MemInv
<1>2. nw \in 0 .. k /\ o + nw <= Len(buf) /\ nw \in Nat
  BY <1>0, <1>1 DEF MemStream_!Least
<1>3. /\ curpos' = end /\ vsize' = IF end > vsize THEN end ELSE vsize
      /\ buf' = IF nul >= 0 THEN MemStream_!Nul(data, nul) ELSE data
      /\ file' = [p \in 1 .. vsize' |-> IF p - o \in 1 .. nw THEN s[p - o] ELSE file[p]]
      /\ kept' = IF nul >= 0 THEN MemStream_!Least(nul, agrees) ELSE agrees
  BY <1>0 DEF MemStream_!mstream_write, MemStream_!rsize
<1>4. /\ nul \in -1 .. Len(buf) - 1
      /\ MemStream_!WriteOnly => nul >= 0
      /\ ~MemStream_!WriteOnly /\ nul >= 0 => nul = end /\ end > vsize
  BY <1>1, <1>2 DEF MemStream_!NulAt, MemStream_!rsize
<1>5. /\ DOMAIN data = 1 .. Len(buf)
      /\ \A p \in 1 .. Len(buf) : data[p] = IF p - o \in 1 .. nw THEN s[p - o] ELSE buf[p]
  <2>1. DOMAIN SubSeq(s, 1, nw) = 1 .. nw /\ \A p \in 1 .. nw : SubSeq(s, 1, nw)[p] = s[p]
    BY <1>0, <1>2
  <2> QED
    BY <2>1, <1>1 DEF MemStream_!Over
<1> HIDE DEF o, nw, data, end, nul, agrees
<1>6. /\ DOMAIN buf' = 1 .. Len(buf)
      /\ \A p \in 1 .. Len(buf) :
           buf'[p] = IF nul >= 0 /\ p = nul + 1 THEN 0
                     ELSE IF p - o \in 1 .. nw THEN s[p - o] ELSE buf[p]
  BY <1>1, <1>3, <1>4, <1>5 DEF MemStream_!Nul
<1>7. buf' \in Seq(Octets) /\ Len(buf') = Len(buf)
  <2>1. ASSUME NEW p \in 1 .. Len(buf) PROVE buf'[p] \in Octets
    <3>1. buf[p] \in Octets /\ \A j \in 1 .. k : s[j] \in Octets
      BY <1>0 DEF MemInv
    <3> QED
      BY <1>2, <1>6, <3>1 DEF Octets
  <2>2. buf' \in [1 .. Len(buf) -> Octets]
    <3>1. buf' = [p \in 1 .. Len(buf) |-> buf'[p]]
      BY <1>3, <1>5, <1>6 DEF MemStream_!Nul, data, MemStream_!Over
    <3> QED
      BY <2>1, <3>1
  <2> QED
    BY <1>1, <2>2
<1>8. vsize' \in 0 .. Len(buf) /\ curpos' \in 0 .. vsize' /\ vsize' >= vsize /\ end = o + nw
  BY <1>1, <1>2, <1>3 DEF end
<1>9. /\ file' \in Seq(Octets) /\ Len(file') = vsize'
      /\ \A p \in 1 .. vsize' : file'[p] = IF p - o \in 1 .. nw THEN s[p - o] ELSE file[p]
  <2>1. ASSUME NEW p \in 1 .. vsize'
        PROVE  (IF p - o \in 1 .. nw THEN s[p - o] ELSE file[p]) \in Octets
    <3>1. (\A j \in 1 .. vsize : file[j] \in Octets) /\ \A j \in 1 .. k : s[j] \in Octets
      BY <1>0 DEF MemInv
    <3>2. p <= vsize \/ p - o \in 1 .. nw
      BY <1>1, <1>2, <1>3, <1>8
    <3> QED
      BY <1>1, <1>2, <1>8, <3>1, <3>2
  <2>2. file' \in [1 .. vsize' -> Octets]
    BY <1>3, <2>1
  <2>3. PICK v \in Nat : v = vsize'
    BY <1>1, <1>8
  <2>4. \A p \in 1 .. v : file'[p] = IF p - o \in 1 .. nw THEN s[p - o] ELSE file[p]
    BY <1>3, <2>3
  <2>5. file' \in Seq(Octets) /\ Len(file') = v
    BY <2>2, <2>3
  <2> QED
    BY <2>3, <2>4, <2>5
<1>10. CASE ~MemStream_!WriteOnly
  <2>1. ASSUME NEW p \in 1 .. vsize' PROVE buf'[p] = file'[p]
    <3>1. p \in 1 .. Len(buf) /\ (p - o \in 1 .. nw \/ p <= vsize) /\ ~(nul >= 0 /\ p = nul + 1)
      BY <1>1, <1>2, <1>3, <1>4, <1>8, <1>10
    <3>2. p <= vsize => buf[p] = file[p]
      BY <1>0, <1>1, <1>10, <3>1 DEF MemInv
    <3> QED
      BY <1>6, <1>9, <3>1, <3>2
  <2>2. kept' \in 0 .. vsize' /\ ~MemStream_!WriteOnly'
    BY <1>0, <1>1, <1>2, <1>3, <1>4, <1>8, <1>10 DEF agrees, MemStream_!Least, MemStream_!WriteOnly
  <2> QED
    BY <1>0, <1>1, <1>7, <1>8, <1>9, <2>1, <2>2 DEF MemInv
<1>11. CASE MemStream_!WriteOnly
  <2>1. agrees \in 0 .. vsize' /\ kept' \in 0 .. agrees /\ kept' <= nul /\ kept' <= vsize'
    BY <1>1, <1>2, <1>3, <1>4, <1>8, <1>11 DEF agrees, MemStream_!Least
  <2>2. ASSUME NEW p \in 1 .. kept' PROVE buf'[p] = file'[p]
    <3>1. p \in 1 .. Len(buf) /\ p \in 1 .. vsize' /\ p # nul + 1 /\ p <= agrees
      BY <1>1, <1>4, <1>8, <2>1
    <3>2. p - o \in 1 .. nw \/ p <= kept
      BY <1>1, <1>2, <1>8, <3>1 DEF agrees
    <3>3. p <= kept => buf[p] = file[p]
      BY <1>0, <1>1, <1>11, <3>1 DEF MemInv
    <3> QED
      BY <1>6, <1>9, <3>1, <3>2, <3>3
  <2>3. MemStream_!WriteOnly' /\ kept' \in 0 .. vsize'
    BY <1>0, <1>8, <1>11, <2>1 DEF MemStream_!WriteOnly
  <2> QED
    BY <1>0, <1>1, <1>7, <1>8, <1>9, <2>2, <2>3 DEF MemInv
<1> QED
  BY <1>10, <1>11

\* Each call on the memory stream keeps MemInv.
LEMMA MemStep == ASSUME MemInv, [MemStream_!Next]_(MemStream_!vars) PROVE MemInv'
<1>1. CASE UNCHANGED MemStream_!vars
  BY <1>1 DEF MemStream_!vars, MemInv, MemStream_!WriteOnly
<1>2. ASSUME NEW k \in 0 .. MaxSize, NEW b \in [1 .. k -> Letters \cup {0}], NEW kind \in Types,
             NEW mine \in BOOLEAN, MemStream_!fmemopen(b, kind, mine)
      PROVE  MemInv'
  BY <1>2, OpenKeeps DEF Octets
<1>3. ASSUME NEW k \in 0 .. MaxSize, NEW s \in [1 .. k -> Letters], MemStream_!mstream_write(s)
      PROVE  MemInv'
  <2>1. s \in [1 .. k -> Octets] /\ k \in Nat
    BY DEF Octets
  <2> QED
    BY <1>3, <2>1, WriteKeeps
<1>4. ASSUME MemStream_!mstream_close PROVE MemInv'
  BY <1>4 DEF MemStream_!mstream_close, MemInv
<1>5. CASE MemStream_!Next
  BY <1>2, <1>3, <1>4, <1>5, ReadKeeps, SeekKeeps DEF MemStream_!Next, MemStream_!Strings
<1> QED
  BY <1>1, <1>5

\* MemInv has what StreamAgrees asks for.
LEMMA MemHold == MemInv => MemStream_!StreamAgrees
<1> SUFFICES ASSUME MemInv, pc = "open" PROVE MemStream_!StreamAgrees
  BY DEF MemStream_!StreamAgrees
<1>1. /\ curpos <= vsize /\ vsize <= Len(buf) /\ kept <= vsize
      /\ vsize \in Nat /\ kept \in Nat /\ Len(buf) \in Nat /\ Len(file) = vsize
      /\ buf \in Seq(Octets) /\ file \in Seq(Octets)
  BY DEF MemInv
<1>2. ~MemStream_!WriteOnly => SubSeq(buf, 1, vsize) = file
  BY <1>1 DEF MemInv
<1>3. MemStream_!WriteOnly => SubSeq(buf, 1, kept) = SubSeq(file, 1, kept)
  BY <1>1 DEF MemInv
<1> QED
  BY <1>1, <1>2, <1>3 DEF MemStream_!StreamAgrees, MemStream_!rsize

-----------------------------------------------------------------------------
(* AlarmList: the list is sorted and holds each timer once, and an alarm     *)
(* never goes off before the head's time, whatever handlers have run between *)
(* the lines of an insertion: they take timers away in front, so the place   *)
(* found stays right as long as it is in the list.                           *)

Inserting == {"time", "cur", "test", "next", "head", "walk", "link"}

AlarmTypes ==
  /\ now \in Nat /\ cur_time \in Nat /\ cur_time <= now /\ t \in Nat
  /\ alarm \in Nat \cup {Null}
  /\ pc \in Inserting \cup {"idle", "alarm", "return", "crashed", "wild"}
  /\ ended_at \in [Timers -> Nat] /\ called \in [Timers -> Nat \cup {Null}]
  /\ missed \in BOOLEAN /\ relinked \in BOOLEAN

\* the list s, each timer in it once, in the order of their times
InOrderOnce(s) ==
  /\ s \in Seq(Timers)
  /\ \A j, k \in DOMAIN s : s[j] = s[k] => j = k
  /\ \A k \in DOMAIN s : s[k] <= t
  /\ \A j, k \in DOMAIN s : j < k => ended_at[s[j]] <= ended_at[s[k]]

CalledInTime == \A x \in Timers : /\ x > t => called[x] = Null
                                  /\ called[x] # Null => called[x] >= ended_at[x]

\* the timer that is inserted
NewTimer ==
  pc \in Inserting => /\ t \in Timers /\ called[t] = Null /\ ~relinked
                      /\ \A k \in DOMAIN head : head[k] # t

\* a freed timer is in the list only once the handler came in between, and behind the head
FreedTimers ==
  /\ ~relinked => pc # "wild" /\ \A k \in DOMAIN head : called[head[k]] = Null
  /\ relinked /\ pc \in {"idle", "alarm", "return"} =>
       2 \in DOMAIN head /\ called[head[2]] # Null

AlarmIsSet ==
  /\ alarm # Null => head # <<>> /\ alarm >= ended_at[head[1]]
  /\ pc \in Inserting \cup {"idle", "return"} /\ head # <<>> /\ ~missed => alarm # Null

\* the list next that was read, of which the handler may have taken the first timers
FrontPlace ==
  /\ pc \in {"next", "head"} => \A k \in DOMAIN head : ended_at[t] <= ended_at[head[k]]
  /\ pc = "head" =>
       /\ InOrderOnce(next)
       /\ \A k \in DOMAIN next : next[k] # t /\ ended_at[t] <= ended_at[next[k]]
       /\ next = head \/ (next # <<>> /\ called[next[1]] # Null)

\* cur goes along the list, or what was the list
Follows == \A k \in DOMAIN head, j \in DOMAIN cur :
             head[k] = cur[j] /\ k + 1 \in DOMAIN head =>
               j + 1 \in DOMAIN cur /\ cur[j + 1] = head[k + 1]
WalkPlace ==
  /\ pc \in {"test", "walk", "link"} => cur \in Seq(Timers) /\ cur # <<>>
  /\ pc \in {"test", "walk"} => Follows
  /\ pc = "test" => \A k \in DOMAIN head : head[k] = cur[1] => k = 1
  /\ pc \in {"walk", "link"} => \A k, j \in DOMAIN head :
       head[k] = cur[1] /\ j <= k => ended_at[head[j]] <= ended_at[t]
  /\ pc = "link" => \A k, j \in DOMAIN head :
       head[k] = cur[1] /\ k < j => ended_at[t] <= ended_at[head[j]]

AlarmInv ==
  /\ AlarmTypes /\ InOrderOnce(head) /\ CalledInTime /\ NewTimer /\ FreedTimers
  /\ AlarmIsSet /\ FrontPlace /\ WalkPlace

\* No timer is set and no alarm.
LEMMA AlarmInit == AlarmList_!Init => AlarmInv
<1> SUFFICES ASSUME AlarmList_!Init PROVE AlarmInv
  OBVIOUS
<1> USE DEF AlarmList_!Init
<1>1. ended_at \in [Timers -> Nat] /\ called \in [Timers -> Nat \cup {Null}]
  OBVIOUS
<1>2. now \in Nat /\ cur_time \in Nat /\ cur_time <= now /\ t \in Nat
  OBVIOUS
<1>3. alarm \in Nat \cup {Null} /\ missed \in BOOLEAN /\ relinked = FALSE
  OBVIOUS
<1>4. pc = "idle" /\ \A x \in Timers : called[x] = Null
  OBVIOUS
<1>5. AlarmTypes
  BY <1>1, <1>2, <1>3, <1>4, Zenon DEF AlarmTypes
<1>6. head \in Seq(Timers) /\ DOMAIN head = {} /\ head = <<>> /\ alarm = Null
  OBVIOUS
<1> HIDE DEF AlarmList_!Init
<1>7. InOrderOnce(head)
  BY <1>6 DEF InOrderOnce
<1>8. CalledInTime /\ NewTimer /\ FreedTimers
  BY <1>3, <1>4, <1>6 DEF CalledInTime, NewTimer, FreedTimers, Inserting
<1>9. AlarmIsSet /\ FrontPlace /\ WalkPlace
  BY <1>4, <1>6 DEF AlarmIsSet, FrontPlace, WalkPlace
<1> QED
  BY <1>5, <1>7, <1>8, <1>9 DEF AlarmInv

\* The list is a finite sequence of timers, whose times are numbers.
LEMMA ListOfTimers ==
  ASSUME AlarmInv
  PROVE  \E len \in Nat :
           /\ len = Len(head) /\ DOMAIN head = 1 .. len /\ head \in Seq(Timers)
           /\ (len = 0 <=> head = <<>>)
           /\ \A k \in 1 .. len : head[k] \in Timers /\ ended_at[head[k]] \in Nat
<1>1. head \in Seq(Timers)
  BY DEF AlarmInv, InOrderOnce
<1>2. PICK len \in Nat : len = Len(head) /\ DOMAIN head = 1 .. len
                         /\ \A k \in 1 .. len : head[k] \in Timers
  BY <1>1
<1>3. \A k \in 1 .. len : ended_at[head[k]] \in Nat
  BY <1>2 DEF AlarmInv, AlarmTypes
<1>4. len = 0 <=> head = <<>>
  BY <1>1, <1>2
<1> QED
  BY <1>1, <1>2, <1>3, <1>4

\* The steps that leave the list and the timers alone.
LEMMA SameList ==
  ASSUME AlarmInv, UNCHANGED <<now, alarm, t, ended_at, head, called, missed, relinked>>,
         cur_time' \in {cur_time, now},
         pc' \in Inserting \cup {"idle", "crashed"},
         pc' \in Inserting => pc \in Inserting,
         pc' = "idle" => pc = "return",
         FrontPlace', WalkPlace'
  PROVE  AlarmInv'
<1>1. AlarmTypes'
  BY DEF AlarmInv, AlarmTypes
<1>2. InOrderOnce(head)' /\ CalledInTime'
  BY DEF AlarmInv, InOrderOnce, CalledInTime
<1>3. NewTimer' /\ FreedTimers'
  BY DEF AlarmInv, NewTimer, FreedTimers, Inserting
<1>4. AlarmIsSet'
  BY DEF AlarmInv, AlarmIsSet, Inserting
<1> QED
  BY <1>1, <1>2, <1>3, <1>4 DEF AlarmInv

\* The time is taken.
LEMMA TimeKeeps == ASSUME AlarmInv, AlarmList_!Time PROVE AlarmInv'
<1>1. /\ pc = "time" /\ pc' = "cur" /\ cur_time' = now
      /\ UNCHANGED <<now, alarm, t, ended_at, head, called, missed, relinked>>
  BY DEF AlarmList_!Time, AlarmList_!lists
<1>2. FrontPlace' /\ WalkPlace'
  BY <1>1 DEF FrontPlace, WalkPlace
<1> QED
  BY <1>1, <1>2, SameList DEF Inserting

\* The head is read again: the new timer ends before it, or cur may be behind it.
LEMMA TestKeeps == ASSUME AlarmInv, AlarmList_!Test PROVE AlarmInv'
<1>1. /\ pc = "test"
      /\ pc' = IF head = <<>> THEN "crashed"
               ELSE IF ended_at[head[1]] > ended_at[t] THEN "next" ELSE "walk"
      /\ UNCHANGED <<now, alarm, t, ended_at, head, called, missed, relinked, cur, cur_time>>
  BY DEF AlarmList_!Test, AlarmList_!lists
<1>2. PICK len \in Nat :
        /\ len = Len(head) /\ DOMAIN head = 1 .. len /\ (len = 0 <=> head = <<>>)
        /\ \A k \in 1 .. len : head[k] \in Timers /\ ended_at[head[k]] \in Nat
  BY ListOfTimers
<1>3. ended_at[t] \in Nat
  BY <1>1 DEF AlarmInv, AlarmTypes, NewTimer, Inserting
<1>4. FrontPlace'
  <2> SUFFICES ASSUME pc' = "next", NEW k \in 1 .. len PROVE ended_at[t] <= ended_at[head[k]]
    BY <1>1, <1>2 DEF FrontPlace
  <2>1. 1 \in 1 .. len /\ ended_at[head[1]] > ended_at[t]
    BY <1>1, <1>2
  <2>2. ended_at[head[1]] <= ended_at[head[k]]
    <3>1. CASE k = 1
      BY <1>2, <2>1, <3>1
    <3>2. CASE k # 1
      BY <1>2, <2>1, <3>2 DEF AlarmInv, InOrderOnce
    <3> QED
      BY <3>1, <3>2
  <2> QED
    BY <1>2, <1>3, <2>1, <2>2
<1>5. WalkPlace'
  <2>1. ASSUME pc' = "walk" PROVE cur \in Seq(Timers) /\ cur # <<>> /\ Follows
    BY <1>1 DEF AlarmInv, WalkPlace
  <2>2. ASSUME pc' = "walk", NEW k \in 1 .. len, NEW j \in 1 .. len, head[k] = cur[1], j <= k
        PROVE  ended_at[head[j]] <= ended_at[t]
    <3>1. k = 1
      BY <1>1, <1>2, <2>2 DEF AlarmInv, WalkPlace
    <3>2. j = 1 /\ ~(ended_at[head[1]] > ended_at[t])
      BY <1>1, <1>2, <2>2, <3>1
    <3> QED
      BY <1>2, <1>3, <3>2
  <2>3. pc' = "walk" => Follows'
    BY <1>1, <2>1 DEF Follows
  <2> QED
    BY <1>1, <1>2, <2>1, <2>2, <2>3 DEF WalkPlace
<1> QED
  BY <1>1, <1>4, <1>5, SameList DEF Inserting

\* What follows the new timer is the list that is read.
LEMMA SetNextKeeps == ASSUME AlarmInv, AlarmList_!SetNext PROVE AlarmInv'
<1>1. /\ pc = "next" /\ pc' = "head" /\ next' = head /\ cur_time' = cur_time
      /\ UNCHANGED <<now, alarm, t, ended_at, head, called, missed, relinked>>
  BY DEF AlarmList_!SetNext, AlarmList_!lists
<1>2. InOrderOnce(next)'
  BY <1>1 DEF AlarmInv, InOrderOnce
<1>3. FrontPlace'
  BY <1>1, <1>2 DEF AlarmInv, FrontPlace, NewTimer, Inserting
<1>4. WalkPlace'
  BY <1>1 DEF WalkPlace
<1> QED
  BY <1>1, <1>3, <1>4, SameList DEF Inserting

\* The seconds of the head, if there is one.
LEMMA ReturnKeeps == ASSUME AlarmInv, AlarmList_!Return PROVE AlarmInv'
<1>1. /\ pc = "return" /\ pc' \in {"crashed", "idle"} /\ cur_time' = cur_time
      /\ UNCHANGED <<now, alarm, t, ended_at, head, called, missed, relinked>>
  BY DEF AlarmList_!Return, AlarmList_!lists
<1>2. FrontPlace' /\ WalkPlace'
  BY <1>1 DEF FrontPlace, WalkPlace
<1> QED
  BY <1>1, <1>2, SameList DEF Inserting

\* A timer in front of the list.
LEMMA TimerInFront ==
  ASSUME NEW s \in Seq(Timers), NEW x \in Timers
  PROVE  /\ <<x>> \o s \in Seq(Timers) /\ Len(<<x>> \o s) = Len(s) + 1
         /\ \A k \in 1 .. Len(s) + 1 : (<<x>> \o s)[k] = IF k = 1 THEN x ELSE s[k - 1]
<1>1. <<x>> \in Seq(Timers) /\ Len(<<x>>) = 1 /\ <<x>>[1] = x
  OBVIOUS
<1>2. /\ <<x>> \o s \in Seq(Timers) /\ Len(<<x>> \o s) = Len(<<x>>) + Len(s)
      /\ \A k \in 1 .. Len(<<x>>) + Len(s) :
           (<<x>> \o s)[k] = IF k <= Len(<<x>>) THEN <<x>>[k] ELSE s[k - Len(<<x>>)]
  BY <1>1, ConcatProperties, Zenon
<1>3. PICK len \in Nat : len = Len(s)
  OBVIOUS
<1> DEFINE u == <<x>> \o s
<1> HIDE DEF u
<1>4. u \in Seq(Timers) /\ Len(u) = 1 + len /\ \A k \in 1 .. 1 + len : u[k] = IF k <= 1 THEN x
        ELSE s[k - 1]
  BY <1>1, <1>2, <1>3 DEF u
<1>5. u \in Seq(Timers) /\ Len(u) = len + 1 /\ \A k \in 1 .. len + 1 : u[k] = IF k = 1 THEN x
        ELSE s[k - 1]
  BY <1>4
<1> QED
  BY <1>3, <1>5 DEF u

\* A timer behind the one at place p.
LEMMA TimerBehind ==
  ASSUME NEW s \in Seq(Timers), NEW x \in Timers, NEW p \in 1 .. Len(s)
  PROVE  /\ AlarmList_!InsertAt(s, 1 + p, x) \in Seq(Timers)
         /\ Len(AlarmList_!InsertAt(s, 1 + p, x)) = Len(s) + 1
         /\ \A k \in 1 .. Len(s) + 1 :
              AlarmList_!InsertAt(s, 1 + p, x)[k] =
                IF k <= p THEN s[k] ELSE IF k = p + 1 THEN x ELSE s[k - 1]
<1>1. PICK len \in Nat : len = Len(s)
  OBVIOUS
<1>2. \A k \in 1 .. len : s[k] \in Timers
  BY <1>1
<1> DEFINE u == SubSeq(s, 1, (1 + p) - 1)
           v == SubSeq(s, 1 + p, Len(s))
<1>3. u \in Seq(Timers) /\ Len(u) = p /\ \A k \in 1 .. p : u[k] = s[k]
  BY <1>1, <1>2
<1>4. v \in Seq(Timers) /\ Len(v) = len - p /\ \A k \in 1 .. len - p : v[k] = s[k + p]
  <2>1. v \in Seq(Timers) /\ Len(v) = len - p
    BY <1>1, <1>2
  <2>2. ASSUME NEW k \in 1 .. len - p PROVE v[k] = s[k + p]
    BY <1>1, <1>2
  <2> QED
    BY <2>1, <2>2
<1> HIDE DEF u, v
<1>x. <<x>> \in Seq(Timers) /\ Len(<<x>>) = 1 /\ <<x>>[1] = x
  OBVIOUS
<1>5. /\ u \o <<x>> \in Seq(Timers) /\ Len(u \o <<x>>) = Len(u) + Len(<<x>>)
      /\ \A k \in 1 .. Len(u) + Len(<<x>>) :
           (u \o <<x>>)[k] = IF k <= Len(u) THEN u[k] ELSE <<x>>[k - Len(u)]
  BY <1>3, <1>x, ConcatProperties, Zenon
<1> DEFINE w == u \o <<x>>
<1> HIDE DEF w
<1>6. w \in Seq(Timers) /\ Len(w) = p + 1 /\ \A k \in 1 .. p + 1 : w[k] = IF k <= p THEN s[k]
        ELSE x
  <2>1. w \in Seq(Timers) /\ Len(w) = p + 1
    BY <1>3, <1>5, <1>x DEF w
  <2>2. \A k \in 1 .. p + 1 : w[k] = IF k <= p THEN u[k] ELSE <<x>>[k - p]
    BY <1>3, <1>5, <1>x DEF w
  <2>3. (p + 1) - p = 1
    OBVIOUS
  <2> QED
    BY <1>3, <1>x, <2>1, <2>2, <2>3
<1>7. /\ w \o v \in Seq(Timers) /\ Len(w \o v) = Len(w) + Len(v)
      /\ \A k \in 1 .. Len(w) + Len(v) : (w \o v)[k] = IF k <= Len(w) THEN w[k] ELSE v[k - Len(w)]
  BY <1>4, <1>6, ConcatProperties, Zenon
<1> DEFINE r == w \o v
<1> HIDE DEF r
<1>8. r \in Seq(Timers) /\ Len(r) = len + 1
  BY <1>1, <1>4, <1>6, <1>7 DEF r
<1>9. ASSUME NEW k \in 1 .. len + 1
      PROVE  r[k] = IF k <= p THEN s[k] ELSE IF k = p + 1 THEN x ELSE s[k - 1]
  <2>1. r[k] = IF k <= p + 1 THEN w[k] ELSE v[k - (p + 1)]
    BY <1>1, <1>4, <1>6, <1>7 DEF r
  <2>2. CASE k <= p + 1
    BY <1>6, <2>1, <2>2
  <2>3. CASE k > p + 1
    <3>1. k - (p + 1) \in 1 .. len - p /\ (k - (p + 1)) + p = k - 1
      BY <1>1, <2>3
    <3>2. v[k - (p + 1)] = s[(k - (p + 1)) + p]
      BY <1>4, <3>1
    <3> QED
      BY <2>1, <2>3, <3>1, <3>2
  <2> QED
    BY <2>2, <2>3
<1>10. AlarmList_!InsertAt(s, 1 + p, x) = r
  BY Zenon DEF AlarmList_!InsertAt, r, u, v, w
<1> QED
  BY <1>1, <1>8, <1>9, <1>10

\* The new timer before a list of others that do not end before it.
LEMMA FrontInOrder ==
  ASSUME NEW s, InOrderOnce(s), t \in Timers,
         \A k \in DOMAIN s : s[k] # t /\ ended_at[t] <= ended_at[s[k]],
         AlarmTypes
  PROVE  /\ InOrderOnce(<<t>> \o s) /\ (<<t>> \o s)[1] = t /\ <<t>> \o s # <<>>
         /\ DOMAIN (<<t>> \o s) = 1 .. Len(s) + 1
         /\ \A k \in DOMAIN s : (<<t>> \o s)[k + 1] = s[k]
         /\ \A k \in DOMAIN (<<t>> \o s) : k = 1 \/ (k - 1 \in DOMAIN s /\ (<<t>> \o s)[k] = s[k - 1])
<1>1. s \in Seq(Timers)
  BY DEF InOrderOnce
<1>2. PICK len \in Nat : len = Len(s) /\ DOMAIN s = 1 .. len /\ \A k \in 1 .. len : s[k] \in Timers
  BY <1>1
<1> DEFINE r == <<t>> \o s
<1>3. r \in Seq(Timers) /\ Len(r) = len + 1
  BY <1>1, <1>2, TimerInFront
<1>4. \A k \in 1 .. len + 1 : r[k] = IF k = 1 THEN t ELSE s[k - 1]
  BY <1>1, <1>2, TimerInFront
<1>5. DOMAIN r = 1 .. len + 1
  BY <1>2, <1>3
<1> HIDE DEF r
<1>6. r[1] = t /\ \A k \in 1 .. len + 1 : k # 1 => k - 1 \in 1 .. len /\ r[k] = s[k - 1]
  BY <1>2, <1>4
<1>7. \A k \in 1 .. len : r[k + 1] = s[k]
  BY <1>2, <1>4
<1>8. ASSUME NEW j \in 1 .. len + 1, NEW k \in 1 .. len + 1, r[j] = r[k] PROVE j = k
  <2>1. j = 1 <=> k = 1
    BY <1>2, <1>6, <1>8
  <2>2. ASSUME j # 1, k # 1 PROVE j = k
    <3>1. s[j - 1] = s[k - 1] /\ j - 1 \in 1 .. len /\ k - 1 \in 1 .. len
      BY <1>6, <1>8, <2>2
    <3>2. j - 1 = k - 1
      BY <1>2, <3>1 DEF InOrderOnce
    <3> QED
      BY <3>2
  <2> QED
    BY <2>1, <2>2
<1>9. ASSUME NEW k \in 1 .. len + 1 PROVE r[k] <= t
  <2>1. t <= t
    BY DEF AlarmTypes
  <2>2. CASE k = 1
    BY <1>6, <2>1, <2>2
  <2>3. CASE k # 1
    BY <1>2, <1>6, <2>3 DEF InOrderOnce
  <2> QED
    BY <2>2, <2>3
<1>10. ASSUME NEW j \in 1 .. len + 1, NEW k \in 1 .. len + 1, j < k
       PROVE  ended_at[r[j]] <= ended_at[r[k]]
  <2>1. k # 1 /\ k - 1 \in 1 .. len /\ r[k] = s[k - 1]
    BY <1>2, <1>6, <1>10
  <2>2. CASE j = 1
    BY <1>2, <1>6, <2>1, <2>2
  <2>3. CASE j # 1
    <3>1. j - 1 \in 1 .. len /\ j - 1 < k - 1 /\ r[j] = s[j - 1]
      BY <1>6, <1>10, <2>3
    <3> QED
      BY <1>2, <2>1, <3>1 DEF InOrderOnce
  <2> QED
    BY <2>2, <2>3
<1>11. InOrderOnce(r)
  BY <1>3, <1>5, <1>8, <1>9, <1>10 DEF InOrderOnce
<1>12. r # <<>>
  BY <1>3, <1>2
<1> QED
  BY <1>2, <1>5, <1>6, <1>7, <1>11, <1>12 DEF r

\* A new timer comes to the end of the calls, not of the list.
LEMMA SetKeeps == ASSUME AlarmInv, NEW s \in 0 .. MaxSeconds, AlarmList_!settimeout(s)
  PROVE AlarmInv'
<1>1. /\ pc = "idle" /\ t' = t + 1 /\ t' \in Timers /\ head' = head
      /\ now' = now /\ alarm' = alarm /\ cur_time' = cur_time /\ missed' = missed
      /\ relinked' = relinked /\ ended_at' = [ended_at EXCEPT ![t'] = now + s]
      /\ called' = IF s = 0 THEN [called EXCEPT ![t'] = now] ELSE called
      /\ pc' = IF s = 0 THEN "idle"
               ELSE IF \E k \in DOMAIN head : AlarmList_!Freed(head[k]) THEN "wild" ELSE "time"
  BY DEF AlarmList_!settimeout
<1>2. /\ t \in Nat /\ t' \in Nat /\ now \in Nat /\ now + s \in Nat
      /\ ended_at \in [Timers -> Nat] /\ called \in [Timers -> Nat \cup {Null}]
  BY <1>1, AlarmAssumption DEF AlarmInv, AlarmTypes
<1>3. called[t'] = Null
  BY <1>1, <1>2 DEF AlarmInv, CalledInTime
<1>4. /\ ended_at' \in [Timers -> Nat] /\ called' \in [Timers -> Nat \cup {Null}]
      /\ \A x \in Timers : x # t' => ended_at'[x] = ended_at[x] /\ called'[x] = called[x]
      /\ ended_at'[t'] = now + s /\ called'[t'] = IF s = 0 THEN now ELSE Null
  BY <1>1, <1>2, <1>3
<1>5. PICK len \in Nat : /\ len = Len(head) /\ DOMAIN head = 1 .. len /\ (len = 0 <=> head = <<>>)
                         /\ \A k \in 1 .. len : head[k] \in Timers
  BY ListOfTimers
<1>6. \A k \in 1 .. len : /\ head[k] # t' /\ head[k] <= t'
                          /\ ended_at'[head[k]] = ended_at[head[k]]
                          /\ called'[head[k]] = called[head[k]]
  <2> SUFFICES ASSUME NEW k \in 1 .. len PROVE head[k] # t' /\ head[k] <= t'
    BY <1>4, <1>5
  <2>1. head[k] <= t /\ head[k] \in Nat
    BY <1>5, AlarmAssumption DEF AlarmInv, InOrderOnce
  <2> QED
    BY <1>1, <1>2, <2>1
<1>7. AlarmTypes'
  BY <1>1, <1>2, <1>4 DEF AlarmInv, AlarmTypes, Inserting
<1>8. InOrderOnce(head)'
  BY <1>1, <1>5, <1>6 DEF AlarmInv, InOrderOnce
<1>9. CalledInTime'
  <2> SUFFICES ASSUME NEW x \in Timers PROVE /\ x > t' => called'[x] = Null
                                             /\ called'[x] # Null => called'[x] >= ended_at'[x]
    BY DEF CalledInTime
  <2>1. x \in Nat
    BY AlarmAssumption
  <2>2. CASE x = t'
    BY <1>2, <1>4, <2>2
  <2>3. CASE x # t'
    <3>1. x > t' => x > t
      BY <1>1, <1>2, <2>1
    <3> QED
      BY <1>4, <2>3, <3>1 DEF AlarmInv, CalledInTime
  <2> QED
    BY <2>2, <2>3
<1>10. ASSUME pc' = "time" PROVE ~relinked
  <2>1. ~\E k \in DOMAIN head : called[head[k]] # Null
    BY <1>1, <1>10 DEF AlarmList_!Freed
  <2> QED
    BY <1>1, <2>1 DEF AlarmInv, FreedTimers
<1>11. NewTimer'
  <2>1. pc' = "time" => s # 0
    BY <1>1
  <2> QED
    BY <1>1, <1>4, <1>5, <1>6, <1>10, <2>1 DEF NewTimer, Inserting
<1>12. FreedTimers'
  <2>1. ASSUME ~relinked PROVE pc' # "wild" /\ \A k \in 1 .. len : called[head[k]] = Null
    BY <1>1, <1>5, <2>1 DEF AlarmInv, FreedTimers, AlarmList_!Freed
  <2>2. relinked => 2 \in DOMAIN head /\ called[head[2]] # Null
    BY <1>1 DEF AlarmInv, FreedTimers
  <2> QED
    BY <1>1, <1>5, <1>6, <2>1, <2>2 DEF FreedTimers
<1>13. AlarmIsSet'
  <2>1. alarm # Null => head # <<>> /\ alarm >= ended_at'[head[1]]
    BY <1>5, <1>6 DEF AlarmInv, AlarmIsSet
  <2>2. head # <<>> /\ ~missed => alarm # Null
    BY <1>1 DEF AlarmInv, AlarmIsSet
  <2> QED
    BY <1>1, <2>1, <2>2 DEF AlarmIsSet
<1>14. FrontPlace' /\ WalkPlace'
  BY <1>1 DEF FrontPlace, WalkPlace
<1> QED
  BY <1>7, <1>8, <1>9, <1>11, <1>12, <1>13, <1>14 DEF AlarmInv

\* The list is read, or the new timer is its first.
LEMMA CurKeeps == ASSUME AlarmInv, AlarmList_!Cur PROVE AlarmInv'
<1>1. /\ pc = "cur" /\ cur' = head
      /\ UNCHANGED <<now, alarm, t, cur_time, ended_at, called, missed, relinked>>
      /\ IF head = <<>> THEN head' = <<t>> /\ pc' = "alarm" ELSE pc' = "test" /\ head' = head
  BY DEF AlarmList_!Cur
<1>2. t \in Timers /\ called[t] = Null /\ ~relinked
  BY <1>1 DEF AlarmInv, NewTimer, Inserting
<1>3. CASE head # <<>>
  <2>1. FrontPlace'
    BY <1>1, <1>3 DEF FrontPlace
  <2>2. Follows' /\ \A k \in DOMAIN head : head[k] = head[1] => k = 1
    <3>1. \A j, k \in DOMAIN head : head[j] = head[k] => j = k
      BY DEF AlarmInv, InOrderOnce
    <3>2. Follows'
      BY <1>1, <1>3, <3>1 DEF Follows
    <3>3. 1 \in DOMAIN head
      BY <1>3, ListOfTimers
    <3> QED
      BY <3>1, <3>2, <3>3
  <2>3. WalkPlace'
    BY <1>1, <1>3, <2>2 DEF WalkPlace, AlarmInv, InOrderOnce
  <2> QED
    BY <1>1, <1>3, <2>1, <2>3, SameList DEF Inserting
<1>4. CASE head = <<>>
  <2>1. head' = <<t>> /\ pc' = "alarm" /\ DOMAIN head' = {1} /\ head'[1] = t /\ head' # <<>>
    BY <1>1, <1>4
  <2>2. AlarmTypes'
    BY <1>1, <2>1 DEF AlarmInv, AlarmTypes
  <2>3. InOrderOnce(head)'
    <3>1. head' \in Seq(Timers)
      BY <1>2, <2>1
    <3>2. t <= t /\ ended_at[t] <= ended_at[t]
      BY <1>2 DEF AlarmInv, AlarmTypes
    <3> QED
      BY <1>1, <2>1, <3>1, <3>2 DEF InOrderOnce
  <2>4. CalledInTime' /\ NewTimer' /\ FreedTimers'
    BY <1>1, <1>2, <2>1 DEF AlarmInv, CalledInTime, NewTimer, FreedTimers, Inserting
  <2>5. AlarmIsSet'
    BY <1>1, <1>4, <2>1 DEF AlarmInv, AlarmIsSet, Inserting
  <2>6. FrontPlace' /\ WalkPlace'
    BY <2>1 DEF FrontPlace, WalkPlace
  <2> QED
    BY <2>2, <2>3, <2>4, <2>5, <2>6 DEF AlarmInv
<1> QED
  BY <1>3, <1>4

\* The new timer is the head, and the list that was read follows it.
LEMMA SetHeadKeeps == ASSUME AlarmInv, AlarmList_!SetHead PROVE AlarmInv'
<1>1. /\ pc = "head" /\ pc' = "alarm" /\ head' = <<t>> \o next
      /\ relinked' = (relinked \/ next # head)
      /\ UNCHANGED <<now, alarm, t, cur_time, ended_at, called, missed>>
  BY DEF AlarmList_!SetHead
<1>2. AlarmTypes /\ t \in Timers /\ called[t] = Null /\ ~relinked
  BY <1>1 DEF AlarmInv, NewTimer, Inserting
<1>3. /\ InOrderOnce(next)
      /\ \A k \in DOMAIN next : next[k] # t /\ ended_at[t] <= ended_at[next[k]]
      /\ next = head \/ (next # <<>> /\ called[next[1]] # Null)
  BY <1>1 DEF AlarmInv, FrontPlace
<1> DEFINE r == <<t>> \o next
<1>4. /\ InOrderOnce(r) /\ r[1] = t /\ r # <<>> /\ DOMAIN r = 1 .. Len(next) + 1
      /\ \A k \in DOMAIN next : r[k + 1] = next[k]
      /\ \A k \in DOMAIN r : k = 1 \/ (k - 1 \in DOMAIN next /\ r[k] = next[k - 1])
  <2>1. InOrderOnce(r) /\ r[1] = t /\ r # <<>> /\ DOMAIN r = 1 .. Len(next) + 1
    BY <1>2, <1>3, FrontInOrder, Zenon
  <2>2. \A k \in DOMAIN next : r[k + 1] = next[k]
    BY <1>2, <1>3, FrontInOrder, Zenon
  <2>3. \A k \in DOMAIN r : k = 1 \/ (k - 1 \in DOMAIN next /\ r[k] = next[k - 1])
    BY <1>2, <1>3, FrontInOrder, Zenon
  <2> QED
    BY <2>1, <2>2, <2>3
<1>5. head' = r
  BY <1>1
<1> HIDE DEF r
<1>6. AlarmTypes'
  BY <1>1, <1>2 DEF AlarmTypes
<1>7. InOrderOnce(head)'
  BY <1>1, <1>4, <1>5 DEF InOrderOnce
<1>8. CalledInTime' /\ NewTimer'
  BY <1>1 DEF AlarmInv, CalledInTime, NewTimer, Inserting
<1>9. FreedTimers'
  <2>1. ASSUME ~relinked' PROVE \A k \in DOMAIN r : called[r[k]] = Null
    <3>1. next = head /\ \A k \in DOMAIN head : called[head[k]] = Null
      BY <1>1, <1>2, <2>1 DEF AlarmInv, FreedTimers
    <3> QED
      BY <1>2, <1>4, <3>1
  <2>2. ASSUME relinked' PROVE 2 \in DOMAIN r /\ called[r[2]] # Null
    <3>1. next # <<>> /\ called[next[1]] # Null
      BY <1>1, <1>2, <1>3, <2>2
    <3>2. next \in Seq(Timers)
      BY <1>3 DEF InOrderOnce
    <3>3. 1 \in DOMAIN next /\ Len(next) \in Nat /\ Len(next) # 0
      BY <3>1, <3>2
    <3>4. r[1 + 1] = next[1]
      BY <1>4, <3>3
    <3>5. 1 + 1 = 2 /\ 2 \in 1 .. Len(next) + 1
      BY <3>3
    <3> QED
      BY <1>4, <3>1, <3>4, <3>5
  <2> QED
    BY <1>1, <1>5, <2>1, <2>2 DEF FreedTimers
<1>10. AlarmIsSet'
  <2>1. ASSUME alarm # Null PROVE alarm >= ended_at[t]
    <3>1. head # <<>> /\ alarm >= ended_at[head[1]] /\ alarm \in Nat
      BY <1>2, <2>1 DEF AlarmInv, AlarmIsSet, AlarmTypes
    <3>2. 1 \in DOMAIN head /\ ended_at[head[1]] \in Nat
      BY <3>1, ListOfTimers
    <3>3. ended_at[t] <= ended_at[head[1]] /\ ended_at[t] \in Nat
      BY <1>1, <1>2, <3>2 DEF AlarmInv, FrontPlace, AlarmTypes
    <3> QED
      BY <3>1, <3>2, <3>3
  <2> QED
    BY <1>1, <1>4, <1>5, <2>1 DEF AlarmIsSet, Inserting
<1>11. FrontPlace' /\ WalkPlace'
  BY <1>1 DEF FrontPlace, WalkPlace
<1> QED
  BY <1>6, <1>7, <1>8, <1>9, <1>10, <1>11 DEF AlarmInv

\* The alarm for the head counts from the time that was taken, which is not after now.
LEMMA AlarmKeeps == ASSUME AlarmInv, AlarmList_!Alarm PROVE AlarmInv'
<1>1. /\ pc = "alarm" /\ now' = now /\ t' = t /\ cur_time' = cur_time
      /\ ended_at' = ended_at /\ called' = called /\ head' = head /\ relinked' = relinked
      /\ pc' \in {"crashed", "return"}
  BY DEF AlarmList_!Alarm
<1>2. InOrderOnce(head)' /\ CalledInTime' /\ NewTimer' /\ FrontPlace' /\ WalkPlace'
  BY <1>1
     DEF AlarmInv, InOrderOnce, CalledInTime, NewTimer, FrontPlace, WalkPlace, Inserting
<1>3. FreedTimers'
  BY <1>1 DEF AlarmInv, FreedTimers
<1>4. CASE head = <<>>
  <2>1. alarm' = alarm /\ missed' = missed /\ pc' = "crashed"
    BY <1>4 DEF AlarmList_!Alarm
  <2>2. AlarmTypes' /\ AlarmIsSet'
    BY <1>1, <2>1 DEF AlarmInv, AlarmTypes, AlarmIsSet, Inserting
  <2> QED
    BY <1>2, <1>3, <2>2 DEF AlarmInv
<1>5. CASE head # <<>>
  <2> DEFINE s == ended_at[head[1]] - cur_time
  <2>1. /\ pc' = "return" /\ alarm' = (IF s > 0 THEN now + s ELSE Null)
        /\ missed' = (missed \/ s <= 0)
    BY <1>5 DEF AlarmList_!Alarm, AlarmList_!SetAlarm, AlarmList_!Missed
  <2>2. now \in Nat /\ cur_time \in Nat /\ cur_time <= now /\ missed \in BOOLEAN
    BY DEF AlarmInv, AlarmTypes
  <2>3. ended_at[head[1]] \in Nat
    BY <1>5, ListOfTimers
  <2>4. s \in Int /\ (s > 0 => now + s \in Nat /\ now + s >= ended_at[head[1]])
    BY <2>2, <2>3
  <2>5. s > 0 \/ s <= 0
    BY <2>4
  <2> HIDE DEF s
  <2>6. /\ alarm' \in Nat \cup {Null} /\ missed' \in BOOLEAN
        /\ alarm' # Null => alarm' >= ended_at[head[1]]
        /\ ~missed' => alarm' # Null
    <3>1. CASE s > 0
      BY <2>1, <2>2, <2>4, <3>1, AlarmAssumption
    <3>2. CASE ~(s > 0)
      BY <2>1, <2>2, <2>5, <3>2
    <3> QED
      BY <3>1, <3>2
  <2>7. AlarmTypes'
    BY <1>1, <2>1, <2>6 DEF AlarmInv, AlarmTypes
  <2>8. AlarmIsSet'
    BY <1>1, <1>5, <2>6 DEF AlarmIsSet
  <2> QED
    BY <1>2, <1>3, <2>7, <2>8 DEF AlarmInv
<1> QED
  BY <1>4, <1>5

\* The place is found: what is in the list up to it does not end after the new timer, and
\* what is behind it not before.
LEMMA WalkKeeps == ASSUME AlarmInv, AlarmList_!Walk PROVE AlarmInv'
<1>1. /\ pc = "walk" /\ cur_time' = cur_time
      /\ UNCHANGED <<now, alarm, t, ended_at, head, called, missed, relinked>>
  BY DEF AlarmList_!Walk, AlarmList_!lists
<1>2. PICK len \in Nat :
        /\ DOMAIN head = 1 .. len
        /\ \A k \in 1 .. len : head[k] \in Timers /\ ended_at[head[k]] \in Nat
  BY ListOfTimers
<1>3. /\ ended_at[t] \in Nat /\ \A k \in 1 .. len : called[head[k]] = Null
  BY <1>1, <1>2 DEF AlarmInv, AlarmTypes, NewTimer, FreedTimers, Inserting
<1>4. /\ cur \in Seq(Timers) /\ cur # <<>> /\ Follows
      /\ \A k, j \in 1 .. len : head[k] = cur[1] /\ j <= k => ended_at[head[j]] <= ended_at[t]
  BY <1>1, <1>2 DEF AlarmInv, WalkPlace
<1>5. PICK curlen \in Nat : curlen = Len(cur) /\ DOMAIN cur = 1 .. curlen /\ curlen # 0
  BY <1>4
<1>6. \A j, k \in 1 .. len : j < k => ended_at[head[j]] <= ended_at[head[k]]
  BY <1>2 DEF AlarmInv, InOrderOnce
<1>7. CASE /\ pc' = pc /\ cur' = Tail(cur)
           /\ curlen > 1 /\ (called[cur[2]] # Null \/ ended_at[cur[2]] < ended_at[t])
  <2>1. /\ cur' \in Seq(Timers) /\ cur' # <<>> /\ DOMAIN cur' = 1 .. curlen - 1
        /\ \A j \in 1 .. curlen - 1 : cur'[j] = cur[j + 1] /\ j + 1 \in 1 .. curlen
    <3>1. cur \in Seq(Timers) /\ Len(cur) = curlen /\ curlen \in Nat /\ curlen > 1 /\ cur' = Tail(cur)
      BY <1>4, <1>5, <1>7
    <3>2. cur' \in Seq(Timers) /\ Len(cur') = curlen - 1
      BY <3>1
    <3>3. \A j \in 1 .. curlen - 1 : cur'[j] = cur[j + 1]
      BY <3>1
    <3>4. DOMAIN cur' = 1 .. curlen - 1
      BY <3>2
    <3>5. cur' # <<>>
      <4>1. Len(<<>>) = 0 /\ curlen - 1 # 0
        BY <3>1
      <4> QED
        BY <3>2, <4>1
    <3> QED
      BY <3>1, <3>2, <3>3, <3>4, <3>5
  <2>2. Follows'
    <3>1. ASSUME NEW k \in 1 .. len, NEW j \in 1 .. curlen - 1, head[k] = cur'[j], k + 1 \in 1 .. len
          PROVE  j + 1 \in 1 .. curlen - 1 /\ cur'[j + 1] = head[k + 1]
      <4>1. PICK pos \in 1 .. curlen : pos = j + 1
        BY <1>5
      <4>2. head[k] = cur[pos] /\ k \in DOMAIN head /\ k + 1 \in DOMAIN head /\ pos \in DOMAIN cur
        BY <1>2, <1>5, <2>1, <3>1, <4>1
      <4>3. pos + 1 \in DOMAIN cur /\ cur[pos + 1] = head[k + 1]
        BY <1>4, <4>2, Zenon DEF Follows
      <4>4. pos \in 1 .. curlen - 1 /\ cur'[pos] = cur[pos + 1]
        BY <1>5, <2>1, <4>1, <4>3
      <4> QED
        BY <4>1, <4>3, <4>4
    <3>2. head' = head /\ DOMAIN head = 1 .. len /\ DOMAIN cur' = 1 .. curlen - 1
      BY <1>1, <1>2, <2>1
    <3> QED
      BY <3>1, <3>2 DEF Follows
  <2>3. ASSUME NEW k \in 1 .. len, NEW j \in 1 .. len, head[k] = cur'[1], j <= k
        PROVE  ended_at[head[j]] <= ended_at[t]
    <3>1. cur'[1] = cur[2]
      BY <1>5, <1>7, <2>1
    <3>2. ended_at[head[k]] < ended_at[t]
      BY <1>3, <1>7, <2>3, <3>1
    <3>3. ended_at[head[j]] <= ended_at[head[k]]
      <4>1. CASE j = k
        BY <1>2, <4>1
      <4>2. CASE j # k
        BY <1>6, <2>3, <4>2
      <4> QED
        BY <4>1, <4>2
    <3> QED
      BY <1>2, <1>3, <3>2, <3>3
  <2>4. WalkPlace'
    BY <1>1, <1>2, <1>7, <2>1, <2>2, <2>3 DEF WalkPlace
  <2>5. FrontPlace'
    BY <1>1, <1>7 DEF FrontPlace
  <2> QED
    BY <1>1, <1>7, <2>4, <2>5, SameList DEF Inserting
<1>8. CASE /\ pc' = "link" /\ cur' = cur
           /\ curlen > 1 => called[cur[2]] # Null \/ ended_at[cur[2]] >= ended_at[t]
  <2>1. ASSUME NEW k \in 1 .. len, NEW j \in 1 .. len, head[k] = cur[1], k < j
        PROVE  ended_at[t] <= ended_at[head[j]]
    <3>1. k + 1 \in 1 .. len /\ 1 \in 1 .. curlen
      BY <1>5, <2>1
    <3>2. 1 + 1 \in 1 .. curlen /\ cur[1 + 1] = head[k + 1]
      BY <1>2, <1>4, <1>5, <2>1, <3>1 DEF Follows
    <3>3. curlen > 1 /\ cur[2] = head[k + 1]
      BY <1>5, <3>2
    <3>4. ended_at[t] <= ended_at[head[k + 1]]
      BY <1>2, <1>3, <1>8, <3>1, <3>3
    <3>5. ended_at[head[k + 1]] <= ended_at[head[j]]
      <4>1. CASE j = k + 1
        BY <1>2, <4>1
      <4>2. CASE j # k + 1
        BY <1>6, <2>1, <3>1, <4>2
      <4> QED
        BY <4>1, <4>2
    <3> QED
      BY <1>2, <1>3, <3>1, <3>4, <3>5
  <2>2. WalkPlace'
    BY <1>1, <1>2, <1>4, <1>8, <2>1 DEF WalkPlace
  <2>3. FrontPlace'
    BY <1>8 DEF FrontPlace
  <2> QED
    BY <1>1, <1>8, <2>2, <2>3, SameList DEF Inserting
<1> QED
  BY <1>1, <1>5, <1>7, <1>8 DEF AlarmList_!Walk, AlarmList_!Freed

\* The timer goes behind the place, where it still is, or nowhere.
LEMMA LinkKeeps == ASSUME AlarmInv, AlarmList_!Link PROVE AlarmInv'
<1> DEFINE c == cur[1]
<1>1. /\ pc = "link" /\ pc' = "return" /\ now' = now /\ alarm' = alarm /\ t' = t
      /\ cur_time' = cur_time /\ relinked' = relinked
      /\ ended_at' = ended_at /\ called' = called
      /\ missed' = (missed \/ ~AlarmList_!Contains(head, c))
      /\ head' = IF AlarmList_!Contains(head, c)
                 THEN AlarmList_!InsertAt(head, 1 + CHOOSE k \in DOMAIN head : head[k] = c, t)
                 ELSE head
  BY Zenon DEF AlarmList_!Link
<1>2. /\ t \in Timers /\ called[t] = Null /\ (\A k \in DOMAIN head : head[k] # t)
      /\ ~relinked /\ \A k \in DOMAIN head : called[head[k]] = Null
  BY <1>1 DEF AlarmInv, NewTimer, FreedTimers, Inserting
<1>3. t \in Nat /\ missed \in BOOLEAN /\ ended_at[t] \in Nat
  BY <1>2 DEF AlarmInv, AlarmTypes
<1>4. PICK len \in Nat : /\ len = Len(head) /\ DOMAIN head = 1 .. len /\ head \in Seq(Timers)
                         /\ \A k \in 1 .. len : head[k] \in Timers /\ ended_at[head[k]] \in Nat
  BY ListOfTimers
<1>5. AlarmTypes' /\ CalledInTime' /\ NewTimer' /\ FrontPlace' /\ WalkPlace'
  BY <1>1, <1>3
     DEF AlarmInv, AlarmTypes, CalledInTime, NewTimer, FrontPlace, WalkPlace, Inserting
<1>8. alarm # Null => head # <<>> /\ alarm >= ended_at[head[1]]
  BY DEF AlarmInv, AlarmIsSet
<1>9. head # <<>> /\ ~missed => alarm # Null
  BY <1>1, <1>2 DEF AlarmInv, AlarmIsSet, Inserting
<1>6. CASE ~AlarmList_!Contains(head, c)
  <2>1. head' = head /\ missed' = TRUE
    BY <1>1, <1>6
  <2>2. InOrderOnce(head)'
    BY <1>1, <2>1 DEF AlarmInv, InOrderOnce
  <2>3. FreedTimers' /\ AlarmIsSet'
    BY <1>1, <1>2, <1>8, <2>1 DEF FreedTimers, AlarmIsSet
  <2> QED
    BY <1>5, <2>2, <2>3 DEF AlarmInv
<1>7. CASE AlarmList_!Contains(head, c)
  <2> DEFINE p == CHOOSE k \in DOMAIN head : head[k] = c
  <2>1. p \in 1 .. len /\ head[p] = c
    BY <1>4, <1>7 DEF AlarmList_!Contains
  <2>2. head' = AlarmList_!InsertAt(head, 1 + p, t)
    BY <1>1, <1>7
  <2>3. missed' = missed
    BY <1>1, <1>3, <1>7
  <2> HIDE DEF p
  <2>4. /\ head' \in Seq(Timers) /\ Len(head') = len + 1 /\ DOMAIN head' = 1 .. len + 1
        /\ \A k \in 1 .. len + 1 :
             head'[k] = IF k <= p THEN head[k] ELSE IF k = p + 1 THEN t ELSE head[k - 1]
    <3>1. t \in Timers /\ head \in Seq(Timers) /\ p \in 1 .. Len(head)
      BY <1>2, <1>4, <2>1
    <3>2. len = Len(head) /\ len \in Nat
      BY <1>4
    <3>3. head' \in Seq(Timers) /\ Len(head') = len + 1
      BY <2>2, <3>1, <3>2, TimerBehind
    <3>4. \A k \in 1 .. len + 1 :
            head'[k] = IF k <= p THEN head[k] ELSE IF k = p + 1 THEN t ELSE head[k - 1]
      BY <2>2, <3>1, <3>2, TimerBehind
    <3>5. DOMAIN head' = 1 .. len + 1
      BY <3>2, <3>3
    <3> QED
      BY <3>3, <3>4, <3>5
  <2>5. \A k \in 1 .. len : IF k <= p THEN ended_at[head[k]] <= ended_at[t]
          ELSE ended_at[t] <= ended_at[head[k]]
    <3>1. /\ \A j \in 1 .. len : j <= p => ended_at[head[j]] <= ended_at[t]
          /\ \A j \in 1 .. len : p < j => ended_at[t] <= ended_at[head[j]]
      BY <1>1, <1>4, <2>1 DEF AlarmInv, WalkPlace
    <3> QED
      BY <2>1, <3>1
  <2> DEFINE From(k) == IF k <= p THEN k ELSE k - 1
  <2>6. \A k \in 1 .. len + 1 : k # p + 1 => From(k) \in 1 .. len /\ head'[k] = head[From(k)]
    BY <1>4, <2>1, <2>4
  <2>7. head'[p + 1] = t /\ p + 1 \in 1 .. len + 1
    BY <1>4, <2>1, <2>4
  <2>8. \A j, k \in 1 .. len + 1 :
          /\ j # p + 1 /\ k # p + 1 => (From(j) = From(k) => j = k) /\ (j < k => From(j) < From(k))
          /\ j # p + 1 => (j < p + 1 => From(j) <= p) /\ (p + 1 < j => ~(From(j) <= p))
    BY <1>4, <2>1
  <2> HIDE DEF From
  <2>9. \A k \in 1 .. len + 1 : head'[k] = t <=> k = p + 1
    BY <1>2, <1>4, <2>6, <2>7
  <2>10. ASSUME NEW j \in 1 .. len + 1, NEW k \in 1 .. len + 1, head'[j] = head'[k] PROVE j = k
    <3>1. j = p + 1 <=> k = p + 1
      BY <2>9, <2>10
    <3>2. ASSUME j # p + 1, k # p + 1 PROVE j = k
      <4>1. head[From(j)] = head[From(k)] /\ From(j) \in 1 .. len /\ From(k) \in 1 .. len
        BY <2>6, <2>10, <3>2
      <4>2. From(j) = From(k)
        BY <1>4, <4>1 DEF AlarmInv, InOrderOnce
      <4> QED
        BY <2>8, <3>2, <4>2
    <3> QED
      BY <3>1, <3>2
  <2>11. ASSUME NEW k \in 1 .. len + 1 PROVE head'[k] <= t
    <3>1. CASE k = p + 1
      BY <1>3, <2>7, <3>1
    <3>2. CASE k # p + 1
      BY <1>4, <2>6, <3>2 DEF AlarmInv, InOrderOnce
    <3> QED
      BY <3>1, <3>2
  <2>12. ASSUME NEW j \in 1 .. len + 1, NEW k \in 1 .. len + 1, j < k
         PROVE  ended_at[head'[j]] <= ended_at[head'[k]]
    <3>1. CASE j # p + 1 /\ k # p + 1
      <4>1. From(j) \in 1 .. len /\ From(k) \in 1 .. len /\ From(j) < From(k)
        BY <2>6, <2>8, <2>12, <3>1
      <4> QED
        BY <1>4, <2>6, <3>1, <4>1 DEF AlarmInv, InOrderOnce
    <3>2. CASE j = p + 1
      <4>1. k # p + 1 /\ p + 1 < k
        BY <2>12, <3>2
      <4>2. From(k) \in 1 .. len /\ ~(From(k) <= p) /\ head'[k] = head[From(k)]
        BY <2>6, <2>8, <4>1
      <4> QED
        BY <2>5, <2>7, <3>2, <4>2
    <3>3. CASE k = p + 1
      <4>1. j # p + 1 /\ j < p + 1
        BY <2>12, <3>3
      <4>2. From(j) \in 1 .. len /\ From(j) <= p /\ head'[j] = head[From(j)]
        BY <2>6, <2>8, <4>1
      <4> QED
        BY <2>5, <2>7, <3>3, <4>2
    <3> QED
      BY <3>1, <3>2, <3>3
  <2>13. InOrderOnce(head)'
    BY <1>1, <2>4, <2>10, <2>11, <2>12 DEF InOrderOnce
  <2>14. head' # <<>> /\ head # <<>> /\ head'[1] = head[1]
    BY <1>4, <2>1, <2>4
  <2>15. FreedTimers'
    <3>1. \A k \in 1 .. len + 1 : called[head'[k]] = Null
      BY <1>2, <1>4, <2>6, <2>7
    <3> QED
      BY <1>1, <1>2, <2>4, <3>1 DEF FreedTimers
  <2>16. AlarmIsSet'
    BY <1>1, <1>2, <1>8, <1>9, <2>3, <2>14 DEF AlarmIsSet
  <2> QED
    BY <1>5, <2>13, <2>15, <2>16 DEF AlarmInv
<1> QED
  BY <1>6, <1>7

\* The handler takes the head away, whose time has come, and sets the alarm for the next; or
\* it uses a timer that was freed.
LEMMA HandlerKeeps == ASSUME AlarmInv, AlarmList_!alarm_proc PROVE AlarmInv'
<1>1. /\ alarm # Null /\ now >= alarm /\ now' = now /\ t' = t /\ cur' = cur /\ cur_time' = cur_time
      /\ next' = next /\ ended_at' = ended_at /\ relinked' = relinked /\ pc \notin {"crashed", "wild"}
  BY DEF AlarmList_!alarm_proc
<1>2. head # <<>> /\ alarm >= ended_at[head[1]]
  BY <1>1 DEF AlarmInv, AlarmIsSet
<1>4. PICK len \in Nat :
        /\ len = Len(head) /\ DOMAIN head = 1 .. len /\ head \in Seq(Timers) /\ len # 0
        /\ \A k \in 1 .. len : head[k] \in Timers /\ ended_at[head[k]] \in Nat
  BY <1>2, ListOfTimers
<1>5. CASE \E k \in {1, 2} \cap DOMAIN head : called[head[k]] # Null
  <2>1. pc' = "wild" /\ alarm' = alarm /\ called' = called /\ head' = head /\ missed' = missed
    BY <1>2, <1>5 DEF AlarmList_!alarm_proc, AlarmList_!Freed
  <2>2. relinked
    BY <1>5 DEF AlarmInv, FreedTimers
  <2>3. AlarmTypes' /\ InOrderOnce(head)' /\ CalledInTime'
    BY <1>1, <2>1 DEF AlarmInv, AlarmTypes, InOrderOnce, CalledInTime
  <2>4. NewTimer' /\ FreedTimers' /\ FrontPlace' /\ WalkPlace'
    BY <1>1, <2>1, <2>2 DEF NewTimer, FreedTimers, FrontPlace, WalkPlace, Inserting
  <2>5. AlarmIsSet'
    BY <1>1, <2>1, <2>2 DEF AlarmInv, AlarmIsSet
  <2> QED
    BY <2>3, <2>4, <2>5 DEF AlarmInv
<1>6. CASE ~\E k \in {1, 2} \cap DOMAIN head : called[head[k]] # Null
  <2>1. ~relinked
    <3>1. pc \notin Inserting => pc \in {"idle", "alarm", "return"}
      BY <1>1 DEF AlarmInv, AlarmTypes
    <3>2. relinked => 2 \in DOMAIN head /\ called[head[2]] # Null
      BY <3>1 DEF AlarmInv, NewTimer, FreedTimers
    <3> QED
      BY <1>6, <3>2
  <2>3. /\ called' = [called EXCEPT ![head[1]] = now] /\ head' = Tail(head) /\ pc' = pc
        /\ IF Len(head) = 1 THEN alarm' = Null /\ missed' = missed
           ELSE LET s == ended_at[head[2]] - ended_at[head[1]]
                IN alarm' = (IF s > 0 THEN now + s ELSE Null) /\ missed' = (missed \/ s <= 0)
    BY <1>2, <1>6 DEF AlarmList_!alarm_proc, AlarmList_!SetAlarm, AlarmList_!Missed,
                      AlarmList_!Freed
  <2>5. \A k \in 1 .. len : ended_at[head[k]] \in Nat
    BY <1>4
  <2>6. now \in Nat /\ alarm \in Nat /\ now >= ended_at[head[1]] /\ missed \in BOOLEAN
    BY <1>1, <1>2, <1>4, <2>5 DEF AlarmInv, AlarmTypes
  <2>7. /\ head' \in Seq(Timers) /\ Len(head') = len - 1 /\ DOMAIN head' = 1 .. len - 1
        /\ \A k \in 1 .. len - 1 : head'[k] = head[k + 1] /\ k + 1 \in 1 .. len
    BY <2>3, <1>4
  <2>8. /\ called' \in [Timers -> Nat \cup {Null}] /\ called'[head[1]] = now
        /\ \A x \in Timers : x # head[1] => called'[x] = called[x]
    BY <2>3, <1>4, <2>6 DEF AlarmInv, AlarmTypes
  <2>9. \A k \in 1 .. len - 1 : head'[k] # head[1]
    <3> SUFFICES ASSUME NEW k \in 1 .. len - 1, head'[k] = head[1] PROVE FALSE
      OBVIOUS
    <3>1. \A a, b \in 1 .. len : head[a] = head[b] => a = b
      BY <1>4 DEF AlarmInv, InOrderOnce
    <3>2. 1 \in 1 .. len /\ k + 1 \in 1 .. len /\ head[k + 1] = head[1]
      BY <1>4, <2>7
    <3> QED
      BY <3>1, <3>2
  <2>10. InOrderOnce(head)'
    <3>1. ASSUME NEW j \in 1 .. len - 1, NEW k \in 1 .. len - 1, head'[j] = head'[k] PROVE j = k
      <4>1. \A a, b \in 1 .. len : head[a] = head[b] => a = b
        BY <1>4 DEF AlarmInv, InOrderOnce
      <4>2. j + 1 = k + 1
        BY <2>7, <3>1, <4>1
      <4> QED
        BY <4>2
    <3>2. ASSUME NEW k \in 1 .. len - 1 PROVE head'[k] <= t
      BY <1>4, <2>7 DEF AlarmInv, InOrderOnce
    <3>3. ASSUME NEW j \in 1 .. len - 1, NEW k \in 1 .. len - 1, j < k
          PROVE  ended_at[head'[j]] <= ended_at[head'[k]]
      <4>1. j + 1 < k + 1
        BY <3>3
      <4>2. ended_at[head[j + 1]] <= ended_at[head[k + 1]]
        <5>1. \A a, b \in 1 .. len : a < b => ended_at[head[a]] <= ended_at[head[b]]
          BY <1>4 DEF AlarmInv, InOrderOnce
        <5> QED
          BY <2>7, <4>1, <5>1
      <4> QED
        BY <2>7, <4>2
    <3> QED
      BY <1>1, <2>7, <3>1, <3>2, <3>3 DEF InOrderOnce
  <2>11. /\ alarm' \in Nat \cup {Null} /\ missed' \in BOOLEAN
         /\ alarm' # Null => len # 1 /\ alarm' >= ended_at[head[2]]
         /\ len # 1 /\ ~missed' => alarm' # Null
    <3>1. CASE len = 1
      BY <2>3, <1>4, <2>6, <3>1
    <3>2. CASE len # 1
      <4> DEFINE s == ended_at[head[2]] - ended_at[head[1]]
      <4>1. ended_at[head[2]] \in Nat /\ ended_at[head[1]] \in Nat
        BY <1>4, <2>5, <3>2
      <4>2. s \in Int /\ (s > 0 => now + s \in Nat /\ now + s >= ended_at[head[2]])
        BY <2>6, <4>1
      <4>3. alarm' = (IF s > 0 THEN now + s ELSE Null) /\ missed' = (missed \/ s <= 0)
        BY <2>3, <1>4, <3>2
      <4>4. s > 0 \/ s <= 0
        BY <4>2
      <4> HIDE DEF s
      <4>5. CASE s > 0
        BY <2>6, <3>2, <4>2, <4>3, <4>5, AlarmAssumption
      <4>6. CASE ~(s > 0)
        BY <2>6, <3>2, <4>3, <4>4, <4>6
      <4> QED
        BY <4>5, <4>6
    <3> QED
      BY <3>1, <3>2
  <2>2. \A k \in 1 .. len : called[head[k]] = Null
    BY <1>4, <2>1 DEF AlarmInv, FreedTimers
  <2>12. AlarmTypes'
    BY <1>1, <2>3, <2>8, <2>11 DEF AlarmInv, AlarmTypes
  <2>13. CalledInTime'
    <3> SUFFICES ASSUME NEW x \in Timers PROVE /\ x > t => called'[x] = Null
                                               /\ called'[x] # Null => called'[x] >= ended_at[x]
      BY <1>1 DEF CalledInTime
    <3>1. CASE x = head[1]
      <4>1. 1 \in 1 .. len /\ head[1] \in Timers
        BY <1>4
      <4>2. head[1] \in Nat
        BY <4>1, AlarmAssumption
      <4>3. head[1] <= t /\ t \in Nat
        BY <1>4, <4>1 DEF AlarmInv, AlarmTypes, InOrderOnce
      <4> QED
        BY <2>6, <2>8, <3>1, <4>2, <4>3
    <3>2. CASE x # head[1]
      BY <2>8, <3>2 DEF AlarmInv, CalledInTime
    <3> QED
      BY <3>1, <3>2
  <2>14. NewTimer'
    <3> SUFFICES ASSUME pc \in Inserting
                 PROVE  /\ t \in Timers /\ called'[t] = Null
                        /\ \A k \in 1 .. len - 1 : head'[k] # t
      BY <1>1, <2>3, <2>7, <2>1 DEF NewTimer
    <3>1. t \in Timers /\ called[t] = Null /\ \A k \in 1 .. len : head[k] # t
      BY <1>4 DEF AlarmInv, NewTimer
    <3>2. t # head[1]
      BY <1>4, <3>1
    <3> QED
      BY <2>7, <2>8, <3>1, <3>2
  <2>15. FreedTimers'
    <3>1. \A k \in 1 .. len - 1 : called'[head'[k]] = Null
      <4> SUFFICES ASSUME NEW k \in 1 .. len - 1 PROVE called'[head'[k]] = Null
        OBVIOUS
      <4>1. PICK pos \in 1 .. len : pos = k + 1
        BY <2>7
      <4>2. head'[k] = head[pos] /\ head[pos] \in Timers /\ head[pos] # head[1]
        BY <1>4, <2>7, <2>9, <4>1
      <4> QED
        BY <2>8, <2>2, <4>2
    <3>2. pc # "wild" /\ ~relinked' /\ pc' = pc /\ DOMAIN head' = 1 .. len - 1
      BY <1>1, <2>3, <2>7, <2>1
    <3> QED
      BY <3>1, <3>2 DEF FreedTimers
  <2>16. AlarmIsSet'
    <3>1. len # 1 => head' # <<>> /\ head'[1] = head[2]
      BY <1>4, <2>7
    <3>2. head' # <<>> => len # 1
      BY <1>4, <2>7
    <3> QED
      BY <1>1, <2>11, <3>1, <3>2 DEF AlarmIsSet
  <2>17. FrontPlace'
    <3>1. ASSUME pc \in {"next", "head"}, NEW k \in 1 .. len - 1
          PROVE  ended_at[t] <= ended_at[head'[k]]
      BY <1>4, <2>7, <3>1 DEF AlarmInv, FrontPlace
    <3>2. ASSUME pc = "head"
          PROVE  /\ InOrderOnce(next)'
                 /\ \A k \in DOMAIN next : next[k] # t /\ ended_at[t] <= ended_at[next[k]]
                 /\ next # <<>> /\ called'[next[1]] # Null
      <4>1. /\ InOrderOnce(next)
            /\ \A k \in DOMAIN next : next[k] # t /\ ended_at[t] <= ended_at[next[k]]
            /\ next = head \/ (next # <<>> /\ called[next[1]] # Null)
        BY <3>2 DEF AlarmInv, FrontPlace
      <4>2. InOrderOnce(next)'
        BY <1>1, <4>1 DEF InOrderOnce
      <4>3. next # <<>> /\ next \in Seq(Timers)
        BY <1>2, <4>1 DEF InOrderOnce
      <4>4. next[1] \in Timers
        BY <4>3
      <4>5. called'[next[1]] # Null
        BY <2>6, <2>8, <4>1, <4>4, AlarmAssumption
      <4> QED
        BY <4>1, <4>2, <4>3, <4>5
    <3> QED
      BY <1>1, <2>3, <2>7, <3>1, <3>2 DEF FrontPlace
  <2>18. WalkPlace'
    <3>1. pc \in {"test", "walk", "link"} => cur \in Seq(Timers) /\ cur # <<>>
      BY DEF AlarmInv, WalkPlace
    <3>2. ASSUME pc \in {"test", "walk"} PROVE Follows'
      <4>1. ASSUME NEW k \in 1 .. len - 1, NEW j \in DOMAIN cur, head'[k] = cur[j],
                   k + 1 \in 1 .. len - 1
            PROVE  j + 1 \in DOMAIN cur /\ cur[j + 1] = head'[k + 1]
        <5>1. PICK pos \in 1 .. len : pos = k + 1
          BY <2>7
        <5>2. pos \in DOMAIN head /\ head[pos] = cur[j] /\ pos + 1 \in DOMAIN head
          BY <1>4, <2>7, <4>1, <5>1
        <5>3. j + 1 \in DOMAIN cur /\ cur[j + 1] = head[pos + 1]
          BY <3>2, <5>2 DEF AlarmInv, WalkPlace, Follows
        <5>4. head'[pos] = head[pos + 1]
          BY <2>7, <4>1, <5>1
        <5> QED
          BY <5>1, <5>3, <5>4
      <4> QED
        BY <1>1, <2>7, <4>1 DEF Follows
    <3>3. ASSUME pc = "test", NEW k \in 1 .. len - 1, head'[k] = cur[1] PROVE FALSE
      <4>1. k + 1 \in DOMAIN head /\ head[k + 1] = cur[1] /\ k + 1 # 1
        BY <1>4, <2>7, <3>3
      <4> QED
        BY <3>3, <4>1 DEF AlarmInv, WalkPlace
    <3>4. ASSUME pc \in {"walk", "link"}, NEW k \in 1 .. len - 1, NEW j \in 1 .. len - 1,
                 head'[k] = cur[1], j <= k
          PROVE  ended_at[head'[j]] <= ended_at[t]
      <4>1. /\ k + 1 \in DOMAIN head /\ j + 1 \in DOMAIN head /\ head[k + 1] = cur[1]
            /\ j + 1 <= k + 1 /\ head'[j] = head[j + 1]
        BY <1>4, <2>7, <3>4
      <4> QED
        BY <3>4, <4>1 DEF AlarmInv, WalkPlace
    <3>5. ASSUME pc = "link", NEW k \in 1 .. len - 1, NEW j \in 1 .. len - 1,
                 head'[k] = cur[1], k < j
          PROVE  ended_at[t] <= ended_at[head'[j]]
      <4>1. /\ k + 1 \in DOMAIN head /\ j + 1 \in DOMAIN head /\ head[k + 1] = cur[1]
            /\ k + 1 < j + 1 /\ head'[j] = head[j + 1]
        BY <1>4, <2>7, <3>5
      <4> QED
        BY <3>5, <4>1 DEF AlarmInv, WalkPlace
    <3> QED
      BY <1>1, <2>3, <2>7, <3>1, <3>2, <3>3, <3>4, <3>5 DEF WalkPlace
  <2> QED
    BY <2>10, <2>12, <2>13, <2>14, <2>15, <2>16, <2>17, <2>18 DEF AlarmInv
<1> QED
  BY <1>5, <1>6

\* No step of the program and no handler disturbs the invariant.
LEMMA AlarmStep == ASSUME AlarmInv, [AlarmList_!Next]_(AlarmList_!vars) PROVE AlarmInv'
<1>1. CASE UNCHANGED AlarmList_!vars
  <2>1. UNCHANGED <<now, alarm, pc, t, cur, cur_time, next, head, ended_at, called, missed, relinked>>
    BY <1>1 DEF AlarmList_!vars, AlarmList_!local, AlarmList_!lists
  <2>2. AlarmTypes' /\ InOrderOnce(head)' /\ CalledInTime' /\ NewTimer'
    BY <2>1 DEF AlarmInv, AlarmTypes, InOrderOnce, CalledInTime, NewTimer
  <2>3. FreedTimers' /\ AlarmIsSet' /\ FrontPlace' /\ WalkPlace'
    BY <2>1 DEF AlarmInv, FreedTimers, AlarmIsSet, FrontPlace, WalkPlace, Follows, InOrderOnce
  <2> QED
    BY <2>2, <2>3 DEF AlarmInv
<1>2. CASE AlarmList_!Tick
  <2>1. /\ now' = now + 1
        /\ UNCHANGED <<alarm, pc, t, cur, cur_time, next, head, ended_at, called, missed, relinked>>
    BY <1>2 DEF AlarmList_!Tick, AlarmList_!local, AlarmList_!lists
  <2>2. AlarmTypes' /\ InOrderOnce(head)' /\ CalledInTime' /\ NewTimer'
    BY <2>1 DEF AlarmInv, AlarmTypes, InOrderOnce, CalledInTime, NewTimer
  <2>3. FreedTimers' /\ AlarmIsSet' /\ FrontPlace' /\ WalkPlace'
    BY <2>1 DEF AlarmInv, FreedTimers, AlarmIsSet, FrontPlace, WalkPlace, Follows, InOrderOnce
  <2> QED
    BY <2>2, <2>3 DEF AlarmInv
<1> QED
  BY <1>1, <1>2, SetKeeps, TimeKeeps, CurKeeps, TestKeeps, SetNextKeeps, SetHeadKeeps,
     AlarmKeeps, WalkKeeps, LinkKeeps, ReturnKeeps, HandlerKeeps
  DEF AlarmList_!Next

\* No proc runs early, no timer is used after it was freed, and an alarm waits for the list,
\* except as TimersRun says.
LEMMA AlarmHold == AlarmInv => AlarmList_!TimersRun
<1> SUFFICES ASSUME AlarmInv PROVE AlarmList_!TimersRun
  OBVIOUS
<1>1. PICK len \in Nat : DOMAIN head = 1 .. len
  BY ListOfTimers
<1>2. \A k \in DOMAIN head : k > 1 => k - 1 \in DOMAIN head /\ k - 1 < k
  BY <1>1
<1>3. \A k \in DOMAIN head : k > 1 => ended_at[head[k - 1]] <= ended_at[head[k]]
  BY <1>2 DEF AlarmInv, InOrderOnce
<1>4. \A x \in Timers : called[x] # Null => called[x] >= ended_at[x]
  BY DEF AlarmInv, CalledInTime
<1>5. ~relinked => pc # "wild" /\ \A k \in DOMAIN head : called[head[k]] = Null
  BY DEF AlarmInv, FreedTimers
<1>6. pc = "idle" /\ head # <<>> /\ ~missed => alarm # Null
  BY DEF AlarmInv, AlarmIsSet
<1> QED
  BY <1>3, <1>4, <1>5, <1>6 DEF AlarmList_!TimersRun
===============================================================================
