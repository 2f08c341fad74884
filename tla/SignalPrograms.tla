--------------------------- MODULE SignalPrograms ---------------------------
(***************************************************************************)
(* The programs of signals/ as sequences of the calls that matter for      *)
(* signals, run by a process to which a signal may come between any two    *)
(* of them, inside a handler too.  Of signals/: sleep1, sleep2 (called by  *)
(* tsleep2), read1, read2, critical, suspend1, suspend2, mask, sigtstp,    *)
(* child, system and abort.  A step of a program is                        *)
(*   "signal" s h    set the disposition of s   "keep" s  and save it      *)
(*   "back" s        set the saved disposition  "if" v k  if flag = v go   *)
(*   "unlessDfl" s k if the saved one is not              to k             *)
(*                   the default go to k                                   *)
(*   "block" S, "unblock" S, "mask" S, "oldmask"                           *)
(*   "alarm" n       "kill" s (to itself)       "set" v   flag := v        *)
(*   "setjmp" k      k is where longjmp goes    "longjmp", "siglongjmp"    *)
(*   "pause", "suspend" S, "read" k (k: when interrupted), "waitpid"       *)
(*   "fork" k        k: on an error             "wait", "flush", "goto" k  *)
(*   "unignore" s, "flushIf" s: if s is ignored, if it has its default     *)
(*   "work", "return" (of a handler), "exit"                               *)
(***************************************************************************)
EXTENDS Integers, Sequences

CONSTANTS Programs,      \* those to run
          Seconds,       \* the argument of the alarms: not 0
          MaxSignals     \* bound: signals that are sent

sleep1 == << <<"signal", "ALRM", "ret">>, <<"alarm", Seconds>>, <<"pause">>, <<"alarm", 0>>,
             <<"exit">> >>
tsleep2 == << <<"signal", "INT", "sig_int">>, <<"signal", "ALRM", "jump">>, <<"setjmp", 6>>,
              <<"alarm", Seconds>>, <<"pause">>, <<"alarm", 0>>, <<"exit">> >>
sig_int == << <<"work">>, <<"return">> >>
read1 == << <<"signal", "ALRM", "ret">>, <<"alarm", Seconds>>, <<"read", 5>>, <<"alarm", 0>>,
            <<"exit">> >>
read2 == << <<"signal", "ALRM", "jump">>, <<"setjmp", 6>>, <<"alarm", Seconds>>, <<"read", 6>>,
            <<"alarm", 0>>, <<"exit">> >>
critical == << <<"signal", "QUIT", "sig_quit">>, <<"block", {"QUIT"}>>, <<"work">>,
               <<"oldmask">>, <<"work">>, <<"exit">> >>
sig_quit == << <<"signal", "QUIT", "dfl">>, <<"return">> >>
suspend1 == << <<"signal", "INT", "ret">>, <<"block", {"INT"}>>, <<"work">>,
               <<"suspend", {"USR1"}>>, <<"oldmask">>, <<"exit">> >>
\* mutant: SIGQUIT is not blocked
suspend2Unblocked == << <<"signal", "INT", "ret">>, <<"signal", "QUIT", "setflag">>,
               <<"work">>, <<"if", 1, 7>>, <<"suspend", {}>>, <<"goto", 4>>,
               <<"set", 0>>, <<"oldmask">>, <<"exit">> >>
suspend2 == << <<"signal", "INT", "ret">>, <<"signal", "QUIT", "setflag">>,
               <<"block", {"QUIT"}>>, <<"if", 1, 7>>, <<"suspend", {}>>, <<"goto", 4>>,
               <<"set", 0>>, <<"oldmask">>, <<"exit">> >>
mask_c == << <<"signal", "USR1", "sig_usr1">>, <<"signal", "ALRM", "ret">>, <<"setjmp", 7>>,
             <<"set", 1>>, <<"pause">>, <<"goto", 5>>, <<"exit">> >>
sig_usr1 == << <<"if", 0, 6>>, <<"alarm", Seconds>>, <<"work">>, <<"set", 0>>,
               <<"siglongjmp">>, <<"return">> >>
\* the handler only under a shell with job control, where SIGTSTP had its default
sigtstp == << <<"keep", "TSTP", "ign">>, <<"unlessDfl", "TSTP", 4>>,
              <<"signal", "TSTP", "sig_tstp">>, <<"read", 4>>, <<"exit">> >>
sig_tstp == << <<"unblock", {"TSTP"}>>, <<"signal", "TSTP", "dfl">>, <<"kill", "TSTP">>,
               <<"signal", "TSTP", "sig_tstp">>, <<"return">> >>
child == << <<"signal", "CHLD", "sig_cld">>, <<"fork", 3>>, <<"pause">>, <<"exit">> >>
sig_cld == << <<"signal", "CHLD", "sig_cld">>, <<"wait">>, <<"return">> >>
\* mutant: SIGCHLD is not blocked
systemUnblocked == << <<"signal", "CHLD", "sig_cld">>, <<"keep", "INT", "ign">>,
             <<"keep", "QUIT", "ign">>, <<"work">>, <<"fork", 7>>, <<"waitpid">>,
             <<"back", "INT">>, <<"back", "QUIT">>, <<"oldmask">>, <<"exit">> >>
\* called by a program that catches SIGCHLD
system == << <<"signal", "CHLD", "sig_cld">>, <<"keep", "INT", "ign">>, <<"keep", "QUIT", "ign">>,
             <<"block", {"CHLD"}>>, <<"fork", 7>>, <<"waitpid">>,
             <<"back", "INT">>, <<"back", "QUIT">>, <<"oldmask">>, <<"exit">> >>
\* the signals but ABRT are blocked
abort == << <<"unignore", "ABRT">>, <<"flushIf", "ABRT">>, <<"mask", {"INT", "QUIT"}>>,
            <<"kill", "ABRT">>, <<"flush">>, <<"signal", "ABRT", "dfl">>,
            <<"mask", {"INT", "QUIT"}>>, <<"kill", "ABRT">>, <<"exit">> >>

code == [sleep1 |-> sleep1, tsleep2 |-> tsleep2, read1 |-> read1, read2 |-> read2,
         critical |-> critical, suspend1 |-> suspend1, suspend2 |-> suspend2, mask |-> mask_c,
         sigtstp |-> sigtstp, child |-> child, system |-> system, abort |-> abort,
         sig_int |-> sig_int, sig_quit |-> sig_quit, sig_usr1 |-> sig_usr1,
         sig_tstp |-> sig_tstp, sig_cld |-> sig_cld,
         ret |-> << <<"return">> >>, jump |-> << <<"longjmp">> >>,
         setflag |-> << <<"set", 1>>, <<"return">> >>]

\* the signals that others send to a program
Sent == [p \in DOMAIN code |->
           CASE p \in {"tsleep2", "suspend1"} -> {"INT"}
             [] p = "critical" -> {"QUIT"}
             [] p \in {"suspend2", "system"} -> {"INT", "QUIT"}
             [] p = "mask" -> {"USR1"}
             [] p = "sigtstp" -> {"TSTP"}
             [] OTHER -> {}]
Signals == {"ALRM", "INT", "QUIT", "USR1", "TSTP", "CHLD", "ABRT"}

VARIABLES prog, st,      \* the program; "running", "stopped", "exit" or the signal that killed it
          at, pc,        \* the code that runs, and its step
          stack,         \* what the handlers return to: code, pc, mask
          disp, saved,   \* dispositions
          mask, oldmask, pending,
          env,           \* of setjmp: pc and mask
          flag, alarm, input, flushed,
          kid, status,   \* the child: "none", "runs", "zombie", "gone"; waitpid's result
          sent

memory == <<env, flag, input, flushed, status>>
vars == <<prog, st, at, pc, stack, disp, saved, mask, oldmask, pending, alarm, kid, sent, memory>>

Init ==
  /\ prog \in Programs
  /\ st = "running"
  /\ at = prog /\ pc = 1 /\ stack = <<>>
  /\ \E h \in {"dfl", "ign", "ret"} :
       disp = [s \in Signals |-> IF \/ s = "ABRT" /\ prog = "abort"
                                    \/ s = "TSTP" /\ prog = "sigtstp" /\ h # "ret"
                                 THEN h ELSE "dfl"]
  /\ saved = disp
  /\ mask \in {{}, IF prog = "abort" THEN {"ABRT"} ELSE {}} /\ oldmask = {} /\ pending = {}
  /\ env = <<0, {}>> /\ flag = 0 /\ alarm = 0
  /\ input \in (IF prog \in {"read1", "read2", "sigtstp"} THEN {0, 1} ELSE {0})
  /\ flushed = FALSE
  /\ kid = "none" /\ status = "none"
  /\ sent = 0

Op == code[at][pc]
Is(o) == st = "running" /\ Op[1] = o
GoTo(k) == pc' = k /\ UNCHANGED <<at, stack>>
Fall == GoTo(pc + 1)

Dispositions ==
  /\ \/ /\ Is("signal")
        /\ disp' = [disp EXCEPT ![Op[2]] = Op[3]] /\ UNCHANGED <<saved, flushed>>
     \/ /\ Is("keep")
        /\ saved' = [saved EXCEPT ![Op[2]] = disp[Op[2]]]
        /\ disp' = [disp EXCEPT ![Op[2]] = Op[3]] /\ UNCHANGED flushed
     \/ /\ Is("back")
        /\ disp' = [disp EXCEPT ![Op[2]] = saved[Op[2]]] /\ UNCHANGED <<saved, flushed>>
     \/ /\ Is("unignore")
        /\ disp' = [disp EXCEPT ![Op[2]] = IF @ = "ign" THEN "dfl" ELSE @]
        /\ UNCHANGED <<saved, flushed>>
     \/ /\ Is("flushIf")
        /\ flushed' = (flushed \/ disp[Op[2]] = "dfl") /\ UNCHANGED <<disp, saved>>
     \/ Is("flush") /\ flushed' = TRUE /\ UNCHANGED <<disp, saved>>
  /\ pending' = {s \in pending : disp'[s] # "ign"}
  /\ Fall
  /\ UNCHANGED <<prog, st, mask, oldmask, env, flag, alarm, input, kid, status, sent>>

Masks ==
  /\ \/ Is("block") /\ mask' = mask \cup Op[2] /\ oldmask' = mask
     \/ Is("unblock") /\ mask' = mask \ Op[2] /\ UNCHANGED oldmask
     \/ Is("mask") /\ mask' = Op[2] /\ UNCHANGED oldmask
     \/ Is("oldmask") /\ mask' = oldmask /\ UNCHANGED oldmask
  /\ Fall
  /\ UNCHANGED <<prog, st, disp, saved, pending, alarm, kid, sent, memory>>

Flow ==
  /\ \/ Is("if") /\ GoTo(IF flag = Op[2] THEN Op[3] ELSE pc + 1) /\ UNCHANGED <<flag, env, alarm, st>>
     \/ /\ Is("unlessDfl")
        /\ GoTo(IF saved[Op[2]] # "dfl" THEN Op[3] ELSE pc + 1)
        /\ UNCHANGED <<flag, env, alarm, st>>
     \/ Is("goto") /\ GoTo(Op[2]) /\ UNCHANGED <<flag, env, alarm, st>>
     \/ Is("set") /\ Fall /\ flag' = Op[2] /\ UNCHANGED <<env, alarm, st>>
     \/ Is("work") /\ Fall /\ UNCHANGED <<flag, env, alarm, st>>
     \/ Is("alarm") /\ Fall /\ alarm' = Op[2] /\ UNCHANGED <<flag, env, st>>
     \/ Is("setjmp") /\ Fall /\ env' = <<Op[2], mask>> /\ UNCHANGED <<flag, alarm, st>>
     \/ Is("exit") /\ GoTo(pc) /\ st' = "exit" /\ UNCHANGED <<flag, env, alarm>>
  /\ UNCHANGED <<prog, disp, saved, mask, oldmask, pending, input, flushed, kid, status, sent>>

\* the end of a handler: a return, or a jump into main that only siglongjmp combines with
\* the old mask
Leave ==
  /\ \/ /\ Is("return")
        /\ LET f == stack[Len(stack)] IN at' = f[1] /\ pc' = f[2] /\ mask' = f[3]
        /\ stack' = SubSeq(stack, 1, Len(stack) - 1)
     \/ /\ Is("longjmp") \/ Is("siglongjmp")
        /\ at' = prog /\ pc' = env[1] /\ stack' = <<>>
        /\ mask' = IF Is("longjmp") THEN mask ELSE env[2]
  /\ UNCHANGED <<prog, st, disp, saved, oldmask, pending, alarm, kid, sent, memory>>

\* with nothing to read it waits; the end of the input ends the program
Read ==
  /\ Is("read")
  /\ \/ input > 0 /\ input' = input - 1 /\ GoTo(IF prog = "sigtstp" THEN pc ELSE pc + 1)
     \/ input = 0 /\ Fall /\ UNCHANGED input
  /\ UNCHANGED <<prog, st, disp, saved, mask, oldmask, pending, alarm, kid, sent,
                 env, flag, flushed, status>>

Children ==
  /\ \/ Is("fork") /\ Fall /\ kid' = "runs" /\ UNCHANGED status
     \/ Is("fork") /\ GoTo(Op[2]) /\ status' = "noChild" /\ UNCHANGED kid
     \/ Is("waitpid") /\ kid = "zombie" /\ Fall /\ kid' = "gone" /\ status' = "command"
     \/ Is("waitpid") /\ kid = "gone" /\ Fall /\ status' = "error" /\ UNCHANGED kid
     \/ Is("wait") /\ kid # "runs" /\ Fall /\ kid' = "gone" /\ UNCHANGED status
  /\ UNCHANGED <<prog, st, disp, saved, mask, oldmask, pending, env, flag, alarm, input,
                 flushed, sent>>

\* what a signal does that is not blocked: then is where the code goes on, with old as mask
Takes(s, during, then, old) ==
  IF disp[s] = "ign" \/ (disp[s] = "dfl" /\ s = "CHLD")
  THEN GoTo(pc) /\ UNCHANGED <<st, mask>>
  ELSE IF disp[s] = "dfl"
  THEN st' = (IF s = "TSTP" THEN "stopped" ELSE s) /\ GoTo(then) /\ UNCHANGED mask
  ELSE /\ stack' = Append(stack, <<at, then, old>>)
       /\ at' = disp[s] /\ pc' = 1
       /\ mask' = during \cup {s}
       /\ UNCHANGED st

\* a pending signal comes before the call, or while the call waits
Deliver(s) ==
  /\ st = "running"
  /\ s \in pending
  /\ pending' = pending \ {s}
  /\ \/ s \notin mask /\ Takes(s, mask, pc, mask)
     \/ Is("pause") /\ s \notin mask /\ Takes(s, mask, pc + 1, mask)
     \/ Is("suspend") /\ s \notin Op[2] /\ Takes(s, Op[2], pc + 1, mask)
     \/ Is("read") /\ s = "ALRM" /\ s \notin mask /\ Takes(s, mask, Op[2], mask)
  /\ UNCHANGED <<prog, disp, saved, oldmask, alarm, kid, sent, memory>>

\* a signal to itself that is not blocked comes before kill returns
Kill ==
  /\ Is("kill")
  /\ IF Op[2] \in mask THEN pending' = pending \cup {Op[2]} /\ Fall /\ UNCHANGED <<st, mask>>
     ELSE pending' = pending \ {Op[2]} /\ Takes(Op[2], mask, pc + 1, mask)
  /\ UNCHANGED <<prog, disp, saved, oldmask, alarm, kid, sent, memory>>

Continue ==
  /\ st = "stopped"
  /\ st' = "running"
  /\ UNCHANGED <<prog, at, pc, stack, disp, saved, mask, oldmask, pending, alarm, kid, sent, memory>>

Alive == st \in {"running", "stopped"}
Tick ==
  /\ Alive /\ alarm > 0
  /\ alarm' = alarm - 1
  /\ pending' = IF alarm = 1 THEN pending \cup {"ALRM"} ELSE pending
  /\ UNCHANGED <<prog, st, at, pc, stack, disp, saved, mask, oldmask, kid, sent, memory>>

Others ==
  /\ Alive
  /\ \/ /\ sent < MaxSignals
        /\ sent' = sent + 1
        /\ \E s \in Sent[prog] : pending' = IF disp[s] = "ign" THEN pending ELSE pending \cup {s}
        /\ UNCHANGED kid
     \/ kid = "runs" /\ kid' = "zombie" /\ pending' = pending \cup {"CHLD"} /\ UNCHANGED sent
  /\ UNCHANGED <<prog, st, at, pc, stack, disp, saved, mask, oldmask, alarm, memory>>

Next == \/ Dispositions \/ Masks \/ Flow \/ Leave \/ Read \/ Children \/ Kill \/ Continue
        \/ Tick \/ Others \/ \E s \in Signals : Deliver(s)
Spec == Init /\ [][Next]_vars

\* the programs that wait for a signal may do so for ever
Waiters == {"sleep1", "read1", "suspend1", "suspend2", "mask", "sigtstp", "child"}
Done == ~Alive \/ (prog \in Waiters /\ Op[1] \in {"pause", "suspend", "read"})
-----------------------------------------------------------------------------
\* No wakeup is lost by the programs that are written against it: sleep2 and read2 wait only
\* while their alarm is still to come, suspend2 only if it has not seen SIGQUIT.
WakeupNotLost ==
  st = "running" /\ at = prog =>
    /\ prog \in {"tsleep2", "read2"} /\ Op[1] \in {"pause", "read"} =>
         alarm > 0 \/ "ALRM" \in pending
    /\ prog = "suspend2" /\ Op[1] = "suspend" => flag = 0

\* abort ends the process by SIGABRT with its streams flushed, whatever its disposition and
\* mask were; system returns the status of its command to a caller that catches SIGCHLD,
\* and neither SIGINT nor SIGQUIT ends it before; sigtstp has its handler again after a stop,
\* and never stops under a shell that ignores SIGTSTP.
EndsAsPromised ==
  /\ ~Alive /\ prog = "abort" => st = "ABRT" /\ flushed
  /\ prog = "system" => status # "error" /\ (st \in {"INT", "QUIT"} => kid # "runs")
  /\ Alive /\ at = "sigtstp" /\ prog = "sigtstp" /\ pc > 3 =>
       disp["TSTP"] = IF saved["TSTP"] = "dfl" THEN "sig_tstp" ELSE "ign"
  /\ prog = "sigtstp" /\ st = "stopped" => saved["TSTP"] = "dfl"
=============================================================================
