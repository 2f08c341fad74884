------------------------------- MODULE Limits -------------------------------
(***************************************************************************)
(* standards/options.c and standards/conf.c: for each symbol that the      *)
(* headers define the limit is asked for by sysconf, then for some by      *)
(* pathconf.  A result of -1 is an error only if errno was set, which both *)
(* the calls and the stream's output may do.                               *)
(***************************************************************************)
EXTENDS Naturals, Sequences

CONSTANTS Programs,      \* of {"options", "conf"}
          Sys, Path      \* symbols asked for by sysconf, and by pathconf

VARIABLES prog,
          pc,            \* "run", "exit" or "failed"
          n,             \* symbols done
          errno,
          told           \* per symbol: what the call returned and what was printed

vars == <<prog, pc, n, errno, told>>

Init ==
  /\ prog \in Programs
  /\ pc = "run" /\ n = 0 /\ errno = "0" /\ told = <<>>

\* the errno after a call that found e
After(result, e) == IF result \in {"value", "nolimit"} THEN e ELSE result
Text(result, e) ==
  CASE result = "value" -> "value"
    [] result # "value" /\ e = "0" -> "no_limit"
    [] result # "value" /\ e = "EINVAL" -> "not_supported"
    [] OTHER -> "error"

\* one symbol, with e the errno that the call finds; any other error ends the program
Ask(e, error) ==
  \E result \in {"value", "nolimit", "EINVAL", error} :
    /\ errno' \in {After(result, e), "ENOTTY"}
    /\ told' = Append(told, <<result, Text(result, After(result, e))>>)
    /\ pc' = IF Text(result, After(result, e)) = "error" THEN "failed" ELSE "run"

\* mutant: errno is not reset
pr_sysconfUnset == Ask(errno, "EIO")

\* pr_sysconf and pr_pathconf set errno to 0 after the output of the name
pr_sysconf == Ask("0", "EIO")
pr_pathconf == Ask("0", "ENOENT")

Symbol(first, last) == pc = "run" /\ n \in first .. last - 1 /\ n' = n + 1 /\ UNCHANGED prog
NoSymbol == told' = Append(told, <<"undefined", "no_symbol">>) /\ UNCHANGED <<pc, errno>>

OptionSys == prog = "options" /\ Symbol(0, Sys) /\ (pr_sysconf \/ NoSymbol)
OptionPath == prog = "options" /\ Symbol(Sys, Sys + Path) /\ (pr_pathconf \/ NoSymbol)
ConfSys == prog = "conf" /\ Symbol(0, Sys) /\ (pr_sysconf \/ NoSymbol)
ConfPath == prog = "conf" /\ Symbol(Sys, Sys + Path) /\ (pr_pathconf \/ NoSymbol)

Exit ==
  /\ pc = "run" /\ n = Sys + Path
  /\ pc' = "exit"
  /\ UNCHANGED <<prog, n, errno, told>>

Next == OptionSys \/ OptionPath \/ ConfSys \/ ConfPath \/ Exit
Spec == Init /\ [][Next]_vars
Done == pc # "run"
-----------------------------------------------------------------------------
\* What is printed for a symbol is what its own call said, whatever error an earlier call
\* or the output left behind, and the program stops early only at an error.
EachLimitIsItsOwn ==
  /\ \A k \in DOMAIN told :
       CASE told[k][1] = "nolimit" -> told[k][2] = "no_limit"
         [] told[k][1] = "EINVAL" -> told[k][2] = "not_supported"
         [] OTHER -> TRUE
  /\ pc = "failed" => told[n][1] \in {"EIO", "ENOENT"}
=============================================================================
