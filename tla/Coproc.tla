------------------------------- MODULE Coproc -------------------------------
(***************************************************************************)
(* ipc1/pipe4.c, which writes each line of its input to a coprocess and    *)
(* reads the answer, with add2.c and with add2stdio.c, whose standard      *)
(* output is a pipe and therefore fully buffered.                          *)
(***************************************************************************)
EXTENDS Naturals, Sequences

CONSTANTS Lines,         \* lines of the input
          Programs       \* of {"add2", "add2stdio"}

VARIABLES prog,
          ppc, cpc,      \* the parent; the coprocess: "none", "start", "read", "write", "gone"
          n,             \* lines read from the input
          fd1, fd2,      \* the pipes to and from the coprocess, line by line
          line,          \* the line the coprocess answers
          stdout,        \* its buffer
          out            \* what the parent printed

vars == <<prog, ppc, cpc, n, fd1, fd2, line, stdout, out>>

Init ==
  /\ prog \in Programs
  /\ ppc = "fork" /\ cpc = "none"
  /\ n = 0 /\ line = 0
  /\ fd1 = <<>> /\ fd2 = <<>> /\ stdout = <<>> /\ out = <<>>

Fork ==
  /\ ppc = "fork"
  /\ \/ ppc' = "fgets" /\ cpc' = "start"
     \/ ppc' = "failed" /\ UNCHANGED cpc
  /\ UNCHANGED <<prog, n, fd1, fd2, line, stdout, out>>

\* dup2 and execl, an error of which ends the child
Exec ==
  /\ cpc = "start"
  /\ cpc' \in {"read", "gone"}
  /\ UNCHANGED <<prog, ppc, n, fd1, fd2, line, stdout, out>>

\* the parent ends with its input
Fgets ==
  /\ ppc = "fgets"
  /\ IF n < Lines THEN ppc' = "write" /\ n' = n + 1 ELSE ppc' = "exit" /\ UNCHANGED n
  /\ UNCHANGED <<prog, cpc, fd1, fd2, line, stdout, out>>

\* a write to a coprocess that is gone raises SIGPIPE, whose handler exits
Write ==
  /\ ppc = "write"
  /\ IF cpc = "gone" THEN ppc' = "failed" /\ UNCHANGED fd1
                     ELSE ppc' = "read" /\ fd1' = Append(fd1, n)
  /\ UNCHANGED <<prog, cpc, n, fd2, line, stdout, out>>

Read ==
  /\ ppc = "read"
  /\ \/ /\ fd2 # <<>>
        /\ out' = out \o fd2
        /\ fd2' = <<>>
        /\ ppc' = "fgets"
     \/ fd2 = <<>> /\ cpc = "gone" /\ ppc' = "exit" /\ UNCHANGED <<fd2, out>>
  /\ UNCHANGED <<prog, cpc, n, fd1, line, stdout>>

\* read, or fgets; at the end of the input the coprocess exits, which writes its buffer
ParentGone == ppc \in {"exit", "failed"}
ReadLine ==
  /\ cpc = "read"
  /\ IF fd1 # <<>> THEN /\ line' = Head(fd1) /\ fd1' = Tail(fd1) /\ cpc' = "write"
                        /\ UNCHANGED <<fd2, stdout>>
     ELSE /\ ParentGone /\ cpc' = "gone" /\ stdout' = <<>>
          /\ UNCHANGED <<fd1, fd2, line>>
  /\ UNCHANGED <<prog, ppc, n, out>>

\* mutant: no answer to an invalid line
AnswerValid ==
  /\ cpc = "write"
  /\ cpc' = "read"
  /\ fd2' = IF prog = "add2" /\ line # 1 THEN Append(fd2, line) ELSE fd2
  /\ stdout' = IF prog = "add2" THEN stdout ELSE Append(stdout, line)
  /\ UNCHANGED <<prog, ppc, n, fd1, line, out>>

\* the sum, or "invalid args": add2 writes it, printf leaves it in the buffer
Answer ==
  /\ cpc = "write"
  /\ IF prog = "add2" /\ ParentGone THEN cpc' = "gone" /\ UNCHANGED <<fd2, stdout>>
     ELSE /\ cpc' = "read"
          /\ IF prog = "add2" THEN fd2' = Append(fd2, line) /\ UNCHANGED stdout
                              ELSE stdout' = Append(stdout, line) /\ UNCHANGED fd2
  /\ UNCHANGED <<prog, ppc, n, fd1, line, out>>

Next == Fork \/ Exec \/ Fgets \/ Write \/ Read \/ ReadLine \/ Answer
Spec == Init /\ [][Next]_vars

\* each waits for the other
Stuck == ppc = "read" /\ cpc = "read" /\ fd1 = <<>> /\ fd2 = <<>>
Done == (ParentGone /\ cpc \in {"none", "gone"}) \/ Stuck
-----------------------------------------------------------------------------
\* The answers come in the order of the lines, one for each, and the two processes wait for
\* each other only if the coprocess has its answer in a buffer.
CoprocAnswers ==
  /\ out \o fd2 = [k \in DOMAIN (out \o fd2) |-> k]
  /\ ppc = "fgets" => Len(out) = n
  /\ Stuck => prog = "add2stdio" /\ stdout # <<>>
=============================================================================
