------------------------------ MODULE PollMsg ------------------------------
(***************************************************************************)
(* ipc2/pollmsg.c and exercises/pollmsg2.c: a helper thread per message    *)
(* queue makes its messages visible to poll.  pollmsg copies the message   *)
(* into a socket; pollmsg2 sends one byte, lends its buffer to the main    *)
(* thread and waits for a condition variable, without a loop: a wakeup     *)
(* that nobody sent makes it use the buffer again.                         *)
(***************************************************************************)
EXTENDS Naturals, Sequences

CONSTANTS NQ, MaxMsgs,     \* queues; messages to each
          MaxSpurious,     \* bound: wakeups nobody sent
          Programs         \* of {"pollmsg", "pollmsg2"}

VARIABLES prog,
          queue,           \* per queue: the messages 1, 2, ... that were not received
          hpc, m,          \* per helper: where it is; its message, 0 if cleared
          sock,            \* per queue: what the main thread may read
          mpc, ready, i,   \* the main thread; the queues poll returned; the scan
          printed,         \* per queue: the messages printed
          spurious

helpers == <<queue, hpc, m>>
vars == <<prog, helpers, sock, mpc, ready, i, printed, spurious>>
Queues == 1 .. NQ

Init ==
  /\ prog \in Programs
  /\ queue = [q \in Queues |-> [n \in 1 .. MaxMsgs |-> n]]
  /\ hpc = [q \in Queues |-> "none"]
  /\ m = [q \in Queues |-> 0]
  /\ sock = [q \in Queues |-> <<>>]
  /\ mpc = "create" /\ ready = {} /\ i = 1
  /\ printed = [q \in Queues |-> <<>>]
  /\ spurious = 0

Helper(q, l) == hpc' = [hpc EXCEPT ![q] = l]
Alive == mpc # "failed"

\* msgget, socketpair and pthread_create, one queue after the other
Create ==
  /\ mpc = "create"
  /\ \/ /\ Helper(i, "msgrcv")
        /\ i' = IF i = NQ THEN 1 ELSE i + 1
        /\ mpc' = IF i = NQ THEN "poll" ELSE "create"
     \/ mpc' = "failed" /\ UNCHANGED <<hpc, i>>
  /\ UNCHANGED <<prog, queue, m, sock, ready, printed, spurious>>

\* memset and msgrcv
Clear(q) ==
  /\ hpc[q] = "clear" /\ Alive
  /\ m' = [m EXCEPT ![q] = 0]
  /\ Helper(q, "msgrcv")
  /\ UNCHANGED <<prog, queue, sock, mpc, ready, i, printed, spurious>>

Msgrcv(q) ==
  /\ hpc[q] = "msgrcv" /\ Alive
  /\ queue[q] # <<>>
  /\ m' = [m EXCEPT ![q] = Head(queue[q])]
  /\ queue' = [queue EXCEPT ![q] = Tail(@)]
  /\ Helper(q, "write")
  /\ UNCHANGED <<prog, sock, mpc, ready, i, printed, spurious>>

\* pollmsg2 has its mutex from here until it waits
Write(q) ==
  /\ hpc[q] = "write" /\ Alive
  /\ sock' = [sock EXCEPT ![q] = Append(@, m[q])]
  /\ Helper(q, IF prog = "pollmsg" THEN "clear" ELSE "locked")
  /\ UNCHANGED <<prog, queue, m, mpc, ready, i, printed, spurious>>

CondWait(q) ==
  /\ hpc[q] = "locked" /\ Alive
  /\ Helper(q, "wait")
  /\ UNCHANGED <<prog, queue, m, sock, mpc, ready, i, printed, spurious>>

Spurious(q) ==
  /\ hpc[q] = "wait" /\ Alive
  /\ spurious < MaxSpurious
  /\ spurious' = spurious + 1
  /\ Helper(q, "clear")
  /\ UNCHANGED <<prog, queue, m, sock, mpc, ready, i, printed>>

Poll ==
  /\ mpc = "poll"
  /\ ready' = {q \in Queues : sock[q] # <<>>}
  /\ ready' # {}
  /\ mpc' = "scan" /\ i' = 1
  /\ UNCHANGED <<prog, helpers, sock, printed, spurious>>

Forward(l) == IF i = NQ THEN mpc' = "poll" /\ i' = 1 ELSE mpc' = l /\ i' = i + 1

\* pollmsg prints what it read, pollmsg2 what is in the helper's buffer by now
Read ==
  /\ mpc = "scan"
  /\ IF i \notin ready THEN Forward("scan") /\ UNCHANGED <<sock, printed>>
     ELSE /\ sock' = [sock EXCEPT ![i] = Tail(@)]
          /\ printed' = [printed EXCEPT ![i] =
                           Append(@, IF prog = "pollmsg" THEN Head(sock[i]) ELSE m[i])]
          /\ IF prog = "pollmsg" THEN Forward("scan") ELSE mpc' = "signal" /\ UNCHANGED i
  /\ UNCHANGED <<prog, helpers, ready, spurious>>

\* mutant: the condition is signalled without the mutex
SignalUnlocked ==
  /\ mpc = "signal"
  /\ hpc' = IF hpc[i] = "wait" THEN [hpc EXCEPT ![i] = "clear"] ELSE hpc
  /\ Forward("scan")
  /\ UNCHANGED <<prog, queue, m, sock, ready, printed, spurious>>

\* with the mutex, so that the helper waits, if it is there yet
Signal ==
  /\ mpc = "signal"
  /\ hpc[i] # "locked"
  /\ hpc' = IF hpc[i] = "wait" THEN [hpc EXCEPT ![i] = "clear"] ELSE hpc
  /\ Forward("scan")
  /\ UNCHANGED <<prog, queue, m, sock, ready, printed, spurious>>

Next == \/ Create \/ Poll \/ Read \/ Signal
        \/ \E q \in Queues : Clear(q) \/ Msgrcv(q) \/ Write(q) \/ CondWait(q) \/ Spurious(q)
Spec == Init /\ [][Next]_vars

\* every message was received and printed: the program waits for more, or could not start
Done == \/ ~Alive
        \/ mpc = "poll" /\ \A q \in Queues : hpc[q] = "msgrcv" /\ queue[q] = <<>> /\ sock[q] = <<>>
-----------------------------------------------------------------------------
\* Each queue's messages are printed in their order, none twice and none lost; in pollmsg2
\* only as long as no wakeup comes from nowhere.
PrintedInOrder ==
  prog = "pollmsg" \/ spurious = 0 =>
    \A q \in Queues : /\ printed[q] = [n \in DOMAIN printed[q] |-> n]
                      /\ Done /\ Alive => Len(printed[q]) = MaxMsgs
=============================================================================
