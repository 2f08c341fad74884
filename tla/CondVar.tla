------------------------------ MODULE CondVar -------------------------------
(***************************************************************************)
(* Condition variables: the work queue of threads/condvar.c, whose workers *)
(* wait for messages that others enqueue at its head, and                  *)
(* threadctl/suspend.c, whose main thread waits for the flag that a        *)
(* thread sets which takes the signals with sigwait.                       *)
(***************************************************************************)
EXTENDS Naturals, Sequences, FiniteSets

CONSTANTS Workers, Producers, Nobody,
          Programs,      \* of {"condvar", "suspend"}
          MaxMsgs,       \* messages of each producer
          MaxSpurious,   \* bound: wakeups nobody sent
          MaxSignals     \* bound: signals sent to suspend

VARIABLES prog, pc,      \* per thread
          workq, mp,     \* the queue; a worker's message, or 0; a producer's count
          lock,          \* qlock, or lock of suspend.c: its holder
          next, processed,       \* messages are 1, 2, ...
          quitflag, pending, sent, mask,   \* of suspend.c
          spurious

msgs == <<workq, mp, next, processed>>
sigs == <<quitflag, pending, sent, mask>>
vars == <<prog, pc, msgs, lock, sigs, spurious>>
Main == "main"
Thread == "thr_fn"
Total == MaxMsgs * Cardinality(Producers)

Init ==
  /\ prog \in Programs
  /\ pc = [t \in Workers \cup Producers \cup {Main, Thread} |->
             IF prog = "condvar" THEN (IF t \in {Main, Thread} THEN "none" ELSE "lock")
             ELSE IF t = Main THEN "lock" ELSE IF t = Thread THEN "sigwait" ELSE "none"]
  /\ workq = <<>> /\ mp = [t \in Workers \cup Producers |-> 0]
  /\ lock = Nobody
  /\ next = 0 /\ processed = <<>>
  /\ quitflag = 0 /\ pending = {} /\ sent = 0 /\ mask = "blocked"
  /\ spurious = 0

Goto(t, l) == pc' = [pc EXCEPT ![t] = l]
Waiters == {t \in DOMAIN pc : pc[t] = "wait"}

Lock(t) ==
  /\ pc[t] = "lock" /\ lock = Nobody
  /\ lock' = t
  /\ Goto(t, "test")
  /\ UNCHANGED <<prog, msgs, sigs, spurious>>

\* pthread_cond_wait gives the lock up and has it again when it returns
Empty(t) == IF t = Main THEN quitflag = 0 ELSE workq = <<>>
CondWait(t) ==
  /\ t \in Workers \cup {Main}
  /\ pc[t] = "test" /\ Empty(t)
  /\ lock' = Nobody
  /\ Goto(t, "wait")
  /\ UNCHANGED <<prog, msgs, sigs, spurious>>

Spurious(t) ==
  /\ t \in Waiters /\ spurious < MaxSpurious
  /\ spurious' = spurious + 1
  /\ Goto(t, "woken")
  /\ UNCHANGED <<prog, msgs, lock, sigs>>

\* mutant: an if for the while
WokenIf(t) ==
  /\ pc[t] = "woken" /\ lock = Nobody
  /\ lock' = t
  /\ Goto(t, "loopEnds")
  /\ UNCHANGED <<prog, msgs, sigs, spurious>>

\* the loop tests the queue, or the flag, again
Woken(t) ==
  /\ pc[t] = "woken" /\ lock = Nobody
  /\ lock' = t
  /\ Goto(t, "test")
  /\ UNCHANGED <<prog, msgs, sigs, spurious>>

LoopEnds(t) ==
  /\ t \in Workers \cup {Main}
  /\ pc[t] = "test" /\ ~Empty(t)
  /\ Goto(t, "loopEnds")
  /\ UNCHANGED <<prog, msgs, lock, sigs, spurious>>

\* process_msg
Take(t) ==
  /\ t \in Workers
  /\ pc[t] = "loopEnds"
  /\ mp' = [mp EXCEPT ![t] = Head(workq)]
  /\ workq' = Tail(workq)
  /\ lock' = Nobody
  /\ Goto(t, "process")
  /\ UNCHANGED <<prog, next, processed, sigs, spurious>>

Process(t) ==
  /\ pc[t] = "process"
  /\ processed' = Append(processed, mp[t])
  /\ mp' = [mp EXCEPT ![t] = 0]
  /\ Goto(t, "lock")
  /\ UNCHANGED <<prog, workq, next, lock, sigs, spurious>>

\* enqueue_msg: the signal comes after the unlock
Enqueue(t) ==
  /\ t \in Producers
  /\ pc[t] = "test"
  /\ next' = next + 1
  /\ mp' = [mp EXCEPT ![t] = @ + 1]
  /\ workq' = <<next'>> \o workq
  /\ lock' = Nobody
  /\ Goto(t, "signal")
  /\ UNCHANGED <<prog, processed, sigs, spurious>>

Again(t) == IF t \in Producers /\ mp[t] < MaxMsgs THEN "lock" ELSE "end"
Signal(t) ==
  /\ pc[t] = "signal"
  /\ \/ \E w \in Waiters : pc' = [pc EXCEPT ![w] = "woken", ![t] = Again(t)]
     \/ Waiters = {} /\ Goto(t, Again(t))
  /\ UNCHANGED <<prog, msgs, lock, sigs, spurious>>

\* suspend.c: a signal is pending until sigwait takes it, as long as it is blocked
Kill(s) ==
  /\ prog = "suspend" /\ sent < MaxSignals /\ pc[Main] \notin {"exit", "killed"}
  /\ sent' = sent + 1
  /\ IF mask = "blocked" THEN pending' = pending \cup {s} /\ UNCHANGED pc
                         ELSE Goto(Main, "killed") /\ UNCHANGED pending
  /\ UNCHANGED <<prog, msgs, lock, quitflag, mask, spurious>>

Sigwait ==
  /\ pc[Thread] = "sigwait"
  /\ \E s \in pending :
       /\ pending' = pending \ {s}
       /\ Goto(Thread, IF s = "QUIT" THEN "lockQuit" ELSE "sigwait")
  /\ UNCHANGED <<prog, msgs, lock, quitflag, sent, mask, spurious>>

SetFlag ==
  /\ pc[Thread] = "lockQuit" /\ lock = Nobody
  /\ quitflag' = 1
  /\ Goto(Thread, "signal")
  /\ UNCHANGED <<prog, msgs, lock, pending, sent, mask, spurious>>

\* main unlocks and clears the flag; then the old mask lets through what is pending
Cleared ==
  /\ pc[Main] = "loopEnds"
  /\ lock' = Nobody
  /\ quitflag' = 0
  /\ Goto(Main, "reset")
  /\ UNCHANGED <<prog, msgs, pending, sent, mask, spurious>>

Unblock ==
  /\ pc[Main] = "reset"
  /\ mask' = "open"
  /\ Goto(Main, IF pending = {} THEN "exit" ELSE "killed")
  /\ UNCHANGED <<prog, msgs, lock, quitflag, pending, sent, spurious>>

Next == \/ \E t \in DOMAIN pc : \/ Lock(t) \/ CondWait(t) \/ Spurious(t) \/ Woken(t) \/ LoopEnds(t)
                                \/ Take(t) \/ Process(t) \/ Enqueue(t) \/ Signal(t)
        \/ \E s \in {"INT", "QUIT"} : Kill(s)
        \/ Sigwait \/ SetFlag \/ Cleared \/ Unblock
Spec == Init /\ [][Next]_vars

\* every message was processed, or main has ended or waits for a SIGQUIT
Done == IF prog = "condvar" THEN Len(processed) = Total /\ \A w \in Workers : pc[w] = "wait"
        ELSE pc[Main] \in {"exit", "killed"}
             \/ (pc[Main] = "wait" /\ pending = {} /\ pc[Thread] = "sigwait")
-----------------------------------------------------------------------------
\* A worker goes on from the wait with a message in the queue, whoever else was woken; no
\* message is processed twice; and main goes on only after a SIGQUIT, which has ended the
\* thread.
WaitsForReason ==
  /\ \A t \in DOMAIN pc : pc[t] = "loopEnds" => ~Empty(t) /\ lock = t
  /\ \A j, k \in DOMAIN processed : processed[j] = processed[k] => j = k
  /\ pc[Main] \in {"reset", "exit"} => pc[Thread] \in {"signal", "end"}
=============================================================================
