------------------------------- MODULE Timeout -------------------------------
(***************************************************************************)
(* threadctl/timeout.c: main, which holds a recursive mutex, asks for      *)
(* retry to be called at a time; a detached thread sleeps until then and   *)
(* calls it, or timeout calls it at once when the time is past or memory   *)
(* or threads have run out.  A struct timespec is a record of seconds and  *)
(* nanoseconds; a second has SECTONSEC of them.                            *)
(***************************************************************************)
EXTENDS Naturals, FiniteSets

CONSTANTS SECTONSEC, Delay,    \* the program waits Delay seconds
          MaxSec               \* bound on the clock

VARIABLES clock,     \* CLOCK_REALTIME, in nanoseconds
          pc,        \* main
          now, when, \* locals of main and timeout
          tip,       \* the to_info of the helper, freed when "none"
          helper,    \* the detached thread
          wake,      \* when its sleep ends
          owner, depth,        \* the recursive mutex
          retried              \* when and by whom retry was called

vars == <<clock, pc, now, when, tip, helper, wake, owner, depth, retried>>

Time(c) == [tv_sec |-> c \div SECTONSEC, tv_nsec |-> c % SECTONSEC]
Nsec(t) == t.tv_sec * SECTONSEC + t.tv_nsec
Zero == [tv_sec |-> 0, tv_nsec |-> 0]
After(a, b) == \/ a.tv_sec > b.tv_sec
               \/ a.tv_sec = b.tv_sec /\ a.tv_nsec > b.tv_nsec

\* mutant: the second that is carried is not added
WaitNoCarry(a, b) ==
  IF a.tv_nsec >= b.tv_nsec
  THEN [tv_sec |-> a.tv_sec - b.tv_sec, tv_nsec |-> a.tv_nsec - b.tv_nsec]
  ELSE [tv_sec |-> a.tv_sec - b.tv_sec - 1, tv_nsec |-> a.tv_nsec]

\* when - now, with a borrow from the seconds
Wait(a, b) ==
  IF a.tv_nsec >= b.tv_nsec
  THEN [tv_sec |-> a.tv_sec - b.tv_sec, tv_nsec |-> a.tv_nsec - b.tv_nsec]
  ELSE [tv_sec |-> a.tv_sec - b.tv_sec - 1,
        tv_nsec |-> SECTONSEC - b.tv_nsec + a.tv_nsec]

Init ==
  /\ clock \in 0 .. SECTONSEC - 1
  /\ pc = "start"
  /\ now = Zero /\ when = Zero
  /\ tip = "none" /\ helper = "none" /\ wake = 0
  /\ owner = "none" /\ depth = 0
  /\ retried = {}

Tick == /\ clock < MaxSec * SECTONSEC
        /\ clock' = clock + 1
        /\ UNCHANGED <<pc, now, when, tip, helper, wake, owner, depth, retried>>

Lock(t) == /\ owner \in {"none", t}
           /\ owner' = t
           /\ depth' = depth + 1
Unlock == /\ depth' = depth - 1
          /\ owner' = IF depth = 1 THEN "none" ELSE owner

\* main takes the mutex; the condition is whatever the omitted code left there
Main ==
  /\ pc = "start"
  /\ Lock("main")
  /\ \/ /\ pc' = "timeout"
        /\ when' = [Time(clock) EXCEPT !.tv_sec = @ + Delay]
     \/ pc' = "unlock" /\ UNCHANGED when
  /\ UNCHANGED <<clock, now, tip, helper, wake, retried>>

\* timeout: the clock is read again; malloc and makethread may fail
timeout ==
  /\ pc = "timeout"
  /\ now' = Time(clock)
  /\ \/ After(when, now') /\ pc' = "thread" /\ tip' = "used"
     \/ pc' = "call" /\ UNCHANGED tip
  /\ UNCHANGED <<clock, when, helper, wake, owner, depth, retried>>

makethread ==
  /\ pc = "thread"
  /\ \/ helper' = "sleep" /\ pc' = "unlock" /\ UNCHANGED tip
     \/ pc' = "call" /\ tip' = "none" /\ UNCHANGED helper
  /\ UNCHANGED <<clock, now, when, wake, owner, depth, retried>>

\* retry is called with the mutex held: a second lock by its owner
CallNow ==
  /\ pc = "call"
  /\ Lock("main")
  /\ retried' = retried \cup {[by |-> "main", at |-> clock]}
  /\ pc' = "called"
  /\ UNCHANGED <<clock, now, when, tip, helper, wake>>

Return ==
  /\ pc \in {"called", "unlock"}
  /\ Unlock
  /\ pc' = IF pc = "called" THEN "unlock" ELSE "exit"
  /\ UNCHANGED <<clock, now, when, tip, helper, wake, retried>>

\* main ends, and the helper with it
Exit == /\ pc = "exit"
        /\ pc' = "done"
        /\ UNCHANGED <<clock, now, when, tip, helper, wake, owner, depth, retried>>

\* timeout_helper
Sleep ==
  /\ helper = "sleep" /\ pc # "done"
  /\ helper' = "asleep"
  /\ wake' = clock + Nsec(Wait(when, now))
  /\ UNCHANGED <<clock, pc, now, when, tip, owner, depth, retried>>

Wakeup ==
  /\ helper = "asleep" /\ pc # "done"
  /\ clock >= wake
  /\ Lock("helper")
  /\ retried' = retried \cup {[by |-> "helper", at |-> clock]}
  /\ helper' = "called"
  /\ UNCHANGED <<clock, pc, now, when, tip, wake>>

HelperEnd ==
  /\ helper = "called" /\ pc # "done"
  /\ Unlock
  /\ tip' = "none"
  /\ helper' = "ended"
  /\ UNCHANGED <<clock, pc, now, when, wake, retried>>

Next == Tick \/ Main \/ timeout \/ makethread \/ CallNow \/ Return \/ Exit
        \/ Sleep \/ Wakeup \/ HelperEnd
Spec == Init /\ [][Next]_vars
Done == pc = "done"
-----------------------------------------------------------------------------
\* retry runs at most once, and the thread calls it no sooner than asked for, however
\* the nanoseconds of the two times compare; it never waits for a lock its caller holds.
NotBeforeDue ==
  /\ Cardinality(retried) <= 1
  /\ \A r \in retried : r.by = "helper" => r.at >= Nsec(when)
  /\ helper \in {"sleep", "asleep"} => tip = "used" /\ Nsec(Wait(when, now)) = Nsec(when) - Nsec(now)
  /\ depth = 0 <=> owner = "none"
=============================================================================
