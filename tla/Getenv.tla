------------------------------- MODULE Getenv -------------------------------
(***************************************************************************)
(* The three versions of getenv of threadctl/: getenv1.c with one static   *)
(* buffer, getenv_r of getenv2.c with the caller's buffer, and getenv3.c   *)
(* with a buffer per thread.  Threads call them for names of the           *)
(* environment; a value is known by its name and its length, and is copied *)
(* in two steps.                                                           *)
(***************************************************************************)
EXTENDS Naturals

CONSTANTS Threads, Nobody,
          Names,         \* the names asked for
          Length,        \* per name that is in the environment: the length of its value
          MAXSTRINGSZ,   \* of a buffer
          Programs,      \* of {"getenv1", "getenv2", "getenv3"}
          MaxCalls

VARIABLES prog,
          pc,            \* per thread: "idle", "lock", "buffer", "copy", "end" or "use"
          name, calls,   \* per thread
          once,          \* did thread_init run?
          owner,         \* of env_mutex
          has,           \* the threads with a buffer of their own
          buf,           \* per buffer: [of, end]: the value, and does a nul byte end it?
          result         \* per thread: "value", "ENOSPC", "NULL" or "none"

locals == <<name, calls>>
vars == <<prog, pc, locals, once, owner, has, buf, result>>

Init ==
  /\ prog \in Programs
  /\ pc = [t \in Threads |-> "idle"]
  /\ name \in [Threads -> {CHOOSE n \in Names : TRUE}] /\ calls = [t \in Threads |-> 0]
  /\ once = FALSE /\ owner = Nobody /\ has = {}
  /\ buf = [b \in Threads \cup {Nobody} |-> [of |-> "none", end |-> TRUE]]
  /\ result = [t \in Threads |-> "none"]

Goto(t, l) == pc' = [pc EXCEPT ![t] = l]
Returns(t, r) == result' = [result EXCEPT ![t] = r]

\* mutant: one buffer for all threads
BufferShared(t) == Nobody

\* the buffer of a thread: getenv1 has one for all
Buffer(t) == IF prog = "getenv1" THEN Nobody ELSE t

\* pthread_once; getenv1 has no lock
Call(t) ==
  /\ pc[t] = "idle" /\ calls[t] < MaxCalls
  /\ calls' = [calls EXCEPT ![t] = @ + 1]
  /\ \E n \in Names : name' = [name EXCEPT ![t] = n]
  /\ once' = (once \/ prog # "getenv1")
  /\ Goto(t, IF prog = "getenv1" THEN "buffer" ELSE "lock")
  /\ Returns(t, "none")
  /\ UNCHANGED <<prog, owner, has, buf>>

Lock(t) ==
  /\ pc[t] = "lock"
  /\ once /\ owner = Nobody
  /\ owner' = t
  /\ Goto(t, "buffer")
  /\ UNCHANGED <<prog, locals, once, has, buf, result>>

\* every return of getenv2 and getenv3 gives the lock back
Leave(t, r) ==
  /\ Returns(t, r)
  /\ Goto(t, "use")
  /\ owner' = IF owner = t THEN Nobody ELSE owner

\* getenv3 allocates its buffer, or returns NULL
Allocate(t) ==
  /\ pc[t] = "buffer" /\ prog = "getenv3" /\ t \notin has
  /\ \/ has' = has \cup {t} /\ UNCHANGED <<pc, result, owner>>
     \/ Leave(t, "NULL") /\ UNCHANGED has
  /\ UNCHANGED <<prog, locals, once, buf>>

\* the name is looked for; a value that does not fit is an error of getenv_r
Ready(t) == pc[t] = "buffer" /\ (prog = "getenv3" => t \in has)
Find(t) ==
  /\ Ready(t)
  /\ IF name[t] \notin DOMAIN Length THEN Leave(t, "NULL")
     ELSE IF prog = "getenv2" /\ Length[name[t]] >= MAXSTRINGSZ THEN Leave(t, "ENOSPC")
     ELSE Goto(t, "copy") /\ UNCHANGED <<result, owner>>
  /\ UNCHANGED <<prog, locals, once, has, buf>>

Copy(t) ==
  /\ pc[t] = "copy"
  /\ buf' = [buf EXCEPT ![Buffer(t)].of = "part"]
  /\ Goto(t, "end")
  /\ UNCHANGED <<prog, locals, once, owner, has, result>>

\* strncpy leaves the last byte as it is: 0 in a static buffer, anything in one of malloc
EndCopy(t) ==
  /\ pc[t] = "end"
  /\ \E e \in IF prog = "getenv3" /\ Length[name[t]] >= MAXSTRINGSZ - 1 THEN BOOLEAN ELSE {TRUE} :
       buf' = [buf EXCEPT ![Buffer(t)] = [of |-> name[t], end |-> e]]
  /\ Leave(t, "value")
  /\ UNCHANGED <<prog, locals, once, has>>

\* the caller has used the value
Use(t) ==
  /\ pc[t] = "use"
  /\ Goto(t, "idle")
  /\ UNCHANGED <<prog, locals, once, owner, has, buf, result>>

Next == \E t \in Threads : \/ Call(t) \/ Lock(t) \/ Allocate(t) \/ Find(t)
                           \/ Copy(t) \/ EndCopy(t) \/ Use(t)
Spec == Init /\ [][Next]_vars
Done == \A t \in Threads : pc[t] = "idle" /\ calls[t] = MaxCalls
-----------------------------------------------------------------------------
\* In getenv2.c and getenv3.c a caller uses the value of the name it asked for, in one
\* piece and ended by a nul byte (in getenv3.c if it is shorter than the buffer by two), and
\* no call returns with the lock.
ValueIsOwn ==
  \A t \in Threads : pc[t] = "use" /\ prog # "getenv1" =>
    /\ result[t] = "value" =>
         /\ buf[Buffer(t)].of = name[t]
         /\ prog = "getenv3" => buf[Buffer(t)].end \/ Length[name[t]] >= MAXSTRINGSZ - 1
    /\ owner # t
=============================================================================
