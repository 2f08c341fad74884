------------------------------- MODULE FooObj -------------------------------
(***************************************************************************)
(* The reference-counted objects of threads/mutex1.c (a lock per object),  *)
(* mutex2.c (hash list and object lock) and mutex3.c (one lock for the     *)
(* list and all counts).  Every thread uses one pointer: a call of         *)
(* foo_alloc or foo_find sets it, foo_rele clears it, and foo_hold adds    *)
(* the reference that another thread is given.  All identifiers hash to    *)
(* the same list: fh is its chain of f_next pointers.  A section between   *)
(* lock and unlock in which the thread waits for nothing else is one step. *)
(***************************************************************************)
EXTENDS Naturals, FiniteSets, SequencesExt

CONSTANTS Threads, Objs, Ids,
          Nil,         \* the null pointer, and no holder of a lock
          Variants,    \* the programs to run, of {"mutex1", "mutex2", "mutex3"}
          MaxCalls     \* bound: calls of one thread

VARIABLES variant,     \* the program
          pc, ptr,     \* per thread: where it is, its pointer fp
          calls,       \* per thread: calls made
          live,        \* the objects that are allocated
          f_count, f_id, f_lock, fh, hashlock

vars == <<variant, pc, ptr, calls, live, f_count, f_id, f_lock, fh, hashlock>>
locks == <<f_lock, hashlock>>

Init ==
  /\ variant \in Variants
  /\ pc = [t \in Threads |-> "idle"]
  /\ ptr = [t \in Threads |-> Nil]
  /\ calls = [t \in Threads |-> 0]
  /\ live = {}
  /\ f_count = [o \in Objs |-> 0]
  /\ f_id \in [Objs -> {CHOOSE i \in Ids : TRUE}]
  /\ f_lock = [o \in Objs |-> Nil]
  /\ fh = <<>>
  /\ hashlock = Nil

Unlocked(o) == o # Nil /\ f_lock[o] = Nil
Goto(t, l) == pc' = [pc EXCEPT ![t] = l]
Point(t, o) == ptr' = [ptr EXCEPT ![t] = o]
Call(t) == /\ pc[t] = "idle"
           /\ calls[t] < MaxCalls
           /\ calls' = [calls EXCEPT ![t] = @ + 1]

\* malloc gives a free object, whose lock is initialized, or the call returns NULL
Malloc(t, next) ==
  /\ Call(t)
  /\ ptr[t] = Nil
  /\ \/ \E o \in Objs \ live, i \in Ids :
          /\ live' = live \cup {o}
          /\ f_count' = [f_count EXCEPT ![o] = 1]
          /\ f_id' = [f_id EXCEPT ![o] = i]
          /\ Point(t, o)
          /\ Goto(t, next)
     \/ UNCHANGED <<live, f_count, f_id, ptr, pc>>
  /\ UNCHANGED <<variant, fh, locks>>

Alloc1(t) == variant = "mutex1" /\ Malloc(t, "idle")
Alloc2(t) == variant = "mutex2" /\ Malloc(t, "link")
Alloc3(t) == variant = "mutex3" /\ Malloc(t, "link")

\* with hashlock held the object enters its list and is locked, so that nobody uses it
\* before the initialization ends
Link(t) ==
  /\ pc[t] = "link"
  /\ hashlock = Nil
  /\ hashlock' = t
  /\ fh' = <<ptr[t]>> \o fh
  /\ Goto(t, "lockNew")
  /\ UNCHANGED <<variant, ptr, calls, live, f_count, f_id, f_lock>>

LockNew(t) ==
  /\ pc[t] = "lockNew"
  /\ Unlocked(ptr[t])
  /\ f_lock' = [f_lock EXCEPT ![ptr[t]] = t]
  /\ hashlock' = Nil
  /\ Goto(t, "finish")
  /\ UNCHANGED <<variant, ptr, calls, live, f_count, f_id, fh>>

Finish(t) ==
  /\ pc[t] = "finish"
  /\ f_lock' = [f_lock EXCEPT ![ptr[t]] = Nil]
  /\ Goto(t, "idle")
  /\ UNCHANGED <<variant, ptr, calls, live, f_count, f_id, fh, hashlock>>

\* foo_hold for the pointer of another thread, under the object's lock or hashlock
Give(t, u) ==
  /\ Call(t)
  /\ ptr[t] # Nil
  /\ pc[u] = "idle" /\ ptr[u] = Nil
  /\ f_count' = [f_count EXCEPT ![ptr[t]] = @ + 1]
  /\ ptr' = [ptr EXCEPT ![u] = ptr[t]]
  /\ UNCHANGED <<variant, pc, live, f_id, fh, locks>>

Hold1(t, u) == variant = "mutex1" /\ Unlocked(ptr[t]) /\ Give(t, u)
Hold2(t, u) == variant = "mutex2" /\ Unlocked(ptr[t]) /\ Give(t, u)
Hold3(t, u) == variant = "mutex3" /\ hashlock = Nil /\ Give(t, u)

\* the first object of the list with this identifier, or NULL
Found(i) == LET at == SelectInSeq(fh, LAMBDA o : f_id[o] = i)
            IN  IF at = 0 THEN Nil ELSE fh[at]

\* mutex2: the walk stops at the object, whose count changes under its own lock
Find2(t, i) ==
  /\ variant = "mutex2"
  /\ Call(t)
  /\ ptr[t] = Nil
  /\ hashlock = Nil
  /\ IF Found(i) = Nil THEN UNCHANGED <<pc, ptr, hashlock>>
     ELSE /\ hashlock' = t
          /\ Point(t, Found(i))
          /\ Goto(t, "hold")
  /\ UNCHANGED <<variant, live, f_count, f_id, f_lock, fh>>

FindHold(t) ==
  /\ pc[t] = "hold"
  /\ Unlocked(ptr[t])
  /\ f_count' = [f_count EXCEPT ![ptr[t]] = @ + 1]
  /\ hashlock' = Nil
  /\ Goto(t, "idle")
  /\ UNCHANGED <<variant, ptr, calls, live, f_id, f_lock, fh>>

Find3(t, i) ==
  /\ variant = "mutex3"
  /\ Call(t)
  /\ ptr[t] = Nil
  /\ hashlock = Nil
  /\ Point(t, Found(i))
  /\ f_count' = IF Found(i) = Nil THEN f_count ELSE [f_count EXCEPT ![Found(i)] = @ + 1]
  /\ UNCHANGED <<variant, pc, live, f_id, f_lock, fh, hashlock>>

\* one reference less: the last one is followed by mutex_destroy and free
Drop(t) ==
  /\ f_count' = [f_count EXCEPT ![ptr[t]] = @ - 1]
  /\ IF f_count[ptr[t]] = 1
     THEN Goto(t, "destroy") /\ UNCHANGED ptr
     ELSE Goto(t, "idle") /\ Point(t, Nil)

Rele1(t) ==
  /\ variant = "mutex1"
  /\ Call(t)
  /\ Unlocked(ptr[t])
  /\ Drop(t)
  /\ UNCHANGED <<variant, live, f_id, fh, locks>>

Rele3(t) ==
  /\ variant = "mutex3"
  /\ Call(t)
  /\ ptr[t] # Nil
  /\ hashlock = Nil
  /\ Drop(t)
  /\ fh' = IF f_count[ptr[t]] = 1 THEN RemoveFirst(fh, ptr[t]) ELSE fh
  /\ UNCHANGED <<variant, live, f_id, locks>>

\* mutex2: the count is read under the object's lock, which is given up for hashlock
Rele2(t) ==
  /\ variant = "mutex2"
  /\ Call(t)
  /\ Unlocked(ptr[t])
  /\ IF f_count[ptr[t]] = 1 THEN Goto(t, "last") /\ UNCHANGED <<f_count, ptr>>
     ELSE /\ f_count' = [f_count EXCEPT ![ptr[t]] = @ - 1]
          /\ Point(t, Nil)
          /\ UNCHANGED pc
  /\ UNCHANGED <<variant, live, f_id, fh, locks>>

LockList(t) ==
  /\ pc[t] = "last"
  /\ hashlock = Nil
  /\ hashlock' = t
  /\ Goto(t, "recheck")
  /\ UNCHANGED <<variant, ptr, calls, live, f_count, f_id, f_lock, fh>>

\* mutant: the count is not tested again
RecheckNot(t) ==
  /\ pc[t] = "recheck"
  /\ Unlocked(ptr[t])
  /\ hashlock' = Nil
  /\ fh' = RemoveFirst(fh, ptr[t])
  /\ Goto(t, "destroy")
  /\ UNCHANGED <<variant, ptr, calls, live, f_count, f_id, f_lock>>

\* the count may have changed in between: it is tested again
Recheck(t) ==
  /\ pc[t] = "recheck"
  /\ Unlocked(ptr[t])
  /\ hashlock' = Nil
  /\ IF f_count[ptr[t]] # 1
     THEN /\ f_count' = [f_count EXCEPT ![ptr[t]] = @ - 1]
          /\ Point(t, Nil)
          /\ Goto(t, "idle")
          /\ UNCHANGED fh
     ELSE /\ fh' = RemoveFirst(fh, ptr[t])
          /\ Goto(t, "destroy")
          /\ UNCHANGED <<f_count, ptr>>
  /\ UNCHANGED <<variant, calls, live, f_id, f_lock>>

Destroy(t) ==
  /\ pc[t] = "destroy"
  /\ live' = live \ {ptr[t]}
  /\ Point(t, Nil)
  /\ Goto(t, "idle")
  /\ UNCHANGED <<variant, calls, f_count, f_id, fh, locks>>

Step(t) ==
  \/ Alloc1(t) \/ Alloc2(t) \/ Alloc3(t) \/ Link(t) \/ LockNew(t) \/ Finish(t)
  \/ \E u \in Threads : Hold1(t, u) \/ Hold2(t, u) \/ Hold3(t, u)
  \/ \E i \in Ids : Find2(t, i) \/ Find3(t, i)
  \/ FindHold(t)
  \/ Rele1(t) \/ Rele2(t) \/ Rele3(t) \/ LockList(t) \/ Recheck(t) \/ Destroy(t)

Next == \E t \in Threads : Step(t)
Spec == Init /\ [][Next]_vars

Done == \A t \in Threads : pc[t] = "idle" /\ calls[t] = MaxCalls
-----------------------------------------------------------------------------
\* The threads whose pointer is a counted reference to the object.
Holders(o) == {t \in Threads : ptr[t] = o /\ pc[t] \notin {"hold", "destroy"}}
Destroying(o) == {t \in Threads : ptr[t] = o /\ pc[t] = "destroy"}

\* A pointer is to an allocated object, also while it is only being found.
NoUseAfterFree == \A t \in Threads : ptr[t] # Nil => ptr[t] \in live

\* The count of an object is the number of its references until the last is released;
\* nobody but that last thread still points to the object then.
Counted ==
  \A o \in live :
    IF Destroying(o) = {} THEN f_count[o] = Cardinality(Holders(o))
    ELSE \A t, u \in Threads : ptr[t] = o /\ ptr[u] = o => t = u

\* The list holds exactly the objects that can be found: each once, none that is freed.
ListIsLive ==
  /\ IsInjective(fh)
  /\ variant # "mutex1" =>
       \A o \in Objs :
         (\E i \in DOMAIN fh : fh[i] = o)
           <=> \E t \in Threads : ptr[t] = o /\ pc[t] \notin {"link", "destroy"}
=============================================================================
