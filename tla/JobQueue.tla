------------------------------ MODULE JobQueue ------------------------------
(***************************************************************************)
(* The job queue of threads/rwlock.c at pointer level: a doubly linked     *)
(* list under a read-write lock.  A master inserts and appends jobs for    *)
(* the workers; each worker finds a job with its thread ID and removes it. *)
(* A removed job keeps its stale pointers and may be queued again.  What   *)
(* happens under the write lock is one step; a reader walks step by step.  *)
(***************************************************************************)
EXTENDS Naturals, SequencesExt

CONSTANTS Workers, Jobs, Nil,
          MaxPuts      \* bound: how often the master queues a job

VARIABLES q_head, q_tail, j_next, j_prev, j_id,
          readers,     \* the workers that hold the read lock
          jp,          \* per worker: its pointer while it walks, then the job it found
          pc,          \* per worker: "idle", "walk" or "found"
          puts,        \* jobs queued so far
          queue        \* what the queue should hold: the abstract sequence of jobs

ptrs == <<q_head, q_tail, j_next, j_prev>>
vars == <<ptrs, j_id, readers, jp, pc, puts, queue>>

\* queue_init
Init ==
  /\ q_head = Nil
  /\ q_tail = Nil
  /\ j_next = [j \in Jobs |-> Nil]
  /\ j_prev = [j \in Jobs |-> Nil]
  /\ j_id \in [Jobs -> {CHOOSE w \in Workers : TRUE}]
  /\ readers = {}
  /\ jp = [w \in Workers |-> Nil]
  /\ pc = [w \in Workers |-> "idle"]
  /\ puts = 0
  /\ queue = <<>>

Queued(j) == \E i \in DOMAIN queue : queue[i] = j
Found(j) == \E w \in Workers : pc[w] = "found" /\ jp[w] = j

\* the master queues a job nobody has; wrlock waits for the readers
Put(j, w) ==
  /\ puts < MaxPuts
  /\ ~Queued(j) /\ ~Found(j)
  /\ readers = {}
  /\ puts' = puts + 1
  /\ j_id' = [j_id EXCEPT ![j] = w]
  /\ UNCHANGED <<readers, jp, pc>>

Insert(j, w) ==
  /\ Put(j, w)
  /\ queue' = <<j>> \o queue
  /\ j_next' = [j_next EXCEPT ![j] = q_head]
  /\ j_prev' = [i \in Jobs |-> IF i = j THEN Nil
                               ELSE IF i = q_head THEN j ELSE j_prev[i]]
  /\ q_tail' = IF q_head = Nil THEN j ELSE q_tail
  /\ q_head' = j

AppendJob(j, w) ==
  /\ Put(j, w)
  /\ queue' = Append(queue, j)
  /\ j_prev' = [j_prev EXCEPT ![j] = q_tail]
  /\ j_next' = [i \in Jobs |-> IF i = j THEN Nil
                               ELSE IF i = q_tail THEN j ELSE j_next[i]]
  /\ q_head' = IF q_tail = Nil THEN j ELSE q_head
  /\ q_tail' = j

\* the pointers after job_remove: at the head, at the tail, between two others
RemoveHead(j) ==
  /\ q_head' = j_next[j]
  /\ IF q_tail = j THEN q_tail' = Nil /\ UNCHANGED j_prev
     ELSE j_prev' = [j_prev EXCEPT ![j_next[j]] = j_prev[j]] /\ UNCHANGED q_tail
  /\ UNCHANGED j_next

RemoveTail(j) ==
  /\ q_tail' = j_prev[j]
  /\ j_next' = [j_next EXCEPT ![j_prev[j]] = j_next[j]]
  /\ UNCHANGED <<q_head, j_prev>>

RemoveMiddle(j) ==
  /\ j_next' = [j_next EXCEPT ![j_prev[j]] = j_next[j]]
  /\ j_prev' = [j_prev EXCEPT ![j_next[j]] = j_prev[j]]
  /\ UNCHANGED <<q_head, q_tail>>

\* mutant: job_remove without the case of the tail
UnlinkNoTail(j) == IF j = q_head THEN RemoveHead(j)
                   ELSE /\ j_next' = [j_next EXCEPT ![j_prev[j]] = j_next[j]]
                        /\ j_prev' = [i \in Jobs |-> IF i = j_next[j] THEN j_prev[j]
                                                     ELSE j_prev[i]]
                        /\ UNCHANGED <<q_head, q_tail>>

Unlink(j) == IF j = q_head THEN RemoveHead(j)
             ELSE IF j = q_tail THEN RemoveTail(j) ELSE RemoveMiddle(j)

\* where a queued job stands
At(j) == CHOOSE k \in DOMAIN queue : queue[k] = j

RemoveJob(w) ==
  /\ pc[w] = "found"
  /\ readers = {}
  /\ Unlink(jp[w])
  /\ queue' = RemoveAt(queue, At(jp[w]))
  /\ jp' = [jp EXCEPT ![w] = Nil]
  /\ pc' = [pc EXCEPT ![w] = "idle"]
  /\ UNCHANGED <<j_id, readers, puts>>

\* job_find: rdlock may fail, which looks like no job; else the walk starts at the head
FindStart(w) ==
  /\ pc[w] = "idle"
  /\ readers' = readers \cup {w}
  /\ jp' = [jp EXCEPT ![w] = q_head]
  /\ pc' = [pc EXCEPT ![w] = "walk"]
  /\ UNCHANGED <<ptrs, j_id, puts, queue>>

FindNext(w) ==
  /\ pc[w] = "walk"
  /\ jp[w] # Nil
  /\ j_id[jp[w]] # w
  /\ jp' = [jp EXCEPT ![w] = j_next[jp[w]]]
  /\ UNCHANGED <<ptrs, j_id, readers, pc, puts, queue>>

FindEnd(w) ==
  /\ pc[w] = "walk"
  /\ jp[w] # Nil => j_id[jp[w]] = w
  /\ readers' = readers \ {w}
  /\ pc' = [pc EXCEPT ![w] = IF jp[w] = Nil THEN "idle" ELSE "found"]
  /\ UNCHANGED <<ptrs, j_id, jp, puts, queue>>

Next ==
  \/ \E j \in Jobs, w \in Workers : Insert(j, w) \/ AppendJob(j, w)
  \/ \E w \in Workers : RemoveJob(w) \/ FindStart(w) \/ FindNext(w) \/ FindEnd(w)

Spec == Init /\ [][Next]_vars
-----------------------------------------------------------------------------
Neighbour(i) == IF i \in DOMAIN queue THEN queue[i] ELSE Nil

\* Both chains of pointers spell the abstract sequence, whatever order of calls led here.
WellLinked ==
  /\ q_head = Neighbour(1)
  /\ q_tail = Neighbour(Len(queue))
  /\ \A i \in DOMAIN queue : /\ j_next[queue[i]] = Neighbour(i + 1)
                             /\ j_prev[queue[i]] = Neighbour(i - 1)

\* A walk never leaves the queue, and a job is found by the thread that handles it only.
FoundIsQueued ==
  \A w \in Workers : jp[w] # Nil =>
    /\ Queued(jp[w])
    /\ pc[w] = "found" => j_id[jp[w]] = w
=============================================================================
