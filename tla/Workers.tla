------------------------------ MODULE Workers ------------------------------
(***************************************************************************)
(* The doubly linked list of client threads of printd.c, node by node.     *)
(* Each section under workerlock is one step.  add_worker moves the head   *)
(* of the list only when the list is empty.                                *)
(***************************************************************************)
CONSTANTS
  Threads,   \* client threads, each with the node that add_worker allocates for it
  Nil        \* the null pointer

VARIABLES
  head,        \* workers
  next, prev,  \* of each node
  node,        \* "none" before malloc, "live", "freed"
  running,     \* threads between add_worker and client_cleanup
  cancelled,   \* threads that kill_workers cancelled
  killed       \* kill_workers has run

vars == <<head, next, prev, node, running, cancelled, killed>>

Init ==
  /\ head = Nil /\ next = [t \in Threads |-> Nil] /\ prev = [t \in Threads |-> Nil]
  /\ node = [t \in Threads |-> "none"]
  /\ running = {} /\ cancelled = {} /\ killed = FALSE

\* the nodes a walk from the head can come by
RECURSIVE Walk(_)
Walk(t) == IF t = Nil THEN {} ELSE {t} \cup Walk(next[t])
\* a freed node holds anything: a walk that comes to one may find any of the threads
Listed ==
  IF \A t \in Walk(head) : node[t] = "live" THEN {Walk(head)} ELSE SUBSET running

AddWorker(t) ==
  /\ node[t] = "none" /\ ~killed
  /\ node' = [node EXCEPT ![t] = "live"] /\ running' = running \cup {t}
  /\ next' = [next EXCEPT ![t] = head]
  /\ IF head = Nil THEN head' = t /\ UNCHANGED prev
                   ELSE prev' = [prev EXCEPT ![head] = t] /\ UNCHANGED head
  /\ UNCHANGED <<cancelled, killed>>

\* client_cleanup: a thread that finds its node unlinks and frees it and closes its
\* socket; one that does not leaves both behind
Cleanup(t) ==
  /\ t \in running /\ running' = running \ {t}
  /\ \E list \in Listed :
       IF t \notin list THEN UNCHANGED <<head, next, prev, node>>
       ELSE /\ node' = [node EXCEPT ![t] = "freed"]
            /\ prev' = IF next[t] = Nil THEN prev ELSE [prev EXCEPT ![next[t]] = prev[t]]
            /\ IF prev[t] # Nil
               THEN next' = [next EXCEPT ![prev[t]] = next[t]] /\ UNCHANGED head
               ELSE head' = next[t] /\ UNCHANGED next
  /\ UNCHANGED <<cancelled, killed>>

KillWorkers ==
  /\ ~killed /\ killed' = TRUE
  /\ \E list \in Listed : cancelled' = list
  /\ UNCHANGED <<head, next, prev, node, running>>

Next == KillWorkers \/ \E t \in Threads : AddWorker(t) \/ Cleanup(t)
Spec == Init /\ [][Next]_vars

-----------------------------------------------------------------------------
(* "Cancel (kill) all outstanding workers." (printd.c:552): when             *)
(* kill_workers returns, each thread that is still at work is cancelled.     *)
KillsAll == [][killed' /\ ~killed => running \subseteq cancelled']_vars
=============================================================================
