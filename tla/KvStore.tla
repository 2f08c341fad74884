------------------------------ MODULE KvStore ------------------------------
(***************************************************************************)
(* What apue.3e/db/db.c promises its callers: a map from keys to values on *)
(* which db_fetch, db_delete and db_store of several processes take effect *)
(* one at a time, each somewhere between its call and its return.          *)
(* A process that exits or is killed inside a call may leave the key of    *)
(* that call, and no other, with an old, new, absent or blanked value;     *)
(* only one killed inside a deletion may break the store for everybody.    *)
(***************************************************************************)
CONSTANTS Procs, Keys, Data, Blank, None

Keyed == [op : {"fetch", "delete"}, key : Keys, data : {Blank}]
Stores == [op : {"insert", "replace", "store"}, key : Keys, data : Data]
Deletes(r) == r.op \in {"delete", "replace", "store"}

VARIABLES kv,     \* the value of each key, None if it is absent
          call,   \* of a process: Idle, Dead or its request and the outcome so far
          broken  \* a deletion was cut short and nothing is promised any more

vars == <<kv, call, broken>>

NoReq == [op |-> "none", key |-> Blank, data |-> Blank]
Idle == [req |-> NoReq, res |-> "idle", val |-> Blank]
Dead == [req |-> NoReq, res |-> "dead", val |-> Blank]

TypeOK ==
  /\ kv \in [Keys -> Data \cup {Blank, None}]
  /\ broken \in BOOLEAN
  /\ \A p \in Procs :
       call[p] \in {Idle, Dead} \cup
         [req : Keyed \cup Stores, res : {"none", "ok", "absent", "exists"},
          val : Data \cup {Blank}]

Init ==
  /\ kv \in [Keys -> Data \cup {None}]
  /\ call = [p \in Procs |-> Idle] /\ broken = FALSE

Invoke(p) ==
  /\ call[p] = Idle
  /\ call' \in {[call EXCEPT ![p] = [req |-> r, res |-> "none", val |-> Blank]]
                 : r \in Keyed \cup Stores}
  /\ UNCHANGED <<kv, broken>>

\* what the call does to the map, and what it will answer
Answer(p, res, val, new) ==
  /\ call' = [call EXCEPT ![p].res = res, ![p].val = val]
  /\ kv' = [kv EXCEPT ![call[p].req.key] = new]

Apply(p) ==
  LET r == call[p].req  old == kv[r.key]
  IN /\ call[p].res = "none"
     /\ \/ r.op = "fetch" /\ old # None /\ Answer(p, "ok", old, old)
        \/ r.op = "delete" /\ old # None /\ Answer(p, "ok", Blank, None)
        \/ r.op = "insert" /\ old = None /\ Answer(p, "ok", Blank, r.data)
        \/ r.op = "insert" /\ old # None /\ Answer(p, "exists", Blank, old)
        \/ r.op = "replace" /\ old # None /\ Answer(p, "ok", Blank, r.data)
        \/ r.op = "store" /\ Answer(p, "ok", Blank, r.data)
        \/ /\ r.op \in {"fetch", "delete", "replace"} /\ old = None
           /\ Answer(p, "absent", Blank, None)
     /\ UNCHANGED broken

Respond(p) ==
  /\ call[p].res \in {"ok", "absent", "exists"}
  /\ call' = [call EXCEPT ![p] = Idle]
  /\ UNCHANGED <<kv, broken>>

Die(p) ==
  /\ call[p] # Dead
  /\ call' = [call EXCEPT ![p] = Dead]
  /\ \/ UNCHANGED <<kv, broken>>
     \/ /\ call[p].req.op \in {"delete", "insert", "replace", "store"}
        /\ kv' \in {[kv EXCEPT ![call[p].req.key] = v] : v \in Data \cup {Blank, None}}
        /\ UNCHANGED broken
     \/ Deletes(call[p].req) /\ broken'

Next ==
  \/ broken /\ broken'
  \/ ~broken /\ \E p \in Procs : Invoke(p) \/ Apply(p) \/ Respond(p) \/ Die(p)

Spec == Init /\ [][Next]_vars
=============================================================================
