-------------------------------- MODULE DbKv --------------------------------
(***************************************************************************)
(* db.c implements KvStore.  The map is read off the files by walking each *)
(* chain.  Two calls take effect before their chain pointer is written: a  *)
(* deletion when it blanks the data, and a replacement by data of another  *)
(* length, which deletes and appends, at that same write: from then on no  *)
(* other process can see the old value, and the chain lock hides the gap.  *)
(***************************************************************************)
EXTENDS Db
CONSTANT None
ASSUME NoneAssumption == None \notin Data \cup {Blank}

\* calls that took effect at the blanking of the old data and have not returned
Committed(p) ==
  \/ pc[p] \in {"del_free", "del_idx", "del_head", "del_unlink", "del_unlock"}
  \/ loc[p].deleted /\ pc[p] \notin {"idle", "dead"}

StoredUnder(k) ==
  LET at == {o \in Reach(Hash[k]) : Rec(o).key = k}
  IN IF at = {} THEN None ELSE dat[Rec(CHOOSE o \in at : TRUE).datoff].val

Kv ==
  [k \in Keys |->
     IF \E p \in Procs : Committed(p) /\ req[p].key = k
     THEN LET r == req[CHOOSE p \in Procs : Committed(p) /\ req[p].key = k]
          IN IF r.op = "delete" THEN None ELSE r.data
     ELSE StoredUnder(k)]

CallOf(p) ==
  IF pc[p] = "dead" THEN [req |-> NoRequest, res |-> "dead", val |-> Blank]
  ELSE IF pc[p] = "idle" \/ req[p].op = "nextrec"
  THEN [req |-> NoRequest, res |-> "idle", val |-> Blank]
  ELSE [req |-> req[p],
        res |-> IF Committed(p) THEN "ok" ELSE ret[p],
        val |-> db[p].buf]

Abstract == INSTANCE KvStore WITH
  kv <- Kv, call <- [p \in Procs |-> CallOf(p)], broken <- torn

(* Fetches, deletes and stores of concurrent processes take effect one at a  *)
(* time; a call that dies spoils at most its own key, unless it is killed    *)
(* between the blanked index record and the unlinking (db.c:509-522).        *)
Linearizable == Abstract!Spec
=============================================================================
