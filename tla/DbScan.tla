------------------------------- MODULE DbScan -------------------------------
(***************************************************************************)
(* Db with a history of each handle's scan: what db_nextrec has returned   *)
(* since the last db_rewind (db_open rewinds too), which keys were stored, *)
(* deleted or moved meanwhile, the slot that is next in file order, and    *)
(* whether the handle made any call besides db_nextrec.                    *)
(***************************************************************************)
EXTENDS Db

VARIABLE scan
svars == <<vars, scan>>

SlotsOf(k) == {o \in Reach(Hash[k]) : Rec(o).key = k}

Fresh == [seen |-> {}, moved |-> {}, next |-> First, pure |-> TRUE]

Rewinds(p) == ops'[p] # ops[p] /\ pc'[p] = "idle"
Reads(p) == pc[p] = "scan_idx" /\ db'[p].fpos # db[p].fpos
Returns(p) == pc[p] = "scan_dat" /\ pc'[p] = "scan_unlock"

History(p) ==
  IF Rewinds(p) THEN Fresh
  ELSE [seen |-> scan[p].seen \cup IF Returns(p) THEN {db[p].key} ELSE {},
        moved |-> scan[p].moved \cup {k \in Keys : SlotsOf(k)' # SlotsOf(k)},
        next |-> IF Reads(p) THEN db'[p].fpos ELSE scan[p].next,
        pure |-> scan[p].pure /\ pc'[p] # "find_lock"]

ScanInit == Init /\ scan = [p \in Procs |-> Fresh]
ScanNext == Next /\ scan' = [p \in Procs |-> History(p)]
ScanSpec == ScanInit /\ [][ScanNext]_svars

(* A scan that runs to the end of the index file without other calls on its  *)
(* handle has returned every key that is in the database and stayed in place *)
(* since the scan began, whatever other processes did to the other keys.     *)
ScanComplete ==
  \A p \in Procs : ret[p] = "eof" /\ scan[p].pure =>
    {k \in Keys : SlotsOf(k) # {}} \subseteq scan[p].seen \cup scan[p].moved

(* Such a scan returns a key a second time only if the key was stored again  *)
(* or moved since the scan began.                                            *)
ScanOnce ==
  [][\A p \in Procs : Returns(p) /\ scan[p].pure /\ db[p].key \in scan[p].seen
       => db[p].key \in scan[p].moved]_svars

(* "Return the next sequential record. ... db_rewind must be called before   *)
(* this function is called the first time" (db.c:830-833): db_nextrec starts *)
(* at the slot that follows the one it read last, whatever calls of the      *)
(* other functions came between.                                             *)
NextIsSequential ==
  \A p \in Procs : pc[p] = "scan_idx" => db[p].fpos = scan[p].next
=============================================================================
