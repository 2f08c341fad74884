------------------------------- MODULE DbOpen -------------------------------
(***************************************************************************)
(* db_open of apue.3e/db/db.c by several processes, with users of the      *)
(* index file working beside it.  open(2) may create the file and O_TRUNC  *)
(* empties it at once, before any lock is taken; with O_CREAT and O_TRUNC  *)
(* the hash table (one cell here, the header) is then written under a lock *)
(* of the whole file; O_TRUNC alone only empties it.  A user's call is     *)
(* reduced to what touches the header: the chain lock, the first read, the *)
(* append of an index record and the write of a pointer.                   *)
(***************************************************************************)
EXTENDS Integers, Sequences

CONSTANTS Procs, MaxOpens, MaxCells   \* bounds: opens per process, file length

ASSUME OpenAssumption == MaxOpens \in Nat /\ MaxCells \in Nat \ {0}

Flags == {"rdwr", "trunc", "creat", "creat_trunc"}
Creates == {"creat", "creat_trunc"}
Truncates == {"trunc", "creat_trunc"}

VARIABLES
  exists,  \* the index file is there
  idx,     \* its cells: "hdr", "rec", or "junk" where a pointer was misplaced
  whole,   \* holders of the write lock on the whole file (db_open)
  part,    \* holders of a record lock in it (a chain and the tail, in a store)
  pc, flag, size, opens,
  made,    \* history: this open created the file
  bare,    \* history: O_TRUNC without O_CREAT emptied it, not initialized since
  hit      \* history: O_TRUNC emptied the file while a store was under way

vars == <<exists, idx, whole, part, pc, flag, size, opens, made, bare, hit>>
Labels == {"closed", "stat_lock", "stat", "init", "stat_unlock", "open",
           "use_lock", "use_head", "use_append", "use_publish", "use_unlock", "dead"}
InStore == {"use_append", "use_publish"}
Goto(p, l) == pc' = [pc EXCEPT ![p] = l]

Init ==
  /\ exists = FALSE /\ idx = <<>> /\ whole = {} /\ part = {}
  /\ pc = [p \in Procs |-> "closed"] /\ flag = [p \in Procs |-> "rdwr"]
  /\ size = [p \in Procs |-> 0] /\ opens = [p \in Procs |-> 0]
  /\ made = [p \in Procs |-> FALSE] /\ bare = FALSE /\ hit = FALSE

(* open(2) of the index file; without O_CREAT a missing file makes db_open   *)
(* free the handle and return NULL.  Only O_CREAT together with O_TRUNC goes *)
(* on to the initialization.                                                 *)
Open(p) ==
  /\ pc[p] = "closed" /\ opens[p] < MaxOpens
  /\ opens' = [opens EXCEPT ![p] = @ + 1]
  /\ \E f \in Flags :
       \/ f \notin Creates /\ ~exists /\ UNCHANGED <<exists, idx, pc, flag, made, bare, hit>>
       \/ /\ f \in Creates \/ exists
          /\ exists' = TRUE
          /\ flag' = [flag EXCEPT ![p] = f]
          /\ made' = [made EXCEPT ![p] = ~exists]
          /\ idx' = IF f \in Truncates THEN <<>> ELSE idx
          /\ bare' = (bare \/ f = "trunc")
          /\ hit' = (hit \/ (f \in Truncates /\ \E q \in Procs : pc[q] \in InStore))
          /\ Goto(p, IF f = "creat_trunc" THEN "stat_lock" ELSE "open")
  /\ UNCHANGED <<whole, part, size>>

\* mutant: no lock around the size check and the initialization
StatLockMissing(p) ==
  /\ pc[p] = "stat_lock" /\ Goto(p, "stat")
  /\ UNCHANGED <<exists, idx, whole, part, flag, size, opens, made, bare, hit>>
StatLock(p) ==
  /\ pc[p] = "stat_lock" /\ whole = {} /\ part \subseteq {p}
  /\ whole' = {p} /\ Goto(p, "stat")
  /\ UNCHANGED <<exists, idx, part, flag, size, opens, made, bare, hit>>

Stat(p) ==
  /\ pc[p] = "stat"
  /\ size' = [size EXCEPT ![p] = Len(idx)]
  /\ Goto(p, IF Len(idx) = 0 THEN "init" ELSE "stat_unlock")
  /\ UNCHANGED <<exists, idx, whole, part, flag, opens, made, bare, hit>>

\* mutant: the hash table is not written
InitHashMissing(p) ==
  /\ pc[p] = "init" /\ Goto(p, "stat_unlock")
  /\ UNCHANGED <<exists, idx, whole, part, flag, size, opens, made, bare, hit>>
\* write at the file offset of the new descriptor, 0
InitHash(p) ==
  /\ pc[p] = "init"
  /\ idx' = <<"hdr">> \o (IF idx = <<>> THEN <<>> ELSE Tail(idx))
  /\ bare' = FALSE /\ Goto(p, "stat_unlock")
  /\ UNCHANGED <<exists, whole, part, flag, size, opens, made, hit>>

StatUnlock(p) ==
  /\ pc[p] = "stat_unlock"
  /\ whole' = whole \ {p} /\ Goto(p, "open")
  /\ UNCHANGED <<exists, idx, part, flag, size, opens, made, bare, hit>>

\* mutant: the chain lock is granted inside the locked file
UseLockIgnoresWhole(p) ==
  /\ pc[p] = "open" /\ Len(idx) < MaxCells
  /\ part \subseteq {p}
  /\ part' = {p} /\ Goto(p, "use_head")
  /\ UNCHANGED <<exists, idx, whole, flag, size, opens, made, bare, hit>>
(* A store by a process that has the database open.                          *)
UseLock(p) ==
  /\ pc[p] = "open" /\ Len(idx) < MaxCells
  /\ whole \subseteq {p} /\ part \subseteq {p}
  /\ part' = {p} /\ Goto(p, "use_head")
  /\ UNCHANGED <<exists, idx, whole, flag, size, opens, made, bare, hit>>

\* mutant: an empty file reads as a null pointer
UseHeadUnchecked(p) ==
  /\ pc[p] = "use_head" /\ Goto(p, "use_append")
  /\ UNCHANGED <<exists, idx, whole, part, flag, size, opens, made, bare, hit>>
UseHead(p) ==
  /\ pc[p] = "use_head"
  /\ \/ idx # <<>> /\ Goto(p, "use_append") /\ UNCHANGED part
     \/ idx = <<>> /\ Goto(p, "dead") /\ part' = part \ {p}  \* err_dump: short read
  /\ UNCHANGED <<exists, idx, whole, flag, size, opens, made, bare, hit>>

UseAppend(p) ==
  /\ pc[p] = "use_append"
  /\ idx' = Append(idx, "rec") /\ Goto(p, "use_publish")
  /\ UNCHANGED <<exists, whole, part, flag, size, opens, made, bare, hit>>

\* the pointer is written inside the hash table, or where it should have been
UsePublish(p) ==
  /\ pc[p] = "use_publish"
  /\ idx' = IF idx # <<>> /\ Head(idx) = "hdr" THEN idx
            ELSE <<"junk">> \o (IF idx = <<>> THEN <<>> ELSE Tail(idx))
  /\ Goto(p, "use_unlock")
  /\ UNCHANGED <<exists, whole, part, flag, size, opens, made, bare, hit>>

UseUnlock(p) ==
  /\ pc[p] = "use_unlock"
  /\ part' = part \ {p} /\ Goto(p, "open")
  /\ UNCHANGED <<exists, idx, whole, flag, size, opens, made, bare, hit>>

Close(p) ==
  /\ pc[p] = "open" /\ Goto(p, "closed")
  /\ UNCHANGED <<exists, idx, whole, part, flag, size, opens, made, bare, hit>>

Finished ==
  /\ \A p \in Procs : pc[p] = "dead" \/ (pc[p] = "closed" /\ opens[p] = MaxOpens)
  /\ UNCHANGED vars

Next ==
  \/ \E p \in Procs :
       \/ Open(p) \/ StatLock(p) \/ Stat(p) \/ InitHash(p) \/ StatUnlock(p) \/ Close(p)
       \/ UseLock(p) \/ UseHead(p) \/ UseAppend(p) \/ UsePublish(p) \/ UseUnlock(p)
  \/ Finished

Spec == Init /\ [][Next]_vars

-----------------------------------------------------------------------------
(* Properties *)

Initializing == {p \in Procs : pc[p] \in {"stat_lock", "stat", "init"}}
HasHeader == idx # <<>> /\ Head(idx) = "hdr"

(* Type invariant; the lock of the whole file excludes every record lock.    *)
TypeOK ==
  /\ exists \in BOOLEAN /\ hit \in BOOLEAN /\ bare \in BOOLEAN
  /\ idx \in Seq({"hdr", "rec", "junk"}) /\ Len(idx) <= MaxCells
  /\ whole \subseteq Procs /\ part \subseteq Procs
  /\ \A p, q \in whole \cup part : p = q
  /\ pc \in [Procs -> Labels] /\ flag \in [Procs -> Flags]
  /\ size \in [Procs -> Nat] /\ opens \in [Procs -> 0 .. MaxOpens]
  /\ made \in [Procs -> BOOLEAN]

(* Whatever opens, creations and stores interleave, a file that is not empty *)
(* begins with the hash table, unless O_TRUNC hit a store under way: the     *)
(* truncation is done by open(2), outside every lock (db.c:117).             *)
HeaderFirst == hit \/ idx = <<>> \/ HasHeader

(* "so that we can stat it, check its size, and initialize it, atomically"   *)
(* (db.c:137): the hash table is written into an empty file only, never over *)
(* records that another process stored after the size was checked.           *)
InitKeepsRecords ==
  [][\A p \in Procs : (pc[p] = "init" /\ pc'[p] = "stat_unlock") => idx = <<>>]_vars

(* Once db_open with O_CREAT | O_TRUNC has returned and no other such call   *)
(* is in progress, the database is ready to be used by everybody, unless a   *)
(* process has since opened it with O_TRUNC alone: open(2) (db.c:126)        *)
(* empties the file for that one too, and db.c:134 leaves it empty.          *)
CreatorsReady ==
  (~hit /\ ~bare /\ Initializing = {}) =>
    ((\E p \in Procs : flag[p] = "creat_trunc" /\ pc[p] # "closed") => HasHeader)

(* "If the database was created, we have to initialize it" (db.c:135): when  *)
(* the db_open that created the file has returned, the hash table is there.  *)
CreatedIsInitialized ==
  (~bare /\ Initializing = {}) => \A p \in Procs : (made[p] /\ pc[p] = "open") => HasHeader
=============================================================================
