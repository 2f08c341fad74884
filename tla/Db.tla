--------------------------------- MODULE Db ---------------------------------
(***************************************************************************)
(* The multi-user database library of apue.3e/db/db.c: several processes,  *)
(* each with one open handle, share an index file and a data file and      *)
(* coordinate with fcntl byte-range locks only.  One action is one system  *)
(* call on a file or a lock, together with the computation that follows    *)
(* it up to the next one.                                                  *)
(*                                                                         *)
(* Offsets in the index file are counted in slots, in file order: slot 0   *)
(* is the free list pointer (FREE_OFF), slots 1..NHash are the hash table, *)
(* and the slots after it are index records.  As in the file, 0 is also    *)
(* the null pointer.  Data records are counted from 1.                     *)
(***************************************************************************)
EXTENDS Integers, Sequences, FiniteSets

CONSTANTS
  Procs,      \* processes that have the database open
  Keys, Data, \* the keys and the values stored
  Blank,      \* a key or a value overwritten with spaces
  NHash,      \* number of hash chains (NHASH_DEF)
  Hash,       \* the chain of a key: a function Keys -> 1..NHash
  KeyLen,     \* strlen of a key
  DatLen,     \* length of a value, with its newline
  PtrMax,     \* PTR_MAX: the largest offset a pointer field can hold
  Workload,   \* the requests a process may make: Procs -> SUBSET Requests
  MaxOps,     \* bound: calls made by each process: Procs -> Nat
  MaxCrash,   \* bound: processes that are killed
  Preloads    \* initial contents: sequences of <<key, value>> stored in order

ASSUME ConstantsAssumption ==
  /\ NHash \in Nat \ {0} /\ PtrMax \in Nat /\ MaxCrash \in Nat
  /\ MaxOps \in [Procs -> Nat]
  /\ Blank \notin Keys \cup Data
  /\ Hash \in [Keys -> 1..NHash]
  /\ KeyLen \in [Keys -> Nat] /\ DatLen \in [Data -> Nat]

Keyed == [op : {"fetch", "delete"}, key : Keys, data : {Blank}]
Stores == [op : {"insert", "replace", "store"}, key : Keys, data : Data]
Cursor == [op : {"nextrec", "rewind"}, key : {Blank}, data : {Blank}]
Requests == Keyed \cup Stores \cup Cursor

ASSUME WorkloadAssumption == Workload \in [Procs -> SUBSET Requests]
ASSUME PreloadsAssumption ==
  \A s \in Preloads :
     /\ s \in Seq(Keys \X Data)
     /\ \A i, j \in DOMAIN s : s[i][1] = s[j][1] => i = j

FREE == 0                     \* the free list pointer, and its lock
IdxTail == NHash + 1          \* lock on the index file from its first record on
DatFile == NHash + 2          \* lock on the whole data file
Locks == 0 .. NHash + 2
Mid == 0                      \* file position that is not the start of a record

VARIABLES
  ptr,   \* index file: the chain pointer field at each slot
  rec,   \* index file: key, data offset and data length of each record
  dat,   \* data file
  rd, wr,\* holders of a read and of a write lock
  pc, req, ret, \* of a process: the next system call, its request, the result
  db,    \* of a process: the fields of its DB handle that outlive a statement
  loc,   \* of a process: locals of db_store, _db_dodelete and _db_findfree
  ops,   \* calls made so far
  torn   \* history: a process was killed inside _db_dodelete's update

files == <<ptr, rec, dat>>
locks == <<rd, wr>>
vars == <<ptr, rec, dat, rd, wr, pc, req, ret, db, loc, ops, torn>>

DelLabels == {"del_lock", "del_dat", "del_free", "del_idx", "del_head",
              "del_unlink", "del_unlock"}
FreeLabels == {"sto_ptr", "free_lock", "free_head", "free_walk", "free_take",
               "free_unlock"}
AppendLabels == {"sto_reread", "dat_lock", "dat_seek", "dat_write", "dat_unlock",
                 "idx_lock", "idx_seek", "idx_write", "idx_unlock"}
ReuseLabels == {"reuse_dat", "reuse_idx", "over_dat", "publish"}
ScanLabels == {"scan_lock", "scan_idx", "scan_dat", "scan_unlock"}
Labels == {"idle", "dead", "find_lock", "find_head", "find_walk", "fetch_dat", "unlock"}
          \cup DelLabels \cup FreeLabels \cup AppendLabels \cup ReuseLabels \cup ScanLabels

NoRequest == [op |-> "none", key |-> Blank, data |-> Blank]
NoLocals == [off |-> 0, save |-> 0, cptr |-> 0, freeptr |-> 0, saveptr |-> 0,
             deleted |-> FALSE]
NewHandle(pos) == [ptroff |-> 0, idxoff |-> 0, datoff |-> 0, datlen |-> 0,
                   ptrval |-> 0, key |-> Blank, klen |-> 0, buf |-> Blank,
                   fpos |-> pos]

First == NHash + 1                 \* slot of the first index record
IdxEnd == NHash + Len(rec)         \* slot of the last one
Rec(o) == rec[o - NHash]           \* the record at slot o
IsRec(o) == o \in First .. IdxEnd
Chain(p) == Hash[req[p].key]       \* db->chainoff

-----------------------------------------------------------------------------
(* Initial contents: the files after the pairs of one preload were stored,  *)
(* each appended and pushed on the front of its chain.                      *)

LastBefore(s, n, c) ==
  LET same == {i \in 1 .. n : Hash[s[i][1]] = c}
  IN IF same = {} THEN 0 ELSE NHash + (CHOOSE i \in same : \A j \in same : j <= i)

LoadedPtr(s) ==
  [o \in 0 .. NHash + Len(s) |->
     IF o = FREE THEN 0
     ELSE IF o <= NHash THEN LastBefore(s, Len(s), o)
     ELSE LastBefore(s, o - NHash - 1, Hash[s[o - NHash][1]])]
LoadedRec(s) ==
  [i \in 1 .. Len(s) |-> [key |-> s[i][1], klen |-> KeyLen[s[i][1]],
                          datoff |-> i, datlen |-> DatLen[s[i][2]]]]
LoadedDat(s) == [i \in 1 .. Len(s) |-> [val |-> s[i][2], len |-> DatLen[s[i][2]]]]

Init ==
  /\ \E s \in Preloads : ptr = LoadedPtr(s) /\ rec = LoadedRec(s) /\ dat = LoadedDat(s)
  /\ rd = [l \in Locks |-> {}] /\ wr = [l \in Locks |-> {}]
  /\ pc = [p \in Procs |-> "idle"]
  /\ req = [p \in Procs |-> NoRequest]
  /\ ret = [p \in Procs |-> "none"]
  /\ db = [p \in Procs |-> NewHandle(First)]    \* db_open ends with db_rewind
  /\ loc = [p \in Procs |-> NoLocals]
  /\ ops = [p \in Procs |-> 0]
  /\ torn = FALSE

-----------------------------------------------------------------------------
(* fcntl locks (writew_lock, readw_lock and un_lock of the APUE library).    *)

WriteLock(p, l) ==
  /\ rd[l] \subseteq {p} /\ wr[l] \subseteq {p}
  /\ wr' = [wr EXCEPT ![l] = {p}] /\ UNCHANGED rd
ReadLock(p, l) ==
  /\ wr[l] \subseteq {p}
  /\ rd' = [rd EXCEPT ![l] = @ \cup {p}] /\ UNCHANGED wr
Unlock(p, l) ==
  /\ rd' = [rd EXCEPT ![l] = @ \ {p}] /\ wr' = [wr EXCEPT ![l] = @ \ {p}]
Exit(p) ==
  /\ rd' = [l \in Locks |-> rd[l] \ {p}] /\ wr' = [l \in Locks |-> wr[l] \ {p}]

Goto(p, l) == pc' = [pc EXCEPT ![p] = l]

(* The file primitives of db.c.                                              *)
WritePtr(o, v) == ptr' = [ptr EXCEPT ![o] = v]
WriteIdx(o, v, r) ==
  LET end == IF o > IdxEnd THEN o ELSE IdxEnd
  IN /\ ptr' = [x \in 0 .. end |-> IF x = o THEN v ELSE ptr[x]]
     /\ rec' = [i \in 1 .. end - NHash |-> IF i = o - NHash THEN r ELSE rec[i]]
WriteDat(o, v, n) ==
  dat' = [i \in 1 .. (IF o > Len(dat) THEN o ELSE Len(dat)) |->
            IF i = o THEN [val |-> v, len |-> n] ELSE dat[i]]
\* mutant: the file is left at the record that was read
ReadIdxStays(p, o) ==
  [db[p] EXCEPT !.idxoff = o, !.ptrval = ptr[o], !.key = Rec(o).key,
                !.klen = Rec(o).klen, !.datoff = Rec(o).datoff,
                !.datlen = Rec(o).datlen, !.fpos = o]
\* the handle after _db_readidx of slot o
ReadIdx(p, o) ==
  [db[p] EXCEPT !.idxoff = o, !.ptrval = ptr[o], !.key = Rec(o).key,
                !.klen = Rec(o).klen, !.datoff = Rec(o).datoff,
                !.datlen = Rec(o).datlen, !.fpos = o + 1]

-----------------------------------------------------------------------------
(* A call begins: db_fetch, db_delete, db_store or db_nextrec; db_rewind     *)
(* only moves the file offset and takes no lock.                             *)

Call(p) ==
  /\ pc[p] = "idle" /\ ops[p] < MaxOps[p]
  /\ ops' = [ops EXCEPT ![p] = @ + 1]
  /\ \E r \in Workload[p] :
       \/ /\ r.op = "rewind"
          /\ db' = [db EXCEPT ![p].fpos = First]
          /\ UNCHANGED <<pc, req>>
       \/ /\ r.op # "rewind"
          /\ req' = [req EXCEPT ![p] = r]
          /\ Goto(p, IF r.op = "nextrec" THEN "scan_lock" ELSE "find_lock")
          /\ UNCHANGED db
  /\ UNCHANGED <<files, locks, ret, loc, torn>>

(* The call returns.  Every other field of the handle is set again by the    *)
(* next call before it is read; only the file offset carries over.           *)
Return(p, lock) ==
  /\ Unlock(p, lock)
  /\ Goto(p, "idle")
  /\ db' = [db EXCEPT ![p] = NewHandle(@.fpos)]
  /\ loc' = [loc EXCEPT ![p] = NoLocals]
  /\ req' = [req EXCEPT ![p] = NoRequest]
  /\ ret' = [ret EXCEPT ![p] = "none"]
  /\ UNCHANGED <<files, ops, torn>>

UnlockChain(p) == pc[p] = "unlock" /\ Return(p, Chain(p))

-----------------------------------------------------------------------------
(* _db_find_and_lock, and what db_fetch, db_delete and db_store decide from  *)
(* its result before their next system call.                                 *)

\* mutant: every call takes a read lock on its chain
FindLockShared(p) ==
  /\ pc[p] = "find_lock" /\ ReadLock(p, Chain(p))
  /\ Goto(p, "find_head")
  /\ UNCHANGED <<files, req, ret, db, loc, ops, torn>>

FindLock(p) ==
  /\ pc[p] = "find_lock"
  /\ IF req[p].op = "fetch" THEN ReadLock(p, Chain(p)) ELSE WriteLock(p, Chain(p))
  /\ Goto(p, "find_head")
  /\ UNCHANGED <<files, req, ret, db, loc, ops, torn>>

NotFound(p) ==
  \/ /\ req[p].op \in {"insert", "store"}
     /\ Goto(p, "sto_ptr") /\ UNCHANGED ret
  \/ /\ req[p].op \in {"fetch", "delete", "replace"}
     /\ Goto(p, "unlock") /\ ret' = [ret EXCEPT ![p] = "absent"]

Found(p, oldlen) ==
  \/ /\ req[p].op = "fetch" /\ Goto(p, "fetch_dat") /\ UNCHANGED ret
  \/ /\ req[p].op = "delete" /\ Goto(p, "del_lock") /\ UNCHANGED ret
  \/ /\ req[p].op = "insert"
     /\ Goto(p, "unlock") /\ ret' = [ret EXCEPT ![p] = "exists"]
  \/ /\ req[p].op \in {"replace", "store"}
     /\ Goto(p, IF DatLen[req[p].data] # oldlen THEN "del_lock" ELSE "over_dat")
     /\ UNCHANGED ret

FindHead(p) ==
  /\ pc[p] = "find_head"
  /\ db' = [db EXCEPT ![p].ptroff = Chain(p), ![p].fpos = Mid]
  /\ loc' = [loc EXCEPT ![p].off = ptr[Chain(p)]]
  /\ IF ptr[Chain(p)] = 0 THEN NotFound(p) ELSE Goto(p, "find_walk") /\ UNCHANGED ret
  /\ UNCHANGED <<files, locks, req, ops, torn>>

FindWalk(p) ==
  LET o == loc[p].off  match == Rec(o).key = req[p].key
  IN /\ pc[p] = "find_walk"
     /\ db' = [db EXCEPT ![p] = [ReadIdx(p, o) EXCEPT !.ptroff = IF match THEN @ ELSE o]]
     /\ loc' = [loc EXCEPT ![p].off = IF match THEN o ELSE ptr[o]]
     /\ \/ match /\ Found(p, Rec(o).datlen)
        \/ ~match /\ ptr[o] = 0 /\ NotFound(p)
        \/ ~match /\ ptr[o] # 0 /\ UNCHANGED <<pc, ret>>
     /\ UNCHANGED <<files, locks, req, ops, torn>>

(* db_fetch: _db_readdat of the record found.                                *)
FetchDat(p) ==
  /\ pc[p] = "fetch_dat"
  /\ db' = [db EXCEPT ![p].buf = dat[db[p].datoff].val]
  /\ ret' = [ret EXCEPT ![p] = "ok"]
  /\ Goto(p, "unlock")
  /\ UNCHANGED <<files, locks, req, loc, ops, torn>>

-----------------------------------------------------------------------------
(* _db_dodelete, for db_delete and for a db_store that changes the length.   *)

DelLock(p) ==
  /\ pc[p] = "del_lock" /\ WriteLock(p, FREE)
  /\ Goto(p, "del_dat")
  /\ UNCHANGED <<files, req, ret, db, loc, ops, torn>>

DelDat(p) ==
  /\ pc[p] = "del_dat"
  /\ WriteDat(db[p].datoff, Blank, db[p].datlen)
  /\ Goto(p, "del_free")
  /\ UNCHANGED <<ptr, rec, locks, req, ret, db, loc, ops, torn>>

DelFree(p) ==
  /\ pc[p] = "del_free"
  /\ loc' = [loc EXCEPT ![p].freeptr = ptr[FREE], ![p].saveptr = db[p].ptrval]
  /\ db' = [db EXCEPT ![p].fpos = Mid]
  /\ Goto(p, "del_idx")
  /\ UNCHANGED <<files, locks, req, ret, ops, torn>>

\* the index record the handle describes, as _db_writeidx formats it
IdxOf(p, k) ==
  [key |-> k, klen |-> IF k = Blank THEN db[p].klen ELSE KeyLen[k],
   datoff |-> db[p].datoff, datlen |-> db[p].datlen]

\* mutant: the freed index record keeps its key
DelIdxKeepsKey(p) ==
  /\ pc[p] = "del_idx"
  /\ WriteIdx(db[p].idxoff, loc[p].freeptr, IdxOf(p, db[p].key))
  /\ db' = [db EXCEPT ![p].ptrval = loc[p].freeptr, ![p].fpos = db[p].idxoff + 1]
  /\ Goto(p, "del_head")
  /\ UNCHANGED <<dat, locks, req, ret, loc, ops, torn>>

DelIdx(p) ==
  /\ pc[p] = "del_idx"
  /\ WriteIdx(db[p].idxoff, loc[p].freeptr, IdxOf(p, Blank))
  /\ db' = [db EXCEPT ![p].ptrval = loc[p].freeptr, ![p].fpos = db[p].idxoff + 1]
  /\ Goto(p, "del_head")
  /\ UNCHANGED <<dat, locks, req, ret, loc, ops, torn>>

DelHead(p) ==
  /\ pc[p] = "del_head"
  /\ WritePtr(FREE, db[p].idxoff)
  /\ db' = [db EXCEPT ![p].fpos = Mid]
  /\ Goto(p, "del_unlink")
  /\ UNCHANGED <<rec, dat, locks, req, ret, loc, ops, torn>>

DelUnlink(p) ==
  /\ pc[p] = "del_unlink"
  /\ WritePtr(db[p].ptroff, loc[p].saveptr)
  /\ db' = [db EXCEPT ![p].fpos = Mid]
  /\ Goto(p, "del_unlock")
  /\ UNCHANGED <<rec, dat, locks, req, ret, loc, ops, torn>>

\* mutant: the free list stays locked after a deletion
DelUnlockMissing(p) ==
  /\ pc[p] = "del_unlock" /\ UNCHANGED locks
  /\ \/ /\ req[p].op = "delete"
        /\ Goto(p, "unlock") /\ ret' = [ret EXCEPT ![p] = "ok"] /\ UNCHANGED loc
     \/ /\ req[p].op # "delete"
        /\ Goto(p, "sto_reread") /\ loc' = [loc EXCEPT ![p].deleted = TRUE]
        /\ UNCHANGED ret
  /\ UNCHANGED <<files, req, db, ops, torn>>

DelUnlock(p) ==
  /\ pc[p] = "del_unlock" /\ Unlock(p, FREE)
  /\ \/ /\ req[p].op = "delete"
        /\ Goto(p, "unlock") /\ ret' = [ret EXCEPT ![p] = "ok"] /\ UNCHANGED loc
     \/ /\ req[p].op # "delete"
        /\ Goto(p, "sto_reread") /\ loc' = [loc EXCEPT ![p].deleted = TRUE]
        /\ UNCHANGED ret
  /\ UNCHANGED <<files, req, db, ops, torn>>

-----------------------------------------------------------------------------
(* db_store of a new key: _db_findfree, then reuse or append.                *)

\* mutant: after a deletion the chain pointer is not read again
ReadChainOnce(p) ==
  /\ pc[p] \in {"sto_ptr", "sto_reread"}
  /\ \/ pc[p] = "sto_ptr" /\ Goto(p, "free_lock")
        /\ loc' = [loc EXCEPT ![p].cptr = ptr[Chain(p)]]
     \/ pc[p] = "sto_reread" /\ Goto(p, "dat_lock") /\ UNCHANGED loc
  /\ UNCHANGED <<files, locks, req, ret, db, ops, torn>>

\* the chain pointer is read before _db_findfree, or again after a deletion
ReadChain(p) ==
  /\ pc[p] \in {"sto_ptr", "sto_reread"}
  /\ loc' = [loc EXCEPT ![p].cptr = ptr[Chain(p)]]
  /\ db' = [db EXCEPT ![p].fpos = Mid]
  /\ Goto(p, IF pc[p] = "sto_ptr" THEN "free_lock" ELSE "dat_lock")
  /\ UNCHANGED <<files, locks, req, ret, ops, torn>>

\* mutant: _db_findfree does not lock the free list
FreeLockMissing(p) ==
  /\ pc[p] = "free_lock" /\ Goto(p, "free_head")
  /\ UNCHANGED <<files, locks, req, ret, db, loc, ops, torn>>

FreeLock(p) ==
  /\ pc[p] = "free_lock" /\ WriteLock(p, FREE)
  /\ Goto(p, "free_head")
  /\ UNCHANGED <<files, req, ret, db, loc, ops, torn>>

FreeHead(p) ==
  /\ pc[p] = "free_head"
  /\ loc' = [loc EXCEPT ![p].off = ptr[FREE], ![p].save = FREE]
  /\ db' = [db EXCEPT ![p].fpos = Mid]
  /\ Goto(p, IF ptr[FREE] = 0 THEN "free_unlock" ELSE "free_walk")
  /\ UNCHANGED <<files, locks, req, ret, ops, torn>>

Fits(p, o) ==
  /\ Rec(o).klen = KeyLen[req[p].key] /\ Rec(o).datlen = DatLen[req[p].data]

FreeWalk(p) ==
  LET o == loc[p].off
  IN /\ pc[p] = "free_walk"
     /\ db' = [db EXCEPT ![p] = ReadIdx(p, o)]
     /\ \/ Fits(p, o) /\ Goto(p, "free_take") /\ UNCHANGED loc
        \/ /\ ~Fits(p, o)
           /\ loc' = [loc EXCEPT ![p].off = ptr[o], ![p].save = o]
           /\ Goto(p, IF ptr[o] = 0 THEN "free_unlock" ELSE "free_walk")
     /\ UNCHANGED <<files, locks, req, ret, ops, torn>>

\* mutant: the record taken stays on the free list
FreeTakeKeeps(p) ==
  /\ pc[p] = "free_take" /\ Goto(p, "free_unlock")
  /\ UNCHANGED <<files, locks, req, ret, db, loc, ops, torn>>

FreeTake(p) ==
  /\ pc[p] = "free_take"
  /\ WritePtr(loc[p].save, db[p].ptrval)
  /\ db' = [db EXCEPT ![p].fpos = Mid]
  /\ Goto(p, "free_unlock")
  /\ UNCHANGED <<rec, dat, locks, req, ret, loc, ops, torn>>

FreeUnlock(p) ==
  /\ pc[p] = "free_unlock" /\ Unlock(p, FREE)
  /\ Goto(p, IF loc[p].off = 0 THEN "dat_lock" ELSE "reuse_dat")
  /\ UNCHANGED <<files, req, ret, db, loc, ops, torn>>

\* SEEK_SET writes: a reused record, or the same record with data of its length
OverwriteDat(p) ==
  /\ pc[p] \in {"reuse_dat", "over_dat"}
  /\ WriteDat(db[p].datoff, req[p].data, DatLen[req[p].data])
  /\ db' = [db EXCEPT ![p].datlen = DatLen[req[p].data]]
  /\ \/ pc[p] = "reuse_dat" /\ Goto(p, "reuse_idx") /\ UNCHANGED ret
     \/ /\ pc[p] = "over_dat" /\ Goto(p, "unlock")
        /\ ret' = [ret EXCEPT ![p] = "ok"]
  /\ UNCHANGED <<ptr, rec, locks, req, loc, ops, torn>>

ReuseIdx(p) ==
  /\ pc[p] = "reuse_idx"
  /\ WriteIdx(db[p].idxoff, loc[p].cptr, IdxOf(p, req[p].key))
  /\ db' = [db EXCEPT ![p].ptrval = loc[p].cptr, ![p].fpos = db[p].idxoff + 1]
  /\ Goto(p, "publish")
  /\ UNCHANGED <<dat, locks, req, ret, loc, ops, torn>>

-----------------------------------------------------------------------------
(* SEEK_END writes: lock the file, seek to its end, write there, unlock.     *)

\* mutant: appending without a lock
AppendLockMissing(p) ==
  /\ \/ pc[p] = "dat_lock" /\ Goto(p, "dat_seek")
     \/ pc[p] = "idx_lock" /\ Goto(p, "idx_seek")
  /\ UNCHANGED <<files, locks, req, ret, db, loc, ops, torn>>

AppendLock(p) ==
  /\ \/ pc[p] = "dat_lock" /\ WriteLock(p, DatFile) /\ Goto(p, "dat_seek")
     \/ pc[p] = "idx_lock" /\ WriteLock(p, IdxTail) /\ Goto(p, "idx_seek")
  /\ UNCHANGED <<files, req, ret, db, loc, ops, torn>>

\* mutant: _db_writedat does not record where the data went
AppendSeekForgets(p) ==
  /\ \/ pc[p] = "dat_seek" /\ Goto(p, "dat_write")
        /\ db' = [db EXCEPT ![p].datoff = 0, ![p].datlen = DatLen[req[p].data]]
     \/ pc[p] = "idx_seek" /\ Goto(p, "idx_write")
        /\ db' = [db EXCEPT ![p].idxoff = IdxEnd + 1, ![p].ptrval = loc[p].cptr]
  /\ UNCHANGED <<files, locks, req, ret, loc, ops, torn>>
AppendSeek(p) ==
  /\ \/ /\ pc[p] = "dat_seek" /\ Goto(p, "dat_write")
        /\ db' = [db EXCEPT ![p].datoff = Len(dat) + 1,
                            ![p].datlen = DatLen[req[p].data]]
     \/ /\ pc[p] = "idx_seek" /\ Goto(p, "idx_write")
        /\ db' = [db EXCEPT ![p].idxoff = IdxEnd + 1, ![p].ptrval = loc[p].cptr]
  /\ UNCHANGED <<files, locks, req, ret, loc, ops, torn>>

AppendWrite(p) ==
  /\ \/ /\ pc[p] = "dat_write" /\ Goto(p, "dat_unlock")
        /\ WriteDat(db[p].datoff, req[p].data, db[p].datlen)
        /\ UNCHANGED <<ptr, rec, db>>
     \/ /\ pc[p] = "idx_write" /\ Goto(p, "idx_unlock")
        /\ WriteIdx(db[p].idxoff, loc[p].cptr, IdxOf(p, req[p].key))
        /\ db' = [db EXCEPT ![p].fpos = db[p].idxoff + 1]
        /\ UNCHANGED dat
  /\ UNCHANGED <<locks, req, ret, loc, ops, torn>>

AppendUnlock(p) ==
  /\ \/ pc[p] = "dat_unlock" /\ Unlock(p, DatFile) /\ Goto(p, "idx_lock")
     \/ pc[p] = "idx_unlock" /\ Unlock(p, IdxTail) /\ Goto(p, "publish")
  /\ UNCHANGED <<files, req, ret, db, loc, ops, torn>>

\* mutant: no check against PTR_MAX, so an eighth digit is cut off
PublishUnchecked(p) ==
  /\ pc[p] = "publish"
  /\ WritePtr(Chain(p), IF db[p].idxoff <= PtrMax THEN db[p].idxoff ELSE db[p].idxoff \div 10)
  /\ db' = [db EXCEPT ![p].fpos = Mid]
  /\ ret' = [ret EXCEPT ![p] = "ok"]
  /\ Goto(p, "unlock")
  /\ UNCHANGED <<rec, dat, locks, req, loc, ops, torn>>

(* The record goes to the front of its chain, unless its offset is too       *)
(* large for a pointer field: then _db_writeptr calls err_quit, which exits. *)
Publish(p) ==
  /\ pc[p] = "publish"
  /\ \/ /\ db[p].idxoff <= PtrMax
        /\ WritePtr(Chain(p), db[p].idxoff)
        /\ db' = [db EXCEPT ![p].fpos = Mid]
        /\ ret' = [ret EXCEPT ![p] = "ok"]
        /\ Goto(p, "unlock")
        /\ UNCHANGED locks
     \/ /\ db[p].idxoff > PtrMax
        /\ Exit(p) /\ Goto(p, "dead")
        /\ UNCHANGED <<ptr, db, ret>>
  /\ UNCHANGED <<rec, dat, req, loc, ops, torn>>

-----------------------------------------------------------------------------
(* db_nextrec: under a read lock on the free list, read index records from   *)
(* the current file offset until one has a nonblank key, then its data.      *)

\* mutant: db_nextrec does not lock the free list
ScanLockMissing(p) ==
  /\ pc[p] = "scan_lock" /\ Goto(p, "scan_idx")
  /\ UNCHANGED <<files, locks, req, ret, db, loc, ops, torn>>

ScanLock(p) ==
  /\ pc[p] = "scan_lock" /\ ReadLock(p, FREE)
  /\ Goto(p, "scan_idx")
  /\ UNCHANGED <<files, req, ret, db, loc, ops, torn>>

\* mutant: an empty record ends the scan
ScanIdxStops(p) ==
  LET o == db[p].fpos
  IN /\ pc[p] = "scan_idx"
     /\ \/ /\ o > IdxEnd \/ (IsRec(o) /\ Rec(o).key = Blank)
           /\ ret' = [ret EXCEPT ![p] = "eof"]
           /\ Goto(p, "scan_unlock") /\ UNCHANGED <<locks, db>>
        \/ /\ IsRec(o) /\ Rec(o).key # Blank
           /\ db' = [db EXCEPT ![p] = ReadIdx(p, o)]
           /\ Goto(p, "scan_dat")
           /\ UNCHANGED <<locks, ret>>
     /\ UNCHANGED <<files, req, loc, ops, torn>>

ScanIdx(p) ==
  LET o == db[p].fpos
  IN /\ pc[p] = "scan_idx"
     /\ \/ /\ o > IdxEnd                             \* end of file
           /\ ret' = [ret EXCEPT ![p] = "eof"]
           /\ Goto(p, "scan_unlock") /\ UNCHANGED <<locks, db>>
        \/ /\ IsRec(o)
           /\ db' = [db EXCEPT ![p] = ReadIdx(p, o)]
           /\ Goto(p, IF Rec(o).key = Blank THEN "scan_idx" ELSE "scan_dat")
           /\ UNCHANGED <<locks, ret>>
        \/ /\ o = Mid                                \* not a record: err_dump
           /\ Exit(p) /\ Goto(p, "dead") /\ UNCHANGED <<db, ret>>
     /\ UNCHANGED <<files, req, loc, ops, torn>>

ScanDat(p) ==
  /\ pc[p] = "scan_dat"
  /\ db' = [db EXCEPT ![p].buf = dat[db[p].datoff].val]
  /\ ret' = [ret EXCEPT ![p] = "ok"]
  /\ Goto(p, "scan_unlock")
  /\ UNCHANGED <<files, locks, req, loc, ops, torn>>

ScanUnlock(p) == pc[p] = "scan_unlock" /\ Return(p, FREE)

-----------------------------------------------------------------------------
(* A process is killed in the middle of a call: the kernel drops its locks   *)
(* and nothing is undone.  Between the write of the blanked index record and *)
(* the unlinking of it, the chain still leads into the free list.            *)

TornLabels == {"del_head", "del_unlink"}

Kill(p) ==
  /\ pc[p] \notin {"idle", "dead"}
  /\ Cardinality({q \in Procs : pc[q] = "dead"}) < MaxCrash
  /\ Goto(p, "dead") /\ Exit(p)
  /\ torn' = (torn \/ pc[p] \in TornLabels)
  /\ UNCHANGED <<files, req, ret, db, loc, ops>>

Step(p) ==
  \/ FindLock(p) \/ FindHead(p) \/ FindWalk(p) \/ FetchDat(p) \/ UnlockChain(p)
  \/ DelLock(p) \/ DelDat(p) \/ DelFree(p) \/ DelIdx(p) \/ DelHead(p)
  \/ DelUnlink(p) \/ DelUnlock(p)
  \/ ReadChain(p) \/ FreeLock(p) \/ FreeHead(p) \/ FreeWalk(p) \/ FreeTake(p)
  \/ FreeUnlock(p) \/ OverwriteDat(p) \/ ReuseIdx(p)
  \/ AppendLock(p) \/ AppendSeek(p) \/ AppendWrite(p) \/ AppendUnlock(p) \/ Publish(p)
  \/ ScanLock(p) \/ ScanIdx(p) \/ ScanDat(p) \/ ScanUnlock(p)

\* every process has made its calls or is gone
Finished ==
  /\ \A p \in Procs : pc[p] = "dead" \/ (pc[p] = "idle" /\ ops[p] = MaxOps[p])
  /\ UNCHANGED vars

Next == (\E p \in Procs : Call(p) \/ Step(p) \/ Kill(p)) \/ Finished

Spec == Init /\ [][Next]_vars

\* a process that is not killed keeps running; a lock wait ends once the lock is free
FairSpec == Spec /\ \A p \in Procs : WF_vars(Step(p))

-----------------------------------------------------------------------------
(* Properties *)

Slots == 0 .. IdxEnd
PtrVals == {0} \cup (First .. IdxEnd)    \* null, or an index record that exists
IdxRecs == [key : Keys \cup {Blank}, klen : Nat, datoff : Nat \ {0}, datlen : Nat]
DatRecs == [val : Data \cup {Blank}, len : Nat]
Handles == [ptroff : Nat, idxoff : Nat, datoff : Nat, datlen : Nat, ptrval : Nat,
            key : Keys \cup {Blank}, klen : Nat, buf : Data \cup {Blank}, fpos : Nat]
Locals == [off : Nat, save : Nat, cptr : Nat, freeptr : Nat, saveptr : Nat,
           deleted : BOOLEAN]

FilesTyped == rec \in Seq(IdxRecs) /\ dat \in Seq(DatRecs) /\ ptr \in [Slots -> PtrVals]
LocksTyped == rd \in [Locks -> SUBSET Procs] /\ wr \in [Locks -> SUBSET Procs]
ProcsTyped ==
  /\ pc \in [Procs -> Labels]
  /\ req \in [Procs -> Requests \cup {NoRequest}]
  /\ ret \in [Procs -> {"none", "ok", "absent", "exists", "eof"}]
  /\ db \in [Procs -> Handles] /\ loc \in [Procs -> Locals]
  /\ ops \in [Procs -> Nat] /\ \A p \in Procs : ops[p] <= MaxOps[p]

(* Type invariant: the shape of the files, the locks and the handles; every  *)
(* pointer field holds 0 or the slot of an index record that exists.         *)
TypeOK == FilesTyped /\ LocksTyped /\ ProcsTyped /\ torn \in BOOLEAN

\* a record is cut out of its chain from the write of its blanked index record on
Unlinking(p) == pc[p] \in TornLabels
NextOf(o) ==
  LET cut == {p \in Procs : Unlinking(p) /\ db[p].ptroff = o}
  IN IF cut = {} THEN ptr[o] ELSE loc[CHOOSE p \in cut : TRUE].saveptr
\* the records reached from a chain head or the free list pointer
Reach(head) ==
  LET close[S \in SUBSET Slots] ==
        LET T == (S \cup {NextOf(o) : o \in S}) \ {0}
        IN IF T = S THEN S ELSE close[T]
  IN close[{NextOf(head)} \ {0}]
Reachable == UNION {Reach(h) : h \in 0 .. NHash}

\* records taken off the free list, or appended, and not yet in a chain
InHand(p) ==
  IF \/ pc[p] = "free_unlock" /\ loc[p].off # 0
     \/ pc[p] \in {"reuse_dat", "reuse_idx", "idx_unlock", "publish"}
  THEN {db[p].idxoff} ELSE {}

(* The chains and the free list never meet and never loop: among the hash    *)
(* table, the free list pointer and the records reached from them, no two    *)
(* pointers lead to the same record, and no record a store is still filling  *)
(* in is reached or held by a second process.  (One delete and one insert    *)
(* on different chains race for the free list between their locks.)          *)
ChainsDisjoint ==
  torn \/
  LET live == Reachable
  IN /\ \A a, b \in (0 .. NHash) \cup live :
          a # b => NextOf(a) # NextOf(b) \/ NextOf(a) = 0
     /\ \A p \in Procs : InHand(p) \cap live = {}
     /\ \A p, q \in Procs : p # q => InHand(p) \cap InHand(q) = {}

(* Every record in a chain has a key that hashes to it, no key is in a chain *)
(* twice, the free list holds only blanked records, and no two index records *)
(* share a data record.                                                      *)
KeysPlaced ==
  torn \/
  /\ \A c \in 1 .. NHash :
       LET chain == Reach(c)
       IN \A o \in chain :
            /\ Rec(o).key # Blank /\ Hash[Rec(o).key] = c
            /\ \A q \in chain : Rec(q).key = Rec(o).key => q = o
  /\ \A o \in Reach(FREE) : Rec(o).key = Blank
  /\ \A i, j \in DOMAIN rec : rec[i].datoff = rec[j].datoff => i = j

(* An index record never moves or changes size, and neither does its data:   *)
(* the files are only appended to and overwritten with the same lengths.     *)
(* _db_readidx reads a record in two system calls and relies on it.          *)
GeometryFixed ==
  [][/\ Len(rec') >= Len(rec) /\ Len(dat') >= Len(dat)
     /\ \A i \in DOMAIN rec :
          /\ rec'[i].klen = rec[i].klen
          /\ rec'[i].datoff = rec[i].datoff /\ rec'[i].datlen = rec[i].datlen
     /\ \A i \in DOMAIN dat : dat'[i].len = dat[i].len]_vars

(* "so that we don't read a record in the middle of its being deleted"       *)
(* (db.c:843): when db_nextrec goes on to read the data of a record, that    *)
(* record still has the key it saw and unblanked data, and it is in its      *)
(* chain or about to be put there by the store that wrote it.                *)
ScanReadsLive ==
  \A p \in Procs : pc[p] = "scan_dat" =>
    LET o == db[p].idxoff
    IN /\ Rec(o).key = db[p].key
       /\ dat[db[p].datoff].val # Blank /\ dat[db[p].datoff].len = db[p].datlen
       /\ o \in Reach(Hash[db[p].key]) \cup UNION {InHand(q) : q \in Procs}

(* Every call returns: no order of the chain locks, the free list lock and   *)
(* the two append locks leaves processes waiting for each other for ever.    *)
CallsReturn == \A p \in Procs : pc[p] # "idle" ~> pc[p] \in {"idle", "dead"}
=============================================================================
