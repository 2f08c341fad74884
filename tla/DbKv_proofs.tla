------------------------------ MODULE DbKv_proofs ------------------------------
(***************************************************************************)
(* Proof that Db implements KvStore under the refinement mapping of DbKv,  *)
(* for any processes, keys, values, hash function, workload and crashes:   *)
(* fetches, deletes and stores take effect one at a time.  Then proofs     *)
(* about the scans of db_nextrec, as DbScan records them.                  *)
(***************************************************************************)
EXTENDS DbKv, DbScan, DbChains_proofs

-----------------------------------------------------------------------------
(* The inductive invariant: that of the lists, what a label says of the call *)
(* and its answer so far, and which data records hold what is being stored.  *)

Changes(l, r) ==
  /\ l \in StoreLabels => r.op \in {"insert", "replace", "store"}
  /\ l = "over_dat" => r.op \in {"replace", "store"}
  /\ l \in DelLabels => r.op \in {"delete", "replace", "store"}
  /\ l = "fetch_dat" => r.op = "fetch"
  /\ l \in ScanLabels => r.op = "nextrec"
Answered(l, t, h) ==
  /\ l \in KeyLabels \cup {"idle"} /\ l # "unlock" => t = "none" /\ h.buf = Blank
  /\ l = "unlock" => t \in {"ok", "absent", "exists"}
\* a store deleted an old record first, or there was none
Deleted(l, r, v) ==
  /\ v.deleted => l \in AppendLabels \cup {"publish", "unlock", "dead"} /\ r.op \in {"replace", "store"}
  /\ l = "sto_reread" => v.deleted
  /\ l \in StoreLabels \ {"over_dat"} /\ ~v.deleted => r.op \in {"insert", "store"}
CallFits(l, r, t, h, v) == Changes(l, r) /\ Answered(l, t, h) /\ Deleted(l, r, v)

\* the data of a store is in the data record of the index record that is, or will be, its own
Filled(l, r, h, v) ==
  /\ Appends(l) \/ l = "reuse_idx" => dat[h.datoff].val = r.data
  /\ l \in {"idx_unlock", "publish"} => dat[Rec(h.idxoff).datoff].val = r.data
  /\ l = "unlock" /\ v.deleted => StoredUnder(r.key) = r.data

Fitting == \A p \in Procs : CallFits(pc[p], req[p], ret[p], db[p], loc[p])
AllFilled == \A p \in Procs : Filled(pc[p], req[p], db[p], loc[p])
KInv == LInv /\ Fitting /\ (torn \/ AllFilled)

-----------------------------------------------------------------------------
(* A call and its answer.                                                    *)

LEMMA OwnCall ==
  ASSUME IInv, NEW p \in Procs, Turn(p), CallFits(pc[p], req[p], ret[p], db[p], loc[p])
  PROVE  /\ CallFits(pc'[p], req'[p], ret'[p], db'[p], loc'[p])
         /\ \A q \in Procs \ {p} : ret'[q] = ret[q]
<1>1. /\ ProcsTyped /\ db[p] \in Handles /\ loc[p] \in Locals /\ Request(pc[p], req[p])
      /\ Workload \in [Procs -> SUBSET Requests]
  BY AtHome, WorkloadAssumption DEF Fit
<1> USE DEF ProcsTyped, Goto, CallFits, Changes, Answered, Deleted, KeyLabels, StoreLabels,
            DelLabels, FreeLabels, AppendLabels, ScanLabels, Handles, Locals
<1>3. CASE FindLock(p)
  BY <1>1, <1>3 DEF FindLock
<1>4. CASE FindHead(p)
  BY <1>1, <1>4 DEF FindHead, NotFound, Request, Keyed, Stores
<1>5. CASE FindWalk(p)
  BY <1>1, <1>5 DEF FindWalk, NotFound, Found, ReadIdx, Request, Keyed, Stores
<1>6. CASE FetchDat(p)
  BY <1>1, <1>6 DEF FetchDat
<1>7. CASE UnlockChain(p)
  BY <1>1, <1>7 DEF UnlockChain, Return, NewHandle, NoLocals, NoRequest
<1>8. CASE DelLock(p)
  BY <1>1, <1>8 DEF DelLock
<1>9. CASE DelDat(p)
  BY <1>1, <1>9 DEF DelDat
<1>10. CASE DelFree(p)
  BY <1>1, <1>10 DEF DelFree
<1>11. CASE DelIdx(p)
  BY <1>1, <1>11 DEF DelIdx
<1>12. CASE DelHead(p)
  BY <1>1, <1>12 DEF DelHead
<1>13. CASE DelUnlink(p)
  BY <1>1, <1>13 DEF DelUnlink
<1>14. CASE DelUnlock(p)
  BY <1>1, <1>14 DEF DelUnlock
<1>15. CASE ReadChain(p)
  BY <1>1, <1>15 DEF ReadChain
<1>16. CASE FreeLock(p)
  BY <1>1, <1>16 DEF FreeLock
<1>17. CASE FreeHead(p)
  BY <1>1, <1>17 DEF FreeHead
<1>18. CASE FreeWalk(p)
  BY <1>1, <1>18 DEF FreeWalk, ReadIdx
<1>19. CASE FreeTake(p)
  BY <1>1, <1>19 DEF FreeTake
<1>20. CASE FreeUnlock(p)
  BY <1>1, <1>20 DEF FreeUnlock
<1>21. CASE OverwriteDat(p)
  BY <1>1, <1>21 DEF OverwriteDat
<1>22. CASE ReuseIdx(p)
  BY <1>1, <1>22 DEF ReuseIdx
<1>23. CASE AppendLock(p)
  BY <1>1, <1>23 DEF AppendLock
<1>24. CASE AppendSeek(p)
  BY <1>1, <1>24, SMTT(30) DEF AppendSeek
<1>25. CASE AppendWrite(p)
  BY <1>1, <1>25 DEF AppendWrite
<1>26. CASE AppendUnlock(p)
  BY <1>1, <1>26 DEF AppendUnlock
<1>27. CASE Publish(p)
  BY <1>1, <1>27 DEF Publish
<1>28. CASE ScanLock(p)
  BY <1>1, <1>28 DEF ScanLock
<1>29. CASE ScanIdx(p)
  BY <1>1, <1>29 DEF ScanIdx, ReadIdx
<1>30. CASE ScanDat(p)
  BY <1>1, <1>30 DEF ScanDat
<1>31. CASE ScanUnlock(p)
  BY <1>1, <1>31 DEF ScanUnlock, Return, NewHandle, NoLocals, NoRequest
<1>32. CASE Call(p)
  BY <1>1, <1>32 DEF Call, Requests, Keyed, Stores, Cursor
<1>33. CASE Kill(p)
  BY <1>1, <1>33 DEF Kill
<1> QED
  BY <1>3, <1>4, <1>5, <1>6, <1>7, <1>8, <1>9, <1>10, <1>11, <1>12, <1>13, <1>14, <1>15, <1>16, <1>17, <1>18, <1>19, <1>20, <1>21, <1>22, <1>23, <1>24, <1>25, <1>26, <1>27, <1>28, <1>29, <1>30, <1>31, <1>32, <1>33 DEF Turn, Step

LEMMA FittingOK ==
  ASSUME IInv, Fitting, NEW p \in Procs, Turn(p)
  PROVE  Fitting'
<1>1. ASSUME NEW q \in Procs
      PROVE  CallFits(pc'[q], req'[q], ret'[q], db'[q], loc'[q])
  <2>1. CASE q = p
    BY <2>1, OwnCall DEF Fitting
  <2>2. CASE q # p
    <3>1. SameFor(q) /\ ret'[q] = ret[q]
      BY <2>2, StepMoves, OwnCall DEF Fitting
    <3> QED
      BY <3>1 DEF SameFor, Fitting
  <2> QED
    BY <2>1, <2>2
<1> QED
  BY <1>1 DEF Fitting

-----------------------------------------------------------------------------
(* What is stored under a key.                                               *)

RecordAt(k) == RecordFor(Nxt, KeyAt, k)
StoredOK ==
  \A k \in Keys :
    /\ RecordAt(k) = {} => StoredUnder(k) = None
    /\ \A o \in RecordAt(k) : /\ StoredUnder(k) = dat[Rec(o).datoff].val /\ StoredUnder(k) # None
                              /\ IsRec(o) /\ o \in Live(Nxt) /\ Rec(o).datoff \in 1 .. Len(dat)
    /\ StoredUnder(k) \in Data \cup {Blank, None}

LEMMA StoredNow == LInv /\ ~torn => StoredOK
<1> SUFFICES ASSUME LInv, ~torn, NEW k \in Keys
             PROVE  /\ RecordAt(k) = {} => StoredUnder(k) = None
                    /\ \A o \in RecordAt(k) :
                         /\ StoredUnder(k) = dat[Rec(o).datoff].val /\ StoredUnder(k) # None
                         /\ IsRec(o) /\ o \in Live(Nxt) /\ Rec(o).datoff \in 1 .. Len(dat)
                    /\ StoredUnder(k) \in Data \cup {Blank, None}
  BY DEF StoredOK
<1> DEFINE at == {o \in Reach(Hash[k]) : Rec(o).key = k}
<1>1. /\ Hash[k] \in Heads /\ Hash[k] \in 1 .. NHash /\ PointerFn(Nxt) /\ Placed(Nxt, KeyAt) /\ FilesTyped
      /\ \A o : o \in RecordsOf(Nxt) <=> IsRec(o)
  BY NxtOK, Constants DEF LInv, Lists, Heads, IInv, TypeOK
<1>2. at = RecordAt(k)
  BY <1>1, ReachedOn DEF RecordAt, RecordFor
<1>3. \A o \in at : at = {o}
  BY <1>1, <1>2 DEF Placed, RecordAt, RecordFor
<1>4. \A o \in at : IsRec(o) /\ o \in Live(Nxt)
  BY <1>1, <1>2, OnFollows, LinesLive DEF RecordAt, RecordFor
<1>5. \A o \in at : Rec(o).datoff \in 1 .. Len(dat) /\ dat[Rec(o).datoff].val \in Data \cup {Blank}
  <2>1. \A o \in at : o - NHash \in 1 .. Len(rec)
    BY <1>1, <1>4, Domains
  <2>2. \A o \in at : Rec(o).datoff \in 1 .. Len(dat)
    BY <2>1 DEF Rec, LInv, IInv, Paired
  <2>3. \A d \in 1 .. Len(dat) : dat[d] \in DatRecs
    BY <1>1, Domains
  <2> QED
    BY <2>2, <2>3 DEF DatRecs
<1>6. CASE at = {}
  BY <1>2, <1>6 DEF StoredUnder
<1>7. CASE at # {}
  <2>1. PICK o : o = (CHOOSE x \in at : TRUE)
    OBVIOUS
  <2>2. o \in at /\ StoredUnder(k) = dat[Rec(o).datoff].val
    BY <1>7, <2>1 DEF StoredUnder
  <2>3. at = {o} /\ None \notin Data \cup {Blank}
    BY <1>3, <2>2, NoneAssumption
  <2> HIDE DEF at
  <2> QED
    BY <1>2, <1>4, <1>5, <2>2, <2>3
<1> QED
  BY <1>6, <1>7

LEMMA StoredThen == LInv' /\ ~torn' => StoredOK'
<1>1. LInv /\ ~torn => StoredOK
  BY StoredNow
<1> QED
  BY <1>1, PTL

LEMMA SameValue ==
  ASSUME LInv, ~torn, LInv', ~torn', Grows, NEW k \in Keys, RecordAt(k)' = RecordAt(k),
         \A o \in RecordAt(k) : dat'[Rec(o).datoff].val = dat[Rec(o).datoff].val
  PROVE  StoredUnder(k)' = StoredUnder(k)
<1>1. StoredOK /\ StoredOK'
  BY StoredNow, StoredThen
<1>2. CASE RecordAt(k) = {}
  BY <1>1, <1>2 DEF StoredOK
<1>3. ASSUME NEW o \in RecordAt(k) PROVE StoredUnder(k)' = StoredUnder(k)
  <2>1. FilesOK /\ FilesOK'
    BY DEF LInv, IInv, TypeOK, FilesOK
  <2>2. IsRec(o) /\ StoredUnder(k) = dat[Rec(o).datoff].val
    BY <1>1 DEF StoredOK
  <2>3. Rec(o)'.datoff = Rec(o).datoff
    BY <2>1, <2>2, GrowsKeeps
  <2>4. StoredUnder(k)' = dat'[Rec(o)'.datoff].val
    BY <1>1 DEF StoredOK
  <2> QED
    BY <2>2, <2>3, <2>4
<1> QED
  BY <1>2, <1>3

-----------------------------------------------------------------------------
(* What a step does to the lists and to the data file.                       *)

\* steps that write neither chain pointers nor index records
LEMMA RecordsKept ==
  ASSUME LInv, ~torn, NEW p \in Procs, Turn(p), ~torn'
  PROVE  /\ OthersKept(req[p].key)
         /\ pc[p] \notin DelLabels \cup StoreLabels => Nxt' = Nxt /\ KeyAt' = KeyAt
         /\ pc[p] \in {"del_lock", "del_dat", "del_unlink", "del_unlock", "over_dat"} => Nxt' = Nxt /\ KeyAt' = KeyAt
<1>1. ProcsTyped /\ IInv
  BY AtHome DEF LInv
<1> DEFINE Still == ptr' = ptr /\ rec' = rec /\ pc[p] \notin TornLabels /\ pc'[p] \notin TornLabels
<1>3. Still => /\ OthersKept(req[p].key) /\ Nxt' = Nxt /\ KeyAt' = KeyAt
  BY <1>1, QuietNext DEF OthersKept
<1> USE DEF ProcsTyped, Goto, TornLabels, files
<1>4. CASE FindLock(p) \/ FetchDat(p) \/ UnlockChain(p)
  <2>1. Still
    BY <1>1, <1>4 DEF FindLock, FetchDat, UnlockChain, Return
  <2> QED
    BY <1>3, <2>1
<1>5. CASE FindHead(p) \/ FindWalk(p)
  <2>1. Still
    BY <1>1, <1>5 DEF FindHead, FindWalk, NotFound, Found
  <2> QED
    BY <1>3, <2>1
<1>6. CASE DelLock(p) \/ DelDat(p) \/ DelFree(p) \/ DelUnlock(p)
  <2>1. Still
    BY <1>1, <1>6 DEF DelLock, DelDat, DelFree, DelUnlock
  <2> QED
    BY <1>3, <2>1
<1>7. CASE ReadChain(p) \/ FreeLock(p) \/ FreeHead(p) \/ FreeWalk(p) \/ FreeUnlock(p)
  <2>1. Still
    BY <1>1, <1>7 DEF ReadChain, FreeLock, FreeHead, FreeWalk, FreeUnlock
  <2> QED
    BY <1>3, <2>1
<1>8. CASE OverwriteDat(p) \/ AppendLock(p) \/ AppendSeek(p) \/ AppendUnlock(p)
  <2>1. Still
    BY <1>1, <1>8 DEF OverwriteDat, AppendLock, AppendSeek, AppendUnlock
  <2> QED
    BY <1>3, <2>1
<1>9. CASE ScanLock(p) \/ ScanIdx(p) \/ ScanDat(p) \/ ScanUnlock(p)
  <2>1. Still
    BY <1>1, <1>9 DEF ScanLock, ScanIdx, ScanDat, ScanUnlock, Return
  <2> QED
    BY <1>3, <2>1
<1>10. CASE Call(p) \/ Kill(p)
  <2>1. Still
    BY <1>1, <1>10 DEF Call, Kill
  <2> QED
    BY <1>3, <2>1
<1>11. CASE DelIdx(p) \/ DelHead(p) \/ FreeTake(p) \/ ReuseIdx(p)
  <2>1. pc[p] \in {"del_idx", "del_head", "free_take", "reuse_idx"}
    BY <1>11 DEF DelIdx, DelHead, FreeTake, ReuseIdx
  <2>2. pc[p] \in DelLabels \cup StoreLabels
    BY <2>1 DEF DelLabels, StoreLabels, FreeLabels
  <2>3. OthersKept(req[p].key)
    BY <1>11, DelIdxLists, DelHeadLists, FreeTakeLists, ReuseIdxLists
  <2> QED
    BY <2>1, <2>2, <2>3
<1>12. CASE DelUnlink(p)
  <2>1. pc[p] = "del_unlink"
    BY <1>12 DEF DelUnlink
  <2>2. pc[p] \in DelLabels \cup StoreLabels
    BY <2>1 DEF DelLabels
  <2>3. OthersKept(req[p].key) /\ Nxt' = Nxt /\ KeyAt' = KeyAt
    BY <1>12, DelUnlinkLists
  <2> QED
    BY <2>1, <2>2, <2>3
<1>13. CASE AppendWrite(p)
  <2>1. CASE pc[p] = "dat_write"
    <3>1. Still
      BY <1>1, <1>13, <2>1 DEF AppendWrite
    <3> QED
      BY <1>3, <3>1
  <2>2. CASE pc[p] = "idx_write"
    <3>1. pc[p] \in DelLabels \cup StoreLabels
      BY <2>2 DEF StoreLabels, AppendLabels
    <3>2. OthersKept(req[p].key)
      BY <1>13, <2>2, IdxWriteLists
    <3> QED
      BY <2>2, <3>1, <3>2
  <2> QED
    BY <1>13, <2>1, <2>2 DEF AppendWrite
<1>14. CASE Publish(p)
  <2>1. pc[p] = "publish" /\ pc[p] \in DelLabels \cup StoreLabels
    BY <1>14 DEF Publish, StoreLabels
  <2>2. CASE db[p].idxoff <= PtrMax
    <3>1. OthersKept(req[p].key)
      BY <1>14, <2>2, PublishLists
    <3> QED
      BY <2>1, <3>1
  <2>3. CASE ~(db[p].idxoff <= PtrMax)
    <3>1. Still
      BY <1>1, <1>14, <2>1, <2>3 DEF Publish
    <3> QED
      BY <1>3, <3>1
  <2> QED
    BY <2>2, <2>3
<1> QED
  BY <1>4, <1>5, <1>6, <1>7, <1>8, <1>9, <1>10, <1>11, <1>12, <1>13, <1>14 DEF Turn, Step

(* Only these writes change a data record.                                   *)
Overwrites == {"del_dat", "over_dat", "reuse_dat"}
LEMMA DatTouched ==
  ASSUME IInv, NEW p \in Procs, Turn(p)
  PROVE  /\ \A d \in 1 .. Len(dat) : d # db[p].datoff \/ pc[p] \notin Overwrites => dat'[d] = dat[d]
         /\ OverwriteDat(p) \/ (AppendWrite(p) /\ pc[p] = "dat_write") =>
              dat'[db[p].datoff].val = req[p].data
<1>1. ProcsTyped /\ db[p].datoff \in Nat /\ Len(dat) \in Nat /\ Appending(pc[p], db[p]) /\ FilesTyped
  BY AtHome, Domains DEF Handles, Fit
<1>2. ASSUME NEW v, NEW n, NEW o \in Nat \ {0}, WriteDat(o, v, n)
      PROVE  dat'[o].val = v /\ \A d \in 1 .. Len(dat) : d # o => dat'[d] = dat[d]
  <2>1. o \in 1 .. (IF o > Len(dat) THEN o ELSE Len(dat))
        /\ \A d \in 1 .. Len(dat) : d \in 1 .. (IF o > Len(dat) THEN o ELSE Len(dat))
    BY <1>1
  <2> QED
    BY <1>2, <2>1 DEF WriteDat
<1>3. pc[p] \in Overwrites => db[p].datoff \in 1 .. Len(dat)
  <2>1. pc[p] \in Overwrites => Describes(db[p])
    BY AtHome DEF Fit, Handle, Taken, Overwrites
  <2>2. Describes(db[p]) => db[p].datoff \in 1 .. Len(dat)
    BY <1>1, Domains DEF Describes, IInv, Paired, Rec
  <2> QED
    BY <2>1, <2>2
<1>4. CASE DelDat(p)
  <2>1. WriteDat(db[p].datoff, Blank, db[p].datlen) /\ pc[p] = "del_dat"
    BY <1>4 DEF DelDat
  <2>2. db[p].datoff \in Nat \ {0}
    BY <1>1, <1>3, <2>1 DEF Overwrites
  <2> QED
    BY <1>2, <2>1, <2>2 DEF OverwriteDat, Overwrites
<1>5. CASE OverwriteDat(p)
  <2>1. WriteDat(db[p].datoff, req[p].data, DatLen[req[p].data]) /\ pc[p] \in {"reuse_dat", "over_dat"}
    BY <1>5 DEF OverwriteDat
  <2>2. db[p].datoff \in Nat \ {0}
    BY <1>1, <1>3, <2>1 DEF Overwrites
  <2> QED
    BY <1>2, <1>5, <2>1, <2>2 DEF AppendWrite, Overwrites
<1>6. CASE AppendWrite(p)
  <2>1. CASE pc[p] = "dat_write"
    <3>1. WriteDat(db[p].datoff, req[p].data, db[p].datlen) /\ db[p].datoff = Len(dat) + 1
      BY <1>1, <1>6, <2>1 DEF AppendWrite, Appending
    <3>2. \A d \in 1 .. Len(dat) : d # Len(dat) + 1
      BY <1>1
    <3> QED
      BY <1>1, <1>2, <2>1, <3>1, <3>2 DEF OverwriteDat
  <2>2. CASE pc[p] = "idx_write"
    BY <1>6, <2>2 DEF AppendWrite, OverwriteDat
  <2> QED
    BY <1>6, <2>1, <2>2 DEF AppendWrite
<1>7. CASE ~DelDat(p) /\ ~OverwriteDat(p) /\ ~AppendWrite(p)
  <2>1. dat' = dat
    BY <1>7 DEF files, Turn, Step, Call, Kill, FindLock, FindHead, FindWalk, FetchDat, UnlockChain, Return,
         DelLock, DelFree, DelIdx, DelHead, DelUnlink, DelUnlock, ReadChain, FreeLock,
         FreeHead, FreeWalk, FreeTake, FreeUnlock, ReuseIdx, AppendLock, AppendSeek,
         AppendUnlock, Publish, ScanLock, ScanIdx, ScanDat, ScanUnlock
  <2> QED
    BY <1>7, <2>1
<1> QED
  BY <1>4, <1>5, <1>6, <1>7

\* two index records have two data records
LEMMA OwnData ==
  ASSUME LInv, NEW a, NEW b, IsRec(a), IsRec(b), Rec(a).datoff = Rec(b).datoff
  PROVE  a = b
<1>1. FilesTyped
  BY DEF LInv, IInv, TypeOK
<1>2. a - NHash \in DOMAIN rec /\ b - NHash \in DOMAIN rec
  BY <1>1, Domains
<1>3. a - NHash = b - NHash
  BY <1>2 DEF LInv, DatOnce, Rec
<1>4. NHash \in Nat /\ a \in Nat /\ b \in Nat
  <2>1. a \in Slots /\ b \in Slots
    BY <1>1, Domains
  <2> QED
    BY <1>1, <2>1, Constants, PointersAreNat
<1> QED
  BY <1>3, <1>4

\* the record a process has found or taken
LEMMA OwnRecord ==
  ASSUME LInv, ~torn, NEW p \in Procs
  PROVE  /\ pc[p] \in FoundLabels => db[p].idxoff \in RecordAt(req[p].key) /\ db[p].idxoff \in Live(Nxt)
         /\ pc[p] \in FoundLabels \cup {"reuse_dat", "reuse_idx"} => Describes(db[p])
         /\ pc[p] \in {"idx_unlock", "publish"} => IsRec(db[p].idxoff)
         /\ pc[p] \in {"reuse_dat", "reuse_idx", "idx_unlock", "publish"} =>
              MineOf(p) = {db[p].idxoff} /\ db[p].idxoff \notin Live(Nxt)
<1>1. Handle(pc[p], req[p], db[p], loc[p]) /\ FilesTyped /\ PointerFn(Nxt)
  BY AtHome, NxtOK DEF LInv, Fit
<1>2. /\ pc[p] \in FoundLabels \cup {"reuse_dat", "reuse_idx"} => Describes(db[p])
      /\ pc[p] \in {"idx_unlock", "publish"} => IsRec(db[p].idxoff)
  BY <1>1 DEF Handle, Taken, FoundLabels
<1>3. ASSUME pc[p] \in FoundLabels
      PROVE  db[p].idxoff \in RecordAt(req[p].key) /\ db[p].idxoff \in Live(Nxt)
  <2>1. /\ db[p].ptroff \in Line(Nxt, Hash[req[p].key]) /\ Nxt[db[p].ptroff] = db[p].idxoff
        /\ KeyAt[db[p].idxoff] = req[p].key
    BY <1>3, KnowsAt
  <2>2. Hash[req[p].key] \in Heads
    <3>1. pc[p] \in ChainLabels /\ pc[p] \notin TornLabels
      BY <1>3 DEF FoundLabels, ChainLabels, KeyLabels, StoreLabels, DelLabels, TornLabels
    <3> QED
      BY <3>1, ChainAt
  <2>3. db[p].idxoff # 0
    BY <1>1, <1>2, <1>3, Domains DEF Describes
  <2>4. db[p].idxoff \in On(Nxt, Hash[req[p].key])
    BY <1>1, <2>1, <2>2, <2>3, LinesLive
  <2> QED
    BY <1>1, <2>1, <2>2, <2>4, LinesLive DEF RecordAt, RecordFor
<1>4. pc[p] \in {"reuse_dat", "reuse_idx", "idx_unlock", "publish"} =>
        MineOf(p) = {db[p].idxoff} /\ db[p].idxoff \notin Live(Nxt)
  <2>1. pc[p] \in {"reuse_dat", "reuse_idx", "idx_unlock", "publish"} => MineOf(p) = {db[p].idxoff}
    BY DEF MineOf, Mine
  <2> QED
    BY <2>1, MineApart
<1> QED
  BY <1>2, <1>3, <1>4

(* A step changes what is stored under its own key only.                     *)
LEMMA ValueKept ==
  ASSUME LInv, ~torn, NEW p \in Procs, Turn(p), ~torn', NEW k \in Keys,
         k # req[p].key \/ pc[p] \notin DelLabels \cup StoreLabels
  PROVE  StoredUnder(k)' = StoredUnder(k)
<1>1. LInv' /\ Grows /\ StoredOK /\ IInv
  BY LTurnOK, TurnNext, StoredNow DEF LInv
<1>2. RecordAt(k)' = RecordAt(k)
  BY RecordsKept DEF OthersKept, RecordAt
<1>3. ASSUME NEW o \in RecordAt(k) PROVE dat'[Rec(o).datoff] = dat[Rec(o).datoff]
  <2>1. IsRec(o) /\ o \in Live(Nxt) /\ Rec(o).datoff \in 1 .. Len(dat) /\ KeyAt[o] = k
    BY <1>1 DEF StoredOK, RecordAt, RecordFor
  <2>2. ASSUME pc[p] \in Overwrites PROVE Rec(o).datoff # db[p].datoff
    <3>1. Describes(db[p]) /\ db[p].idxoff # o
      <4>1. CASE pc[p] = "reuse_dat"
        BY <2>1, <4>1, OwnRecord
      <4>2. CASE pc[p] \in {"del_dat", "over_dat"}
        <5>1. pc[p] \in FoundLabels /\ pc[p] \in DelLabels \cup StoreLabels
          BY <4>2 DEF FoundLabels, DelLabels, StoreLabels
        <5>2. Describes(db[p]) /\ KeyAt[db[p].idxoff] = req[p].key
          BY <5>1, OwnRecord DEF RecordAt, RecordFor
        <5> QED
          BY <2>1, <5>1, <5>2
      <4> QED
        BY <2>2, <4>1, <4>2 DEF Overwrites
    <3> QED
      BY <2>1, <3>1, OwnData DEF Describes
  <2> QED
    BY <1>1, <2>1, <2>2, DatTouched
<1> QED
  BY <1>1, <1>2, <1>3, SameValue

-----------------------------------------------------------------------------
(* What is being stored is where it should be.                               *)

\* of two calls that change one key, one has to wait for the other's lock
LEMMA SoleWriter ==
  ASSUME LInv, NEW p \in Procs, NEW q \in Procs, pc[p] \in ChainLabels, pc[q] \in ChainLabels,
         req[p].op # "fetch", req[p].key = req[q].key
  PROVE  p = q
<1>1. HasLocks(p) /\ HasLocks(q) /\ Exclusive /\ IInv
  BY DEF LInv, Guarded
<1>2. Chain(p) = Chain(q) /\ Chain(p) \in Locks
  BY <1>1, ChainOf DEF Chain, ChainLabels
<1> QED
  BY <1>1, <1>2 DEF HasLocks, Exclusive

LEMMA OthersFilled ==
  ASSUME KInv, ~torn, NEW p \in Procs, Turn(p), ~torn', NEW q \in Procs \ {p}
  PROVE  Filled(pc[q], req[q], db[q], loc[q])'
<1>1. LInv /\ IInv /\ Grows /\ IInv' /\ DatOnce /\ SameFor(q) /\ Filled(pc[q], req[q], db[q], loc[q])
  BY TurnNext, StepMoves DEF KInv, LInv, AllFilled
<1>2. PICK d, o, r, v : d = db[q].datoff /\ o = db[q].idxoff /\ r = req[q] /\ v = loc[q]
  OBVIOUS
<1>3. /\ db'[q].datoff = d /\ db'[q].idxoff = o /\ req'[q] = r /\ loc'[q] = v /\ pc'[q] = pc[q]
  BY <1>1, <1>2 DEF SameFor
<1>4. /\ pc[p] \in Overwrites => Describes(db[p]) /\ db[p].idxoff \in Live(Nxt) \cup MineOf(p)
      /\ FilesTyped /\ FilesOK /\ FilesOK'
  <2>1. CASE pc[p] \in {"del_dat", "over_dat"}
    <3>1. pc[p] \in FoundLabels
      BY <2>1 DEF FoundLabels
    <3> QED
      BY <1>1, <3>1, OwnRecord DEF IInv, TypeOK, FilesOK
  <2>2. CASE pc[p] = "reuse_dat"
    BY <1>1, <2>2, OwnRecord DEF IInv, TypeOK, FilesOK
  <2> QED
    BY <1>1, <2>1, <2>2 DEF IInv, TypeOK, FilesOK, Overwrites
<1>5. ASSUME IsRec(o), MineOf(q) = {o} PROVE dat'[Rec(o).datoff] = dat[Rec(o).datoff]
  <2>1. Rec(o).datoff \in 1 .. Len(dat)
    BY <1>1, <1>4, <1>5, Domains DEF IInv, Paired, Rec
  <2>2. pc[p] \in Overwrites => Rec(o).datoff # db[p].datoff
    <3>1. o \notin Live(Nxt) \cup MineOf(p)
      BY <1>1, <1>5, MineApart
    <3> QED
      BY <1>1, <1>4, <1>5, <3>1, OwnData DEF Describes
  <2> QED
    BY <1>1, <2>1, <2>2, DatTouched
<1>6. Appends(pc[q]) => dat'[d] = dat[d]
  <2> SUFFICES ASSUME Appends(pc[q]) PROVE dat'[d] = dat[d]
    OBVIOUS
  <2>1. d \in 1 .. Len(dat)
    BY <1>1, <1>2, AtHome DEF Fit, Appending, Appends
  <2>2. pc[p] \in Overwrites => d # db[p].datoff
    <3>1. \A i \in DOMAIN rec : rec[i].datoff # d
      BY <1>1, <1>2 DEF DatOnce
    <3> QED
      BY <1>4, <3>1, Domains DEF Describes, Rec
  <2> QED
    BY <1>1, <2>1, <2>2, DatTouched
<1>7. pc[q] = "reuse_idx" => dat'[d] = dat[d]
  BY <1>1, <1>2, <1>5, OwnRecord DEF Describes
<1>8. pc[q] \in {"idx_unlock", "publish"} => dat'[Rec(o)'.datoff] = dat[Rec(o).datoff]
  <2> SUFFICES ASSUME pc[q] \in {"idx_unlock", "publish"} PROVE dat'[Rec(o)'.datoff] = dat[Rec(o).datoff]
    OBVIOUS
  <2>1. IsRec(o) /\ MineOf(q) = {o}
    BY <1>1, <1>2, OwnRecord
  <2>2. Rec(o)'.datoff = Rec(o).datoff
    BY <1>1, <1>4, <2>1, GrowsKeeps
  <2> QED
    BY <1>5, <2>1, <2>2
<1>9. pc[q] = "unlock" /\ v.deleted => StoredUnder(r.key)' = StoredUnder(r.key)
  <2> SUFFICES ASSUME pc[q] = "unlock", v.deleted PROVE StoredUnder(r.key)' = StoredUnder(r.key)
    OBVIOUS
  <2>1. pc[q] \in ChainLabels /\ r.op # "fetch" /\ r.key \in Keys
    <3>1. pc[q] \in ChainLabels /\ pc[q] \in KeyLabels
      BY DEF ChainLabels, KeyLabels
    <3>2. r.op # "fetch"
      BY <1>2 DEF KInv, Fitting, CallFits, Deleted
    <3> QED
      BY <1>1, <1>2, <3>1, <3>2, ChainOf
  <2>2. r.key # req[p].key \/ pc[p] \notin DelLabels \cup StoreLabels
    <3>1. pc[p] \in DelLabels \cup StoreLabels => pc[p] \in ChainLabels
      BY DEF ChainLabels, KeyLabels, DelLabels, StoreLabels, FreeLabels, AppendLabels
    <3> QED
      BY <1>1, <1>2, <2>1, <3>1, SoleWriter
  <2> QED
    BY <1>1, <2>1, <2>2, ValueKept
<1>10. Filled(pc[q], r, db[q], v)
  BY <1>1, <1>2
<1>11. PICK l, h : l = pc[q] /\ h = db[q]
  OBVIOUS
<1>12. /\ Appends(l) \/ l = "reuse_idx" => dat'[h.datoff].val = r.data
       /\ l \in {"idx_unlock", "publish"} => dat'[Rec(h.idxoff)'.datoff].val = r.data
       /\ l = "unlock" /\ v.deleted => StoredUnder(r.key)' = r.data
  <2>1. Appends(l) \/ l = "reuse_idx" => dat'[h.datoff].val = r.data
    BY <1>2, <1>6, <1>7, <1>10, <1>11 DEF Filled
  <2>2. l \in {"idx_unlock", "publish"} => dat'[Rec(h.idxoff)'.datoff].val = r.data
    BY <1>2, <1>8, <1>10, <1>11 DEF Filled
  <2>3. l = "unlock" /\ v.deleted => StoredUnder(r.key)' = r.data
    BY <1>9, <1>10, <1>11 DEF Filled
  <2> QED
    BY <2>1, <2>2, <2>3
<1>13. l = pc'[q] /\ r = req'[q] /\ h = db'[q] /\ v = loc'[q]
  BY <1>1, <1>2, <1>11 DEF SameFor
<1>14. Filled(l, r, h, v)'
  BY <1>12 DEF Filled, Appends
<1> QED
  BY <1>13, <1>14

FillLabels == {"dat_unlock", "idx_lock", "idx_seek", "idx_write", "reuse_idx", "idx_unlock", "publish", "unlock"}
Filler(p) ==
  \/ (OverwriteDat(p) /\ pc[p] = "reuse_dat") \/ ReuseIdx(p) \/ AppendLock(p) \/ AppendSeek(p)
  \/ AppendWrite(p) \/ AppendUnlock(p) \/ Publish(p)

\* every other step leads to a label that claims nothing, or answers a call that deleted nothing
LEMMA FillsNothing ==
  ASSUME IInv, Fitting, NEW p \in Procs, Turn(p), ~Filler(p)
  PROVE  pc'[p] \notin FillLabels \/ (pc'[p] = "unlock" /\ ~loc'[p].deleted)
<1>1. ProcsTyped /\ loc[p] \in Locals /\ (loc[p].deleted => pc[p] \in AppendLabels \cup {"publish", "unlock", "dead"})
  BY AtHome DEF Fitting, CallFits, Deleted
<1> USE DEF ProcsTyped, Goto, FillLabels, AppendLabels, Locals, Filler
<1>2. CASE FindLock(p) \/ FetchDat(p)
  BY <1>1, <1>2 DEF FindLock, FetchDat
<1>3. CASE UnlockChain(p) \/ ScanUnlock(p)
  BY <1>1, <1>3 DEF UnlockChain, ScanUnlock, Return
<1>4. CASE FindHead(p)
  BY <1>1, <1>4 DEF FindHead, NotFound
<1>5. CASE FindWalk(p)
  <2>1. loc'[p].deleted = loc[p].deleted /\ pc[p] = "find_walk"
    BY <1>1, <1>5 DEF FindWalk
  <2>2. pc'[p] \in {"find_walk", "sto_ptr", "unlock", "fetch_dat", "del_lock", "over_dat"}
    BY <1>1, <1>5 DEF FindWalk, NotFound, Found
  <2> QED
    BY <1>1, <2>1, <2>2
<1>6. CASE DelLock(p) \/ DelDat(p) \/ DelFree(p)
  BY <1>1, <1>6 DEF DelLock, DelDat, DelFree
<1>7. CASE DelIdx(p) \/ DelHead(p) \/ DelUnlink(p)
  BY <1>1, <1>7 DEF DelIdx, DelHead, DelUnlink
<1>8. CASE DelUnlock(p)
  BY <1>1, <1>8 DEF DelUnlock
<1>9. CASE ReadChain(p) \/ FreeLock(p) \/ FreeHead(p)
  BY <1>1, <1>9 DEF ReadChain, FreeLock, FreeHead
<1>10. CASE FreeWalk(p) \/ FreeTake(p) \/ FreeUnlock(p)
  BY <1>1, <1>10 DEF FreeWalk, FreeTake, FreeUnlock
<1>11. CASE OverwriteDat(p)
  BY <1>1, <1>11 DEF OverwriteDat
<1>12. CASE ScanLock(p) \/ ScanIdx(p) \/ ScanDat(p)
  BY <1>1, <1>12 DEF ScanLock, ScanIdx, ScanDat
<1>13. CASE Call(p) \/ Kill(p)
  BY <1>1, <1>13 DEF Call, Kill
<1> QED
  BY <1>2, <1>3, <1>4, <1>5, <1>6, <1>7, <1>8, <1>9, <1>10, <1>11, <1>12, <1>13 DEF Turn, Step

\* the record put into its chain holds what the store was asked to store
LEMMA Published ==
  ASSUME KInv, ~torn, NEW p \in Procs, Publish(p), db[p].idxoff <= PtrMax, NEW k, k = req[p].key
  PROVE  StoredUnder(k)' = req[p].data
<1>1. /\ LInv /\ IInv /\ LInv' /\ Grows /\ ProcsTyped /\ db[p] \in Handles /\ FilesOK /\ FilesOK'
      /\ Filled(pc[p], req[p], db[p], loc[p]) /\ PtrMax \in Nat
  <2>1. LInv /\ IInv /\ Filled(pc[p], req[p], db[p], loc[p]) /\ Turn(p)
    BY DEF KInv, LInv, AllFilled, Turn, Step
  <2>2. IInv' /\ Grows /\ LInv'
    BY <2>1, TurnNext, LTurnOK
  <2> QED
    BY <2>1, <2>2, AtHome, ConstantsAssumption DEF IInv, TypeOK, FilesOK
<1>2. PICK o : o = db[p].idxoff
  OBVIOUS
<1>3. pc[p] = "publish" /\ dat' = dat /\ torn' = torn
  BY <1>1 DEF Publish
<1>4. RecordAt(k)' = {o} /\ k \in Keys
  <2>1. pc[p] \in KeyLabels
    BY <1>3 DEF KeyLabels, StoreLabels
  <2>2. RecordFor(Nxt', KeyAt', k) = {o} /\ k \in Keys
    BY <1>1, <1>2, <2>1, PublishLists, ChainOf
  <2> QED
    BY <2>2 DEF RecordAt, RecordFor
<1>5. StoredUnder(k)' = dat'[Rec(o)'.datoff].val
  <2>1. StoredOK'
    BY <1>1, <1>3, StoredThen
  <2> QED
    BY <1>4, <2>1 DEF StoredOK
<1>6. Rec(o)'.datoff = Rec(o).datoff
  <2>1. IsRec(o)
    BY <1>1, <1>2, <1>3, OwnRecord
  <2> QED
    BY <1>1, <2>1, GrowsKeeps
<1> QED
  BY <1>1, <1>2, <1>3, <1>5, <1>6 DEF Filled

LEMMA OwnFilled ==
  ASSUME KInv, ~torn, NEW p \in Procs, Turn(p), ~torn'
  PROVE  Filled(pc[p], req[p], db[p], loc[p])'
<1>0. PICK k, o : k = req[p].key /\ o = db[p].idxoff
  OBVIOUS
<1>1. /\ LInv /\ IInv /\ LInv' /\ Grows /\ ProcsTyped /\ db[p] \in Handles /\ loc[p] \in Locals
      /\ Fitting /\ FilesTyped /\ FilesOK /\ FilesOK'
      /\ Filled(pc[p], req[p], db[p], loc[p]) /\ Appending(pc[p], db[p])
  <2>1. LInv /\ IInv /\ Fitting /\ Filled(pc[p], req[p], db[p], loc[p])
    BY DEF KInv, LInv, AllFilled
  <2>2. IInv' /\ Grows /\ LInv'
    BY <2>1, TurnNext, LTurnOK
  <2> QED
    BY <2>1, <2>2, AtHome DEF Fit, IInv, TypeOK, FilesOK
<1>2. pc[p] \in {"reuse_dat", "reuse_idx", "idx_unlock", "publish"} => IsRec(o) /\ Rec(o)'.datoff = Rec(o).datoff
  <2>1. pc[p] \in {"reuse_dat", "reuse_idx", "idx_unlock", "publish"} => IsRec(o)
    BY <1>0, <1>1, OwnRecord DEF Describes
  <2> QED
    BY <1>1, <2>1, GrowsKeeps
<1>3. CASE ~Filler(p)
  BY <1>1, <1>3, FillsNothing DEF Filled, FillLabels, Appends
<1>4. CASE OverwriteDat(p) /\ pc[p] = "reuse_dat"
  <2>1. pc'[p] = "reuse_idx" /\ req'[p] = req[p] /\ db'[p].datoff = db[p].datoff
    BY <1>1, <1>4 DEF OverwriteDat, Goto, ProcsTyped, Handles
  <2>2. dat'[db[p].datoff].val = req[p].data
    BY <1>1, <1>4, DatTouched
  <2> QED
    BY <2>1, <2>2 DEF Filled, Appends
<1>5. CASE ReuseIdx(p)
  <2>1. pc[p] = "reuse_idx" /\ pc'[p] = "publish" /\ req'[p] = req[p] /\ db'[p].idxoff = o /\ dat' = dat
    BY <1>0, <1>1, <1>5 DEF ReuseIdx, Goto, ProcsTyped, Handles
  <2>2. Describes(db[p])
    BY <1>1, <2>1, OwnRecord
  <2>3. dat[db[p].datoff].val = req[p].data /\ Rec(o)'.datoff = db[p].datoff
    BY <1>0, <1>1, <1>2, <2>1, <2>2 DEF Filled, Describes
  <2> QED
    BY <2>1, <2>3 DEF Filled, Appends
<1>6. CASE AppendLock(p) \/ AppendUnlock(p)
  <2>1. /\ req'[p] = req[p] /\ db'[p] = db[p] /\ dat' = dat /\ rec' = rec
        /\ \/ pc[p] = "dat_lock" /\ pc'[p] = "dat_seek"
           \/ pc[p] = "idx_lock" /\ pc'[p] = "idx_seek"
           \/ pc[p] = "dat_unlock" /\ pc'[p] = "idx_lock"
           \/ pc[p] = "idx_unlock" /\ pc'[p] = "publish"
    BY <1>1, <1>6 DEF AppendLock, AppendUnlock, Goto, ProcsTyped, files
  <2> QED
    BY <1>1, <2>1 DEF Filled, Appends, Rec
<1>7. CASE AppendSeek(p)
  <2>1. /\ req'[p] = req[p] /\ dat' = dat
        /\ \/ pc[p] = "dat_seek" /\ pc'[p] = "dat_write"
           \/ pc[p] = "idx_seek" /\ pc'[p] = "idx_write" /\ db'[p].datoff = db[p].datoff
    BY <1>1, <1>7 DEF AppendSeek, Goto, ProcsTyped, files, Handles
  <2> QED
    BY <1>1, <2>1 DEF Filled, Appends
<1>8. CASE AppendWrite(p) /\ pc[p] = "dat_write"
  <2>1. pc'[p] = "dat_unlock" /\ req'[p] = req[p] /\ db'[p] = db[p]
    BY <1>1, <1>8 DEF AppendWrite, Goto, ProcsTyped
  <2>2. dat'[db[p].datoff].val = req[p].data
    BY <1>1, <1>8, DatTouched
  <2> QED
    BY <2>1, <2>2 DEF Filled, Appends
<1>9. CASE AppendWrite(p) /\ pc[p] = "idx_write"
  <2>1. /\ pc'[p] = "idx_unlock" /\ req'[p] = req[p] /\ db'[p].idxoff = o /\ dat' = dat
        /\ WriteIdx(o, loc[p].cptr, IdxOf(p, req[p].key)) /\ o = IdxEnd + 1
    BY <1>0, <1>1, <1>9 DEF AppendWrite, Goto, ProcsTyped, Handles, Appending
  <2>2. Rec(o)' = IdxOf(p, req[p].key)
    BY <1>1, <2>1, WriteBeyond
  <2>3. Rec(o)'.datoff = db[p].datoff /\ dat[db[p].datoff].val = req[p].data
    BY <1>1, <1>9, <2>2 DEF IdxOf, Filled, Appends
  <2> QED
    BY <2>1, <2>3 DEF Filled, Appends
<1>10. CASE Publish(p) /\ db[p].idxoff <= PtrMax
  <2>1. pc[p] = "publish" /\ pc'[p] = "unlock" /\ req'[p] = req[p] /\ dat' = dat
    BY <1>1, <1>10, ConstantsAssumption DEF Publish, Goto, ProcsTyped, Handles
  <2>2. StoredUnder(k)' = req[p].data
    BY <1>0, <1>10, Published
  <2> QED
    BY <1>0, <2>1, <2>2 DEF Filled, Appends
<1>11. CASE Publish(p) /\ ~(db[p].idxoff <= PtrMax)
  <2>1. pc'[p] = "dead"
    BY <1>1, <1>11, ConstantsAssumption DEF Publish, Goto, ProcsTyped, Handles
  <2> QED
    BY <2>1 DEF Filled, Appends
<1> QED
  BY <1>3, <1>4, <1>5, <1>6, <1>7, <1>8, <1>9, <1>10, <1>11 DEF Filler, AppendWrite

LEMMA TornStays ==
  ASSUME IInv, NEW p \in Procs, Turn(p)
  PROVE  torn \in BOOLEAN /\ (torn' = torn \/ (Kill(p) /\ torn' = (torn \/ pc[p] \in TornLabels)))
  BY AtHome DEF Turn, Step, Call, Kill, FindLock, FindHead, FindWalk, FetchDat, UnlockChain, Return,
     DelLock, DelDat, DelFree, DelIdx, DelHead, DelUnlink, DelUnlock, ReadChain, FreeLock, FreeHead,
     FreeWalk, FreeTake, FreeUnlock, OverwriteDat, ReuseIdx, AppendLock, AppendSeek, AppendWrite,
     AppendUnlock, Publish, ScanLock, ScanIdx, ScanDat, ScanUnlock

LEMMA KTurnOK ==
  ASSUME KInv, NEW p \in Procs, Turn(p)
  PROVE  KInv'
<1>1. LInv' /\ Fitting' /\ IInv
  BY LTurnOK, FittingOK DEF KInv, LInv
<1>2. CASE torn'
  BY <1>1, <1>2 DEF KInv
<1>3. CASE ~torn'
  <2>1. ~torn
    BY <1>1, <1>3, TornStays
  <2>2. \A q \in Procs : Filled(pc[q], req[q], db[q], loc[q])'
    BY <1>3, <2>1, OwnFilled, OthersFilled
  <2> QED
    BY <1>1, <2>2 DEF KInv, AllFilled
<1> QED
  BY <1>2, <1>3

LEMMA StoredStays ==
  ASSUME UNCHANGED vars
  PROVE  \A k : StoredUnder(k)' = StoredUnder(k)
<1>1. ptr' = ptr /\ rec' = rec /\ dat' = dat /\ pc' = pc /\ db' = db /\ loc' = loc
  BY DEF vars
<1> QED
  BY <1>1 DEF StoredUnder, Reach, NextOf, Unlinking, Rec, Slots, IdxEnd

LEMMA KNextOK == KInv /\ [Next]_vars => KInv'
<1> SUFFICES ASSUME KInv, [Next]_vars PROVE KInv'
  OBVIOUS
<1>1. ASSUME NEW p \in Procs, Call(p) \/ Step(p) \/ Kill(p) PROVE KInv'
  BY <1>1, KTurnOK DEF Turn
<1>2. CASE UNCHANGED vars
  <2>1. /\ ptr' = ptr /\ rec' = rec /\ dat' = dat /\ pc' = pc
        /\ req' = req /\ ret' = ret /\ db' = db /\ loc' = loc /\ torn' = torn
    BY <1>2 DEF vars
  <2>2. LInv'
    BY <1>2, LNextOK DEF KInv
  <2>3. Fitting'
    BY <2>1 DEF KInv, Fitting
  <2>4. torn \/ AllFilled => torn' \/ AllFilled'
    BY <1>2, <2>1, StoredStays DEF AllFilled, Filled, Rec, Appends
  <2> QED
    BY <2>2, <2>3, <2>4 DEF KInv
<1> QED
  BY <1>1, <1>2 DEF Next, Finished

LEMMA KInitOK == Init => KInv
<1> SUFFICES ASSUME Init PROVE KInv
  OBVIOUS
<1>1. LInv
  BY LInitOK
<1>2. ASSUME NEW p \in Procs
      PROVE  pc[p] = "idle" /\ ret[p] = "none" /\ db[p].buf = Blank /\ ~loc[p].deleted
  BY DEF Init, NewHandle, NoLocals
<1>3. Fitting
  BY <1>2 DEF Fitting, CallFits, Changes, Answered, Deleted, StoreLabels, DelLabels, ScanLabels, FreeLabels,
     AppendLabels
<1>4. AllFilled
  BY <1>2 DEF AllFilled, Filled, Appends
<1> QED
  BY <1>1, <1>3, <1>4 DEF KInv

-----------------------------------------------------------------------------
(* The map.                                                                  *)

Value(r) == IF r.op = "delete" THEN None ELSE r.data
KvOK ==
  /\ DOMAIN Kv = Keys /\ Kv \in [Keys -> Data \cup {Blank, None}]
  /\ \A q \in Procs : Committed(q) =>
       /\ pc[q] \in ChainLabels /\ req[q].key \in Keys /\ req[q].op \in {"delete", "replace", "store"}
       /\ Kv[req[q].key] = Value(req[q]) /\ Value(req[q]) \in Data \cup {None}
  /\ \A k \in Keys :
       (\A q \in Procs : Committed(q) => req[q].key # k) => Kv[k] = StoredUnder(k)

LEMMA CommittedCall ==
  ASSUME KInv, NEW q \in Procs, Committed(q)
  PROVE  /\ pc[q] \in ChainLabels /\ req[q].key \in Keys /\ req[q].op \in {"delete", "replace", "store"}
         /\ Value(req[q]) \in Data \cup {None}
         /\ req[q].op = "delete" <=> req[q] \in Keyed
<1>1. IInv /\ CallFits(pc[q], req[q], ret[q], db[q], loc[q])
  BY DEF KInv, LInv, Fitting
<1>2. pc[q] \in ChainLabels /\ pc[q] \in KeyLabels /\ req[q].op \in {"delete", "replace", "store"}
  BY <1>1 DEF Committed, CallFits, Changes, Deleted, ChainLabels, KeyLabels, DelLabels, StoreLabels, AppendLabels
<1>3. req[q] \in Keyed \cup Stores /\ req[q].key \in Keys
  BY <1>1, <1>2, ChainOf
<1> QED
  BY <1>2, <1>3 DEF Keyed, Stores, Value

LEMMA KvNow == KInv /\ ~torn => KvOK
<1> SUFFICES ASSUME KInv, ~torn PROVE KvOK
  OBVIOUS
<1>1. LInv /\ StoredOK
  BY StoredNow DEF KInv
<1> DEFINE Who(k) == {q \in Procs : Committed(q) /\ req[q].key = k}
<1>2. \A k \in Keys : Kv[k] = IF \E q \in Procs : Committed(q) /\ req[q].key = k
                              THEN Value(req[CHOOSE q \in Procs : Committed(q) /\ req[q].key = k])
                              ELSE StoredUnder(k)
  BY DEF Kv, Value
<1>3. ASSUME NEW q \in Procs, Committed(q), NEW x \in Procs, Committed(x), req[x].key = req[q].key
      PROVE  x = q
  <2>1. pc[q] \in ChainLabels /\ pc[x] \in ChainLabels /\ req[q].op # "fetch"
    BY <1>3, CommittedCall
  <2> QED
    BY <1>1, <1>3, <2>1, SoleWriter
<1>4. ASSUME NEW q \in Procs, Committed(q)
      PROVE  Kv[req[q].key] = Value(req[q])
  <2>1. PICK x \in Procs : /\ x = (CHOOSE y \in Procs : Committed(y) /\ req[y].key = req[q].key)
                           /\ Committed(x) /\ req[x].key = req[q].key
    BY <1>4
  <2>2. x = q /\ req[q].key \in Keys
    BY <1>3, <1>4, <2>1, CommittedCall
  <2> QED
    BY <1>2, <1>4, <2>1, <2>2
<1>5. \A k \in Keys : (\A q \in Procs : Committed(q) => req[q].key # k) => Kv[k] = StoredUnder(k)
  BY <1>2
<1>6. ASSUME NEW k \in Keys PROVE Kv[k] \in Data \cup {Blank, None}
  <2>1. CASE \E q \in Procs : Committed(q) /\ req[q].key = k
    BY <2>1, <1>4, CommittedCall
  <2>2. CASE ~\E q \in Procs : Committed(q) /\ req[q].key = k
    BY <2>2, <1>1, <1>5 DEF StoredOK
  <2> QED
    BY <2>1, <2>2
<1>7. DOMAIN Kv = Keys /\ Kv \in [Keys -> Data \cup {Blank, None}]
  <2>1. Kv = [k \in Keys |-> Kv[k]]
    BY DEF Kv
  <2> QED
    BY <1>6, <2>1
<1> QED
  BY <1>4, <1>5, <1>7, CommittedCall DEF KvOK

LEMMA KvThen == KInv' /\ ~torn' => KvOK'
<1>1. KInv /\ ~torn => KvOK
  BY KvNow
<1> QED
  BY <1>1, PTL

\* what the labels say of the value under the key of the call
ValuesFit ==
  \A p \in Procs :
    /\ pc[p] \in FoundLabels => /\ StoredUnder(req[p].key) = dat[db[p].datoff].val
                                /\ StoredUnder(req[p].key) # None
    /\ pc[p] \in AbsentLabels => StoredUnder(req[p].key) = None

LEMMA ValuesNow == LInv /\ ~torn => ValuesFit
<1> SUFFICES ASSUME LInv, ~torn, NEW p \in Procs
             PROVE  /\ pc[p] \in FoundLabels => /\ StoredUnder(req[p].key) = dat[db[p].datoff].val
                                                /\ StoredUnder(req[p].key) # None
                    /\ pc[p] \in AbsentLabels => StoredUnder(req[p].key) = None
  BY DEF ValuesFit
<1>1. StoredOK /\ IInv
  BY StoredNow DEF LInv
<1>2. pc[p] \in FoundLabels \cup AbsentLabels => req[p].key \in Keys
  <2>1. pc[p] \in FoundLabels \cup AbsentLabels => pc[p] \in KeyLabels
    BY DEF FoundLabels, AbsentLabels, KeyLabels, StoreLabels, DelLabels
  <2> QED
    BY <1>1, <2>1, ChainOf
<1>3. ASSUME pc[p] \in FoundLabels
      PROVE  StoredUnder(req[p].key) = dat[db[p].datoff].val /\ StoredUnder(req[p].key) # None
  <2>1. db[p].idxoff \in RecordAt(req[p].key) /\ Describes(db[p])
    BY <1>3, OwnRecord
  <2> QED
    BY <1>1, <1>2, <1>3, <2>1 DEF StoredOK, Describes
<1>4. ASSUME pc[p] \in AbsentLabels PROVE StoredUnder(req[p].key) = None
  <2>1. \A o \in On(Nxt, Hash[req[p].key]) : KeyAt[o] # req[p].key
    BY <1>4, KnowsAt DEF Knows, Inserting
  <2>2. RecordAt(req[p].key) = {}
    BY <2>1 DEF RecordAt, RecordFor
  <2> QED
    BY <1>1, <1>2, <1>4, <2>2 DEF StoredOK
<1> QED
  BY <1>3, <1>4

LEMMA ValuesThen == LInv' /\ ~torn' => ValuesFit'
<1>1. LInv /\ ~torn => ValuesFit
  BY ValuesNow
<1> QED
  BY <1>1, PTL

\* the value of the key of a call that has locked its chain
LEMMA OwnValue ==
  ASSUME KInv, ~torn, NEW p \in Procs, pc[p] \in ChainLabels
  PROVE  /\ req[p].key \in Keys
         /\ Kv[req[p].key] = IF Committed(p) THEN Value(req[p]) ELSE StoredUnder(req[p].key)
<1>1. LInv /\ IInv /\ KvOK
  BY KvNow DEF KInv, LInv
<1>2. req[p].key \in Keys
  BY <1>1, ChainOf DEF ChainLabels
<1>3. ASSUME NEW q \in Procs \ {p}, Committed(q) PROVE req[q].key # req[p].key
  <2>1. pc[q] \in ChainLabels /\ req[q].op # "fetch"
    BY <1>3, CommittedCall
  <2> QED
    BY <1>1, <2>1, SoleWriter
<1> QED
  BY <1>1, <1>2, <1>3 DEF KvOK

-----------------------------------------------------------------------------
(* What a step does to the map and to the calls.                             *)

LEMMA OtherKeys ==
  ASSUME KInv, ~torn, NEW p \in Procs, Turn(p), ~torn', Committed(p)' => req'[p].key = req[p].key,
         NEW k \in Keys, k # req[p].key \/ (~Committed(p) /\ ~Committed(p)' /\ StoredUnder(k)' = StoredUnder(k))
  PROVE  Kv'[k] = Kv[k]
<1>1. KvOK /\ KvOK' /\ LInv /\ IInv
  BY KvNow, KvThen, KTurnOK DEF KInv, LInv
<1>2. \A q \in Procs \ {p} : (Committed(q)' <=> Committed(q)) /\ req'[q] = req[q]
  BY <1>1, StepMoves DEF SameFor, Committed
<1>3. CASE \E q \in Procs : Committed(q) /\ req[q].key = k
  <2>1. PICK q \in Procs : Committed(q) /\ req[q].key = k
    BY <1>3
  <2>2. q # p
    BY <2>1
  <2>3. Committed(q)' /\ req'[q] = req[q]
    BY <1>2, <2>1, <2>2
  <2>4. Kv'[req'[q].key] = Value(req'[q])
    BY <1>1, <2>3 DEF KvOK, Value
  <2> QED
    BY <1>1, <2>1, <2>3, <2>4 DEF KvOK
<1>4. CASE ~\E q \in Procs : Committed(q) /\ req[q].key = k
  <2>1. \A q \in Procs : Committed(q)' => req'[q].key # k
    BY <1>2, <1>4
  <2>2. StoredUnder(k)' = StoredUnder(k)
    BY <1>1, ValueKept
  <2> QED
    BY <1>1, <1>4, <2>1, <2>2 DEF KvOK
<1> QED
  BY <1>3, <1>4

LEMMA OwnKey ==
  ASSUME KInv, ~torn, NEW p \in Procs, Turn(p), ~torn', pc[p] \in ChainLabels, NEW k, k = req[p].key
  PROVE  /\ Committed(p)' /\ req'[p] = req[p] => Kv'[k] = Value(req[p])
         /\ ~(Committed(p)' /\ req'[p].key = k) => Kv'[k] = StoredUnder(k)'
<1>1. KvOK /\ KvOK' /\ LInv /\ IInv
  BY KvNow, KvThen, KTurnOK DEF KInv, LInv
<1>2. k \in Keys
  BY OwnValue
<1>3. ASSUME NEW q \in Procs \ {p}, Committed(q)' PROVE req'[q].key # k
  <2>1. Committed(q) /\ req'[q] = req[q]
    BY <1>1, <1>3, StepMoves DEF SameFor, Committed
  <2>2. pc[q] \in ChainLabels /\ req[q].op # "fetch"
    BY <2>1, CommittedCall
  <2> QED
    BY <1>1, <2>1, <2>2, SoleWriter
<1>4. Committed(p)' /\ req'[p] = req[p] => Kv'[k] = Value(req[p])
  <2> SUFFICES ASSUME Committed(p)', req'[p] = req[p] PROVE Kv'[k] = Value(req[p])
    OBVIOUS
  <2>1. Kv'[req'[p].key] = Value(req'[p])
    BY <1>1 DEF KvOK, Value
  <2> QED
    BY <2>1
<1>5. ~(Committed(p)' /\ req'[p].key = k) => Kv'[k] = StoredUnder(k)'
  BY <1>1, <1>2, <1>3 DEF KvOK
<1> QED
  BY <1>4, <1>5

Calls == [q \in Procs |-> CallOf(q)]
IdleCall == [req |-> NoRequest, res |-> "idle", val |-> Blank]
DeadCall == [req |-> NoRequest, res |-> "dead", val |-> Blank]
CallsFit ==
  \A p \in Procs :
    /\ pc[p] \in KeyLabels =>
         CallOf(p) = [req |-> req[p], res |-> IF Committed(p) THEN "ok" ELSE ret[p], val |-> db[p].buf]
    /\ pc[p] \in ScanLabels \cup {"idle"} => CallOf(p) = IdleCall
    /\ pc[p] = "dead" => CallOf(p) = DeadCall

LEMMA CallsNow == KInv => CallsFit
<1> SUFFICES ASSUME KInv, NEW p \in Procs
             PROVE  /\ pc[p] \in KeyLabels =>
                         CallOf(p) = [req |-> req[p], res |-> IF Committed(p) THEN "ok" ELSE ret[p],
                                      val |-> db[p].buf]
                    /\ pc[p] \in ScanLabels \cup {"idle"} => CallOf(p) = IdleCall
                    /\ pc[p] = "dead" => CallOf(p) = DeadCall
  BY DEF CallsFit
<1>1. CallFits(pc[p], req[p], ret[p], db[p], loc[p]) /\ IInv
  BY DEF KInv, LInv, Fitting
<1>2. pc[p] \in KeyLabels => pc[p] \notin {"dead", "idle"} /\ req[p].op # "nextrec"
  <2>1. pc[p] \in KeyLabels => req[p] \in Keyed \cup Stores
    BY <1>1, ChainOf
  <2> QED
    BY <2>1 DEF KeyLabels, DelLabels, StoreLabels, FreeLabels, AppendLabels, Keyed, Stores
<1>3. pc[p] \in ScanLabels => req[p].op = "nextrec" /\ pc[p] # "dead"
  BY <1>1 DEF CallFits, Changes, ScanLabels
<1> QED
  BY <1>2, <1>3 DEF CallOf, IdleCall, DeadCall

LEMMA CallsThen == KInv' => CallsFit'
<1>1. KInv => CallsFit
  BY CallsNow
<1> QED
  BY <1>1, PTL

LEMMA CallsStep ==
  ASSUME KInv, NEW p \in Procs, Turn(p)
  PROVE  /\ Calls' = [Calls EXCEPT ![p] = CallOf(p)'] /\ Calls[p] = CallOf(p)
         /\ CallOf(p)' = CallOf(p) => Calls' = Calls
<1>1. \A q \in Procs \ {p} : CallOf(q)' = CallOf(q)
  <2>1. IInv /\ CallFits(pc[p], req[p], ret[p], db[p], loc[p])
    BY DEF KInv, LInv, Fitting
  <2>2. \A q \in Procs \ {p} : SameFor(q) /\ ret'[q] = ret[q]
    BY <2>1, StepMoves, OwnCall
  <2> QED
    BY <2>2 DEF SameFor, CallOf, Committed
<1> QED
  BY <1>1 DEF Calls

LEMMA KvMoves ==
  ASSUME KInv, ~torn, NEW p \in Procs, Turn(p), ~torn', Committed(p)' => req'[p].key = req[p].key,
         NEW k, k = req[p].key
  PROVE  /\ Kv' = [Kv EXCEPT ![k] = Kv'[k]] /\ (Kv'[k] = Kv[k] => Kv' = Kv)
         /\ Kv \in [Keys -> Data \cup {Blank, None}] /\ Kv' \in [Keys -> Data \cup {Blank, None}]
<1>1. KvOK /\ KvOK'
  BY KvNow, KvThen, KTurnOK
<1>2. Kv \in [Keys -> Data \cup {Blank, None}] /\ Kv' \in [Keys -> Data \cup {Blank, None}]
  BY <1>1 DEF KvOK
<1>3. \A x \in Keys : x # k => Kv'[x] = Kv[x]
  BY OtherKeys
<1>4. PICK f, g : f = Kv /\ g = Kv'
  OBVIOUS
<1>5. g = [f EXCEPT ![k] = g[k]] /\ (g[k] = f[k] => g = f)
  BY <1>2, <1>3, <1>4
<1> QED
  BY <1>2, <1>4, <1>5

\* three reasons for the map to stay as it is
LEMMA NothingWritten ==
  ASSUME KInv, ~torn, NEW p \in Procs, Turn(p), ~torn', ~Committed(p), ~Committed(p)',
         pc[p] \notin (DelLabels \cup StoreLabels) \ {"del_lock"}
  PROVE  Kv' = Kv
<1>1. LInv /\ LInv' /\ Grows /\ IInv
  BY KTurnOK, TurnNext DEF KInv, LInv
<1>2. ASSUME NEW k \in Keys PROVE StoredUnder(k)' = StoredUnder(k)
  <2>1. CASE pc[p] = "del_lock"
    <3>1. StoredOK /\ Nxt' = Nxt /\ KeyAt' = KeyAt
      BY <1>1, <2>1, StoredNow, RecordsKept
    <3>2. RecordAt(k)' = RecordAt(k)
      BY <3>1 DEF RecordAt, RecordFor
    <3>3. \A d \in 1 .. Len(dat) : dat'[d] = dat[d]
      BY <1>1, <2>1, DatTouched DEF Overwrites
    <3>4. \A o \in RecordAt(k) : dat'[Rec(o).datoff].val = dat[Rec(o).datoff].val
      BY <3>1, <3>3 DEF StoredOK
    <3> QED
      BY <1>1, <3>2, <3>4, SameValue
  <2>2. CASE pc[p] # "del_lock"
    BY <1>1, <2>2, ValueKept
  <2> QED
    BY <2>1, <2>2
<1>3. \A k \in Keys : Kv'[k] = Kv[k]
  BY <1>2, OtherKeys
<1>4. Kv \in [Keys -> Data \cup {Blank, None}] /\ Kv' \in [Keys -> Data \cup {Blank, None}]
  BY KvMoves
<1> QED
  BY <1>3, <1>4

LEMMA NotYetThere ==
  ASSUME KInv, ~torn, NEW p \in Procs, Turn(p), ~torn', ~Committed(p), ~Committed(p)',
         req'[p] = req[p], pc[p] \in AbsentLabels, pc'[p] \in AbsentLabels
  PROVE  Kv' = Kv
<1>1. ValuesFit /\ ValuesFit'
  BY ValuesNow, ValuesThen, KTurnOK DEF KInv
<1>2. PICK k : k = req[p].key
  OBVIOUS
<1>3. StoredUnder(k) = None /\ StoredUnder(k)' = None
  BY <1>1, <1>2 DEF ValuesFit
<1>4. pc[p] \in ChainLabels
  BY DEF AbsentLabels, ChainLabels, KeyLabels, StoreLabels, DelLabels, FreeLabels, AppendLabels
<1> QED
  BY <1>2, <1>3, <1>4, OwnValue, OwnKey, KvMoves

LEMMA Decided ==
  ASSUME KInv, ~torn, NEW p \in Procs, Turn(p), ~torn', Committed(p), Committed(p)', req'[p] = req[p]
  PROVE  Kv' = Kv
<1>1. pc[p] \in ChainLabels
  BY CommittedCall
<1> QED
  BY <1>1, OwnValue, OwnKey, KvMoves

-----------------------------------------------------------------------------
(* The steps of KvStore.                                                     *)

LEMMA Stutter ==
  ASSUME Kv' = Kv, Calls' = Calls, torn' = torn
  PROVE  UNCHANGED Abstract!vars
  BY DEF Abstract!vars, Calls

LEMMA Invokes ==
  ASSUME NEW p \in Procs, Kv' = Kv, torn' = torn, Calls[p] = IdleCall, NEW r \in Keyed \cup Stores,
         Calls' = [Calls EXCEPT ![p] = [req |-> r, res |-> "none", val |-> Blank]]
  PROVE  Abstract!Invoke(p)
  BY DEF Abstract!Invoke, Abstract!Idle, Abstract!NoReq, Abstract!Keyed, Abstract!Stores, Keyed, Stores,
         Calls, IdleCall, NoRequest

LEMMA Responds ==
  ASSUME NEW p \in Procs, Kv' = Kv, torn' = torn, Calls[p].res \in {"ok", "absent", "exists"},
         Calls' = [Calls EXCEPT ![p] = IdleCall]
  PROVE  Abstract!Respond(p)
  BY DEF Abstract!Respond, Abstract!Idle, Abstract!NoReq, Calls, IdleCall, NoRequest

LEMMA Dies ==
  ASSUME NEW p \in Procs, Calls[p] # DeadCall, Calls' = [Calls EXCEPT ![p] = DeadCall],
         \/ Kv' = Kv /\ torn' = torn
         \/ /\ Calls[p].req.op \in {"delete", "insert", "replace", "store"} /\ torn' = torn
            /\ Kv' \in {[Kv EXCEPT ![Calls[p].req.key] = v] : v \in Data \cup {Blank, None}}
         \/ Calls[p].req.op \in {"delete", "replace", "store"} /\ torn'
  PROVE  Abstract!Die(p)
  BY DEF Abstract!Die, Abstract!Dead, Abstract!NoReq, Abstract!Deletes, Calls, DeadCall, NoRequest

Answers(r, old, t, v, new) ==
  \/ r.op = "fetch" /\ old # None /\ t = "ok" /\ v = old /\ new = old
  \/ r.op = "delete" /\ old # None /\ t = "ok" /\ v = Blank /\ new = None
  \/ r.op = "insert" /\ old = None /\ t = "ok" /\ v = Blank /\ new = r.data
  \/ r.op = "insert" /\ old # None /\ t = "exists" /\ v = Blank /\ new = old
  \/ r.op = "replace" /\ old # None /\ t = "ok" /\ v = Blank /\ new = r.data
  \/ r.op = "store" /\ t = "ok" /\ v = Blank /\ new = r.data
  \/ /\ r.op \in {"fetch", "delete", "replace"} /\ old = None
     /\ t = "absent" /\ v = Blank /\ new = None
LEMMA Applies ==
  ASSUME NEW p \in Procs, NEW r, NEW w, NEW t, NEW v, NEW new, torn' = torn,
         Calls[p] = [req |-> r, res |-> "none", val |-> w],
         Calls' = [Calls EXCEPT ![p] = [req |-> r, res |-> t, val |-> v]],
         Kv' = [Kv EXCEPT ![r.key] = new], Answers(r, Kv[r.key], t, v, new)
  PROVE  Abstract!Apply(p)
<1>1. Calls' = [Calls EXCEPT ![p].res = t, ![p].val = v] /\ Calls[p].req = r /\ Calls[p].res = "none"
  <2> DEFINE before == [req |-> r, res |-> "none", val |-> w]  after == [req |-> r, res |-> t, val |-> v]
  <2>1. [[before EXCEPT !.res = t] EXCEPT !.val = v] = after
    <3>1. [before EXCEPT !.res = t] = [req |-> r, res |-> t, val |-> w]
      OBVIOUS
    <3>2. [[req |-> r, res |-> t, val |-> w] EXCEPT !.val = v] = after
      OBVIOUS
    <3> QED
      BY ONLY <3>1, <3>2
  <2>2. before.req = r /\ before.res = "none"
    OBVIOUS
  <2>3. p \in DOMAIN Calls /\ Calls[p] = before /\ Calls' = [Calls EXCEPT ![p] = after]
    BY DEF Calls
  <2> HIDE DEF before, after
  <2>4. [Calls EXCEPT ![p].res = t, ![p].val = v]
        = [Calls EXCEPT ![p] = [[Calls[p] EXCEPT !.res = t] EXCEPT !.val = v]]
    BY <2>3
  <2> QED
    BY <2>1, <2>2, <2>3, <2>4
<1>2. Abstract!Answer(p, t, v, new)
  BY <1>1 DEF Abstract!Answer, Calls
<1> QED
  BY <1>1, <1>2 DEF Abstract!Apply, Answers, Calls

-----------------------------------------------------------------------------
(* Steps that KvStore does not see.                                          *)

CutLabels == {"del_free", "del_idx", "del_head", "del_unlink", "del_unlock"}

LEMMA Unseen ==
  ASSUME KInv, NEW p \in Procs, Turn(p), torn' = torn, Kv' = Kv, CallOf(p)' = CallOf(p)
  PROVE  UNCHANGED Abstract!vars
  BY CallsStep, Stutter

LEMMA SameAnswer ==
  ASSUME KInv, NEW p \in Procs, Turn(p), pc[p] \in KeyLabels, pc'[p] \in KeyLabels,
         req'[p] = req[p], db'[p].buf = db[p].buf, Committed(p)' <=> Committed(p),
         Committed(p) \/ ret'[p] = ret[p]
  PROVE  CallOf(p)' = CallOf(p)
<1>1. CallsFit /\ CallsFit'
  BY CallsNow, CallsThen, KTurnOK
<1>2. CallOf(p) = [req |-> req[p], res |-> IF Committed(p) THEN "ok" ELSE ret[p], val |-> db[p].buf]
  BY <1>1 DEF CallsFit
<1>3. CallOf(p)' = [req |-> req'[p], res |-> IF Committed(p)' THEN "ok" ELSE ret'[p], val |-> db'[p].buf]
  BY <1>1 DEF CallsFit
<1> QED
  BY <1>2, <1>3

\* looking for the record, and locking the free list to delete it
LEMMA LookingSilent ==
  ASSUME KInv, ~torn, NEW p \in Procs,
         FindLock(p) \/ DelLock(p) \/ ((FindHead(p) \/ FindWalk(p)) /\ pc'[p] # "unlock")
  PROVE  UNCHANGED Abstract!vars
<1>1. /\ Turn(p) /\ ProcsTyped /\ db[p] \in Handles /\ loc[p] \in Locals
      /\ CallFits(pc[p], req[p], ret[p], db[p], loc[p])
  BY AtHome DEF KInv, LInv, Fitting, Turn, Step
<1>2. /\ pc[p] \in {"find_lock", "find_head", "find_walk", "del_lock"}
      /\ pc'[p] \in {"find_head", "find_walk", "fetch_dat", "del_lock", "del_dat", "over_dat", "sto_ptr"}
      /\ req'[p] = req[p] /\ torn' = torn /\ ret'[p] = ret[p]
      /\ db'[p].buf = db[p].buf /\ loc'[p].deleted = loc[p].deleted
  <2> USE <1>1 DEF Goto, ProcsTyped, Handles, Locals
  <2>1. CASE FindLock(p) \/ DelLock(p)
    BY <2>1 DEF FindLock, DelLock
  <2>2. CASE FindHead(p) /\ pc'[p] # "unlock"
    BY <2>2 DEF FindHead, NotFound
  <2>3. CASE FindWalk(p) /\ pc'[p] # "unlock"
    <3>1. pc[p] = "find_walk" /\ req' = req /\ torn' = torn /\ ret'[p] = ret[p]
          /\ pc'[p] \in {"find_walk", "fetch_dat", "del_lock", "over_dat", "sto_ptr"}
      BY <2>3 DEF FindWalk, NotFound, Found
    <3>2. db'[p].buf = db[p].buf /\ loc'[p].deleted = loc[p].deleted
      BY <2>3 DEF FindWalk, ReadIdx
    <3> QED
      BY <3>1, <3>2
  <2> QED
    BY <2>1, <2>2, <2>3
<1>3. ~Committed(p) /\ ~Committed(p)'
  BY <1>1, <1>2 DEF Committed, CallFits, Deleted, AppendLabels
<1>4. pc[p] \in KeyLabels /\ pc'[p] \in KeyLabels
  BY <1>2 DEF KeyLabels, DelLabels, StoreLabels, FreeLabels
<1>5. Kv' = Kv
  <2>1. pc[p] \notin (DelLabels \cup StoreLabels) \ {"del_lock"}
    BY <1>2 DEF DelLabels, StoreLabels, FreeLabels, AppendLabels
  <2> QED
    BY <1>1, <1>2, <1>3, <2>1, NothingWritten
<1>6. CallOf(p)' = CallOf(p)
  BY <1>1, <1>2, <1>3, <1>4, SameAnswer
<1> QED
  BY <1>1, <1>2, <1>5, <1>6, Unseen

\* storing, up to the write of the chain pointer
LEMMA StoringSilent ==
  ASSUME KInv, ~torn, NEW p \in Procs,
         \/ ReadChain(p) \/ FreeLock(p) \/ FreeHead(p) \/ FreeWalk(p) \/ FreeTake(p) \/ FreeUnlock(p)
         \/ (OverwriteDat(p) /\ pc[p] = "reuse_dat") \/ ReuseIdx(p)
         \/ AppendLock(p) \/ AppendSeek(p) \/ AppendWrite(p) \/ AppendUnlock(p)
  PROVE  UNCHANGED Abstract!vars
<1>1. /\ Turn(p) /\ ProcsTyped /\ db[p] \in Handles /\ loc[p] \in Locals
  BY AtHome DEF KInv, LInv, Turn, Step
<1>2. /\ pc[p] \in StoreLabels \ {"over_dat"} /\ pc'[p] \in StoreLabels \ {"over_dat"}
      /\ req'[p] = req[p] /\ torn' = torn /\ ret'[p] = ret[p]
      /\ db'[p].buf = db[p].buf /\ loc'[p].deleted = loc[p].deleted
  <2> USE <1>1 DEF Goto, ProcsTyped, Handles, Locals, StoreLabels, FreeLabels, AppendLabels
  <2>1. CASE ReadChain(p) \/ FreeLock(p) \/ FreeHead(p)
    BY <2>1 DEF ReadChain, FreeLock, FreeHead
  <2>2. CASE FreeWalk(p)
    BY <2>2 DEF FreeWalk, ReadIdx
  <2>3. CASE FreeTake(p) \/ FreeUnlock(p) \/ ReuseIdx(p)
    BY <2>3 DEF FreeTake, FreeUnlock, ReuseIdx
  <2>4. CASE OverwriteDat(p) /\ pc[p] = "reuse_dat"
    BY <2>4 DEF OverwriteDat
  <2>5. CASE AppendLock(p) \/ AppendUnlock(p)
    BY <2>5 DEF AppendLock, AppendUnlock
  <2>6. CASE AppendSeek(p)
    BY <2>6, SMTT(30) DEF AppendSeek
  <2>7. CASE AppendWrite(p)
    BY <2>7, SMTT(30) DEF AppendWrite
  <2> QED
    BY <2>1, <2>2, <2>3, <2>4, <2>5, <2>6, <2>7
<1>3. /\ Committed(p) <=> loc[p].deleted
      /\ Committed(p)' <=> loc'[p].deleted
  BY <1>2 DEF Committed, StoreLabels, FreeLabels, AppendLabels
<1>4. Kv' = Kv
  <2>1. pc[p] \in AbsentLabels /\ pc'[p] \in AbsentLabels
    BY <1>2 DEF AbsentLabels
  <2>2. CASE loc[p].deleted
    BY <1>1, <1>2, <1>3, <2>2, Decided
  <2>3. CASE ~loc[p].deleted
    BY <1>1, <1>2, <1>3, <2>1, <2>3, NotYetThere
  <2> QED
    BY <2>2, <2>3
<1>5. CallOf(p)' = CallOf(p)
  <2>1. pc[p] \in KeyLabels /\ pc'[p] \in KeyLabels
    BY <1>2 DEF KeyLabels
  <2> QED
    BY <1>1, <1>2, <1>3, <2>1, SameAnswer
<1> QED
  BY <1>1, <1>2, <1>4, <1>5, Unseen

\* deleting, once the data are blanked, and the end of a store that has deleted
LEMMA DecidedSilent ==
  ASSUME KInv, ~torn, NEW p \in Procs,
         \/ DelFree(p) \/ DelIdx(p) \/ DelHead(p) \/ DelUnlink(p) \/ (DelUnlock(p) /\ req[p].op # "delete")
         \/ (Publish(p) /\ loc[p].deleted /\ db[p].idxoff <= PtrMax)
  PROVE  UNCHANGED Abstract!vars
<1>1. /\ Turn(p) /\ ProcsTyped /\ db[p] \in Handles /\ loc[p] \in Locals /\ PtrMax \in Nat
  BY AtHome, ConstantsAssumption DEF KInv, LInv, Turn, Step
<1>2. /\ pc[p] \in KeyLabels /\ pc'[p] \in KeyLabels /\ req'[p] = req[p] /\ torn' = torn
      /\ db'[p].buf = db[p].buf /\ Committed(p) /\ Committed(p)'
  <2> USE <1>1 DEF Goto, ProcsTyped, Handles, Locals, KeyLabels, DelLabels, StoreLabels, AppendLabels, Committed
  <2>1. CASE DelFree(p) \/ DelHead(p) \/ DelUnlink(p)
    BY <2>1 DEF DelFree, DelHead, DelUnlink
  <2>2. CASE DelIdx(p)
    BY <2>2 DEF DelIdx
  <2>3. CASE DelUnlock(p) /\ req[p].op # "delete"
    BY <2>3 DEF DelUnlock
  <2>4. CASE Publish(p) /\ loc[p].deleted /\ db[p].idxoff <= PtrMax
    BY <2>4 DEF Publish
  <2> QED
    BY <2>1, <2>2, <2>3, <2>4
<1>3. Kv' = Kv
  BY <1>1, <1>2, Decided
<1>4. CallOf(p)' = CallOf(p)
  BY <1>1, <1>2, SameAnswer
<1> QED
  BY <1>1, <1>2, <1>3, <1>4, Unseen

\* the end of a deletion
LEMMA DeletedSilent ==
  ASSUME KInv, ~torn, NEW p \in Procs, DelUnlock(p), req[p].op = "delete"
  PROVE  UNCHANGED Abstract!vars
<1>1. /\ Turn(p) /\ ProcsTyped /\ db[p] \in Handles /\ loc[p] \in Locals /\ LInv
      /\ CallFits(pc[p], req[p], ret[p], db[p], loc[p])
  BY AtHome DEF KInv, LInv, Turn, Step, Fitting
<1>2. /\ pc[p] = "del_unlock" /\ pc'[p] = "unlock" /\ req'[p] = req[p] /\ torn' = torn /\ dat' = dat
      /\ db'[p] = db[p] /\ ret'[p] = "ok" /\ loc'[p] = loc[p]
  BY <1>1 DEF DelUnlock, Goto, ProcsTyped, files
<1>3. Committed(p) /\ ~Committed(p)' /\ pc[p] \in ChainLabels /\ pc[p] \in KeyLabels /\ pc'[p] \in KeyLabels
  BY <1>1, <1>2 DEF Committed, CallFits, Deleted, AppendLabels, ChainLabels, KeyLabels, DelLabels
<1>4. PICK k : k = req[p].key
  OBVIOUS
<1>5. k \in Keys /\ Kv[k] = None
  BY <1>3, <1>4, OwnValue DEF Value
<1>6. StoredUnder(k)' = None
  <2>1. StoredUnder(k) = None /\ StoredOK
    <3>1. pc[p] \in AbsentLabels
      BY <1>2 DEF AbsentLabels
    <3> QED
      BY <1>1, <1>4, <3>1, ValuesNow, StoredNow DEF ValuesFit
  <2>2. Nxt' = Nxt /\ KeyAt' = KeyAt
    BY <1>1, <1>2, RecordsKept
  <2>3. RecordAt(k) = {} /\ RecordAt(k)' = RecordAt(k)
    BY <1>5, <2>1, <2>2 DEF StoredOK, RecordAt, RecordFor
  <2>4. LInv' /\ Grows
    BY <1>1, KTurnOK, TurnNext DEF KInv, LInv
  <2> QED
    BY <1>1, <1>2, <1>5, <2>1, <2>3, <2>4, SameValue
<1>7. Kv' = Kv
  BY <1>1, <1>2, <1>3, <1>4, <1>5, <1>6, OwnKey, KvMoves
<1>8. CallOf(p)' = CallOf(p)
  <2>1. CallsFit /\ CallsFit'
    BY <1>1, CallsNow, CallsThen, KTurnOK
  <2>2. CallOf(p) = [req |-> req[p], res |-> "ok", val |-> db[p].buf]
    BY <1>3, <2>1 DEF CallsFit
  <2>3. CallOf(p)' = [req |-> req'[p], res |-> IF Committed(p)' THEN "ok" ELSE ret'[p], val |-> db'[p].buf]
    BY <1>3, <2>1 DEF CallsFit
  <2> QED
    BY <1>2, <1>3, <2>2, <2>3
<1> QED
  BY <1>1, <1>2, <1>7, <1>8, Unseen

\* db_nextrec and db_rewind
LEMMA ScanSilent ==
  ASSUME KInv, ~torn, NEW p \in Procs, torn' = torn,
         ScanLock(p) \/ ScanIdx(p) \/ ScanDat(p) \/ ScanUnlock(p) \/ Call(p),
         pc'[p] \in ScanLabels \cup {"idle"}
  PROVE  UNCHANGED Abstract!vars
<1>1. /\ Turn(p) /\ ProcsTyped /\ CallFits(pc[p], req[p], ret[p], db[p], loc[p])
      /\ CallFits(pc'[p], req'[p], ret'[p], db'[p], loc'[p]) /\ CallsFit /\ CallsFit'
  <2>1. Turn(p) /\ Fitting /\ IInv
    BY DEF KInv, LInv, Turn, Step
  <2> QED
    BY <2>1, AtHome, OwnCall, CallsNow, CallsThen, KTurnOK DEF Fitting
<1>2. pc[p] \in ScanLabels \cup {"idle"}
  BY DEF ScanLock, ScanIdx, ScanDat, ScanUnlock, Call, ScanLabels
<1>3. ~Committed(p) /\ ~Committed(p)'
  BY <1>1, <1>2 DEF Committed, CallFits, Deleted, AppendLabels, ScanLabels
<1>4. Kv' = Kv
  <2>1. pc[p] \notin DelLabels \cup StoreLabels
    BY <1>2 DEF ScanLabels, DelLabels, StoreLabels, FreeLabels, AppendLabels
  <2> QED
    BY <1>1, <1>3, <2>1, NothingWritten
<1>5. CallOf(p)' = CallOf(p)
  <2>1. CallOf(p) = IdleCall
    BY <1>1, <1>2 DEF CallsFit
  <2>2. CallOf(p)' = IdleCall
    BY <1>1 DEF CallsFit, IdleCall, NoRequest
  <2> QED
    BY <2>1, <2>2
<1> QED
  BY <1>1, <1>4, <1>5, Unseen

-----------------------------------------------------------------------------
(* Calls, returns and deaths.                                                *)

LEMMA CallInvokes ==
  ASSUME KInv, ~torn, NEW p \in Procs, Call(p), pc'[p] = "find_lock"
  PROVE  Abstract!Invoke(p)
<1>1. /\ Turn(p) /\ ProcsTyped /\ CallFits(pc[p], req[p], ret[p], db[p], loc[p])
      /\ CallFits(pc'[p], req'[p], ret'[p], db'[p], loc'[p]) /\ CallsFit /\ CallsFit'
  <2>1. Turn(p) /\ Fitting /\ IInv
    BY DEF KInv, LInv, Turn, Step
  <2> QED
    BY <2>1, AtHome, OwnCall, CallsNow, CallsThen, KTurnOK DEF Fitting
<1>2. pc[p] = "idle" /\ torn' = torn
  BY DEF Call
<1>3. ~Committed(p) /\ ~Committed(p)'
  BY <1>1, <1>2 DEF Committed, CallFits, Deleted, AppendLabels
<1>4. Kv' = Kv
  <2>1. pc[p] \notin DelLabels \cup StoreLabels
    BY <1>2 DEF DelLabels, StoreLabels, FreeLabels, AppendLabels
  <2> QED
    BY <1>1, <1>2, <1>3, <2>1, NothingWritten
<1>5. PICK r \in Keyed \cup Stores : req'[p] = r
  <2>1. PICK r \in Workload[p] : r.op \notin {"rewind", "nextrec"} /\ req' = [req EXCEPT ![p] = r]
    BY <1>1, <1>2 DEF Call, Goto, ProcsTyped
  <2>2. r \in Requests
    BY <2>1, WorkloadAssumption
  <2>3. r \in Keyed \cup Stores
    BY <2>1, <2>2 DEF Requests, Cursor
  <2> QED
    BY <1>1, <2>1, <2>3 DEF ProcsTyped
<1>6. ret'[p] = "none" /\ db'[p].buf = Blank
  BY <1>1 DEF CallFits, Answered, KeyLabels
<1>7. CallOf(p)' = [req |-> r, res |-> "none", val |-> Blank]
  <2>1. CallOf(p)' = [req |-> req'[p], res |-> IF Committed(p)' THEN "ok" ELSE ret'[p], val |-> db'[p].buf]
    BY <1>1 DEF CallsFit, KeyLabels
  <2> QED
    BY <1>3, <1>5, <1>6, <2>1
<1>8. CallOf(p) = IdleCall
  BY <1>1, <1>2 DEF CallsFit
<1> QED
  BY <1>1, <1>2, <1>4, <1>5, <1>7, <1>8, CallsStep, Invokes

LEMMA UnlockResponds ==
  ASSUME KInv, ~torn, NEW p \in Procs, UnlockChain(p)
  PROVE  Abstract!Respond(p)
<1>1. /\ Turn(p) /\ ProcsTyped /\ CallFits(pc[p], req[p], ret[p], db[p], loc[p]) /\ CallsFit /\ CallsFit'
      /\ Filled(pc[p], req[p], db[p], loc[p]) /\ LInv
  <2>1. Turn(p) /\ Fitting /\ IInv /\ AllFilled /\ LInv
    BY DEF KInv, LInv, Turn, Step
  <2> QED
    BY <2>1, AtHome, CallsNow, CallsThen, KTurnOK DEF Fitting, AllFilled
<1>2. pc[p] = "unlock" /\ pc'[p] = "idle" /\ torn' = torn
  BY <1>1 DEF UnlockChain, Return, Goto, ProcsTyped
<1>3. pc[p] \in ChainLabels /\ pc[p] \in KeyLabels /\ ~Committed(p)' /\ (Committed(p) <=> loc[p].deleted)
  BY <1>2 DEF ChainLabels, KeyLabels, Committed
<1>4. PICK k : k = req[p].key
  OBVIOUS
<1>5. k \in Keys /\ Kv[k] = IF Committed(p) THEN Value(req[p]) ELSE StoredUnder(k)
  BY <1>3, <1>4, OwnValue
<1>6. Kv[k] = StoredUnder(k)
  <2>1. Committed(p) => StoredUnder(k) = req[p].data /\ req[p].op # "delete"
    BY <1>1, <1>2, <1>3, <1>4 DEF Filled, CallFits, Deleted
  <2> QED
    BY <1>5, <2>1 DEF Value
<1>7. StoredUnder(k)' = StoredUnder(k)
  <2>1. pc[p] \notin DelLabels \cup StoreLabels
    BY <1>2 DEF DelLabels, StoreLabels, FreeLabels, AppendLabels
  <2> QED
    BY <1>1, <1>2, <1>5, <2>1, ValueKept
<1>8. Kv' = Kv
  BY <1>1, <1>2, <1>3, <1>4, <1>6, <1>7, OwnKey, KvMoves
<1>9. CallOf(p).res \in {"ok", "absent", "exists"} /\ CallOf(p)' = IdleCall
  <2>1. CallOf(p) = [req |-> req[p], res |-> IF Committed(p) THEN "ok" ELSE ret[p], val |-> db[p].buf]
    BY <1>1, <1>3 DEF CallsFit
  <2>2. ret[p] \in {"ok", "absent", "exists"}
    BY <1>1, <1>2 DEF CallFits, Answered
  <2>3. CallOf(p)' = IdleCall
    BY <1>1, <1>2 DEF CallsFit, IdleCall, NoRequest
  <2> QED
    BY <2>1, <2>2, <2>3
<1> QED
  BY <1>1, <1>2, <1>8, <1>9, CallsStep, Responds

LEMMA DeathDies ==
  ASSUME KInv, ~torn, NEW p \in Procs, Turn(p), pc[p] \notin {"idle", "dead"}, pc'[p] = "dead",
         req'[p] = req[p], torn' = torn \/ (torn' /\ pc[p] \in TornLabels)
  PROVE  Abstract!Die(p)
<1>1. /\ ProcsTyped /\ CallFits(pc[p], req[p], ret[p], db[p], loc[p]) /\ CallsFit /\ CallsFit' /\ IInv
      /\ pc[p] \in Labels /\ ret[p] \in Results
  <2>1. Fitting /\ IInv
    BY DEF KInv, LInv
  <2> QED
    BY <2>1, AtHome, CallsNow, CallsThen, KTurnOK DEF Fitting
<1>2. pc[p] \in KeyLabels \cup ScanLabels
  BY <1>1 DEF Labels, KeyLabels, ScanLabels, DelLabels, StoreLabels, FreeLabels, AppendLabels, ReuseLabels
<1>3. Calls' = [Calls EXCEPT ![p] = DeadCall] /\ Calls[p] = CallOf(p)
  <2>1. CallOf(p)' = DeadCall
    BY <1>1 DEF CallsFit, DeadCall, NoRequest
  <2> QED
    BY <2>1, CallsStep
<1>4. ~Committed(p)'
  BY DEF Committed
<1>5. CASE pc[p] \in ScanLabels
  <2>1. ~Committed(p) /\ pc[p] \notin DelLabels \cup StoreLabels /\ pc[p] \notin TornLabels
    BY <1>1, <1>5 DEF Committed, CallFits, Deleted, ScanLabels, DelLabels, StoreLabels, FreeLabels, AppendLabels,
       TornLabels
  <2>2. Kv' = Kv /\ torn' = torn
    BY <1>4, <2>1, NothingWritten
  <2>3. CallOf(p) # DeadCall
    <3>1. CallOf(p) = IdleCall
      BY <1>1, <1>5 DEF CallsFit
    <3>2. IdleCall.res # DeadCall.res
      BY DEF IdleCall, DeadCall
    <3> QED
      BY <3>1, <3>2
  <2> QED
    BY <1>3, <2>2, <2>3, Dies
<1>6. CASE pc[p] \in KeyLabels
  <2>1. CallOf(p).req = req[p] /\ CallOf(p) # DeadCall
    <3>1. CallOf(p) = [req |-> req[p], res |-> IF Committed(p) THEN "ok" ELSE ret[p], val |-> db[p].buf]
      BY <1>1, <1>6 DEF CallsFit
    <3>2. CallOf(p).req = req[p] /\ CallOf(p).res # "dead" /\ DeadCall.res = "dead"
      BY <1>1, <3>1 DEF Results, DeadCall
    <3> QED
      BY <3>2
  <2>2. req[p] \in Keyed \cup Stores /\ req[p].key \in Keys
    BY <1>1, <1>6, ChainOf
  <2>3. CASE torn'
    <3>1. pc[p] \in DelLabels
      BY <2>3 DEF TornLabels, DelLabels
    <3>2. req[p].op \in {"delete", "replace", "store"}
      BY <1>1, <3>1 DEF CallFits, Changes
    <3> QED
      BY <1>3, <2>1, <2>3, <3>2, Dies
  <2>4. CASE ~torn' /\ req[p].op = "fetch"
    <3>1. ~Committed(p) /\ pc[p] \notin DelLabels \cup StoreLabels
      BY <1>1, <2>4 DEF Committed, CallFits, Changes, Deleted, DelLabels
    <3>2. Kv' = Kv
      BY <1>4, <2>4, <3>1, NothingWritten
    <3> QED
      BY <1>3, <2>1, <2>4, <3>2, Dies
  <2>5. CASE ~torn' /\ req[p].op # "fetch"
    <3>1. req[p].op \in {"delete", "insert", "replace", "store"}
      BY <2>2, <2>5 DEF Keyed, Stores
    <3>2. Kv' = [Kv EXCEPT ![req[p].key] = Kv'[req[p].key]] /\ Kv'[req[p].key] \in Data \cup {Blank, None}
      BY <1>4, <2>2, <2>5, KvMoves
    <3>3. Kv' \in {[Kv EXCEPT ![CallOf(p).req.key] = v] : v \in Data \cup {Blank, None}}
      BY <2>1, <3>2
    <3>4. torn' = torn /\ CallOf(p).req.op \in {"delete", "insert", "replace", "store"}
      BY <2>1, <2>5, <3>1
    <3> QED
      BY <1>3, <2>1, <3>3, <3>4, Dies
  <2> QED
    BY <2>3, <2>4, <2>5
<1> QED
  BY <1>2, <1>5, <1>6

-----------------------------------------------------------------------------
(* The steps at which a call takes effect.                                   *)

LEMMA Effect ==
  ASSUME KInv, ~torn, NEW p \in Procs, Turn(p), torn' = torn, pc[p] \in ChainLabels,
         pc'[p] \in KeyLabels, req'[p] = req[p], ~Committed(p), ret[p] = "none",
         NEW k, k = req[p].key, NEW t, t = IF Committed(p)' THEN "ok" ELSE ret'[p],
         Answers(req[p], StoredUnder(k), t, db'[p].buf, Kv'[k])
  PROVE  Abstract!Apply(p)
<1>1. CallsFit /\ CallsFit' /\ pc[p] \in KeyLabels
  BY CallsNow, CallsThen, KTurnOK DEF ChainLabels
<1>2. Calls[p] = [req |-> req[p], res |-> "none", val |-> db[p].buf]
  BY <1>1, CallsStep DEF CallsFit
<1>3. CallOf(p)' = [req |-> req'[p], res |-> IF Committed(p)' THEN "ok" ELSE ret'[p], val |-> db'[p].buf]
  BY <1>1 DEF CallsFit
<1>4. Calls' = [Calls EXCEPT ![p] = [req |-> req[p], res |-> t, val |-> db'[p].buf]]
  BY <1>3, CallsStep
<1>5. Kv[k] = StoredUnder(k) /\ Kv' = [Kv EXCEPT ![k] = Kv'[k]]
  BY OwnValue, KvMoves
<1>6. PICK r, w, v, new : r = req[p] /\ w = db[p].buf /\ v = db'[p].buf /\ new = Kv'[k]
  OBVIOUS
<1>7. /\ Calls[p] = [req |-> r, res |-> "none", val |-> w]
      /\ Calls' = [Calls EXCEPT ![p] = [req |-> r, res |-> t, val |-> v]]
      /\ Kv' = [Kv EXCEPT ![r.key] = new] /\ Answers(r, Kv[r.key], t, v, new)
  BY <1>2, <1>4, <1>5, <1>6
<1> QED
  BY <1>7, Applies

\* what a search has established when it ends
LEMMA HeadSees ==
  ASSUME LInv, ~torn, NEW p \in Procs, pc[p] = "find_head", ptr[Chain(p)] = 0
  PROVE  RecordAt(req[p].key) = {}
<1>1. pc[p] \in ChainLabels /\ pc[p] \notin TornLabels
  BY DEF ChainLabels, KeyLabels, TornLabels
<1>2. Chain(p) = Hash[req[p].key] /\ Nxt[Chain(p)] = 0
  BY <1>1, ChainAt
<1>3. Follows(Nxt, Chain(p), {} \cap On(Nxt, Chain(p)))
  BY <1>2 DEF Follows
<1>4. On(Nxt, Chain(p)) \subseteq {}
  BY <1>3, OnLeast
<1> QED
  BY <1>2, <1>4 DEF RecordAt, RecordFor

LEMMA WalkSees ==
  ASSUME LInv, ~torn, NEW p \in Procs, pc[p] = "find_walk"
  PROVE  /\ Rec(loc[p].off).key = req[p].key => loc[p].off \in RecordAt(req[p].key)
         /\ Rec(loc[p].off).key # req[p].key /\ ptr[loc[p].off] = 0 => RecordAt(req[p].key) = {}
<1> DEFINE c == Chain(p)  o == loc[p].off
<1>1. pc[p] \in ChainLabels /\ pc[p] \notin TornLabels /\ o # 0
  BY AtHome DEF ChainLabels, KeyLabels, TornLabels, LInv, Fit, Pointers
<1>2. /\ c = Hash[req[p].key] /\ c \in Line(Nxt, c) /\ On(Nxt, c) \subseteq Line(Nxt, c)
      /\ \A a \in Line(Nxt, c) : Nxt[a] = ptr[a] /\ Nxt[a] \in On(Nxt, c) \cup {0}
      /\ \A a \in On(Nxt, c) : KeyAt[a] = Rec(a).key
  BY <1>1, ChainAt
<1>3. db[p].ptroff \in Line(Nxt, c) /\ Nxt[db[p].ptroff] = o
  BY <1>2, KnowsAt DEF Knows, Walked
<1>4. PICK V \in SUBSET On(Nxt, c) : Passed(req[p], loc[p], Nxt, KeyAt, V)
  BY <1>2, KnowsAt DEF Knows, Walked
<1>5. o \in On(Nxt, c) /\ Nxt[o] = ptr[o] /\ KeyAt[o] = Rec(o).key
  BY <1>1, <1>2, <1>3
<1>6. ASSUME Rec(o).key # req[p].key, ptr[o] = 0 PROVE RecordAt(req[p].key) = {}
  <2>1. /\ \A a \in V \cup {c} : Nxt[a] \in V \cup {o}
        /\ \A a \in V \cup {o} : KeyAt[a] # req[p].key
    BY <1>2, <1>4, <1>5, <1>6 DEF Passed
  <2>2. Follows(Nxt, c, (V \cup {o}) \cap On(Nxt, c))
    <3>1. V \cup {o} \subseteq On(Nxt, c)
      BY <1>5
    <3> QED
      BY <1>5, <1>6, <2>1, <3>1 DEF Follows
  <2>3. On(Nxt, c) \subseteq V \cup {o}
    BY <2>2, OnLeast
  <2> QED
    BY <1>2, <2>1, <2>3 DEF RecordAt, RecordFor
<1> QED
  BY <1>2, <1>5, <1>6 DEF RecordAt, RecordFor

LEMMA LookingApplies ==
  ASSUME KInv, ~torn, NEW p \in Procs, FindHead(p) \/ FindWalk(p), pc'[p] = "unlock"
  PROVE  Abstract!Apply(p)
<1>1. /\ Turn(p) /\ ProcsTyped /\ db[p] \in Handles /\ loc[p] \in Locals /\ LInv
      /\ CallFits(pc[p], req[p], ret[p], db[p], loc[p]) /\ StoredOK
  BY AtHome, StoredNow DEF KInv, LInv, Fitting, Turn, Step
<1>2. PICK k : k = req[p].key
  OBVIOUS
<1>3. pc[p] \in {"find_head", "find_walk"} /\ req'[p] = req[p] /\ torn' = torn /\ loc'[p].deleted = loc[p].deleted
      /\ db'[p].buf = db[p].buf
  <2>1. CASE FindHead(p)
    BY <1>1, <2>1 DEF FindHead, ProcsTyped, Handles, Locals
  <2>2. CASE FindWalk(p)
    BY <1>1, <2>2 DEF FindWalk, ReadIdx, ProcsTyped, Handles, Locals
  <2> QED
    BY <2>1, <2>2
<1>4. ~Committed(p) /\ ~Committed(p)' /\ ret[p] = "none" /\ db[p].buf = Blank
  BY <1>1, <1>3 DEF Committed, CallFits, Deleted, Answered, AppendLabels, KeyLabels
<1>5. pc[p] \in ChainLabels /\ pc'[p] \in KeyLabels
  BY <1>3 DEF ChainLabels, KeyLabels
<1>6. k \in Keys /\ StoredUnder(k)' = StoredUnder(k)
  <2>1. pc[p] \notin DelLabels \cup StoreLabels /\ k \in Keys
    BY <1>2, <1>3, <1>5, OwnValue DEF DelLabels, StoreLabels, FreeLabels, AppendLabels
  <2> QED
    BY <1>1, <1>3, <2>1, ValueKept
<1>7. Kv'[k] = StoredUnder(k)
  BY <1>1, <1>2, <1>3, <1>4, <1>5, <1>6, OwnKey
<1>8. \/ ret'[p] = "absent" /\ req[p].op \in {"fetch", "delete", "replace"} /\ StoredUnder(k) = None
      \/ ret'[p] = "exists" /\ req[p].op = "insert" /\ StoredUnder(k) # None
  <2>1. CASE FindHead(p)
    <3>1. ptr[Chain(p)] = 0 /\ NotFound(p)
      BY <1>1, <2>1 DEF FindHead, Goto, ProcsTyped
    <3>2. StoredUnder(k) = None
      BY <1>1, <1>2, <1>6, <2>1, <3>1, HeadSees DEF StoredOK, FindHead
    <3> QED
      BY <1>1, <3>1, <3>2 DEF NotFound, Goto, ProcsTyped
  <2>2. CASE FindWalk(p)
    <3>1. CASE Rec(loc[p].off).key = req[p].key
      <4>1. StoredUnder(k) # None
        BY <1>1, <1>2, <1>6, <2>2, <3>1, WalkSees DEF StoredOK, FindWalk
      <4>2. Found(p, Rec(loc[p].off).datlen)
        BY <2>2, <3>1 DEF FindWalk
      <4> QED
        BY <1>1, <4>1, <4>2 DEF Found, Goto, ProcsTyped
    <3>2. CASE Rec(loc[p].off).key # req[p].key
      <4>1. ptr[loc[p].off] = 0 /\ NotFound(p)
        BY <1>1, <1>3, <2>2, <3>2 DEF FindWalk
      <4>2. StoredUnder(k) = None
        BY <1>1, <1>2, <1>6, <2>2, <3>2, <4>1, WalkSees DEF StoredOK, FindWalk
      <4> QED
        BY <1>1, <4>1, <4>2 DEF NotFound, Goto, ProcsTyped
    <3> QED
      BY <3>1, <3>2
  <2> QED
    BY <2>1, <2>2
<1>9. Answers(req[p], StoredUnder(k), ret'[p], db'[p].buf, Kv'[k])
  BY <1>3, <1>4, <1>7, <1>8 DEF Answers
<1> QED
  BY <1>1, <1>2, <1>3, <1>4, <1>5, <1>9, Effect

LEMMA FetchApplies ==
  ASSUME KInv, ~torn, NEW p \in Procs, FetchDat(p)
  PROVE  Abstract!Apply(p)
<1>1. /\ Turn(p) /\ ProcsTyped /\ db[p] \in Handles /\ loc[p] \in Locals /\ LInv
      /\ CallFits(pc[p], req[p], ret[p], db[p], loc[p]) /\ ValuesFit
  BY AtHome, ValuesNow DEF KInv, LInv, Fitting, Turn, Step
<1>2. PICK k : k = req[p].key
  OBVIOUS
<1>3. /\ pc[p] = "fetch_dat" /\ pc'[p] = "unlock" /\ req'[p] = req[p] /\ torn' = torn /\ loc' = loc
      /\ db'[p].buf = dat[db[p].datoff].val /\ ret'[p] = "ok"
  BY <1>1 DEF FetchDat, Goto, ProcsTyped, Handles
<1>4. ~Committed(p) /\ ~Committed(p)' /\ ret[p] = "none" /\ req[p].op = "fetch"
  BY <1>1, <1>3 DEF Committed, CallFits, Changes, Deleted, Answered, AppendLabels, KeyLabels
<1>5. pc[p] \in ChainLabels /\ pc'[p] \in KeyLabels
  BY <1>3 DEF ChainLabels, KeyLabels
<1>6. k \in Keys /\ StoredUnder(k)' = StoredUnder(k)
  <2>1. pc[p] \notin DelLabels \cup StoreLabels /\ k \in Keys
    BY <1>2, <1>3, <1>5, OwnValue DEF DelLabels, StoreLabels, FreeLabels, AppendLabels
  <2> QED
    BY <1>1, <1>3, <2>1, ValueKept
<1>7. Kv'[k] = StoredUnder(k)
  BY <1>1, <1>2, <1>3, <1>4, <1>5, <1>6, OwnKey
<1>8. StoredUnder(k) = dat[db[p].datoff].val /\ StoredUnder(k) # None
  BY <1>1, <1>2, <1>3 DEF ValuesFit, FoundLabels
<1>9. Answers(req[p], StoredUnder(k), ret'[p], db'[p].buf, Kv'[k])
  BY <1>3, <1>4, <1>7, <1>8 DEF Answers
<1> QED
  BY <1>1, <1>2, <1>3, <1>4, <1>5, <1>9, Effect

LEMMA DeleteApplies ==
  ASSUME KInv, ~torn, NEW p \in Procs, DelDat(p)
  PROVE  Abstract!Apply(p)
<1>1. /\ Turn(p) /\ ProcsTyped /\ LInv
      /\ CallFits(pc[p], req[p], ret[p], db[p], loc[p]) /\ ValuesFit
  BY AtHome, ValuesNow DEF KInv, LInv, Fitting, Turn, Step
<1>2. PICK k : k = req[p].key
  OBVIOUS
<1>3. /\ pc[p] = "del_dat" /\ pc'[p] = "del_free" /\ req'[p] = req[p] /\ torn' = torn /\ db' = db
  BY <1>1 DEF DelDat, Goto, ProcsTyped
<1>4. /\ ~Committed(p) /\ Committed(p)' /\ ret[p] = "none" /\ db[p].buf = Blank
      /\ req[p].op \in {"delete", "replace", "store"}
  BY <1>1, <1>3 DEF Committed, CallFits, Changes, Deleted, Answered, AppendLabels, KeyLabels, DelLabels
<1>5. pc[p] \in ChainLabels /\ pc'[p] \in KeyLabels
  BY <1>3 DEF ChainLabels, KeyLabels, DelLabels
<1>6. Kv'[k] = Value(req[p])
  BY <1>1, <1>2, <1>3, <1>4, <1>5, OwnKey
<1>7. StoredUnder(k) # None
  BY <1>1, <1>2, <1>3 DEF ValuesFit, FoundLabels
<1>8. Answers(req[p], StoredUnder(k), "ok", db'[p].buf, Kv'[k])
  BY <1>3, <1>4, <1>6, <1>7 DEF Answers, Value
<1> QED
  BY <1>1, <1>2, <1>3, <1>4, <1>5, <1>8, Effect

LEMMA OverwriteApplies ==
  ASSUME KInv, ~torn, NEW p \in Procs, OverwriteDat(p), pc[p] = "over_dat"
  PROVE  Abstract!Apply(p)
<1>1. /\ Turn(p) /\ ProcsTyped /\ db[p] \in Handles /\ loc[p] \in Locals /\ LInv /\ LInv' /\ Grows /\ FilesOK /\ FilesOK'
      /\ CallFits(pc[p], req[p], ret[p], db[p], loc[p]) /\ ValuesFit
  <2>1. LInv /\ IInv /\ Turn(p)
    BY DEF KInv, LInv, Turn, Step
  <2>2. LInv' /\ IInv' /\ Grows
    BY <2>1, LTurnOK, TurnNext
  <2> QED
    BY <2>1, <2>2, AtHome, ValuesNow DEF KInv, Fitting, IInv, TypeOK, FilesOK
<1>2. PICK k, o : k = req[p].key /\ o = db[p].idxoff
  OBVIOUS
<1>3. /\ pc'[p] = "unlock" /\ req'[p] = req[p] /\ torn' = torn /\ loc' = loc
      /\ db'[p].buf = db[p].buf /\ ret'[p] = "ok"
  BY <1>1 DEF OverwriteDat, Goto, ProcsTyped, Handles
<1>4. /\ ~Committed(p) /\ ~Committed(p)' /\ ret[p] = "none" /\ db[p].buf = Blank
      /\ req[p].op \in {"replace", "store"}
  BY <1>1, <1>3 DEF Committed, CallFits, Changes, Deleted, Answered, AppendLabels, KeyLabels, StoreLabels
<1>5. pc[p] \in ChainLabels /\ pc'[p] \in KeyLabels /\ pc[p] \in FoundLabels
  BY <1>3 DEF ChainLabels, KeyLabels, StoreLabels, FoundLabels
<1>6. StoredUnder(k)' = req[p].data
  <2>1. o \in RecordAt(k) /\ Describes(db[p]) /\ k \in Keys
    BY <1>1, <1>2, <1>5, OwnRecord, OwnValue
  <2>2. RecordAt(k)' = RecordAt(k)
    <3>1. Nxt' = Nxt /\ KeyAt' = KeyAt
      BY <1>1, <1>3, RecordsKept
    <3> QED
      BY <3>1 DEF RecordAt, RecordFor
  <2>3. StoredUnder(k)' = dat'[Rec(o)'.datoff].val
    <3>1. StoredOK'
      BY <1>1, <1>3, StoredThen
    <3> QED
      BY <2>1, <2>2, <3>1 DEF StoredOK
  <2>4. Rec(o)'.datoff = db[p].datoff
    BY <1>1, <1>2, <2>1, GrowsKeeps DEF Describes
  <2>5. dat'[db[p].datoff].val = req[p].data
    BY <1>1, DatTouched DEF LInv
  <2> QED
    BY <2>3, <2>4, <2>5
<1>7. Kv'[k] = req[p].data
  BY <1>1, <1>2, <1>3, <1>4, <1>5, <1>6, OwnKey
<1>8. StoredUnder(k) # None
  BY <1>1, <1>2, <1>5 DEF ValuesFit
<1>9. Answers(req[p], StoredUnder(k), ret'[p], db'[p].buf, Kv'[k])
  BY <1>3, <1>4, <1>7, <1>8 DEF Answers
<1> QED
  BY <1>1, <1>2, <1>3, <1>4, <1>5, <1>9, Effect

LEMMA PublishApplies ==
  ASSUME KInv, ~torn, NEW p \in Procs, Publish(p), db[p].idxoff <= PtrMax, ~loc[p].deleted
  PROVE  Abstract!Apply(p)
<1>1. /\ Turn(p) /\ ProcsTyped /\ db[p] \in Handles /\ loc[p] \in Locals /\ LInv /\ PtrMax \in Nat
      /\ CallFits(pc[p], req[p], ret[p], db[p], loc[p]) /\ ValuesFit
  BY AtHome, ValuesNow, ConstantsAssumption DEF KInv, LInv, Fitting, Turn, Step
<1>2. PICK k : k = req[p].key
  OBVIOUS
<1>3. /\ pc[p] = "publish" /\ pc'[p] = "unlock" /\ req'[p] = req[p] /\ torn' = torn /\ loc' = loc
      /\ db'[p].buf = db[p].buf /\ ret'[p] = "ok"
  BY <1>1 DEF Publish, Goto, ProcsTyped, Handles
<1>4. /\ ~Committed(p) /\ ~Committed(p)' /\ ret[p] = "none" /\ db[p].buf = Blank
      /\ req[p].op \in {"insert", "store"}
  BY <1>1, <1>3 DEF Committed, CallFits, Changes, Deleted, Answered, KeyLabels, StoreLabels
<1>5. pc[p] \in ChainLabels /\ pc'[p] \in KeyLabels /\ pc[p] \in AbsentLabels
  BY <1>3 DEF ChainLabels, KeyLabels, StoreLabels, AbsentLabels
<1>6. StoredUnder(k)' = req[p].data /\ StoredUnder(k) = None
  BY <1>1, <1>2, <1>5, Published DEF ValuesFit
<1>7. Kv'[k] = req[p].data
  BY <1>1, <1>2, <1>3, <1>4, <1>5, <1>6, OwnKey
<1>8. Answers(req[p], StoredUnder(k), ret'[p], db'[p].buf, Kv'[k])
  BY <1>3, <1>4, <1>6, <1>7 DEF Answers
<1> QED
  BY <1>1, <1>2, <1>3, <1>4, <1>5, <1>8, Effect

-----------------------------------------------------------------------------
(* The theorem.                                                              *)

LEMMA TurnSimulates ==
  ASSUME KInv, NEW p \in Procs, Turn(p)
  PROVE  [Abstract!Next]_(Abstract!vars)
<1>1. IInv /\ ProcsTyped /\ torn \in BOOLEAN /\ PtrMax \in Nat /\ db[p] \in Handles
      /\ CallFits(pc[p], req[p], ret[p], db[p], loc[p])
  BY AtHome, ConstantsAssumption DEF KInv, LInv, Fitting
<1>2. CASE torn
  <2>1. torn'
    BY <1>1, <1>2, TornStays
  <2> QED
    BY <1>2, <2>1 DEF Abstract!Next
<1>3. CASE ~torn
  <2> USE <1>3 DEF Abstract!Next
  <2>1. CASE FindLock(p) \/ FindHead(p) \/ FindWalk(p) \/ FetchDat(p) \/ UnlockChain(p)
    BY <2>1, LookingSilent, LookingApplies, FetchApplies, UnlockResponds
  <2>2. CASE DelLock(p) \/ DelDat(p) \/ DelFree(p) \/ DelIdx(p) \/ DelHead(p) \/ DelUnlink(p)
    BY <2>2, LookingSilent, DeleteApplies, DecidedSilent
  <2>3. CASE DelUnlock(p)
    BY <2>3, DecidedSilent, DeletedSilent
  <2>4. CASE ReadChain(p) \/ FreeLock(p) \/ FreeHead(p) \/ FreeWalk(p) \/ FreeTake(p) \/ FreeUnlock(p)
             \/ ReuseIdx(p) \/ AppendLock(p) \/ AppendSeek(p) \/ AppendWrite(p) \/ AppendUnlock(p)
    BY <2>4, StoringSilent
  <2>5. CASE OverwriteDat(p)
    <3>1. pc[p] \in {"reuse_dat", "over_dat"}
      BY <2>5 DEF OverwriteDat
    <3> QED
      BY <2>5, <3>1, StoringSilent, OverwriteApplies
  <2>6. CASE Publish(p) /\ db[p].idxoff <= PtrMax
    BY <2>6, DecidedSilent, PublishApplies
  <2>7. CASE Publish(p) /\ ~(db[p].idxoff <= PtrMax)
    <3>1. pc[p] = "publish" /\ pc'[p] = "dead" /\ req'[p] = req[p] /\ torn' = torn
      BY <1>1, <2>7 DEF Publish, Goto, ProcsTyped, Handles
    <3> QED
      BY <3>1, DeathDies
  <2>8. CASE ScanLock(p) \/ ScanIdx(p) \/ ScanDat(p) \/ ScanUnlock(p)
    <3>1. /\ torn' = torn /\ pc[p] \notin {"idle", "dead"}
          /\ pc'[p] \in ScanLabels \cup {"idle"} \/ (pc'[p] = "dead" /\ req'[p] = req[p])
      BY <1>1, <2>8 DEF ScanLock, ScanIdx, ScanDat, ScanUnlock, Return, Goto, ProcsTyped, ScanLabels
    <3> QED
      BY <2>8, <3>1, ScanSilent, DeathDies
  <2>9. CASE Call(p)
    <3>1. torn' = torn /\ pc'[p] \in {"find_lock", "scan_lock", "idle"}
      BY <1>1, <2>9 DEF Call, Goto, ProcsTyped
    <3> QED
      BY <2>9, <3>1, CallInvokes, ScanSilent DEF ScanLabels
  <2>10. CASE Kill(p)
    <3>1. /\ pc[p] \notin {"idle", "dead"} /\ pc'[p] = "dead" /\ req'[p] = req[p]
          /\ torn' = torn \/ (torn' /\ pc[p] \in TornLabels)
      BY <1>1, <2>10 DEF Kill, Goto, ProcsTyped
    <3> QED
      BY <3>1, DeathDies
  <2> QED
    BY <2>1, <2>2, <2>3, <2>4, <2>5, <2>6, <2>7, <2>8, <2>9, <2>10 DEF Turn, Step
<1> QED
  BY <1>1, <1>2, <1>3

LEMMA StaysStill == UNCHANGED vars => UNCHANGED Abstract!vars
<1> SUFFICES ASSUME UNCHANGED vars PROVE UNCHANGED Abstract!vars
  OBVIOUS
<1>1. pc' = pc /\ req' = req /\ ret' = ret /\ db' = db /\ loc' = loc /\ torn' = torn
  BY DEF vars
<1>2. \A q \in Procs : Committed(q)' <=> Committed(q)
  BY <1>1 DEF Committed
<1>3. Kv' = Kv
  BY <1>1, <1>2, StoredStays DEF Kv, Committed
<1>4. Calls' = Calls
  BY <1>1 DEF Calls, CallOf, Committed
<1> QED
  BY <1>1, <1>3, <1>4, Stutter

LEMMA StartsStill == Init => Abstract!Init
<1> SUFFICES ASSUME Init PROVE Abstract!Init
  OBVIOUS
<1>1. KInv /\ ~torn /\ torn = FALSE /\ \A p \in Procs : pc[p] = "idle"
  BY KInitOK DEF Init
<1>2. KvOK /\ StoredOK /\ CallsFit
  BY <1>1, KvNow, StoredNow, CallsNow DEF KInv
<1>3. \A p \in Procs : ~Committed(p) /\ CallOf(p) = IdleCall
  BY <1>1, <1>2 DEF Committed, CallsFit
<1>4. \A d \in 1 .. Len(dat) : dat[d].val \in Data
  <2>1. PICK s \in Preloads : dat = LoadedDat(s)
    BY DEF Init
  <2>2. s \in Seq(Keys \X Data)
    BY PreloadsAssumption
  <2>3. Len(dat) = Len(s) /\ Len(s) \in Nat /\ \A d \in 1 .. Len(s) : dat[d].val = s[d][2] /\ s[d] \in Keys \X Data
    BY <2>1, <2>2 DEF LoadedDat
  <2> QED
    BY <2>3
<1>5. \A k \in Keys : Kv[k] \in Data \cup {None}
  <2> SUFFICES ASSUME NEW k \in Keys PROVE Kv[k] \in Data \cup {None}
    OBVIOUS
  <2>1. Kv[k] = StoredUnder(k)
    BY <1>2, <1>3 DEF KvOK
  <2>2. CASE RecordAt(k) = {}
    BY <1>2, <2>1, <2>2 DEF StoredOK
  <2>3. CASE RecordAt(k) # {}
    <3>1. PICK o \in RecordAt(k) : StoredUnder(k) = dat[Rec(o).datoff].val /\ Rec(o).datoff \in 1 .. Len(dat)
      BY <1>2, <2>3 DEF StoredOK
    <3> QED
      BY <1>4, <2>1, <3>1
  <2> QED
    BY <2>2, <2>3
<1>6. Kv \in [Keys -> Data \cup {None}]
  BY <1>2, <1>5 DEF KvOK
<1>7. Calls = [p \in Procs |-> IdleCall]
  BY <1>3 DEF Calls
<1> QED
  BY <1>1, <1>6, <1>7 DEF Abstract!Init, Abstract!Idle, Abstract!NoReq, Calls, IdleCall, NoRequest

(* Whatever the processes, keys, values, hash function, initial contents,    *)
(* workload and kills, fetches, deletes and stores of concurrent processes   *)
(* take effect one at a time, each between its call and its return, on a map *)
(* from keys to values; a process that dies in a call spoils at most the key *)
(* of that call, unless it is killed between the blanked index record and    *)
(* the unlinking of it (db.c:260-302, 464-525, 638-804).                     *)
THEOREM Implements == Spec => Linearizable
<1>1. KInv /\ [Next]_vars => [Abstract!Next]_(Abstract!vars)
  <2> SUFFICES ASSUME KInv, [Next]_vars PROVE [Abstract!Next]_(Abstract!vars)
    OBVIOUS
  <2>1. ASSUME NEW p \in Procs, Call(p) \/ Step(p) \/ Kill(p) PROVE [Abstract!Next]_(Abstract!vars)
    BY <2>1, TurnSimulates DEF Turn
  <2>2. CASE UNCHANGED vars
    BY <2>2, StaysStill
  <2> QED
    BY <2>1, <2>2 DEF Next, Finished
<1> QED
  BY <1>1, StartsStill, KInitOK, KNextOK, PTL DEF Spec, Linearizable, Abstract!Spec

-----------------------------------------------------------------------------
(* Proofs about db_nextrec: it never goes on to read the data of a record    *)
(* that is being deleted; a scan that runs to the end of the index file has  *)
(* returned every key that stayed in place, and none of them twice.          *)
(*                                                                           *)
(* The inductive invariant.  It is about runs in which no process died: one  *)
(* that dies between the write of its index record and the publishing of it  *)
(* leaves a record that is in no chain.                                      *)

Alive == \A p \in Procs : pc[p] # "dead"

\* a store has written the index record at o and not put it on its chain yet
Holding(o) == \E q \in Procs : pc[q] \in {"idx_unlock", "publish"} /\ db[q].idxoff = o
\* a deletion has blanked the data of the record at o and not yet its key
Blanking(o) == \E q \in Procs : pc[q] \in {"del_free", "del_idx"} /\ db[q].idxoff = o

\* a record with a key is on the chain of that key, or about to be
Whole ==
  \A o \in First .. IdxEnd :
    Rec(o).key # Blank => o \in On(Nxt, Hash[Rec(o).key]) \/ Holding(o)
\* a record with a key has data, unless it is being deleted
DataThere ==
  \A o \in First .. IdxEnd :
    Rec(o).key # Blank => dat[Rec(o).datoff].val # Blank \/ Blanking(o)
\* db_nextrec holds the lock of the free list while it reads
ScanHolds ==
  \A p \in Procs : pc[p] \in {"scan_idx", "scan_dat", "scan_unlock"} => p \in rd[FREE]
\* the record db_nextrec stopped at keeps its key until its data is read
Reading ==
  \A p \in Procs : pc[p] = "scan_dat" =>
    /\ db[p].key # Blank /\ Rec(db[p].idxoff).key = db[p].key
    /\ db[p].fpos = db[p].idxoff + 1

RInv == KInv /\ ScanHolds /\ (Alive => ~torn /\ Whole /\ DataThere /\ Reading)

\* a dead process takes no step, so all are alive only if all have been
LEMMA StaysDead ==
  ASSUME IInv, NEW p \in Procs, Turn(p)
  PROVE  /\ Alive' => Alive /\ pc'[p] # "dead"
         /\ Kill(p) => pc'[p] = "dead"
         /\ pc[p] # "dead"
<1>1. ProcsTyped /\ \A q \in Procs \ {p} : SameFor(q)
  BY AtHome, StepMoves
<1>2. pc[p] # "dead"
  BY DEF Turn, Step, Call, Kill, FindLock, FindHead, FindWalk, FetchDat, UnlockChain, DelLock,
     DelDat, DelFree, DelIdx, DelHead, DelUnlink, DelUnlock, ReadChain, FreeLock, FreeHead,
     FreeWalk, FreeTake, FreeUnlock, OverwriteDat, ReuseIdx, AppendLock, AppendSeek, AppendWrite,
     AppendUnlock, Publish, ScanLock, ScanIdx, ScanDat, ScanUnlock
<1>3. Alive' => Alive /\ pc'[p] # "dead"
  BY <1>1, <1>2 DEF Alive, SameFor
<1> QED
  BY <1>1, <1>2, <1>3 DEF Kill, Goto, ProcsTyped

LEMMA AliveUntorn ==
  ASSUME IInv, ~torn, NEW p \in Procs, Turn(p), Alive'
  PROVE  ~torn' /\ ~Kill(p)
BY StaysDead, TornStays

\* who writes keys: a deletion, the reuse of a record, and an append
LEMMA KeysWritten ==
  ASSUME IInv, NEW p \in Procs, Turn(p), NEW o, IsRec(o)'
  PROVE  \/ IsRec(o) /\ Rec(o)' = Rec(o)
         \/ IsRec(o) /\ Rec(o)'.key = Rec(o).key
         \/ /\ DelIdx(p) /\ pc'[p] = "del_head" /\ o = db[p].idxoff /\ IsRec(o) /\ Rec(o)'.key = Blank
         \/ /\ ReuseIdx(p) /\ pc'[p] = "publish" /\ o = db[p].idxoff /\ IsRec(o)
            /\ db'[p].idxoff = o /\ Rec(o)'.key = req[p].key /\ Rec(o)'.datoff = db[p].datoff
         \/ /\ AppendWrite(p) /\ pc[p] = "idx_write" /\ pc'[p] = "idx_unlock" /\ o = IdxEnd + 1
            /\ db'[p].idxoff = o /\ Rec(o)'.key = req[p].key /\ Rec(o)'.datoff = db[p].datoff
<1>1. /\ ProcsTyped /\ FilesTyped /\ db[p] \in Handles /\ Appending(pc[p], db[p])
      /\ Handle(pc[p], req[p], db[p], loc[p])
  BY AtHome DEF Fit
<1>2. rec' = rec => IsRec(o) /\ Rec(o)' = Rec(o)
  BY DEF IsRec, IdxEnd, Rec
<1>3. ASSUME NEW v, NEW r, NEW a, IsRec(a), WriteIdx(a, v, r)
      PROVE  IsRec(o) /\ Rec(o)' = IF o = a THEN r ELSE Rec(o)
  <2>1. rec' = [rec EXCEPT ![a - NHash] = r] /\ IdxEnd' = IdxEnd
    BY <1>1, <1>3, WriteInside
  <2>2. IsRec(o) /\ o - NHash \in DOMAIN rec /\ (o = a <=> o - NHash = a - NHash)
    BY <1>1, <1>3, <2>1, Domains, Constants DEF IsRec
  <2> QED
    BY <2>1, <2>2 DEF Rec
<1>4. CASE DelIdx(p)
  <2>1. /\ pc[p] = "del_idx" /\ pc'[p] = "del_head"
        /\ WriteIdx(db[p].idxoff, loc[p].freeptr, IdxOf(p, Blank))
    BY <1>1, <1>4 DEF DelIdx, Goto, ProcsTyped
  <2>2. IsRec(db[p].idxoff)
    BY <1>1, <2>1 DEF Handle, Describes
  <2>3. IdxOf(p, Blank).key = Blank
    BY DEF IdxOf
  <2> QED
    BY <1>3, <1>4, <2>1, <2>2, <2>3
<1>5. CASE ReuseIdx(p)
  <2>1. /\ pc[p] = "reuse_idx" /\ pc'[p] = "publish" /\ db'[p].idxoff = db[p].idxoff
        /\ WriteIdx(db[p].idxoff, loc[p].cptr, IdxOf(p, req[p].key))
    BY <1>1, <1>5 DEF ReuseIdx, Goto, ProcsTyped, Handles
  <2>2. IsRec(db[p].idxoff)
    BY <1>1, <2>1 DEF Handle, Taken, Describes
  <2>3. IdxOf(p, req[p].key).key = req[p].key /\ IdxOf(p, req[p].key).datoff = db[p].datoff
    BY DEF IdxOf
  <2> QED
    BY <1>3, <1>5, <2>1, <2>2, <2>3
<1>6. CASE AppendWrite(p) /\ pc[p] = "idx_write"
  <2>1. /\ pc'[p] = "idx_unlock" /\ db'[p].idxoff = db[p].idxoff /\ db[p].idxoff = IdxEnd + 1
        /\ WriteIdx(db[p].idxoff, loc[p].cptr, IdxOf(p, req[p].key))
    BY <1>1, <1>6 DEF AppendWrite, Goto, ProcsTyped, Handles, Appending
  <2>2. IdxOf(p, req[p].key).key = req[p].key /\ IdxOf(p, req[p].key).datoff = db[p].datoff
    BY DEF IdxOf
  <2>0. PICK a : a = IdxEnd + 1
    OBVIOUS
  <2>3. /\ Rec(a)' = IdxOf(p, req[p].key) /\ Len(rec') = Len(rec) + 1
        /\ \A i \in 1 .. Len(rec) : rec'[i] = rec[i]
    BY <1>1, <2>0, <2>1, WriteBeyond
  <2>4. CASE o = IdxEnd + 1
    BY <1>6, <2>0, <2>1, <2>2, <2>3, <2>4
  <2>5. CASE o # IdxEnd + 1
    <3>1. IsRec(o) /\ o - NHash \in 1 .. Len(rec)
      <4>1. NHash \in Nat /\ Len(rec) \in Nat
        BY <1>1, Domains, Constants
      <4>2. o \in NHash + 1 .. NHash + Len(rec')
        BY DEF IsRec, First, IdxEnd
      <4>3. o # NHash + Len(rec) + 1
        BY <2>5 DEF IdxEnd
      <4>4. o \in NHash + 1 .. NHash + Len(rec) /\ o - NHash \in 1 .. Len(rec)
        BY <2>3, <4>1, <4>2, <4>3
      <4> QED
        BY <4>4 DEF IsRec, First, IdxEnd
    <3> QED
      BY <2>3, <3>1 DEF Rec
  <2> QED
    BY <2>4, <2>5
<1>7. CASE rec' = rec
  BY <1>2, <1>7
<1>8. \/ DelIdx(p) \/ ReuseIdx(p) \/ (AppendWrite(p) /\ pc[p] = "idx_write")
      \/ FindLock(p) \/ FindHead(p) \/ FindWalk(p) \/ FetchDat(p) \/ UnlockChain(p)
      \/ DelLock(p) \/ DelDat(p) \/ DelFree(p) \/ DelHead(p) \/ DelUnlink(p) \/ DelUnlock(p)
      \/ ReadChain(p) \/ FreeLock(p) \/ FreeHead(p) \/ FreeWalk(p) \/ FreeTake(p) \/ FreeUnlock(p)
      \/ OverwriteDat(p) \/ AppendLock(p) \/ AppendSeek(p) \/ (AppendWrite(p) /\ pc[p] = "dat_write")
      \/ AppendUnlock(p) \/ Publish(p) \/ ScanLock(p) \/ ScanIdx(p) \/ ScanDat(p) \/ ScanUnlock(p)
      \/ Call(p) \/ Kill(p)
  BY DEF Turn, Step, AppendWrite
<1>9. CASE \/ FindLock(p) \/ FindHead(p) \/ FindWalk(p) \/ FetchDat(p) \/ UnlockChain(p)
           \/ DelLock(p) \/ DelDat(p) \/ DelFree(p) \/ DelHead(p) \/ DelUnlink(p) \/ DelUnlock(p)
           \/ ReadChain(p) \/ FreeLock(p) \/ FreeHead(p) \/ FreeWalk(p) \/ FreeTake(p)
           \/ FreeUnlock(p)
  BY <1>7, <1>9 DEF files, Return, FindLock, FindHead, FindWalk, FetchDat, UnlockChain, DelLock,
     DelDat, DelFree, DelHead, DelUnlink, DelUnlock, ReadChain, FreeLock, FreeHead, FreeWalk,
     FreeTake, FreeUnlock
<1>10. CASE \/ OverwriteDat(p) \/ AppendLock(p) \/ AppendSeek(p)
            \/ (AppendWrite(p) /\ pc[p] = "dat_write") \/ AppendUnlock(p) \/ Publish(p)
            \/ ScanLock(p) \/ ScanIdx(p) \/ ScanDat(p) \/ ScanUnlock(p) \/ Call(p) \/ Kill(p)
  BY <1>7, <1>10 DEF files, Return, OverwriteDat, AppendLock, AppendSeek, AppendWrite, AppendUnlock,
     Publish, ScanLock, ScanIdx, ScanDat, ScanUnlock, Call, Kill
<1> QED
  BY <1>4, <1>5, <1>6, <1>8, <1>9, <1>10

\* the action of a process that does not die, at the labels that matter here
LEMMA TurnAt ==
  ASSUME NEW p \in Procs, Turn(p), ~Kill(p)
  PROVE  /\ pc[p] = "idx_unlock" => AppendUnlock(p)
         /\ pc[p] = "publish" => Publish(p)
         /\ pc[p] = "del_dat" => DelDat(p)
         /\ pc[p] = "del_free" => DelFree(p)
         /\ pc[p] = "del_idx" => DelIdx(p)
         /\ pc[p] \in {"over_dat", "reuse_dat"} => OverwriteDat(p)
         /\ pc[p] = "reuse_idx" => ReuseIdx(p)
         /\ pc[p] = "scan_lock" => ScanLock(p)
         /\ pc[p] = "scan_idx" => ScanIdx(p)
         /\ pc[p] = "scan_dat" => ScanDat(p)
         /\ pc[p] = "scan_unlock" => ScanUnlock(p)
         /\ pc[p] = "idle" => Call(p)
BY DEF Turn, Step, Call, FindLock, FindHead, FindWalk, FetchDat, UnlockChain, DelLock,
   DelDat, DelFree, DelIdx, DelHead, DelUnlink, DelUnlock, ReadChain, FreeLock, FreeHead,
   FreeWalk, FreeTake, FreeUnlock, OverwriteDat, ReuseIdx, AppendLock, AppendSeek, AppendWrite,
   AppendUnlock, Publish, ScanLock, ScanIdx, ScanDat, ScanUnlock

LEMMA RecordKeys ==
  ASSUME IInv, NEW o, IsRec(o)
  PROVE  /\ Rec(o).key \in Keys \cup {Blank} /\ KeyAt[o] = Rec(o).key /\ o \in RecordsOf(Nxt)
         /\ Rec(o).datoff \in 1 .. Len(dat) /\ o \in Slots /\ o \in Nat
<1>1. FilesTyped /\ o - NHash \in 1 .. Len(rec) /\ o \in Slots /\ o > NHash
  BY AtHome, Domains, Constants DEF IInv, TypeOK, IsRec
<1>2. rec[o - NHash] \in IdxRecs /\ Slots \subseteq Nat
  BY <1>1, Domains, PointersAreNat
<1>3. o \in RecordsOf(Nxt)
  BY NxtOK
<1> QED
  BY <1>1, <1>2, <1>3, Domains DEF Rec, IdxRecs, KeyAt, IInv, Paired

LEMMA KeyAtThen ==
  ASSUME NEW o, IsRec(o)'
  PROVE  KeyAt'[o] = Rec(o)'.key
<1>1. o \in Slots' /\ o > NHash
  BY Constants DEF IsRec, Slots, First
<1> QED
  BY <1>1 DEF KeyAt

LEMMA HeldMoves ==
  ASSUME IInv, NEW p \in Procs, Turn(p), ~Kill(p), pc'[p] # "dead", pc[p] \in {"idx_unlock", "publish"}
  PROVE  \/ pc'[p] = "publish" /\ db'[p].idxoff = db[p].idxoff
         \/ Publish(p) /\ db[p].idxoff <= PtrMax
<1>1. ProcsTyped
  BY AtHome
<1>2. CASE pc[p] = "idx_unlock"
  BY <1>1, <1>2, TurnAt DEF AppendUnlock, Goto, ProcsTyped
<1>3. CASE pc[p] = "publish"
  BY <1>1, <1>3, TurnAt DEF Publish, Goto, ProcsTyped
<1> QED
  BY <1>2, <1>3

\* what a process does to the record of the key it was called for
LEMMA OwnRecordKept ==
  ASSUME LInv, ~torn, NEW p \in Procs, Turn(p), ~Kill(p), ~torn', pc[p] \in DelLabels \cup StoreLabels,
         NEW o \in RecordAt(req[p].key)
  PROVE  o \in On(Nxt', Hash[req[p].key]) \/ (pc[p] = "del_idx" /\ o = db[p].idxoff)
<1>1. IInv /\ ProcsTyped /\ Placed(Nxt, KeyAt) /\ pc[p] \in KeyLabels
  BY AtHome DEF LInv, Lists, KeyLabels
<1>2. /\ o \in On(Nxt, Hash[req[p].key]) /\ KeyAt[o] = req[p].key
      /\ req[p].key \in Keys /\ Hash[req[p].key] \in 1 .. NHash
  BY <1>1, ChainOf DEF RecordAt, RecordFor
<1>3. CASE pc[p] \in AbsentLabels
  BY <1>2, <1>3, KnowsAt DEF Knows, Inserting
<1>4. CASE pc[p] \in {"del_lock", "del_dat", "over_dat"}
  BY <1>2, <1>4, RecordsKept
<1>5. CASE pc[p] = "del_free"
  <2>1. ptr' = ptr /\ rec' = rec /\ pc'[p] = "del_idx"
    BY <1>1, <1>5, TurnAt DEF DelFree, Goto, ProcsTyped, files
  <2> QED
    BY <1>1, <1>2, <1>5, <2>1, QuietNext DEF TornLabels
<1>6. CASE pc[p] = "del_idx"
  <2>1. db[p].idxoff \in RecordAt(req[p].key)
    BY <1>6, OwnRecord DEF FoundLabels
  <2> QED
    BY <1>1, <1>2, <1>6, <2>1 DEF Placed, RecordAt, RecordFor
<1> QED
  BY <1>3, <1>4, <1>5, <1>6 DEF AbsentLabels, DelLabels, StoreLabels

LEMMA WholeOK ==
  ASSUME KInv, ~torn, Whole, NEW p \in Procs, Turn(p), Alive'
  PROVE  Whole'
<1>1. LInv /\ IInv /\ IInv' /\ LInv' /\ ~torn' /\ ~Kill(p) /\ pc'[p] # "dead" /\ ProcsTyped
  BY AliveUntorn, StaysDead, LTurnOK, AtHome DEF KInv, LInv
<1>2. \A q \in Procs \ {p} : SameFor(q)
  BY <1>1, StepMoves
<1> SUFFICES ASSUME NEW o, IsRec(o)', Rec(o)'.key # Blank
             PROVE  o \in On(Nxt', Hash[Rec(o)'.key]) \/ Holding(o)'
  BY DEF Whole, IsRec
<1>3. CASE pc'[p] \in {"idx_unlock", "publish"} /\ db'[p].idxoff = o
  BY <1>3 DEF Holding
<1>4. CASE IsRec(o) /\ Rec(o)'.key = Rec(o).key
  <2>1. PICK x : x = Rec(o).key
    OBVIOUS
  <2>2. x \in Keys /\ KeyAt[o] = x /\ (o \in On(Nxt, Hash[x]) \/ Holding(o))
    BY <1>1, <1>4, <2>1, RecordKeys DEF Whole, IsRec
  <2>3. CASE o \in On(Nxt, Hash[x])
    <3>1. o \in RecordAt(x)
      BY <2>2, <2>3 DEF RecordAt, RecordFor
    <3>2. CASE x # req[p].key \/ pc[p] \notin DelLabels \cup StoreLabels
      <4>1. RecordFor(Nxt', KeyAt', x) = RecordAt(x)
        BY <1>1, <2>2, <3>2, RecordsKept DEF OthersKept, RecordAt
      <4> QED
        BY <1>4, <2>1, <3>1, <4>1 DEF RecordFor
    <3>3. CASE x = req[p].key /\ pc[p] \in DelLabels \cup StoreLabels
      <4>1. o \in On(Nxt', Hash[x]) \/ (pc[p] = "del_idx" /\ o = db[p].idxoff)
        BY <1>1, <3>1, <3>3, OwnRecordKept
      <4>2. ASSUME pc[p] = "del_idx", o = db[p].idxoff PROVE FALSE
        <5>1. WriteIdx(o, loc[p].freeptr, IdxOf(p, Blank))
          BY <1>1, <4>2, TurnAt DEF DelIdx
        <5>2. rec' = [rec EXCEPT ![o - NHash] = IdxOf(p, Blank)] /\ o - NHash \in DOMAIN rec
          BY <1>1, <1>4, <5>1, WriteInside, Domains DEF IInv, TypeOK
        <5> QED
          BY <5>2 DEF Rec, IdxOf
      <4> QED
        BY <1>4, <2>1, <4>1, <4>2
    <3> QED
      BY <3>2, <3>3
  <2>4. CASE Holding(o)
    <3>1. PICK q \in Procs : pc[q] \in {"idx_unlock", "publish"} /\ db[q].idxoff = o
      BY <2>4 DEF Holding
    <3>2. CASE q # p
      BY <1>2, <3>1, <3>2 DEF SameFor, Holding
    <3>3. CASE q = p /\ Publish(p) /\ db[p].idxoff <= PtrMax
      <4>1. RecordFor(Nxt', KeyAt', req[p].key) = {o}
        BY <1>1, <3>1, <3>3, PublishLists
      <4>2. o \in On(Nxt', Hash[req[p].key]) /\ KeyAt'[o] = req[p].key
        BY <4>1 DEF RecordFor
      <4>3. KeyAt'[o] = Rec(o)'.key
        BY KeyAtThen
      <4> QED
        BY <4>2, <4>3
    <3> QED
      BY <1>1, <1>3, <3>1, <3>2, <3>3, HeldMoves
  <2> QED
    BY <2>2, <2>3, <2>4
<1> QED
  BY <1>1, <1>3, <1>4, KeysWritten

LEMMA DataThereOK ==
  ASSUME KInv, ~torn, DataThere, NEW p \in Procs, Turn(p), Alive'
  PROVE  DataThere'
<1>1. /\ LInv /\ IInv /\ IInv' /\ Grows /\ ~Kill(p) /\ pc'[p] # "dead" /\ ProcsTyped
      /\ FilesTyped /\ FilesOK /\ FilesOK' /\ Filled(pc[p], req[p], db[p], loc[p])
      /\ Request(pc[p], req[p]) /\ Appending(pc[p], db[p])
  BY AliveUntorn, StaysDead, TurnNext, AtHome DEF KInv, LInv, AllFilled, FilesOK, IInv, TypeOK, Fit
<1>2. \A q \in Procs \ {p} : SameFor(q)
  BY <1>1, StepMoves
<1>3. pc[p] \in StoreLabels => req[p].data \in Data /\ req[p].data # Blank
  BY <1>1, ConstantsAssumption DEF Request, Stores
<1> SUFFICES ASSUME NEW o, IsRec(o)', Rec(o)'.key # Blank
             PROVE  dat'[Rec(o)'.datoff].val # Blank \/ Blanking(o)'
  BY DEF DataThere, IsRec
<1>4. CASE AppendWrite(p) /\ pc[p] = "idx_write" /\ Rec(o)'.datoff = db[p].datoff
  <2>1. dat' = dat /\ pc[p] \in StoreLabels
    BY <1>4 DEF AppendWrite, StoreLabels, AppendLabels
  <2> QED
    BY <1>1, <1>3, <1>4, <2>1 DEF Filled, Appends
<1>5. CASE ReuseIdx(p) /\ Rec(o)'.datoff = db[p].datoff
  <2>1. dat' = dat /\ pc[p] \in StoreLabels /\ pc[p] = "reuse_idx"
    BY <1>5 DEF ReuseIdx, StoreLabels
  <2> QED
    BY <1>1, <1>3, <1>5, <2>1 DEF Filled
<1>6. CASE IsRec(o) /\ Rec(o)'.key = Rec(o).key
  <2>1. PICK d : d = Rec(o).datoff
    OBVIOUS
  <2>2. d \in 1 .. Len(dat) /\ Rec(o)'.datoff = d
    BY <1>1, <1>6, <2>1, RecordKeys, GrowsKeeps
  <2>3. CASE Blanking(o)
    <3>1. PICK q \in Procs : pc[q] \in {"del_free", "del_idx"} /\ db[q].idxoff = o
      BY <2>3 DEF Blanking
    <3>2. CASE q # p
      BY <1>2, <3>1, <3>2 DEF SameFor, Blanking
    <3>3. CASE q = p /\ pc[p] = "del_free"
      <4>1. pc'[p] = "del_idx" /\ db'[p].idxoff = o
        <5>1. DelFree(p)
          BY <1>1, <3>3, TurnAt
        <5> QED
          BY <1>1, <3>1, <3>3, <5>1 DEF DelFree, Goto, ProcsTyped, Handles
      <4> QED
        BY <4>1 DEF Blanking
    <3>4. CASE q = p /\ pc[p] = "del_idx"
      <4>1. WriteIdx(o, loc[p].freeptr, IdxOf(p, Blank))
        BY <1>1, <3>1, <3>4, TurnAt DEF DelIdx
      <4>2. rec' = [rec EXCEPT ![o - NHash] = IdxOf(p, Blank)] /\ o - NHash \in DOMAIN rec
        BY <1>1, <1>6, <4>1, WriteInside, Domains
      <4> QED
        BY <4>2 DEF Rec, IdxOf
    <3> QED
      BY <3>1, <3>2, <3>3, <3>4
  <2>4. CASE dat[d].val # Blank
    <3>1. CASE dat'[d] = dat[d]
      BY <2>2, <2>4, <3>1
    <3>2. CASE d = db[p].datoff /\ pc[p] \in {"over_dat", "reuse_dat"}
      <4>1. dat'[d].val = req[p].data
        BY <1>1, <3>2, TurnAt, DatTouched
      <4>2. pc[p] \in StoreLabels
        BY <3>2 DEF StoreLabels
      <4> QED
        BY <1>3, <2>2, <4>1, <4>2
    <3>3. CASE d = db[p].datoff /\ pc[p] = "del_dat"
      <4>1. Describes(db[p])
        BY <1>1, <3>3, OwnRecord DEF FoundLabels
      <4>2. o = db[p].idxoff
        BY <1>1, <1>6, <2>1, <3>3, <4>1, OwnData DEF Describes
      <4>3. pc'[p] = "del_free" /\ db' = db
        BY <1>1, <3>3, TurnAt DEF DelDat, Goto, ProcsTyped
      <4> QED
        BY <4>2, <4>3 DEF Blanking
    <3> QED
      BY <1>1, <2>2, <3>1, <3>2, <3>3, DatTouched DEF Overwrites
  <2> QED
    BY <1>6, <2>1, <2>3, <2>4 DEF DataThere, IsRec
<1> QED
  BY <1>1, <1>4, <1>5, <1>6, KeysWritten

LEMMA ScanHoldsOK ==
  ASSUME IInv, Exclusive, ScanHolds, NEW p \in Procs, Turn(p)
  PROVE  ScanHolds'
<1>1. ProcsTyped /\ LocksTyped /\ FREE \in Locks
  BY AtHome, LockNumbers
<1>2. LockMove(p) /\ \A q \in Procs \ {p} : SameFor(q)
  BY StepMoves
<1>3. ASSUME NEW q \in Procs \ {p}, pc'[q] \in {"scan_idx", "scan_dat", "scan_unlock"} PROVE q \in rd'[FREE]
  BY <1>1, <1>2, <1>3, LocksKeep DEF SameFor, ScanHolds
<1>4. ASSUME pc'[p] \in {"scan_idx", "scan_dat", "scan_unlock"} PROVE p \in rd'[FREE]
  <2>1. \/ ScanLock(p) /\ pc[p] = "scan_lock"
        \/ UNCHANGED locks /\ pc[p] \in {"scan_idx", "scan_dat"}
    BY <1>1, <1>4 DEF Turn, Step, Call, Kill, Goto, ProcsTyped, FindLock, FindHead, NotFound, Found,
       FindWalk, FetchDat, UnlockChain, Return, DelLock, DelDat, DelFree, DelIdx, DelHead, DelUnlink,
       DelUnlock, ReadChain, FreeLock, FreeHead, FreeWalk, FreeTake, FreeUnlock, OverwriteDat,
       ReuseIdx, AppendLock, AppendSeek, AppendWrite, AppendUnlock, Publish, ScanLock, ScanIdx,
       ScanDat, ScanUnlock
  <2> QED
    BY <1>1, <2>1 DEF ScanLock, ReadLock, LocksTyped, locks, ScanHolds
<1> QED
  BY <1>3, <1>4 DEF ScanHolds

\* a record taken off the free list has no key until it is written again
LEMMA ReuseBlank ==
  ASSUME LInv, ~torn, Whole, NEW p \in Procs, pc[p] = "reuse_idx"
  PROVE  Rec(db[p].idxoff).key = Blank
<1> SUFFICES ASSUME NEW o, o = db[p].idxoff, Rec(o).key # Blank PROVE FALSE
  OBVIOUS
<1>1. IInv /\ IsRec(o) /\ MineOf(p) = {o} /\ o \notin Live(Nxt)
  BY OwnRecord DEF LInv, Describes
<1>2. Rec(o).key \in Keys /\ (o \in On(Nxt, Hash[Rec(o).key]) \/ Holding(o))
  BY <1>1, RecordKeys DEF Whole, IsRec
<1>3. ASSUME o \in On(Nxt, Hash[Rec(o).key]) PROVE FALSE
  <2>1. Hash[Rec(o).key] \in Heads /\ PointerFn(Nxt)
    BY <1>1, <1>2, Constants, NxtOK DEF Heads
  <2> QED
    BY <1>1, <1>3, <2>1, LinesLive
<1>4. ASSUME Holding(o) PROVE FALSE
  <2>1. PICK a \in Procs : pc[a] \in {"idx_unlock", "publish"} /\ db[a].idxoff = o
    BY <1>4 DEF Holding
  <2> QED
    BY <1>1, <2>1, OwnRecord, MineApart
<1> QED
  BY <1>2, <1>3, <1>4

LEMMA ReadingOK ==
  ASSUME KInv, ~torn, Whole, Reading, ScanHolds, NEW p \in Procs, Turn(p), Alive'
  PROVE  Reading'
<1>1. /\ LInv /\ IInv /\ ~Kill(p) /\ pc'[p] # "dead" /\ ProcsTyped /\ FilesTyped
      /\ Exclusive /\ FREE \in Locks
  BY AliveUntorn, StaysDead, AtHome, LockNumbers DEF KInv, LInv, Guarded
<1>2. \A q \in Procs \ {p} : SameFor(q)
  BY <1>1, StepMoves
<1>3. ASSUME pc'[p] = "scan_dat"
      PROVE  /\ db'[p].key # Blank /\ rec'[db'[p].idxoff - NHash].key = db'[p].key
             /\ db'[p].fpos = db'[p].idxoff + 1
  <2>1. ScanIdx(p)
    BY <1>1, <1>3 DEF Turn, Step, Call, Goto, ProcsTyped, FindLock, FindHead, NotFound, Found,
       FindWalk, FetchDat, UnlockChain, Return, DelLock, DelDat, DelFree, DelIdx, DelHead, DelUnlink,
       DelUnlock, ReadChain, FreeLock, FreeHead, FreeWalk, FreeTake, FreeUnlock, OverwriteDat,
       ReuseIdx, AppendLock, AppendSeek, AppendWrite, AppendUnlock, Publish, ScanLock,
       ScanDat, ScanUnlock
  <2>2. PICK o : o = db[p].fpos
    OBVIOUS
  <2>3. rec' = rec /\ db'[p] = ReadIdx(p, o) /\ Rec(o).key # Blank /\ db[p] \in Handles
    BY <1>1, <1>3, <2>1, <2>2 DEF ScanIdx, Goto, ProcsTyped, files
  <2> QED
    BY <2>3 DEF ReadIdx, Handles, Rec
<1>4. ASSUME NEW q \in Procs \ {p}, pc'[q] = "scan_dat"
      PROVE  /\ db'[q].key # Blank /\ rec'[db'[q].idxoff - NHash].key = db'[q].key
             /\ db'[q].fpos = db'[q].idxoff + 1
  <2>1. PICK o : o = db[q].idxoff
    OBVIOUS
  <2>2. /\ pc[q] = "scan_dat" /\ db'[q] = db[q] /\ q \in rd[FREE]
        /\ Rec(o).key = db[q].key /\ db[q].key # Blank /\ db[q].fpos = o + 1
    BY <1>2, <1>4, <2>1 DEF SameFor, ScanHolds, Reading
  <2>3. IsRec(o) /\ IsRec(o)'
    <3>1. IsRec(o) /\ IInv' /\ Grows
      BY <1>1, <2>1, <2>2, AtHome, TurnNext DEF Fit, Handle, Describes
    <3> QED
      BY <1>1, <3>1, AtHome, GrowsKeeps DEF IInv, TypeOK, FilesOK
  <2>4. ASSUME pc[p] = "del_idx" PROVE FALSE
    <3>1. p \in wr[FREE]
      BY <1>1, <2>4 DEF LInv, Guarded, HasLocks, FreeHeld
    <3> QED
      BY <1>1, <1>4, <2>2, <3>1 DEF Exclusive
  <2>5. ASSUME pc[p] = "reuse_idx", o = db[p].idxoff PROVE FALSE
    BY <1>1, <2>2, <2>5, ReuseBlank
  <2>6. Rec(o)' = Rec(o) \/ Rec(o)'.key = Rec(o).key
    <3>1. o # IdxEnd + 1
      BY <1>1, <2>3, Domains, Constants DEF IsRec, IdxEnd
    <3>2. /\ DelIdx(p) => pc[p] = "del_idx"
          /\ ReuseIdx(p) => pc[p] = "reuse_idx"
      BY DEF DelIdx, ReuseIdx
    <3> QED
      BY <1>1, <2>3, <2>4, <2>5, <3>1, <3>2, KeysWritten
  <2> QED
    BY <2>1, <2>2, <2>6 DEF Rec
<1> QED
  BY <1>3, <1>4 DEF Reading, Rec

LEMMA RTurnOK ==
  ASSUME RInv, NEW p \in Procs, Turn(p)
  PROVE  RInv'
<1>1. KInv /\ LInv /\ IInv /\ Exclusive /\ ScanHolds
  BY DEF RInv, KInv, LInv, Guarded
<1>2. KInv' /\ ScanHolds'
  BY <1>1, KTurnOK, ScanHoldsOK
<1>3. ASSUME Alive' PROVE ~torn' /\ Whole' /\ DataThere' /\ Reading'
  <2>1. ~torn /\ Whole /\ DataThere /\ Reading
    BY <1>1, <1>3, StaysDead DEF RInv
  <2> QED
    BY <1>1, <1>3, <2>1, AliveUntorn, WholeOK, DataThereOK, ReadingOK
<1> QED
  BY <1>2, <1>3 DEF RInv

-----------------------------------------------------------------------------
(* The files of a preload: every record is on its chain.                     *)

LEMMA SmallestExists ==
  ASSUME NEW n \in Nat, NEW S, S \subseteq 1 .. n, S # {}
  PROVE  \E i \in S : \A j \in S : i <= j
<1> DEFINE T == {n + 1 - i : i \in S}
<1>1. T \subseteq 1 .. n /\ T # {}
  <2>1. \A i \in S : n + 1 - i \in 1 .. n
    OBVIOUS
  <2>2. PICK i : i \in S
    OBVIOUS
  <2>3. n + 1 - i \in T
    BY <2>2
  <2> QED
    BY <2>1, <2>3
<1>2. PICK x \in T : \A y \in T : y <= x
  <2> HIDE DEF T
  <2> QED
    BY <1>1, LargestExists
<1>3. PICK i \in S : x = n + 1 - i
  OBVIOUS
<1>4. ASSUME NEW j \in S PROVE i <= j
  <2>1. n + 1 - j \in T /\ i \in Nat /\ j \in Nat
    OBVIOUS
  <2>2. n + 1 - j <= x
    BY <1>2, <2>1
  <2> QED
    BY <1>3, <2>1, <2>2
<1> QED
  BY <1>4

LEMMA LastBeforeIs ==
  ASSUME NEW s \in Preloads, NEW n \in 0 .. Len(s), NEW c, NEW m \in 1 .. n, Hash[s[m][1]] = c,
         \A j \in 1 .. n : Hash[s[j][1]] = c => j <= m
  PROVE  LastBefore(s, n, c) = NHash + m
<1> DEFINE same == {i \in 1 .. n : Hash[s[i][1]] = c}
<1>1. n \in Nat /\ m \in same /\ same \subseteq 1 .. n /\ \A j \in same : j <= m
  BY PreloadsAssumption
<1>2. PICK i : i = CHOOSE x \in same : \A j \in same : j <= x
  OBVIOUS
<1>3. i \in same /\ \A j \in same : j <= i
  <2> HIDE DEF same
  <2> QED
    BY <1>1, <1>2
<1>4. i = m
  <2>1. i <= m /\ m <= i /\ i \in Nat /\ m \in Nat
    BY <1>1, <1>3
  <2> QED
    BY <2>1
<1>5. same # {} /\ LastBefore(s, n, c) = IF same = {} THEN 0 ELSE NHash + i
  BY <1>1, <1>2 DEF LastBefore
<1> QED
  BY <1>4, <1>5

LEMMA LoadedWhole ==
  ASSUME NEW s \in Preloads, NEW f, f = LoadedPtr(s), NEW i \in 1 .. Len(s)
  PROVE  NHash + i \in On(f, Hash[s[i][1]])
<1>0. PICK c : c = Hash[s[i][1]]
  OBVIOUS
<1>1. /\ Len(s) \in Nat /\ NHash \in Nat /\ NHash >= 1 /\ FREE = 0
      /\ \A j \in 1 .. Len(s) : Hash[s[j][1]] \in 1 .. NHash
  BY PreloadsAssumption, Constants DEF FREE
<1>2. /\ DOMAIN f = 0 .. NHash + Len(s) /\ c \in 1 .. NHash
      /\ f[c] = LastBefore(s, Len(s), c)
      /\ \A j \in 1 .. Len(s) : f[NHash + j] = LastBefore(s, j - 1, Hash[s[j][1]])
  <2>1. DOMAIN f = 0 .. NHash + Len(s) /\ c \in 1 .. NHash
    BY <1>0, <1>1 DEF LoadedPtr
  <2>2. f[c] = LastBefore(s, Len(s), c)
    BY <1>1, <2>1 DEF LoadedPtr
  <2>3. ASSUME NEW j \in 1 .. Len(s) PROVE f[NHash + j] = LastBefore(s, j - 1, Hash[s[j][1]])
    <3>1. /\ NHash + j \in 0 .. NHash + Len(s) /\ NHash + j # 0 /\ ~(NHash + j <= NHash)
          /\ NHash + j - NHash = j
      BY <1>1
    <3> QED
      BY <1>1, <3>1 DEF LoadedPtr
  <2> QED
    BY <2>1, <2>2, <2>3
<1>3. NHash + i \in RecordsOf(f)
  BY <1>1, <1>2 DEF RecordsOf
<1> SUFFICES ASSUME NEW V \in SUBSET RecordsOf(f), Follows(f, c, V), NHash + i \notin V
             PROVE  FALSE
  BY <1>0, <1>3 DEF On
<1> DEFINE same == {j \in 1 .. Len(s) : Hash[s[j][1]] = c}
           bad == {j \in same : NHash + j \notin V}
<1>4. bad \subseteq 1 .. Len(s) /\ bad # {}
  BY <1>0
<1>5. PICK m \in bad : \A j \in bad : j <= m
  <2> HIDE DEF bad, same
  <2> QED
    BY <1>1, <1>4, LargestExists
<1>8. m \in 1 .. Len(s) /\ Hash[s[m][1]] = c /\ NHash + m \notin V
  OBVIOUS
<1> DEFINE later == {j \in same : j > m}
<1>6. CASE later = {}
  <2>1. ASSUME NEW j \in 1 .. Len(s), Hash[s[j][1]] = c PROVE j <= m
    <3>1. ~(j > m)
      BY <1>6, <2>1
    <3> QED
      BY <1>1, <1>8, <3>1
  <2>4. m \in 1 .. Len(s) /\ Len(s) \in 0 .. Len(s)
    BY <1>1, <1>8
  <2>2. LastBefore(s, Len(s), c) = NHash + m
    <3> HIDE DEF later, bad, same
    <3> QED
      BY <1>8, <2>1, <2>4, LastBeforeIs
  <2>3. NHash + m # 0
    BY <1>1
  <2> QED
    BY <1>2, <1>8, <2>2, <2>3 DEF Follows
<1>7. CASE later # {}
  <2>1. later \subseteq 1 .. Len(s)
    OBVIOUS
  <2>2. PICK j \in later : \A x \in later : j <= x
    <3> HIDE DEF later
    <3> QED
      BY <1>1, <1>7, <2>1, SmallestExists
  <2>3. j \in 1 .. Len(s) /\ Hash[s[j][1]] = c /\ j > m /\ NHash + j \in V
    BY <1>1, <1>5, <2>2
  <2>4. m \in 1 .. (j - 1) /\ j - 1 \in 0 .. Len(s)
    BY <1>1, <1>8, <2>3
  <2>5. \A x \in 1 .. (j - 1) : Hash[s[x][1]] = c => x <= m
    BY <1>1, <1>8, <2>2, <2>3
  <2>6. LastBefore(s, j - 1, c) = NHash + m
    <3> DEFINE n == j - 1
    <3>1. /\ n \in 0 .. Len(s) /\ m \in 1 .. n /\ Hash[s[m][1]] = c
          /\ \A x \in 1 .. n : Hash[s[x][1]] = c => x <= m
      BY <1>8, <2>4, <2>5
    <3> HIDE DEF n, later, bad, same
    <3>2. LastBefore(s, n, c) = NHash + m
      BY <3>1, LastBeforeIs, SMTT(30)
    <3> QED
      BY <3>2 DEF n
  <2>7. NHash + m # 0 /\ NHash + j - NHash = j /\ ~(NHash + j <= NHash)
    BY <1>1, <2>3
  <2>8. f[NHash + j] = NHash + m
    BY <1>2, <2>3, <2>6, <2>7
  <2> QED
    BY <1>8, <2>3, <2>7, <2>8 DEF Follows
<1> QED
  BY <1>6, <1>7

LEMMA RInitOK == Init => RInv
<1> SUFFICES ASSUME Init PROVE RInv
  OBVIOUS
<1>1. KInv /\ LInv /\ IInv /\ (\A p \in Procs : pc[p] = "idle") /\ ~torn
  BY KInitOK DEF Init, KInv, LInv
<1>2. PICK s \in Preloads : ptr = LoadedPtr(s) /\ rec = LoadedRec(s) /\ dat = LoadedDat(s)
  BY DEF Init
<1>3. /\ DOMAIN rec = 1 .. Len(s) /\ Len(s) \in Nat /\ Len(rec) = Len(s) /\ NHash \in Nat
      /\ \A i \in 1 .. Len(s) : /\ rec[i].key = s[i][1] /\ rec[i].datoff = i
                                /\ dat[i].val = s[i][2] /\ s[i][2] \in Data
  BY <1>2, PreloadsAssumption, Constants DEF LoadedRec, LoadedDat
<1>4. Nxt = ptr
  <2>1. \A a : NextOf(a) = ptr[a]
    BY <1>1, NextUncut DEF Unlinking, TornLabels
  <2>2. ptr = [a \in Slots |-> ptr[a]]
    BY <1>1, AtHome DEF IInv, TypeOK, FilesTyped
  <2> QED
    BY <2>1, <2>2 DEF Nxt
<1>5. ASSUME NEW o \in First .. IdxEnd
      PROVE  o \in On(Nxt, Hash[Rec(o).key]) /\ dat[Rec(o).datoff].val # Blank
  <2>1. PICK i : i = o - NHash
    OBVIOUS
  <2>2. i \in 1 .. Len(s) /\ o = NHash + i /\ Rec(o).key = s[i][1] /\ Rec(o).datoff = i
    BY <1>3, <2>1 DEF First, IdxEnd, Rec
  <2>3. o \in On(Nxt, Hash[Rec(o).key])
    BY <1>2, <1>4, <2>2, LoadedWhole
  <2> QED
    BY <1>3, <2>2, <2>3, ConstantsAssumption
<1>6. ScanHolds /\ Reading
  BY <1>1 DEF ScanHolds, Reading
<1> QED
  BY <1>1, <1>5, <1>6 DEF RInv, Whole, DataThere

LEMMA RNextOK == RInv /\ [Next]_vars => RInv'
<1> SUFFICES ASSUME RInv, [Next]_vars PROVE RInv'
  OBVIOUS
<1>1. ASSUME NEW p \in Procs, Call(p) \/ Step(p) \/ Kill(p) PROVE RInv'
  BY <1>1, RTurnOK DEF Turn
<1>2. CASE UNCHANGED vars
  <2>1. /\ ptr' = ptr /\ rec' = rec /\ dat' = dat /\ pc' = pc /\ rd' = rd
        /\ req' = req /\ ret' = ret /\ db' = db /\ loc' = loc /\ torn' = torn
    BY <1>2 DEF vars, locks, files
  <2>2. KInv'
    BY <1>2, KNextOK DEF RInv
  <2>3. Nxt' = Nxt
    BY <2>1 DEF Nxt, NextOf, Unlinking, Slots, IdxEnd
  <2>4. (Alive => ~torn /\ Whole /\ DataThere /\ Reading)'
    BY <2>1, <2>3 DEF RInv, Alive, Whole, DataThere, Reading, Holding, Blanking, Rec, First, IdxEnd
  <2>5. ScanHolds'
    BY <2>1 DEF RInv, ScanHolds
  <2> QED
    BY <2>2, <2>4, <2>5 DEF RInv
<1> QED
  BY <1>1, <1>2 DEF Next, Finished

(* While every process lives: when db_nextrec goes on to read the data of a  *)
(* record, that record still has the key it saw and unblanked data, and it   *)
(* is on its chain or about to be put there by the store that wrote it       *)
(* (db.c:843-870; the lock of the free list against _db_dodelete).           *)
THEOREM ScansReadLive == Spec => [](Alive => ScanReadsLive)
<1>1. RInv => (Alive => ScanReadsLive)
  <2> SUFFICES ASSUME RInv, Alive, NEW p \in Procs, pc[p] = "scan_dat", NEW o, o = db[p].idxoff
               PROVE  /\ Rec(o).key = db[p].key
                      /\ dat[db[p].datoff].val # Blank /\ dat[db[p].datoff].len = db[p].datlen
                      /\ o \in Reach(Hash[db[p].key]) \cup UNION {InHand(q) : q \in Procs}
    BY DEF ScanReadsLive
  <2>1. /\ LInv /\ IInv /\ ~torn /\ Whole /\ DataThere /\ Reading /\ p \in rd[FREE]
        /\ Exclusive /\ FREE \in Locks
    BY LockNumbers DEF RInv, KInv, LInv, ScanHolds, Guarded
  <2>2. Describes(db[p])
    BY <2>1, AtHome DEF Fit, Handle
  <2>3. /\ IsRec(o) /\ db[p].datoff = Rec(o).datoff /\ dat[db[p].datoff].len = db[p].datlen
        /\ Rec(o).key = db[p].key /\ db[p].key # Blank /\ Rec(o).key \in Keys
    BY <2>1, <2>2, RecordDescribed, RecordKeys DEF Reading
  <2>4. ~Blanking(o)
    <3> SUFFICES ASSUME NEW q \in Procs, pc[q] \in {"del_free", "del_idx"} PROVE FALSE
      BY DEF Blanking
    <3>1. q \in wr[FREE]
      BY <2>1 DEF LInv, Guarded, HasLocks, FreeHeld
    <3> QED
      BY <2>1, <3>1 DEF Exclusive
  <2>5. dat[Rec(o).datoff].val # Blank /\ (o \in On(Nxt, Hash[db[p].key]) \/ Holding(o))
    BY <2>1, <2>3, <2>4 DEF DataThere, Whole, IsRec
  <2>6. Hash[db[p].key] \in Heads
    BY <2>3, Constants DEF Heads
  <2>7. Holding(o) => o \in UNION {InHand(q) : q \in Procs}
    BY DEF Holding, InHand
  <2> QED
    BY <2>1, <2>3, <2>5, <2>6, <2>7, ReachedOn
<1> QED
  BY <1>1, RInitOK, RNextOK, PTL DEF Spec

-----------------------------------------------------------------------------
(* Scans.  What holds of a scan at every moment, so that the end of the file *)
(* means that it is complete: each key that stayed in place on a slot the    *)
(* scan is past has been returned.                                           *)

\* the scan of p is past slot o
Behind(p, o) == o < IF pc[p] = "scan_dat" THEN db[p].idxoff ELSE db[p].fpos

Unmoved(p) == Keys \ scan[p].moved

Scanning(p) == pc[p] \in ScanLabels \cup {"idle", "dead"}
PastSeen(p) ==
  pc[p] # "dead" =>
    \A k \in Unmoved(p) : \A o \in SlotsOf(k) : Behind(p, o) => k \in scan[p].seen
AtRecord(p) ==
  pc[p] = "scan_dat" =>
    /\ db[p].fpos = db[p].idxoff + 1
    /\ \A k \in Unmoved(p) : db[p].idxoff \in SlotsOf(k) => db[p].key = k
AtEnd(p) ==
  ret[p] = "eof" => \A k \in Unmoved(p) : SlotsOf(k) # {} => k \in scan[p].seen

ScanFits(p) == scan[p].pure => Scanning(p) /\ PastSeen(p) /\ AtRecord(p) /\ AtEnd(p)
CInv == IInv /\ Fitting /\ \A p \in Procs : ScanFits(p)

SlotsAre == \A k \in Keys : \A o \in SlotsOf(k) : IsRec(o) /\ Rec(o).key = k /\ o \in Nat
LEMMA SlotsNow == IInv => SlotsAre
<1> SUFFICES ASSUME IInv, NEW k \in Keys, NEW o \in SlotsOf(k)
             PROVE  IsRec(o) /\ Rec(o).key = k /\ o \in Nat
  BY DEF SlotsAre
<1>1. PointerFn(Nxt) /\ Hash[k] \in Heads /\ \A a : a \in RecordsOf(Nxt) <=> IsRec(a)
  BY NxtOK, Constants DEF Heads
<1>2. o \in On(Nxt, Hash[k]) /\ Rec(o).key = k
  BY <1>1, ReachIsOn DEF SlotsOf
<1>3. IsRec(o)
  BY <1>1, <1>2 DEF On
<1> QED
  BY <1>2, <1>3, RecordKeys

LEMMA SlotsThen == IInv' => SlotsAre'
<1>1. IInv => SlotsAre
  BY SlotsNow
<1> QED
  BY <1>1, PTL

\* a call counts for the process that makes it
LEMMA OwnOps ==
  ASSUME IInv, NEW p \in Procs, Turn(p)
  PROVE  /\ \A q \in Procs \ {p} : ops'[q] = ops[q]
         /\ ops' = ops \/ Call(p)
<1>1. ASSUME Call(p) PROVE \A q \in Procs \ {p} : ops'[q] = ops[q]
  BY <1>1, AtHome DEF Call, ProcsTyped
<1>2. CASE \/ FindLock(p) \/ FindHead(p) \/ FindWalk(p) \/ FetchDat(p) \/ UnlockChain(p)
           \/ DelLock(p) \/ DelDat(p) \/ DelFree(p) \/ DelIdx(p) \/ DelHead(p) \/ DelUnlink(p)
           \/ DelUnlock(p) \/ ReadChain(p) \/ FreeLock(p) \/ FreeHead(p)
  BY <1>2 DEF FindLock, FindHead, FindWalk, FetchDat, UnlockChain, Return, DelLock, DelDat, DelFree,
     DelIdx, DelHead, DelUnlink, DelUnlock, ReadChain, FreeLock, FreeHead
<1>3. CASE \/ FreeWalk(p) \/ FreeTake(p) \/ FreeUnlock(p) \/ OverwriteDat(p) \/ ReuseIdx(p)
           \/ AppendLock(p) \/ AppendSeek(p) \/ AppendWrite(p) \/ AppendUnlock(p) \/ Publish(p)
           \/ ScanLock(p) \/ ScanIdx(p) \/ ScanDat(p) \/ ScanUnlock(p) \/ Kill(p)
  BY <1>3 DEF FreeWalk, FreeTake, FreeUnlock, OverwriteDat, ReuseIdx, AppendLock, AppendSeek,
     AppendWrite, AppendUnlock, Publish, ScanLock, ScanIdx, ScanDat, ScanUnlock, Return, Kill
<1> QED
  BY <1>1, <1>2, <1>3 DEF Turn, Step

LEMMA RewindsToFirst ==
  ASSUME IInv, NEW p \in Procs, Turn(p), Rewinds(p)
  PROVE  db'[p].fpos = First /\ ret'[p] = ret[p] /\ pc[p] = "idle"
<1>1. ProcsTyped /\ Call(p)
  BY AtHome, OwnOps DEF Rewinds
<1> QED
  BY <1>1 DEF Call, Rewinds, Goto, ProcsTyped, Handles

\* the kinds of steps a scanning process takes
StaysPut(p) ==
  /\ pc[p] # "scan_dat" /\ pc'[p] \notin {"scan_dat", "dead"}
  /\ db'[p].fpos = db[p].fpos /\ ret'[p] \in {ret[p], "none"}
Gives(p) == pc'[p] = "dead" /\ ret'[p] = ret[p]
HitsEnd(p) ==
  /\ pc[p] = "scan_idx" /\ pc'[p] = "scan_unlock" /\ ret'[p] = "eof"
  /\ db'[p] = db[p] /\ db[p].fpos > IdxEnd
PassesBlank(p, o) ==
  /\ pc[p] = "scan_idx" /\ pc'[p] = "scan_idx" /\ ret'[p] = ret[p]
  /\ o = db[p].fpos /\ Rec(o).key = Blank /\ db'[p].fpos = o + 1
StopsAt(p, o) ==
  /\ pc[p] = "scan_idx" /\ pc'[p] = "scan_dat" /\ ret'[p] = ret[p]
  /\ o = db[p].fpos /\ db'[p].fpos = o + 1 /\ db'[p].idxoff = o /\ db'[p].key = Rec(o).key
Finishes(p) ==
  /\ pc[p] = "scan_dat" /\ pc'[p] = "scan_unlock" /\ ret'[p] = "ok"
  /\ db'[p].fpos = db[p].fpos

LEMMA OwnScan ==
  ASSUME IInv, NEW p \in Procs, Turn(p), pc[p] \in ScanLabels \cup {"idle", "dead"},
         ~Rewinds(p), pc'[p] # "find_lock"
  PROVE  /\ pc'[p] \in ScanLabels \cup {"idle", "dead"}
         /\ rec' = rec
         /\ \/ StaysPut(p) \/ Gives(p) \/ HitsEnd(p) \/ Finishes(p)
            \/ \E o \in Nat : PassesBlank(p, o) \/ StopsAt(p, o)
<1>1. ProcsTyped /\ pc[p] # "dead" /\ db[p] \in Handles /\ db[p].fpos \in Nat
  BY AtHome, StaysDead DEF Handles
<1>2. CASE Kill(p)
  BY <1>1, <1>2 DEF Kill, Gives, Goto, ProcsTyped, files
<1>3. CASE pc[p] = "idle" /\ ~Kill(p)
  <2>1. Call(p)
    BY <1>3, TurnAt
  <2>2. ops'[p] # ops[p]
    <3>1. ops[p] \in Nat /\ ops'[p] = ops[p] + 1
      BY <1>1, <2>1 DEF Call, ProcsTyped
    <3> QED
      BY <3>1
  <2>3. pc'[p] = "scan_lock" /\ db' = db /\ ret' = ret /\ rec' = rec
    BY <1>1, <1>3, <2>1, <2>2 DEF Call, Rewinds, Goto, ProcsTyped, files
  <2> QED
    BY <1>3, <2>3 DEF StaysPut, ScanLabels
<1>4. CASE pc[p] = "scan_lock" /\ ~Kill(p)
  <2>1. pc'[p] = "scan_idx" /\ db' = db /\ ret' = ret /\ rec' = rec
    BY <1>1, <1>4, TurnAt DEF ScanLock, Goto, ProcsTyped, files
  <2> QED
    BY <1>4, <2>1 DEF StaysPut, ScanLabels
<1>5. CASE pc[p] = "scan_idx" /\ ~Kill(p)
  <2>1. ScanIdx(p)
    BY <1>5, TurnAt
  <2>2. PICK o \in Nat : o = db[p].fpos
    BY <1>1
  <2>3. CASE o > IdxEnd /\ ret' = [ret EXCEPT ![p] = "eof"] /\ Goto(p, "scan_unlock") /\ db' = db /\ rec' = rec
    <3>1. HitsEnd(p)
      BY <1>1, <1>5, <2>2, <2>3 DEF HitsEnd, Goto, ProcsTyped
    <3> QED
      BY <2>3, <3>1 DEF HitsEnd, ScanLabels
  <2>4. CASE /\ db' = [db EXCEPT ![p] = ReadIdx(p, o)] /\ ret' = ret /\ rec' = rec
             /\ Goto(p, IF Rec(o).key = Blank THEN "scan_idx" ELSE "scan_dat")
    <3>1. db'[p] = ReadIdx(p, o)
      BY <1>1, <2>4 DEF ProcsTyped
    <3>2. db'[p].fpos = o + 1 /\ db'[p].idxoff = o /\ db'[p].key = Rec(o).key
      BY <1>1, <3>1 DEF ReadIdx, Handles
    <3>3. PassesBlank(p, o) \/ StopsAt(p, o)
      BY <1>1, <1>5, <2>2, <2>4, <3>2 DEF PassesBlank, StopsAt, Goto, ProcsTyped
    <3> QED
      BY <2>4, <3>3 DEF PassesBlank, StopsAt, ScanLabels
  <2>5. CASE Goto(p, "dead") /\ ret' = ret /\ rec' = rec
    BY <1>1, <2>5 DEF Gives, Goto, ProcsTyped
  <2> QED
    BY <2>1, <2>2, <2>3, <2>4, <2>5 DEF ScanIdx, files
<1>6. CASE pc[p] = "scan_dat" /\ ~Kill(p)
  <2>1. ScanDat(p)
    BY <1>6, TurnAt
  <2>2. Finishes(p) /\ rec' = rec
    BY <1>1, <2>1 DEF ScanDat, Finishes, Goto, ProcsTyped, Handles, files
  <2> QED
    BY <2>2 DEF Finishes, ScanLabels
<1>7. CASE pc[p] = "scan_unlock" /\ ~Kill(p)
  <2>1. ScanUnlock(p)
    BY <1>7, TurnAt
  <2>2. pc'[p] = "idle" /\ db'[p].fpos = db[p].fpos /\ ret'[p] = "none" /\ rec' = rec
    BY <1>1, <2>1 DEF ScanUnlock, Return, Goto, ProcsTyped, Handles, NewHandle, files
  <2> QED
    BY <1>7, <2>2 DEF StaysPut, ScanLabels
<1> QED
  BY <1>1, <1>2, <1>3, <1>4, <1>5, <1>6, <1>7 DEF ScanLabels

LEMMA HistoryIs ==
  ASSUME NEW p \in Procs, scan'[p] = History(p), ~Rewinds(p)
  PROVE  /\ scan'[p].pure => scan[p].pure /\ pc'[p] # "find_lock"
         /\ scan[p].seen \subseteq scan'[p].seen
         /\ Returns(p) => db[p].key \in scan'[p].seen
         /\ \A k \in scan'[p].seen : k \in scan[p].seen \/ (Returns(p) /\ k = db[p].key)
         /\ \A k \in Unmoved(p)' : k \in Unmoved(p) /\ SlotsOf(k)' = SlotsOf(k)
         /\ \A k \in scan'[p].seen \ scan'[p].moved : k \in Keys => k \in Unmoved(p)'
<1>1. /\ scan'[p].seen = scan[p].seen \cup IF Returns(p) THEN {db[p].key} ELSE {}
      /\ scan'[p].moved = scan[p].moved \cup {k \in Keys : SlotsOf(k)' # SlotsOf(k)}
      /\ scan'[p].pure = (scan[p].pure /\ pc'[p] # "find_lock")
  BY DEF History
<1>2. /\ scan'[p].pure => scan[p].pure /\ pc'[p] # "find_lock"
      /\ scan[p].seen \subseteq scan'[p].seen
      /\ Returns(p) => db[p].key \in scan'[p].seen
      /\ \A k \in scan'[p].seen : k \in scan[p].seen \/ (Returns(p) /\ k = db[p].key)
  BY <1>1
<1>3. Unmoved(p)' = Keys \ scan'[p].moved
  BY DEF Unmoved
<1>4. \A k \in Unmoved(p)' : k \in Unmoved(p) /\ SlotsOf(k)' = SlotsOf(k)
  BY <1>1, <1>3 DEF Unmoved
<1> QED
  BY <1>2, <1>3, <1>4

LEMMA FitsStay ==
  ASSUME NEW p \in Procs, ScanFits(p), scan'[p] = History(p), ~Rewinds(p),
         pc'[p] = pc[p], db'[p] = db[p], ret'[p] = ret[p]
  PROVE  ScanFits(p)'
<1> SUFFICES ASSUME scan'[p].pure PROVE Scanning(p)' /\ PastSeen(p)' /\ AtRecord(p)' /\ AtEnd(p)'
  BY DEF ScanFits
<1>1. Scanning(p) /\ PastSeen(p) /\ AtRecord(p) /\ AtEnd(p) /\ scan[p].seen \subseteq scan'[p].seen
  BY HistoryIs DEF ScanFits
<1>2. \A k \in Unmoved(p)' : k \in Unmoved(p) /\ SlotsOf(k)' = SlotsOf(k)
  BY HistoryIs
<1> QED
  BY <1>1, <1>2 DEF Scanning, PastSeen, AtRecord, AtEnd, Behind

\* a rewound scan is past nothing
LEMMA FitsFresh ==
  ASSUME IInv, Fitting, IInv', NEW p \in Procs, Turn(p), scan'[p] = History(p), Rewinds(p)
  PROVE  ScanFits(p)'
<1>1. db'[p].fpos = First /\ ret'[p] = "none" /\ pc'[p] = "idle"
  BY RewindsToFirst DEF Rewinds, Fitting, CallFits, Answered
<1>2. SlotsAre' /\ First \in Nat
  BY SlotsThen, Constants DEF First
<1>3. \A k \in Keys : \A o \in SlotsOf(k)' : ~(o < First)
  BY <1>2 DEF SlotsAre, IsRec
<1>4. Unmoved(p)' \subseteq Keys
  BY DEF Unmoved
<1> QED
  BY <1>1, <1>3, <1>4 DEF ScanFits, Scanning, PastSeen, AtRecord, AtEnd, Behind

LEMMA FitsOwn ==
  ASSUME IInv, IInv', NEW p \in Procs, Turn(p), ScanFits(p), scan'[p] = History(p), ~Rewinds(p)
  PROVE  ScanFits(p)'
<1> SUFFICES ASSUME scan'[p].pure PROVE Scanning(p)' /\ PastSeen(p)' /\ AtRecord(p)' /\ AtEnd(p)'
  BY DEF ScanFits
<1>1. /\ Scanning(p) /\ PastSeen(p) /\ AtRecord(p) /\ AtEnd(p) /\ scan[p].seen \subseteq scan'[p].seen
      /\ pc'[p] # "find_lock" /\ (Returns(p) => db[p].key \in scan'[p].seen) /\ pc[p] # "dead"
  BY HistoryIs, StaysDead DEF ScanFits
<1>2. \A k \in Unmoved(p)' : k \in Unmoved(p) /\ SlotsOf(k)' = SlotsOf(k) /\ k \in Keys
  BY HistoryIs DEF Unmoved
<1>3. SlotsAre /\ db[p].fpos \in Nat /\ db[p].idxoff \in Nat /\ NHash \in Nat /\ IdxEnd \in Nat
  BY SlotsNow, AtHome, Domains, Constants DEF Handles
<1>4. /\ pc'[p] \in ScanLabels \cup {"idle", "dead"}
      /\ \/ StaysPut(p) \/ Gives(p) \/ HitsEnd(p) \/ Finishes(p)
         \/ \E o \in Nat : PassesBlank(p, o) \/ StopsAt(p, o)
  BY <1>1, OwnScan DEF Scanning
<1>5. Scanning(p)'
  BY <1>4 DEF Scanning
<1>6. CASE StaysPut(p)
  <2>1. \A o : Behind(p, o)' <=> Behind(p, o)
    BY <1>6 DEF StaysPut, Behind
  <2>2. PastSeen(p)'
    BY <1>1, <1>2, <2>1 DEF PastSeen
  <2>3. AtRecord(p)' /\ AtEnd(p)'
    BY <1>1, <1>2, <1>6 DEF StaysPut, AtRecord, AtEnd
  <2> QED
    BY <1>5, <2>2, <2>3
<1>7. CASE Gives(p)
  BY <1>1, <1>2, <1>5, <1>7 DEF Gives, PastSeen, AtRecord, AtEnd
<1>8. CASE HitsEnd(p)
  <2>1. \A o : Behind(p, o)' <=> Behind(p, o)
    BY <1>8 DEF HitsEnd, Behind
  <2>2. PastSeen(p)' /\ AtRecord(p)'
    BY <1>1, <1>2, <1>8, <2>1 DEF HitsEnd, PastSeen, AtRecord
  <2>3. ASSUME NEW k \in Unmoved(p)', SlotsOf(k)' # {} PROVE k \in scan'[p].seen
    <3>1. PICK o : o \in SlotsOf(k)
      BY <1>2, <2>3
    <3>2. o <= IdxEnd /\ o \in Nat
      BY <1>2, <1>3, <3>1 DEF SlotsAre, IsRec
    <3>3. Behind(p, o)
      BY <1>3, <1>8, <3>2 DEF HitsEnd, Behind
    <3> QED
      BY <1>1, <1>2, <3>1, <3>3 DEF PastSeen
  <2> QED
    BY <1>5, <2>2, <2>3 DEF AtEnd
<1>9. CASE Finishes(p)
  <2>1. Returns(p)
    BY <1>9 DEF Finishes, Returns
  <2>2. ASSUME NEW k \in Unmoved(p)', NEW o \in SlotsOf(k), Behind(p, o)' PROVE k \in scan'[p].seen
    <3>1. o < db[p].idxoff + 1 /\ o \in Nat
      BY <1>1, <1>2, <1>3, <1>9, <2>2 DEF Finishes, Behind, AtRecord, SlotsAre
    <3>2. CASE o = db[p].idxoff
      BY <1>1, <1>2, <1>9, <2>1, <2>2, <3>2 DEF Finishes, AtRecord
    <3>3. CASE o < db[p].idxoff
      BY <1>1, <1>2, <1>9, <2>2, <3>3 DEF Finishes, Behind, PastSeen
    <3> QED
      BY <1>3, <3>1, <3>2, <3>3
  <2> QED
    BY <1>2, <1>5, <1>9, <2>2 DEF Finishes, PastSeen, AtRecord, AtEnd
<1>10. ASSUME NEW o \in Nat, PassesBlank(p, o) PROVE PastSeen(p)' /\ AtRecord(p)' /\ AtEnd(p)'
  <2>1. ASSUME NEW k \in Unmoved(p)', NEW a \in SlotsOf(k), Behind(p, a)' PROVE k \in scan'[p].seen
    <3>1. a < o + 1 /\ a \in Nat /\ Rec(a).key = k /\ k # Blank
      BY <1>2, <1>3, <1>10, <2>1, Constants DEF PassesBlank, Behind, SlotsAre
    <3>2. a < o
      BY <1>10, <3>1 DEF PassesBlank
    <3> QED
      BY <1>1, <1>2, <1>10, <2>1, <3>2 DEF PassesBlank, Behind, PastSeen
  <2> QED
    BY <1>1, <1>2, <1>10, <2>1 DEF PassesBlank, PastSeen, AtRecord, AtEnd
<1>11. ASSUME NEW o \in Nat, StopsAt(p, o) PROVE PastSeen(p)' /\ AtRecord(p)' /\ AtEnd(p)'
  <2>1. \A a : Behind(p, a)' => Behind(p, a)
    BY <1>11 DEF StopsAt, Behind
  <2>2. PastSeen(p)' /\ AtEnd(p)'
    BY <1>1, <1>2, <1>11, <2>1 DEF StopsAt, PastSeen, AtEnd
  <2>3. \A k \in Unmoved(p)' : o \in SlotsOf(k)' => Rec(o).key = k
    BY <1>2, <1>3 DEF SlotsAre
  <2> QED
    BY <1>11, <2>2, <2>3 DEF StopsAt, AtRecord
<1> QED
  BY <1>4, <1>5, <1>6, <1>7, <1>8, <1>9, <1>10, <1>11

LEMMA CNextOK == CInv /\ [ScanNext]_svars => CInv'
<1> SUFFICES ASSUME CInv, [ScanNext]_svars PROVE CInv'
  OBVIOUS
<1>1. IInv /\ Fitting /\ \A p \in Procs : ScanFits(p)
  BY DEF CInv
<1>2. CASE UNCHANGED svars
  <2>1. UNCHANGED vars /\ scan' = scan
    BY <1>2 DEF svars
  <2>2. /\ ptr' = ptr /\ rec' = rec /\ pc' = pc /\ req' = req /\ ret' = ret /\ db' = db /\ loc' = loc
    BY <2>1 DEF vars, files
  <2>3. IInv'
    BY <1>1, <2>1, NextOK
  <2>4. Fitting'
    BY <1>1, <2>2 DEF Fitting
  <2>5. \A k : SlotsOf(k)' = SlotsOf(k)
    BY <2>2 DEF SlotsOf, Reach, NextOf, Unlinking, Rec, Slots, IdxEnd
  <2>6. \A p \in Procs : ScanFits(p)'
    BY <1>1, <2>1, <2>2, <2>5 DEF ScanFits, Scanning, PastSeen, AtRecord, AtEnd, Behind, Unmoved
  <2> QED
    BY <2>3, <2>4, <2>6 DEF CInv
<1>3. ASSUME NEW q \in Procs, Turn(q), scan' = [p \in Procs |-> History(p)] PROVE CInv'
  <2>1. IInv' /\ Fitting' /\ \A p \in Procs : scan'[p] = History(p)
    BY <1>1, <1>3, TurnNext, FittingOK
  <2>2. ScanFits(q)'
    BY <1>1, <1>3, <2>1, FitsFresh, FitsOwn
  <2>3. ASSUME NEW p \in Procs \ {q} PROVE ScanFits(p)'
    <3>1. SameFor(p) /\ ops'[p] = ops[p] /\ ret'[p] = ret[p]
      BY <1>1, <1>3, StepMoves, OwnOps, OwnCall DEF Fitting
    <3> QED
      BY <1>1, <2>1, <3>1, FitsStay DEF SameFor, Rewinds
  <2> QED
    BY <2>1, <2>2, <2>3 DEF CInv
<1>4. ASSUME UNCHANGED vars, scan' = [p \in Procs |-> History(p)] PROVE CInv'
  <2>1. /\ pc' = pc /\ req' = req /\ ret' = ret /\ db' = db /\ loc' = loc /\ ops' = ops
    BY <1>4 DEF vars, files
  <2>2. IInv' /\ \A p \in Procs : scan'[p] = History(p)
    BY <1>1, <1>4, NextOK
  <2>3. Fitting'
    BY <1>1, <2>1 DEF Fitting
  <2>4. \A p \in Procs : ScanFits(p)'
    BY <1>1, <2>1, <2>2, FitsStay DEF Rewinds
  <2> QED
    BY <2>2, <2>3, <2>4 DEF CInv
<1> QED
  BY <1>2, <1>3, <1>4 DEF ScanNext, Next, Finished, Turn

LEMMA CInitOK == ScanInit => CInv
<1> SUFFICES ASSUME ScanInit PROVE CInv
  OBVIOUS
<1>1. IInv /\ Fitting
  BY InitOK, KInitOK DEF ScanInit, KInv
<1>2. ASSUME NEW p \in Procs PROVE ScanFits(p)
  <2>1. pc[p] = "idle" /\ ret[p] = "none" /\ db[p].fpos = First /\ First \in Nat
    BY Constants DEF ScanInit, Init, NewHandle, First
  <2>2. SlotsAre /\ Unmoved(p) \subseteq Keys
    BY <1>1, SlotsNow DEF Unmoved
  <2>3. \A k \in Unmoved(p) : \A o \in SlotsOf(k) : ~(o < First)
    BY <2>1, <2>2 DEF SlotsAre, IsRec
  <2> QED
    BY <2>1, <2>3 DEF ScanFits, Scanning, PastSeen, AtRecord, AtEnd, Behind
<1> QED
  BY <1>1, <1>2 DEF CInv

(* A scan that runs to the end of the index file without other calls on its  *)
(* handle has returned every key that is in the database and stayed in place *)
(* since the scan began, whatever other processes did to the other keys, and *)
(* whatever processes were killed (db.c:834-896).                            *)
THEOREM ScansComplete == ScanSpec => []ScanComplete
<1>1. CInv => ScanComplete
  <2> SUFFICES ASSUME CInv, NEW p \in Procs, ret[p] = "eof", scan[p].pure, NEW k \in Keys, SlotsOf(k) # {}
               PROVE  k \in scan[p].seen \cup scan[p].moved
    BY DEF ScanComplete
  <2>1. AtEnd(p)
    BY DEF CInv, ScanFits
  <2> QED
    BY <2>1 DEF AtEnd, Unmoved
<1> QED
  BY <1>1, CInitOK, CNextOK, PTL DEF ScanSpec

-----------------------------------------------------------------------------
(* No key is returned twice.  Two records never have one key, and the record *)
(* a key was returned from is one the scan is past, while it keeps the key.  *)

LEMMA KeyOnce ==
  ASSUME LInv, ~torn, Whole, NEW o, NEW a, IsRec(o), IsRec(a),
         Rec(o).key = Rec(a).key, Rec(o).key # Blank
  PROVE  o = a
<1>0. PICK k : k = Rec(o).key
  OBVIOUS
<1>1. /\ IInv /\ k \in Keys /\ Hash[k] \in 1 .. NHash /\ KeyAt[o] = k /\ KeyAt[a] = k
      /\ Placed(Nxt, KeyAt)
      /\ o \in On(Nxt, Hash[k]) \/ Holding(o)
      /\ a \in On(Nxt, Hash[k]) \/ Holding(a)
  BY <1>0, RecordKeys, Constants DEF Whole, IsRec, LInv, Lists
<1>2. ASSUME NEW x, Holding(x), KeyAt[x] = k
      PROVE  \E q \in Procs : /\ pc[q] \in {"idx_unlock", "publish"} /\ db[q].idxoff = x
                              /\ req[q].key = k /\ req[q].op # "fetch" /\ pc[q] \in ChainLabels
                              /\ \A y \in On(Nxt, Hash[k]) : KeyAt[y] # k
  <2>1. PICK q \in Procs : pc[q] \in {"idx_unlock", "publish"} /\ db[q].idxoff = x
    BY <1>2 DEF Holding
  <2>2. /\ KeyAt[x] = req[q].key
        /\ \A y \in On(Nxt, Hash[req[q].key]) : KeyAt[y] # req[q].key
    BY <2>1, KnowsAt DEF Knows, Inserting
  <2>3. HasLocks(q) /\ pc[q] \in DelLabels \cup StoreLabels
    BY <2>1 DEF LInv, Guarded, StoreLabels, AppendLabels
  <2>4. pc[q] \in ChainLabels /\ req[q].op # "fetch"
    BY <1>1, <2>3, WriterOf
  <2> QED
    BY <1>2, <2>1, <2>2, <2>4
<1>3. CASE o \in On(Nxt, Hash[k]) /\ a \in On(Nxt, Hash[k])
  BY <1>1, <1>3 DEF Placed
<1>4. CASE Holding(o) /\ a \in On(Nxt, Hash[k])
  BY <1>1, <1>2, <1>4
<1>5. CASE o \in On(Nxt, Hash[k]) /\ Holding(a)
  BY <1>1, <1>2, <1>5
<1>6. CASE Holding(o) /\ Holding(a)
  <2>1. PICK q \in Procs : db[q].idxoff = o /\ req[q].key = k /\ req[q].op # "fetch" /\ pc[q] \in ChainLabels
    BY <1>1, <1>2, <1>6
  <2>2. PICK r \in Procs : db[r].idxoff = a /\ req[r].key = k /\ pc[r] \in ChainLabels
    BY <1>1, <1>2, <1>6
  <2>3. q = r
    BY <2>1, <2>2, SoleWriter
  <2> QED
    BY <2>1, <2>2, <2>3
<1> QED
  BY <1>1, <1>3, <1>4, <1>5, <1>6

PastRecord(p, k) == \E o \in Nat : IsRec(o) /\ Rec(o).key = k /\ Behind(p, o)
SeenPast(p) ==
  scan[p].pure => \A k \in scan[p].seen \ scan[p].moved : k \in Keys /\ PastRecord(p, k)
OInv == RInv /\ CInv /\ (Alive => \A p \in Procs : SeenPast(p))

\* a record keeps its key as long as the key keeps its slots
LEMMA RecordStays ==
  ASSUME LInv, ~torn, Whole, NEW q \in Procs, Turn(q), NEW o, IsRec(o), NEW k \in Keys,
         Rec(o).key = k, SlotsOf(k)' = SlotsOf(k)
  PROVE  IsRec(o)' /\ Rec(o)'.key = k
<1>1. IInv /\ IInv' /\ Grows /\ FilesOK /\ FilesOK' /\ FilesTyped /\ k # Blank
  BY TurnNext, AtHome, Constants DEF LInv, IInv, TypeOK, FilesOK
<1>2. IsRec(o)' /\ o # IdxEnd + 1
  <2>1. IsRec(o)'
    BY <1>1, GrowsKeeps
  <2> QED
    BY <1>1, <2>1, Domains, Constants DEF IsRec, IdxEnd
<1>3. ASSUME DelIdx(q), o = db[q].idxoff PROVE Rec(o)'.key = k
  <2>1. pc[q] = "del_idx"
    BY <1>3 DEF DelIdx
  <2>2. o \in RecordAt(req[q].key)
    BY <1>3, <2>1, OwnRecord DEF FoundLabels
  <2>3. KeyAt[o] = k /\ Hash[k] \in Heads
    BY <1>1, RecordKeys, Constants DEF Heads
  <2>4. o \in On(Nxt, Hash[k])
    BY <2>2, <2>3 DEF RecordAt, RecordFor
  <2>5. o \in SlotsOf(k)
    BY <2>3, <2>4, ReachedOn DEF SlotsOf
  <2> QED
    BY <1>1, <2>5, SlotsThen DEF SlotsAre
<1>4. ASSUME ReuseIdx(q), o = db[q].idxoff PROVE FALSE
  BY <1>1, <1>4, ReuseBlank DEF ReuseIdx
<1> QED
  BY <1>1, <1>2, <1>3, <1>4, KeysWritten

\* the scan that moves on stays past what it was past
LEMMA StaysBehind ==
  ASSUME IInv, NEW p \in Procs, Turn(p), pc'[p] # "dead", pc[p] \in ScanLabels \cup {"idle", "dead"},
         AtRecord(p), ~Rewinds(p), pc'[p] # "find_lock"
  PROVE  /\ \A o \in Nat : Behind(p, o) => Behind(p, o)'
         /\ Returns(p) => \A o \in Nat : o = db[p].idxoff => Behind(p, o)'
<1>1. db[p].fpos \in Nat /\ db[p].idxoff \in Nat
  BY AtHome DEF Handles
<1>2. \/ StaysPut(p) \/ Gives(p) \/ HitsEnd(p) \/ Finishes(p)
      \/ \E o \in Nat : PassesBlank(p, o) \/ StopsAt(p, o)
  BY OwnScan
<1>3. CASE StaysPut(p)
  BY <1>3 DEF StaysPut, Behind, Returns
<1>4. CASE HitsEnd(p)
  BY <1>4 DEF HitsEnd, Behind, Returns
<1>5. CASE Finishes(p)
  BY <1>1, <1>5 DEF Finishes, Behind, AtRecord
<1>6. CASE \E o \in Nat : PassesBlank(p, o) \/ StopsAt(p, o)
  BY <1>1, <1>6 DEF PassesBlank, StopsAt, Behind, Returns
<1> QED
  BY <1>2, <1>3, <1>4, <1>5, <1>6 DEF Gives

LEMMA SeenPastOK ==
  ASSUME OInv, NEW q \in Procs, Turn(q), Alive', NEW p \in Procs, scan'[p] = History(p)
  PROVE  SeenPast(p)'
<1>1. /\ KInv /\ LInv /\ IInv /\ Alive /\ ~torn /\ Whole /\ Reading /\ SeenPast(p) /\ ScanFits(p)
      /\ SlotsAre /\ ProcsTyped
  BY StaysDead, AtHome, SlotsNow DEF OInv, RInv, CInv, KInv, LInv
<1>2. pc'[q] # "dead" /\ (p # q => SameFor(p) /\ ops'[p] = ops[p])
  BY <1>1, StaysDead, StepMoves, OwnOps
<1> SUFFICES ASSUME scan'[p].pure, NEW k \in scan'[p].seen \ scan'[p].moved
             PROVE  k \in Keys /\ PastRecord(p, k)'
  BY DEF SeenPast
<1>3. ~Rewinds(p)
  BY DEF History, Fresh
<1>4. /\ scan[p].pure /\ pc'[p] # "find_lock" /\ AtRecord(p) /\ Scanning(p)
      /\ k \in scan[p].seen \/ (Returns(p) /\ k = db[p].key)
      /\ k \in Keys => SlotsOf(k)' = SlotsOf(k) /\ k \notin scan[p].moved
  BY <1>1, <1>3, HistoryIs DEF ScanFits, Unmoved
<1>5. \A o \in Nat : Behind(p, o) => Behind(p, o)'
  <2>1. CASE p # q
    BY <1>2, <2>1 DEF SameFor, Behind
  <2>2. CASE p = q
    BY <1>1, <1>2, <1>3, <1>4, <2>2, StaysBehind DEF Scanning
  <2> QED
    BY <2>1, <2>2
<1>6. CASE k \in scan[p].seen
  <2>1. k \in Keys /\ PastRecord(p, k)
    <3>1. k \notin scan[p].moved
      BY <1>3 DEF History
    <3> QED
      BY <1>1, <1>4, <1>6, <3>1 DEF SeenPast
  <2>2. PICK o \in Nat : IsRec(o) /\ Rec(o).key = k /\ Behind(p, o)
    BY <2>1 DEF PastRecord
  <2>3. IsRec(o)' /\ Rec(o)'.key = k
    BY <1>1, <1>4, <2>1, <2>2, RecordStays
  <2> QED
    BY <1>5, <2>1, <2>2, <2>3 DEF PastRecord
<1>7. CASE Returns(p) /\ k = db[p].key
  <2>1. PICK o : o = db[p].idxoff
    OBVIOUS
  <2>2. /\ pc[p] = "scan_dat" /\ p = q /\ Rec(o).key = k /\ k # Blank /\ o \in Nat /\ k \in Keys
    BY <1>1, <1>2, <1>7, <2>1 DEF Returns, SameFor, Reading, ProcsTyped, Handles
  <2>3. IsRec(o)
    BY <1>1, <2>1, <2>2, AtHome DEF Fit, Handle, Describes
  <2>4. IsRec(o)' /\ Rec(o)'.key = k
    BY <1>1, <1>4, <2>2, <2>3, RecordStays
  <2>5. Behind(p, o)'
    BY <1>1, <1>2, <1>3, <1>4, <1>7, <2>1, <2>2, StaysBehind DEF Scanning
  <2> QED
    BY <2>2, <2>4, <2>5 DEF PastRecord
<1> QED
  BY <1>4, <1>6, <1>7

LEMMA ONextOK == OInv /\ [ScanNext]_svars => OInv'
<1> SUFFICES ASSUME OInv, [ScanNext]_svars PROVE OInv'
  OBVIOUS
<1>1. CInv /\ CInv' /\ RInv /\ IInv
  BY CNextOK DEF OInv, CInv
<1>2. [Next]_vars
  BY DEF ScanNext, svars
<1>3. RInv'
  BY <1>1, <1>2, RNextOK
<1>4. ASSUME NEW q \in Procs, Turn(q), scan' = [p \in Procs |-> History(p)], Alive', NEW p \in Procs
      PROVE  SeenPast(p)'
  BY <1>4, SeenPastOK
<1>5. ASSUME UNCHANGED vars, scan' = scan \/ scan' = [p \in Procs |-> History(p)], Alive', NEW p \in Procs
      PROVE  SeenPast(p)'
  <2>1. /\ ptr' = ptr /\ rec' = rec /\ pc' = pc /\ db' = db /\ loc' = loc /\ ops' = ops
    BY <1>5 DEF vars, files
  <2>2. SeenPast(p)
    BY <1>5, <2>1 DEF OInv, Alive
  <2>3. \A k : PastRecord(p, k)' <=> PastRecord(p, k)
    BY <2>1 DEF PastRecord, Behind, IsRec, IdxEnd, Rec
  <2>4. scan'[p].pure => scan[p].pure /\ scan'[p].seen \ scan'[p].moved \subseteq scan[p].seen \ scan[p].moved
    <3>1. CASE scan' = scan
      BY <3>1
    <3>2. CASE scan' = [r \in Procs |-> History(r)]
      <4>1. scan'[p] = History(p) /\ ~Rewinds(p) /\ ~Returns(p)
        BY <2>1, <3>2 DEF Rewinds, Returns
      <4>2. scan[p].moved \subseteq scan'[p].moved
        BY <4>1 DEF History
      <4> QED
        BY <4>1, <4>2, HistoryIs
    <3> QED
      BY <1>5, <3>1, <3>2
  <2> QED
    BY <2>2, <2>3, <2>4 DEF SeenPast
<1>6. Alive' => \A p \in Procs : SeenPast(p)'
  BY <1>4, <1>5 DEF ScanNext, Next, Finished, Turn, svars
<1> QED
  BY <1>1, <1>3, <1>6 DEF OInv

LEMMA OInitOK == ScanInit => OInv
<1> SUFFICES ASSUME ScanInit PROVE OInv
  OBVIOUS
<1>1. RInv /\ CInv
  BY RInitOK, CInitOK DEF ScanInit
<1>2. \A p \in Procs : SeenPast(p)
  BY DEF ScanInit, Fresh, SeenPast
<1> QED
  BY <1>1, <1>2 DEF OInv

(* While every process lives, a scan returns a key a second time only if the *)
(* key was stored again or moved since the scan began (db.c:834-896).        *)
THEOREM ScansOnce == ScanSpec /\ []Alive => ScanOnce
<1>1. OInv /\ Alive /\ [ScanNext]_svars =>
        [\A p \in Procs : Returns(p) /\ scan[p].pure /\ db[p].key \in scan[p].seen
           => db[p].key \in scan[p].moved]_svars
  <2> SUFFICES ASSUME OInv, Alive, NEW p \in Procs, Returns(p), scan[p].pure, NEW k, k = db[p].key,
                      k \in scan[p].seen, k \notin scan[p].moved
               PROVE  FALSE
    OBVIOUS
  <2>1. LInv /\ IInv /\ ~torn /\ Whole /\ Reading /\ SeenPast(p)
    BY DEF OInv, RInv, KInv, LInv
  <2>2. PICK o \in Nat : IsRec(o) /\ Rec(o).key = k /\ Behind(p, o)
    BY <2>1 DEF SeenPast, PastRecord
  <2>3. PICK a : a = db[p].idxoff
    OBVIOUS
  <2>4. pc[p] = "scan_dat" /\ Rec(a).key = k /\ k # Blank
    BY <2>1, <2>3 DEF Returns, Reading
  <2>5. IsRec(a) /\ a \in Nat
    BY <2>1, <2>3, <2>4, AtHome DEF Fit, Handle, Describes, Handles
  <2>6. o = a
    BY <2>1, <2>2, <2>4, <2>5, KeyOnce
  <2> QED
    BY <2>2, <2>3, <2>4, <2>5, <2>6 DEF Behind
<1> QED
  BY <1>1, OInitOK, ONextOK, PTL DEF ScanSpec, ScanOnce

=============================================================================
