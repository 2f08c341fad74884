---------------------------- MODULE DbChains_proofs ----------------------------
(***************************************************************************)
(* Proofs about Db for any processes, keys, values, hash function, record  *)
(* lengths, workload and number of crashes.  First the type invariant, and *)
(* that the two files are only appended to and overwritten in place.  Then *)
(* the lists of the index file: the hash chains and the free list never    *)
(* meet, and each holds the records that belong there.                     *)
(***************************************************************************)
EXTENDS Db, WellFoundedInduction, FiniteSetTheorems, TLAPS

-----------------------------------------------------------------------------
(* The inductive invariant.                                                  *)

\* each index record describes a data record
Paired ==
  \A i \in 1 .. Len(rec) :
    rec[i].datoff \in 1 .. Len(dat) /\ dat[rec[i].datoff].len = rec[i].datlen

\* the append locks are held from the seek to the unlock, by one process
Holds(p, l, w) ==
  /\ l \in {"dat_seek", "dat_write", "dat_unlock"} => w[DatFile] = {p}
  /\ l \in {"idx_seek", "idx_write", "idx_unlock"} => w[IdxTail] = {p}

(* What a process at label l with request r, handle h and locals v knows.    *)
\* the values taken from pointer fields are pointers still
Pointers(l, h, v) ==
  /\ h.ptrval \in PtrVals /\ h.ptroff \in Slots
  /\ v.off \in PtrVals /\ v.cptr \in PtrVals /\ v.freeptr \in PtrVals /\ v.saveptr \in PtrVals
  /\ v.save \in Slots
  /\ l \in {"find_walk", "free_walk"} => v.off # 0

\* the request, by the label
StoreLabels ==
  {"over_dat", "publish", "reuse_dat", "reuse_idx"} \cup FreeLabels \cup AppendLabels
KeyLabels ==
  {"find_lock", "find_head", "find_walk", "fetch_dat", "unlock"} \cup DelLabels \cup StoreLabels
Request(l, r) ==
  /\ l \in KeyLabels => r \in Keyed \cup Stores
  /\ l \in StoreLabels => r \in Stores
  /\ l \in DelLabels => r \in Stores \/ r.op = "delete"

\* the handle describes the index record idxoff; one off the free list fits the request
Describes(h) ==
  /\ IsRec(h.idxoff)
  /\ h.klen = Rec(h.idxoff).klen
  /\ h.datoff = Rec(h.idxoff).datoff /\ h.datlen = Rec(h.idxoff).datlen
Taken(l, v) ==
  l \in {"free_take", "reuse_dat", "reuse_idx"} \/ (l = "free_unlock" /\ v.off # 0)
Handle(l, r, h, v) ==
  /\ \/ l \in {"fetch_dat", "scan_dat", "del_lock", "del_dat", "del_free", "del_idx", "over_dat"}
     \/ Taken(l, v)
     => Describes(h)
  /\ l \in {"del_head", "idx_unlock", "publish"} => IsRec(h.idxoff)
  /\ l = "over_dat" \/ Taken(l, v) => h.datlen = DatLen[r.data]
  /\ Taken(l, v) => h.klen = KeyLen[r.key]

\* where an append goes, and the data record the new index record is for
Appending(l, h) ==
  /\ l = "dat_write" => h.datoff = Len(dat) + 1
  /\ l = "idx_write" => h.idxoff = IdxEnd + 1
  /\ l \in {"dat_unlock", "idx_lock", "idx_seek", "idx_write"} =>
       h.datoff \in 1 .. Len(dat) /\ dat[h.datoff].len = h.datlen

Fit(l, r, h, v) == Pointers(l, h, v) /\ Request(l, r) /\ Handle(l, r, h, v) /\ Appending(l, h)

IInv ==
  /\ TypeOK /\ Paired
  /\ \A p \in Procs : Holds(p, pc[p], wr) /\ Fit(pc[p], req[p], db[p], loc[p])

-----------------------------------------------------------------------------
(* The file primitives keep the files well formed, and only append to them   *)
(* or overwrite a record with one of its lengths.                            *)

FilesOK == FilesTyped /\ Paired
Grows ==
  /\ Len(rec') >= Len(rec) /\ Len(dat') >= Len(dat)
  /\ \A i \in DOMAIN rec :
       /\ rec'[i].klen = rec[i].klen
       /\ rec'[i].datoff = rec[i].datoff /\ rec'[i].datlen = rec[i].datlen
  /\ \A i \in DOMAIN dat : dat'[i].len = dat[i].len

LEMMA Constants ==
  /\ NHash \in Nat /\ NHash >= 1
  /\ Hash \in [Keys -> 1 .. NHash] /\ KeyLen \in [Keys -> Nat] /\ DatLen \in [Data -> Nat]
  /\ Blank \notin Keys /\ MaxOps \in [Procs -> Nat]
  BY ConstantsAssumption

LEMMA Domains ==
  ASSUME FilesTyped
  PROVE  /\ Len(rec) \in Nat /\ DOMAIN rec = 1 .. Len(rec)
         /\ Len(dat) \in Nat /\ DOMAIN dat = 1 .. Len(dat)
         /\ \A i \in 1 .. Len(rec) : rec[i] \in IdxRecs
         /\ \A i \in 1 .. Len(dat) : dat[i] \in DatRecs
         /\ First = NHash + 1 /\ IdxEnd = NHash + Len(rec)
         /\ Slots = 0 .. NHash + Len(rec)
         /\ \A o \in Slots : ptr[o] \in PtrVals
         /\ PtrVals \subseteq Slots
         /\ \A o \in PtrVals : o # 0 => IsRec(o)
         /\ \A o : IsRec(o) => o - NHash \in 1 .. Len(rec) /\ o \in Slots /\ o \in PtrVals /\ o # 0
<1>1. /\ Len(rec) \in Nat /\ DOMAIN rec = 1 .. Len(rec)
      /\ \A i \in 1 .. Len(rec) : rec[i] \in IdxRecs
  BY DEF FilesTyped
<1>2. /\ Len(dat) \in Nat /\ DOMAIN dat = 1 .. Len(dat)
      /\ \A i \in 1 .. Len(dat) : dat[i] \in DatRecs
  BY DEF FilesTyped
<1>3. \A o \in Slots : ptr[o] \in PtrVals
  BY DEF FilesTyped
<1>4. First = NHash + 1 /\ IdxEnd = NHash + Len(rec) /\ Slots = 0 .. NHash + Len(rec)
  BY DEF First, IdxEnd, Slots
<1>5. PtrVals \subseteq Slots /\ \A o \in PtrVals : o # 0 => IsRec(o)
  BY <1>1, <1>4, Constants DEF PtrVals, IsRec
<1>6. \A o : IsRec(o) => o - NHash \in 1 .. Len(rec) /\ o \in Slots /\ o \in PtrVals /\ o # 0
  BY <1>1, <1>4, Constants DEF PtrVals, IsRec
<1> QED
  BY <1>1, <1>2, <1>3, <1>4, <1>5, <1>6

LEMMA WritePtrOK ==
  ASSUME FilesOK, NEW o \in Slots, NEW v \in PtrVals, WritePtr(o, v), UNCHANGED <<rec, dat>>
  PROVE  FilesOK' /\ Grows
<1>1. Slots' = Slots /\ PtrVals' = PtrVals
  BY DEF Slots, PtrVals, IdxEnd, First
<1>2. ptr' \in [Slots -> PtrVals]
  BY DEF WritePtr, FilesOK, FilesTyped
<1>3. FilesOK'
  BY <1>1, <1>2 DEF FilesOK, FilesTyped, Paired, IdxRecs, DatRecs
<1>4. Len(rec) \in Nat /\ Len(dat) \in Nat
  BY DEF FilesOK, FilesTyped
<1> QED
  BY <1>3, <1>4 DEF Grows

LEMMA WriteIdxOK ==
  ASSUME FilesOK, NEW o \in Nat, NEW v \in PtrVals, NEW r \in IdxRecs,
         WriteIdx(o, v, r), UNCHANGED dat,
         r.datoff \in 1 .. Len(dat), dat[r.datoff].len = r.datlen,
         \/ o = IdxEnd + 1
         \/ IsRec(o) /\ r.klen = Rec(o).klen /\ r.datoff = Rec(o).datoff /\ r.datlen = Rec(o).datlen
  PROVE  /\ FilesOK' /\ Grows /\ IsRec(o)'
         /\ Len(rec') = IF o = IdxEnd + 1 THEN Len(rec) + 1 ELSE Len(rec)
<1> DEFINE n == IF o = IdxEnd + 1 THEN Len(rec) + 1 ELSE Len(rec)
<1>1. /\ Len(rec) \in Nat /\ n \in Nat /\ n >= Len(rec) /\ IdxEnd = NHash + Len(rec)
      /\ NHash \in Nat /\ NHash >= 1 /\ DOMAIN rec = 1 .. Len(rec)
      /\ \A i \in 1 .. Len(rec) : rec[i] \in IdxRecs
  BY Domains, Constants DEF FilesOK
<1>2. (IF o > IdxEnd THEN o ELSE IdxEnd) = NHash + n
  BY <1>1 DEF IsRec
<1>3. o - NHash \in 1 .. n
  BY <1>1 DEF IsRec, First
<1>4. /\ ptr' = [x \in 0 .. NHash + n |-> IF x = o THEN v ELSE ptr[x]]
      /\ rec' = [i \in 1 .. n |-> IF i = o - NHash THEN r ELSE rec[i]]
  <2>1. (NHash + n) - NHash = n
    BY <1>1
  <2> QED
    BY <1>2, <2>1 DEF WriteIdx
<1>5. \A i \in 1 .. n : i # o - NHash => i \in 1 .. Len(rec)
  BY <1>1
<1>6. rec' \in Seq(IdxRecs) /\ Len(rec') = n /\ DOMAIN rec' = 1 .. n
  <2>1. \A i \in 1 .. n : (IF i = o - NHash THEN r ELSE rec[i]) \in IdxRecs
    BY <1>1, <1>5
  <2> QED
    BY <1>4, <2>1, <1>1
<1>7. IdxEnd' = NHash + n /\ Slots' = 0 .. NHash + n /\ First' = First
      /\ PtrVals' = {0} \cup (First .. NHash + n)
  BY <1>6 DEF IdxEnd, Slots, PtrVals, First
<1>8. ptr' \in [Slots' -> PtrVals']
  <2>1. PtrVals \subseteq PtrVals'
    BY <1>1, <1>7 DEF PtrVals, First
  <2>2. \A x \in 0 .. NHash + n : x # o => ptr[x] \in PtrVals
    <3>1. \A x \in 0 .. NHash + n : x # o => x \in Slots
      BY <1>1 DEF Slots
    <3> QED
      BY <3>1 DEF FilesOK, FilesTyped
  <2> QED
    BY <1>4, <1>7, <2>1, <2>2
<1>9. Paired'
  <2> SUFFICES ASSUME NEW i \in 1 .. n
               PROVE  /\ rec'[i].datoff \in 1 .. Len(dat)
                      /\ dat[rec'[i].datoff].len = rec'[i].datlen
    BY <1>6 DEF Paired
  <2>1. CASE i = o - NHash
    BY <1>4, <2>1
  <2>2. CASE i # o - NHash
    BY <1>4, <1>5, <2>2 DEF FilesOK, Paired
  <2> QED
    BY <2>1, <2>2
<1>10. Grows
  <2>1. ASSUME NEW i \in 1 .. Len(rec)
        PROVE  /\ rec'[i].klen = rec[i].klen
               /\ rec'[i].datoff = rec[i].datoff /\ rec'[i].datlen = rec[i].datlen
    <3>1. i \in 1 .. n
      BY <1>1
    <3>2. CASE i = o - NHash
      <4>1. o # IdxEnd + 1
        BY <1>1, <3>2
      <4> QED
        BY <1>4, <3>1, <3>2, <4>1 DEF Rec
    <3>3. CASE i # o - NHash
      BY <1>4, <3>1, <3>3
    <3> QED
      BY <3>2, <3>3
  <2>2. Len(dat) \in Nat
    BY Domains DEF FilesOK
  <2> QED
    BY <1>1, <1>6, <2>1, <2>2 DEF Grows
<1>11. IsRec(o)'
  BY <1>1, <1>3, <1>7 DEF IsRec, First
<1> QED
  BY <1>6, <1>7, <1>8, <1>9, <1>10, <1>11 DEF FilesOK, FilesTyped, IdxRecs, DatRecs

LEMMA WriteDatOK ==
  ASSUME FilesOK, NEW o \in Nat \ {0}, NEW v \in Data \cup {Blank}, NEW n \in Nat,
         WriteDat(o, v, n), UNCHANGED <<ptr, rec>>,
         o = Len(dat) + 1 \/ (o \in 1 .. Len(dat) /\ n = dat[o].len)
  PROVE  /\ FilesOK' /\ Grows /\ o \in 1 .. Len(dat') /\ dat'[o].len = n
         /\ Len(dat') = IF o = Len(dat) + 1 THEN Len(dat) + 1 ELSE Len(dat)
<1> DEFINE m == IF o = Len(dat) + 1 THEN Len(dat) + 1 ELSE Len(dat)
<1> DEFINE r == [val |-> v, len |-> n]
<1>1. /\ Len(dat) \in Nat /\ m \in Nat /\ m >= Len(dat) /\ DOMAIN dat = 1 .. Len(dat)
      /\ \A i \in 1 .. Len(dat) : dat[i] \in DatRecs
  BY Domains DEF FilesOK
<1>2. (IF o > Len(dat) THEN o ELSE Len(dat)) = m /\ o \in 1 .. m
  BY <1>1
<1>3. dat' = [i \in 1 .. m |-> IF i = o THEN r ELSE dat[i]]
  BY <1>2 DEF WriteDat
<1>4. \A i \in 1 .. m : i # o => i \in 1 .. Len(dat)
  BY <1>1
<1>5. dat' \in Seq(DatRecs) /\ Len(dat') = m /\ DOMAIN dat' = 1 .. m
  <2>1. r \in DatRecs
    BY DEF DatRecs
  <2>2. \A i \in 1 .. m : (IF i = o THEN r ELSE dat[i]) \in DatRecs
    BY <1>1, <1>4, <2>1
  <2> QED
    BY <1>3, <2>2, <1>1
<1>6. dat'[o].len = n
  BY <1>2, <1>3
<1>7. \A i \in 1 .. Len(dat) : dat'[i].len = dat[i].len /\ i \in 1 .. m
  <2> SUFFICES ASSUME NEW i \in 1 .. Len(dat) PROVE dat'[i].len = dat[i].len /\ i \in 1 .. m
    OBVIOUS
  <2>1. i \in 1 .. m
    BY <1>1
  <2>2. CASE i = o
    <3>1. o # Len(dat) + 1
      BY <1>1, <2>2
    <3> QED
      BY <1>6, <2>1, <2>2, <3>1
  <2>3. CASE i # o
    BY <1>3, <2>1, <2>3
  <2> QED
    BY <2>1, <2>2, <2>3
<1>8. Paired'
  BY <1>5, <1>7 DEF FilesOK, Paired
<1>9. Slots' = Slots /\ PtrVals' = PtrVals /\ Len(rec) \in Nat
  BY Domains DEF Slots, PtrVals, IdxEnd, First, FilesOK
<1>10. Grows
  BY <1>1, <1>5, <1>7, <1>9 DEF Grows
<1> QED
  BY <1>2, <1>5, <1>6, <1>8, <1>9, <1>10 DEF FilesOK, FilesTyped, IdxRecs, DatRecs

-----------------------------------------------------------------------------
(* What a step of one process leaves to the others.                          *)

\* only an append makes a file longer
NoAppend(q) ==
  /\ pc[q] = "dat_write" => Len(dat') = Len(dat)
  /\ pc[q] = "idx_write" => Len(rec') = Len(rec)
SameFor(q) ==
  pc'[q] = pc[q] /\ req'[q] = req[q] /\ db'[q] = db[q] /\ loc'[q] = loc[q]

LEMMA GrowsKeeps ==
  ASSUME FilesOK, FilesOK', Grows
  PROVE  /\ PtrVals \subseteq PtrVals' /\ Slots \subseteq Slots'
         /\ \A o : IsRec(o) =>
              /\ IsRec(o)' /\ Rec(o)'.klen = Rec(o).klen
              /\ Rec(o)'.datoff = Rec(o).datoff /\ Rec(o)'.datlen = Rec(o).datlen
         /\ \A o \in 1 .. Len(dat) : o \in 1 .. Len(dat') /\ dat'[o].len = dat[o].len
<1>1. /\ Len(rec) \in Nat /\ Len(rec') \in Nat /\ Len(dat) \in Nat /\ Len(dat') \in Nat
      /\ Len(rec') >= Len(rec) /\ Len(dat') >= Len(dat)
      /\ DOMAIN rec = 1 .. Len(rec) /\ DOMAIN dat = 1 .. Len(dat)
  BY DEF FilesOK, FilesTyped, Grows
<1>2. PtrVals \subseteq PtrVals' /\ Slots \subseteq Slots'
  BY <1>1, Constants DEF PtrVals, Slots, IdxEnd, First
<1>3. \A o : IsRec(o) => IsRec(o)' /\ o - NHash \in 1 .. Len(rec)
  BY <1>1, Constants DEF IsRec, IdxEnd, First
<1> QED
  BY <1>1, <1>2, <1>3 DEF Grows, Rec

LEMMA OthersFit ==
  ASSUME FilesOK, FilesOK', Grows, NEW l, NEW r, NEW h, NEW v, Fit(l, r, h, v),
         l = "dat_write" => Len(dat') = Len(dat), l = "idx_write" => Len(rec') = Len(rec)
  PROVE  Fit(l, r, h, v)'
<1>1. Pointers(l, h, v)'
  BY GrowsKeeps DEF Fit, Pointers
<1>2. Request(l, r)'
  BY DEF Fit, Request
<1>3. Describes(h) => Describes(h)'
  BY GrowsKeeps DEF Describes
<1>4. Handle(l, r, h, v)'
  BY <1>3, GrowsKeeps DEF Fit, Handle, Taken
<1>5. Appending(l, h)'
  BY GrowsKeeps DEF Fit, Appending, IdxEnd
<1> QED
  BY <1>1, <1>2, <1>4, <1>5 DEF Fit

OthersHold(p) == \A q \in Procs \ {p} : Holds(q, pc[q], wr')

-----------------------------------------------------------------------------
(* A step of process p that leaves its request alone: to label l, with the   *)
(* handle h and the locals v.                                                *)

Results == {"none", "ok", "absent", "exists", "eof"}
Moves(p, l, h, v) ==
  /\ pc' = [pc EXCEPT ![p] = l] /\ db' = [db EXCEPT ![p] = h] /\ loc' = [loc EXCEPT ![p] = v]
  /\ ret' = ret \/ \E t \in Results : ret' = [ret EXCEPT ![p] = t]
  /\ req' = req /\ ops' = ops

LEMMA MovesOK ==
  ASSUME ProcsTyped, NEW p \in Procs, NEW l \in Labels, NEW h \in Handles, NEW v \in Locals,
         Moves(p, l, h, v)
  PROVE  /\ ProcsTyped' /\ \A q \in Procs \ {p} : SameFor(q)
         /\ pc'[p] = l /\ req'[p] = req[p] /\ db'[p] = h /\ loc'[p] = v
<1>1. /\ pc' \in [Procs -> Labels] /\ db' \in [Procs -> Handles] /\ loc' \in [Procs -> Locals]
      /\ ret' \in [Procs -> Results]
  BY DEF ProcsTyped, Moves, Results
<1>2. \A q \in Procs \ {p} : SameFor(q)
  BY DEF ProcsTyped, Moves, SameFor
<1> QED
  BY <1>1, <1>2 DEF ProcsTyped, Moves, Results

LEMMA AtHome ==
  ASSUME IInv, NEW p \in Procs
  PROVE  /\ FilesOK /\ FilesTyped /\ ProcsTyped /\ LocksTyped /\ torn \in BOOLEAN
         /\ db[p] \in Handles /\ loc[p] \in Locals /\ pc[p] \in Labels /\ ret[p] \in Results
         /\ req[p] \in Requests \cup {NoRequest}
         /\ db = [db EXCEPT ![p] = db[p]] /\ loc = [loc EXCEPT ![p] = loc[p]]
         /\ pc = [pc EXCEPT ![p] = pc[p]]
         /\ Holds(p, pc[p], wr) /\ Fit(pc[p], req[p], db[p], loc[p])
  BY DEF IInv, TypeOK, FilesOK, ProcsTyped, Results

LEMMA PointersAreNat == FilesTyped => PtrVals \subseteq Nat /\ Slots \subseteq Nat
  BY Domains, Constants DEF PtrVals, Slots

LEMMA KeyedRequest ==
  ASSUME FilesTyped, NEW p \in Procs, req[p] \in Keyed \cup Stores
  PROVE  Chain(p) \in 1 .. NHash /\ Chain(p) \in Slots /\ ptr[Chain(p)] \in PtrVals
<1>1. req[p].key \in Keys
  BY DEF Keyed, Stores
<1>2. Chain(p) \in 1 .. NHash
  BY <1>1, Constants DEF Chain
<1> QED
  BY <1>2, Domains, Constants

LEMMA SameFiles ==
  ASSUME FilesOK, UNCHANGED files
  PROVE  FilesOK' /\ Grows /\ \A q \in Procs : NoAppend(q)
<1>1. ptr' = ptr /\ rec' = rec /\ dat' = dat
  BY DEF files
<1>2. FilesOK' /\ \A q \in Procs : NoAppend(q)
  BY <1>1 DEF FilesOK, FilesTyped, Paired, Slots, PtrVals, IdxEnd, First, NoAppend, IdxRecs, DatRecs
<1>3. Len(rec) \in Nat /\ Len(dat) \in Nat
  BY DEF FilesOK, FilesTyped
<1> QED
  BY <1>1, <1>2, <1>3 DEF Grows

(* A step of p keeps the invariant if it keeps the files, changes the length *)
(* of no file that another process has just sought the end of, leaves the    *)
(* others their locks, and ends where p's request, handle and locals fit.    *)
LEMMA StepOK ==
  ASSUME IInv, NEW p \in Procs, NEW l \in Labels, NEW h \in Handles, NEW v \in Locals,
         Moves(p, l, h, v), FilesOK', Grows, \A q \in Procs \ {p} : NoAppend(q),
         LocksTyped', OthersHold(p), Holds(p, l, wr'), torn' \in BOOLEAN,
         Fit(l, req[p], h, v)'
  PROVE  IInv' /\ Grows
<1>1. /\ ProcsTyped' /\ \A q \in Procs \ {p} : SameFor(q)
      /\ pc'[p] = l /\ db'[p] = h /\ loc'[p] = v
  BY MovesOK, AtHome
<1>2. ASSUME NEW q \in Procs \ {p}
      PROVE  Holds(q, pc[q], wr)' /\ Fit(pc[q], req[q], db[q], loc[q])'
  <2>1. pc'[q] = pc[q] /\ req'[q] = req[q] /\ db'[q] = db[q] /\ loc'[q] = loc[q]
    BY <1>1 DEF SameFor
  <2>2. FilesOK /\ Fit(pc[q], req[q], db[q], loc[q])
    BY AtHome
  <2>3. PICK lq, rq, hq, vq : lq = pc[q] /\ rq = req[q] /\ hq = db[q] /\ vq = loc[q]
    OBVIOUS
  <2>4. Fit(lq, rq, hq, vq)'
    BY <2>2, <2>3, OthersFit DEF NoAppend
  <2>5. Fit(pc[q], req[q], db[q], loc[q])'
    BY <2>1, <2>3, <2>4
  <2> QED
    BY <2>1, <2>5 DEF OthersHold
<1>3. Holds(p, pc[p], wr)' /\ Fit(pc[p], req[p], db[p], loc[p])'
  BY <1>1
<1> QED
  BY <1>1, <1>2, <1>3 DEF IInv, TypeOK, FilesOK

LEMMA QuietStep ==
  ASSUME IInv, NEW p \in Procs, NEW l \in Labels, NEW h \in Handles, NEW v \in Locals,
         Moves(p, l, h, v), UNCHANGED files, torn' \in BOOLEAN,
         LocksTyped', OthersHold(p), Holds(p, l, wr'), Fit(l, req[p], h, v)
  PROVE  IInv' /\ Grows
<1>1. FilesOK /\ FilesOK' /\ Grows /\ \A q \in Procs : NoAppend(q)
  BY AtHome, SameFiles
<1>2. PICK r : r = req[p]
  OBVIOUS
<1>3. Len(dat') = Len(dat) /\ Len(rec') = Len(rec)
  BY DEF files
<1>4. Fit(l, r, h, v)'
  BY <1>1, <1>2, <1>3, OthersFit
<1>5. Fit(l, req[p], h, v)'
  BY <1>2, <1>4 DEF Moves
<1> QED
  BY <1>1, <1>5, StepOK

(* The locks of the others survive what a process does with its own.         *)
LEMMA LockNumbers ==
  /\ FREE \in Locks /\ DatFile \in Locks /\ IdxTail \in Locks
  /\ FREE # DatFile /\ FREE # IdxTail /\ DatFile # IdxTail
  /\ \A c \in 1 .. NHash : c \in Locks /\ c # DatFile /\ c # IdxTail
  BY Constants DEF FREE, DatFile, IdxTail, Locks

LEMMA WriteLockOK ==
  ASSUME IInv, NEW p \in Procs, NEW l \in Locks, WriteLock(p, l)
  PROVE  LocksTyped' /\ OthersHold(p) /\ wr'[l] = {p}
<1>1. LocksTyped' /\ wr'[l] = {p} /\ \A m \in Locks : m # l => wr'[m] = wr[m]
  BY DEF IInv, TypeOK, LocksTyped, WriteLock
<1>2. ASSUME NEW q \in Procs \ {p}, NEW m \in Locks, wr[m] = {q} PROVE wr'[m] = {q}
  BY <1>1, <1>2 DEF WriteLock
<1>3. OthersHold(p)
  BY <1>2, LockNumbers DEF OthersHold, IInv, Holds
<1> QED
  BY <1>1, <1>3

LEMMA ReadLockOK ==
  ASSUME IInv, NEW p \in Procs, NEW l \in Locks, ReadLock(p, l)
  PROVE  LocksTyped' /\ OthersHold(p)
  BY DEF IInv, TypeOK, LocksTyped, ReadLock, OthersHold

LEMMA UnlockOK ==
  ASSUME IInv, NEW p \in Procs, NEW l \in Locks, Unlock(p, l)
  PROVE  LocksTyped' /\ OthersHold(p)
<1>1. LocksTyped' /\ \A m \in Locks : wr'[m] = IF m = l THEN wr[m] \ {p} ELSE wr[m]
  BY DEF IInv, TypeOK, LocksTyped, Unlock
<1>2. ASSUME NEW q \in Procs \ {p}, NEW m \in Locks, wr[m] = {q} PROVE wr'[m] = {q}
  BY <1>1, <1>2
<1>3. OthersHold(p)
  BY <1>2, LockNumbers DEF OthersHold, IInv, Holds
<1> QED
  BY <1>1, <1>3

LEMMA ExitOK ==
  ASSUME IInv, NEW p \in Procs, Exit(p)
  PROVE  LocksTyped' /\ OthersHold(p)
<1>1. LocksTyped' /\ \A m \in Locks : wr'[m] = wr[m] \ {p}
  BY DEF IInv, TypeOK, LocksTyped, Exit
<1>2. ASSUME NEW q \in Procs \ {p}, NEW m \in Locks, wr[m] = {q} PROVE wr'[m] = {q}
  BY <1>1, <1>2
<1>3. OthersHold(p)
  BY <1>2, LockNumbers DEF OthersHold, IInv, Holds
<1> QED
  BY <1>1, <1>3

LEMMA NoLockOK ==
  ASSUME IInv, NEW p \in Procs, UNCHANGED locks
  PROVE  LocksTyped' /\ OthersHold(p) /\ wr' = wr
  BY DEF IInv, TypeOK, LocksTyped, locks, OthersHold

-----------------------------------------------------------------------------
(* One lemma for each action.                                                *)

LEMMA FindLockOK == ASSUME IInv, NEW p \in Procs, FindLock(p) PROVE IInv' /\ Grows
<1>1. pc[p] = "find_lock" /\ Moves(p, "find_head", db[p], loc[p]) /\ UNCHANGED files /\ torn' = torn
  BY AtHome DEF FindLock, Goto, Moves
<1>2. Chain(p) \in 1 .. NHash
  BY <1>1, AtHome, KeyedRequest DEF Fit, Request, KeyLabels
<1>3. LocksTyped' /\ OthersHold(p)
  BY <1>2, LockNumbers, WriteLockOK, ReadLockOK DEF FindLock
<1>4. Fit("find_head", req[p], db[p], loc[p])
  BY <1>1, AtHome DEF Fit, Pointers, Request, Handle, Taken, Appending, KeyLabels, StoreLabels,
     DelLabels, FreeLabels, AppendLabels
<1>5. "find_head" \in Labels /\ Holds(p, "find_head", wr')
  BY DEF Labels, Holds
<1> QED
  BY <1>1, <1>3, <1>4, <1>5, AtHome, QuietStep

LEMMA ReadIdxOK ==
  ASSUME IInv, NEW p \in Procs, NEW o, IsRec(o)
  PROVE  /\ ReadIdx(p, o) \in Handles /\ Describes(ReadIdx(p, o))
         /\ ReadIdx(p, o).idxoff = o /\ ReadIdx(p, o).ptrval = ptr[o]
         /\ ReadIdx(p, o).ptroff = db[p].ptroff
         /\ ReadIdx(p, o).klen = Rec(o).klen /\ ReadIdx(p, o).datlen = Rec(o).datlen
         /\ o \in Slots /\ o \in PtrVals /\ o # 0 /\ ptr[o] \in PtrVals
         /\ o \in Nat /\ ptr[o] \in Nat
<1>1. /\ o \in Slots /\ o \in PtrVals /\ o # 0 /\ ptr[o] \in PtrVals /\ Rec(o) \in IdxRecs
      /\ o \in Nat /\ o + 1 \in Nat /\ ptr[o] \in Nat /\ db[p] \in Handles
  BY AtHome, Domains, PointersAreNat DEF Rec
<1>2. PICK n \in Nat : n = ptr[o]
  BY <1>1
<1>3. PICK r \in IdxRecs : r = Rec(o)
  BY <1>1
<1>4. ReadIdx(p, o) = [db[p] EXCEPT !.idxoff = o, !.ptrval = n, !.key = r.key, !.klen = r.klen,
                                    !.datoff = r.datoff, !.datlen = r.datlen, !.fpos = o + 1]
  BY <1>2, <1>3 DEF ReadIdx
<1>5. PICK h : h = ReadIdx(p, o)
  OBVIOUS
<1>6. /\ h \in Handles /\ h.idxoff = o /\ h.ptrval = n /\ h.ptroff = db[p].ptroff
      /\ h.klen = r.klen /\ h.datoff = r.datoff /\ h.datlen = r.datlen
  BY <1>1, <1>4, <1>5, ZenonT(60) DEF Handles, IdxRecs
<1> QED
  BY <1>1, <1>2, <1>3, <1>5, <1>6 DEF Describes

LEMMA FindHeadOK == ASSUME IInv, NEW p \in Procs, FindHead(p) PROVE IInv' /\ Grows
<1>1. pc[p] = "find_head" /\ UNCHANGED files /\ torn' = torn /\ UNCHANGED locks
  BY DEF FindHead
<1>2. req[p] \in Keyed \cup Stores
  BY <1>1, AtHome DEF Fit, Request, KeyLabels
<1>3. PICK o \in PtrVals : o = ptr[Chain(p)]
  BY <1>2, KeyedRequest, AtHome
<1>4. PICK c \in Slots : c = Chain(p)
  BY <1>2, KeyedRequest, AtHome
<1>5. PICK h, v : h = [db[p] EXCEPT !.ptroff = c, !.fpos = Mid] /\ v = [loc[p] EXCEPT !.off = o]
  OBVIOUS
<1>6. h \in Handles /\ v \in Locals
  <2>1. db[p] \in Handles /\ loc[p] \in Locals /\ o \in Nat /\ c \in Nat /\ Mid \in Nat
    BY AtHome, PointersAreNat DEF Mid
  <2> QED
    BY <1>5, <2>1 DEF Handles, Locals
<1>7. PICK l \in {"find_walk", "sto_ptr", "unlock"} :
        Moves(p, l, h, v) /\ (l = "find_walk" => o # 0) /\ (l = "sto_ptr" => req[p] \in Stores)
  BY <1>2, <1>3, <1>4, <1>5 DEF FindHead, NotFound, Moves, Goto, Results, Keyed, Stores
<1>8. Fit(l, req[p], h, v)
  <2>1. Pointers(l, h, v)
    BY <1>3, <1>4, <1>5, <1>7, AtHome DEF Fit, Pointers, Handles, Locals
  <2>2. Request(l, req[p]) /\ Handle(l, req[p], h, v) /\ Appending(l, h)
    BY <1>2, <1>7 DEF Request, Handle, Taken, Appending, KeyLabels, StoreLabels, DelLabels, FreeLabels, AppendLabels
  <2> QED
    BY <2>1, <2>2 DEF Fit
<1>9. l \in Labels /\ Holds(p, l, wr')
  BY DEF Labels, FreeLabels, Holds
<1> QED
  BY <1>1, <1>6, <1>7, <1>8, <1>9, AtHome, NoLockOK, QuietStep

LEMMA FindWalkOK == ASSUME IInv, NEW p \in Procs, FindWalk(p) PROVE IInv' /\ Grows
<1>1. /\ pc[p] = "find_walk" /\ UNCHANGED files /\ torn' = torn /\ UNCHANGED locks
      /\ req[p] \in Keyed \cup Stores
  BY AtHome DEF FindWalk, Fit, Request, KeyLabels
<1>2. PICK o : o = loc[p].off /\ IsRec(o)
  BY <1>1, AtHome, Domains DEF Fit, Pointers
<1>3. PICK k \in BOOLEAN : k = (Rec(o).key = req[p].key)
  OBVIOUS
<1>4. PICK g : g = ReadIdx(p, o)
  OBVIOUS
<1>5. PICK h, v : /\ h = [g EXCEPT !.ptroff = IF k THEN @ ELSE o]
                  /\ v = [loc[p] EXCEPT !.off = IF k THEN o ELSE ptr[o]]
  OBVIOUS
<1>6. /\ h \in Handles /\ h.ptrval \in PtrVals /\ h.ptroff \in Slots
      /\ Describes(h) /\ h.datlen = Rec(o).datlen
  <2>1. /\ g \in Handles /\ Describes(g) /\ g.ptrval \in PtrVals /\ g.ptroff \in Slots
        /\ o \in Nat /\ o \in Slots /\ g.datlen = Rec(o).datlen
    BY <1>2, <1>4, ReadIdxOK, AtHome DEF Fit, Pointers
  <2>2. /\ h \in Handles /\ h.ptrval = g.ptrval /\ h.ptroff \in {g.ptroff, o}
        /\ h.idxoff = g.idxoff /\ h.klen = g.klen /\ h.datoff = g.datoff /\ h.datlen = g.datlen
    BY <1>5, <2>1 DEF Handles
  <2> QED
    BY <2>1, <2>2 DEF Describes
<1>7. /\ v \in Locals /\ v.off = (IF k THEN o ELSE ptr[o]) /\ v.off \in PtrVals /\ v.cptr = loc[p].cptr
      /\ v.freeptr = loc[p].freeptr /\ v.saveptr = loc[p].saveptr /\ v.save = loc[p].save
  <2>1. loc[p] \in Locals /\ o \in Nat /\ ptr[o] \in Nat /\ o \in PtrVals /\ ptr[o] \in PtrVals
    BY <1>2, AtHome, ReadIdxOK
  <2> QED
    BY <1>5, <2>1 DEF Locals
<1>8. PICK l \in {"fetch_dat", "del_lock", "over_dat", "unlock", "sto_ptr", "find_walk"} :
        /\ Moves(p, l, h, v)
        /\ l = "find_walk" => v.off # 0
        /\ l = "del_lock" => req[p] \in Stores \/ req[p].op = "delete"
        /\ l \in {"over_dat", "sto_ptr"} => req[p] \in Stores
        /\ l = "over_dat" => DatLen[req[p].data] = Rec(o).datlen
  <2>1. req[p].op \in {"insert", "replace", "store"} => req[p] \in Stores
    BY <1>1 DEF Keyed, Stores
  <2>2. /\ db' = [db EXCEPT ![p] = h] /\ loc' = [loc EXCEPT ![p] = v] /\ req' = req /\ ops' = ops
    BY <1>2, <1>3, <1>4, <1>5 DEF FindWalk
  <2>3. CASE k
    BY <1>2, <1>3, <2>1, <2>2, <2>3 DEF FindWalk, Found, Moves, Goto, Results
  <2>4. CASE ~k /\ ptr[o] = 0
    BY <1>2, <1>3, <2>1, <2>2, <2>4 DEF FindWalk, NotFound, Moves, Goto, Results
  <2>5. CASE ~k /\ ptr[o] # 0
    <3>1. Moves(p, "find_walk", h, v)
      BY <1>1, <1>2, <1>3, <2>2, <2>5, AtHome DEF FindWalk, Moves
    <3> QED
      BY <1>7, <2>5, <3>1
  <2> QED
    BY <2>3, <2>4, <2>5
<1>9. Fit(l, req[p], h, v)
  <2>1. Pointers(l, h, v)
    BY <1>6, <1>7, <1>8, AtHome DEF Fit, Pointers
  <2>2. Request(l, req[p]) /\ Appending(l, h)
    BY <1>1, <1>8 DEF Request, Appending, KeyLabels, StoreLabels, DelLabels, FreeLabels, AppendLabels
  <2>3. Handle(l, req[p], h, v)
    BY <1>6, <1>8 DEF Handle, Taken
  <2> QED
    BY <2>1, <2>2, <2>3 DEF Fit
<1>10. l \in Labels /\ Holds(p, l, wr')
  BY DEF Labels, DelLabels, FreeLabels, ReuseLabels, Holds
<1> QED
  BY <1>1, <1>6, <1>7, <1>8, <1>9, <1>10, AtHome, NoLockOK, QuietStep

LEMMA FetchDatOK == ASSUME IInv, NEW p \in Procs, FetchDat(p) \/ ScanDat(p) PROVE IInv' /\ Grows
<1>1. PICK l \in {"unlock", "scan_unlock"} :
        /\ UNCHANGED files /\ torn' = torn /\ UNCHANGED locks
        /\ l = "unlock" => pc[p] = "fetch_dat"
        /\ pc[p] \in {"fetch_dat", "scan_dat"}
        /\ Moves(p, l, [db[p] EXCEPT !.buf = dat[db[p].datoff].val], loc[p])
  BY AtHome DEF FetchDat, ScanDat, Moves, Goto, Results
<1>2. PICK h : h = [db[p] EXCEPT !.buf = dat[db[p].datoff].val]
  OBVIOUS
<1>3. dat[db[p].datoff] \in DatRecs
  BY <1>1, AtHome, Domains DEF Fit, Handle, Describes, FilesOK, Paired, Rec
<1>4. h \in Handles /\ h.ptrval = db[p].ptrval /\ h.ptroff = db[p].ptroff
  <2>1. PICK d \in DatRecs : d = dat[db[p].datoff]
    BY <1>3
  <2>2. db[p] \in Handles
    BY AtHome
  <2> QED
    BY <1>2, <2>1, <2>2 DEF Handles, DatRecs
<1>5. Fit(l, req[p], h, loc[p])
  BY <1>1, <1>4, AtHome DEF Fit, Pointers, Request, Handle, Taken, Appending, KeyLabels, StoreLabels,
     DelLabels, FreeLabels, AppendLabels
<1>6. l \in Labels /\ Holds(p, l, wr')
  BY DEF Labels, ScanLabels, Holds
<1> QED
  BY <1>1, <1>2, <1>4, <1>5, <1>6, AtHome, NoLockOK, QuietStep

LEMMA DelLockOK == ASSUME IInv, NEW p \in Procs, DelLock(p) PROVE IInv' /\ Grows
<1>1. /\ pc[p] = "del_lock" /\ Moves(p, "del_dat", db[p], loc[p])
      /\ UNCHANGED files /\ torn' = torn /\ WriteLock(p, FREE)
  BY AtHome DEF DelLock, Goto, Moves
<1>2. Fit("del_dat", req[p], db[p], loc[p])
  BY <1>1, AtHome DEF Fit, Pointers, Request, Handle, Taken, Appending, KeyLabels, StoreLabels,
     DelLabels, FreeLabels, AppendLabels
<1>3. "del_dat" \in Labels /\ Holds(p, "del_dat", wr')
  BY DEF Labels, DelLabels, Holds
<1> QED
  BY <1>1, <1>2, <1>3, AtHome, LockNumbers, WriteLockOK, QuietStep

LEMMA FreeLockOK == ASSUME IInv, NEW p \in Procs, FreeLock(p) PROVE IInv' /\ Grows
<1>1. /\ pc[p] = "free_lock" /\ Moves(p, "free_head", db[p], loc[p])
      /\ UNCHANGED files /\ torn' = torn /\ WriteLock(p, FREE)
  BY AtHome DEF FreeLock, Goto, Moves
<1>2. Fit("free_head", req[p], db[p], loc[p])
  BY <1>1, AtHome DEF Fit, Pointers, Request, Handle, Taken, Appending, KeyLabels, StoreLabels,
     DelLabels, FreeLabels, AppendLabels
<1>3. "free_head" \in Labels /\ Holds(p, "free_head", wr')
  BY DEF Labels, FreeLabels, Holds
<1> QED
  BY <1>1, <1>2, <1>3, AtHome, LockNumbers, WriteLockOK, QuietStep

LEMMA ScanLockOK == ASSUME IInv, NEW p \in Procs, ScanLock(p) PROVE IInv' /\ Grows
<1>1. /\ pc[p] = "scan_lock" /\ Moves(p, "scan_idx", db[p], loc[p])
      /\ UNCHANGED files /\ torn' = torn /\ ReadLock(p, FREE)
  BY AtHome DEF ScanLock, Goto, Moves
<1>2. Fit("scan_idx", req[p], db[p], loc[p])
  BY <1>1, AtHome DEF Fit, Pointers, Request, Handle, Taken, Appending, KeyLabels, StoreLabels,
     DelLabels, FreeLabels, AppendLabels
<1>3. "scan_idx" \in Labels /\ Holds(p, "scan_idx", wr')
  BY DEF Labels, ScanLabels, Holds
<1> QED
  BY <1>1, <1>2, <1>3, AtHome, LockNumbers, ReadLockOK, QuietStep

LEMMA FreeUnlockOK == ASSUME IInv, NEW p \in Procs, FreeUnlock(p) PROVE IInv' /\ Grows
<1>1. PICK l \in {"dat_lock", "reuse_dat"} :
        /\ pc[p] = "free_unlock" /\ Moves(p, l, db[p], loc[p])
        /\ l = "reuse_dat" => loc[p].off # 0
        /\ UNCHANGED files /\ torn' = torn /\ Unlock(p, FREE)
  BY AtHome DEF FreeUnlock, Goto, Moves
<1>2. Fit(l, req[p], db[p], loc[p])
  BY <1>1, AtHome DEF Fit, Pointers, Request, Handle, Taken, Appending, KeyLabels, StoreLabels,
     DelLabels, FreeLabels, AppendLabels
<1>3. l \in Labels /\ Holds(p, l, wr')
  BY DEF Labels, AppendLabels, ReuseLabels, Holds
<1> QED
  BY <1>1, <1>2, <1>3, AtHome, LockNumbers, UnlockOK, QuietStep

LEMMA AppendLockOK == ASSUME IInv, NEW p \in Procs, AppendLock(p) PROVE IInv' /\ Grows
<1>1. PICK l \in {"dat_seek", "idx_seek"}, k \in {DatFile, IdxTail} :
        /\ Moves(p, l, db[p], loc[p])
        /\ \/ pc[p] = "dat_lock" /\ l = "dat_seek" /\ k = DatFile
           \/ pc[p] = "idx_lock" /\ l = "idx_seek" /\ k = IdxTail
        /\ UNCHANGED files /\ torn' = torn /\ WriteLock(p, k)
  BY AtHome DEF AppendLock, Goto, Moves
<1>2. Fit(l, req[p], db[p], loc[p])
  BY <1>1, AtHome DEF Fit, Pointers, Request, Handle, Taken, Appending, KeyLabels, StoreLabels,
     DelLabels, FreeLabels, AppendLabels
<1>3. LocksTyped' /\ OthersHold(p) /\ wr'[k] = {p}
  BY <1>1, LockNumbers, WriteLockOK
<1>4. l \in Labels /\ Holds(p, l, wr')
  BY <1>1, <1>3 DEF Labels, AppendLabels, Holds
<1> QED
  BY <1>1, <1>2, <1>3, <1>4, AtHome, QuietStep

LEMMA AppendUnlockOK == ASSUME IInv, NEW p \in Procs, AppendUnlock(p) PROVE IInv' /\ Grows
<1>1. PICK l \in {"idx_lock", "publish"}, k \in {DatFile, IdxTail} :
        /\ Moves(p, l, db[p], loc[p])
        /\ \/ pc[p] = "dat_unlock" /\ l = "idx_lock"
           \/ pc[p] = "idx_unlock" /\ l = "publish"
        /\ UNCHANGED files /\ torn' = torn /\ Unlock(p, k)
  BY AtHome DEF AppendUnlock, Goto, Moves
<1>2. Fit(l, req[p], db[p], loc[p])
  BY <1>1, AtHome DEF Fit, Pointers, Request, Handle, Taken, Appending, KeyLabels, StoreLabels,
     DelLabels, FreeLabels, AppendLabels
<1>3. l \in Labels /\ Holds(p, l, wr')
  BY DEF Labels, AppendLabels, ReuseLabels, Holds
<1> QED
  BY <1>1, <1>2, <1>3, AtHome, LockNumbers, UnlockOK, QuietStep

LEMMA DelFreeOK == ASSUME IInv, NEW p \in Procs, DelFree(p) PROVE IInv' /\ Grows
<1>1. PICK h, v, f : /\ f = ptr[FREE] /\ h = [db[p] EXCEPT !.fpos = Mid]
                     /\ v = [loc[p] EXCEPT !.freeptr = f, !.saveptr = db[p].ptrval]
  OBVIOUS
<1>2. /\ pc[p] = "del_free" /\ Moves(p, "del_idx", h, v)
      /\ UNCHANGED files /\ torn' = torn /\ UNCHANGED locks
  BY <1>1 DEF DelFree, Goto, Moves
<1>3. f \in PtrVals /\ f \in Nat
  BY <1>1, AtHome, Domains, PointersAreNat, Constants DEF FREE
<1>4. /\ h \in Handles /\ v \in Locals
      /\ h.ptrval = db[p].ptrval /\ h.ptroff = db[p].ptroff /\ h.idxoff = db[p].idxoff
      /\ h.klen = db[p].klen /\ h.datoff = db[p].datoff /\ h.datlen = db[p].datlen
      /\ v.off = loc[p].off /\ v.cptr = loc[p].cptr /\ v.save = loc[p].save
      /\ v.freeptr = f /\ v.saveptr = db[p].ptrval
  <2>1. db[p] \in Handles /\ loc[p] \in Locals
    BY AtHome
  <2> QED
    BY <1>1, <1>3, <2>1 DEF Handles, Locals, Mid
<1>5. Fit("del_idx", req[p], h, v)
  BY <1>2, <1>3, <1>4, AtHome DEF Fit, Pointers, Request, Handle, Describes, Taken, Appending, KeyLabels,
     StoreLabels, DelLabels, FreeLabels, AppendLabels
<1>6. "del_idx" \in Labels /\ Holds(p, "del_idx", wr')
  BY DEF Labels, DelLabels, Holds
<1> QED
  BY <1>2, <1>4, <1>5, <1>6, AtHome, NoLockOK, QuietStep

LEMMA DelUnlockOK == ASSUME IInv, NEW p \in Procs, DelUnlock(p) PROVE IInv' /\ Grows
<1>1. PICK w : w = [loc[p] EXCEPT !.deleted = TRUE]
  OBVIOUS
<1>2. PICK l \in {"unlock", "sto_reread"}, v \in {loc[p], w} :
        /\ pc[p] = "del_unlock" /\ Moves(p, l, db[p], v)
        /\ l = "sto_reread" => req[p].op # "delete"
        /\ UNCHANGED files /\ torn' = torn /\ Unlock(p, FREE)
  <2>1. CASE req[p].op = "delete"
    BY <2>1, AtHome DEF DelUnlock, Goto, Moves, Results
  <2>2. CASE req[p].op # "delete"
    BY <1>1, <2>2, AtHome DEF DelUnlock, Goto, Moves, Results
  <2> QED
    BY <2>1, <2>2
<1>3. /\ v \in Locals /\ v.off = loc[p].off /\ v.cptr = loc[p].cptr /\ v.save = loc[p].save
      /\ v.freeptr = loc[p].freeptr /\ v.saveptr = loc[p].saveptr
  <2>1. loc[p] \in Locals
    BY AtHome
  <2> QED
    BY <1>1, <1>2, <2>1 DEF Locals
<1>4. Fit(l, req[p], db[p], v)
  BY <1>2, <1>3, AtHome DEF Fit, Pointers, Request, Handle, Taken, Appending, KeyLabels,
     StoreLabels, DelLabels, FreeLabels, AppendLabels
<1>5. l \in Labels /\ Holds(p, l, wr')
  BY DEF Labels, AppendLabels, Holds
<1> QED
  BY <1>2, <1>3, <1>4, <1>5, AtHome, LockNumbers, UnlockOK, QuietStep

LEMMA ReadChainOK == ASSUME IInv, NEW p \in Procs, ReadChain(p) PROVE IInv' /\ Grows
<1>1. PICK h, v, c : /\ c = ptr[Chain(p)] /\ h = [db[p] EXCEPT !.fpos = Mid]
                     /\ v = [loc[p] EXCEPT !.cptr = c]
  OBVIOUS
<1>2. PICK l \in {"free_lock", "dat_lock"} :
        /\ pc[p] \in {"sto_ptr", "sto_reread"} /\ Moves(p, l, h, v)
        /\ UNCHANGED files /\ torn' = torn /\ UNCHANGED locks
  BY <1>1 DEF ReadChain, Goto, Moves
<1>3. req[p] \in Stores
  BY <1>2, AtHome DEF Fit, Request, StoreLabels, FreeLabels, AppendLabels
<1>4. c \in PtrVals /\ c \in Nat
  BY <1>1, <1>3, AtHome, KeyedRequest, PointersAreNat
<1>5. /\ h \in Handles /\ v \in Locals
      /\ h.ptrval = db[p].ptrval /\ h.ptroff = db[p].ptroff
      /\ v.off = loc[p].off /\ v.save = loc[p].save
      /\ v.freeptr = loc[p].freeptr /\ v.saveptr = loc[p].saveptr /\ v.cptr = c
  <2>1. db[p] \in Handles /\ loc[p] \in Locals
    BY AtHome
  <2> QED
    BY <1>1, <1>4, <2>1 DEF Handles, Locals, Mid
<1>6. Fit(l, req[p], h, v)
  BY <1>2, <1>3, <1>4, <1>5, AtHome DEF Fit, Pointers, Request, Handle, Taken, Appending, KeyLabels,
     StoreLabels, DelLabels, FreeLabels, AppendLabels
<1>7. l \in Labels /\ Holds(p, l, wr')
  BY DEF Labels, FreeLabels, AppendLabels, Holds
<1> QED
  BY <1>2, <1>5, <1>6, <1>7, AtHome, NoLockOK, QuietStep

LEMMA FreeHeadOK == ASSUME IInv, NEW p \in Procs, FreeHead(p) PROVE IInv' /\ Grows
<1>1. PICK h, v, f : /\ f = ptr[FREE] /\ h = [db[p] EXCEPT !.fpos = Mid]
                     /\ v = [loc[p] EXCEPT !.off = f, !.save = FREE]
  OBVIOUS
<1>2. PICK l \in {"free_unlock", "free_walk"} :
        /\ pc[p] = "free_head" /\ Moves(p, l, h, v) /\ l = (IF f = 0 THEN "free_unlock" ELSE "free_walk")
        /\ UNCHANGED files /\ torn' = torn /\ UNCHANGED locks
  BY <1>1 DEF FreeHead, Goto, Moves
<1>3. f \in PtrVals /\ f \in Nat /\ FREE \in Slots /\ FREE \in Nat
  BY <1>1, AtHome, Domains, PointersAreNat, Constants DEF FREE
<1>4. /\ h \in Handles /\ v \in Locals
      /\ h.ptrval = db[p].ptrval /\ h.ptroff = db[p].ptroff
      /\ v.off = f /\ v.cptr = loc[p].cptr /\ v.save = FREE
      /\ v.freeptr = loc[p].freeptr /\ v.saveptr = loc[p].saveptr
  <2>1. db[p] \in Handles /\ loc[p] \in Locals
    BY AtHome
  <2> QED
    BY <1>1, <1>3, <2>1 DEF Handles, Locals, Mid
<1>5. Fit(l, req[p], h, v)
  BY <1>2, <1>3, <1>4, AtHome DEF Fit, Pointers, Request, Handle, Taken, Appending, KeyLabels,
     StoreLabels, DelLabels, FreeLabels, AppendLabels
<1>6. l \in Labels /\ Holds(p, l, wr')
  BY DEF Labels, FreeLabels, Holds
<1> QED
  BY <1>2, <1>4, <1>5, <1>6, AtHome, NoLockOK, QuietStep

LEMMA FreeWalkOK == ASSUME IInv, NEW p \in Procs, FreeWalk(p) PROVE IInv' /\ Grows
<1>1. pc[p] = "free_walk" /\ UNCHANGED files /\ torn' = torn /\ UNCHANGED locks
  BY DEF FreeWalk
<1>2. PICK o : o = loc[p].off /\ IsRec(o)
  BY <1>1, AtHome, Domains DEF Fit, Pointers
<1>3. PICK k \in BOOLEAN : k = Fits(p, o)
  BY DEF Fits
<1>4. PICK h : h = ReadIdx(p, o)
  OBVIOUS
<1>5. PICK w : w = [loc[p] EXCEPT !.off = ptr[o], !.save = o]
  OBVIOUS
<1>6. PICK l \in {"free_take", "free_unlock", "free_walk"}, v \in {loc[p], w} :
        /\ Moves(p, l, h, v)
        /\ l = "free_take" => Fits(p, o) /\ v = loc[p]
        /\ l # "free_take" => v = w /\ l = (IF ptr[o] = 0 THEN "free_unlock" ELSE "free_walk")
  <2>1. CASE k
    BY <1>2, <1>3, <1>4, <1>5, <2>1, AtHome DEF FreeWalk, Goto, Moves
  <2>2. CASE ~k
    BY <1>2, <1>3, <1>4, <1>5, <2>2 DEF FreeWalk, Goto, Moves
  <2> QED
    BY <2>1, <2>2
<1>7. /\ h \in Handles /\ Describes(h) /\ h.ptrval \in PtrVals /\ h.ptroff \in Slots
      /\ h.klen = Rec(o).klen /\ h.datlen = Rec(o).datlen
      /\ o \in Slots /\ o \in Nat /\ ptr[o] \in PtrVals /\ ptr[o] \in Nat /\ o # 0
  BY <1>2, <1>4, ReadIdxOK, AtHome DEF Fit, Pointers
<1>8. /\ v \in Locals /\ v.off \in PtrVals /\ v.save \in Slots
      /\ v.cptr = loc[p].cptr /\ v.freeptr = loc[p].freeptr /\ v.saveptr = loc[p].saveptr
      /\ l = "free_unlock" => v.off = 0 
      /\ l = "free_walk" => v.off # 0
  <2>1. loc[p] \in Locals /\ loc[p].save \in Slots /\ loc[p].off \in PtrVals
    BY AtHome DEF Fit, Pointers
  <2>2. /\ w \in Locals /\ w.off = ptr[o] /\ w.save = o
        /\ w.cptr = loc[p].cptr /\ w.freeptr = loc[p].freeptr /\ w.saveptr = loc[p].saveptr
    BY <1>5, <1>7, <2>1 DEF Locals
  <2> QED
    BY <1>6, <1>7, <2>1, <2>2
<1>9. Fit(l, req[p], h, v)
  <2>1. Pointers(l, h, v)
    BY <1>7, <1>8, AtHome DEF Fit, Pointers
  <2>2. Request(l, req[p]) /\ Appending(l, h)
    BY <1>1, AtHome DEF Fit, Request, Appending, KeyLabels, StoreLabels, DelLabels, FreeLabels, AppendLabels
  <2>3. Handle(l, req[p], h, v)
    BY <1>6, <1>7, <1>8 DEF Handle, Taken, Fits
  <2> QED
    BY <2>1, <2>2, <2>3 DEF Fit
<1>10. l \in Labels /\ Holds(p, l, wr')
  BY DEF Labels, FreeLabels, Holds
<1> QED
  BY <1>1, <1>6, <1>7, <1>8, <1>9, <1>10, AtHome, NoLockOK, QuietStep

LEMMA AppendSeekOK == ASSUME IInv, NEW p \in Procs, AppendSeek(p) PROVE IInv' /\ Grows
<1>1. UNCHANGED files /\ torn' = torn /\ UNCHANGED locks
  BY DEF AppendSeek
<1>2. /\ FilesTyped /\ db[p] \in Handles /\ loc[p] \in Locals
      /\ Len(dat) + 1 \in Nat /\ IdxEnd + 1 \in Nat
      /\ loc[p].cptr \in PtrVals /\ loc[p].cptr \in Nat
  <2>1. IdxEnd \in Nat /\ Len(dat) \in Nat /\ loc[p].cptr \in PtrVals
    BY AtHome, Domains, Constants DEF Fit, Pointers
  <2> QED
    BY <2>1, AtHome, PointersAreNat
<1>3. CASE pc[p] = "dat_seek"
  <2>1. req[p] \in Stores /\ DatLen[req[p].data] \in Nat
    BY <1>3, AtHome, Constants DEF Fit, Request, StoreLabels, AppendLabels, Stores
  <2>2. PICK h, m, n : /\ m = Len(dat) + 1 /\ n = DatLen[req[p].data]
                       /\ h = [db[p] EXCEPT !.datoff = m, !.datlen = n]
    OBVIOUS
  <2>3. Moves(p, "dat_write", h, loc[p])
    <3>1. /\ db' = [db EXCEPT ![p].datoff = m, ![p].datlen = n]
          /\ pc' = [pc EXCEPT ![p] = "dat_write"]
          /\ req' = req /\ ret' = ret /\ loc' = loc /\ ops' = ops
      BY <1>3, <2>2 DEF AppendSeek, Goto
    <3>2. db' = [db EXCEPT ![p] = h]
      BY <2>2, <3>1
    <3> QED
      BY <3>1, <3>2, AtHome DEF Moves
  <2>4. /\ h \in Handles /\ h.datoff = Len(dat) + 1 /\ h.ptrval = db[p].ptrval
        /\ h.ptroff = db[p].ptroff
    BY <1>2, <2>1, <2>2 DEF Handles
  <2>5. Fit("dat_write", req[p], h, loc[p])
    BY <1>3, <2>1, <2>4, AtHome DEF Fit, Pointers, Request, Handle, Taken, Appending, KeyLabels,
       StoreLabels, DelLabels, FreeLabels, AppendLabels
  <2>6. Holds(p, "dat_write", wr)
    BY <1>3, AtHome DEF Holds
  <2>7. "dat_write" \in Labels
    BY DEF Labels, AppendLabels
  <2> QED
    BY <1>1, <2>3, <2>4, <2>5, <2>6, <2>7, AtHome, NoLockOK, QuietStep
<1>4. CASE pc[p] = "idx_seek"
  <2>1. req[p] \in Stores
    BY <1>4, AtHome DEF Fit, Request, StoreLabels, AppendLabels
  <2>2. PICK h, n : /\ n = loc[p].cptr
                    /\ h = [db[p] EXCEPT !.idxoff = IdxEnd + 1, !.ptrval = n]
    OBVIOUS
  <2>3. Moves(p, "idx_write", h, loc[p])
    BY <1>4, <2>2, AtHome, ZenonT(60) DEF AppendSeek, Goto, Moves
  <2>4. /\ h \in Handles /\ h.idxoff = IdxEnd + 1 /\ h.ptrval = n
        /\ h.ptroff = db[p].ptroff /\ h.datoff = db[p].datoff /\ h.datlen = db[p].datlen
    BY <1>2, <2>2 DEF Handles
  <2>5. Fit("idx_write", req[p], h, loc[p])
    BY <1>2, <1>4, <2>1, <2>2, <2>4, AtHome DEF Fit, Pointers, Request, Handle, Taken, Appending,
       KeyLabels, StoreLabels, DelLabels, FreeLabels, AppendLabels
  <2>6. Holds(p, "idx_write", wr)
    BY <1>4, AtHome DEF Holds
  <2>7. "idx_write" \in Labels
    BY DEF Labels, AppendLabels
  <2> QED
    BY <1>1, <2>3, <2>4, <2>5, <2>6, <2>7, AtHome, NoLockOK, QuietStep
<1> QED
  BY <1>3, <1>4 DEF AppendSeek

\* a process that exits leaves the files as they are and needs nothing more
LEMMA DeadOK ==
  ASSUME IInv, NEW p \in Procs, Moves(p, "dead", db[p], loc[p]), Exit(p), UNCHANGED files,
         torn' \in BOOLEAN
  PROVE  IInv' /\ Grows
<1>1. Fit("dead", req[p], db[p], loc[p])
  BY AtHome DEF Fit, Pointers, Request, Handle, Taken, Appending, KeyLabels, StoreLabels, DelLabels,
     FreeLabels, AppendLabels
<1>2. "dead" \in Labels /\ Holds(p, "dead", wr')
  BY DEF Labels, Holds
<1> QED
  BY <1>1, <1>2, AtHome, ExitOK, QuietStep

LEMMA KillOK == ASSUME IInv, NEW p \in Procs, Kill(p) PROVE IInv' /\ Grows
<1>1. Moves(p, "dead", db[p], loc[p]) /\ Exit(p) /\ UNCHANGED files
  BY AtHome DEF Kill, Goto, Moves
<1>2. torn' \in BOOLEAN
  BY AtHome DEF Kill
<1> QED
  BY <1>1, <1>2, DeadOK

LEMMA ScanIdxOK == ASSUME IInv, NEW p \in Procs, ScanIdx(p) PROVE IInv' /\ Grows
<1>1. PICK o : o = db[p].fpos
  OBVIOUS
<1>2. pc[p] = "scan_idx" /\ UNCHANGED files /\ torn' = torn
  BY DEF ScanIdx
<1>3. CASE Moves(p, "scan_unlock", db[p], loc[p]) /\ UNCHANGED locks
  <2>1. Fit("scan_unlock", req[p], db[p], loc[p])
    BY AtHome DEF Fit, Pointers, Request, Handle, Taken, Appending, KeyLabels, StoreLabels, DelLabels,
       FreeLabels, AppendLabels
  <2>2. "scan_unlock" \in Labels /\ Holds(p, "scan_unlock", wr')
    BY DEF Labels, ScanLabels, Holds
  <2> QED
    BY <1>2, <1>3, <2>1, <2>2, AtHome, NoLockOK, QuietStep
<1>4. CASE \E l \in {"scan_idx", "scan_dat"} :
             Moves(p, l, ReadIdx(p, o), loc[p]) /\ IsRec(o) /\ UNCHANGED locks
  <2>1. PICK l \in {"scan_idx", "scan_dat"} :
          Moves(p, l, ReadIdx(p, o), loc[p]) /\ IsRec(o) /\ UNCHANGED locks
    BY <1>4
  <2>2. PICK h : h = ReadIdx(p, o)
    OBVIOUS
  <2>3. h \in Handles /\ Describes(h) /\ h.ptrval \in PtrVals /\ h.ptroff \in Slots
    BY <2>1, <2>2, ReadIdxOK, AtHome DEF Fit, Pointers
  <2>4. Fit(l, req[p], h, loc[p])
    BY <2>3, AtHome DEF Fit, Pointers, Request, Handle, Taken, Appending, KeyLabels, StoreLabels,
       DelLabels, FreeLabels, AppendLabels
  <2>5. l \in Labels /\ Holds(p, l, wr')
    BY DEF Labels, ScanLabels, Holds
  <2> QED
    BY <1>2, <2>1, <2>2, <2>3, <2>4, <2>5, AtHome, NoLockOK, QuietStep
<1>5. CASE Moves(p, "dead", db[p], loc[p]) /\ Exit(p)
  BY <1>2, <1>5, AtHome, DeadOK
<1>6. req' = req /\ ops' = ops /\ loc' = loc
  BY DEF ScanIdx
<1>7. CASE /\ ret' = [ret EXCEPT ![p] = "eof"]
           /\ Goto(p, "scan_unlock") /\ UNCHANGED <<locks, db>>
  BY <1>3, <1>6, <1>7, AtHome DEF Goto, Moves, Results
<1>8. CASE /\ IsRec(o) /\ db' = [db EXCEPT ![p] = ReadIdx(p, o)]
           /\ Goto(p, IF Rec(o).key = Blank THEN "scan_idx" ELSE "scan_dat")
           /\ UNCHANGED <<locks, ret>>
  BY <1>4, <1>6, <1>8, AtHome DEF Goto, Moves
<1>9. CASE Exit(p) /\ Goto(p, "dead") /\ UNCHANGED <<db, ret>>
  BY <1>5, <1>6, <1>9, AtHome DEF Goto, Moves
<1> QED
  BY <1>1, <1>7, <1>8, <1>9 DEF ScanIdx

\* a step that only moves the file offset in the handle
LEMMA SeekOK ==
  ASSUME IInv, NEW p \in Procs, NEW x \in Nat, NEW h, h = [db[p] EXCEPT !.fpos = x]
  PROVE  /\ h \in Handles /\ h.ptrval = db[p].ptrval /\ h.ptroff = db[p].ptroff
         /\ h.idxoff = db[p].idxoff /\ h.klen = db[p].klen
         /\ h.datoff = db[p].datoff /\ h.datlen = db[p].datlen
<1>1. db[p] \in Handles
  BY AtHome
<1> QED
  BY <1>1 DEF Handles

LEMMA PtrStepOK ==
  ASSUME IInv, NEW p \in Procs, NEW o \in Slots, NEW n \in PtrVals, NEW l \in Labels,
         NEW h \in Handles, NEW v \in Locals, WritePtr(o, n), UNCHANGED <<rec, dat>>,
         Moves(p, l, h, v), UNCHANGED locks, torn' = torn, Holds(p, l, wr), Fit(l, req[p], h, v)
  PROVE  IInv' /\ Grows
<1>1. FilesOK /\ FilesOK' /\ Grows /\ rec' = rec /\ dat' = dat
  BY AtHome, WritePtrOK
<1>2. \A q \in Procs : NoAppend(q)
  BY <1>1 DEF NoAppend
<1>3. PICK r : r = req[p]
  OBVIOUS
<1>4. Fit(l, r, h, v)'
  BY <1>1, <1>3, OthersFit
<1>5. Fit(l, req[p], h, v)'
  BY <1>3, <1>4 DEF Moves
<1>6. torn' \in BOOLEAN
  BY AtHome
<1> QED
  BY <1>1, <1>2, <1>5, <1>6, NoLockOK, StepOK

LEMMA DelHeadOK == ASSUME IInv, NEW p \in Procs, DelHead(p) PROVE IInv' /\ Grows
<1>1. PICK h, o : h = [db[p] EXCEPT !.fpos = Mid] /\ o = db[p].idxoff
  OBVIOUS
<1>2. /\ pc[p] = "del_head" /\ Moves(p, "del_unlink", h, loc[p]) /\ WritePtr(FREE, o)
      /\ UNCHANGED <<rec, dat>> /\ UNCHANGED locks /\ torn' = torn
  BY <1>1, AtHome DEF DelHead, Goto, Moves
<1>3. o \in PtrVals /\ FREE \in Slots
  BY <1>1, <1>2, AtHome, Domains, Constants DEF Fit, Handle, FREE
<1>4. h \in Handles /\ h.ptrval = db[p].ptrval /\ h.ptroff = db[p].ptroff
  BY <1>1, SeekOK DEF Mid
<1>5. Fit("del_unlink", req[p], h, loc[p])
  BY <1>2, <1>4, AtHome DEF Fit, Pointers, Request, Handle, Taken, Appending, KeyLabels,
     StoreLabels, DelLabels, FreeLabels, AppendLabels
<1>6. "del_unlink" \in Labels /\ Holds(p, "del_unlink", wr)
  BY DEF Labels, DelLabels, Holds
<1> QED
  BY <1>2, <1>3, <1>4, <1>5, <1>6, AtHome, PtrStepOK

LEMMA DelUnlinkOK == ASSUME IInv, NEW p \in Procs, DelUnlink(p) PROVE IInv' /\ Grows
<1>1. PICK h, o, n : h = [db[p] EXCEPT !.fpos = Mid] /\ o = db[p].ptroff /\ n = loc[p].saveptr
  OBVIOUS
<1>2. /\ pc[p] = "del_unlink" /\ Moves(p, "del_unlock", h, loc[p]) /\ WritePtr(o, n)
      /\ UNCHANGED <<rec, dat>> /\ UNCHANGED locks /\ torn' = torn
  BY <1>1, AtHome DEF DelUnlink, Goto, Moves
<1>3. n \in PtrVals /\ o \in Slots
  BY <1>1, AtHome DEF Fit, Pointers
<1>4. h \in Handles /\ h.ptrval = db[p].ptrval /\ h.ptroff = db[p].ptroff
  BY <1>1, SeekOK DEF Mid
<1>5. Fit("del_unlock", req[p], h, loc[p])
  BY <1>2, <1>4, AtHome DEF Fit, Pointers, Request, Handle, Taken, Appending, KeyLabels,
     StoreLabels, DelLabels, FreeLabels, AppendLabels
<1>6. "del_unlock" \in Labels /\ Holds(p, "del_unlock", wr)
  BY DEF Labels, DelLabels, Holds
<1> QED
  BY <1>2, <1>3, <1>4, <1>5, <1>6, AtHome, PtrStepOK

LEMMA FreeTakeOK == ASSUME IInv, NEW p \in Procs, FreeTake(p) PROVE IInv' /\ Grows
<1>1. PICK h, o, n : h = [db[p] EXCEPT !.fpos = Mid] /\ o = loc[p].save /\ n = db[p].ptrval
  OBVIOUS
<1>2. /\ pc[p] = "free_take" /\ Moves(p, "free_unlock", h, loc[p]) /\ WritePtr(o, n)
      /\ UNCHANGED <<rec, dat>> /\ UNCHANGED locks /\ torn' = torn
  BY <1>1, AtHome DEF FreeTake, Goto, Moves
<1>3. n \in PtrVals /\ o \in Slots
  BY <1>1, AtHome DEF Fit, Pointers
<1>4. /\ h \in Handles /\ h.ptrval = db[p].ptrval /\ h.ptroff = db[p].ptroff
      /\ h.idxoff = db[p].idxoff /\ h.klen = db[p].klen
      /\ h.datoff = db[p].datoff /\ h.datlen = db[p].datlen
  BY <1>1, SeekOK DEF Mid
<1>5. Fit("free_unlock", req[p], h, loc[p])
  BY <1>2, <1>4, AtHome DEF Fit, Pointers, Request, Handle, Describes, Taken, Appending, KeyLabels,
     StoreLabels, DelLabels, FreeLabels, AppendLabels
<1>6. "free_unlock" \in Labels /\ Holds(p, "free_unlock", wr)
  BY DEF Labels, FreeLabels, Holds
<1> QED
  BY <1>2, <1>3, <1>4, <1>5, <1>6, AtHome, PtrStepOK

LEMMA PublishOK == ASSUME IInv, NEW p \in Procs, Publish(p) PROVE IInv' /\ Grows
<1>1. PICK h, o, n : h = [db[p] EXCEPT !.fpos = Mid] /\ o = Chain(p) /\ n = db[p].idxoff
  OBVIOUS
<1>2. pc[p] = "publish" /\ UNCHANGED <<rec, dat>> /\ torn' = torn
  BY DEF Publish
<1>3. CASE Moves(p, "unlock", h, loc[p]) /\ WritePtr(o, n) /\ UNCHANGED locks
  <2>1. req[p] \in Stores
    BY <1>2, AtHome DEF Fit, Request, StoreLabels
  <2>2. n \in PtrVals /\ o \in Slots
    BY <1>1, <1>2, <2>1, AtHome, Domains, KeyedRequest DEF Fit, Handle
  <2>3. h \in Handles /\ h.ptrval = db[p].ptrval /\ h.ptroff = db[p].ptroff
    BY <1>1, SeekOK DEF Mid
  <2>4. Fit("unlock", req[p], h, loc[p])
    BY <1>2, <2>1, <2>3, AtHome DEF Fit, Pointers, Request, Handle, Taken, Appending, KeyLabels,
       StoreLabels, DelLabels, FreeLabels, AppendLabels
  <2>5. "unlock" \in Labels /\ Holds(p, "unlock", wr)
    BY DEF Labels, Holds
  <2> QED
    BY <1>2, <1>3, <2>2, <2>3, <2>4, <2>5, AtHome, PtrStepOK
<1>4. CASE Moves(p, "dead", db[p], loc[p]) /\ Exit(p) /\ UNCHANGED ptr
  BY <1>2, <1>4, AtHome, DeadOK DEF files
<1>5. req' = req /\ ops' = ops /\ loc' = loc
  BY DEF Publish
<1>6. CASE /\ WritePtr(o, n) /\ db' = [db EXCEPT ![p] = h]
           /\ ret' = [ret EXCEPT ![p] = "ok"] /\ Goto(p, "unlock") /\ UNCHANGED locks
  <2>1. Moves(p, "unlock", h, loc[p])
    BY <1>5, <1>6, AtHome DEF Goto, Moves, Results
  <2> QED
    BY <1>3, <1>6, <2>1
<1>7. CASE Exit(p) /\ Goto(p, "dead") /\ UNCHANGED <<ptr, db, ret>>
  <2>1. Moves(p, "dead", db[p], loc[p])
    BY <1>5, <1>7, AtHome DEF Goto, Moves
  <2> QED
    BY <1>4, <1>7, <2>1
<1> QED
  BY <1>1, <1>6, <1>7 DEF Publish

\* a write to an index record, or under the lock that covers the end of the file
LEMMA IdxStepOK ==
  ASSUME IInv, NEW p \in Procs, NEW o \in Nat, NEW n \in PtrVals, NEW x \in IdxRecs,
         NEW l \in Labels, NEW h \in Handles, NEW v \in Locals,
         WriteIdx(o, n, x), UNCHANGED dat, Moves(p, l, h, v), UNCHANGED locks, torn' = torn,
         x.datoff \in 1 .. Len(dat), dat[x.datoff].len = x.datlen,
         \/ o = IdxEnd + 1 /\ wr[IdxTail] = {p}
         \/ IsRec(o) /\ x.klen = Rec(o).klen /\ x.datoff = Rec(o).datoff /\ x.datlen = Rec(o).datlen,
         Holds(p, l, wr), l \notin {"dat_write", "idx_write"}, Fit(l, req[p], h, v) \/ Fit(l, req[p], h, v)'
  PROVE  IInv' /\ Grows
<1>1. /\ FilesOK /\ FilesOK' /\ Grows /\ dat' = dat
      /\ Len(rec') = IF o = IdxEnd + 1 THEN Len(rec) + 1 ELSE Len(rec)
  BY AtHome, WriteIdxOK
<1>2. \A q \in Procs \ {p} : NoAppend(q)
  <2> SUFFICES ASSUME NEW q \in Procs \ {p}, pc[q] = "idx_write" PROVE Len(rec') = Len(rec)
    BY <1>1 DEF NoAppend
  <2>1. wr[IdxTail] = {q}
    BY AtHome DEF Holds
  <2>2. IsRec(o) /\ o # IdxEnd + 1
    <3>1. IsRec(o)
      BY <2>1
    <3>2. IdxEnd \in Nat
      BY AtHome, Domains, Constants
    <3> QED
      BY <3>1, <3>2 DEF IsRec, First
  <2> QED
    BY <1>1, <2>2
<1>3. PICK r : r = req[p]
  OBVIOUS
<1>4. Fit(l, r, h, v) => Fit(l, r, h, v)'
  BY <1>1, OthersFit
<1>5. Fit(l, req[p], h, v)'
  BY <1>3, <1>4 DEF Moves
<1>6. torn' \in BOOLEAN
  BY AtHome
<1> QED
  BY <1>1, <1>2, <1>5, <1>6, NoLockOK, StepOK

LEMMA DatStepOK ==
  ASSUME IInv, NEW p \in Procs, NEW o \in Nat \ {0}, NEW x \in Data \cup {Blank}, NEW n \in Nat,
         NEW l \in Labels, NEW h \in Handles, NEW v \in Locals,
         WriteDat(o, x, n), UNCHANGED <<ptr, rec>>, Moves(p, l, h, v), UNCHANGED locks, torn' = torn,
         \/ o = Len(dat) + 1 /\ wr[DatFile] = {p}
         \/ o \in 1 .. Len(dat) /\ n = dat[o].len,
         Holds(p, l, wr), l \notin {"dat_write", "idx_write"}, Fit(l, req[p], h, v) \/ Fit(l, req[p], h, v)'
  PROVE  IInv' /\ Grows
<1>1. /\ FilesOK /\ FilesOK' /\ Grows /\ rec' = rec
      /\ Len(dat') = IF o = Len(dat) + 1 THEN Len(dat) + 1 ELSE Len(dat)
  BY AtHome, WriteDatOK
<1>2. \A q \in Procs \ {p} : NoAppend(q)
  <2> SUFFICES ASSUME NEW q \in Procs \ {p}, pc[q] = "dat_write" PROVE Len(dat') = Len(dat)
    BY <1>1 DEF NoAppend
  <2>1. wr[DatFile] = {q}
    BY AtHome DEF Holds
  <2>2. o # Len(dat) + 1
    <3>1. o \in 1 .. Len(dat)
      BY <2>1
    <3>2. Len(dat) \in Nat
      BY AtHome, Domains
    <3> QED
      BY <3>1, <3>2
  <2> QED
    BY <1>1, <2>2
<1>3. PICK r : r = req[p]
  OBVIOUS
<1>4. Fit(l, r, h, v) => Fit(l, r, h, v)'
  BY <1>1, OthersFit
<1>5. Fit(l, req[p], h, v)'
  BY <1>3, <1>4 DEF Moves
<1>6. torn' \in BOOLEAN
  BY AtHome
<1> QED
  BY <1>1, <1>2, <1>5, <1>6, NoLockOK, StepOK

\* what a handle that describes an index record knows of it and of its data
LEMMA RecordDescribed ==
  ASSUME IInv, NEW p \in Procs, Describes(db[p])
  PROVE  /\ IsRec(db[p].idxoff) /\ db[p].idxoff \in Nat /\ db[p].idxoff + 1 \in Nat
         /\ db[p].datoff \in 1 .. Len(dat) /\ dat[db[p].datoff].len = db[p].datlen
         /\ db[p].datoff = Rec(db[p].idxoff).datoff /\ db[p].datlen = Rec(db[p].idxoff).datlen
         /\ db[p].klen = Rec(db[p].idxoff).klen
         /\ db[p].datoff \in Nat \ {0} /\ db[p].datlen \in Nat /\ db[p].klen \in Nat
<1>1. /\ db[p].idxoff - NHash \in 1 .. Len(rec) /\ IsRec(db[p].idxoff)
      /\ db[p].datoff = Rec(db[p].idxoff).datoff /\ db[p].datlen = Rec(db[p].idxoff).datlen
      /\ db[p].klen = Rec(db[p].idxoff).klen
  BY AtHome, Domains DEF Describes
<1>2. db[p].datoff \in 1 .. Len(dat) /\ dat[db[p].datoff].len = db[p].datlen
  BY <1>1, AtHome DEF FilesOK, Paired, Rec
<1>3. db[p] \in Handles
  BY AtHome
<1>4. /\ db[p].idxoff \in Nat /\ db[p].datoff \in Nat /\ db[p].datlen \in Nat
      /\ db[p].klen \in Nat
  BY <1>3 DEF Handles
<1>5. Len(dat) \in Nat
  BY AtHome, Domains
<1>6. db[p].datoff \in Nat \ {0}
  BY <1>2, <1>5
<1>7. db[p].idxoff + 1 \in Nat
  BY <1>4
<1> QED
  BY <1>1, <1>2, <1>4, <1>6, <1>7

LEMMA DelDatOK == ASSUME IInv, NEW p \in Procs, DelDat(p) PROVE IInv' /\ Grows
<1>1. PICK o, n : o = db[p].datoff /\ n = db[p].datlen
  OBVIOUS
<1>2. /\ pc[p] = "del_dat" /\ Moves(p, "del_free", db[p], loc[p]) /\ WriteDat(o, Blank, n)
      /\ UNCHANGED <<ptr, rec>> /\ UNCHANGED locks /\ torn' = torn
  BY <1>1, AtHome DEF DelDat, Goto, Moves
<1>3. o \in 1 .. Len(dat) /\ n = dat[o].len /\ n \in Nat /\ o \in Nat \ {0}
  <2>1. Describes(db[p])
    BY <1>2, AtHome DEF Fit, Handle
  <2> QED
    BY <1>1, <2>1, RecordDescribed
<1>4. Fit("del_free", req[p], db[p], loc[p])
  BY <1>2, AtHome DEF Fit, Pointers, Request, Handle, Taken, Appending, KeyLabels,
     StoreLabels, DelLabels, FreeLabels, AppendLabels
<1>5. "del_free" \in Labels /\ Holds(p, "del_free", wr)
  BY DEF Labels, DelLabels, Holds
<1> QED
  BY <1>2, <1>3, <1>4, <1>5, AtHome, DatStepOK

LEMMA OverwriteDatOK == ASSUME IInv, NEW p \in Procs, OverwriteDat(p) PROVE IInv' /\ Grows
<1>1. PICK o, x, n, h : /\ o = db[p].datoff /\ x = req[p].data /\ n = DatLen[req[p].data]
                        /\ h = [db[p] EXCEPT !.datlen = n]
  OBVIOUS
<1>2. PICK l \in {"reuse_idx", "unlock"} :
        /\ pc[p] \in {"reuse_dat", "over_dat"} /\ Moves(p, l, h, loc[p]) /\ WriteDat(o, x, n)
        /\ l = "reuse_idx" => pc[p] = "reuse_dat"
        /\ UNCHANGED <<ptr, rec>> /\ UNCHANGED locks /\ torn' = torn
  BY <1>1, AtHome DEF OverwriteDat, Goto, Moves, Results
<1>3. req[p] \in Stores /\ Describes(db[p]) /\ db[p].datlen = n
  BY <1>1, <1>2, AtHome DEF Fit, Request, StoreLabels, Handle, Taken
<1>4. /\ o \in 1 .. Len(dat) /\ n = dat[o].len /\ o \in Nat \ {0} /\ n \in Nat
      /\ x \in Data \cup {Blank}
  BY <1>1, <1>3, RecordDescribed DEF Stores
<1>5. h = db[p]
  <2>1. db[p] \in Handles
    BY AtHome
  <2> QED
    BY <1>1, <1>3, <2>1 DEF Handles
<1>6. h \in Handles /\ Fit(l, req[p], h, loc[p])
  BY <1>2, <1>3, <1>5, AtHome DEF Fit, Pointers, Request, Handle, Taken, Appending, KeyLabels,
     StoreLabels, DelLabels, FreeLabels, AppendLabels
<1>7. l \in Labels /\ Holds(p, l, wr)
  BY DEF Labels, ReuseLabels, Holds
<1> QED
  BY <1>2, <1>4, <1>6, <1>7, AtHome, DatStepOK

LEMMA DelIdxOK == ASSUME IInv, NEW p \in Procs, DelIdx(p) PROVE IInv' /\ Grows
<1>1. PICK o, n, x, e, h :
        /\ o = db[p].idxoff /\ n = loc[p].freeptr /\ x = IdxOf(p, Blank) /\ e = db[p].idxoff + 1
        /\ h = [db[p] EXCEPT !.ptrval = n, !.fpos = e]
  OBVIOUS
<1>2. /\ pc[p] = "del_idx" /\ Moves(p, "del_head", h, loc[p]) /\ WriteIdx(o, n, x)
      /\ UNCHANGED dat /\ UNCHANGED locks /\ torn' = torn
  BY <1>1, AtHome DEF DelIdx, Goto, Moves
<1>3. Describes(db[p])
  BY <1>2, AtHome DEF Fit, Handle
<1>4. n \in PtrVals /\ n \in Nat
  BY <1>1, AtHome, PointersAreNat DEF Fit, Pointers
<1>5. /\ x \in IdxRecs /\ x.datoff \in 1 .. Len(dat) /\ dat[x.datoff].len = x.datlen
      /\ x.klen = Rec(o).klen /\ x.datoff = Rec(o).datoff /\ x.datlen = Rec(o).datlen
      /\ IsRec(o) /\ o \in Nat /\ e \in Nat
  BY <1>1, <1>3, RecordDescribed DEF IdxOf, IdxRecs
<1>6. /\ h \in Handles /\ h.ptrval = n /\ h.ptroff = db[p].ptroff /\ h.idxoff = o
  <2>1. h = [db[p] EXCEPT !.ptrval = n, !.fpos = e] /\ o = db[p].idxoff
    BY <1>1
  <2>2. n \in Nat /\ e \in Nat
    BY <1>4, <1>5
  <2>3. db[p] \in Handles
    BY AtHome
  <2> QED
    BY <2>1, <2>2, <2>3 DEF Handles
<1>7. Fit("del_head", req[p], h, loc[p])
  BY <1>2, <1>4, <1>5, <1>6, AtHome DEF Fit, Pointers, Request, Handle, Taken, Appending, KeyLabels,
     StoreLabels, DelLabels, FreeLabels, AppendLabels
<1>8. "del_head" \in Labels /\ Holds(p, "del_head", wr)
  BY DEF Labels, DelLabels, Holds
<1> QED
  BY <1>2, <1>4, <1>5, <1>6, <1>7, <1>8, AtHome, IdxStepOK

LEMMA ReuseIdxOK == ASSUME IInv, NEW p \in Procs, ReuseIdx(p) PROVE IInv' /\ Grows
<1>1. PICK o, n, x, e, h :
        /\ o = db[p].idxoff /\ n = loc[p].cptr /\ x = IdxOf(p, req[p].key) /\ e = db[p].idxoff + 1
        /\ h = [db[p] EXCEPT !.ptrval = n, !.fpos = e]
  OBVIOUS
<1>2. /\ pc[p] = "reuse_idx" /\ Moves(p, "publish", h, loc[p]) /\ WriteIdx(o, n, x)
      /\ UNCHANGED dat /\ UNCHANGED locks /\ torn' = torn
  BY <1>1, AtHome DEF ReuseIdx, Goto, Moves
<1>3. Describes(db[p]) /\ req[p] \in Stores /\ db[p].klen = KeyLen[req[p].key]
  BY <1>2, AtHome DEF Fit, Handle, Taken, Request, StoreLabels
<1>4. n \in PtrVals /\ n \in Nat
  BY <1>1, AtHome, PointersAreNat DEF Fit, Pointers
<1>5. req[p].key \in Keys /\ req[p].key # Blank
  BY <1>3, Constants DEF Stores
<1>6. /\ x \in IdxRecs /\ x.datoff \in 1 .. Len(dat) /\ dat[x.datoff].len = x.datlen
      /\ x.klen = Rec(o).klen /\ x.datoff = Rec(o).datoff /\ x.datlen = Rec(o).datlen
      /\ IsRec(o) /\ o \in Nat /\ e \in Nat
  BY <1>1, <1>3, <1>5, RecordDescribed DEF IdxOf, IdxRecs
<1>7. /\ h \in Handles /\ h.ptrval = n /\ h.ptroff = db[p].ptroff /\ h.idxoff = o
  <2>1. h = [db[p] EXCEPT !.ptrval = n, !.fpos = e] /\ o = db[p].idxoff
    BY <1>1
  <2>2. n \in Nat /\ e \in Nat
    BY <1>4, <1>6
  <2>3. db[p] \in Handles
    BY AtHome
  <2> QED
    BY <2>1, <2>2, <2>3 DEF Handles
<1>8. Fit("publish", req[p], h, loc[p])
  BY <1>3, <1>4, <1>6, <1>7, AtHome DEF Fit, Pointers, Request, Handle, Taken, Appending, KeyLabels,
     StoreLabels, DelLabels, FreeLabels, AppendLabels
<1>9. "publish" \in Labels /\ Holds(p, "publish", wr)
  BY DEF Labels, ReuseLabels, Holds
<1> QED
  BY <1>2, <1>4, <1>6, <1>7, <1>8, <1>9, AtHome, IdxStepOK

LEMMA AppendWriteOK == ASSUME IInv, NEW p \in Procs, AppendWrite(p) PROVE IInv' /\ Grows
<1>1. UNCHANGED locks /\ torn' = torn /\ req' = req
  BY DEF AppendWrite
<1>2. CASE pc[p] = "dat_write"
  <2>1. PICK o, x, n, h : o = db[p].datoff /\ x = req[p].data /\ n = db[p].datlen /\ h = db[p]
    OBVIOUS
  <2>2. WriteDat(o, x, n) /\ Moves(p, "dat_unlock", h, loc[p]) /\ UNCHANGED <<ptr, rec>>
    BY <1>2, <2>1, AtHome DEF AppendWrite, Goto, Moves
  <2>3. req[p] \in Stores /\ o = Len(dat) + 1 /\ wr[DatFile] = {p}
    BY <1>2, <2>1, AtHome DEF Fit, Request, StoreLabels, AppendLabels, Appending, Holds
  <2>4. FilesOK /\ h \in Handles /\ Len(dat) \in Nat
    BY <2>1, AtHome, Domains
  <2>5. x \in Data \cup {Blank} /\ n \in Nat /\ o \in Nat \ {0}
    BY <2>1, <2>3, <2>4 DEF Stores, Handles
  <2>6. FilesOK' /\ Grows /\ o \in 1 .. Len(dat') /\ dat'[o].len = n
    BY <2>2, <2>3, <2>4, <2>5, WriteDatOK
  <2>7. PICK r, v : r = req[p] /\ v = loc[p]
    OBVIOUS
  <2>8. Pointers("dat_unlock", h, v)
    BY <2>1, <2>7, AtHome DEF Fit, Pointers
  <2>9. Pointers("dat_unlock", h, v)'
    BY <2>4, <2>6, <2>8, GrowsKeeps DEF Pointers
  <2>10. Request("dat_unlock", r)' /\ Handle("dat_unlock", r, h, v)'
    BY <2>3, <2>7 DEF Request, Handle, Taken, KeyLabels, StoreLabels, DelLabels, FreeLabels, AppendLabels
  <2>11. Appending("dat_unlock", h)'
    BY <2>1, <2>6 DEF Appending
  <2>12. Fit("dat_unlock", r, h, v)'
    BY <2>9, <2>10, <2>11 DEF Fit
  <2>13. Moves(p, "dat_unlock", h, v) /\ v \in Locals
    BY <2>2, <2>7, AtHome
  <2>14. Fit("dat_unlock", req[p], h, v)'
    BY <1>1, <2>7, <2>12
  <2>15. "dat_unlock" \in Labels /\ Holds(p, "dat_unlock", wr)
    BY <2>3 DEF Labels, AppendLabels, Holds
  <2> QED
    BY <1>1, <2>2, <2>3, <2>4, <2>5, <2>13, <2>14, <2>15, DatStepOK
<1>3. CASE pc[p] = "idx_write"
  <2>1. PICK o, n, x, e, h :
          /\ o = db[p].idxoff /\ n = loc[p].cptr /\ x = IdxOf(p, req[p].key) /\ e = db[p].idxoff + 1
          /\ h = [db[p] EXCEPT !.fpos = e]
    OBVIOUS
  <2>2. WriteIdx(o, n, x) /\ Moves(p, "idx_unlock", h, loc[p]) /\ UNCHANGED dat
    BY <1>3, <2>1, AtHome DEF AppendWrite, Goto, Moves
  <2>3. /\ req[p] \in Stores /\ o = IdxEnd + 1 /\ wr[IdxTail] = {p}
        /\ db[p].datoff \in 1 .. Len(dat) /\ dat[db[p].datoff].len = db[p].datlen
    BY <1>3, <2>1, AtHome DEF Fit, Request, StoreLabels, AppendLabels, Appending, Holds
  <2>4. /\ FilesOK /\ db[p].datoff \in Nat \ {0} /\ db[p].datlen \in Nat
        /\ o \in Nat /\ e \in Nat /\ n \in PtrVals
    <3>1. db[p] \in Handles /\ Len(dat) \in Nat /\ FilesOK /\ n \in PtrVals
      BY <2>1, AtHome, Domains DEF Fit, Pointers
    <3>2. o \in Nat /\ db[p].datlen \in Nat
      BY <2>1, <3>1 DEF Handles
    <3>3. e \in Nat
      BY <2>1, <3>2
    <3> QED
      BY <2>3, <3>1, <3>2, <3>3
  <2>5. x \in IdxRecs /\ x.datoff \in 1 .. Len(dat) /\ dat[x.datoff].len = x.datlen
    <3>1. req[p].key \in Keys /\ req[p].key # Blank /\ KeyLen[req[p].key] \in Nat
      BY <2>3, Constants DEF Stores
    <3> QED
      BY <2>1, <2>3, <2>4, <3>1 DEF IdxOf, IdxRecs
  <2>6. FilesOK' /\ Grows /\ IsRec(o)'
    BY <2>2, <2>3, <2>4, <2>5, WriteIdxOK
  <2>7. PICK r, v : r = req[p] /\ v = loc[p]
    OBVIOUS
  <2>8. h \in Handles /\ h.idxoff = o /\ h.ptrval = db[p].ptrval /\ h.ptroff = db[p].ptroff
    BY <2>1, <2>4, SeekOK
  <2>9. Pointers("idx_unlock", h, v)
    BY <2>7, <2>8, AtHome DEF Fit, Pointers
  <2>10. Pointers("idx_unlock", h, v)'
    BY <2>4, <2>6, <2>9, GrowsKeeps DEF Pointers
  <2>11. /\ Request("idx_unlock", r)' /\ Handle("idx_unlock", r, h, v)' /\ Appending("idx_unlock", h)'
    BY <2>3, <2>6, <2>7, <2>8 DEF Request, Handle, Taken, Appending, KeyLabels, StoreLabels,
       DelLabels, FreeLabels, AppendLabels
  <2>12. Fit("idx_unlock", r, h, v)'
    BY <2>10, <2>11 DEF Fit
  <2>13. Moves(p, "idx_unlock", h, v) /\ v \in Locals
    BY <2>2, <2>7, AtHome
  <2>14. Fit("idx_unlock", req[p], h, v)'
    BY <1>1, <2>7, <2>12
  <2>15. "idx_unlock" \in Labels /\ Holds(p, "idx_unlock", wr)
    BY <2>3 DEF Labels, AppendLabels, Holds
  <2> QED
    BY <1>1, <2>2, <2>3, <2>4, <2>5, <2>8, <2>13, <2>14, <2>15, IdxStepOK
<1> QED
  BY <1>2, <1>3 DEF AppendWrite

\* a call begins or returns: the request changes, the files do not
LEMMA TurnOK ==
  ASSUME IInv, NEW p \in Procs, NEW l, NEW r, NEW h, NEW v,
         pc'[p] = l, req'[p] = r, db'[p] = h, loc'[p] = v,
         ProcsTyped', \A q \in Procs \ {p} : SameFor(q), UNCHANGED files, torn' = torn,
         LocksTyped', OthersHold(p), Holds(p, l, wr'), Fit(l, r, h, v)
  PROVE  IInv' /\ Grows
<1>1. FilesOK /\ FilesOK' /\ Grows /\ \A q \in Procs : NoAppend(q)
  BY AtHome, SameFiles
<1>2. Len(dat') = Len(dat) /\ Len(rec') = Len(rec)
  BY DEF files
<1>3. ASSUME NEW q \in Procs \ {p}
      PROVE  Holds(q, pc[q], wr)' /\ Fit(pc[q], req[q], db[q], loc[q])'
  <2>1. pc'[q] = pc[q] /\ req'[q] = req[q] /\ db'[q] = db[q] /\ loc'[q] = loc[q]
    BY DEF SameFor
  <2>2. Fit(pc[q], req[q], db[q], loc[q])
    BY AtHome
  <2>3. PICK lq, rq, hq, vq : lq = pc[q] /\ rq = req[q] /\ hq = db[q] /\ vq = loc[q]
    OBVIOUS
  <2>4. Fit(lq, rq, hq, vq)'
    BY <1>1, <1>2, <2>2, <2>3, OthersFit
  <2>5. Fit(pc[q], req[q], db[q], loc[q])'
    BY <2>1, <2>3, <2>4
  <2> QED
    BY <2>1, <2>5 DEF OthersHold
<1>4. Fit(l, r, h, v)'
  BY <1>1, <1>2, OthersFit
<1>5. Holds(p, pc[p], wr)' /\ Fit(pc[p], req[p], db[p], loc[p])'
  BY <1>4
<1>6. torn' \in BOOLEAN
  BY AtHome
<1> QED
  BY <1>1, <1>3, <1>5, <1>6 DEF IInv, TypeOK, FilesOK

LEMMA CallOK == ASSUME IInv, NEW p \in Procs, Call(p) PROVE IInv' /\ Grows
<1>1. /\ pc[p] = "idle" /\ UNCHANGED files /\ UNCHANGED locks /\ torn' = torn
      /\ ret' = ret /\ loc' = loc /\ ops' = [ops EXCEPT ![p] = @ + 1] /\ ops[p] < MaxOps[p]
  BY DEF Call
<1>2. ops' \in [Procs -> Nat] /\ \A q \in Procs : ops'[q] <= MaxOps[q]
  <2>1. ops \in [Procs -> Nat] /\ \A q \in Procs : ops[q] <= MaxOps[q] /\ MaxOps[q] \in Nat
    BY AtHome, Constants DEF ProcsTyped
  <2> QED
    BY <1>1, <2>1
<1>3. PICK r \in Workload[p] :
        \/ /\ r.op = "rewind"
           /\ db' = [db EXCEPT ![p].fpos = First]
           /\ UNCHANGED <<pc, req>>
        \/ /\ r.op # "rewind"
           /\ req' = [req EXCEPT ![p] = r]
           /\ Goto(p, IF r.op = "nextrec" THEN "scan_lock" ELSE "find_lock")
           /\ UNCHANGED db
  BY DEF Call
<1>4. r \in Requests
  BY WorkloadAssumption
<1>5. CASE /\ r.op = "rewind" /\ db' = [db EXCEPT ![p].fpos = First] /\ UNCHANGED <<pc, req>>
  <2>1. PICK h, f : f = First /\ h = [db[p] EXCEPT !.fpos = f]
    OBVIOUS
  <2>2. h \in Handles /\ h.ptrval = db[p].ptrval /\ h.ptroff = db[p].ptroff
    <3>1. f \in Nat
      BY <2>1, Constants DEF First
    <3> QED
      BY <2>1, <3>1, SeekOK
  <2>3. db' = [db EXCEPT ![p] = h]
    BY <1>5, <2>1
  <2>4. /\ ProcsTyped' /\ \A q \in Procs \ {p} : SameFor(q)
        /\ pc'[p] = "idle" /\ req'[p] = req[p] /\ db'[p] = h /\ loc'[p] = loc[p]
    BY <1>1, <1>2, <1>5, <2>2, <2>3, AtHome DEF ProcsTyped, SameFor
  <2>5. Fit("idle", req[p], h, loc[p])
    BY <2>2, AtHome DEF Fit, Pointers, Request, Handle, Taken, Appending, KeyLabels, StoreLabels,
       DelLabels, FreeLabels, AppendLabels
  <2>6. Holds(p, "idle", wr')
    BY DEF Holds
  <2> QED
    BY <1>1, <2>4, <2>5, <2>6, NoLockOK, TurnOK
<1>6. CASE /\ r.op # "rewind" /\ req' = [req EXCEPT ![p] = r]
           /\ Goto(p, IF r.op = "nextrec" THEN "scan_lock" ELSE "find_lock") /\ UNCHANGED db
  <2>1. PICK l \in {"scan_lock", "find_lock"} :
          /\ pc' = [pc EXCEPT ![p] = l]
          /\ l = "find_lock" => r.op \notin {"nextrec", "rewind"}
    BY <1>6 DEF Goto
  <2>2. l \in Labels
    BY DEF Labels, ScanLabels
  <2>3. /\ ProcsTyped' /\ \A q \in Procs \ {p} : SameFor(q)
        /\ pc'[p] = l /\ req'[p] = r /\ db'[p] = db[p] /\ loc'[p] = loc[p]
    BY <1>1, <1>2, <1>4, <1>6, <2>1, <2>2, AtHome DEF ProcsTyped, SameFor
  <2>4. l = "find_lock" => r \in Keyed \cup Stores
    BY <1>4, <2>1 DEF Requests, Cursor
  <2>5. Fit(l, r, db[p], loc[p])
    BY <2>4, AtHome DEF Fit, Pointers, Request, Handle, Taken, Appending, KeyLabels, StoreLabels,
       DelLabels, FreeLabels, AppendLabels
  <2>6. Holds(p, l, wr')
    BY DEF Holds
  <2> QED
    BY <1>1, <2>3, <2>5, <2>6, NoLockOK, TurnOK
<1> QED
  BY <1>3, <1>5, <1>6

LEMMA ReturnOK ==
  ASSUME IInv, NEW p \in Procs, UnlockChain(p) \/ ScanUnlock(p)
  PROVE  IInv' /\ Grows
<1>1. PICK k \in Locks : Return(p, k)
  <2>1. CASE UnlockChain(p)
    BY <2>1, AtHome, KeyedRequest, LockNumbers DEF UnlockChain, Fit, Request, KeyLabels
  <2>2. CASE ScanUnlock(p)
    BY <2>2, LockNumbers DEF ScanUnlock
  <2> QED
    BY <2>1, <2>2
<1>2. LocksTyped' /\ OthersHold(p)
  BY <1>1, UnlockOK DEF Return
<1>3. PICK h, f : f = db[p].fpos /\ h = NewHandle(f)
  OBVIOUS
<1>4. h \in Handles /\ h.ptrval = 0 /\ h.ptroff = 0
  <2>1. db[p] \in Handles
    BY AtHome
  <2>2. f \in Nat
    BY <1>3, <2>1 DEF Handles
  <2> QED
    BY <1>3, <2>2 DEF Handles, NewHandle
<1>5. NoLocals \in Locals /\ NoRequest \in Requests \cup {NoRequest} /\ "idle" \in Labels
  BY DEF NoLocals, Locals, Labels
<1>6. /\ pc' = [pc EXCEPT ![p] = "idle"] /\ db' = [db EXCEPT ![p] = h]
      /\ loc' = [loc EXCEPT ![p] = NoLocals] /\ req' = [req EXCEPT ![p] = NoRequest]
      /\ ret' = [ret EXCEPT ![p] = "none"] /\ ops' = ops /\ UNCHANGED files /\ torn' = torn
  BY <1>1, <1>3, AtHome DEF Return, Goto
<1>7. /\ ProcsTyped' /\ \A q \in Procs \ {p} : SameFor(q)
      /\ pc'[p] = "idle" /\ req'[p] = NoRequest /\ db'[p] = h /\ loc'[p] = NoLocals
  BY <1>4, <1>5, <1>6, AtHome DEF ProcsTyped, SameFor
<1>8. Fit("idle", NoRequest, h, NoLocals)
  <2>1. 0 \in Slots /\ 0 \in PtrVals
    BY AtHome, Domains, Constants DEF PtrVals
  <2> QED
    BY <1>4, <2>1 DEF Fit, Pointers, Request, Handle, Taken, Appending, KeyLabels, StoreLabels,
       DelLabels, FreeLabels, AppendLabels, NoLocals
<1>9. Holds(p, "idle", wr')
  BY DEF Holds
<1> QED
  BY <1>2, <1>6, <1>7, <1>8, <1>9, TurnOK

-----------------------------------------------------------------------------
(* The initial contents.                                                     *)

LEMMA LargestExists ==
  ASSUME NEW n \in Nat, NEW S, S \subseteq 1 .. n, S # {}
  PROVE  \E i \in S : \A j \in S : j <= i
<1> DEFINE T == {n - i : i \in S}
<1>1. T \subseteq Nat /\ T # {}
  <2>1. \A i \in S : n - i \in Nat
    OBVIOUS
  <2>2. PICK i : i \in S
    OBVIOUS
  <2>3. n - i \in T
    BY <2>2
  <2> QED
    BY <2>1, <2>3
<1>2. PICK x \in T : \A y \in T : ~(<<y, x>> \in OpToRel(<, Nat))
  BY <1>1, NatLessThanWellFounded, WFMin
<1>3. PICK i \in S : x = n - i
  OBVIOUS
<1>4. ASSUME NEW j \in S PROVE j <= i
  <2>1. n - j \in T /\ n - j \in Nat /\ x \in Nat
    BY <1>1
  <2>2. ~(n - j < x)
    BY <1>2, <2>1 DEF OpToRel
  <2> QED
    BY <1>3, <2>2
<1> QED
  BY <1>4

LEMMA LastBeforeOK ==
  ASSUME NEW s \in Preloads, NEW n \in 0 .. Len(s), NEW c
  PROVE  LastBefore(s, n, c) \in {0} \cup (NHash + 1 .. NHash + Len(s))
<1> DEFINE same == {i \in 1 .. n : Hash[s[i][1]] = c}
<1>1. Len(s) \in Nat
  BY PreloadsAssumption
<1>2. CASE same = {}
  BY <1>2 DEF LastBefore
<1>3. CASE same # {}
  <2>1. n \in Nat /\ same \subseteq 1 .. n
    BY <1>1
  <2>2. \E i \in same : \A j \in same : j <= i
    <3> HIDE DEF same
    <3> QED
      BY <1>3, <2>1, LargestExists
  <2>3. PICK m : m = CHOOSE i \in same : \A j \in same : j <= i
    OBVIOUS
  <2>4. m \in 1 .. n
    BY <2>2, <2>3
  <2>5. LastBefore(s, n, c) = NHash + m
    BY <1>3, <2>3 DEF LastBefore
  <2> QED
    BY <1>1, <2>4, <2>5, Constants
<1> QED
  BY <1>2, <1>3

LEMMA LoadedOK ==
  ASSUME NEW s \in Preloads, ptr = LoadedPtr(s), rec = LoadedRec(s), dat = LoadedDat(s)
  PROVE  FilesOK
<1>1. /\ Len(s) \in Nat /\ DOMAIN s = 1 .. Len(s)
      /\ \A i \in 1 .. Len(s) : s[i][1] \in Keys /\ s[i][2] \in Data
  BY PreloadsAssumption
<1>2. rec \in Seq(IdxRecs) /\ Len(rec) = Len(s)
  <2>1. \A i \in 1 .. Len(s) :
          [key |-> s[i][1], klen |-> KeyLen[s[i][1]],
           datoff |-> i, datlen |-> DatLen[s[i][2]]] \in IdxRecs
    BY <1>1, Constants DEF IdxRecs
  <2> QED
    BY <1>1, <2>1 DEF LoadedRec
<1>3. dat \in Seq(DatRecs) /\ Len(dat) = Len(s)
  <2>1. \A i \in 1 .. Len(s) : [val |-> s[i][2], len |-> DatLen[s[i][2]]] \in DatRecs
    BY <1>1, Constants DEF DatRecs
  <2> QED
    BY <1>1, <2>1 DEF LoadedDat
<1>4. Slots = 0 .. NHash + Len(s) /\ PtrVals = {0} \cup (NHash + 1 .. NHash + Len(s))
  BY <1>2 DEF Slots, PtrVals, IdxEnd, First
<1>5. ptr \in [Slots -> PtrVals]
  <2> DEFINE val(o) == IF o = FREE THEN 0
                       ELSE IF o <= NHash THEN LastBefore(s, Len(s), o)
                       ELSE LastBefore(s, o - NHash - 1, Hash[s[o - NHash][1]])
  <2>1. ASSUME NEW o \in 0 .. NHash + Len(s) PROVE val(o) \in PtrVals
    <3>1. 0 \in PtrVals
      BY <1>4
    <3>2. CASE o <= NHash
      <4>1. Len(s) \in 0 .. Len(s)
        BY <1>1
      <4>2. LastBefore(s, Len(s), o) \in PtrVals
        BY <1>4, <4>1, LastBeforeOK
      <4> QED
        BY <3>1, <3>2, <4>2
    <3>3. CASE ~(o <= NHash)
      <4>1. o - NHash - 1 \in 0 .. Len(s)
        BY <1>1, <3>3, Constants
      <4>2. LastBefore(s, o - NHash - 1, Hash[s[o - NHash][1]]) \in PtrVals
        BY <1>4, <4>1, LastBeforeOK
      <4> QED
        BY <3>1, <3>3, <4>2
    <3> QED
      BY <3>2, <3>3
  <2>2. ptr = [o \in 0 .. NHash + Len(s) |-> val(o)]
    BY DEF LoadedPtr
  <2> QED
    BY <1>4, <2>1, <2>2
<1>6. Paired
  BY <1>1, <1>2, <1>3 DEF Paired, LoadedRec, LoadedDat
<1> QED
  BY <1>2, <1>3, <1>5, <1>6 DEF FilesOK, FilesTyped

LEMMA InitOK == Init => IInv
<1> SUFFICES ASSUME Init PROVE IInv
  OBVIOUS
<1>1. FilesOK
  BY LoadedOK DEF Init
<1>2. LocksTyped /\ torn \in BOOLEAN
  BY DEF Init, LocksTyped
<1>3. NewHandle(First) \in Handles /\ NoLocals \in Locals /\ 0 \in Slots /\ 0 \in PtrVals
  <2>1. First \in Nat
    BY Constants DEF First
  <2> QED
    BY <1>1, <2>1, Domains, Constants DEF FilesOK, Handles, NewHandle, Locals, NoLocals, PtrVals
<1>4. ProcsTyped
  <2>1. "idle" \in Labels /\ \A p \in Procs : 0 <= MaxOps[p]
    BY Constants DEF Labels
  <2> QED
    BY <1>3, <2>1 DEF Init, ProcsTyped
<1>5. ASSUME NEW p \in Procs
      PROVE  Holds(p, pc[p], wr) /\ Fit(pc[p], req[p], db[p], loc[p])
  <2>1. pc[p] = "idle" /\ db[p] = NewHandle(First) /\ loc[p] = NoLocals
    BY DEF Init
  <2> QED
    BY <1>3, <2>1 DEF Holds, Fit, Pointers, Request, Handle, Taken, Appending, KeyLabels, StoreLabels,
       DelLabels, FreeLabels, AppendLabels, NewHandle, NoLocals
<1> QED
  BY <1>1, <1>2, <1>4, <1>5 DEF IInv, TypeOK, FilesOK

-----------------------------------------------------------------------------
(* The theorems.                                                             *)

LEMMA NextOK == IInv /\ [Next]_vars => IInv' /\ Grows
<1> SUFFICES ASSUME IInv, [Next]_vars PROVE IInv' /\ Grows
  OBVIOUS
<1>1. ASSUME NEW p \in Procs, Step(p) PROVE IInv' /\ Grows
  <2>1. CASE FindLock(p) \/ FindHead(p) \/ FindWalk(p) \/ FetchDat(p) \/ UnlockChain(p)
    BY <2>1, FindLockOK, FindHeadOK, FindWalkOK, FetchDatOK, ReturnOK
  <2>2. CASE DelLock(p) \/ DelDat(p) \/ DelFree(p) \/ DelIdx(p) \/ DelHead(p)
             \/ DelUnlink(p) \/ DelUnlock(p)
    BY <2>2, DelLockOK, DelDatOK, DelFreeOK, DelIdxOK, DelHeadOK, DelUnlinkOK, DelUnlockOK
  <2>3. CASE ReadChain(p) \/ FreeLock(p) \/ FreeHead(p) \/ FreeWalk(p) \/ FreeTake(p)
             \/ FreeUnlock(p) \/ OverwriteDat(p) \/ ReuseIdx(p)
    BY <2>3, ReadChainOK, FreeLockOK, FreeHeadOK, FreeWalkOK, FreeTakeOK, FreeUnlockOK,
       OverwriteDatOK, ReuseIdxOK
  <2>4. CASE AppendLock(p) \/ AppendSeek(p) \/ AppendWrite(p) \/ AppendUnlock(p) \/ Publish(p)
    BY <2>4, AppendLockOK, AppendSeekOK, AppendWriteOK, AppendUnlockOK, PublishOK
  <2>5. CASE ScanLock(p) \/ ScanIdx(p) \/ ScanDat(p) \/ ScanUnlock(p)
    BY <2>5, ScanLockOK, ScanIdxOK, FetchDatOK, ReturnOK
  <2> QED
    BY <1>1, <2>1, <2>2, <2>3, <2>4, <2>5 DEF Step
<1>2. CASE UNCHANGED vars
  <2>1. /\ ptr' = ptr /\ rec' = rec /\ dat' = dat /\ rd' = rd /\ wr' = wr /\ pc' = pc
        /\ req' = req /\ ret' = ret /\ db' = db /\ loc' = loc /\ ops' = ops /\ torn' = torn
    BY <1>2 DEF vars
  <2>2. UNCHANGED files /\ FilesOK
    BY <2>1 DEF files, IInv, TypeOK, FilesOK
  <2>3. FilesOK' /\ Grows /\ Len(dat') = Len(dat) /\ Len(rec') = Len(rec)
    BY <2>1, <2>2, SameFiles
  <2>4. ASSUME NEW p \in Procs PROVE Fit(pc[p], req[p], db[p], loc[p])'
    <3>1. PICK l, r, h, v : l = pc[p] /\ r = req[p] /\ h = db[p] /\ v = loc[p]
      OBVIOUS
    <3>2. Fit(l, r, h, v)'
      BY <2>2, <2>3, <3>1, AtHome, OthersFit
    <3> QED
      BY <2>1, <3>1, <3>2
  <2>5. LocksTyped' /\ ProcsTyped' /\ torn' \in BOOLEAN /\ \A p \in Procs : Holds(p, pc[p], wr)'
    BY <2>1 DEF IInv, TypeOK, LocksTyped, ProcsTyped
  <2> QED
    BY <2>3, <2>4, <2>5 DEF IInv, TypeOK, FilesOK
<1> QED
  BY <1>1, <1>2, CallOK, KillOK DEF Next, Finished

(* Whatever the processes, keys, hash function, workload and crashes: every  *)
(* pointer field of the index file and every offset a process carries in its *)
(* handle or its locals is 0 or a record that exists (db.c).                 *)
THEOREM TypeCorrect == Spec => []TypeOK
<1>1. IInv => TypeOK
  BY DEF IInv
<1> QED
  BY <1>1, InitOK, NextOK, PTL DEF Spec

(* The same for the files: they never shrink, and no record changes its key  *)
(* length, its data record or the length of its data.                        *)
THEOREM FilesOnlyGrow == Spec => GeometryFixed
<1>1. IInv /\ [Next]_vars => IInv'
  BY NextOK
<1>2. IInv /\ [Next]_vars =>
        [/\ Len(rec') >= Len(rec) /\ Len(dat') >= Len(dat)
         /\ \A i \in DOMAIN rec :
              /\ rec'[i].klen = rec[i].klen
              /\ rec'[i].datoff = rec[i].datoff /\ rec'[i].datlen = rec[i].datlen
         /\ \A i \in DOMAIN dat : dat'[i].len = dat[i].len]_vars
  BY NextOK DEF Grows
<1> QED
  BY <1>1, <1>2, InitOK, PTL DEF Spec, GeometryFixed

(* At most one process is between the seek to the end of a file and the      *)
(* write there, so two appends never go to the same place (db.c:539-557,     *)
(* 589-617).                                                                 *)
AppendsExclusive ==
  \A p, q \in Procs :
    /\ pc[p] = "dat_write" /\ pc[q] = "dat_write" => p = q
    /\ pc[p] = "idx_write" /\ pc[q] = "idx_write" => p = q
THEOREM AppendsAlone == Spec => []AppendsExclusive
<1>1. IInv => AppendsExclusive
  BY DEF IInv, Holds, AppendsExclusive
<1> QED
  BY <1>1, InitOK, NextOK, PTL DEF Spec

-----------------------------------------------------------------------------
(* The lists of the index file.                                              *)
-----------------------------------------------------------------------------
(* The lists spelled by a function f from slots to slots, where 0 is null.   *)

Heads == 0 .. NHash
RecordsOf(f) == {o \in DOMAIN f : o > NHash}
PointerFn(f) ==
  \E n \in Nat : n >= NHash /\ f \in [0 .. n -> {0} \cup ((NHash + 1) .. n)]

\* V holds what follows h and what follows each of its members
Follows(f, h, V) == f[h] \in V \cup {0} /\ \A a \in V : f[a] \in V \cup {0}
\* the records on the list that begins at h: the least such set
On(f, h) == {o \in RecordsOf(f) : \A V \in SUBSET RecordsOf(f) : Follows(f, h, V) => o \in V}
Line(f, h) == {h} \cup On(f, h)
Live(f) == UNION {Line(f, h) : h \in Heads}
\* no two pointers lead to one record
Sound(f) == \A a, b \in Live(f) : f[a] = f[b] => a = b \/ f[a] = 0
\* the chains hold records whose keys hash to them, each key once; the free list, blanks
Placed(f, k) ==
  /\ \A c \in 1 .. NHash : \A o \in On(f, c) :
       /\ k[o] \in Keys /\ Hash[k[o]] = c
       /\ \A q \in On(f, c) : k[q] = k[o] => q = o
  /\ \A o \in On(f, FREE) : k[o] = Blank

-----------------------------------------------------------------------------
(* The inductive invariant.                                                  *)

Nxt == [o \in Slots |-> NextOf(o)]
KeyAt == [o \in Slots |-> IF o > NHash THEN Rec(o).key ELSE Blank]

\* who holds the lock of a chain and of the free list, by the label
ChainLabels == KeyLabels \ {"find_lock"}
FreeHeld == {"del_dat", "del_free", "del_idx", "del_head", "del_unlink", "del_unlock",
             "free_head", "free_walk", "free_take", "free_unlock"}
HasLocks(p) ==
  /\ pc[p] \in ChainLabels =>
       p \in IF req[p].op = "fetch" THEN rd[Chain(p)] ELSE wr[Chain(p)]
  /\ pc[p] \in FreeHeld => p \in wr[FREE]
Exclusive ==
  \A l \in Locks : \A p, q \in Procs : p \in wr[l] /\ q \in rd[l] \cup wr[l] => p = q

\* a data record belongs to one index record, or to one store that appends
Appends(l) == l \in {"dat_unlock", "idx_lock", "idx_seek", "idx_write"}
DatOnce ==
  /\ \A i, j \in DOMAIN rec : rec[i].datoff = rec[j].datoff => i = j
  /\ \A p \in Procs : Appends(pc[p]) =>
       /\ \A i \in DOMAIN rec : rec[i].datoff # db[p].datoff
       /\ \A q \in Procs : Appends(pc[q]) /\ db[q].datoff = db[p].datoff => p = q

(* What a process at label l with request r, handle h and locals v knows of  *)
(* the lists f and the keys k.                                               *)
FoundLabels == {"fetch_dat", "over_dat", "del_lock", "del_dat", "del_free", "del_idx"}
AbsentLabels == (StoreLabels \ {"over_dat"}) \cup {"del_head", "del_unlink", "del_unlock"}
CptrLabels == StoreLabels \ {"over_dat", "sto_ptr", "sto_reread"}

\* the records passed so far have other keys
Passed(r, v, f, k, V) ==
  /\ \A a \in V \cup {Hash[r.key]} : f[a] \in V \cup {v.off}
  /\ \A a \in V : k[a] # r.key
Walked(l, r, h, v, f, k) ==
  l = "find_walk" =>
    /\ h.ptroff \in Line(f, Hash[r.key]) /\ f[h.ptroff] = v.off
    /\ \E V \in SUBSET On(f, Hash[r.key]) : Passed(r, v, f, k, V)
\* the record found, the pointer to it and the one it holds
Located(l, r, h, v, f, k) ==
  /\ l \in FoundLabels =>
       /\ h.ptroff \in Line(f, Hash[r.key]) /\ f[h.ptroff] = h.idxoff
       /\ k[h.idxoff] = r.key /\ h.ptrval = f[h.idxoff]
  /\ l = "del_idx" => v.saveptr = f[h.idxoff] /\ v.freeptr = f[FREE]
\* a record that is leaving its chain
Leaving(l, r, h, v, f, k) ==
  /\ l \in TornLabels => h.ptroff \in Line(f, Hash[r.key])
  /\ l = "del_head" => f[h.idxoff] = f[FREE] /\ k[h.idxoff] = Blank
\* no record with the key, and where the new one goes
Inserting(l, r, h, v, f, k) ==
  /\ l \in AbsentLabels => \A o \in On(f, Hash[r.key]) : k[o] # r.key
  /\ l \in CptrLabels => v.cptr = f[Hash[r.key]]
  /\ l \in {"idx_unlock", "publish"} => f[h.idxoff] = f[Hash[r.key]] /\ k[h.idxoff] = r.key
\* the walk along the free list
Searching(l, r, h, v, f, k) ==
  /\ l \in {"free_walk", "free_take"} => v.save \in Line(f, FREE) /\ f[v.save] = v.off
  /\ l = "free_take" => h.idxoff = v.off /\ h.ptrval = f[v.off]
Knows(l, r, h, v, f, k) ==
  /\ Walked(l, r, h, v, f, k) /\ Located(l, r, h, v, f, k) /\ Leaving(l, r, h, v, f, k)
  /\ Inserting(l, r, h, v, f, k) /\ Searching(l, r, h, v, f, k)

\* the record a process has taken out of a list or appended, and not yet put into one
Mine(l, h, v) ==
  IF \/ l = "free_unlock" /\ v.off # 0
     \/ l \in {"reuse_dat", "reuse_idx", "idx_unlock", "publish", "del_head"}
  THEN {h.idxoff} ELSE {}
MineOf(p) == Mine(pc[p], db[p], loc[p])
Apart ==
  \A p \in Procs :
    /\ MineOf(p) \cap Live(Nxt) = {}
    /\ \A q \in Procs : p # q => MineOf(p) \cap MineOf(q) = {}

Guarded == Exclusive /\ \A p \in Procs : HasLocks(p)
Lists ==
  /\ Sound(Nxt) /\ Placed(Nxt, KeyAt) /\ Apart
  /\ \A p \in Procs : Knows(pc[p], req[p], db[p], loc[p], Nxt, KeyAt)
LInv == IInv /\ Guarded /\ DatOnce /\ (torn \/ Lists)

\* the records of key x in its chain: none, or one
RecordFor(f, k, x) == {o \in On(f, Hash[x]) : k[o] = x}
(* What a step of p on key x leaves alone: the records of every other key.   *)
OthersKept(x) == \A y \in Keys \ {x} : RecordFor(Nxt', KeyAt', y) = RecordFor(Nxt, KeyAt, y)

-----------------------------------------------------------------------------
(* Lemmas about lists, for any functions.                                    *)

LEMMA Pointing ==
  ASSUME NEW f, PointerFn(f)
  PROVE  /\ NHash \in Nat /\ NHash >= 1 /\ FREE = 0 /\ FREE \in Heads
         /\ Heads \subseteq DOMAIN f /\ Heads \subseteq Nat /\ DOMAIN f \subseteq Nat
         /\ RecordsOf(f) \subseteq DOMAIN f /\ Heads \cap RecordsOf(f) = {} /\ 0 \notin RecordsOf(f)
         /\ \A a \in DOMAIN f : f[a] \in RecordsOf(f) \cup {0}
         /\ \A a \in DOMAIN f : a \in Heads \cup RecordsOf(f)
<1>1. NHash \in Nat /\ NHash >= 1
  BY Constants
<1>2. PICK n \in Nat : n >= NHash /\ f \in [0 .. n -> {0} \cup ((NHash + 1) .. n)]
  BY DEF PointerFn
<1>3. DOMAIN f = 0 .. n /\ RecordsOf(f) = (NHash + 1) .. n
  BY <1>1, <1>2 DEF RecordsOf
<1> QED
  BY <1>1, <1>2, <1>3 DEF Heads, FREE

LEMMA OnFollows ==
  ASSUME NEW f, PointerFn(f), NEW h \in Heads
  PROVE  On(f, h) \subseteq RecordsOf(f) /\ Follows(f, h, On(f, h))
<1>1. On(f, h) \subseteq RecordsOf(f)
  BY DEF On
<1>2. f[h] \in On(f, h) \cup {0}
  BY Pointing DEF On, Follows
<1>3. ASSUME NEW a \in On(f, h) PROVE f[a] \in On(f, h) \cup {0}
  <2>1. f[a] \in RecordsOf(f) \cup {0}
    BY <1>1, Pointing
  <2>2. \A V \in SUBSET RecordsOf(f) : Follows(f, h, V) => f[a] \in V \cup {0}
    BY DEF On, Follows
  <2> QED
    BY <2>1, <2>2 DEF On
<1> QED
  BY <1>1, <1>2, <1>3 DEF Follows

LEMMA OnIs ==
  ASSUME NEW f, NEW h, NEW V \in SUBSET RecordsOf(f), Follows(f, h, V),
         \A W \in SUBSET V : Follows(f, h, W) => V \subseteq W, PointerFn(f), h \in Heads
  PROVE  On(f, h) = V
<1>1. On(f, h) \subseteq V
  BY DEF On
<1>2. Follows(f, h, On(f, h))
  BY OnFollows
<1> QED
  BY <1>1, <1>2

LEMMA OnLeast ==
  ASSUME NEW f, NEW h, NEW W, Follows(f, h, W \cap On(f, h))
  PROVE  On(f, h) \subseteq W
<1>1. W \cap On(f, h) \in SUBSET RecordsOf(f)
  BY DEF On
<1> QED
  BY <1>1 DEF On

\* each record on a list is pointed to, by another one on it or by the head
LEMMA OnBefore ==
  ASSUME NEW f, PointerFn(f), NEW h \in Heads, NEW o \in On(f, h)
  PROVE  \E a \in Line(f, h) : f[a] = o /\ a # o
<1> SUFFICES ASSUME \A a \in Line(f, h) : f[a] = o => a = o PROVE FALSE
  OBVIOUS
<1>1. h # o
  BY OnFollows, Pointing
<1>2. Follows(f, h, (On(f, h) \ {o}) \cap On(f, h))
  BY <1>1, OnFollows DEF Follows, Line
<1>3. On(f, h) \subseteq On(f, h) \ {o}
  BY <1>2, OnLeast
<1> QED
  BY <1>3

LEMMA LinesLive ==
  ASSUME NEW f, PointerFn(f), NEW h \in Heads
  PROVE  /\ Line(f, h) \subseteq Live(f) /\ h \in Line(f, h) /\ h \in Live(f)
         /\ Live(f) \subseteq DOMAIN f
         /\ \A a \in Line(f, h) : f[a] \in On(f, h) \cup {0}
         /\ \A a \in On(f, h) : a \in Line(f, h) /\ a # 0 /\ a \notin Heads
<1>1. \A g \in Heads : Line(f, g) \subseteq DOMAIN f
  BY OnFollows, Pointing DEF Line
<1>2. On(f, h) \subseteq RecordsOf(f) /\ Follows(f, h, On(f, h))
  BY OnFollows
<1> QED
  BY <1>1, <1>2, Pointing DEF Line, Live, Follows

LEMMA ListsApart ==
  ASSUME NEW f, PointerFn(f), Sound(f), NEW g \in Heads, NEW h \in Heads, g # h
  PROVE  Line(f, g) \cap Line(f, h) = {}
<1>1. ASSUME NEW a \in Line(f, g), f[a] \in On(f, h)
      PROVE  a \in On(f, h)
  <2>1. PICK b \in Line(f, h) : f[b] = f[a]
    BY <1>1, OnBefore
  <2>2. a \in Live(f) /\ b \in Live(f) /\ f[a] # 0
    BY <1>1, LinesLive
  <2>3. a = b
    BY <2>1, <2>2 DEF Sound
  <2>4. a # h
    <3>1. g # h /\ \A x \in On(f, g) : x \notin Heads
      BY LinesLive
    <3> QED
      BY <3>1 DEF Line
  <2> QED
    BY <2>3, <2>4 DEF Line
<1>2. g \notin On(f, h) /\ h \notin On(f, g)
  BY LinesLive
<1>3. Follows(f, g, (On(f, g) \ On(f, h)) \cap On(f, g))
  <2>1. \A a \in Line(f, g) : f[a] \in On(f, g) \cup {0}
    BY LinesLive
  <2> QED
    BY <2>1, <1>1, <1>2 DEF Follows, Line
<1>4. On(f, g) \subseteq On(f, g) \ On(f, h)
  BY <1>3, OnLeast
<1> QED
  BY <1>2, <1>4 DEF Line

\* a list is the same if the pointers on it are
LEMMA SameList ==
  ASSUME NEW f, NEW e, PointerFn(f), PointerFn(e), DOMAIN f \subseteq DOMAIN e,
         NEW h \in Heads, \A a \in Line(f, h) : e[a] = f[a]
  PROVE  On(e, h) = On(f, h) /\ Line(e, h) = Line(f, h)
<1> DEFINE V == On(f, h)
<1>1. V \in SUBSET RecordsOf(e)
  BY OnFollows DEF RecordsOf
<1>2. Follows(e, h, V)
  BY OnFollows, LinesLive DEF Follows
<1>3. ASSUME NEW W \in SUBSET V, Follows(e, h, W) PROVE V \subseteq W
  <2>1. Follows(f, h, W \cap V)
    BY <1>3, LinesLive DEF Follows
  <2> QED
    BY <2>1, OnLeast
<1>4. On(e, h) = V
  BY <1>1, <1>2, <1>3, OnIs
<1> QED
  BY <1>4 DEF Line

LEMMA SameLists ==
  ASSUME NEW f, NEW e, PointerFn(f), PointerFn(e), DOMAIN f \subseteq DOMAIN e, Sound(f),
         \A a \in Live(f) : e[a] = f[a]
  PROVE  /\ \A h \in Heads : On(e, h) = On(f, h) /\ Line(e, h) = Line(f, h)
         /\ Live(e) = Live(f) /\ Sound(e)
<1>1. \A h \in Heads : On(e, h) = On(f, h) /\ Line(e, h) = Line(f, h)
  BY LinesLive, SameList
<1>2. Live(e) = Live(f)
  BY <1>1 DEF Live
<1> QED
  BY <1>1, <1>2 DEF Sound

LEMMA SamePlaced ==
  ASSUME NEW f, NEW e, NEW k, NEW m, PointerFn(f), Placed(f, k),
         \A h \in Heads : On(e, h) = On(f, h), \A a \in Live(f) : a \notin Heads => m[a] = k[a]
  PROVE  Placed(e, m)
<1>1. \A h \in Heads : \A a \in On(f, h) : m[a] = k[a]
  BY LinesLive
<1>2. FREE \in Heads /\ \A c \in 1 .. NHash : c \in Heads
  BY Constants DEF FREE, Heads
<1> QED
  BY <1>1, <1>2 DEF Placed

\* a record that is on no list goes to the front of one
LEMMA Push ==
  ASSUME NEW f, NEW e, PointerFn(f), PointerFn(e), DOMAIN f \subseteq DOMAIN e, Sound(f),
         NEW h \in Heads, NEW o \in RecordsOf(e), o \notin Live(f), e[o] = f[h], e[h] = o,
         \A a \in Live(f) : a # h => e[a] = f[a]
  PROVE  /\ On(e, h) = On(f, h) \cup {o} /\ Sound(e)
         /\ \A g \in Heads \ {h} : On(e, g) = On(f, g) /\ Line(e, g) = Line(f, g)
<1> DEFINE V == On(f, h) \cup {o}
<1>1. \A g \in Heads \ {h} : On(e, g) = On(f, g) /\ Line(e, g) = Line(f, g)
  <2> SUFFICES ASSUME NEW g \in Heads \ {h} PROVE \A a \in Line(f, g) : e[a] = f[a]
    BY SameList
  <2>1. h \notin Line(f, g)
    BY ListsApart, LinesLive
  <2> QED
    BY <2>1, LinesLive
<1>2. o # 0 /\ o \notin Heads /\ \A a \in Live(f) : f[a] # o
  <2>1. \A g \in Heads : \A a \in Line(f, g) : f[a] # o
    BY LinesLive, Pointing
  <2> QED
    BY <2>1, Pointing DEF Live
<1>3. \A a \in On(f, h) : e[a] = f[a] /\ f[a] \in On(f, h) \cup {0} /\ a # o
  BY LinesLive
<1>4. f[h] \in On(f, h) \cup {0}
  BY LinesLive
<1>5. On(e, h) = V
  <2>1. V \in SUBSET RecordsOf(e)
    BY OnFollows DEF RecordsOf
  <2>2. Follows(e, h, V)
    BY <1>3, <1>4 DEF Follows
  <2>3. ASSUME NEW W \in SUBSET V, Follows(e, h, W) PROVE V \subseteq W
    <3>1. o \in W
      BY <1>2, <2>3 DEF Follows
    <3>2. f[h] \in W \cup {0} /\ f[h] # o
      BY <3>1, <2>3, <1>4, <1>3, <1>2 DEF Follows
    <3>3. Follows(f, h, W \cap On(f, h))
      BY <1>3, <1>4, <3>2, <2>3 DEF Follows
    <3> QED
      BY <3>1, <3>3, OnLeast
  <2> QED
    BY <2>1, <2>2, <2>3, OnIs
<1>6. Live(e) = Live(f) \cup {o}
  <2>1. Line(e, h) = Line(f, h) \cup {o}
    BY <1>5 DEF Line
  <2> QED
    BY <1>1, <2>1 DEF Live
<1>7. Sound(e)
  <2> SUFFICES ASSUME NEW a \in Live(f) \cup {o}, NEW b \in Live(f) \cup {o}, e[a] = e[b], e[a] # 0
               PROVE  a = b
    BY <1>6 DEF Sound
  <2>1. h \in Live(f)
    BY LinesLive
  <2>2. CASE a = h
    BY <1>2, <2>1, <2>2
  <2>3. CASE b = h
    BY <1>2, <2>1, <2>3
  <2>4. CASE a # h /\ b # h
    <3> DEFINE s(x) == IF x = o THEN h ELSE x
    <3>1. s(a) \in Live(f) /\ s(b) \in Live(f) /\ f[s(a)] = e[a] /\ f[s(b)] = e[b]
      BY <2>1, <2>4
    <3>2. s(a) = s(b)
      BY <3>1 DEF Sound
    <3> QED
      BY <2>4, <3>2
  <2> QED
    BY <2>2, <2>3, <2>4
<1> QED
  BY <1>1, <1>5, <1>7

\* the record that a points to leaves its list
LEMMA Remove ==
  ASSUME NEW f, NEW e, PointerFn(f), PointerFn(e), DOMAIN f \subseteq DOMAIN e, Sound(f),
         NEW h \in Heads, NEW a \in Line(f, h), NEW o, f[a] = o, o # 0, e[a] = f[o],
         \A b \in Live(f) : b \notin {a, o} => e[b] = f[b]
  PROVE  /\ On(e, h) = On(f, h) \ {o} /\ Sound(e) /\ o \in On(f, h) /\ a # o /\ f[o] # o
         /\ a \in Line(e, h) /\ o \notin Live(e)
         /\ \A g \in Heads \ {h} : On(e, g) = On(f, g) /\ Line(e, g) = Line(f, g)
<1> DEFINE V == On(f, h) \ {o}
<1>1. o \in On(f, h) /\ a \in Live(f) /\ o \in Live(f)
  BY LinesLive
<1>2. \A b \in Live(f) : f[b] = o => b = a
  BY <1>1 DEF Sound
<1>3. a # o
  <2>1. PICK b \in Line(f, h) : f[b] = o /\ b # o
    BY <1>1, OnBefore
  <2> QED
    BY <1>2, <2>1, LinesLive
<1>4. f[o] # o
  BY <1>1, <1>2, <1>3
<1>5. \A g \in Heads \ {h} : On(e, g) = On(f, g) /\ Line(e, g) = Line(f, g)
  <2> SUFFICES ASSUME NEW g \in Heads \ {h} PROVE \A b \in Line(f, g) : e[b] = f[b]
    BY SameList
  <2>1. a \notin Line(f, g) /\ o \notin Line(f, g)
    BY <1>1, ListsApart, LinesLive
  <2> QED
    BY <2>1, LinesLive
<1>6. h # o /\ h \in Live(f) /\ \A b \in On(f, h) : b \in Live(f)
  BY <1>1, LinesLive
<1>7. \A b \in Line(f, h) : f[b] \in On(f, h) \cup {0}
  BY LinesLive
<1>8. \A b \in Line(f, h) \ {o} : e[b] \in V \cup {0} /\ (b # a => e[b] = f[b])
  <2> SUFFICES ASSUME NEW b \in Line(f, h) \ {o} PROVE e[b] \in V \cup {0} /\ (b # a => e[b] = f[b])
    OBVIOUS
  <2>1. CASE b = a
    <3>1. f[o] \in On(f, h) \cup {0}
      BY <1>1, <1>7 DEF Line
    <3> QED
      BY <2>1, <3>1, <1>4
  <2>2. CASE b # a
    <3>1. b \in Live(f)
      BY <1>6 DEF Line
    <3>2. e[b] = f[b] /\ f[b] # o
      BY <2>2, <3>1, <1>2
    <3> QED
      BY <3>2, <1>7
  <2> QED
    BY <2>1, <2>2
<1>9. On(e, h) = V
  <2>1. V \in SUBSET RecordsOf(e)
    BY OnFollows DEF RecordsOf
  <2>2. Follows(e, h, V)
    BY <1>6, <1>8 DEF Follows, Line
  <2>3. ASSUME NEW W \in SUBSET V, Follows(e, h, W) PROVE V \subseteq W
    <3>1. \A b \in W \cup {h} : e[b] \in W \cup {0} /\ b \in Line(f, h) \ {o}
      BY <2>3, <1>6 DEF Follows, Line
    <3>2. CASE a \in W \cup {h}
      <4>1. f[o] \in W \cup {0}
        BY <3>1, <3>2
      <4>2. \A b \in W \cup {h, o} : f[b] \in W \cup {0, o}
        BY <3>1, <4>1, <1>8
      <4>3. Follows(f, h, (W \cup {o}) \cap On(f, h))
        BY <4>2, <1>7 DEF Follows, Line
      <4>4. On(f, h) \subseteq W \cup {o}
        BY <4>3, OnLeast
      <4> QED
        BY <4>4
    <3>3. CASE a \notin W \cup {h}
      <4>1. Follows(f, h, W \cap On(f, h))
        BY <3>1, <3>3, <1>8, <1>7 DEF Follows, Line
      <4>2. On(f, h) \subseteq W
        BY <4>1, OnLeast
      <4> QED
        BY <4>2
    <3> QED
      BY <3>2, <3>3
  <2> QED
    BY <2>1, <2>2, <2>3, OnIs
<1>10. Live(e) = Live(f) \ {o}
  <2>1. Line(e, h) = Line(f, h) \ {o}
    BY <1>6, <1>9 DEF Line
  <2>2. \A g \in Heads \ {h} : o \notin Line(f, g)
    BY <1>1, ListsApart, LinesLive
  <2> QED
    BY <1>5, <2>1, <2>2 DEF Live
<1>11. Sound(e)
  <2> SUFFICES ASSUME NEW x \in Live(f) \ {o}, NEW y \in Live(f) \ {o}, e[x] = e[y], e[x] # 0
               PROVE  x = y
    BY <1>10 DEF Sound
  <2> DEFINE s(z) == IF z = a THEN o ELSE z
  <2>1. s(x) \in Live(f) /\ s(y) \in Live(f) /\ f[s(x)] = e[x] /\ f[s(y)] = e[y]
    BY <1>1
  <2>2. s(x) = s(y)
    BY <2>1 DEF Sound
  <2> QED
    BY <2>2
<1>12. a \in Line(e, h)
  BY <1>3, <1>9 DEF Line
<1> QED
  BY <1>1, <1>3, <1>4, <1>5, <1>9, <1>10, <1>11, <1>12

-----------------------------------------------------------------------------
(* Reach, computed by adding what the records found point to until nothing  *)
(* is new, is the list.                                                      *)

More(S) == (S \cup {NextOf(o) : o \in S}) \ {0}
Closes(c) == c = [S \in SUBSET Slots |-> IF More(S) = S THEN S ELSE c[More(S)]]

LEMMA CloseExists ==
  ASSUME \A o \in Slots : NextOf(o) \in Slots
  PROVE  \E c : Closes(c)
<1> DEFINE Closed(S, V) == More(S) \subseteq V /\ \A a \in V : NextOf(a) \in V \cup {0}
<1> DEFINE g == [S \in SUBSET Slots |-> {o \in Slots : \A V \in SUBSET Slots : Closed(S, V) => o \in V}]
<1>1. \A S \in SUBSET Slots : More(S) \in SUBSET Slots
  BY DEF More
<1>2. ASSUME NEW S \in SUBSET Slots, More(S) = S PROVE g[S] = S
  <2>1. \A a \in S : NextOf(a) \in S \cup {0}
    BY <1>2 DEF More
  <2>2. Closed(S, S)
    BY <1>2, <2>1
  <2>3. \A V \in SUBSET Slots : Closed(S, V) => S \subseteq V
    BY <1>2
  <2> QED
    BY <2>2, <2>3
<1>3. ASSUME NEW S \in SUBSET Slots PROVE g[S] = g[More(S)]
  <2>1. More(S) \subseteq More(More(S))
    BY DEF More
  <2>2. \A V \in SUBSET Slots : Closed(S, V) => More(More(S)) \subseteq V
    BY DEF More
  <2>3. \A V \in SUBSET Slots : Closed(S, V) <=> Closed(More(S), V)
    BY <2>1, <2>2
  <2> HIDE DEF Closed
  <2> QED
    BY <1>1, <2>3
<1> HIDE DEF Closed
<1>4. \A S \in SUBSET Slots : g[S] = IF More(S) = S THEN S ELSE g[More(S)]
  BY <1>2, <1>3
<1>5. Closes([S \in SUBSET Slots |-> {o \in Slots : \A V \in SUBSET Slots : Closed(S, V) => o \in V}])
  <2> HIDE DEF g
  <2>1. g = [S \in SUBSET Slots |-> g[S]]
    BY DEF g
  <2>2. g = [S \in SUBSET Slots |-> IF More(S) = S THEN S ELSE g[More(S)]]
    BY <1>4, <2>1
  <2> QED
    BY <2>2 DEF Closes, g
<1> QED
  BY <1>5

LEMMA ReachCloses ==
  ASSUME \A o \in Slots : NextOf(o) \in Slots, NEW h
  PROVE  \E c : Closes(c) /\ Reach(h) = c[{NextOf(h)} \ {0}]
<1>1. \E c : Closes(c)
  BY CloseExists
<1>2. Closes(CHOOSE c : Closes(c))
  BY <1>1
<1>3. Reach(h) = (CHOOSE c : Closes(c))[{NextOf(h)} \ {0}]
  BY DEF Reach, Closes, More
<1> QED
  BY <1>2, <1>3

LEMMA ReachIsOn ==
  ASSUME PointerFn(Nxt), NEW h \in Heads
  PROVE  Reach(h) = On(Nxt, h)
<1> DEFINE L == On(Nxt, h)
<1>1. DOMAIN Nxt = Slots /\ \A o \in Slots : Nxt[o] = NextOf(o) /\ NextOf(o) \in Slots
  <2>1. DOMAIN Nxt = Slots /\ \A o \in Slots : Nxt[o] = NextOf(o)
    BY DEF Nxt
  <2>2. 0 \in Slots
    BY <2>1, Pointing DEF FREE
  <2> QED
    BY <2>1, <2>2, Pointing
<1>2. PICK c : Closes(c) /\ Reach(h) = c[{NextOf(h)} \ {0}]
  BY <1>1, ReachCloses
<1>3. \A S \in SUBSET Slots : c[S] = IF More(S) = S THEN S ELSE c[More(S)]
  <2>1. c = [S \in SUBSET Slots |-> IF More(S) = S THEN S ELSE c[More(S)]]
    BY <1>2 DEF Closes
  <2> QED
    BY <2>1
<1>4. L \subseteq Slots /\ 0 \notin L /\ h \in Slots /\ NextOf(h) \in L \cup {0}
      /\ \A a \in L : NextOf(a) \in L \cup {0}
  <2>1. L \subseteq RecordsOf(Nxt) /\ Follows(Nxt, h, L)
    BY OnFollows
  <2>2. L \subseteq Slots /\ 0 \notin L /\ h \in Slots
    BY <1>1, <2>1, Pointing
  <2> QED
    BY <1>1, <2>1, <2>2 DEF Follows
<1>5. IsFiniteSet(L)
  <2>1. PICK n \in Nat : DOMAIN Nxt = 0 .. n
    BY DEF PointerFn
  <2>2. IsFiniteSet(0 .. n)
    BY FS_Interval
  <2>3. L \in SUBSET (0 .. n)
    BY <1>1, <1>4, <2>1
  <2> QED
    BY <2>2, <2>3, FS_Subset
<1> DEFINE Bad == {S \in SUBSET L : NextOf(h) \in S \cup {0} /\ c[S] # L}
<1>9. \A S \in SUBSET L : NextOf(h) \in S \cup {0} /\ More(S) = S => S = L
  <2> SUFFICES ASSUME NEW S \in SUBSET L, NextOf(h) \in S \cup {0}, More(S) = S PROVE S = L
    OBVIOUS
  <2>1. S \cap On(Nxt, h) = S /\ Nxt[h] = NextOf(h) /\ \A a \in S : Nxt[a] = NextOf(a)
    BY <1>1, <1>4
  <2>2. \A a \in S : NextOf(a) \in S \cup {0}
    BY DEF More
  <2>3. Follows(Nxt, h, S \cap On(Nxt, h))
    BY <2>1, <2>2 DEF Follows
  <2>4. On(Nxt, h) \subseteq S
    BY <2>3, OnLeast
  <2> QED
    BY <2>4
<1> HIDE DEF L
<1>6. ASSUME NEW S \in Bad
      PROVE  More(S) \in Bad /\ S \subseteq More(S) /\ S # More(S)
  <2>1. More(S) \subseteq L /\ S \subseteq More(S)
    BY <1>4, <1>6 DEF More
  <2>2. S \in SUBSET Slots
    BY <1>4, <1>6
  <2>3. S # More(S)
    BY <1>3, <1>6, <1>9, <2>2
  <2>4. c[S] = c[More(S)]
    BY <1>3, <2>2, <2>3
  <2> QED
    BY <1>6, <2>1, <2>3, <2>4
<1>7. Bad = {}
  <2> SUFFICES ASSUME Bad # {} PROVE FALSE
    OBVIOUS
  <2> DEFINE sizes == {Cardinality(S) + 1 : S \in Bad}
  <2>1. Cardinality(L) \in Nat
    BY <1>5, FS_CardinalityType
  <2>2. \A S \in SUBSET L : IsFiniteSet(S) /\ Cardinality(S) \in Nat /\ Cardinality(S) <= Cardinality(L)
    BY <1>5, FS_Subset, FS_CardinalityType
  <2>3. sizes \subseteq 1 .. (Cardinality(L) + 1) /\ sizes # {}
    BY <2>1, <2>2
  <2>4. PICK i \in sizes : \A j \in sizes : j <= i
    <3> HIDE DEF sizes
    <3>1. Cardinality(L) + 1 \in Nat
      BY <2>1
    <3> QED
      BY <2>3, <3>1, LargestExists
  <2>5. PICK S \in Bad : i = Cardinality(S) + 1
    OBVIOUS
  <2>6. More(S) \in Bad /\ S \subseteq More(S) /\ S # More(S)
    BY <1>6
  <2>7. Cardinality(More(S)) + 1 <= Cardinality(S) + 1
    BY <2>4, <2>5, <2>6
  <2>8. Cardinality(S) <= Cardinality(More(S)) /\ (Cardinality(S) = Cardinality(More(S)) => S = More(S))
    BY <2>2, <2>6, FS_Subset
  <2>9. Cardinality(S) \in Nat /\ Cardinality(More(S)) \in Nat
    BY <2>2, <2>6
  <2> QED
    BY <2>6, <2>7, <2>8, <2>9
<1>8. {NextOf(h)} \ {0} \in SUBSET L /\ NextOf(h) \in ({NextOf(h)} \ {0}) \cup {0}
  BY <1>4
<1> QED
  BY <1>2, <1>7, <1>8 DEF L

-----------------------------------------------------------------------------
(* Locks: what a step of p does to them, and what p holds after it.          *)

LockMove(p) ==
  \/ UNCHANGED locks \/ Exit(p)
  \/ \E l \in Locks : WriteLock(p, l) \/ ReadLock(p, l) \/ Unlock(p, l)
Turn(p) == Step(p) \/ Call(p) \/ Kill(p)

LEMMA ChainOf ==
  ASSUME IInv, NEW p \in Procs, pc[p] \in KeyLabels
  PROVE  /\ req[p] \in Keyed \cup Stores /\ req[p].key \in Keys /\ req[p].key # Blank
         /\ Chain(p) = Hash[req[p].key] /\ Chain(p) \in 1 .. NHash
         /\ Chain(p) \in Locks /\ Chain(p) \in Heads /\ Chain(p) \in Slots
         /\ Chain(p) # FREE /\ Chain(p) # DatFile /\ Chain(p) # IdxTail
<1>1. req[p] \in Keyed \cup Stores /\ FilesTyped
  BY AtHome DEF Fit, Request
<1>2. req[p].key \in Keys
  BY <1>1 DEF Keyed, Stores
<1>3. Chain(p) \in 1 .. NHash /\ Chain(p) \in Slots
  BY <1>1, KeyedRequest
<1> QED
  BY <1>1, <1>2, <1>3, LockNumbers, Constants DEF Chain, Heads, FREE

LEMMA StepMoves ==
  ASSUME IInv, NEW p \in Procs, Turn(p)
  PROVE  LockMove(p) /\ \A q \in Procs \ {p} : SameFor(q)
<1> DEFINE Goal == LockMove(p) /\ \A q \in Procs \ {p} : SameFor(q)
<1>1. ProcsTyped /\ FREE \in Locks /\ DatFile \in Locks /\ IdxTail \in Locks
  BY AtHome, LockNumbers
<1>2. pc[p] \in KeyLabels => Chain(p) \in Locks
  BY ChainOf
<1> USE DEF ProcsTyped, Goto, SameFor, LockMove
<1>3. CASE FindLock(p)
  BY <1>1, <1>2, <1>3 DEF FindLock, KeyLabels
<1>4. CASE FindHead(p)
  BY <1>1, <1>2, <1>4 DEF FindHead, NotFound
<1>5. CASE FindWalk(p)
  BY <1>1, <1>2, <1>5 DEF FindWalk, NotFound, Found
<1>6. CASE FetchDat(p)
  BY <1>1, <1>2, <1>6 DEF FetchDat
<1>7. CASE UnlockChain(p)
  BY <1>1, <1>2, <1>7 DEF UnlockChain, Return, KeyLabels
<1>8. CASE DelLock(p)
  BY <1>1, <1>2, <1>8 DEF DelLock
<1>9. CASE DelDat(p)
  BY <1>1, <1>2, <1>9 DEF DelDat
<1>10. CASE DelFree(p)
  BY <1>1, <1>2, <1>10 DEF DelFree
<1>11. CASE DelIdx(p)
  BY <1>1, <1>2, <1>11 DEF DelIdx
<1>12. CASE DelHead(p)
  BY <1>1, <1>2, <1>12 DEF DelHead
<1>13. CASE DelUnlink(p)
  BY <1>1, <1>2, <1>13 DEF DelUnlink
<1>14. CASE DelUnlock(p)
  BY <1>1, <1>2, <1>14 DEF DelUnlock
<1>15. CASE ReadChain(p)
  BY <1>1, <1>2, <1>15 DEF ReadChain
<1>16. CASE FreeLock(p)
  BY <1>1, <1>2, <1>16 DEF FreeLock
<1>17. CASE FreeHead(p)
  BY <1>1, <1>2, <1>17 DEF FreeHead
<1>18. CASE FreeWalk(p)
  BY <1>1, <1>2, <1>18 DEF FreeWalk
<1>19. CASE FreeTake(p)
  BY <1>1, <1>2, <1>19 DEF FreeTake
<1>20. CASE FreeUnlock(p)
  BY <1>1, <1>2, <1>20 DEF FreeUnlock
<1>21. CASE OverwriteDat(p)
  BY <1>1, <1>2, <1>21 DEF OverwriteDat
<1>22. CASE ReuseIdx(p)
  BY <1>1, <1>2, <1>22 DEF ReuseIdx
<1>23. CASE AppendLock(p)
  BY <1>1, <1>2, <1>23 DEF AppendLock
<1>24. CASE AppendSeek(p)
  BY <1>1, <1>2, <1>24 DEF AppendSeek
<1>25. CASE AppendWrite(p)
  BY <1>1, <1>2, <1>25 DEF AppendWrite
<1>26. CASE AppendUnlock(p)
  BY <1>1, <1>2, <1>26 DEF AppendUnlock
<1>27. CASE Publish(p)
  BY <1>1, <1>2, <1>27 DEF Publish
<1>28. CASE ScanLock(p)
  BY <1>1, <1>2, <1>28 DEF ScanLock
<1>29. CASE ScanIdx(p)
  BY <1>1, <1>2, <1>29 DEF ScanIdx
<1>30. CASE ScanDat(p)
  BY <1>1, <1>2, <1>30 DEF ScanDat
<1>31. CASE ScanUnlock(p)
  BY <1>1, <1>2, <1>31 DEF ScanUnlock, Return
<1>32. CASE Call(p)
  BY <1>1, <1>2, <1>32 DEF Call
<1>33. CASE Kill(p)
  BY <1>1, <1>2, <1>33 DEF Kill
<1> QED
  BY <1>3, <1>4, <1>5, <1>6, <1>7, <1>8, <1>9, <1>10, <1>11, <1>12, <1>13, <1>14, <1>15, <1>16, <1>17, <1>18, <1>19, <1>20, <1>21, <1>22, <1>23, <1>24, <1>25, <1>26, <1>27, <1>28, <1>29, <1>30, <1>31, <1>32, <1>33 DEF Turn, Step

LEMMA LocksKeep ==
  ASSUME IInv, Exclusive, NEW p \in Procs, LockMove(p)
  PROVE  /\ Exclusive'
         /\ \A q \in Procs \ {p} : \A l \in Locks :
              (q \in wr'[l] <=> q \in wr[l]) /\ (q \in rd'[l] <=> q \in rd[l])
<1>1. LocksTyped
  BY AtHome
<1>2. CASE UNCHANGED locks
  BY <1>2 DEF locks, Exclusive
<1>3. CASE Exit(p)
  BY <1>1, <1>3 DEF Exit, Exclusive, LocksTyped
<1>4. ASSUME NEW l \in Locks, WriteLock(p, l)
      PROVE  /\ Exclusive'
             /\ \A q \in Procs \ {p} : \A m \in Locks :
                  (q \in wr'[m] <=> q \in wr[m]) /\ (q \in rd'[m] <=> q \in rd[m])
  <2>1. rd' = rd /\ wr'[l] = {p} /\ \A m \in Locks : m # l => wr'[m] = wr[m]
    BY <1>1, <1>4 DEF WriteLock, LocksTyped
  <2>2. rd[l] \subseteq {p} /\ wr[l] \subseteq {p}
    BY <1>4 DEF WriteLock
  <2> QED
    BY <2>1, <2>2 DEF Exclusive
<1>5. ASSUME NEW l \in Locks, ReadLock(p, l)
      PROVE  /\ Exclusive'
             /\ \A q \in Procs \ {p} : \A m \in Locks :
                  (q \in wr'[m] <=> q \in wr[m]) /\ (q \in rd'[m] <=> q \in rd[m])
  <2>1. wr' = wr /\ rd'[l] = rd[l] \cup {p} /\ \A m \in Locks : m # l => rd'[m] = rd[m]
    BY <1>1, <1>5 DEF ReadLock, LocksTyped
  <2>2. wr[l] \subseteq {p}
    BY <1>5 DEF ReadLock
  <2> QED
    BY <2>1, <2>2 DEF Exclusive
<1>6. ASSUME NEW l \in Locks, Unlock(p, l)
      PROVE  /\ Exclusive'
             /\ \A q \in Procs \ {p} : \A m \in Locks :
                  (q \in wr'[m] <=> q \in wr[m]) /\ (q \in rd'[m] <=> q \in rd[m])
  <2>1. /\ wr'[l] = wr[l] \ {p} /\ rd'[l] = rd[l] \ {p}
        /\ \A m \in Locks : m # l => wr'[m] = wr[m] /\ rd'[m] = rd[m]
    BY <1>1, <1>6 DEF Unlock, LocksTyped
  <2> QED
    BY <2>1 DEF Exclusive
<1> QED
  BY <1>2, <1>3, <1>4, <1>5, <1>6 DEF LockMove

LEMMA OwnLocks ==
  ASSUME IInv, NEW p \in Procs, HasLocks(p), Turn(p)
  PROVE  HasLocks(p)'
<1>1. ProcsTyped /\ LocksTyped /\ FREE \in Locks /\ DatFile \in Locks /\ IdxTail \in Locks
      /\ FREE # DatFile /\ FREE # IdxTail
  BY AtHome, LockNumbers
<1>2. pc[p] \in KeyLabels => Chain(p) \in Locks /\ Chain(p) \notin {FREE, DatFile, IdxTail}
  BY ChainOf
<1>3. Request(pc[p], req[p])
  BY AtHome DEF Fit
<1> USE DEF ProcsTyped, Goto, HasLocks, ChainLabels, FreeHeld, KeyLabels, StoreLabels, DelLabels,
            FreeLabels, AppendLabels
<1>4. CASE FindLock(p)
  BY <1>1, <1>2, <1>3, <1>4 DEF FindLock, locks, Chain, WriteLock, ReadLock, LocksTyped
<1>5. CASE FindHead(p)
  BY <1>1, <1>2, <1>3, <1>5 DEF FindHead, NotFound, locks, Chain, Request, Keyed, Stores
<1>6. CASE FindWalk(p)
  BY <1>1, <1>2, <1>3, <1>6 DEF FindWalk, NotFound, Found, locks, Chain, Request, Keyed, Stores
<1>7. CASE FetchDat(p)
  BY <1>1, <1>2, <1>3, <1>7 DEF FetchDat, locks, Chain
<1>8. CASE UnlockChain(p)
  BY <1>1, <1>2, <1>3, <1>8 DEF UnlockChain, Return, locks, Chain, Unlock, LocksTyped
<1>9. CASE DelLock(p)
  BY <1>1, <1>2, <1>3, <1>9 DEF DelLock, locks, Chain, WriteLock, ReadLock, LocksTyped, Request, Keyed, Stores
<1>10. CASE DelDat(p)
  BY <1>1, <1>2, <1>3, <1>10 DEF DelDat, locks, Chain
<1>11. CASE DelFree(p)
  BY <1>1, <1>2, <1>3, <1>11 DEF DelFree, locks, Chain
<1>12. CASE DelIdx(p)
  BY <1>1, <1>2, <1>3, <1>12 DEF DelIdx, locks, Chain
<1>13. CASE DelHead(p)
  BY <1>1, <1>2, <1>3, <1>13 DEF DelHead, locks, Chain
<1>14. CASE DelUnlink(p)
  BY <1>1, <1>2, <1>3, <1>14 DEF DelUnlink, locks, Chain
<1>15. CASE DelUnlock(p)
  BY <1>1, <1>2, <1>3, <1>15 DEF DelUnlock, locks, Chain, Unlock, LocksTyped
<1>16. CASE ReadChain(p)
  BY <1>1, <1>2, <1>3, <1>16 DEF ReadChain, locks, Chain
<1>17. CASE FreeLock(p)
  BY <1>1, <1>2, <1>3, <1>17 DEF FreeLock, locks, Chain, WriteLock, ReadLock, LocksTyped
<1>18. CASE FreeHead(p)
  BY <1>1, <1>2, <1>3, <1>18 DEF FreeHead, locks, Chain
<1>19. CASE FreeWalk(p)
  BY <1>1, <1>2, <1>3, <1>19 DEF FreeWalk, locks, Chain
<1>20. CASE FreeTake(p)
  BY <1>1, <1>2, <1>3, <1>20 DEF FreeTake, locks, Chain
<1>21. CASE FreeUnlock(p)
  BY <1>1, <1>2, <1>3, <1>21 DEF FreeUnlock, locks, Chain, Unlock, LocksTyped
<1>22. CASE OverwriteDat(p)
  BY <1>1, <1>2, <1>3, <1>22 DEF OverwriteDat, locks, Chain
<1>23. CASE ReuseIdx(p)
  BY <1>1, <1>2, <1>3, <1>23 DEF ReuseIdx, locks, Chain
<1>24. CASE AppendLock(p)
  BY <1>1, <1>2, <1>3, <1>24 DEF AppendLock, locks, Chain, WriteLock, ReadLock, LocksTyped
<1>25. CASE AppendSeek(p)
  BY <1>1, <1>2, <1>3, <1>25 DEF AppendSeek, locks, Chain
<1>26. CASE AppendWrite(p)
  BY <1>1, <1>2, <1>3, <1>26 DEF AppendWrite, locks, Chain
<1>27. CASE AppendUnlock(p)
  BY <1>1, <1>2, <1>3, <1>27 DEF AppendUnlock, locks, Chain, Unlock, LocksTyped
<1>28. CASE Publish(p)
  BY <1>1, <1>2, <1>3, <1>28 DEF Publish, locks, Chain
<1>29. CASE ScanLock(p)
  BY <1>1, <1>2, <1>3, <1>29 DEF ScanLock, locks, Chain, WriteLock, ReadLock, LocksTyped
<1>30. CASE ScanIdx(p)
  BY <1>1, <1>2, <1>3, <1>30 DEF ScanIdx, locks, Chain
<1>31. CASE ScanDat(p)
  BY <1>1, <1>2, <1>3, <1>31 DEF ScanDat, locks, Chain
<1>32. CASE ScanUnlock(p)
  BY <1>1, <1>2, <1>3, <1>32 DEF ScanUnlock, Return, locks, Chain, Unlock, LocksTyped
<1>33. CASE Call(p)
  BY <1>1, <1>2, <1>3, <1>33 DEF Call, locks, Chain
<1>34. CASE Kill(p)
  BY <1>1, <1>2, <1>3, <1>34 DEF Kill, locks, Chain
<1> QED
  BY <1>4, <1>5, <1>6, <1>7, <1>8, <1>9, <1>10, <1>11, <1>12, <1>13, <1>14, <1>15, <1>16, <1>17, <1>18, <1>19, <1>20, <1>21, <1>22, <1>23, <1>24, <1>25, <1>26, <1>27, <1>28, <1>29, <1>30, <1>31, <1>32, <1>33, <1>34 DEF Turn, Step

LEMMA TurnNext ==
  ASSUME IInv, NEW p \in Procs, Turn(p)
  PROVE  IInv' /\ Grows
  BY NextOK DEF Turn, Next

LEMMA GuardedOK ==
  ASSUME IInv, Guarded, NEW p \in Procs, Turn(p)
  PROVE  Guarded'
<1>1. LockMove(p) /\ \A q \in Procs \ {p} : SameFor(q)
  BY StepMoves
<1>2. /\ Exclusive'
      /\ \A q \in Procs \ {p} : \A l \in Locks :
           (q \in wr'[l] <=> q \in wr[l]) /\ (q \in rd'[l] <=> q \in rd[l])
  BY <1>1, LocksKeep DEF Guarded
<1>3. HasLocks(p)'
  BY OwnLocks DEF Guarded
<1>4. ASSUME NEW q \in Procs \ {p} PROVE HasLocks(q)'
  <2>1. pc'[q] = pc[q] /\ req'[q] = req[q] /\ FREE \in Locks
    BY <1>1, LockNumbers DEF SameFor
  <2>2. HasLocks(q) /\ (pc[q] \in ChainLabels => Chain(q) \in Locks)
    BY ChainOf DEF Guarded, ChainLabels
  <2> QED
    BY <1>2, <2>1, <2>2 DEF HasLocks, Chain
<1> QED
  BY <1>2, <1>3, <1>4 DEF Guarded

-----------------------------------------------------------------------------
(* Data records belong to one index record each.                             *)

\* a write to an index record that exists, and one at the end of the file
LEMMA WriteInside ==
  ASSUME FilesTyped, NEW o, IsRec(o), NEW v, NEW r, WriteIdx(o, v, r)
  PROVE  /\ ptr' = [ptr EXCEPT ![o] = v] /\ rec' = [rec EXCEPT ![o - NHash] = r]
         /\ Len(rec') = Len(rec) /\ DOMAIN rec' = DOMAIN rec /\ IdxEnd' = IdxEnd /\ Slots' = Slots
<1>1. /\ Len(rec) \in Nat /\ DOMAIN rec = 1 .. Len(rec) /\ IdxEnd = NHash + Len(rec)
      /\ DOMAIN ptr = 0 .. NHash + Len(rec) /\ NHash \in Nat
      /\ o - NHash \in 1 .. Len(rec) /\ o \in 0 .. NHash + Len(rec)
  BY Domains, Constants DEF FilesTyped
<1>2. (IF o > IdxEnd THEN o ELSE IdxEnd) = IdxEnd /\ IdxEnd - NHash = Len(rec)
  BY <1>1
<1>3. /\ ptr' = [x \in 0 .. IdxEnd |-> IF x = o THEN v ELSE ptr[x]]
      /\ rec' = [i \in 1 .. Len(rec) |-> IF i = o - NHash THEN r ELSE rec[i]]
  BY <1>2 DEF WriteIdx
<1>4. ptr' = [ptr EXCEPT ![o] = v] /\ rec' = [rec EXCEPT ![o - NHash] = r]
  <2>1. ptr = [x \in 0 .. IdxEnd |-> ptr[x]]
    BY <1>1 DEF FilesTyped
  <2>2. rec = [i \in 1 .. Len(rec) |-> rec[i]]
    BY DEF FilesTyped
  <2> QED
    BY <1>1, <1>3, <2>1, <2>2
<1>5. Len(rec') = Len(rec) /\ DOMAIN rec' = DOMAIN rec
  BY <1>1, <1>3
<1> QED
  BY <1>4, <1>5 DEF IdxEnd, Slots

LEMMA WriteBeyond ==
  ASSUME FilesTyped, NEW o, o = IdxEnd + 1, NEW v, NEW r, WriteIdx(o, v, r)
  PROVE  /\ \A x \in Slots : x # o /\ ptr'[x] = ptr[x]
         /\ Len(rec') = Len(rec) + 1 /\ DOMAIN rec' = 1 .. Len(rec) + 1
         /\ \A i \in 1 .. Len(rec) : rec'[i] = rec[i]
         /\ ptr'[o] = v /\ Rec(o)' = r /\ o - NHash = Len(rec) + 1
         /\ IdxEnd' = IdxEnd + 1 /\ Slots' = Slots \cup {o} /\ o \in Nat /\ o > NHash
<1>1. /\ Len(rec) \in Nat /\ DOMAIN rec = 1 .. Len(rec) /\ IdxEnd = NHash + Len(rec)
      /\ NHash \in Nat /\ o - NHash = Len(rec) + 1 /\ Slots = 0 .. IdxEnd
  BY Domains, Constants DEF Slots
<1>2. (IF o > IdxEnd THEN o ELSE IdxEnd) = o
  BY <1>1
<1>3. /\ ptr' = [x \in 0 .. o |-> IF x = o THEN v ELSE ptr[x]]
      /\ rec' = [i \in 1 .. Len(rec) + 1 |-> IF i = Len(rec) + 1 THEN r ELSE rec[i]]
  BY <1>1, <1>2 DEF WriteIdx
<1>4. Len(rec') = Len(rec) + 1 /\ DOMAIN rec' = 1 .. Len(rec) + 1
  BY <1>1, <1>3
<1>5. IdxEnd' = IdxEnd + 1
  BY <1>1, <1>4 DEF IdxEnd
<1>6. Rec(o)' = r /\ \A i \in 1 .. Len(rec) : rec'[i] = rec[i]
  BY <1>1, <1>3 DEF Rec
<1>7. Slots' = Slots \cup {o}
  BY <1>1, <1>5 DEF Slots
<1>8. ptr'[o] = v /\ \A x \in Slots : x # o /\ ptr'[x] = ptr[x]
  BY <1>1, <1>3
<1> QED
  BY <1>1, <1>4, <1>5, <1>6, <1>7, <1>8

LEMMA DatKept ==
  ASSUME IInv, DatOnce, NEW p \in Procs, Turn(p), Len(rec') = Len(rec),
         Appends(pc'[p]) => Appends(pc[p]) /\ db'[p].datoff = db[p].datoff
  PROVE  DatOnce'
<1>1. DOMAIN rec' = DOMAIN rec /\ \A i \in DOMAIN rec : rec'[i].datoff = rec[i].datoff
  <2>1. Grows /\ FilesTyped /\ FilesTyped'
    BY TurnNext, AtHome DEF IInv, TypeOK
  <2>2. DOMAIN rec = 1 .. Len(rec) /\ DOMAIN rec' = 1 .. Len(rec')
    BY <2>1 DEF FilesTyped
  <2> QED
    BY <2>1, <2>2 DEF Grows
<1>2. \A q \in Procs : Appends(pc'[q]) => Appends(pc[q]) /\ db'[q].datoff = db[q].datoff
  BY StepMoves DEF SameFor
<1> QED
  BY <1>1, <1>2 DEF DatOnce

LEMMA DatWritten ==
  ASSUME IInv, DatOnce, NEW p \in Procs, AppendWrite(p)
  PROVE  DatOnce'
<1>1. /\ \A q \in Procs \ {p} : pc'[q] = pc[q] /\ db'[q] = db[q]
      /\ FilesTyped /\ Len(dat) \in Nat /\ Len(rec) \in Nat /\ DOMAIN rec = 1 .. Len(rec)
  BY StepMoves, AtHome, Domains DEF Turn, Step, SameFor
<1>2. CASE pc[p] = "dat_write"
  <2>1. pc'[p] = "dat_unlock" /\ rec' = rec /\ db' = db /\ db[p].datoff = Len(dat) + 1
    BY <1>2, AtHome DEF AppendWrite, Goto, ProcsTyped, Fit, Appending
  <2>2. \A i \in DOMAIN rec : rec[i].datoff # Len(dat) + 1
    BY <1>1 DEF IInv, Paired
  <2>3. \A q \in Procs : Appends(pc[q]) => db[q].datoff # Len(dat) + 1
    BY <1>1, AtHome DEF Fit, Appending, Appends
  <2> QED
    BY <1>1, <2>1, <2>2, <2>3 DEF DatOnce, Appends
<1>3. CASE pc[p] = "idx_write"
  <2>1. pc'[p] = "idx_unlock" /\ db'[p].datoff = db[p].datoff
        /\ WriteIdx(db[p].idxoff, loc[p].cptr, IdxOf(p, req[p].key)) /\ db[p].idxoff = IdxEnd + 1
    BY <1>3, AtHome DEF AppendWrite, Goto, ProcsTyped, Fit, Appending, Handles
  <2>2. /\ DOMAIN rec' = 1 .. Len(rec) + 1 /\ \A i \in 1 .. Len(rec) : rec'[i] = rec[i]
        /\ rec'[Len(rec) + 1] = IdxOf(p, req[p].key)
    BY <1>1, <2>1, WriteBeyond DEF Rec
  <2>3. rec'[Len(rec) + 1].datoff = db[p].datoff /\ Appends(pc[p])
    BY <2>2, <1>3 DEF IdxOf, Appends
  <2>4. \A i \in 1 .. Len(rec) : rec[i].datoff # db[p].datoff
    BY <1>1, <2>3 DEF DatOnce
  <2>5. \A i \in DOMAIN rec' : i \in 1 .. Len(rec) \/ i = Len(rec) + 1
    BY <1>1, <2>2
  <2>6. \A i, j \in DOMAIN rec' : rec'[i].datoff = rec'[j].datoff => i = j
    BY <1>1, <2>2, <2>3, <2>4, <2>5 DEF DatOnce
  <2>7. \A q \in Procs : Appends(pc'[q]) => q # p /\ Appends(pc[q]) /\ db'[q] = db[q]
    BY <1>1, <2>1 DEF Appends
  <2>8. \A q \in Procs : Appends(pc'[q]) => \A i \in DOMAIN rec' : rec'[i].datoff # db[q].datoff
    BY <1>1, <2>2, <2>3, <2>5, <2>7 DEF DatOnce
  <2> QED
    BY <2>6, <2>7, <2>8 DEF DatOnce
<1> QED
  BY <1>2, <1>3 DEF AppendWrite

LEMMA DatOnceOK ==
  ASSUME IInv, DatOnce, NEW p \in Procs, Turn(p)
  PROVE  DatOnce'
<1> DEFINE Kept == /\ Len(rec') = Len(rec)
                   /\ Appends(pc'[p]) => Appends(pc[p]) /\ db'[p].datoff = db[p].datoff
<1>1. ProcsTyped /\ FilesTyped /\ db[p] \in Handles /\ Handle(pc[p], req[p], db[p], loc[p])
  BY AtHome DEF Fit
<1> USE DEF ProcsTyped, Goto, Appends, files
<1>2. CASE FindLock(p)
  <2>1. Kept
    BY <1>1, <1>2 DEF FindLock
  <2> QED
    BY <2>1, DatKept
<1>3. CASE FindHead(p)
  <2>1. Kept
    BY <1>1, <1>3 DEF FindHead, NotFound
  <2> QED
    BY <2>1, DatKept
<1>4. CASE FindWalk(p)
  <2>1. Kept
    BY <1>1, <1>4 DEF FindWalk, NotFound, Found
  <2> QED
    BY <2>1, DatKept
<1>5. CASE FetchDat(p)
  <2>1. Kept
    BY <1>1, <1>5 DEF FetchDat
  <2> QED
    BY <2>1, DatKept
<1>6. CASE UnlockChain(p)
  <2>1. Kept
    BY <1>1, <1>6 DEF UnlockChain, Return
  <2> QED
    BY <2>1, DatKept
<1>7. CASE DelLock(p)
  <2>1. Kept
    BY <1>1, <1>7 DEF DelLock
  <2> QED
    BY <2>1, DatKept
<1>8. CASE DelDat(p)
  <2>1. Kept
    BY <1>1, <1>8 DEF DelDat
  <2> QED
    BY <2>1, DatKept
<1>9. CASE DelFree(p)
  <2>1. Kept
    BY <1>1, <1>9 DEF DelFree
  <2> QED
    BY <2>1, DatKept
<1>10. CASE DelHead(p)
  <2>1. Kept
    BY <1>1, <1>10 DEF DelHead
  <2> QED
    BY <2>1, DatKept
<1>11. CASE DelUnlink(p)
  <2>1. Kept
    BY <1>1, <1>11 DEF DelUnlink
  <2> QED
    BY <2>1, DatKept
<1>12. CASE DelUnlock(p)
  <2>1. Kept
    BY <1>1, <1>12 DEF DelUnlock
  <2> QED
    BY <2>1, DatKept
<1>13. CASE ReadChain(p)
  <2>1. Kept
    BY <1>1, <1>13 DEF ReadChain
  <2> QED
    BY <2>1, DatKept
<1>14. CASE FreeLock(p)
  <2>1. Kept
    BY <1>1, <1>14 DEF FreeLock
  <2> QED
    BY <2>1, DatKept
<1>15. CASE FreeHead(p)
  <2>1. Kept
    BY <1>1, <1>15 DEF FreeHead
  <2> QED
    BY <2>1, DatKept
<1>16. CASE FreeWalk(p)
  <2>1. Kept
    BY <1>1, <1>16 DEF FreeWalk
  <2> QED
    BY <2>1, DatKept
<1>17. CASE FreeTake(p)
  <2>1. Kept
    BY <1>1, <1>17 DEF FreeTake
  <2> QED
    BY <2>1, DatKept
<1>18. CASE FreeUnlock(p)
  <2>1. Kept
    BY <1>1, <1>18 DEF FreeUnlock
  <2> QED
    BY <2>1, DatKept
<1>19. CASE OverwriteDat(p)
  <2>1. Kept
    BY <1>1, <1>19 DEF OverwriteDat
  <2> QED
    BY <2>1, DatKept
<1>20. CASE AppendLock(p)
  <2>1. Kept
    BY <1>1, <1>20 DEF AppendLock
  <2> QED
    BY <2>1, DatKept
<1>21. CASE AppendSeek(p)
  <2>1. Kept
    BY <1>1, <1>21 DEF AppendSeek, Handles
  <2> QED
    BY <2>1, DatKept
<1>22. CASE AppendUnlock(p)
  <2>1. Kept
    BY <1>1, <1>22 DEF AppendUnlock
  <2> QED
    BY <2>1, DatKept
<1>23. CASE Publish(p)
  <2>1. Kept
    BY <1>1, <1>23 DEF Publish
  <2> QED
    BY <2>1, DatKept
<1>24. CASE ScanLock(p)
  <2>1. Kept
    BY <1>1, <1>24 DEF ScanLock
  <2> QED
    BY <2>1, DatKept
<1>25. CASE ScanIdx(p)
  <2>1. Kept
    BY <1>1, <1>25 DEF ScanIdx
  <2> QED
    BY <2>1, DatKept
<1>26. CASE ScanDat(p)
  <2>1. Kept
    BY <1>1, <1>26 DEF ScanDat
  <2> QED
    BY <2>1, DatKept
<1>27. CASE ScanUnlock(p)
  <2>1. Kept
    BY <1>1, <1>27 DEF ScanUnlock, Return
  <2> QED
    BY <2>1, DatKept
<1>28. CASE Call(p)
  <2>1. Kept
    BY <1>1, <1>28 DEF Call
  <2> QED
    BY <2>1, DatKept
<1>29. CASE Kill(p)
  <2>1. Kept
    BY <1>1, <1>29 DEF Kill
  <2> QED
    BY <2>1, DatKept
<1>30. CASE DelIdx(p)
  <2>1. IsRec(db[p].idxoff)
    BY <1>1, <1>30 DEF DelIdx, Handle, Describes, Taken
  <2>2. Len(rec') = Len(rec)
    BY <1>1, <1>30, <2>1, WriteInside DEF DelIdx
  <2>3. Kept
    BY <1>1, <1>30, <2>2 DEF DelIdx
  <2> QED
    BY <2>3, DatKept
<1>31. CASE ReuseIdx(p)
  <2>1. IsRec(db[p].idxoff)
    BY <1>1, <1>31 DEF ReuseIdx, Handle, Describes, Taken
  <2>2. Len(rec') = Len(rec)
    BY <1>1, <1>31, <2>1, WriteInside DEF ReuseIdx
  <2>3. Kept
    BY <1>1, <1>31, <2>2 DEF ReuseIdx
  <2> QED
    BY <2>3, DatKept
<1>32. CASE AppendWrite(p)
  BY <1>32, DatWritten
<1> QED
  BY <1>2, <1>3, <1>4, <1>5, <1>6, <1>7, <1>8, <1>9, <1>10, <1>11, <1>12, <1>13, <1>14, <1>15, <1>16, <1>17, <1>18, <1>19, <1>20, <1>21, <1>22, <1>23, <1>24, <1>25, <1>26, <1>27, <1>28, <1>29, <1>30, <1>31, <1>32 DEF Turn, Step

-----------------------------------------------------------------------------
(* What a process knows of the lists it has locked does not change.          *)

Agree(f, k, e, m, h) ==
  /\ On(e, h) = On(f, h)
  /\ \A a \in Line(f, h) : e[a] = f[a]
  /\ \A a \in On(f, h) : m[a] = k[a]

LEMMA KnowsKept ==
  ASSUME NEW l, NEW r, NEW h, NEW v, NEW f, NEW k, NEW e, NEW m,
         PointerFn(f), Knows(l, r, h, v, f, k), NHash \in Nat,
         l \in ChainLabels => Hash[r.key] \in Heads /\ Agree(f, k, e, m, Hash[r.key]),
         l \in FreeHeld => Agree(f, k, e, m, FREE),
         \A a \in Mine(l, h, v) : e[a] = f[a] /\ m[a] = k[a],
         l \in FoundLabels \cup {"free_take"} => h.idxoff # 0
  PROVE  Knows(l, r, h, v, e, m)
<1> USE DEF Agree
<1>1. FREE \in Heads
  BY DEF FREE, Heads
<1>2. \A g \in Heads : \A a \in Line(f, g) : f[a] # 0 => f[a] \in On(f, g) /\ f[a] \in Line(f, g)
  BY LinesLive
<1>3. \A g \in Heads : g \in Line(f, g) /\ \A a \in On(f, g) : a \in Line(f, g)
  BY LinesLive
<1>4. l \in FoundLabels \cup AbsentLabels \cup CptrLabels \cup TornLabels
        \cup {"find_walk", "idx_unlock", "publish"} => l \in ChainLabels
  BY DEF FoundLabels, AbsentLabels, CptrLabels, TornLabels, ChainLabels, KeyLabels, StoreLabels,
         DelLabels, FreeLabels, AppendLabels
<1>5. l \in {"del_idx", "del_head", "free_walk", "free_take"} => l \in FreeHeld
  BY DEF FreeHeld
<1>6. l \in ChainLabels => Line(e, Hash[r.key]) = Line(f, Hash[r.key])
  BY DEF Line
<1>7. l \in FreeHeld => Line(e, FREE) = Line(f, FREE)
  BY DEF Line
<1>8. Walked(l, r, h, v, e, m)
  <2> SUFFICES ASSUME l = "find_walk" PROVE Walked(l, r, h, v, e, m)
    BY DEF Walked
  <2>1. PICK V \in SUBSET On(f, Hash[r.key]) : Passed(r, v, f, k, V)
    BY DEF Knows, Walked
  <2>2. Passed(r, v, e, m, V)
    BY <2>1, <1>3, <1>4 DEF Passed
  <2> QED
    BY <2>2, <1>4, <1>6 DEF Knows, Walked
<1>9. Located(l, r, h, v, e, m)
  <2>1. l \in FoundLabels => h.idxoff \in On(f, Hash[r.key]) /\ h.idxoff \in Line(f, Hash[r.key])
    BY <1>2, <1>4 DEF Knows, Located
  <2>2. "del_idx" \in FoundLabels
    BY DEF FoundLabels
  <2> QED
    BY <1>1, <1>3, <1>4, <1>5, <1>6, <2>1, <2>2 DEF Knows, Located
<1>10. Leaving(l, r, h, v, e, m)
  BY <1>1, <1>3, <1>4, <1>5, <1>6 DEF Knows, Leaving, Mine
<1>11. Inserting(l, r, h, v, e, m)
  BY <1>3, <1>4, <1>6 DEF Knows, Inserting, Mine
<1>12. Searching(l, r, h, v, e, m)
  BY <1>1, <1>2, <1>5, <1>7 DEF Knows, Searching
<1> QED
  BY <1>8, <1>9, <1>10, <1>11, <1>12 DEF Knows

-----------------------------------------------------------------------------
(* The pointers of the file, and those of the lists.                         *)

LEMMA NxtOK ==
  ASSUME IInv
  PROVE  /\ PointerFn(Nxt) /\ DOMAIN Nxt = Slots /\ \A o : o \in RecordsOf(Nxt) <=> IsRec(o)
         /\ \A a \in Slots : (\A q \in Procs : Unlinking(q) => db[q].ptroff # a) => Nxt[a] = ptr[a]
         /\ \A a \in Slots : \/ Nxt[a] = ptr[a]
                             \/ \E q \in Procs : Unlinking(q) /\ db[q].ptroff = a /\ Nxt[a] = loc[q].saveptr
<1>1. FilesTyped /\ \A q \in Procs : loc[q].saveptr \in PtrVals
  BY AtHome DEF IInv, TypeOK, Fit, Pointers
<1>2. /\ Len(rec) \in Nat /\ IdxEnd = NHash + Len(rec) /\ Slots = 0 .. IdxEnd /\ First = NHash + 1
      /\ \A o \in Slots : ptr[o] \in PtrVals
      /\ NHash \in Nat
  BY <1>1, Domains, Constants DEF Slots
<1>3. \A a \in Slots : /\ NextOf(a) = ptr[a] \/ \E q \in Procs : Unlinking(q) /\ db[q].ptroff = a /\ NextOf(a) = loc[q].saveptr
                       /\ (\A q \in Procs : Unlinking(q) => db[q].ptroff # a) => NextOf(a) = ptr[a]
  <2> SUFFICES ASSUME NEW a \in Slots
               PROVE  /\ NextOf(a) = ptr[a] \/ \E q \in Procs : Unlinking(q) /\ db[q].ptroff = a /\ NextOf(a) = loc[q].saveptr
                      /\ (\A q \in Procs : Unlinking(q) => db[q].ptroff # a) => NextOf(a) = ptr[a]
    OBVIOUS
  <2> DEFINE cut == {q \in Procs : Unlinking(q) /\ db[q].ptroff = a}
  <2>1. CASE cut = {}
    BY <2>1 DEF NextOf
  <2>2. CASE cut # {}
    <3>1. PICK q : q = (CHOOSE p \in cut : TRUE)
      OBVIOUS
    <3>2. q \in cut
      BY <2>2, <3>1
    <3>3. NextOf(a) = loc[q].saveptr
      BY <2>2, <3>1 DEF NextOf
    <3> QED
      BY <3>2, <3>3
  <2> QED
    BY <2>1, <2>2
<1>4. DOMAIN Nxt = Slots /\ \A a \in Slots : Nxt[a] = NextOf(a) /\ Nxt[a] \in PtrVals
  BY <1>1, <1>2, <1>3 DEF Nxt
<1>5. PtrVals = {0} \cup ((NHash + 1) .. IdxEnd)
  BY <1>2 DEF PtrVals
<1>6. Nxt \in [0 .. IdxEnd -> {0} \cup ((NHash + 1) .. IdxEnd)]
  <2>1. Nxt = [a \in Slots |-> Nxt[a]]
    BY DEF Nxt
  <2> QED
    BY <1>2, <1>4, <1>5, <2>1
<1>7. PointerFn(Nxt)
  <2>1. IdxEnd \in Nat /\ IdxEnd >= NHash
    BY <1>2
  <2> QED
    BY <1>6, <2>1 DEF PointerFn
<1>8. \A o : o \in RecordsOf(Nxt) <=> IsRec(o)
  BY <1>2, <1>4 DEF RecordsOf, IsRec
<1> QED
  BY <1>3, <1>4, <1>7, <1>8

LEMMA WriterOf ==
  ASSUME IInv, NEW p \in Procs, HasLocks(p), pc[p] \in DelLabels \cup StoreLabels
  PROVE  p \in wr[Chain(p)] /\ pc[p] \in ChainLabels /\ pc[p] \in KeyLabels /\ req[p].op # "fetch"
<1>1. pc[p] \in ChainLabels /\ pc[p] \in KeyLabels
  BY DEF ChainLabels, KeyLabels, DelLabels, StoreLabels, FreeLabels, AppendLabels
<1>2. req[p].op # "fetch"
  BY AtHome DEF Fit, Request, Stores
<1> QED
  BY <1>1, <1>2 DEF HasLocks

LEMMA CutterOf ==
  ASSUME LInv, ~torn, NEW q \in Procs, Unlinking(q)
  PROVE  /\ db[q].ptroff \in Line(Nxt, Chain(q)) /\ Chain(q) \in Heads /\ Chain(q) # FREE
         /\ Chain(q) \in Locks /\ q \in wr[Chain(q)] /\ q \in wr[FREE]
<1>1. pc[q] \in DelLabels /\ pc[q] \in TornLabels /\ pc[q] \in FreeHeld
  BY DEF Unlinking, TornLabels, DelLabels, FreeHeld
<1>2. IInv /\ HasLocks(q) /\ Leaving(pc[q], req[q], db[q], loc[q], Nxt, KeyAt)
  BY DEF LInv, Guarded, Lists, Knows
<1>3. pc[q] \in KeyLabels /\ q \in wr[Chain(q)]
  BY <1>1, <1>2, WriterOf
<1> QED
  BY <1>1, <1>2, <1>3, ChainOf DEF HasLocks, Leaving

LEMMA MineIsRec ==
  ASSUME IInv, NEW p \in Procs
  PROVE  \A a \in MineOf(p) : IsRec(a) /\ a \in Slots /\ a # 0
<1>1. Handle(pc[p], req[p], db[p], loc[p]) /\ FilesTyped
  BY AtHome DEF Fit
<1>2. \A a \in MineOf(p) : IsRec(a)
  BY <1>1 DEF MineOf, Mine, Handle, Taken, Describes
<1> QED
  BY <1>1, <1>2, Domains

LEMMA PtrAt ==
  ASSUME LInv, ~torn
  PROVE  /\ \A a \in Line(Nxt, FREE) : Nxt[a] = ptr[a]
         /\ \A p \in Procs : pc[p] \in ChainLabels /\ ~Unlinking(p) =>
              \A a \in Line(Nxt, Chain(p)) : Nxt[a] = ptr[a]
         /\ \A p \in Procs : \A a \in MineOf(p) : Nxt[a] = ptr[a]
<1>1. IInv /\ Exclusive /\ Sound(Nxt) /\ Apart /\ \A p \in Procs : HasLocks(p)
  BY DEF LInv, Lists, Guarded
<1>2. /\ PointerFn(Nxt) /\ DOMAIN Nxt = Slots /\ FREE \in Heads
      /\ \A a \in Slots : (\A q \in Procs : Unlinking(q) => db[q].ptroff # a) => Nxt[a] = ptr[a]
  BY <1>1, NxtOK, Constants DEF FREE, Heads
<1>3. \A h \in Heads : Line(Nxt, h) \subseteq Slots /\ Line(Nxt, h) \subseteq Live(Nxt)
  BY <1>2, LinesLive
<1>4. ASSUME NEW h \in Heads, \A q \in Procs : Unlinking(q) => Chain(q) # h, NEW a \in Line(Nxt, h)
      PROVE  Nxt[a] = ptr[a]
  <2>1. \A q \in Procs : Unlinking(q) => db[q].ptroff # a
    BY <1>1, <1>2, <1>4, CutterOf, ListsApart
  <2> QED
    BY <1>2, <1>3, <2>1
<1>5. \A a \in Line(Nxt, FREE) : Nxt[a] = ptr[a]
  BY <1>2, <1>4, CutterOf
<1>6. ASSUME NEW p \in Procs, pc[p] \in ChainLabels, ~Unlinking(p)
      PROVE  \A a \in Line(Nxt, Chain(p)) : Nxt[a] = ptr[a]
  <2>1. Chain(p) \in Heads /\ Chain(p) \in Locks /\ p \in rd[Chain(p)] \cup wr[Chain(p)]
    BY <1>1, <1>6, ChainOf DEF HasLocks, ChainLabels
  <2>2. \A q \in Procs : Unlinking(q) => Chain(q) # Chain(p)
    BY <1>1, <1>6, <2>1, CutterOf DEF Exclusive
  <2> QED
    BY <1>4, <2>1, <2>2
<1>7. ASSUME NEW p \in Procs, NEW a \in MineOf(p) PROVE Nxt[a] = ptr[a]
  <2>1. a \in Slots /\ a \notin Live(Nxt)
    BY <1>1, MineIsRec DEF Apart
  <2>2. \A q \in Procs : Unlinking(q) => db[q].ptroff # a
    BY <1>3, <2>1, CutterOf
  <2> QED
    BY <1>2, <2>1, <2>2
<1> QED
  BY <1>5, <1>6, <1>7

-----------------------------------------------------------------------------
(* A step of p keeps the lists well formed if it touches only those it has   *)
(* locked, takes no record of another process, and ends where it knows what  *)
(* its label says.                                                           *)

LEMMA ListsStep ==
  ASSUME LInv, ~torn, NEW p \in Procs, Turn(p), Sound(Nxt)', Placed(Nxt, KeyAt)',
         \A h \in Heads : p \notin wr[h] => Agree(Nxt, KeyAt, Nxt', KeyAt', h),
         \A q \in Procs \ {p} : \A a \in MineOf(q) : Nxt'[a] = Nxt[a] /\ KeyAt'[a] = KeyAt[a],
         Live(Nxt)' \subseteq Live(Nxt) \cup MineOf(p),
         MineOf(p)' \cap Live(Nxt)' = {},
         \A q \in Procs \ {p} : MineOf(p)' \cap MineOf(q) = {},
         Knows(pc[p], req[p], db[p], loc[p], Nxt, KeyAt)'
  PROVE  LInv'
<1>1. IInv /\ Exclusive /\ Guarded /\ DatOnce /\ Apart /\ \A q \in Procs : HasLocks(q)
  BY DEF LInv, Lists, Guarded
<1>2. IInv' /\ Guarded' /\ DatOnce' /\ \A q \in Procs \ {p} : SameFor(q)
  BY <1>1, TurnNext, GuardedOK, DatOnceOK, StepMoves
<1>3. \A q \in Procs \ {p} : MineOf(q)' = MineOf(q)
  BY <1>2 DEF SameFor, MineOf
<1>4. Apart'
  <2> SUFFICES ASSUME NEW q \in Procs
               PROVE  /\ MineOf(q)' \cap Live(Nxt)' = {}
                      /\ \A s \in Procs : q # s => MineOf(q)' \cap MineOf(s)' = {}
    BY DEF Apart
  <2>1. CASE q = p
    BY <1>3, <2>1
  <2>2. CASE q # p
    <3>1. MineOf(q)' \cap Live(Nxt)' = {}
      BY <1>1, <1>3, <2>2 DEF Apart
    <3>2. \A s \in Procs : q # s => MineOf(q)' \cap MineOf(s)' = {}
      BY <1>1, <1>3, <2>2 DEF Apart
    <3> QED
      BY <3>1, <3>2
  <2> QED
    BY <2>1, <2>2
<1>5. ASSUME NEW q \in Procs \ {p}
      PROVE  Knows(pc[q], req[q], db[q], loc[q], Nxt, KeyAt)'
  <2>1. pc'[q] = pc[q] /\ req'[q] = req[q] /\ db'[q] = db[q] /\ loc'[q] = loc[q]
    BY <1>2 DEF SameFor
  <2>2. PointerFn(Nxt) /\ NHash \in Nat
    BY <1>1, NxtOK, Constants
  <2>3. pc[q] \in ChainLabels => Hash[req[q].key] \in Heads /\ Agree(Nxt, KeyAt, Nxt', KeyAt', Hash[req[q].key])
    <3> SUFFICES ASSUME pc[q] \in ChainLabels
                 PROVE  Hash[req[q].key] \in Heads /\ Agree(Nxt, KeyAt, Nxt', KeyAt', Hash[req[q].key])
      OBVIOUS
    <3>1. Chain(q) \in Heads /\ Chain(q) \in Locks /\ q \in rd[Chain(q)] \cup wr[Chain(q)]
          /\ Chain(q) = Hash[req[q].key]
      BY <1>1, ChainOf DEF HasLocks, ChainLabels
    <3>2. p \notin wr[Chain(q)]
      BY <1>1, <3>1 DEF Exclusive
    <3> QED
      BY <3>1, <3>2
  <2>4. pc[q] \in FreeHeld => Agree(Nxt, KeyAt, Nxt', KeyAt', FREE)
    <3>1. FREE \in Heads /\ FREE \in Locks
      BY Constants, LockNumbers DEF FREE, Heads
    <3>2. pc[q] \in FreeHeld => p \notin wr[FREE]
      BY <1>1, <3>1 DEF Exclusive, HasLocks
    <3> QED
      BY <3>1, <3>2
  <2>5. pc[q] \in FoundLabels \cup {"free_take"} => db[q].idxoff # 0
    <3>1. pc[q] \in FoundLabels \cup {"free_take"} => IsRec(db[q].idxoff)
      BY <1>1, AtHome DEF Fit, Handle, Taken, Describes, FoundLabels
    <3>2. FilesTyped
      BY <1>1, AtHome
    <3> QED
      BY <3>1, <3>2, Domains
  <2>6. Knows(pc[q], req[q], db[q], loc[q], Nxt, KeyAt)
    BY DEF LInv, Lists
  <2>7. \A a \in Mine(pc[q], db[q], loc[q]) : Nxt'[a] = Nxt[a] /\ KeyAt'[a] = KeyAt[a]
    BY DEF MineOf
  <2>8. PICK l, r, h, v, f, k, e, m :
          /\ l = pc[q] /\ r = req[q] /\ h = db[q] /\ v = loc[q]
          /\ f = Nxt /\ k = KeyAt /\ e = Nxt' /\ m = KeyAt'
    OBVIOUS
  <2>9. Knows(l, r, h, v, e, m)
    BY <2>2, <2>3, <2>4, <2>5, <2>6, <2>7, <2>8, KnowsKept
  <2>10. l = pc'[q] /\ r = req'[q] /\ h = db'[q] /\ v = loc'[q] /\ e = Nxt' /\ m = KeyAt'
    BY <2>1, <2>8
  <2> QED
    BY <2>9, <2>10
<1>6. Lists'
  BY <1>4, <1>5 DEF Lists
<1> QED
  BY <1>2, <1>6 DEF LInv

-----------------------------------------------------------------------------
(* Steps that leave the lists alone.                                         *)

LEMMA NextKept ==
  ASSUME NEW p \in Procs, ~Unlinking(p), ~Unlinking(p)', \A q \in Procs \ {p} : SameFor(q),
         NEW a, ptr'[a] = ptr[a]
  PROVE  NextOf(a)' = NextOf(a)
<1> DEFINE cut == {q \in Procs : Unlinking(q) /\ db[q].ptroff = a}
<1>1. \A q \in Procs \ {p} : (Unlinking(q)' <=> Unlinking(q)) /\ db'[q] = db[q] /\ loc'[q] = loc[q]
  BY DEF SameFor, Unlinking
<1>2. cut' = cut
  BY <1>1
<1>3. CASE cut = {}
  BY <1>2, <1>3 DEF NextOf
<1>4. CASE cut # {}
  <2>1. PICK s : s = cut
    OBVIOUS
  <2>2. PICK q : q = CHOOSE x \in s : TRUE
    OBVIOUS
  <2>3. q \in cut /\ q \in Procs \ {p}
    BY <1>4, <2>1, <2>2
  <2>4. NextOf(a) = loc[q].saveptr /\ NextOf(a)' = loc'[q].saveptr
    BY <1>2, <1>4, <2>1, <2>2 DEF NextOf
  <2> QED
    BY <1>1, <2>3, <2>4
<1> QED
  BY <1>3, <1>4

LEMMA QuietLists ==
  ASSUME LInv, ~torn, NEW p \in Procs, Turn(p), Nxt' = Nxt, KeyAt' = KeyAt,
         MineOf(p)' \subseteq MineOf(p),
         Knows(pc'[p], req'[p], db'[p], loc'[p], Nxt, KeyAt)
  PROVE  LInv'
<1>1. Sound(Nxt)' /\ Placed(Nxt, KeyAt)' /\ Live(Nxt)' = Live(Nxt) /\ Apart
      /\ Knows(pc[p], req[p], db[p], loc[p], Nxt, KeyAt)'
  BY DEF LInv, Lists
<1>2. \A h \in Heads : Agree(Nxt, KeyAt, Nxt', KeyAt', h)
  BY DEF Agree
<1>3. MineOf(p)' \cap Live(Nxt)' = {} /\ \A q \in Procs \ {p} : MineOf(p)' \cap MineOf(q) = {}
  BY <1>1 DEF Apart
<1>4. \A q \in Procs \ {p} : \A a \in MineOf(q) : Nxt'[a] = Nxt[a] /\ KeyAt'[a] = KeyAt[a]
  OBVIOUS
<1> QED
  BY <1>1, <1>2, <1>3, <1>4, ListsStep

LEMMA QuietNext ==
  ASSUME IInv, NEW p \in Procs, Turn(p), ptr' = ptr, rec' = rec,
         pc[p] \notin TornLabels, pc'[p] \notin TornLabels
  PROVE  Nxt' = Nxt /\ KeyAt' = KeyAt
<1>1. \A q \in Procs \ {p} : SameFor(q)
  BY StepMoves
<1>2. Slots' = Slots /\ KeyAt' = KeyAt
  BY DEF Slots, IdxEnd, KeyAt, Rec
<1>3. \A a \in Slots : NextOf(a)' = NextOf(a)
  BY <1>1, NextKept DEF Unlinking
<1> QED
  BY <1>2, <1>3 DEF Nxt

LEMMA QuietTurn ==
  ASSUME LInv, ~torn, NEW p \in Procs, Turn(p), ptr' = ptr, rec' = rec,
         pc[p] \notin TornLabels, pc'[p] \notin TornLabels,
         MineOf(p)' \subseteq MineOf(p),
         Knows(pc'[p], req'[p], db'[p], loc'[p], Nxt, KeyAt)
  PROVE  LInv'
  BY QuietNext, QuietLists DEF LInv

LEMMA TornTurn ==
  ASSUME LInv, NEW p \in Procs, Turn(p), torn'
  PROVE  LInv'
  BY TurnNext, GuardedOK, DatOnceOK DEF LInv

\* labels at which nothing is known of the lists
BareLabels == {"idle", "dead", "find_lock", "find_head", "unlock"} \cup ScanLabels
LEMMA KnowsNothing ==
  ASSUME NEW l \in BareLabels, NEW r, NEW h, NEW v, NEW f, NEW k
  PROVE  Knows(l, r, h, v, f, k) /\ Mine(l, h, v) = {} /\ l \notin TornLabels
  BY DEF Knows, Walked, Located, Leaving, Inserting, Searching, Mine, FoundLabels, TornLabels,
         AbsentLabels, CptrLabels, StoreLabels, FreeLabels, AppendLabels, BareLabels, ScanLabels

\* labels at which a record was found, and those at which there is none
LEMMA KnowsFound ==
  ASSUME NEW l \in {"fetch_dat", "over_dat", "del_lock", "del_dat", "del_free"},
         NEW r, NEW h, NEW v, NEW f, NEW k,
         h.ptroff \in Line(f, Hash[r.key]), f[h.ptroff] = h.idxoff,
         k[h.idxoff] = r.key, h.ptrval = f[h.idxoff]
  PROVE  Knows(l, r, h, v, f, k) /\ Mine(l, h, v) = {} /\ l \notin TornLabels
  BY DEF Knows, Walked, Located, Leaving, Inserting, Searching, Mine, TornLabels,
         AbsentLabels, CptrLabels, StoreLabels, FreeLabels, AppendLabels

PlainLabels ==
  {"del_unlock", "sto_ptr", "sto_reread", "free_lock", "free_head", "free_unlock", "dat_lock",
   "dat_seek", "dat_write", "dat_unlock", "idx_lock", "idx_seek", "idx_write", "reuse_dat",
   "reuse_idx"}
LEMMA KnowsAbsent ==
  ASSUME NEW l \in PlainLabels, NEW r, NEW h, NEW v, NEW f, NEW k,
         \A o \in On(f, Hash[r.key]) : k[o] # r.key,
         l \notin {"del_unlock", "sto_ptr", "sto_reread"} => v.cptr = f[Hash[r.key]]
  PROVE  Knows(l, r, h, v, f, k) /\ l \notin TornLabels
  BY DEF Knows, Walked, Located, Leaving, Inserting, Searching, TornLabels, PlainLabels,
         FoundLabels, AbsentLabels, CptrLabels, StoreLabels, FreeLabels, AppendLabels

\* what is known at a label, in each case
LEMMA KnowsAt ==
  ASSUME LInv, ~torn, NEW p \in Procs
  PROVE  /\ Knows(pc[p], req[p], db[p], loc[p], Nxt, KeyAt)
         /\ pc[p] \in FoundLabels =>
              /\ db[p].ptroff \in Line(Nxt, Hash[req[p].key]) /\ Nxt[db[p].ptroff] = db[p].idxoff
              /\ KeyAt[db[p].idxoff] = req[p].key /\ db[p].ptrval = Nxt[db[p].idxoff]
         /\ pc[p] \in PlainLabels \cup {"free_walk", "free_take", "idx_unlock", "publish"} =>
              /\ \A o \in On(Nxt, Hash[req[p].key]) : KeyAt[o] # req[p].key
              /\ pc[p] \notin {"del_unlock", "sto_ptr", "sto_reread"} =>
                   loc[p].cptr = Nxt[Hash[req[p].key]]
<1>1. Knows(pc[p], req[p], db[p], loc[p], Nxt, KeyAt)
  BY DEF LInv, Lists
<1>2. PlainLabels \cup {"free_walk", "free_take", "idx_unlock", "publish"} \subseteq AbsentLabels
      /\ (PlainLabels \cup {"free_walk", "free_take", "idx_unlock", "publish"})
           \ {"del_unlock", "sto_ptr", "sto_reread"} \subseteq CptrLabels
  BY DEF PlainLabels, AbsentLabels, CptrLabels, StoreLabels, FreeLabels, AppendLabels
<1> QED
  BY <1>1, <1>2 DEF Knows, Located, Inserting

LEMMA ToBare ==
  ASSUME LInv, ~torn, NEW p \in Procs, Turn(p), ptr' = ptr, rec' = rec,
         pc[p] \notin TornLabels, pc'[p] \in BareLabels
  PROVE  LInv'
<1>1. PICK l, r, h, v, f, k :
        /\ l = pc'[p] /\ r = req'[p] /\ h = db'[p] /\ v = loc'[p] /\ f = Nxt /\ k = KeyAt
  OBVIOUS
<1>2. Knows(l, r, h, v, f, k) /\ Mine(l, h, v) = {} /\ l \notin TornLabels
  BY <1>1, KnowsNothing
<1>3. MineOf(p)' = Mine(l, h, v)
  BY <1>1 DEF MineOf
<1> QED
  BY <1>1, <1>2, <1>3, QuietTurn

LEMMA ToFound ==
  ASSUME LInv, ~torn, NEW p \in Procs, Turn(p), ptr' = ptr, rec' = rec,
         pc[p] \notin TornLabels,
         pc'[p] \in {"fetch_dat", "over_dat", "del_lock", "del_dat", "del_free"}, req'[p] = req[p],
         db'[p].ptroff \in Line(Nxt, Hash[req[p].key]), Nxt[db'[p].ptroff] = db'[p].idxoff,
         KeyAt[db'[p].idxoff] = req[p].key, db'[p].ptrval = Nxt[db'[p].idxoff]
  PROVE  LInv'
<1>1. PICK l, r, h, v, f, k :
        /\ l = pc'[p] /\ r = req'[p] /\ h = db'[p] /\ v = loc'[p] /\ f = Nxt /\ k = KeyAt
  OBVIOUS
<1>2. Knows(l, r, h, v, f, k) /\ Mine(l, h, v) = {} /\ l \notin TornLabels
  <2>1. /\ l \in {"fetch_dat", "over_dat", "del_lock", "del_dat", "del_free"}
        /\ h.ptroff \in Line(f, Hash[r.key]) /\ f[h.ptroff] = h.idxoff
        /\ k[h.idxoff] = r.key /\ h.ptrval = f[h.idxoff]
    BY <1>1
  <2> QED
    BY <2>1, KnowsFound
<1>3. MineOf(p)' = Mine(l, h, v)
  BY <1>1 DEF MineOf
<1> QED
  BY <1>1, <1>2, <1>3, QuietTurn

LEMMA ToPlain ==
  ASSUME LInv, ~torn, NEW p \in Procs, Turn(p), ptr' = ptr, rec' = rec,
         pc[p] \notin TornLabels, pc'[p] \in PlainLabels, req'[p] = req[p],
         \A o \in On(Nxt, Hash[req[p].key]) : KeyAt[o] # req[p].key,
         pc'[p] \notin {"del_unlock", "sto_ptr", "sto_reread"} =>
           loc'[p].cptr = Nxt[Hash[req[p].key]],
         MineOf(p)' \subseteq MineOf(p)
  PROVE  LInv'
<1>1. PICK l, r, h, v, f, k :
        /\ l = pc'[p] /\ r = req'[p] /\ h = db'[p] /\ v = loc'[p] /\ f = Nxt /\ k = KeyAt
  OBVIOUS
<1>2. Knows(l, r, h, v, f, k) /\ l \notin TornLabels
  <2>1. /\ l \in PlainLabels /\ \A o \in On(f, Hash[r.key]) : k[o] # r.key
        /\ l \notin {"del_unlock", "sto_ptr", "sto_reread"} => v.cptr = f[Hash[r.key]]
    BY <1>1
  <2> QED
    BY <2>1, KnowsAbsent
<1> QED
  BY <1>1, <1>2, QuietTurn

\* steps to a label where nothing need be known
LEMMA BareOK ==
  ASSUME LInv, ~torn, NEW p \in Procs,
         \/ FindLock(p) \/ FetchDat(p) \/ UnlockChain(p) \/ Call(p)
         \/ ScanLock(p) \/ ScanIdx(p) \/ ScanDat(p) \/ ScanUnlock(p)
         \/ (Publish(p) /\ db[p].idxoff > PtrMax)
         \/ (Kill(p) /\ ~torn')
         \/ (OverwriteDat(p) /\ pc[p] = "over_dat")
         \/ (DelUnlock(p) /\ req[p].op = "delete")
  PROVE  LInv'
<1>1. ProcsTyped /\ db[p].idxoff \in Nat /\ PtrMax \in Nat
  BY AtHome, ConstantsAssumption DEF LInv, Handles
<1>2. ptr' = ptr /\ rec' = rec /\ pc'[p] \in BareLabels /\ pc[p] \notin TornLabels /\ Turn(p)
  <2>1. CASE FindLock(p)
    BY <1>1, <2>1 DEF FindLock, ProcsTyped, Goto, files, BareLabels, ScanLabels, TornLabels, Turn, Step
  <2>2. CASE FetchDat(p)
    BY <1>1, <2>2 DEF FetchDat, ProcsTyped, Goto, files, BareLabels, ScanLabels, TornLabels, Turn, Step
  <2>3. CASE UnlockChain(p)
    BY <1>1, <2>3 DEF UnlockChain, Return, ProcsTyped, Goto, files, BareLabels, ScanLabels, TornLabels, Turn, Step
  <2>4. CASE Call(p)
    BY <1>1, <2>4 DEF Call, ProcsTyped, Goto, files, BareLabels, ScanLabels, TornLabels, Turn, Step
  <2>5. CASE ScanLock(p)
    BY <1>1, <2>5 DEF ScanLock, ProcsTyped, Goto, files, BareLabels, ScanLabels, TornLabels, Turn, Step
  <2>6. CASE ScanIdx(p)
    BY <1>1, <2>6 DEF ScanIdx, ProcsTyped, Goto, files, BareLabels, ScanLabels, TornLabels, Turn, Step
  <2>7. CASE ScanDat(p)
    BY <1>1, <2>7 DEF ScanDat, ProcsTyped, Goto, files, BareLabels, ScanLabels, TornLabels, Turn, Step
  <2>8. CASE ScanUnlock(p)
    BY <1>1, <2>8 DEF ScanUnlock, Return, ProcsTyped, Goto, files, BareLabels, ScanLabels, TornLabels, Turn, Step
  <2>9. CASE Publish(p) /\ db[p].idxoff > PtrMax
    BY <1>1, <2>9 DEF Publish, ProcsTyped, Goto, files, BareLabels, ScanLabels, TornLabels, Turn, Step
  <2>10. CASE Kill(p) /\ ~torn'
    BY <1>1, <2>10 DEF Kill, ProcsTyped, Goto, files, BareLabels, ScanLabels, TornLabels, Turn, Step
  <2>11. CASE OverwriteDat(p) /\ pc[p] = "over_dat"
    BY <1>1, <2>11 DEF OverwriteDat, ProcsTyped, Goto, files, BareLabels, ScanLabels, TornLabels, Turn, Step
  <2>12. CASE DelUnlock(p) /\ req[p].op = "delete"
    BY <1>1, <2>12 DEF DelUnlock, ProcsTyped, Goto, files, BareLabels, ScanLabels, TornLabels, Turn, Step
  <2> QED
    BY <2>1, <2>2, <2>3, <2>4, <2>5, <2>6, <2>7, <2>8, <2>9, <2>10, <2>11, <2>12
<1> QED
  BY <1>2, ToBare

\* steps of a store that knows there is no record with its key
LEMMA PlainOK ==
  ASSUME LInv, ~torn, NEW p \in Procs,
         \/ (DelUnlock(p) /\ req[p].op # "delete")
         \/ ReadChain(p) \/ FreeLock(p) \/ (FreeHead(p) /\ ptr[FREE] = 0)
         \/ (FreeWalk(p) /\ pc'[p] = "free_unlock")
         \/ FreeUnlock(p) \/ (OverwriteDat(p) /\ pc[p] = "reuse_dat")
         \/ AppendLock(p) \/ AppendSeek(p) \/ (AppendWrite(p) /\ pc[p] = "dat_write")
         \/ (AppendUnlock(p) /\ pc[p] = "dat_unlock")
  PROVE  LInv'
<1>1. ProcsTyped /\ db[p] \in Handles /\ loc[p] \in Locals
  BY AtHome DEF LInv
<1>2. /\ pc[p] \in PlainLabels \cup {"free_walk"} =>
            /\ \A o \in On(Nxt, Hash[req[p].key]) : KeyAt[o] # req[p].key
            /\ pc[p] \notin {"del_unlock", "sto_ptr", "sto_reread"} =>
                 loc[p].cptr = Nxt[Hash[req[p].key]]
      /\ pc[p] \in {"sto_ptr", "sto_reread"} => ptr[Chain(p)] = Nxt[Hash[req[p].key]]
  <2>1. pc[p] \in {"sto_ptr", "sto_reread"} => pc[p] \in ChainLabels /\ ~Unlinking(p) /\ IInv
    BY DEF ChainLabels, KeyLabels, StoreLabels, FreeLabels, AppendLabels, Unlinking, TornLabels, LInv
  <2>2. pc[p] \in ChainLabels => pc[p] \in KeyLabels
    BY DEF ChainLabels
  <2>3. Chain(p) \in Line(Nxt, Chain(p))
    BY DEF Line
  <2> QED
    BY <2>1, <2>2, <2>3, KnowsAt, PtrAt, ChainOf
<1>3. Len(rec) \in Nat /\ Len(dat) \in Nat
  BY AtHome, Domains DEF LInv
<1>4. /\ ptr' = ptr /\ rec' = rec /\ Turn(p)
      /\ pc'[p] \in PlainLabels /\ pc[p] \in PlainLabels \cup {"free_walk"} /\ req'[p] = req[p]
      /\ pc'[p] \notin {"del_unlock", "sto_ptr", "sto_reread"} =>
           \/ pc[p] \notin {"del_unlock", "sto_ptr", "sto_reread"} /\ loc'[p].cptr = loc[p].cptr
           \/ pc[p] \in {"sto_ptr", "sto_reread"} /\ loc'[p].cptr = ptr[Chain(p)]
      /\ MineOf(p)' \subseteq MineOf(p)
  <2>1. CASE DelUnlock(p) /\ req[p].op # "delete"
    BY <1>1, <1>3, <2>1 DEF DelUnlock, ProcsTyped, Handles, Locals, Goto, files, PlainLabels, MineOf, Mine, Turn, Step
  <2>2. CASE ReadChain(p)
    BY <1>1, <1>3, <2>2 DEF ReadChain, ProcsTyped, Handles, Locals, Goto, files, PlainLabels, MineOf, Mine, Turn, Step
  <2>3. CASE FreeLock(p)
    BY <1>1, <1>3, <2>3 DEF FreeLock, ProcsTyped, Handles, Locals, Goto, files, PlainLabels, MineOf, Mine, Turn, Step
  <2>4. CASE FreeHead(p) /\ ptr[FREE] = 0
    BY <1>1, <1>3, <2>4 DEF FreeHead, ProcsTyped, Handles, Locals, Goto, files, PlainLabels, MineOf, Mine, Turn, Step
  <2>5. CASE FreeWalk(p) /\ pc'[p] = "free_unlock"
    BY <1>1, <1>3, <2>5 DEF FreeWalk, ReadIdx, ProcsTyped, Handles, Locals, Goto, files, PlainLabels, MineOf, Mine, Turn, Step
  <2>6. CASE FreeUnlock(p)
    BY <1>1, <1>3, <2>6 DEF FreeUnlock, ProcsTyped, Handles, Locals, Goto, files, PlainLabels, MineOf, Mine, Turn, Step
  <2>7. CASE OverwriteDat(p) /\ pc[p] = "reuse_dat"
    BY <1>1, <1>3, <2>7 DEF OverwriteDat, ProcsTyped, Handles, Locals, Goto, files, PlainLabels, MineOf, Mine, Turn, Step
  <2>8. CASE AppendLock(p)
    BY <1>1, <1>3, <2>8 DEF AppendLock, ProcsTyped, Handles, Locals, Goto, files, PlainLabels, MineOf, Mine, Turn, Step
  <2>9. CASE AppendSeek(p)
    BY <1>1, <1>3, <2>9 DEF AppendSeek, ProcsTyped, Handles, Locals, Goto, files, PlainLabels, MineOf, Mine, Turn, Step
  <2>10. CASE AppendWrite(p) /\ pc[p] = "dat_write"
    BY <1>1, <1>3, <2>10 DEF AppendWrite, ProcsTyped, Handles, Locals, Goto, files, PlainLabels, MineOf, Mine, Turn, Step
  <2>11. CASE AppendUnlock(p) /\ pc[p] = "dat_unlock"
    BY <1>1, <1>3, <2>11 DEF AppendUnlock, ProcsTyped, Handles, Locals, Goto, files, PlainLabels, MineOf, Mine, Turn, Step
  <2> QED
    BY <2>1, <2>2, <2>3, <2>4, <2>5, <2>6, <2>7, <2>8, <2>9, <2>10, <2>11
<1>5. pc[p] \notin TornLabels
  BY <1>4 DEF PlainLabels, TornLabels
<1> QED
  BY <1>2, <1>4, <1>5, ToPlain

\* the walk along a chain
LEMMA KnowsWalk ==
  ASSUME NEW l, l = "find_walk", NEW r, NEW h, NEW v, NEW f, NEW k,
         h.ptroff \in Line(f, Hash[r.key]), f[h.ptroff] = v.off,
         NEW V \in SUBSET On(f, Hash[r.key]), Passed(r, v, f, k, V)
  PROVE  Knows(l, r, h, v, f, k) /\ Mine(l, h, v) = {} /\ l \notin TornLabels
<1>1. Walked(l, r, h, v, f, k)
  BY DEF Walked
<1> QED
  BY <1>1 DEF Knows, Located, Leaving, Inserting, Searching, Mine, TornLabels,
         FoundLabels, AbsentLabels, CptrLabels, StoreLabels, FreeLabels, AppendLabels

LEMMA ToWalk ==
  ASSUME LInv, ~torn, NEW p \in Procs, Turn(p), ptr' = ptr, rec' = rec,
         pc[p] \notin TornLabels, pc'[p] = "find_walk", req'[p] = req[p],
         db'[p].ptroff \in Line(Nxt, Hash[req[p].key]), Nxt[db'[p].ptroff] = loc'[p].off,
         NEW V \in SUBSET On(Nxt, Hash[req[p].key]), Passed(req[p], loc'[p], Nxt, KeyAt, V)
  PROVE  LInv'
<1>1. PICK l, r, h, v, f, k :
        /\ l = pc'[p] /\ r = req'[p] /\ h = db'[p] /\ v = loc'[p] /\ f = Nxt /\ k = KeyAt
  OBVIOUS
<1>2. Knows(l, r, h, v, f, k) /\ Mine(l, h, v) = {} /\ l \notin TornLabels
  <2>1. /\ l = "find_walk" /\ h.ptroff \in Line(f, Hash[r.key]) /\ f[h.ptroff] = v.off
        /\ V \in SUBSET On(f, Hash[r.key]) /\ Passed(r, v, f, k, V)
    BY <1>1
  <2> QED
    BY <2>1, KnowsWalk
<1>3. MineOf(p)' = Mine(l, h, v)
  BY <1>1 DEF MineOf
<1> QED
  BY <1>1, <1>2, <1>3, QuietTurn

\* the chain of a process that has its lock
LEMMA ChainAt ==
  ASSUME LInv, ~torn, NEW p \in Procs, pc[p] \in ChainLabels, pc[p] \notin TornLabels
  PROVE  /\ Chain(p) = Hash[req[p].key] /\ Chain(p) \in Heads /\ Chain(p) \in Slots
         /\ Chain(p) \in 1 .. NHash /\ Chain(p) # FREE
         /\ PointerFn(Nxt) /\ Sound(Nxt) /\ DOMAIN Nxt = Slots
         /\ Chain(p) \in Line(Nxt, Chain(p)) /\ Chain(p) \notin On(Nxt, Chain(p))
         /\ On(Nxt, Chain(p)) \subseteq Line(Nxt, Chain(p)) /\ Line(Nxt, Chain(p)) \subseteq Slots
         /\ \A a \in Line(Nxt, Chain(p)) : Nxt[a] = ptr[a] /\ Nxt[a] \in On(Nxt, Chain(p)) \cup {0}
         /\ \A a \in On(Nxt, Chain(p)) : IsRec(a) /\ KeyAt[a] = Rec(a).key /\ a # 0
<1>1. pc[p] \in KeyLabels /\ ~Unlinking(p) /\ IInv /\ Sound(Nxt)
  BY DEF ChainLabels, Unlinking, LInv, Lists
<1>2. /\ Chain(p) = Hash[req[p].key] /\ Chain(p) \in Heads /\ Chain(p) \in Slots
      /\ Chain(p) \in 1 .. NHash /\ Chain(p) # FREE
  BY <1>1, ChainOf
<1>3. PointerFn(Nxt) /\ DOMAIN Nxt = Slots /\ \A o : o \in RecordsOf(Nxt) <=> IsRec(o)
  BY <1>1, NxtOK
<1>4. \A a \in Line(Nxt, Chain(p)) : Nxt[a] = ptr[a] /\ Nxt[a] \in On(Nxt, Chain(p)) \cup {0} /\ a \in Slots
  BY <1>1, <1>2, <1>3, PtrAt, LinesLive
<1>5. \A a \in On(Nxt, Chain(p)) : IsRec(a) /\ a # 0 /\ a \in Slots /\ a > NHash
  BY <1>2, <1>3, OnFollows, LinesLive DEF RecordsOf
<1>6. \A a \in On(Nxt, Chain(p)) : KeyAt[a] = Rec(a).key
  BY <1>5 DEF KeyAt
<1>7. Chain(p) \notin On(Nxt, Chain(p))
  BY <1>2, <1>3, LinesLive
<1> QED
  BY <1>1, <1>2, <1>3, <1>4, <1>5, <1>6, <1>7 DEF Line

LEMMA HeadLists ==
  ASSUME LInv, ~torn, NEW p \in Procs, FindHead(p)
  PROVE  LInv'
<1> DEFINE c == Chain(p)
<1>1. /\ ProcsTyped /\ db[p] \in Handles /\ loc[p] \in Locals /\ pc[p] = "find_head" /\ Turn(p)
      /\ ptr' = ptr /\ rec' = rec /\ req'[p] = req[p]
  BY AtHome DEF LInv, FindHead, files, Turn, Step
<1>2. pc[p] \in ChainLabels /\ pc[p] \notin TornLabels
  BY <1>1 DEF ChainLabels, KeyLabels, TornLabels
<1>3. db'[p].ptroff = c /\ loc'[p].off = ptr[c] /\ ptr[c] = Nxt[c]
  BY <1>1, <1>2, ChainAt DEF FindHead, ProcsTyped, Handles, Locals
<1>4. CASE ptr[c] = 0
  <2>1. Follows(Nxt, c, {} \cap On(Nxt, c))
    BY <1>3, <1>4 DEF Follows
  <2>2. On(Nxt, c) \subseteq {}
    BY <2>1, OnLeast
  <2>3. CASE pc'[p] = "sto_ptr"
    <3>1. MineOf(p)' = {}
      BY <2>3 DEF MineOf, Mine
    <3>2. "sto_ptr" \in PlainLabels
      BY DEF PlainLabels
    <3> QED
      BY <1>1, <1>2, <2>2, <2>3, <3>1, <3>2, ToPlain, ChainAt
  <2>4. CASE pc'[p] = "unlock"
    <3>1. "unlock" \in BareLabels
      BY DEF BareLabels
    <3> QED
      BY <1>1, <1>2, <2>4, <3>1, ToBare
  <2>5. pc'[p] \in {"sto_ptr", "unlock"}
    BY <1>1, <1>4 DEF FindHead, NotFound, Goto, ProcsTyped
  <2> QED
    BY <2>3, <2>4, <2>5
<1>5. CASE ptr[c] # 0
  <2>1. pc'[p] = "find_walk"
    BY <1>1, <1>5 DEF FindHead, Goto, ProcsTyped
  <2>2. Passed(req[p], loc'[p], Nxt, KeyAt, {})
    BY <1>2, <1>3, ChainAt DEF Passed
  <2>3. c = Hash[req[p].key] /\ c \in Line(Nxt, c)
    BY <1>2, ChainAt
  <2>4. {} \in SUBSET On(Nxt, Hash[req[p].key])
    OBVIOUS
  <2> QED
    BY <1>1, <1>2, <1>3, <2>1, <2>2, <2>3, <2>4, ToWalk
<1> QED
  BY <1>4, <1>5

LEMMA WalkLists ==
  ASSUME LInv, ~torn, NEW p \in Procs, FindWalk(p)
  PROVE  LInv'
<1> DEFINE c == Chain(p)  o == loc[p].off
<1>1. /\ ProcsTyped /\ db[p] \in Handles /\ loc[p] \in Locals /\ pc[p] = "find_walk" /\ Turn(p)
      /\ ptr' = ptr /\ rec' = rec /\ req'[p] = req[p] /\ o # 0
  BY AtHome DEF LInv, FindWalk, files, Turn, Step, Fit, Pointers
<1>2. pc[p] \in ChainLabels /\ pc[p] \notin TornLabels
  BY <1>1 DEF ChainLabels, KeyLabels, TornLabels
<1>3. /\ c = Hash[req[p].key] /\ c \in Line(Nxt, c) /\ On(Nxt, c) \subseteq Line(Nxt, c)
      /\ \A a \in Line(Nxt, c) : Nxt[a] = ptr[a] /\ Nxt[a] \in On(Nxt, c) \cup {0}
      /\ \A a \in On(Nxt, c) : IsRec(a) /\ KeyAt[a] = Rec(a).key
  BY <1>2, ChainAt
<1>4. db[p].ptroff \in Line(Nxt, c) /\ Nxt[db[p].ptroff] = o
  BY <1>1, <1>3, KnowsAt DEF Knows, Walked
<1>5. PICK V \in SUBSET On(Nxt, c) : Passed(req[p], loc[p], Nxt, KeyAt, V)
  BY <1>1, <1>3, KnowsAt DEF Knows, Walked
<1>6. o \in On(Nxt, c) /\ Nxt[o] = ptr[o] /\ KeyAt[o] = Rec(o).key
  BY <1>1, <1>3, <1>4
<1>7. CASE Rec(o).key = req[p].key
  <2>1. /\ db'[p].ptroff = db[p].ptroff /\ db'[p].idxoff = o /\ db'[p].ptrval = ptr[o]
        /\ pc'[p] \in {"fetch_dat", "del_lock", "unlock", "over_dat"}
    BY <1>1, <1>7 DEF FindWalk, Found, ReadIdx, Goto, ProcsTyped, Handles
  <2>2. CASE pc'[p] = "unlock"
    <3>1. "unlock" \in BareLabels
      BY DEF BareLabels
    <3> QED
      BY <1>1, <1>2, <2>2, <3>1, ToBare
  <2>3. CASE pc'[p] # "unlock"
    BY <1>1, <1>2, <1>3, <1>4, <1>6, <1>7, <2>1, <2>3, ToFound
  <2> QED
    BY <2>2, <2>3
<1>8. CASE Rec(o).key # req[p].key
  <2>1. /\ db'[p].ptroff = o /\ loc'[p].off = ptr[o]
    BY <1>1, <1>8 DEF FindWalk, ReadIdx, ProcsTyped, Handles, Locals
  <2>2. /\ \A a \in V \cup {c} : Nxt[a] \in V \cup {o}
        /\ \A a \in V \cup {o} : KeyAt[a] # req[p].key
    BY <1>3, <1>5, <1>6, <1>8 DEF Passed
  <2>3. CASE ptr[o] = 0
    <3>1. V \cup {o} \subseteq On(Nxt, c)
      BY <1>6
    <3>2. Follows(Nxt, c, (V \cup {o}) \cap On(Nxt, c))
      BY <1>6, <2>2, <2>3, <3>1 DEF Follows
    <3>3. On(Nxt, c) \subseteq V \cup {o}
      BY <3>2, OnLeast
    <3>4. \A a \in On(Nxt, Hash[req[p].key]) : KeyAt[a] # req[p].key
      BY <1>3, <2>2, <3>3
    <3>5. pc'[p] \in {"sto_ptr", "unlock"}
      BY <1>1, <1>8, <2>3 DEF FindWalk, NotFound, Goto, ProcsTyped
    <3>6. CASE pc'[p] = "sto_ptr"
      <4>1. MineOf(p)' = {}
        BY <3>6 DEF MineOf, Mine
      <4>2. "sto_ptr" \in PlainLabels
        BY DEF PlainLabels
      <4> QED
        BY <1>1, <1>2, <3>4, <3>6, <4>1, <4>2, ToPlain
    <3>7. CASE pc'[p] = "unlock"
      <4>1. "unlock" \in BareLabels
        BY DEF BareLabels
      <4> QED
        BY <1>1, <1>2, <3>7, <4>1, ToBare
    <3> QED
      BY <3>5, <3>6, <3>7
  <2>4. CASE ptr[o] # 0
    <3>1. pc'[p] = "find_walk"
      BY <1>1, <1>8, <2>4 DEF FindWalk
    <3>2. Passed(req[p], loc'[p], Nxt, KeyAt, V \cup {o})
      BY <1>3, <1>6, <2>1, <2>2 DEF Passed
    <3>3. V \cup {o} \in SUBSET On(Nxt, Hash[req[p].key])
      BY <1>3, <1>6
    <3>4. o \in Line(Nxt, Hash[req[p].key])
      BY <1>3, <1>6
    <3> QED
      BY <1>1, <1>2, <1>6, <2>1, <3>1, <3>2, <3>3, <3>4, ToWalk
  <2> QED
    BY <2>3, <2>4
<1> QED
  BY <1>7, <1>8

\* a deletion before it changes the index file
LEMMA DelEarly ==
  ASSUME LInv, ~torn, NEW p \in Procs, DelLock(p) \/ DelDat(p)
  PROVE  LInv'
<1>1. /\ ptr' = ptr /\ rec' = rec /\ Turn(p) /\ req'[p] = req[p] /\ db'[p] = db[p]
      /\ pc[p] \in {"del_lock", "del_dat"} /\ pc'[p] \in {"del_dat", "del_free"}
  BY AtHome DEF LInv, DelLock, DelDat, files, Turn, Step, Goto, ProcsTyped
<1>2. pc[p] \in FoundLabels /\ pc[p] \notin TornLabels
  BY <1>1 DEF FoundLabels, TornLabels
<1> QED
  BY <1>1, <1>2, KnowsAt, ToFound

LEMMA DelFreeLists ==
  ASSUME LInv, ~torn, NEW p \in Procs, DelFree(p)
  PROVE  LInv'
<1>1. /\ ProcsTyped /\ db[p] \in Handles /\ loc[p] \in Locals /\ Turn(p)
      /\ ptr' = ptr /\ rec' = rec /\ req'[p] = req[p]
      /\ pc[p] = "del_free" /\ pc'[p] = "del_idx"
      /\ db'[p] = [db[p] EXCEPT !.fpos = Mid]
      /\ loc'[p].freeptr = ptr[FREE] /\ loc'[p].saveptr = db[p].ptrval
  <2>1. /\ ProcsTyped /\ db[p] \in Handles /\ loc[p] \in Locals /\ Turn(p)
        /\ ptr' = ptr /\ rec' = rec /\ req'[p] = req[p]
        /\ pc[p] = "del_free" /\ pc'[p] = "del_idx"
    BY AtHome DEF LInv, DelFree, files, Turn, Step, Goto, ProcsTyped
  <2>2. db'[p] = [db[p] EXCEPT !.fpos = Mid]
    BY <2>1 DEF DelFree, ProcsTyped
  <2>3. loc'[p] = [loc[p] EXCEPT !.freeptr = ptr[FREE], !.saveptr = db[p].ptrval]
    BY <2>1 DEF DelFree, ProcsTyped
  <2>4. loc'[p].freeptr = ptr[FREE] /\ loc'[p].saveptr = db[p].ptrval
    BY <2>1, <2>3 DEF Locals
  <2> QED
    BY <2>1, <2>2, <2>4
<1>2. ptr[FREE] = Nxt[FREE]
  BY PtrAt DEF Line
<1>3. pc[p] \in FoundLabels
  BY <1>1 DEF FoundLabels
<1>4. PICK l, r, h, v, f, k :
        /\ l = pc'[p] /\ r = req'[p] /\ h = db'[p] /\ v = loc'[p] /\ f = Nxt /\ k = KeyAt
  OBVIOUS
<1>5. /\ h.ptroff \in Line(f, Hash[r.key]) /\ f[h.ptroff] = h.idxoff
      /\ k[h.idxoff] = r.key /\ h.ptrval = f[h.idxoff]
      /\ v.saveptr = f[h.idxoff] /\ v.freeptr = f[FREE] /\ l = "del_idx"
  <2>1. h.ptroff = db[p].ptroff /\ h.idxoff = db[p].idxoff /\ h.ptrval = db[p].ptrval
    BY <1>1, <1>4 DEF Handles
  <2> QED
    BY <1>1, <1>2, <1>3, <1>4, <2>1, KnowsAt
<1>6. Knows(l, r, h, v, f, k) /\ Mine(l, h, v) = {} /\ l \notin TornLabels
  BY <1>5 DEF Knows, Walked, Located, Leaving, Inserting, Searching, Mine, TornLabels,
         FoundLabels, AbsentLabels, CptrLabels, StoreLabels, FreeLabels, AppendLabels
<1>7. MineOf(p)' = {} /\ pc[p] \notin TornLabels
  BY <1>1, <1>4, <1>6 DEF MineOf, TornLabels
<1> QED
  BY <1>1, <1>4, <1>6, <1>7, QuietTurn

\* the walk along the free list
LEMMA FreeAt ==
  ASSUME LInv, ~torn
  PROVE  /\ PointerFn(Nxt) /\ Sound(Nxt) /\ DOMAIN Nxt = Slots /\ FREE \in Heads /\ FREE \in Slots
         /\ FREE \in Line(Nxt, FREE) /\ On(Nxt, FREE) \subseteq Line(Nxt, FREE)
         /\ Line(Nxt, FREE) \subseteq Slots
         /\ \A a \in Line(Nxt, FREE) : Nxt[a] = ptr[a] /\ Nxt[a] \in On(Nxt, FREE) \cup {0}
         /\ \A a \in On(Nxt, FREE) : IsRec(a) /\ KeyAt[a] = Rec(a).key /\ a # 0
<1>1. IInv /\ Sound(Nxt) /\ FREE \in Heads
  BY Constants DEF LInv, Lists, FREE, Heads
<1>2. PointerFn(Nxt) /\ DOMAIN Nxt = Slots /\ \A o : o \in RecordsOf(Nxt) <=> IsRec(o)
  BY <1>1, NxtOK
<1>3. \A a \in Line(Nxt, FREE) : Nxt[a] = ptr[a] /\ Nxt[a] \in On(Nxt, FREE) \cup {0} /\ a \in Slots
  BY <1>1, <1>2, PtrAt, LinesLive
<1>4. \A a \in On(Nxt, FREE) : IsRec(a) /\ a # 0 /\ a \in Slots /\ a > NHash
  BY <1>1, <1>2, OnFollows, LinesLive DEF RecordsOf
<1>5. \A a \in On(Nxt, FREE) : KeyAt[a] = Rec(a).key
  BY <1>4 DEF KeyAt
<1> QED
  BY <1>1, <1>2, <1>3, <1>4, <1>5 DEF Line

LEMMA ToSearch ==
  ASSUME LInv, ~torn, NEW p \in Procs, Turn(p), ptr' = ptr, rec' = rec,
         pc[p] \notin TornLabels, pc'[p] \in {"free_walk", "free_take"}, req'[p] = req[p],
         \A o \in On(Nxt, Hash[req[p].key]) : KeyAt[o] # req[p].key,
         loc'[p].cptr = Nxt[Hash[req[p].key]],
         loc'[p].save \in Line(Nxt, FREE), Nxt[loc'[p].save] = loc'[p].off,
         pc'[p] = "free_take" => db'[p].idxoff = loc'[p].off /\ db'[p].ptrval = Nxt[loc'[p].off]
  PROVE  LInv'
<1>1. PICK l, r, h, v, f, k :
        /\ l = pc'[p] /\ r = req'[p] /\ h = db'[p] /\ v = loc'[p] /\ f = Nxt /\ k = KeyAt
  OBVIOUS
<1>2. /\ l \in {"free_walk", "free_take"} /\ \A o \in On(f, Hash[r.key]) : k[o] # r.key
      /\ v.cptr = f[Hash[r.key]] /\ v.save \in Line(f, FREE) /\ f[v.save] = v.off
      /\ l = "free_take" => h.idxoff = v.off /\ h.ptrval = f[v.off]
  BY <1>1
<1>3. Knows(l, r, h, v, f, k) /\ Mine(l, h, v) = {} /\ l \notin TornLabels
  BY <1>2 DEF Knows, Walked, Located, Leaving, Inserting, Searching, Mine, TornLabels,
         FoundLabels, AbsentLabels, CptrLabels, StoreLabels, FreeLabels, AppendLabels
<1>4. MineOf(p)' = Mine(l, h, v)
  BY <1>1 DEF MineOf
<1> QED
  BY <1>1, <1>3, <1>4, QuietTurn

LEMMA SearchLists ==
  ASSUME LInv, ~torn, NEW p \in Procs,
         (FreeHead(p) /\ ptr[FREE] # 0) \/ (FreeWalk(p) /\ pc'[p] # "free_unlock")
  PROVE  LInv'
<1>1. /\ ProcsTyped /\ db[p] \in Handles /\ loc[p] \in Locals /\ Turn(p)
      /\ ptr' = ptr /\ rec' = rec /\ req'[p] = req[p] /\ loc'[p].cptr = loc[p].cptr
      /\ pc[p] \in {"free_head", "free_walk"} /\ pc'[p] \in {"free_walk", "free_take"}
  BY AtHome DEF LInv, FreeHead, FreeWalk, files, Turn, Step, Goto, ProcsTyped, Locals
<1>2. /\ \A o \in On(Nxt, Hash[req[p].key]) : KeyAt[o] # req[p].key
      /\ loc[p].cptr = Nxt[Hash[req[p].key]]
  BY <1>1, KnowsAt DEF PlainLabels
<1>3. pc[p] \notin TornLabels
  BY <1>1 DEF TornLabels
<1>4. CASE FreeHead(p)
  <2>1. pc'[p] = "free_walk" /\ loc'[p].save = FREE /\ loc'[p].off = ptr[FREE]
    BY <1>1, <1>4 DEF FreeHead, Goto, ProcsTyped, Locals
  <2> QED
    BY <1>1, <1>2, <1>3, <2>1, FreeAt, ToSearch
<1>5. CASE FreeWalk(p)
  <2> DEFINE o == loc[p].off
  <2>1. pc[p] = "free_walk" /\ o # 0
    BY <1>5, AtHome DEF FreeWalk, LInv, Fit, Pointers
  <2>2. loc[p].save \in Line(Nxt, FREE) /\ Nxt[loc[p].save] = o
    BY <2>1, KnowsAt DEF Knows, Searching
  <2>3. o \in Line(Nxt, FREE) /\ Nxt[o] = ptr[o]
    BY <2>1, <2>2, FreeAt
  <2>4. CASE pc'[p] = "free_take"
    <3>1. loc'[p] = loc[p] /\ db'[p].idxoff = o /\ db'[p].ptrval = ptr[o]
      BY <1>1, <1>5, <2>4 DEF FreeWalk, ReadIdx, Goto, ProcsTyped, Handles
    <3> QED
      BY <1>1, <1>2, <1>3, <2>2, <2>3, <3>1, ToSearch
  <2>5. CASE pc'[p] = "free_walk"
    <3>1. loc'[p].save = o /\ loc'[p].off = ptr[o]
      BY <1>1, <1>5, <2>5 DEF FreeWalk, Goto, ProcsTyped, Locals
    <3> QED
      BY <1>1, <1>2, <1>3, <2>3, <2>5, <3>1, ToSearch
  <2> QED
    BY <1>1, <2>4, <2>5
<1> QED
  BY <1>4, <1>5

LEMMA IdxUnlockLists ==
  ASSUME LInv, ~torn, NEW p \in Procs, AppendUnlock(p), pc[p] = "idx_unlock"
  PROVE  LInv'
<1>1. /\ ProcsTyped /\ Turn(p) /\ ptr' = ptr /\ rec' = rec /\ req'[p] = req[p]
      /\ pc'[p] = "publish" /\ db'[p] = db[p] /\ loc'[p] = loc[p]
  BY AtHome DEF LInv, AppendUnlock, files, Turn, Step, Goto, ProcsTyped
<1>2. PICK l, r, h, v, f, k :
        /\ l = pc'[p] /\ r = req'[p] /\ h = db'[p] /\ v = loc'[p] /\ f = Nxt /\ k = KeyAt
  OBVIOUS
<1>3. /\ \A o \in On(f, Hash[r.key]) : k[o] # r.key
      /\ v.cptr = f[Hash[r.key]] /\ f[h.idxoff] = f[Hash[r.key]] /\ k[h.idxoff] = r.key
      /\ l = "publish"
  BY <1>1, <1>2, KnowsAt DEF Knows, Inserting
<1>4. Knows(l, r, h, v, f, k) /\ l \notin TornLabels
  BY <1>3 DEF Knows, Walked, Located, Leaving, Inserting, Searching, TornLabels,
         FoundLabels, AbsentLabels, CptrLabels, StoreLabels, FreeLabels, AppendLabels
<1>5. MineOf(p)' = MineOf(p) /\ pc[p] \notin TornLabels
  BY <1>1 DEF MineOf, Mine, TornLabels
<1> QED
  BY <1>1, <1>2, <1>4, <1>5, QuietTurn

-----------------------------------------------------------------------------
(* Steps that change the lists.                                              *)

NxtShape ==
  PointerFn(Nxt) /\ DOMAIN Nxt = Slots /\ (\A o : o \in RecordsOf(Nxt) <=> IsRec(o))
  /\ DOMAIN Nxt \subseteq Nat

LEMMA NxtShapeNow == IInv => NxtShape
  BY NxtOK, Pointing DEF NxtShape

LEMMA NxtShapeThen == IInv' => NxtShape'
<1>1. IInv => NxtShape
  BY NxtShapeNow
<1> QED
  BY <1>1, PTL

LEMMA ShapeStep ==
  ASSUME IInv, NEW p \in Procs, Turn(p)
  PROVE  NxtShape /\ NxtShape' /\ Slots \subseteq Slots' /\ DOMAIN Nxt \subseteq DOMAIN Nxt'
         /\ IInv' /\ \A q \in Procs \ {p} : SameFor(q)
<1>1. IInv' /\ Grows /\ NxtShape /\ NxtShape' /\ \A q \in Procs \ {p} : SameFor(q)
  BY TurnNext, NxtShapeNow, NxtShapeThen, StepMoves
<1>2. FilesOK /\ FilesOK'
  BY <1>1 DEF IInv, TypeOK, FilesOK
<1>3. Slots \subseteq Slots'
  BY <1>1, <1>2, GrowsKeeps
<1> QED
  BY <1>1, <1>3 DEF NxtShape

\* a pointer that no process is cutting
LEMMA NxtWritten ==
  ASSUME LInv, NEW p \in Procs, Turn(p), pc[p] \notin TornLabels, pc'[p] \notin TornLabels,
         NEW b, \A a \in Slots : a # b => ptr'[a] = ptr[a],
         \A q \in Procs : Unlinking(q) => db[q].ptroff # b
  PROVE  /\ \A a \in Slots : a # b => Nxt'[a] = Nxt[a]
         /\ b \in Slots' => Nxt'[b] = ptr'[b]
<1>1. /\ NxtShape' /\ Slots \subseteq Slots' /\ \A q \in Procs \ {p} : SameFor(q)
  BY ShapeStep DEF LInv
<1>2. ~Unlinking(p) /\ ~Unlinking(p)'
  BY DEF Unlinking
<1>3. \A a \in Slots : a # b => Nxt'[a] = Nxt[a]
  BY <1>1, <1>2, NextKept DEF Nxt
<1>4. NextOf(b)' = ptr'[b]
  <2>1. \A q \in Procs : Unlinking(q)' => db'[q].ptroff # b
    BY <1>1, <1>2 DEF SameFor, Unlinking
  <2> QED
    BY <2>1 DEF NextOf
<1>5. b \in Slots' => Nxt'[b] = ptr'[b]
  BY <1>4 DEF Nxt
<1> QED
  BY <1>3, <1>5

\* the one process that is cutting
LEMMA SoleCutter ==
  ASSUME LInv, ~torn, NEW p \in Procs, p \in wr[FREE]
  PROVE  \A q \in Procs : Unlinking(q) => q = p
  BY CutterOf, LockNumbers DEF LInv, Guarded, Exclusive

LEMMA NextCut ==
  ASSUME NEW p \in Procs, Unlinking(p), \A q \in Procs : Unlinking(q) => q = p
  PROVE  \A a : NextOf(a) = IF a = db[p].ptroff THEN loc[p].saveptr ELSE ptr[a]
<1> SUFFICES ASSUME NEW a PROVE NextOf(a) = IF a = db[p].ptroff THEN loc[p].saveptr ELSE ptr[a]
  OBVIOUS
<1> DEFINE cut == {q \in Procs : Unlinking(q) /\ db[q].ptroff = a}
<1>1. CASE a = db[p].ptroff
  <2>1. cut = {p}
    BY <1>1
  <2>2. (CHOOSE q \in cut : TRUE) = p
    BY <2>1
  <2> QED
    BY <1>1, <2>1, <2>2 DEF NextOf
<1>2. CASE a # db[p].ptroff
  BY <1>2 DEF NextOf
<1> QED
  BY <1>1, <1>2

LEMMA NextCutThen ==
  ASSUME NEW p \in Procs, Unlinking(p)', \A q \in Procs : Unlinking(q)' => q = p
  PROVE  \A a : NextOf(a)' = IF a = db'[p].ptroff THEN loc'[p].saveptr ELSE ptr'[a]
<1> SUFFICES ASSUME NEW a
             PROVE  NextOf(a)' = IF a = db'[p].ptroff THEN loc'[p].saveptr ELSE ptr'[a]
  OBVIOUS
<1> DEFINE cut == {q \in Procs : Unlinking(q)' /\ db'[q].ptroff = a}
<1>1. CASE a = db'[p].ptroff
  <2>1. cut = {p}
    BY <1>1
  <2>2. (CHOOSE q \in cut : TRUE) = p
    BY <2>1
  <2> QED
    BY <1>1, <2>1, <2>2 DEF NextOf
<1>2. CASE a # db'[p].ptroff
  BY <1>2 DEF NextOf
<1> QED
  BY <1>1, <1>2

LEMMA NextUncut ==
  ASSUME \A q \in Procs : ~Unlinking(q)
  PROVE  \A a : NextOf(a) = ptr[a]
  BY DEF NextOf

LEMMA NextUncutThen ==
  ASSUME \A q \in Procs : ~Unlinking(q)'
  PROVE  \A a : NextOf(a)' = ptr'[a]
  BY DEF NextOf

LEMMA DelUnlinkLists ==
  ASSUME LInv, ~torn, NEW p \in Procs, DelUnlink(p)
  PROVE  LInv' /\ OthersKept(req[p].key) /\ Nxt' = Nxt /\ KeyAt' = KeyAt
<1>1. /\ ProcsTyped /\ FilesTyped /\ Turn(p) /\ rec' = rec /\ req'[p] = req[p] /\ pc[p] = "del_unlink"
      /\ pc'[p] = "del_unlock" /\ ptr' = [ptr EXCEPT ![db[p].ptroff] = loc[p].saveptr]
  BY AtHome DEF LInv, DelUnlink, WritePtr, Turn, Step, Goto, ProcsTyped
<1>2. Unlinking(p) /\ \A q \in Procs : Unlinking(q) => q = p
  BY <1>1, CutterOf, SoleCutter DEF Unlinking, TornLabels
<1>3. \A q \in Procs : ~Unlinking(q)'
  BY <1>1, <1>2, StepMoves DEF LInv, SameFor, Unlinking, TornLabels
<1>4. Slots' = Slots /\ KeyAt' = KeyAt
  BY <1>1 DEF Slots, IdxEnd, KeyAt, Rec
<1>5. \A a \in Slots : NextOf(a)' = NextOf(a)
  <2>1. DOMAIN ptr = Slots
    BY <1>1 DEF FilesTyped
  <2> QED
    BY <1>1, <1>2, <1>3, <2>1, NextCut, NextUncutThen
<1>6. Nxt' = Nxt
  BY <1>4, <1>5 DEF Nxt
<1>7. PICK l, r, h, v, f, k :
        /\ l = pc'[p] /\ r = req'[p] /\ h = db'[p] /\ v = loc'[p] /\ f = Nxt /\ k = KeyAt
  OBVIOUS
<1>8. l = "del_unlock" /\ \A o \in On(f, Hash[r.key]) : k[o] # r.key
  BY <1>1, <1>7, KnowsAt DEF Knows, Inserting, AbsentLabels
<1>9. Knows(l, r, h, v, f, k)
  <2>1. l \in PlainLabels
    BY <1>8 DEF PlainLabels
  <2> QED
    BY <1>8, <2>1, KnowsAbsent
<1>10. MineOf(p)' = {}
  BY <1>1 DEF MineOf, Mine
<1>11. OthersKept(req[p].key)
  BY <1>4, <1>6 DEF OthersKept
<1> QED
  BY <1>1, <1>4, <1>6, <1>7, <1>9, <1>10, <1>11, QuietLists

\* of the facts that ListsStep needs, those about the lists a process has not locked
LEMMA AgreeElsewhere ==
  ASSUME NEW f, NEW e, NEW k, NEW m, PointerFn(f), NEW h \in Heads,
         On(e, h) = On(f, h), \A a \in Line(f, h) : e[a] = f[a],
         \A a \in Live(f) : a \notin Heads => m[a] = k[a]
  PROVE  Agree(f, k, e, m, h)
<1>1. \A a \in On(f, h) : a \in Live(f) /\ a \notin Heads
  BY LinesLive
<1> QED
  BY <1>1 DEF Agree

LEMMA MineApart ==
  ASSUME LInv, ~torn, NEW p \in Procs
  PROVE  /\ MineOf(p) \cap Live(Nxt) = {}
         /\ \A q \in Procs \ {p} : MineOf(p) \cap MineOf(q) = {}
  BY DEF LInv, Lists, Apart

LEMMA DelHeadLists ==
  ASSUME LInv, ~torn, NEW p \in Procs, DelHead(p)
  PROVE  LInv' /\ OthersKept(req[p].key)
<1>0. PICK o : o = db[p].idxoff
  OBVIOUS
<1>1. /\ ProcsTyped /\ FilesTyped /\ Turn(p) /\ rec' = rec /\ req'[p] = req[p] /\ pc[p] = "del_head"
      /\ pc'[p] = "del_unlink" /\ ptr' = [ptr EXCEPT ![FREE] = o] /\ loc'[p] = loc[p]
      /\ db'[p] = [db[p] EXCEPT !.fpos = Mid] /\ db[p] \in Handles /\ IInv
  BY <1>0, AtHome DEF LInv, DelHead, WritePtr, Turn, Step, Goto, ProcsTyped
<1>2. Unlinking(p) /\ \A q \in Procs : Unlinking(q) => q = p
  BY <1>1, CutterOf, SoleCutter DEF Unlinking, TornLabels
<1>3. /\ NxtShape /\ NxtShape' /\ DOMAIN Nxt \subseteq DOMAIN Nxt'
      /\ \A q \in Procs \ {p} : SameFor(q)
  BY <1>1, ShapeStep
<1>4. Unlinking(p)' /\ \A q \in Procs : Unlinking(q)' => q = p
  BY <1>1, <1>2, <1>3 DEF SameFor, Unlinking, TornLabels
<1>5. Slots' = Slots /\ KeyAt' = KeyAt
  BY <1>1 DEF Slots, IdxEnd, KeyAt, Rec
<1>6. /\ db[p].ptroff \in Line(Nxt, Chain(p)) /\ Chain(p) \in Heads /\ Chain(p) # FREE
      /\ p \in wr[FREE] /\ Chain(p) = Hash[req[p].key]
  BY <1>2, CutterOf DEF Chain
<1>7. /\ PointerFn(Nxt) /\ Sound(Nxt) /\ DOMAIN Nxt = Slots /\ FREE \in Heads /\ FREE \in Line(Nxt, FREE)
      /\ FREE \in Slots
  BY FreeAt
<1>8. db[p].ptroff # FREE /\ db[p].ptroff \in Slots
  BY <1>6, <1>7, ListsApart, LinesLive
<1>9. MineOf(p) = {o} /\ o \in Slots /\ IsRec(o)
  BY <1>0, <1>1, MineIsRec DEF MineOf, Mine
<1>10. o \notin Live(Nxt) /\ o # db[p].ptroff /\ o # FREE
  <2>1. o \notin Live(Nxt)
    BY <1>9, MineApart
  <2> QED
    BY <2>1, <1>6, <1>7, LinesLive
<1>11. Nxt'[FREE] = o /\ \A a \in Slots : a # FREE => Nxt'[a] = Nxt[a]
  <2>1. \A a \in Slots : Nxt[a] = IF a = db[p].ptroff THEN loc[p].saveptr ELSE ptr[a]
    BY <1>2, NextCut DEF Nxt
  <2>2. \A a \in Slots : Nxt'[a] = IF a = db'[p].ptroff THEN loc'[p].saveptr ELSE ptr'[a]
    BY <1>4, <1>5, NextCutThen DEF Nxt
  <2>3. db'[p].ptroff = db[p].ptroff /\ DOMAIN ptr = Slots
    BY <1>1 DEF Handles, FilesTyped
  <2> QED
    BY <1>1, <1>7, <1>8, <2>1, <2>2, <2>3
<1>12. Nxt[o] = Nxt[FREE] /\ KeyAt[o] = Blank
  BY <1>0, <1>1, KnowsAt DEF Knows, Leaving
<1> DEFINE f == Nxt  e == Nxt'
<1>13. PointerFn(e) /\ o \in RecordsOf(e)
  <2>1. IsRec(o)'
    BY <1>1, <1>9 DEF IsRec, IdxEnd, First
  <2> QED
    BY <1>3, <2>1 DEF NxtShape
<1>14. \A a \in Live(f) : a # FREE => e[a] = f[a]
  BY <1>7, <1>11, LinesLive
<1>15. e[o] = f[FREE]
  BY <1>9, <1>10, <1>11, <1>12
<1>16. /\ On(e, FREE) = On(f, FREE) \cup {o} /\ Sound(e)
       /\ \A g \in Heads \ {FREE} : On(e, g) = On(f, g) /\ Line(e, g) = Line(f, g)
  <2> HIDE DEF f, e
  <2>1. DOMAIN f \subseteq DOMAIN e /\ e[FREE] = o /\ PointerFn(f) /\ Sound(f) /\ o \notin Live(f)
    BY <1>3, <1>7, <1>10, <1>11 DEF f, e
  <2> QED
    BY <1>7, <1>13, <1>14, <1>15, <2>1, Push
<1>17. Placed(Nxt, KeyAt)'
  <2>1. Placed(f, KeyAt)
    BY DEF LInv, Lists
  <2>2. \A c \in 1 .. NHash : c \in Heads \ {FREE}
    BY Constants DEF Heads, FREE
  <2>3. Placed(e, KeyAt)
    BY <1>12, <1>16, <2>1, <2>2 DEF Placed
  <2> QED
    BY <1>5, <2>3
<1>18. Live(e) \subseteq Live(f) \cup {o}
  <2>1. \A g \in Heads : Line(e, g) \subseteq Line(f, g) \cup {o}
    BY <1>16 DEF Line
  <2> QED
    BY <2>1 DEF Live
<1>19. ASSUME NEW h \in Heads, p \notin wr[h] PROVE Agree(Nxt, KeyAt, Nxt', KeyAt', h)
  <2>1. h # FREE
    BY <1>6, <1>19
  <2>2. FREE \notin Line(f, h)
    BY <1>7, <2>1, ListsApart
  <2>3. \A a \in Line(f, h) : a \in Live(f) /\ e[a] = f[a]
    BY <1>7, <1>14, <2>2, LinesLive
  <2> QED
    BY <1>5, <1>7, <1>16, <2>1, <2>3, AgreeElsewhere
<1>20. MineOf(p)' = {}
  BY <1>1 DEF MineOf, Mine
<1>21. \A q \in Procs \ {p} : \A a \in MineOf(q) : Nxt'[a] = Nxt[a] /\ KeyAt'[a] = KeyAt[a]
  <2>1. \A q \in Procs : \A a \in MineOf(q) : a \in Slots /\ a # FREE
    BY <1>1, MineIsRec DEF FREE
  <2> QED
    BY <1>5, <1>11, <2>1
<1>22. Knows(pc[p], req[p], db[p], loc[p], Nxt, KeyAt)'
  <2>1. PICK l, r, h, v, k :
          /\ l = pc'[p] /\ r = req'[p] /\ h = db'[p] /\ v = loc'[p] /\ k = KeyAt'
    OBVIOUS
  <2>2. h.ptroff \in Line(e, Hash[r.key])
    BY <1>1, <1>6, <1>16, <2>1 DEF Handles
  <2>3. \A a \in On(f, Hash[req[p].key]) : KeyAt[a] # req[p].key
    BY <1>1, KnowsAt DEF Knows, Inserting, AbsentLabels
  <2>4. \A a \in On(e, Hash[r.key]) : k[a] # r.key
    BY <1>1, <1>5, <1>6, <1>16, <2>1, <2>3
  <2>5. Knows(l, r, h, v, e, k)
    <3>1. l = "del_unlink"
      BY <1>1, <2>1
    <3> HIDE DEF e
    <3> QED
      BY <2>2, <2>4, <3>1 DEF Knows, Walked, Located, Leaving, Inserting, Searching, TornLabels,
         FoundLabels, AbsentLabels, CptrLabels, StoreLabels, FreeLabels, AppendLabels
  <2> QED
    BY <2>1, <2>5
<1>23. Sound(Nxt)' /\ Live(Nxt)' \subseteq Live(Nxt) \cup MineOf(p)
  BY <1>9, <1>16, <1>18
<1>24. OthersKept(req[p].key)
  <2>1. \A y \in Keys : Hash[y] \in Heads \ {FREE}
    BY Constants DEF Heads, FREE
  <2> QED
    BY <1>5, <1>16, <2>1 DEF OthersKept, RecordFor
<1> QED
  BY <1>1, <1>17, <1>19, <1>20, <1>21, <1>22, <1>23, <1>24, ListsStep

\* a step that takes record o off the list h, where a points to it
LEMMA TakesOff ==
  ASSUME LInv, ~torn, NEW p \in Procs, Turn(p), NEW h \in Heads, p \in wr[h],
         NEW a \in Line(Nxt, h), NEW o, Nxt[a] = o, o # 0, Nxt'[a] = Nxt[o],
         \A b \in Slots : b \notin {a, o} => Nxt'[b] = Nxt[b],
         \A b \in Slots : b # o => KeyAt'[b] = KeyAt[b]
  PROVE  /\ On(Nxt', h) = On(Nxt, h) \ {o} /\ o \in On(Nxt, h) /\ a # o /\ Nxt[o] # o
         /\ a \in Line(Nxt', h) /\ o \notin Live(Nxt)'
         /\ \A g \in Heads \ {h} : On(Nxt', g) = On(Nxt, g) /\ Line(Nxt', g) = Line(Nxt, g)
         /\ Sound(Nxt)' /\ Placed(Nxt, KeyAt)'
         /\ \A g \in Heads : p \notin wr[g] => Agree(Nxt, KeyAt, Nxt', KeyAt', g)
         /\ \A q \in Procs : \A b \in MineOf(q) : Nxt'[b] = Nxt[b] /\ KeyAt'[b] = KeyAt[b]
         /\ Live(Nxt)' \subseteq Live(Nxt)
         /\ \A q \in Procs : o \notin MineOf(q)
<1>1. /\ NxtShape /\ NxtShape' /\ DOMAIN Nxt \subseteq DOMAIN Nxt' /\ IInv /\ Sound(Nxt)
      /\ Placed(Nxt, KeyAt)
  BY ShapeStep DEF LInv, Lists
<1>2. PICK f, e, k, m : f = Nxt /\ e = Nxt' /\ k = KeyAt /\ m = KeyAt'
  OBVIOUS
<1>3. /\ PointerFn(f) /\ PointerFn(e) /\ DOMAIN f \subseteq DOMAIN e /\ DOMAIN f = Slots /\ Sound(f)
      /\ Placed(f, k)
  BY <1>1, <1>2 DEF NxtShape
<1>4. \A b \in Live(f) : b \notin {a, o} => e[b] = f[b]
  BY <1>2, <1>3, LinesLive
<1>5. /\ On(e, h) = On(f, h) \ {o} /\ Sound(e) /\ o \in On(f, h) /\ a # o /\ f[o] # o
      /\ a \in Line(e, h) /\ o \notin Live(e)
      /\ \A g \in Heads \ {h} : On(e, g) = On(f, g) /\ Line(e, g) = Line(f, g)
  <2>1. a \in Line(f, h) /\ f[a] = o /\ e[a] = f[o]
    BY <1>2
  <2> QED
    BY <1>3, <1>4, <2>1, Remove
<1>6. a \in Live(f) /\ o \in Live(f) /\ a \in Line(f, h) /\ o \in Line(f, h)
  BY <1>2, <1>3, <1>5, LinesLive
<1>7. \A b \in Live(f) : b # o => m[b] = k[b]
  BY <1>2, <1>3, LinesLive
<1>8. \A g \in Heads : \A b \in On(e, g) : b \in On(f, g) /\ m[b] = k[b]
  <2> SUFFICES ASSUME NEW g \in Heads, NEW b \in On(e, g) PROVE b \in On(f, g) /\ m[b] = k[b]
    OBVIOUS
  <2>1. b \in On(f, g) /\ b # o
    <3>1. g # h => o \notin On(f, g)
      BY <1>3, <1>6, ListsApart, LinesLive
    <3> QED
      BY <1>5, <3>1
  <2>2. b \in Live(f)
    BY <1>3, <2>1, LinesLive
  <2> QED
    BY <1>7, <2>1, <2>2
<1>9. Placed(e, m)
  <2>1. FREE \in Heads /\ \A c \in 1 .. NHash : c \in Heads
    BY Constants DEF Heads, FREE
  <2> QED
    BY <1>3, <1>8, <2>1 DEF Placed
<1>10. ASSUME NEW g \in Heads, p \notin wr[g] PROVE Agree(f, k, e, m, g)
  <2>1. g # h
    BY <1>10
  <2>2. a \notin Line(f, g) /\ o \notin Line(f, g)
    BY <1>3, <1>6, <2>1, ListsApart
  <2>3. \A b \in Line(f, g) : e[b] = f[b] /\ m[b] = k[b]
    BY <1>3, <1>4, <1>7, <2>2, LinesLive
  <2> QED
    BY <1>3, <1>5, <2>1, <2>3, LinesLive DEF Agree
<1>11. ASSUME NEW q \in Procs
       PROVE  o \notin MineOf(q) /\ \A b \in MineOf(q) : e[b] = f[b] /\ m[b] = k[b]
  <2>1. \A b \in MineOf(q) : b \in Slots /\ b \notin Live(f)
    BY <1>1, <1>2, MineIsRec, MineApart
  <2> QED
    BY <1>2, <1>6, <2>1
<1>12. Live(e) \subseteq Live(f)
  <2>1. \A g \in Heads : Line(e, g) \subseteq Line(f, g)
    BY <1>8 DEF Line
  <2> QED
    BY <2>1 DEF Live
<1> QED
  BY <1>2, <1>5, <1>9, <1>10, <1>11, <1>12

LEMMA FreeTakeLists ==
  ASSUME LInv, ~torn, NEW p \in Procs, FreeTake(p)
  PROVE  LInv' /\ OthersKept(req[p].key)
<1>1. /\ ProcsTyped /\ FilesTyped /\ Turn(p) /\ rec' = rec /\ req'[p] = req[p] /\ pc[p] = "free_take"
      /\ pc'[p] = "free_unlock" /\ ptr' = [ptr EXCEPT ![loc[p].save] = db[p].ptrval] /\ loc'[p] = loc[p]
      /\ db'[p] = [db[p] EXCEPT !.fpos = Mid] /\ db[p] \in Handles /\ IInv /\ HasLocks(p)
  BY AtHome DEF LInv, Guarded, FreeTake, WritePtr, Turn, Step, Goto, ProcsTyped
<1>2. p \in wr[FREE] /\ pc[p] \in ChainLabels /\ pc[p] \notin TornLabels
  BY <1>1 DEF HasLocks, FreeHeld, ChainLabels, KeyLabels, StoreLabels, FreeLabels, TornLabels
<1>3. \A q \in Procs : ~Unlinking(q) /\ ~Unlinking(q)'
  <2>1. \A q \in Procs : ~Unlinking(q)
    BY <1>1, <1>2, SoleCutter DEF Unlinking
  <2> QED
    BY <1>1, <2>1, StepMoves DEF SameFor, Unlinking, TornLabels
<1>4. Slots' = Slots /\ KeyAt' = KeyAt
  BY <1>1 DEF Slots, IdxEnd, KeyAt, Rec
<1>5. PICK a, o : a = loc[p].save /\ o = loc[p].off
  OBVIOUS
<1>6. /\ a \in Line(Nxt, FREE) /\ Nxt[a] = o /\ db[p].idxoff = o /\ db[p].ptrval = Nxt[o]
  BY <1>1, <1>5, KnowsAt DEF Knows, Searching
<1>7. o # 0
  <2>1. IsRec(db[p].idxoff)
    BY <1>1, AtHome DEF Fit, Handle, Taken, Describes
  <2> QED
    BY <1>1, <1>6, <2>1, Domains
<1>8. FREE \in Heads /\ a \in Slots
  BY <1>6, FreeAt
<1>9. Nxt'[a] = Nxt[o] /\ \A b \in Slots : b # a => Nxt'[b] = Nxt[b]
  <2>1. \A b \in Slots : Nxt[b] = ptr[b] /\ Nxt'[b] = ptr'[b]
    BY <1>3, <1>4, NextUncut, NextUncutThen DEF Nxt
  <2>2. DOMAIN ptr = Slots
    BY <1>1 DEF FilesTyped
  <2> QED
    BY <1>1, <1>5, <1>6, <1>8, <2>1, <2>2
<1>10. \A b \in Slots : b \notin {a, o} => Nxt'[b] = Nxt[b]
  BY <1>9
<1>11. \A b \in Slots : b # o => KeyAt'[b] = KeyAt[b]
  BY <1>4
<1>12. /\ On(Nxt', FREE) = On(Nxt, FREE) \ {o} /\ o \in On(Nxt, FREE)
       /\ o \notin Live(Nxt)'
       /\ \A g \in Heads \ {FREE} : On(Nxt', g) = On(Nxt, g) /\ Line(Nxt', g) = Line(Nxt, g)
       /\ Sound(Nxt)' /\ Placed(Nxt, KeyAt)'
       /\ \A g \in Heads : p \notin wr[g] => Agree(Nxt, KeyAt, Nxt', KeyAt', g)
       /\ \A q \in Procs : \A b \in MineOf(q) : Nxt'[b] = Nxt[b] /\ KeyAt'[b] = KeyAt[b]
       /\ Live(Nxt)' \subseteq Live(Nxt)
       /\ \A q \in Procs : o \notin MineOf(q)
  BY <1>1, <1>2, <1>6, <1>7, <1>8, <1>9, <1>10, <1>11, TakesOff
<1>13. MineOf(p)' = {o}
  <2>1. pc'[p] = "free_unlock" /\ loc'[p].off # 0 /\ db'[p].idxoff = o
    BY <1>1, <1>5, <1>6, <1>7 DEF Handles
  <2> QED
    BY <2>1 DEF MineOf, Mine
<1>14. MineOf(p)' \cap Live(Nxt)' = {} /\ \A q \in Procs \ {p} : MineOf(p)' \cap MineOf(q) = {}
  BY <1>12, <1>13
<1>15. Knows(pc[p], req[p], db[p], loc[p], Nxt, KeyAt)'
  <2>1. PICK l, r, h, v, f, k :
          /\ l = pc'[p] /\ r = req'[p] /\ h = db'[p] /\ v = loc'[p] /\ f = Nxt' /\ k = KeyAt'
    OBVIOUS
  <2>2. /\ Hash[req[p].key] \in Heads \ {FREE} /\ Hash[req[p].key] \in Slots
        /\ Hash[req[p].key] \notin {a} /\ Nxt'[Hash[req[p].key]] = Nxt[Hash[req[p].key]]
    <3>1. /\ Hash[req[p].key] \in Heads \ {FREE} /\ Hash[req[p].key] \in Slots
      BY <1>2, ChainAt
    <3>2. Hash[req[p].key] # a
      BY <1>6, <1>8, <3>1, FreeAt, ListsApart, LinesLive
    <3> QED
      BY <1>9, <3>1, <3>2
  <2>3. /\ \A b \in On(Nxt, Hash[req[p].key]) : KeyAt[b] # req[p].key
        /\ loc[p].cptr = Nxt[Hash[req[p].key]]
    BY <1>1, KnowsAt
  <2>4. /\ \A b \in On(f, Hash[r.key]) : k[b] # r.key
        /\ v.cptr = f[Hash[r.key]]
    BY <1>1, <1>4, <1>12, <2>1, <2>2, <2>3
  <2>5. l \in PlainLabels
    BY <1>1, <2>1 DEF PlainLabels
  <2>6. Knows(l, r, h, v, f, k)
    BY <2>4, <2>5, KnowsAbsent
  <2> QED
    BY <2>1, <2>6
<1>16. OthersKept(req[p].key)
  <2>1. \A y \in Keys : Hash[y] \in Heads \ {FREE}
    BY Constants DEF Heads, FREE
  <2> QED
    BY <1>4, <1>12, <2>1 DEF OthersKept, RecordFor
<1> QED
  BY <1>1, <1>12, <1>14, <1>15, <1>16, ListsStep

LEMMA DelIdxLists ==
  ASSUME LInv, ~torn, NEW p \in Procs, DelIdx(p)
  PROVE  LInv' /\ OthersKept(req[p].key)
<1>1. PICK o, a, c : o = db[p].idxoff /\ a = db[p].ptroff /\ c = Chain(p)
  OBVIOUS
<1>2. /\ ProcsTyped /\ FilesTyped /\ Turn(p) /\ req'[p] = req[p] /\ pc[p] = "del_idx"
      /\ pc'[p] = "del_head" /\ loc'[p] = loc[p] /\ WriteIdx(o, loc[p].freeptr, IdxOf(p, Blank))
      /\ db[p] \in Handles /\ IInv /\ HasLocks(p)
  BY <1>1, AtHome DEF LInv, Guarded, DelIdx, Turn, Step, Goto, ProcsTyped
<1>3. db'[p].idxoff = o /\ db'[p].ptroff = a
  BY <1>1, <1>2 DEF DelIdx, ProcsTyped, Handles
<1>4. /\ p \in wr[FREE] /\ p \in wr[c] /\ pc[p] \in ChainLabels /\ pc[p] \notin TornLabels
      /\ pc[p] \in FoundLabels
  <2>1. p \in wr[FREE]
    BY <1>2 DEF HasLocks, FreeHeld
  <2>2. p \in wr[c] /\ pc[p] \in ChainLabels
    BY <1>1, <1>2, WriterOf DEF DelLabels
  <2> QED
    BY <1>2, <2>1, <2>2 DEF FoundLabels, TornLabels
<1>5. \A q \in Procs : ~Unlinking(q) /\ (Unlinking(q)' <=> q = p)
  <2>1. \A q \in Procs : ~Unlinking(q)
    BY <1>2, <1>4, SoleCutter DEF Unlinking
  <2> QED
    BY <1>2, <2>1, StepMoves DEF SameFor, Unlinking, TornLabels
<1>6. /\ a \in Line(Nxt, c) /\ Nxt[a] = o /\ KeyAt[o] = req[p].key
      /\ loc[p].saveptr = Nxt[o] /\ loc[p].freeptr = Nxt[FREE]
  <2>1. c = Hash[req[p].key]
    BY <1>1, <1>4, ChainAt
  <2> QED
    BY <1>1, <1>2, <1>4, <2>1, KnowsAt DEF Knows, Located
<1>7. IsRec(o) /\ o # 0 /\ o \in Slots /\ o > NHash
  <2>1. IsRec(o)
    BY <1>1, <1>2, AtHome DEF Fit, Handle, Describes
  <2>2. o # 0 /\ o \in Slots
    BY <1>2, <2>1, Domains
  <2> QED
    BY <2>1, <2>2, <1>2, Domains, Constants DEF IsRec
<1>8. /\ c \in Heads /\ c # FREE /\ FREE \in Heads /\ FREE \in Slots /\ a \in Slots
      /\ a # FREE /\ o # FREE /\ c = Hash[req[p].key]
  <2>1. /\ c \in Heads /\ c # FREE /\ FREE \in Heads /\ FREE \in Slots /\ a \in Slots /\ c = Hash[req[p].key]
    BY <1>1, <1>4, <1>6, ChainAt, FreeAt
  <2>2. a # FREE
    BY <1>6, <2>1, FreeAt, ListsApart
  <2> QED
    BY <1>7, <2>1, <2>2 DEF FREE
<1>9. /\ ptr' = [ptr EXCEPT ![o] = loc[p].freeptr] /\ Slots' = Slots
      /\ rec' = [rec EXCEPT ![o - NHash] = IdxOf(p, Blank)]
  BY <1>2, <1>7, WriteInside
<1>10. KeyAt'[o] = Blank /\ \A b \in Slots : b # o => KeyAt'[b] = KeyAt[b]
  <2>1. /\ DOMAIN rec = 1 .. Len(rec) /\ o - NHash \in 1 .. Len(rec) /\ NHash \in Nat
        /\ Len(rec) \in Nat /\ o \in Nat /\ Slots \subseteq Nat
    BY <1>2, <1>7, Domains, Constants, PointersAreNat
  <2>2. Rec(o)' = IdxOf(p, Blank)
    BY <1>9, <2>1 DEF Rec
  <2>3. \A b \in Slots : b # o => Rec(b)' = Rec(b)
    BY <1>9, <2>1 DEF Rec
  <2> QED
    BY <1>7, <1>9, <2>2, <2>3 DEF KeyAt, IdxOf
<1>11. \A b \in Slots : Nxt'[b] = IF b = a THEN Nxt[o] ELSE IF b = o THEN Nxt[FREE] ELSE Nxt[b]
  <2>1. \A b \in Slots : Nxt[b] = ptr[b]
    BY <1>5, NextUncut DEF Nxt
  <2>2. \A b \in Slots : Nxt'[b] = IF b = db'[p].ptroff THEN loc'[p].saveptr ELSE ptr'[b]
    BY <1>5, <1>9, NextCutThen DEF Nxt
  <2>3. DOMAIN ptr = Slots
    BY <1>2 DEF FilesTyped
  <2> QED
    BY <1>2, <1>3, <1>6, <1>7, <1>9, <2>1, <2>2, <2>3
<1>12. Nxt'[a] = Nxt[o] /\ \A b \in Slots : b \notin {a, o} => Nxt'[b] = Nxt[b]
  BY <1>8, <1>11
<1>13. /\ On(Nxt', c) = On(Nxt, c) \ {o} /\ o \in On(Nxt, c) /\ a # o
       /\ a \in Line(Nxt', c) /\ o \notin Live(Nxt)'
       /\ \A g \in Heads \ {c} : On(Nxt', g) = On(Nxt, g) /\ Line(Nxt', g) = Line(Nxt, g)
       /\ Sound(Nxt)' /\ Placed(Nxt, KeyAt)'
       /\ \A g \in Heads : p \notin wr[g] => Agree(Nxt, KeyAt, Nxt', KeyAt', g)
       /\ \A q \in Procs : \A b \in MineOf(q) : Nxt'[b] = Nxt[b] /\ KeyAt'[b] = KeyAt[b]
       /\ Live(Nxt)' \subseteq Live(Nxt)
       /\ \A q \in Procs : o \notin MineOf(q)
  BY <1>2, <1>4, <1>6, <1>7, <1>8, <1>10, <1>12, TakesOff
<1>14. MineOf(p)' = {o}
  BY <1>2, <1>3 DEF MineOf, Mine
<1>15. MineOf(p)' \cap Live(Nxt)' = {} /\ \A q \in Procs \ {p} : MineOf(p)' \cap MineOf(q) = {}
  BY <1>13, <1>14
<1>16. Knows(pc[p], req[p], db[p], loc[p], Nxt, KeyAt)'
  <2>1. PICK l, r, h, v, f, k :
          /\ l = pc'[p] /\ r = req'[p] /\ h = db'[p] /\ v = loc'[p] /\ f = Nxt' /\ k = KeyAt'
    OBVIOUS
  <2>2. \A b \in On(f, c) : b \in On(Nxt, c) /\ b # o /\ k[b] = KeyAt[b]
    BY <1>10, <1>13, <1>4, <1>1, <2>1, ChainAt
  <2>3. \A b \in On(f, c) : k[b] # req[p].key
    <3>1. Placed(Nxt, KeyAt) /\ c \in 1 .. NHash
      BY <1>1, <1>4, ChainAt DEF LInv, Lists
    <3> QED
      BY <1>6, <1>13, <2>2, <3>1 DEF Placed
  <2>4. \A b \in On(f, Hash[r.key]) : k[b] # r.key
    BY <1>2, <1>8, <2>1, <2>3
  <2>5. h.ptroff \in Line(f, Hash[r.key])
    BY <1>2, <1>3, <1>8, <1>13, <2>1
  <2>6. f[h.idxoff] = f[FREE] /\ k[h.idxoff] = Blank
    BY <1>3, <1>7, <1>8, <1>10, <1>11, <1>13, <2>1
  <2>7. l = "del_head"
    BY <1>2, <2>1
  <2>8. Knows(l, r, h, v, f, k)
    BY <2>4, <2>5, <2>6, <2>7 DEF Knows, Walked, Located, Leaving, Inserting, Searching, TornLabels,
         FoundLabels, AbsentLabels, CptrLabels, StoreLabels, FreeLabels, AppendLabels
  <2> QED
    BY <2>1, <2>8
<1>17. OthersKept(req[p].key)
  <2> SUFFICES ASSUME NEW y \in Keys \ {req[p].key}
               PROVE  RecordFor(Nxt', KeyAt', y) = RecordFor(Nxt, KeyAt, y)
    BY DEF OthersKept
  <2>1. Hash[y] \in Heads
    BY Constants DEF Heads
  <2>2. On(Nxt', Hash[y]) \ {o} = On(Nxt, Hash[y]) \ {o}
    BY <1>13, <2>1
  <2>3. KeyAt[o] # y /\ KeyAt'[o] # y
    BY <1>6, <1>10, Constants
  <2>4. \A b \in On(Nxt, Hash[y]) : b # o => KeyAt'[b] = KeyAt[b]
    BY <1>2, <1>10, <2>1, NxtOK, OnFollows, Pointing
  <2> QED
    BY <2>2, <2>3, <2>4 DEF RecordFor
<1> QED
  BY <1>2, <1>13, <1>15, <1>16, <1>17, ListsStep

\* a step that fills in record o, which is on no list
LEMMA FillsIn ==
  ASSUME LInv, ~torn, NEW p \in Procs, Turn(p), NEW o, o \notin Live(Nxt), o \in Slots',
         pc[p] \in {"reuse_idx", "idx_write"}, pc'[p] \in {"idx_unlock", "publish"},
         req'[p] = req[p], loc'[p] = loc[p], db'[p].idxoff = o,
         \A a \in Slots : a # o => ptr'[a] = ptr[a] /\ KeyAt'[a] = KeyAt[a],
         ptr'[o] = loc[p].cptr, KeyAt'[o] = req[p].key,
         \A q \in Procs \ {p} : o \notin MineOf(q)
  PROVE  LInv' /\ OthersKept(req[p].key)
<1>1. /\ NxtShape /\ NxtShape' /\ DOMAIN Nxt \subseteq DOMAIN Nxt' /\ IInv /\ Sound(Nxt)
      /\ Placed(Nxt, KeyAt)
  BY ShapeStep DEF LInv, Lists
<1>2. PICK f, e, k, m : f = Nxt /\ e = Nxt' /\ k = KeyAt /\ m = KeyAt'
  OBVIOUS
<1>3. /\ PointerFn(f) /\ PointerFn(e) /\ DOMAIN f \subseteq DOMAIN e /\ DOMAIN f = Slots /\ Sound(f)
      /\ Placed(f, k)
  BY <1>1, <1>2 DEF NxtShape
<1>4. pc[p] \notin TornLabels /\ pc'[p] \notin TornLabels /\ pc[p] \in ChainLabels
      /\ pc[p] \in PlainLabels
  BY DEF TornLabels, ChainLabels, KeyLabels, StoreLabels, AppendLabels, PlainLabels
<1>5. e[o] = loc[p].cptr /\ \A a \in Slots : a # o => e[a] = f[a]
  <2>1. \A q \in Procs : Unlinking(q) => db[q].ptroff # o
    BY <1>2, <1>3, CutterOf, LinesLive
  <2> QED
    BY <1>2, <1>4, <2>1, NxtWritten
<1>6. \A a \in Live(f) : a \in Slots /\ a # o /\ e[a] = f[a] /\ m[a] = k[a]
  <2>1. FREE \in Heads
    BY <1>3, Pointing
  <2> QED
    BY <1>2, <1>3, <1>5, <2>1, LinesLive
<1>7. (\A h \in Heads : On(e, h) = On(f, h) /\ Line(e, h) = Line(f, h)) /\ Live(e) = Live(f) /\ Sound(e)
  BY <1>3, <1>6, SameLists
<1>8. Placed(e, m)
  BY <1>3, <1>6, <1>7, SamePlaced
<1>9. \A h \in Heads : Agree(f, k, e, m, h)
  <2>1. \A h \in Heads : \A a \in Line(f, h) : a \in Live(f)
    BY <1>3, LinesLive
  <2> QED
    BY <1>3, <1>6, <1>7, <2>1, AgreeElsewhere
<1>10. \A q \in Procs \ {p} : \A a \in MineOf(q) : e[a] = f[a] /\ m[a] = k[a]
  BY <1>1, <1>2, <1>5, MineIsRec
<1>11. MineOf(p)' = {o}
  BY DEF MineOf, Mine
<1>12. Knows(pc[p], req[p], db[p], loc[p], Nxt, KeyAt)'
  <2>1. PICK l, r, h, v : l = pc'[p] /\ r = req'[p] /\ h = db'[p] /\ v = loc'[p]
    OBVIOUS
  <2>2. Hash[req[p].key] \in Heads /\ Hash[req[p].key] \in Live(f)
    <3>1. Hash[req[p].key] \in Heads
      BY <1>4, ChainAt
    <3> QED
      BY <1>3, <3>1, LinesLive
  <2>3. /\ \A a \in On(f, Hash[r.key]) : k[a] # r.key
        /\ v.cptr = f[Hash[r.key]]
    BY <1>2, <1>4, <2>1, KnowsAt
  <2>4. \A a \in On(f, Hash[r.key]) : a \in Live(f)
    BY <1>3, <2>1, <2>2, LinesLive
  <2>5. /\ \A a \in On(e, Hash[r.key]) : m[a] # r.key
        /\ v.cptr = e[Hash[r.key]] /\ e[h.idxoff] = e[Hash[r.key]] /\ m[h.idxoff] = r.key
    BY <1>2, <1>5, <1>6, <1>7, <2>1, <2>2, <2>3, <2>4
  <2>6. Knows(l, r, h, v, e, m)
    BY <2>1, <2>5 DEF Knows, Walked, Located, Leaving, Inserting, Searching, TornLabels,
         FoundLabels, AbsentLabels, CptrLabels, StoreLabels, FreeLabels, AppendLabels
  <2> QED
    BY <1>2, <2>1, <2>6
<1>13. OthersKept(req[p].key)
  <2>1. \A y \in Keys : Hash[y] \in Heads
    BY Constants DEF Heads
  <2>2. \A y \in Keys : On(e, Hash[y]) = On(f, Hash[y]) /\ \A a \in On(f, Hash[y]) : m[a] = k[a]
    BY <1>9, <2>1 DEF Agree
  <2> QED
    BY <1>2, <2>2 DEF OthersKept, RecordFor
<1> QED
  BY <1>2, <1>7, <1>8, <1>9, <1>10, <1>11, <1>12, <1>13, ListsStep

LEMMA ReuseIdxLists ==
  ASSUME LInv, ~torn, NEW p \in Procs, ReuseIdx(p)
  PROVE  LInv' /\ OthersKept(req[p].key)
<1>1. PICK o : o = db[p].idxoff
  OBVIOUS
<1>2. /\ ProcsTyped /\ FilesTyped /\ Turn(p) /\ req'[p] = req[p] /\ pc[p] = "reuse_idx"
      /\ pc'[p] = "publish" /\ loc'[p] = loc[p] /\ WriteIdx(o, loc[p].cptr, IdxOf(p, req[p].key))
      /\ db[p] \in Handles /\ IInv
  BY <1>1, AtHome DEF LInv, ReuseIdx, Turn, Step, Goto, ProcsTyped
<1>3. db'[p].idxoff = o
  BY <1>1, <1>2 DEF ReuseIdx, ProcsTyped, Handles
<1>4. MineOf(p) = {o}
  BY <1>1, <1>2 DEF MineOf, Mine
<1>5. IsRec(o) /\ o \in Slots /\ o \notin Live(Nxt) /\ \A q \in Procs \ {p} : o \notin MineOf(q)
  BY <1>2, <1>4, MineIsRec, MineApart
<1>6. /\ ptr' = [ptr EXCEPT ![o] = loc[p].cptr] /\ Slots' = Slots
      /\ rec' = [rec EXCEPT ![o - NHash] = IdxOf(p, req[p].key)]
  BY <1>2, <1>5, WriteInside
<1>7. /\ DOMAIN rec = 1 .. Len(rec) /\ o - NHash \in 1 .. Len(rec) /\ NHash \in Nat
      /\ Len(rec) \in Nat /\ o \in Nat /\ Slots \subseteq Nat /\ DOMAIN ptr = Slots
  BY <1>2, <1>5, Domains, Constants, PointersAreNat DEF FilesTyped
<1>8. KeyAt'[o] = req[p].key /\ \A b \in Slots : b # o => KeyAt'[b] = KeyAt[b]
  <2>1. Rec(o)' = IdxOf(p, req[p].key)
    BY <1>6, <1>7 DEF Rec
  <2>2. \A b \in Slots : b # o => Rec(b)' = Rec(b)
    BY <1>6, <1>7 DEF Rec
  <2> QED
    BY <1>5, <1>6, <1>7, <2>1, <2>2 DEF KeyAt, IdxOf
<1>9. ptr'[o] = loc[p].cptr /\ \A a \in Slots : a # o => ptr'[a] = ptr[a]
  BY <1>5, <1>6, <1>7
<1> QED
  BY <1>2, <1>3, <1>5, <1>6, <1>8, <1>9, FillsIn

LEMMA IdxWriteLists ==
  ASSUME LInv, ~torn, NEW p \in Procs, AppendWrite(p), pc[p] = "idx_write"
  PROVE  LInv' /\ OthersKept(req[p].key)
<1>1. PICK o : o = db[p].idxoff
  OBVIOUS
<1>2. /\ ProcsTyped /\ FilesTyped /\ Turn(p) /\ req'[p] = req[p] /\ db[p] \in Handles /\ IInv
      /\ pc'[p] = "idx_unlock" /\ loc'[p] = loc[p]
      /\ WriteIdx(o, loc[p].cptr, IdxOf(p, req[p].key)) /\ o = IdxEnd + 1
  BY <1>1, AtHome DEF LInv, AppendWrite, Turn, Step, Goto, ProcsTyped, Fit, Appending
<1>3. db'[p].idxoff = o
  BY <1>1, <1>2, ZenonT(60) DEF AppendWrite, ProcsTyped, Handles
<1>4. /\ \A x \in Slots : x # o /\ ptr'[x] = ptr[x]
      /\ \A i \in 1 .. Len(rec) : rec'[i] = rec[i]
      /\ ptr'[o] = loc[p].cptr /\ Rec(o)' = IdxOf(p, req[p].key)
      /\ Slots' = Slots \cup {o} /\ o \in Nat /\ o > NHash
  BY <1>2, WriteBeyond
<1>5. o \notin Live(Nxt) /\ \A q \in Procs : o \notin MineOf(q)
  <2>1. PointerFn(Nxt) /\ DOMAIN Nxt = Slots /\ FREE \in Heads
    BY <1>2, NxtOK, Pointing
  <2>2. Live(Nxt) \subseteq Slots
    BY <2>1, LinesLive
  <2> QED
    BY <1>2, <1>4, <2>2, MineIsRec
<1>6. KeyAt'[o] = req[p].key /\ \A b \in Slots : KeyAt'[b] = KeyAt[b]
  <2>1. /\ Len(rec) \in Nat /\ NHash \in Nat /\ Slots = 0 .. NHash + Len(rec)
    BY <1>2, Domains, Constants
  <2>2. \A b \in Slots : b > NHash => b - NHash \in 1 .. Len(rec)
    BY <2>1
  <2>3. \A b \in Slots : b > NHash => Rec(b)' = Rec(b)
    BY <1>4, <2>2 DEF Rec
  <2> QED
    BY <1>4, <2>1, <2>3 DEF KeyAt, IdxOf
<1>7. \A a \in Slots : a # o => ptr'[a] = ptr[a] /\ KeyAt'[a] = KeyAt[a]
  BY <1>4, <1>6
<1> QED
  BY <1>2, <1>3, <1>4, <1>5, <1>6, <1>7, FillsIn

LEMMA PublishLists ==
  ASSUME LInv, ~torn, NEW p \in Procs, Publish(p), db[p].idxoff <= PtrMax
  PROVE  /\ LInv' /\ OthersKept(req[p].key)
         /\ RecordFor(Nxt', KeyAt', req[p].key) = {db[p].idxoff}
<1>1. PICK o, c : o = db[p].idxoff /\ c = Chain(p)
  OBVIOUS
<1>2. /\ ProcsTyped /\ FilesTyped /\ Turn(p) /\ rec' = rec /\ pc[p] = "publish" /\ IInv
      /\ pc'[p] = "unlock" /\ ptr' = [ptr EXCEPT ![c] = o] /\ HasLocks(p)
  <2>1. ProcsTyped /\ FilesTyped /\ IInv /\ db[p].idxoff \in Nat /\ PtrMax \in Nat /\ HasLocks(p)
    BY AtHome, ConstantsAssumption DEF LInv, Guarded, Handles
  <2>2. ~(db[p].idxoff > PtrMax)
    BY <2>1
  <2> QED
    BY <1>1, <2>1, <2>2 DEF Publish, WritePtr, Turn, Step, Goto, ProcsTyped
<1>3. /\ NxtShape /\ NxtShape' /\ DOMAIN Nxt \subseteq DOMAIN Nxt' /\ Sound(Nxt) /\ Placed(Nxt, KeyAt)
  BY <1>2, ShapeStep DEF LInv, Lists
<1>4. p \in wr[c] /\ pc[p] \in ChainLabels /\ pc[p] \notin TornLabels /\ pc'[p] \notin TornLabels
  BY <1>1, <1>2, WriterOf DEF StoreLabels, TornLabels
<1>5. Slots' = Slots /\ KeyAt' = KeyAt
  BY <1>2 DEF Slots, IdxEnd, KeyAt, Rec
<1>6. /\ c = Hash[req[p].key] /\ c \in Heads /\ c \in Slots /\ c \in 1 .. NHash /\ c # FREE
      /\ DOMAIN Nxt = Slots
  BY <1>1, <1>4, ChainAt
<1>7. MineOf(p) = {o} /\ IsRec(o) /\ o \in Slots
  BY <1>1, <1>2, MineIsRec DEF MineOf, Mine
<1>8. o \notin Live(Nxt) /\ o # c
  <2>1. o \notin Live(Nxt)
    BY <1>7, MineApart
  <2> QED
    BY <2>1, <1>3, <1>6, LinesLive DEF NxtShape
<1>9. Nxt'[c] = o /\ \A a \in Slots : a # c => Nxt'[a] = Nxt[a]
  <2>1. ASSUME NEW q \in Procs, Unlinking(q) PROVE db[q].ptroff # c
    <3>1. /\ db[q].ptroff \in Line(Nxt, Chain(q)) /\ Chain(q) \in Heads /\ Chain(q) \in Locks
          /\ q \in wr[Chain(q)]
      BY <2>1, CutterOf
    <3>2. q # p
      BY <1>4, <2>1 DEF Unlinking
    <3>3. Chain(q) # c
      BY <1>4, <3>1, <3>2 DEF LInv, Guarded, Exclusive
    <3> QED
      BY <1>3, <1>6, <3>1, <3>3, ListsApart, LinesLive DEF NxtShape
  <2>2. DOMAIN ptr = Slots
    BY <1>2 DEF FilesTyped
  <2>3. ptr'[c] = o /\ \A a \in Slots : a # c => ptr'[a] = ptr[a]
    BY <1>2, <1>6, <2>2
  <2>4. /\ \A a \in Slots : a # c => Nxt'[a] = Nxt[a]
        /\ c \in Slots' => Nxt'[c] = ptr'[c]
    BY <1>2, <1>4, <2>1, <2>3, NxtWritten
  <2> QED
    BY <1>5, <1>6, <2>3, <2>4
<1>10. /\ Nxt[o] = Nxt[c] /\ KeyAt[o] = req[p].key
       /\ \A a \in On(Nxt, c) : KeyAt[a] # req[p].key
  BY <1>1, <1>2, <1>6, KnowsAt DEF Knows, Inserting
<1>11. PICK f, e, k : f = Nxt /\ e = Nxt' /\ k = KeyAt
  OBVIOUS
<1>12. /\ PointerFn(f) /\ PointerFn(e) /\ DOMAIN f \subseteq DOMAIN e /\ Sound(f) /\ Placed(f, k)
       /\ o \notin Live(f) /\ e[o] = f[c] /\ e[c] = o
  BY <1>3, <1>7, <1>8, <1>9, <1>10, <1>11 DEF NxtShape
<1>13. o \in RecordsOf(e)
  <2>1. IsRec(o)'
    BY <1>2, <1>7 DEF IsRec, IdxEnd, First
  <2> QED
    BY <1>3, <1>11, <2>1 DEF NxtShape
<1>14. \A a \in Live(f) : a # c => e[a] = f[a]
  BY <1>6, <1>9, <1>11, <1>12, LinesLive
<1>15. /\ On(e, c) = On(f, c) \cup {o} /\ Sound(e)
       /\ \A g \in Heads \ {c} : On(e, g) = On(f, g) /\ Line(e, g) = Line(f, g)
  BY <1>6, <1>12, <1>13, <1>14, Push
<1>16. Placed(e, k)
  <2>1. \A d \in 1 .. NHash : d \in Heads
    BY Constants DEF Heads
  <2>2. FREE \in Heads \ {c}
    BY <1>6, <1>12, Pointing
  <2>3. req[p].key \in Keys
    BY <1>2, <1>4, ChainOf DEF ChainLabels
  <2>4. k[o] = req[p].key /\ \A a \in On(f, c) : k[a] # k[o]
    BY <1>10, <1>11
  <2> QED
    BY <1>6, <1>12, <1>15, <2>1, <2>2, <2>3, <2>4 DEF Placed
<1>17. Live(e) \subseteq Live(f) \cup {o}
  <2>1. \A g \in Heads : Line(e, g) \subseteq Line(f, g) \cup {o}
    BY <1>15 DEF Line
  <2> QED
    BY <2>1 DEF Live
<1>18. ASSUME NEW h \in Heads, p \notin wr[h] PROVE Agree(f, k, e, k, h)
  <2>1. h # c
    BY <1>4, <1>18
  <2>2. c \notin Line(f, h)
    BY <1>6, <1>12, <2>1, ListsApart, LinesLive
  <2>3. \A a \in Line(f, h) : a \in Live(f) /\ e[a] = f[a]
    BY <1>12, <1>14, <2>2, LinesLive
  <2> QED
    BY <1>12, <1>15, <2>1, <2>3, AgreeElsewhere
<1>19. MineOf(p)' = {}
  BY <1>2 DEF MineOf, Mine
<1>20. \A q \in Procs \ {p} : \A a \in MineOf(q) : Nxt'[a] = Nxt[a] /\ KeyAt'[a] = KeyAt[a]
  <2>1. c \in Live(f)
    BY <1>6, <1>12, LinesLive
  <2>2. \A q \in Procs : \A a \in MineOf(q) : a \in Slots /\ a # c
    BY <1>2, <1>11, <2>1, MineIsRec, MineApart
  <2> QED
    BY <1>5, <1>9, <2>2
<1>21. Knows(pc[p], req[p], db[p], loc[p], Nxt, KeyAt)'
  <2>1. PICK l, r, h, v : l = pc'[p] /\ r = req'[p] /\ h = db'[p] /\ v = loc'[p]
    OBVIOUS
  <2>2. l \in BareLabels
    BY <1>2, <2>1 DEF BareLabels
  <2>3. Knows(l, r, h, v, e, KeyAt')
    BY <2>2, KnowsNothing
  <2> QED
    BY <1>11, <2>1, <2>3
<1>22. Sound(Nxt)' /\ Placed(Nxt, KeyAt)' /\ Live(Nxt)' \subseteq Live(Nxt) \cup MineOf(p)
  BY <1>5, <1>7, <1>11, <1>15, <1>16, <1>17
<1>23. \A h \in Heads : p \notin wr[h] => Agree(Nxt, KeyAt, Nxt', KeyAt', h)
  BY <1>5, <1>11, <1>18
<1>24. OthersKept(req[p].key) /\ RecordFor(Nxt', KeyAt', req[p].key) = {o}
  <2>1. \A y \in Keys : Hash[y] \in Heads
    BY Constants DEF Heads
  <2>2. \A y \in Keys : \A a \in On(e, Hash[y]) : a \in On(f, Hash[y]) \/ (a = o /\ Hash[y] = c)
    BY <1>15, <2>1
  <2>3. \A y \in Keys : On(f, Hash[y]) \subseteq On(e, Hash[y])
    BY <1>15, <2>1
  <2>4. k[o] = req[p].key /\ o \in On(e, c) /\ \A a \in On(f, c) : k[a] # req[p].key
    BY <1>10, <1>11, <1>15
  <2>5. \A y \in Keys \ {req[p].key} : RecordFor(e, k, y) = RecordFor(f, k, y)
    BY <2>2, <2>3, <2>4 DEF RecordFor
  <2>6. RecordFor(e, k, req[p].key) = {o}
    BY <1>6, <1>15, <2>4 DEF RecordFor
  <2> QED
    BY <1>5, <1>11, <2>5, <2>6 DEF OthersKept
<1> QED
  BY <1>1, <1>2, <1>19, <1>20, <1>21, <1>22, <1>23, <1>24, ListsStep

-----------------------------------------------------------------------------
(* Every step.                                                               *)

LEMMA LTurnOK ==
  ASSUME LInv, NEW p \in Procs, Turn(p)
  PROVE  LInv'
<1>1. CASE torn'
  BY <1>1, TornTurn
<1>2. CASE ~torn'
  <2>1. ~torn
    <3>1. torn \in BOOLEAN
      BY DEF LInv, IInv, TypeOK
    <3>2. torn' = torn \/ torn' = (torn \/ pc[p] \in TornLabels)
      BY DEF Turn, Step, Call, Kill, FindLock, FindHead, FindWalk, FetchDat, UnlockChain, Return,
         DelLock, DelDat, DelFree, DelIdx, DelHead, DelUnlink, DelUnlock, ReadChain, FreeLock,
         FreeHead, FreeWalk, FreeTake, FreeUnlock, OverwriteDat, ReuseIdx, AppendLock, AppendSeek,
         AppendWrite, AppendUnlock, Publish, ScanLock, ScanIdx, ScanDat, ScanUnlock
    <3> QED
      BY <1>2, <3>1, <3>2
  <2>2. CASE FindLock(p) \/ FindHead(p) \/ FindWalk(p) \/ FetchDat(p) \/ UnlockChain(p)
    BY <2>1, <2>2, BareOK, HeadLists, WalkLists
  <2>3. CASE DelLock(p) \/ DelDat(p) \/ DelFree(p) \/ DelIdx(p) \/ DelHead(p)
             \/ DelUnlink(p) \/ DelUnlock(p)
    BY <2>1, <2>3, DelEarly, DelFreeLists, DelIdxLists, DelHeadLists, DelUnlinkLists, BareOK, PlainOK
  <2>4. CASE ReadChain(p) \/ FreeLock(p) \/ FreeHead(p) \/ FreeWalk(p) \/ FreeTake(p)
             \/ FreeUnlock(p)
    BY <2>1, <2>4, PlainOK, SearchLists, FreeTakeLists
  <2>5. CASE OverwriteDat(p) \/ ReuseIdx(p)
    <3>1. OverwriteDat(p) => pc[p] \in {"reuse_dat", "over_dat"}
      BY DEF OverwriteDat
    <3> QED
      BY <2>1, <2>5, <3>1, BareOK, PlainOK, ReuseIdxLists
  <2>6. CASE AppendLock(p) \/ AppendSeek(p) \/ AppendWrite(p) \/ AppendUnlock(p)
    <3>1. /\ AppendWrite(p) => pc[p] \in {"dat_write", "idx_write"}
          /\ AppendUnlock(p) => pc[p] \in {"dat_unlock", "idx_unlock"}
      BY DEF AppendWrite, AppendUnlock
    <3> QED
      BY <2>1, <2>6, <3>1, PlainOK, IdxWriteLists, IdxUnlockLists
  <2>7. CASE Publish(p)
    <3>1. db[p].idxoff <= PtrMax \/ db[p].idxoff > PtrMax
      BY <2>7 DEF Publish
    <3> QED
      BY <2>1, <2>7, <3>1, BareOK, PublishLists
  <2>8. CASE ScanLock(p) \/ ScanIdx(p) \/ ScanDat(p) \/ ScanUnlock(p) \/ Call(p) \/ Kill(p)
    BY <1>2, <2>1, <2>8, BareOK
  <2> QED
    BY <2>2, <2>3, <2>4, <2>5, <2>6, <2>7, <2>8 DEF Turn, Step
<1> QED
  BY <1>1, <1>2

LEMMA LNextOK == LInv /\ [Next]_vars => LInv'
<1> SUFFICES ASSUME LInv, [Next]_vars PROVE LInv'
  OBVIOUS
<1>1. ASSUME NEW p \in Procs, Call(p) \/ Step(p) \/ Kill(p) PROVE LInv'
  BY <1>1, LTurnOK DEF Turn
<1>2. CASE UNCHANGED vars
  <2>1. /\ ptr' = ptr /\ rec' = rec /\ dat' = dat /\ rd' = rd /\ wr' = wr /\ pc' = pc
        /\ req' = req /\ ret' = ret /\ db' = db /\ loc' = loc /\ ops' = ops /\ torn' = torn
    BY <1>2 DEF vars
  <2>2. IInv'
    BY <1>2, NextOK DEF LInv
  <2>3. Guarded' /\ DatOnce'
    BY <2>1 DEF LInv, Guarded, Exclusive, HasLocks, Chain, DatOnce
  <2>4. Slots' = Slots /\ KeyAt' = KeyAt /\ Nxt' = Nxt
    BY <2>1 DEF Slots, IdxEnd, KeyAt, Rec, Nxt, NextOf, Unlinking
  <2>5. torn' \/ Lists'
    BY <2>1, <2>4 DEF LInv, Lists, Apart, MineOf
  <2> QED
    BY <2>2, <2>3, <2>5 DEF LInv
<1> QED
  BY <1>1, <1>2 DEF Next, Finished

-----------------------------------------------------------------------------
(* The initial contents.                                                     *)

LEMMA LastIs ==
  ASSUME NEW s \in Preloads, NEW n \in 0 .. Len(s), NEW c, LastBefore(s, n, c) # 0
  PROVE  \E i \in 1 .. n : /\ LastBefore(s, n, c) = NHash + i /\ Hash[s[i][1]] = c
                           /\ \A j \in 1 .. n : Hash[s[j][1]] = c => j <= i
<1> DEFINE same == {i \in 1 .. n : Hash[s[i][1]] = c}
<1>1. n \in Nat /\ same \subseteq 1 .. n
  BY PreloadsAssumption
<1>2. same # {}
  BY DEF LastBefore
<1>3. \E i \in same : \A j \in same : j <= i
  <2> HIDE DEF same
  <2> QED
    BY <1>1, <1>2, LargestExists
<1>4. PICK i : i = CHOOSE x \in same : \A j \in same : j <= x
  OBVIOUS
<1>5. i \in same /\ \A j \in same : j <= i
  BY <1>3, <1>4
<1>6. LastBefore(s, n, c) = NHash + i
  BY <1>2, <1>4 DEF LastBefore
<1> QED
  BY <1>5, <1>6

\* the chain of a slot of the initial file
ChainIn(s, a) == IF a <= NHash THEN a ELSE Hash[s[a - NHash][1]]
LEMMA LoadedTo ==
  ASSUME NEW s \in Preloads, NEW a \in 0 .. NHash + Len(s), LoadedPtr(s)[a] # 0
  PROVE  /\ a # 0
         /\ \E i \in 1 .. Len(s) :
              /\ LoadedPtr(s)[a] = NHash + i /\ Hash[s[i][1]] = ChainIn(s, a)
              /\ a > NHash => i < a - NHash
              /\ \A j \in 1 .. Len(s) :
                   Hash[s[j][1]] = ChainIn(s, a) /\ (a > NHash => j < a - NHash) => j <= i
<1>1. Len(s) \in Nat /\ NHash \in Nat /\ a \in Nat
  BY PreloadsAssumption, Constants
<1>2. a # 0
  BY DEF LoadedPtr, FREE
<1>3. CASE a <= NHash
  <2>1. LoadedPtr(s)[a] = LastBefore(s, Len(s), a) /\ Len(s) \in 0 .. Len(s) /\ ~(a > NHash)
    BY <1>1, <1>2, <1>3 DEF LoadedPtr, FREE
  <2> QED
    BY <1>2, <1>3, <2>1, LastIs DEF ChainIn
<1>4. CASE ~(a <= NHash)
  <2>1. PICK n, c : n = a - NHash - 1 /\ c = Hash[s[a - NHash][1]]
    OBVIOUS
  <2>2. LoadedPtr(s)[a] = LastBefore(s, n, c) /\ n \in 0 .. Len(s) /\ ChainIn(s, a) = c
    BY <1>1, <1>2, <1>4, <2>1 DEF LoadedPtr, FREE, ChainIn
  <2>3. PICK i \in 1 .. n : /\ LastBefore(s, n, c) = NHash + i /\ Hash[s[i][1]] = c
                            /\ \A j \in 1 .. n : Hash[s[j][1]] = c => j <= i
    BY <2>2, LastIs
  <2>4. i \in 1 .. Len(s) /\ i < a - NHash
    BY <1>1, <1>4, <2>1, <2>2
  <2>5. a > NHash /\ \A j \in 1 .. Len(s) : j < a - NHash => j \in 1 .. n
    BY <1>1, <1>4, <2>1
  <2>6. /\ LoadedPtr(s)[a] = NHash + i /\ Hash[s[i][1]] = ChainIn(s, a)
        /\ \A j \in 1 .. Len(s) :
             Hash[s[j][1]] = ChainIn(s, a) /\ (a > NHash => j < a - NHash) => j <= i
    BY <2>2, <2>3, <2>5
  <2> QED
    BY <1>2, <2>4, <2>6
<1> QED
  BY <1>3, <1>4

LEMMA LoadedLists ==
  ASSUME NEW s \in Preloads, PointerFn(LoadedPtr(s)), NEW k,
         \A i \in 1 .. Len(s) : k[NHash + i] = s[i][1]
  PROVE  Sound(LoadedPtr(s)) /\ Placed(LoadedPtr(s), k)
<1>1. PICK f : f = LoadedPtr(s)
  OBVIOUS
<1>2. /\ Len(s) \in Nat /\ NHash \in Nat /\ NHash >= 1 /\ DOMAIN s = 1 .. Len(s)
      /\ \A i \in 1 .. Len(s) : s[i][1] \in Keys /\ Hash[s[i][1]] \in 1 .. NHash
      /\ \A i, j \in 1 .. Len(s) : s[i][1] = s[j][1] => i = j
  <2>1. /\ s \in Seq(Keys \X Data) /\ \A i, j \in DOMAIN s : s[i][1] = s[j][1] => i = j
    BY PreloadsAssumption
  <2>2. Len(s) \in Nat /\ DOMAIN s = 1 .. Len(s) /\ \A i \in 1 .. Len(s) : s[i][1] \in Keys
    BY <2>1
  <2> QED
    BY <2>1, <2>2, Constants
<1>3. PointerFn(f) /\ DOMAIN f = 0 .. NHash + Len(s) /\ FREE \in Heads /\ f[FREE] = 0
  <2>1. DOMAIN f = 0 .. NHash + Len(s) /\ f[0] = 0
    BY <1>1, <1>2 DEF LoadedPtr, FREE
  <2> QED
    BY <1>1, <2>1, Pointing DEF FREE
<1>4. \A a \in DOMAIN f : f[a] # 0 =>
        /\ a # 0
        /\ \E i \in 1 .. Len(s) :
             /\ f[a] = NHash + i /\ Hash[s[i][1]] = ChainIn(s, a)
             /\ a > NHash => i < a - NHash
             /\ \A j \in 1 .. Len(s) :
                  Hash[s[j][1]] = ChainIn(s, a) /\ (a > NHash => j < a - NHash) => j <= i
  <2> SUFFICES ASSUME NEW a \in DOMAIN f, f[a] # 0
               PROVE  /\ a # 0
                      /\ \E i \in 1 .. Len(s) :
                           /\ f[a] = NHash + i /\ Hash[s[i][1]] = ChainIn(s, a)
                           /\ a > NHash => i < a - NHash
                           /\ \A j \in 1 .. Len(s) :
                                Hash[s[j][1]] = ChainIn(s, a) /\ (a > NHash => j < a - NHash) => j <= i
    OBVIOUS
  <2>1. a \in 0 .. NHash + Len(s) /\ LoadedPtr(s)[a] # 0
    BY <1>1, <1>3
  <2> QED
    BY <1>1, <2>1, LoadedTo
<1>5. Sound(f)
  <2>1. Live(f) \subseteq DOMAIN f
    BY <1>3, LinesLive
  <2>2. ASSUME NEW a \in DOMAIN f, NEW b \in DOMAIN f, f[a] = f[b], f[a] # 0
        PROVE  a = b
    <3>1. PICK i \in 1 .. Len(s) :
             /\ f[a] = NHash + i /\ Hash[s[i][1]] = ChainIn(s, a)
             /\ a > NHash => i < a - NHash
             /\ \A j \in 1 .. Len(s) :
                  Hash[s[j][1]] = ChainIn(s, a) /\ (a > NHash => j < a - NHash) => j <= i
      BY <1>4, <2>2
    <3>2. PICK x \in 1 .. Len(s) :
             /\ f[b] = NHash + x /\ Hash[s[x][1]] = ChainIn(s, b)
             /\ b > NHash => x < b - NHash
             /\ \A j \in 1 .. Len(s) :
                  Hash[s[j][1]] = ChainIn(s, b) /\ (b > NHash => j < b - NHash) => j <= x
      BY <1>4, <2>2
    <3>3. x = i /\ ChainIn(s, a) = ChainIn(s, b) /\ a \in Nat /\ b \in Nat
      <4>1. x \in Nat /\ i \in Nat /\ NHash \in Nat
        BY <1>2
      <4>2. x = i
        <5>1. NHash + x = NHash + i
          BY <2>2, <3>1, <3>2
        <5> QED
          BY <4>1, <5>1
      <4>3. a \in 0 .. NHash + Len(s) /\ b \in 0 .. NHash + Len(s)
        BY <1>3, <2>2
      <4> QED
        BY <3>1, <3>2, <4>2, <4>3
    <3>4. a > NHash => a - NHash \in 1 .. Len(s) /\ Hash[s[a - NHash][1]] = ChainIn(s, a)
      BY <1>2, <1>3, <3>3 DEF ChainIn
    <3>5. b > NHash => b - NHash \in 1 .. Len(s) /\ Hash[s[b - NHash][1]] = ChainIn(s, b)
      BY <1>2, <1>3, <3>3 DEF ChainIn
    <3>6. CASE a > NHash /\ b > NHash
      <4>1. ~(a - NHash < b - NHash)
        BY <1>2, <3>1, <3>2, <3>3, <3>4, <3>6
      <4>2. ~(b - NHash < a - NHash)
        BY <1>2, <3>1, <3>2, <3>3, <3>5, <3>6
      <4> QED
        BY <1>2, <3>3, <4>1, <4>2
    <3>7. ~(a > NHash /\ b <= NHash)
      BY <1>2, <3>1, <3>2, <3>3, <3>4
    <3>8. ~(b > NHash /\ a <= NHash)
      BY <1>2, <3>1, <3>2, <3>3, <3>5
    <3>9. CASE a <= NHash /\ b <= NHash
      BY <3>3, <3>9 DEF ChainIn
    <3> QED
      BY <1>2, <3>3, <3>6, <3>7, <3>8, <3>9
  <2> QED
    BY <2>1, <2>2 DEF Sound
<1>6. On(f, FREE) = {}
  <2>1. Follows(f, FREE, {} \cap On(f, FREE))
    BY <1>3 DEF Follows
  <2>2. On(f, FREE) \subseteq {}
    BY <2>1, OnLeast
  <2> QED
    BY <2>2
<1>7. ASSUME NEW c \in 1 .. NHash
      PROVE  \A o \in On(f, c) : \E i \in 1 .. Len(s) : o = NHash + i /\ Hash[s[i][1]] = c
  <2> DEFINE W == {NHash + i : i \in {j \in 1 .. Len(s) : Hash[s[j][1]] = c}}
  <2>1. c \in Heads /\ c \in DOMAIN f /\ ChainIn(s, c) = c
    BY <1>2, <1>3 DEF Heads, ChainIn
  <2>2. f[c] \in W \cup {0}
    BY <1>4, <2>1
  <2>3. ASSUME NEW a \in W PROVE f[a] \in W \cup {0}
    <3>1. PICK i \in 1 .. Len(s) : a = NHash + i /\ Hash[s[i][1]] = c
      OBVIOUS
    <3>2. a \in DOMAIN f /\ ~(a <= NHash) /\ a - NHash = i
      BY <1>2, <1>3, <3>1
    <3>3. ChainIn(s, a) = c
      BY <3>1, <3>2 DEF ChainIn
    <3> QED
      BY <1>4, <3>2, <3>3
  <2>4. Follows(f, c, On(f, c))
    BY <1>3, <2>1, OnFollows
  <2>5. Follows(f, c, W \cap On(f, c))
    <3> HIDE DEF W
    <3> QED
      BY <2>2, <2>3, <2>4 DEF Follows
  <2>6. On(f, c) \subseteq W
    BY <2>5, OnLeast
  <2> QED
    BY <2>6
<1>8. Placed(f, k)
  <2>1. ASSUME NEW c \in 1 .. NHash, NEW o \in On(f, c)
        PROVE  /\ k[o] \in Keys /\ Hash[k[o]] = c
               /\ \A q \in On(f, c) : k[q] = k[o] => q = o
    <3>1. PICK i \in 1 .. Len(s) : o = NHash + i /\ Hash[s[i][1]] = c
      BY <1>7
    <3>2. k[o] = s[i][1]
      BY <3>1
    <3>3. ASSUME NEW q \in On(f, c), k[q] = k[o] PROVE q = o
      <4>1. PICK j \in 1 .. Len(s) : q = NHash + j
        BY <1>7
      <4>2. s[j][1] = s[i][1]
        BY <3>2, <3>3, <4>1
      <4> QED
        BY <1>2, <3>1, <4>1, <4>2
    <3> QED
      BY <1>2, <3>1, <3>2, <3>3
  <2> QED
    BY <1>6, <2>1 DEF Placed
<1> QED
  BY <1>1, <1>5, <1>8

LEMMA LInitOK == Init => LInv
<1> SUFFICES ASSUME Init PROVE LInv
  OBVIOUS
<1>1. IInv /\ \A p \in Procs : pc[p] = "idle"
  BY InitOK DEF Init
<1>2. Guarded
  BY LockNumbers, <1>1 DEF Init, Guarded, Exclusive, HasLocks, ChainLabels, FreeHeld, KeyLabels, DelLabels,
     StoreLabels, FreeLabels, AppendLabels
<1>3. PICK s \in Preloads : ptr = LoadedPtr(s) /\ rec = LoadedRec(s)
  BY DEF Init
<1>4. /\ DOMAIN rec = 1 .. Len(s) /\ Len(s) \in Nat /\ Len(rec) = Len(s) /\ NHash \in Nat
      /\ \A i \in 1 .. Len(s) : rec[i].datoff = i /\ rec[i].key = s[i][1]
  BY <1>3, PreloadsAssumption, Constants DEF LoadedRec
<1>5. DatOnce
  BY <1>1, <1>4 DEF DatOnce, Appends
<1>6. Nxt = ptr
  <2>1. \A a : NextOf(a) = ptr[a]
    BY <1>1, NextUncut DEF Unlinking, TornLabels
  <2>2. ptr = [a \in Slots |-> ptr[a]]
    BY <1>1, AtHome DEF IInv, TypeOK, FilesTyped
  <2> QED
    BY <2>1, <2>2 DEF Nxt
<1>7. \A i \in 1 .. Len(s) : KeyAt[NHash + i] = s[i][1]
  BY <1>4 DEF KeyAt, Rec, Slots, IdxEnd
<1>8. Sound(Nxt) /\ Placed(Nxt, KeyAt)
  BY <1>1, <1>3, <1>6, <1>7, NxtOK, LoadedLists
<1>9. ASSUME NEW p \in Procs
      PROVE  MineOf(p) = {} /\ Knows(pc[p], req[p], db[p], loc[p], Nxt, KeyAt)
  <2>1. pc[p] \in BareLabels
    BY <1>1 DEF BareLabels
  <2> QED
    BY <2>1, KnowsNothing DEF MineOf
<1> QED
  BY <1>1, <1>2, <1>5, <1>8, <1>9 DEF LInv, Lists, Apart

-----------------------------------------------------------------------------
(* The theorems.                                                             *)

(* What the reader of the model sees of the lists, from the invariant.       *)
LEMMA ReachedOn ==
  ASSUME LInv, ~torn
  PROVE  /\ \A h \in Heads : Reach(h) = On(Nxt, h)
         /\ Reachable \subseteq Live(Nxt) /\ Heads \subseteq Live(Nxt) /\ Live(Nxt) \subseteq Slots
         /\ \A a \in Slots : NextOf(a) = Nxt[a]
         /\ \A h \in Heads : \A o \in On(Nxt, h) : KeyAt[o] = Rec(o).key
         /\ \A p \in Procs : InHand(p) \subseteq MineOf(p)
<1>1. PointerFn(Nxt) /\ DOMAIN Nxt = Slots /\ \A o : o \in RecordsOf(Nxt) <=> IsRec(o)
  BY NxtOK DEF LInv
<1>2. \A h \in Heads : Reach(h) = On(Nxt, h)
  BY <1>1, ReachIsOn
<1>3. Reachable \subseteq Live(Nxt)
  BY <1>2 DEF Reachable, Live, Line, Heads
<1>4. Heads \subseteq Live(Nxt) /\ Live(Nxt) \subseteq Slots
  <2>1. FREE \in Heads
    BY <1>1, Pointing
  <2> QED
    BY <1>1, <2>1, LinesLive
<1>5. \A a \in Slots : NextOf(a) = Nxt[a]
  BY DEF Nxt
<1>6. \A h \in Heads : \A o \in On(Nxt, h) : KeyAt[o] = Rec(o).key
  <2>1. \A h \in Heads : \A o \in On(Nxt, h) : o \in Slots /\ o > NHash
    BY <1>1, OnFollows DEF RecordsOf
  <2> QED
    BY <2>1 DEF KeyAt
<1>7. \A p \in Procs : InHand(p) \subseteq MineOf(p)
  BY DEF InHand, MineOf, Mine
<1> QED
  BY <1>2, <1>3, <1>4, <1>5, <1>6, <1>7

(* Whatever the processes, keys, hash function, contents, workload and kills *)
(* (unless one falls between the two writes of a deletion that leave a chain *)
(* leading into the free list), no two of the hash table, the free list      *)
(* pointer and the records reached from them point to the same record, and   *)
(* a record that a store is filling in belongs to no list and to no other    *)
(* process (db.c:464-525, 638-745, 753-804).                                 *)
THEOREM ListsDisjoint == Spec => []ChainsDisjoint
<1>1. LInv => ChainsDisjoint
  <2> SUFFICES ASSUME LInv, ~torn
               PROVE  /\ \A a, b \in (0 .. NHash) \cup Reachable :
                           a # b => NextOf(a) # NextOf(b) \/ NextOf(a) = 0
                      /\ \A p \in Procs : InHand(p) \cap Reachable = {}
                      /\ \A p, q \in Procs : p # q => InHand(p) \cap InHand(q) = {}
    BY DEF ChainsDisjoint
  <2>1. Sound(Nxt) /\ Apart
    BY DEF LInv, Lists
  <2>2. (0 .. NHash) \cup Reachable \subseteq Live(Nxt)
    BY ReachedOn DEF Heads
  <2>3. \A a, b \in (0 .. NHash) \cup Reachable :
          a # b => NextOf(a) # NextOf(b) \/ NextOf(a) = 0
    BY <2>1, <2>2, ReachedOn DEF Sound
  <2> QED
    BY <2>1, <2>2, <2>3, ReachedOn DEF Apart
<1> QED
  BY <1>1, LInitOK, LNextOK, PTL DEF Spec

(* The same for the keys: a chain holds only records whose keys hash to it,  *)
(* each key once, the free list only blanked records, and no data record is  *)
(* described by two index records (db.c:260-302, 464-525, 638-745).          *)
THEOREM KeysInPlace == Spec => []KeysPlaced
<1>1. LInv => KeysPlaced
  <2> SUFFICES ASSUME LInv, ~torn
               PROVE  /\ \A c \in 1 .. NHash : \A o \in Reach(c) :
                           /\ Rec(o).key # Blank /\ Hash[Rec(o).key] = c
                           /\ \A q \in Reach(c) : Rec(q).key = Rec(o).key => q = o
                      /\ \A o \in Reach(FREE) : Rec(o).key = Blank
                      /\ \A i, j \in DOMAIN rec : rec[i].datoff = rec[j].datoff => i = j
    BY DEF KeysPlaced
  <2>1. Placed(Nxt, KeyAt) /\ DatOnce
    BY DEF LInv, Lists
  <2>2. FREE \in Heads /\ \A c \in 1 .. NHash : c \in Heads
    BY Constants DEF Heads, FREE
  <2>3. \A h \in Heads : \A o \in Reach(h) : o \in On(Nxt, h) /\ Rec(o).key = KeyAt[o]
    BY ReachedOn
  <2> QED
    BY <2>1, <2>2, <2>3, Constants DEF Placed, DatOnce
<1> QED
  BY <1>1, LInitOK, LNextOK, PTL DEF Spec

(* The locks do what they are for: two calls that are both between the lock  *)
(* and the unlock of one chain are two fetches, and at most one process is   *)
(* between the lock and the unlock of the free list to change it.            *)
LocksExclude ==
  \A p, q \in Procs :
    /\ pc[p] \in ChainLabels /\ pc[q] \in ChainLabels /\ Chain(p) = Chain(q) /\ p # q =>
         req[p].op = "fetch" /\ req[q].op = "fetch"
    /\ pc[p] \in FreeHeld /\ pc[q] \in FreeHeld => p = q
THEOREM WritersAlone == Spec => []LocksExclude
<1>1. LInv => LocksExclude
  <2> SUFFICES ASSUME LInv, NEW p \in Procs, NEW q \in Procs
               PROVE  /\ pc[p] \in ChainLabels /\ pc[q] \in ChainLabels /\ Chain(p) = Chain(q) /\ p # q =>
                           req[p].op = "fetch" /\ req[q].op = "fetch"
                      /\ pc[p] \in FreeHeld /\ pc[q] \in FreeHeld => p = q
    BY DEF LocksExclude
  <2>1. Exclusive /\ HasLocks(p) /\ HasLocks(q) /\ FREE \in Locks
    BY LockNumbers DEF LInv, Guarded
  <2>2. pc[p] \in ChainLabels => Chain(p) \in Locks
    BY ChainOf DEF LInv, ChainLabels
  <2> QED
    BY <2>1, <2>2 DEF HasLocks, Exclusive
<1> QED
  BY <1>1, LInitOK, LNextOK, PTL DEF Spec
=============================================================================
