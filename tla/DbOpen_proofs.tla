---------------------------- MODULE DbOpen_proofs ----------------------------
(***************************************************************************)
(* Proofs about DbOpen for any number of processes, opens and cells.  The  *)
(* inductive invariant says which lock a process holds at each label, and  *)
(* what that lock lets it know of the file.                                *)
(***************************************************************************)
EXTENDS DbOpen, TLAPS

Cells == {"hdr", "rec", "junk"}

Types ==
  /\ exists \in BOOLEAN /\ hit \in BOOLEAN /\ bare \in BOOLEAN
  /\ idx \in Seq(Cells) /\ Len(idx) <= MaxCells
  /\ whole \subseteq Procs /\ part \subseteq Procs
  /\ pc \in [Procs -> Labels] /\ flag \in [Procs -> Flags]
  /\ size \in [Procs -> Nat] /\ opens \in [Procs -> 0 .. MaxOpens]
  /\ made \in [Procs -> BOOLEAN]

(* Who holds a lock, and that it is held by one process.                     *)
Owners ==
  /\ whole = {p \in Procs : pc[p] \in {"stat", "init", "stat_unlock"}}
  /\ part = {p \in Procs : pc[p] \in {"use_head", "use_append", "use_publish", "use_unlock"}}
  /\ \A p, q \in whole \cup part : p = q

(* What a lock holder knows: there is room for one record more, the file is  *)
(* empty when it is to be initialized, the header is there in a store.       *)
Known ==
  /\ \A p \in Procs : pc[p] \in {"use_head", "use_append"} => Len(idx) < MaxCells
  /\ \A p \in Procs : pc[p] = "init" => idx = <<>>
  /\ \A p \in Procs : pc[p] \in InStore => hit \/ HasHeader

IInv == Types /\ Owners /\ Known /\ HeaderFirst

(* The sequences the actions make of idx.                                    *)
LEMMA Empty == <<>> \in Seq(Cells) /\ Len(<<>>) = 0
  OBVIOUS

LEMMA Cell ==
  ASSUME NEW s \in Seq(Cells), NEW c \in Cells
  PROVE  LET t == <<c>> \o (IF s = <<>> THEN <<>> ELSE Tail(s))
         IN /\ t \in Seq(Cells) /\ t # <<>> /\ Head(t) = c
            /\ Len(t) = IF s = <<>> THEN 1 ELSE Len(s)
<1>1. <<c>> \in Seq(Cells) /\ Len(<<c>>) = 1 /\ <<c>>[1] = c
  OBVIOUS
<1>2. CASE s = <<>>
  BY <1>1, <1>2
<1>3. CASE s # <<>>
  <2>1. Tail(s) \in Seq(Cells) /\ Len(Tail(s)) = Len(s) - 1 /\ Len(s) \in Nat
    BY <1>3
  <2>2. /\ <<c>> \o Tail(s) \in Seq(Cells) /\ Len(<<c>> \o Tail(s)) = Len(s)
        /\ (<<c>> \o Tail(s))[1] = c
    BY <1>1, <2>1
  <2>3. Len(s) # 0
    BY <1>3
  <2>4. <<c>> \o Tail(s) # <<>>
    BY <2>2, <2>3
  <2> QED
    BY <1>3, <2>2, <2>4
<1> QED
  BY <1>2, <1>3

LEMMA Last ==
  ASSUME NEW s \in Seq(Cells)
  PROVE  /\ Append(s, "rec") \in Seq(Cells) /\ Len(Append(s, "rec")) = Len(s) + 1
         /\ Append(s, "rec") # <<>>
         /\ s # <<>> => Head(Append(s, "rec")) = Head(s)
<1>1. "rec" \in Cells
  BY DEF Cells
<1>2. /\ Append(s, "rec") \in Seq(Cells) /\ Len(Append(s, "rec")) = Len(s) + 1
      /\ Len(s) \in Nat
  BY <1>1
<1>3. Append(s, "rec") # <<>>
  BY <1>2
<1>4. ASSUME s # <<>> PROVE Head(Append(s, "rec")) = Head(s)
  <2>1. Len(s) # 0
    BY <1>4
  <2> QED
    BY <1>2, <1>3, <2>1
<1> QED
  BY <1>2, <1>3, <1>4

LEMMA InitInv == Init => IInv
<1> SUFFICES ASSUME Init PROVE IInv
  OBVIOUS
<1>1. Types
  <2>1. idx \in Seq(Cells) /\ Len(idx) <= MaxCells
    BY OpenAssumption DEF Init
  <2>2. opens \in [Procs -> 0 .. MaxOpens]
    BY OpenAssumption DEF Init
  <2>3. pc \in [Procs -> Labels] /\ flag \in [Procs -> Flags]
    BY DEF Init, Labels, Flags
  <2> QED
    BY <2>1, <2>2, <2>3 DEF Init, Types
<1>2. Owners /\ Known /\ HeaderFirst
  BY DEF Init, Owners, Known, HeaderFirst, InStore
<1> QED
  BY <1>1, <1>2 DEF IInv

LEMMA NextInv == IInv /\ [Next]_vars => IInv'
<1> SUFFICES ASSUME IInv, [Next]_vars PROVE IInv'
  OBVIOUS
<1> USE DEF IInv, InStore, HasHeader, HeaderFirst
<1>1. ASSUME NEW p \in Procs, Open(p) PROVE IInv'
  <2>1. Types'
    <3>1. opens' \in [Procs -> 0 .. MaxOpens]
      BY <1>1, OpenAssumption DEF Open, Types
    <3>2. idx' = idx \/ idx' = <<>>
      BY <1>1 DEF Open
    <3>3. idx' \in Seq(Cells) /\ Len(idx') <= MaxCells
      <4>1. idx \in Seq(Cells) /\ Len(idx) <= MaxCells
        BY DEF Types
      <4>2. 0 <= MaxCells
        BY OpenAssumption
      <4> HIDE DEF IInv
      <4> QED
        BY <3>2, <4>1, <4>2, Empty
    <3>4. PICK f \in Flags : Open(p)!3!(f)
      BY <1>1 DEF Open
    <3>5. /\ pc' = pc \/ \E l \in Labels : pc' = [pc EXCEPT ![p] = l]
          /\ flag' = flag \/ flag' = [flag EXCEPT ![p] = f]
          /\ made' = made \/ made' = [made EXCEPT ![p] = ~exists]
      BY <3>4, Zenon DEF Goto, Labels
    <3>6. exists' \in BOOLEAN /\ hit' \in BOOLEAN /\ bare' \in BOOLEAN
      BY <3>4 DEF Types
    <3>7. pc' \in [Procs -> Labels] /\ flag' \in [Procs -> Flags]
      BY <3>5, ZenonT(60) DEF Types
    <3>8. made' \in [Procs -> BOOLEAN]
      BY <3>5, Zenon DEF Types
    <3>9. whole' = whole /\ part' = part /\ size' = size
      BY <1>1 DEF Open
    <3> QED
      BY <3>1, <3>3, <3>6, <3>7, <3>8, <3>9 DEF Types
  <2>2. Owners'
    BY <1>1 DEF Open, Types, Owners, Goto
  <2>3. Known' /\ HeaderFirst'
    <3>1. PICK f \in Flags : Open(p)!3!(f)
      BY <1>1 DEF Open
    <3>2. pc[p] = "closed"
      BY <1>1 DEF Open
    <3>3. CASE idx' = idx /\ hit' = hit /\ (pc' = pc \/ pc' = [pc EXCEPT ![p] = "open"])
      BY <3>2, <3>3 DEF Types, Known
    <3>4. CASE idx' = <<>> /\ hit' = (hit \/ \E q \in Procs : pc[q] \in InStore)
               /\ \E l \in {"stat_lock", "open"} : pc' = [pc EXCEPT ![p] = l]
      <4>1. \A q \in Procs : pc'[q] \in {"use_head", "use_append", "use_publish", "init"}
                              => pc[q] = pc'[q]
        BY <3>2, <3>4 DEF Types
      <4>2. \A q \in Procs : pc'[q] \in InStore => hit'
        BY <3>4, <4>1
      <4>3. \A q \in Procs : pc'[q] \in {"use_head", "use_append"} => Len(idx') < MaxCells
        BY <3>4, Empty, OpenAssumption
      <4> QED
        BY <3>4, <4>2, <4>3 DEF Known
    <3>5. CASE f \in Truncates
      BY <3>1, <3>3, <3>4, <3>5 DEF Goto
    <3>6. CASE f \notin Truncates
      BY <3>1, <3>3, <3>6 DEF Goto, Types, Truncates
    <3> QED
      BY <3>5, <3>6
  <2> QED
    BY <2>1, <2>2, <2>3
<1>2. ASSUME NEW p \in Procs, StatLock(p) PROVE IInv'
  <2>1. Types'
    BY <1>2 DEF StatLock, Types, Goto, Labels
  <2>2. Owners'
    BY <1>2 DEF StatLock, Types, Owners, Goto
  <2>3. Known' /\ HeaderFirst'
    BY <1>2 DEF StatLock, Types, Owners, Known, Goto
  <2> QED
    BY <2>1, <2>2, <2>3
<1>3. ASSUME NEW p \in Procs, Stat(p) PROVE IInv'
  <2>1. Types'
    BY <1>3 DEF Stat, Types, Goto, Labels
  <2>2. Owners'
    BY <1>3 DEF Stat, Types, Owners, Goto
  <2>3. Known' /\ HeaderFirst'
    BY <1>3 DEF Stat, Types, Owners, Known, Goto
  <2> QED
    BY <2>1, <2>2, <2>3
<1>4. ASSUME NEW p \in Procs, InitHash(p) PROVE IInv'
  <2>1. idx = <<>> /\ idx' \in Seq(Cells) /\ idx' # <<>> /\ Head(idx') = "hdr" /\ Len(idx') = 1
    BY <1>4, Cell DEF InitHash, Types, Known, Cells
  <2>2. Types'
    <3>1. Len(idx') <= MaxCells
      BY <2>1, OpenAssumption
    <3>3. bare' \in BOOLEAN
      BY <1>4, Zenon DEF InitHash
    <3>2. pc' \in [Procs -> Labels]
      BY <1>4 DEF InitHash, Types, Goto, Labels
    <3> QED
      BY <1>4, <2>1, <3>1, <3>2, <3>3 DEF InitHash, Types
  <2>3. Owners'
    BY <1>4 DEF InitHash, Types, Owners, Goto
  <2>4. Known' /\ HeaderFirst'
    BY <1>4, <2>1 DEF InitHash, Types, Owners, Known, Goto
  <2> QED
    BY <2>2, <2>3, <2>4
<1>5. ASSUME NEW p \in Procs, StatUnlock(p) PROVE IInv'
  <2>1. Types'
    BY <1>5 DEF StatUnlock, Types, Goto, Labels
  <2>2. Owners'
    BY <1>5 DEF StatUnlock, Types, Owners, Goto
  <2>3. Known' /\ HeaderFirst'
    BY <1>5 DEF StatUnlock, Types, Owners, Known, Goto
  <2> QED
    BY <2>1, <2>2, <2>3
<1>6. ASSUME NEW p \in Procs, Close(p) PROVE IInv'
  <2>1. Types'
    BY <1>6 DEF Close, Types, Goto, Labels
  <2>2. Owners'
    BY <1>6 DEF Close, Types, Owners, Goto
  <2>3. Known' /\ HeaderFirst'
    BY <1>6 DEF Close, Types, Owners, Known, Goto
  <2> QED
    BY <2>1, <2>2, <2>3
<1>7. ASSUME NEW p \in Procs, UseLock(p) PROVE IInv'
  <2>1. Types'
    BY <1>7 DEF UseLock, Types, Goto, Labels
  <2>2. Owners'
    BY <1>7 DEF UseLock, Types, Owners, Goto
  <2>3. Known' /\ HeaderFirst'
    BY <1>7 DEF UseLock, Types, Owners, Known, Goto
  <2> QED
    BY <2>1, <2>2, <2>3
<1>8. ASSUME NEW p \in Procs, UseHead(p) PROVE IInv'
  <2>1. Types'
    BY <1>8 DEF UseHead, Types, Goto, Labels
  <2>2. Owners'
    <3>1. CASE idx # <<>>
      BY <1>8, <3>1 DEF UseHead, Types, Owners, Goto
    <3>2. CASE idx = <<>>
      <4>1. pc' = [pc EXCEPT ![p] = "dead"] /\ part' = part \ {p} /\ whole' = whole
        BY <1>8, <3>2 DEF UseHead, Goto
      <4> QED
        BY <1>8, <4>1 DEF UseHead, Types, Owners
    <3> QED
      BY <3>1, <3>2
  <2>3. Known' /\ HeaderFirst'
    BY <1>8 DEF UseHead, Types, Owners, Known, Goto
  <2> QED
    BY <2>1, <2>2, <2>3
<1>9. ASSUME NEW p \in Procs, UseAppend(p) PROVE IInv'
  <2>1. /\ idx' \in Seq(Cells) /\ Len(idx') = Len(idx) + 1 /\ Len(idx) < MaxCells
        /\ hit \/ (idx' # <<>> /\ Head(idx') = "hdr")
    BY <1>9, Last DEF UseAppend, Types, Known
  <2>2. Types'
    BY <1>9, <2>1, OpenAssumption DEF UseAppend, Types, Goto, Labels
  <2>3. Owners'
    BY <1>9 DEF UseAppend, Types, Owners, Goto
  <2>4. Known' /\ HeaderFirst'
    BY <1>9, <2>1 DEF UseAppend, Types, Owners, Known, Goto
  <2> QED
    BY <2>2, <2>3, <2>4
<1>10. ASSUME NEW p \in Procs, UsePublish(p) PROVE IInv'
  <2>1. idx' \in Seq(Cells) /\ Len(idx') <= MaxCells
    <3>1. idx \in Seq(Cells) /\ "junk" \in Cells /\ 1 <= MaxCells
      BY OpenAssumption DEF Types, Cells
    <3>2. \/ idx' = idx
          \/ idx' = <<"junk">> \o (IF idx = <<>> THEN <<>> ELSE Tail(idx))
      BY <1>10 DEF UsePublish
    <3> QED
      BY <3>1, <3>2, Cell DEF Types
  <2>2. hit \/ (idx' = idx /\ HasHeader)
    BY <1>10 DEF UsePublish, Known
  <2>3. Types'
    BY <1>10, <2>1 DEF UsePublish, Types, Goto, Labels
  <2>4. Owners'
    BY <1>10 DEF UsePublish, Types, Owners, Goto
  <2>5. Known' /\ HeaderFirst'
    BY <1>10, <2>2 DEF UsePublish, Types, Owners, Known, Goto
  <2> QED
    BY <2>3, <2>4, <2>5
<1>11. ASSUME NEW p \in Procs, UseUnlock(p) PROVE IInv'
  <2>1. Types'
    BY <1>11 DEF UseUnlock, Types, Goto, Labels
  <2>2. Owners'
    BY <1>11 DEF UseUnlock, Types, Owners, Goto
  <2>3. Known' /\ HeaderFirst'
    BY <1>11 DEF UseUnlock, Types, Owners, Known, Goto
  <2> QED
    BY <2>1, <2>2, <2>3
<1>12. CASE UNCHANGED vars
  BY <1>12 DEF vars, Types, Owners, Known
<1> QED
  BY <1>1, <1>2, <1>3, <1>4, <1>5, <1>6, <1>7, <1>8, <1>9, <1>10, <1>11, <1>12
  DEF Next, Finished

(* CreatorsReady is inductive together with IInv: a step that ends the last  *)
(* initialization leaves a file that is not empty.                           *)
LEMMA ReadyStep ==
  ASSUME IInv, IInv', CreatorsReady, [Next]_vars
  PROVE  CreatorsReady'
<1> DEFINE Creator(p) == flag[p] = "creat_trunc" /\ pc[p] # "closed"
<1>1. SUFFICES ASSUME ~hit', ~bare', Initializing' = {}, NEW q \in Procs, Creator(q)'
               PROVE  idx' # <<>>
  BY DEF CreatorsReady, IInv, HeaderFirst, HasHeader
<1> USE DEF Initializing, Goto
<1>2. pc \in [Procs -> Labels] /\ flag \in [Procs -> Flags] /\ idx \in Seq(Cells)
  BY DEF IInv, Types
<1>3. ASSUME ~hit, ~bare, Initializing = {}, NEW r \in Procs, Creator(r) PROVE idx # <<>>
  BY <1>3 DEF CreatorsReady, HasHeader
<1>4. ASSUME NEW p \in Procs, Open(p) PROVE idx' # <<>>
  <2>1. PICK f \in Flags : Open(p)!3!(f)
    BY <1>4 DEF Open
  <2>2. CASE f = "creat_trunc"
    <3>1. pc' = [pc EXCEPT ![p] = "stat_lock"]
      BY <2>1, <2>2 DEF Creates
    <3>2. pc'[p] = "stat_lock"
      BY <3>1, <1>2
    <3> QED
      BY <3>2, <1>1
  <2>3. CASE f # "creat_trunc"
    <3>1. pc[p] = "closed"
      BY <1>4 DEF Open
    <3>2. (hit => hit') /\ (bare => bare')
      <4>1. \/ hit' = hit /\ bare' = bare
            \/ hit' = (hit \/ (f \in Truncates /\ \E r \in Procs : pc[r] \in InStore))
               /\ bare' = (bare \/ f = "trunc")
        BY <2>1
      <4>2. CASE hit' = hit /\ bare' = bare
        BY <4>2
      <4>3. ASSUME hit' = (hit \/ (f \in Truncates /\ \E r \in Procs : pc[r] \in InStore)),
                   bare' = (bare \/ f = "trunc")
            PROVE  (hit => hit') /\ (bare => bare')
        <5> HIDE DEF InStore
        <5>1. hit => hit'
          BY <4>3, Zenon
        <5>2. bare => bare'
          BY <4>3, Zenon
        <5> QED
          BY <5>1, <5>2
      <4> QED
        BY <4>1, <4>2, <4>3
    <3>3. /\ idx' = idx
          /\ \/ pc' = pc /\ flag' = flag
             \/ pc' = [pc EXCEPT ![p] = "open"] /\ flag' = [flag EXCEPT ![p] = f]
      BY <2>1, <2>3, <1>1 DEF Creates, Truncates
    <3>4. Creator(q)
      BY <3>1, <3>3, <2>3, <1>1, <1>2
    <3>5. Initializing = {}
      BY <3>1, <3>3, <1>1, <1>2
    <3> QED
      BY <3>2, <3>3, <3>4, <3>5, <1>1, <1>3, SMTT(30)
  <2> QED
    BY <2>2, <2>3
<1>5. ASSUME NEW p \in Procs, StatLock(p) PROVE idx' # <<>>
  BY <1>1, <1>2, <1>5 DEF StatLock
<1>6. ASSUME NEW p \in Procs, Stat(p) PROVE idx' # <<>>
  <2>1. Len(idx) # 0
    BY <1>1, <1>2, <1>6 DEF Stat
  <2> QED
    BY <2>1, <1>6, Empty DEF Stat
<1>7. ASSUME NEW p \in Procs, InitHash(p) PROVE idx' # <<>>
  BY <1>2, <1>7, Cell DEF InitHash, Cells
<1>8. ASSUME NEW p \in Procs, UseAppend(p) PROVE idx' # <<>>
  BY <1>2, <1>8, Last DEF UseAppend
<1>9. ASSUME NEW p \in Procs, UsePublish(p) PROVE idx' # <<>>
  <2>1. "junk" \in Cells
    BY DEF Cells
  <2>2. CASE idx # <<>> /\ Head(idx) = "hdr"
    BY <2>2, <1>9 DEF UsePublish
  <2>3. CASE ~(idx # <<>> /\ Head(idx) = "hdr")
    <3>1. idx' = <<"junk">> \o (IF idx = <<>> THEN <<>> ELSE Tail(idx))
      BY <2>3, <1>9 DEF UsePublish
    <3> QED
      BY <3>1, <2>1, <1>2, Cell
  <2> QED
    BY <2>2, <2>3
<1>10. ASSUME NEW p \in Procs,
              StatUnlock(p) \/ Close(p) \/ UseLock(p) \/ UseHead(p) \/ UseUnlock(p)
       PROVE  idx' # <<>>
  <2>1. /\ pc[p] \in {"stat_unlock", "open", "use_head", "use_unlock"}
        /\ idx' = idx /\ hit' = hit /\ bare' = bare /\ flag' = flag
        /\ \E l \in {"open", "closed", "use_head", "use_append", "dead"} :
             pc' = [pc EXCEPT ![p] = l]
    BY <1>10 DEF StatUnlock, Close, UseLock, UseHead, UseUnlock
  <2>2. Creator(q) /\ Initializing = {}
    BY <2>1, <1>1, <1>2
  <2> QED
    BY <2>1, <2>2, <1>1, <1>3
<1>11. CASE UNCHANGED vars
  <2>1. idx' = idx /\ hit' = hit /\ bare' = bare /\ flag' = flag /\ pc' = pc
    BY <1>11 DEF vars
  <2> QED
    BY <2>1, <1>1, <1>3
<1> QED
  BY <1>4, <1>5, <1>6, <1>7, <1>8, <1>9, <1>10, <1>11 DEF Next, Finished

(* Type correctness; the lock of the whole file and the record locks are     *)
(* never held by two processes.                                              *)
THEOREM TypeCorrect == Spec => []TypeOK
<1>1. IInv => TypeOK
  BY DEF IInv, Types, Owners, TypeOK, Cells
<1> QED
  BY <1>1, InitInv, NextInv, PTL DEF Spec

(* A file that is not empty begins with the hash table, unless O_TRUNC       *)
(* emptied it under a store.                                                 *)
THEOREM HeaderComesFirst == Spec => []HeaderFirst
<1>1. IInv => HeaderFirst
  BY DEF IInv
<1> QED
  BY <1>1, InitInv, NextInv, PTL DEF Spec

(* When no creating db_open is in progress, each process that created or     *)
(* emptied the database works on an initialized file, unless O_TRUNC hit a   *)
(* store under way or another process has opened it with O_TRUNC alone.      *)
THEOREM CreatedIsReady == Spec => []CreatorsReady
<1>1. Init => CreatorsReady
  BY DEF Init, CreatorsReady
<1> QED
  BY <1>1, InitInv, NextInv, ReadyStep, PTL DEF Spec

(* db_open writes the hash table into an empty file only.                    *)
THEOREM InitIsSafe == Spec => InitKeepsRecords
<1>1. ASSUME IInv, [Next]_vars
      PROVE  [\A p \in Procs : (pc[p] = "init" /\ pc'[p] = "stat_unlock") => idx = <<>>]_vars
  BY <1>1 DEF IInv, Known
<1> QED
  BY <1>1, InitInv, NextInv, PTL DEF Spec, InitKeepsRecords
=============================================================================
