--------------------------- MODULE ThreadParts_proofs ---------------------------
(***************************************************************************)
(* Proofs about the modules of ThreadParts, programs of threads with       *)
(* shared memory and of signal handlers, for any values of their           *)
(* constants: the inductive invariant of each, that Init has it (XInit),   *)
(* that a step keeps it (XStep), and what it implies (XHold).              *)
(* Programs_proofs combines them.                                          *)
(***************************************************************************)
EXTENDS ThreadParts, SequenceTheorems, FiniteSetTheorems, WellFoundedInduction, TLAPS

-----------------------------------------------------------------------------
(* FooObj: a section under one lock is a step already; what the counts need  *)
(* beyond that is hashlock, held from the walk of foo_find to its increment  *)
(* and from the second test of foo_rele to the removal, and that an object   *)
(* that is being linked or destroyed has one pointer to it.                  *)

FooLabels == {"idle", "link", "lockNew", "finish", "hold", "last", "recheck", "destroy"}
InList(o) == \E k \in DOMAIN fh : fh[k] = o

FooTypes ==
  /\ pc \in [Threads -> FooLabels]
  /\ ptr \in [Threads -> Objs \cup {Nil}]
  /\ live \subseteq Objs
  /\ f_count \in [Objs -> Int]
  /\ fh \in Seq(Objs)

\* A thread between two locks of foo_alloc, foo_find or foo_rele has hashlock.
HashHeld == \A c \in Threads : pc[c] \in {"lockNew", "hold", "recheck"} => hashlock = c

\* A thread inside a call has a pointer; the only one, if the object is new or done with.
Pointing ==
  \A c \in Threads : pc[c] # "idle" =>
    /\ ptr[c] # Nil
    /\ pc[c] \in {"link", "destroy"} => \A u \in Threads : ptr[u] = ptr[c] => u = c

\* mutex1.c has no list.
NoList == variant = "mutex1" => (\A c \in Threads : pc[c] \in {"idle", "destroy"}) /\ fh = <<>>

\* The count is the number of references until the last one is released.
CountIsHolders == \A o \in live : FooObj_!Destroying(o) = {}
  => f_count[o] = Cardinality(FooObj_!Holders(o))

\* The list holds what somebody can find.
Listed ==
  /\ FooObj_!IsInjective(fh)
  /\ \A o \in Objs : InList(o) => \E c \in Threads : ptr[c] = o /\ pc[c] \notin {"link", "destroy"}
  /\ variant # "mutex1" =>
       \A c \in Threads : ptr[c] # Nil /\ pc[c] \notin {"link", "destroy"} => InList(ptr[c])

FooObjInv == /\ FooTypes /\ HashHeld /\ Pointing /\ NoList
        /\ FooObj_!NoUseAfterFree /\ CountIsHolders /\ Listed

\* A set of naturals that is not empty has a least one.
LEMMA LeastOne ==
  ASSUME NEW I \in SUBSET Nat, I # {}
  PROVE  \E x \in I : \A y \in I : x <= y
<1>1. PICK x \in I : \A y \in I : ~(<<y, x>> \in OpToRel(<, Nat))
  <2>1. I \subseteq Nat
    OBVIOUS
  <2> QED
    BY <2>1, NatLessThanWellFounded, WFMin, Zenon
<1>2. ASSUME NEW y \in I PROVE x <= y
  <2>1. x \in Nat /\ y \in Nat
    OBVIOUS
  <2>2. ~(y < x)
    BY <1>1, <2>1 DEF OpToRel
  <2> QED
    BY <2>1, <2>2
<1> QED
  BY <1>2

\* A walk along the list that finds something finds the first place of it.
LEMMA SmallestExists ==
  ASSUME NEW len \in Nat, NEW I \in SUBSET (1 .. len), I # {}
  PROVE  FooObj_!Min(I) \in I
<1>1. I \in SUBSET Nat
  OBVIOUS
<1>2. PICK x \in I : \A y \in I : x <= y
  BY <1>1, LeastOne
<1> QED
  BY <1>2 DEF FooObj_!Min

LEMMA FoundInList ==
  ASSUME NEW e, fh \in Seq(Objs), FooObj_!Found(e) # Nil
  PROVE  FooObj_!Found(e) \in Objs /\ InList(FooObj_!Found(e))
<1> DEFINE I == {k \in 1 .. Len(fh) : f_id[fh[k]] = e}
<1>1. Len(fh) \in Nat /\ DOMAIN fh = 1 .. Len(fh)
  OBVIOUS
<1>2. I # {} /\ FooObj_!Found(e) = fh[FooObj_!Min(I)]
  BY <1>1 DEF FooObj_!Found, FooObj_!SelectInSeq
<1>3. FooObj_!Min(I) \in I
  BY <1>1, <1>2, SmallestExists
<1>4. FooObj_!Min(I) \in DOMAIN fh /\ fh[FooObj_!Min(I)] \in Objs
  BY <1>1, <1>3
<1> QED
  BY <1>2, <1>4 DEF InList

\* The list without an object, which is in it once.
LEMMA RemoveOK ==
  ASSUME NEW o, fh \in Seq(Objs), FooObj_!IsInjective(fh), fh' = FooObj_!RemoveFirst(fh, o)
  PROVE  /\ fh' \in Seq(Objs) /\ FooObj_!IsInjective(fh')
         /\ \A x : InList(x)' <=> InList(x) /\ x # o
<1> DEFINE I == {k \in 1 .. Len(fh) : fh[k] = o}
<1> DEFINE place == FooObj_!Min(I)
<1>1. Len(fh) \in Nat /\ DOMAIN fh = 1 .. Len(fh) /\ \A k \in 1 .. Len(fh) : fh[k] \in Objs
  OBVIOUS
<1>2. CASE I = {}
  BY <1>1, <1>2 DEF FooObj_!RemoveFirst, InList
<1>3. CASE I # {}
  <2>1. place \in I
    BY <1>1, <1>3, SmallestExists
  <2>2. place \in 1 .. Len(fh) /\ fh[place] = o
    BY <2>1
  <2>3. fh' = SubSeq(fh, 1, place - 1) \o SubSeq(fh, place + 1, Len(fh))
    BY <1>1, <1>3, <2>2 DEF FooObj_!RemoveFirst, FooObj_!RemoveAt, FooObj_!SelectInSeq
  <2> HIDE DEF place
  <2> DEFINE a == SubSeq(fh, 1, place - 1)
             b == SubSeq(fh, place + 1, Len(fh))
  <2>4. /\ a \in Seq(Objs) /\ Len(a) = place - 1
        /\ \A k \in 1 .. place - 1 : a[k] = fh[k]
    <3>1. \A k \in 1 .. place - 1 : fh[k] \in Objs
      BY <1>1, <2>2
    <3>2. place - 1 \in Int /\ 1 \in Int
      BY <1>1, <2>2
    <3> QED
      BY <1>1, <2>2, <3>1, <3>2, SubSeqProperties
  <2>5. /\ b \in Seq(Objs) /\ Len(b) = Len(fh) - place
        /\ \A k \in 1 .. Len(fh) - place : b[k] = fh[place + k]
    <3>1. \A k \in place + 1 .. Len(fh) : fh[k] \in Objs
      BY <1>1, <2>2
    <3>2. place + 1 \in Int /\ Len(fh) \in Int
      BY <1>1, <2>2
    <3>3. /\ b \in Seq(Objs)
          /\ Len(b) = IF place + 1 <= Len(fh) THEN Len(fh) - (place + 1) + 1 ELSE 0
          /\ \A k \in 1 .. Len(fh) - (place + 1) + 1 : b[k] = fh[place + 1 + k - 1]
      BY <3>1, <3>2, SubSeqProperties
    <3> HIDE DEF b
    <3>4. Len(fh) - (place + 1) + 1 = Len(fh) - place
      BY <1>1, <2>2
    <3>5. ASSUME NEW k \in 1 .. Len(fh) - place PROVE b[k] = fh[place + k]
      <4>1. b[k] = fh[place + 1 + k - 1]
        BY <3>3, <3>4
      <4>2. place + 1 + k - 1 = place + k
        BY <1>1, <2>2
      <4> QED
        BY <4>1, <4>2
    <3>6. Len(b) = Len(fh) - place
      <4>1. Len(b) = IF place + 1 <= Len(fh) THEN Len(fh) - place ELSE 0
        BY <3>3, <3>4
      <4>2. ~(place + 1 <= Len(fh)) => Len(fh) - place = 0
        <5>1. \A len, q \in Int : q \in 1 .. len /\ ~(q + 1 <= len) => len - q = 0
          OBVIOUS
        <5>2. place \in Int /\ Len(fh) \in Int
          BY <1>1, <2>2
        <5> QED
          BY <2>2, <5>1, <5>2
      <4> QED
        BY <4>1, <4>2
    <3> QED
      BY <3>3, <3>5, <3>6
  <2> HIDE DEF a, b
  <2>6. /\ fh' \in Seq(Objs) /\ Len(fh') = Len(fh) - 1
        /\ \A k \in 1 .. Len(fh) - 1 : fh'[k] = IF k < place THEN fh[k] ELSE fh[k + 1]
    <3>1. /\ a \o b \in Seq(Objs) /\ Len(a \o b) = Len(a) + Len(b)
          /\ \A k \in 1 .. Len(a) + Len(b) :
               (a \o b)[k] = IF k <= Len(a) THEN a[k] ELSE b[k - Len(a)]
      BY <2>4, <2>5, ConcatProperties
    <3>2. fh' = a \o b
      BY <2>3 DEF a, b
    <3>4. Len(a) + Len(b) = Len(fh) - 1
      BY <1>1, <2>2, <2>4, <2>5
    <3>3. ASSUME NEW k \in 1 .. Len(fh) - 1
          PROVE  (a \o b)[k] = IF k < place THEN fh[k] ELSE fh[k + 1]
      <4>1. CASE k < place
        BY <1>1, <2>2, <2>4, <3>1, <3>4, <4>1
      <4>2. CASE ~(k < place)
        <5>1. k - (place - 1) \in 1 .. Len(fh) - place /\ place + (k - (place - 1)) = k + 1
          BY <1>1, <2>2, <4>2
        <5>2. (a \o b)[k] = b[k - (place - 1)]
          BY <1>1, <2>2, <2>4, <3>1, <3>4, <4>2
        <5> QED
          BY <2>5, <4>2, <5>1, <5>2
      <4> QED
        BY <4>1, <4>2
    <3> QED
      BY <3>1, <3>2, <3>3, <3>4
  <2>7. DOMAIN fh' = 1 .. Len(fh) - 1
    BY <2>6
  <2>8. FooObj_!IsInjective(fh')
    <3>1. \A k, q \in 1 .. Len(fh) : fh[k] = fh[q] => k = q
      BY <1>1 DEF FooObj_!IsInjective
    <3>2. ASSUME NEW k \in 1 .. Len(fh) - 1, NEW q \in 1 .. Len(fh) - 1, fh'[k] = fh'[q]
          PROVE  k = q
      BY <1>1, <2>2, <2>6, <3>1, <3>2
    <3> QED
      BY <2>7, <3>2 DEF FooObj_!IsInjective
  <2>9. ASSUME NEW x PROVE InList(x)' <=> InList(x) /\ x # o
    <3>1. ASSUME InList(x)' PROVE InList(x) /\ x # o
      <4>1. PICK k \in 1 .. Len(fh) - 1 : fh'[k] = x
        BY <2>7, <3>1 DEF InList
      <4>2. PICK q \in 1 .. Len(fh) : fh[q] = x /\ q # place
        BY <1>1, <2>2, <2>6, <4>1
      <4> QED
        BY <1>1, <2>2, <4>2 DEF InList, FooObj_!IsInjective
    <3>2. ASSUME InList(x), x # o PROVE InList(x)'
      <4>1. PICK q \in 1 .. Len(fh) : fh[q] = x
        BY <1>1, <3>2 DEF InList
      <4>2. q # place
        BY <2>2, <3>2, <4>1
      <4>3. PICK k \in 1 .. Len(fh) - 1 : fh'[k] = x
        <5>1. CASE q < place
          <6>1. q \in 1 .. Len(fh) - 1 /\ fh'[q] = x
            BY <1>1, <2>2, <2>6, <4>1, <5>1
          <6> QED
            BY <6>1
        <5>2. CASE q > place
          <6>1. q - 1 \in 1 .. Len(fh) - 1 /\ ~(q - 1 < place) /\ (q - 1) + 1 = q
            BY <1>1, <2>2, <4>1, <5>2
          <6>2. fh'[q - 1] = x
            BY <2>6, <4>1, <6>1
          <6> QED
            BY <6>1, <6>2
        <5> QED
          BY <1>1, <2>2, <4>1, <4>2, <5>1, <5>2
      <4> QED
        BY <2>7, <4>3 DEF InList
    <3> QED
      BY <3>1, <3>2
  <2> QED
    BY <2>6, <2>8, <2>9
<1> QED
  BY <1>2, <1>3

\* The list with a new object in front.
LEMMA PrependOK ==
  ASSUME NEW o \in Objs, fh \in Seq(Objs), FooObj_!IsInjective(fh), ~InList(o), fh' = <<o>> \o fh
  PROVE  /\ fh' \in Seq(Objs) /\ FooObj_!IsInjective(fh')
         /\ \A x : InList(x)' <=> InList(x) \/ x = o
<1>1. Len(fh) \in Nat /\ DOMAIN fh = 1 .. Len(fh)
  OBVIOUS
<1>2. <<o>> \in Seq(Objs) /\ Len(<<o>>) = 1 /\ <<o>>[1] = o
  OBVIOUS
<1>3. /\ fh' \in Seq(Objs) /\ Len(fh') = Len(fh) + 1
      /\ \A k \in 1 .. Len(fh) + 1 : fh'[k] = IF k = 1 THEN o ELSE fh[k - 1]
  <2>1. /\ <<o>> \o fh \in Seq(Objs) /\ Len(<<o>> \o fh) = 1 + Len(fh)
        /\ \A k \in 1 .. 1 + Len(fh) :
             (<<o>> \o fh)[k] = IF k <= 1 THEN <<o>>[k] ELSE fh[k - 1]
    BY <1>2, ConcatProperties
  <2> QED
    BY <1>1, <1>2, <2>1
<1>4. DOMAIN fh' = 1 .. Len(fh) + 1
  BY <1>3
<1>5. FooObj_!IsInjective(fh')
  <2>1. ASSUME NEW k \in 1 .. Len(fh) + 1, NEW q \in 1 .. Len(fh) + 1, fh'[k] = fh'[q]
        PROVE  k = q
    <3>1. \A j \in 1 .. Len(fh) : fh[j] # o
      BY <1>1 DEF InList
    <3>2. \A e, j \in 1 .. Len(fh) : fh[e] = fh[j] => e = j
      BY <1>1 DEF FooObj_!IsInjective
    <3> QED
      BY <1>1, <1>3, <2>1, <3>1, <3>2
  <2> QED
    BY <1>4, <2>1 DEF FooObj_!IsInjective
<1>6. ASSUME NEW x PROVE InList(x)' <=> InList(x) \/ x = o
  <2>1. ASSUME InList(x) PROVE InList(x)'
    <3>1. PICK k \in 1 .. Len(fh) : fh[k] = x
      BY <1>1, <2>1 DEF InList
    <3>2. k + 1 \in 1 .. Len(fh) + 1 /\ fh'[k + 1] = x
      BY <1>1, <1>3, <3>1
    <3> QED
      BY <1>4, <3>2 DEF InList
  <2>2. InList(o)'
    BY <1>1, <1>3, <1>4 DEF InList
  <2>3. ASSUME InList(x)' PROVE InList(x) \/ x = o
    BY <1>1, <1>3, <1>4, <2>3 DEF InList
  <2> QED
    BY <2>1, <2>2, <2>3
<1> QED
  BY <1>3, <1>5, <1>6

-----------------------------------------------------------------------------
(* Counting the threads that point to an object.                             *)

LEMMA HoldersCounted ==
  ASSUME NEW o
  PROVE  /\ IsFiniteSet(FooObj_!Holders(o)) /\ Cardinality(FooObj_!Holders(o)) \in Nat
         /\ \A c \in FooObj_!Holders(o) : Cardinality(FooObj_!Holders(o)) = 1
              => FooObj_!Holders(o) = {c}
         /\ \A c \in FooObj_!Holders(o) : Cardinality(FooObj_!Holders(o)) # 1 =>
              \E u \in FooObj_!Holders(o) : u # c
<1>1. IsFiniteSet(FooObj_!Holders(o))
  BY FS_Subset, FooObjAssumption DEF FooObj_!Holders
<1>2. Cardinality(FooObj_!Holders(o)) \in Nat
  BY <1>1, FS_CardinalityType
<1>3. ASSUME NEW c \in FooObj_!Holders(o), Cardinality(FooObj_!Holders(o)) = 1
        PROVE FooObj_!Holders(o) = {c}
  <2>1. PICK x : FooObj_!Holders(o) = {x}
    BY <1>1, <1>3, FS_Singleton
  <2> QED
    BY <2>1
<1>4. ASSUME NEW c \in FooObj_!Holders(o), Cardinality(FooObj_!Holders(o)) # 1
      PROVE  \E u \in FooObj_!Holders(o) : u # c
  <2>1. FooObj_!Holders(o) # {c}
    BY <1>4, FS_Singleton
  <2> QED
    BY <2>1
<1> QED
  BY <1>1, <1>2, <1>3, <1>4

\* A reference more, and a reference less, counted or not.
LEMMA HolderJoins ==
  ASSUME NEW o, NEW c, c \notin FooObj_!Holders(o), FooObj_!Holders(o)' = FooObj_!Holders(o)
    \cup {c}
  PROVE  Cardinality(FooObj_!Holders(o)') = Cardinality(FooObj_!Holders(o)) + 1
BY HoldersCounted, FS_AddElement

LEMMA HolderLeaves ==
  ASSUME NEW o, NEW c \in FooObj_!Holders(o), FooObj_!Holders(o)' = FooObj_!Holders(o) \ {c}
  PROVE  Cardinality(FooObj_!Holders(o)') = Cardinality(FooObj_!Holders(o)) - 1
BY HoldersCounted, FS_RemoveElement

-----------------------------------------------------------------------------
(* The initial state, and the steps one by one.                              *)

LEMMA FooObjInit == FooObj_!Init => FooObjInv
<1> SUFFICES ASSUME FooObj_!Init PROVE FooObjInv
  OBVIOUS
<1>1. fh \in Seq(Objs) /\ \A o : ~InList(o)
  BY DEF FooObj_!Init, InList
<1>2. FooObj_!IsInjective(fh)
  BY DEF FooObj_!Init, FooObj_!IsInjective
<1> QED
  BY <1>1, <1>2 DEF FooObj_!Init, FooObjInv, FooTypes, FooLabels, HashHeld, Pointing, NoList,
      FooObj_!NoUseAfterFree,
     CountIsHolders, Listed

\* The invariant is about the pointers, the counts, the list and hashlock.
LEMMA SameOK == FooObjInv /\ UNCHANGED <<variant, pc, ptr, live, f_count, fh, hashlock>>
  => FooObjInv'
BY DEF FooObjInv, FooTypes, HashHeld, Pointing, NoList, FooObj_!NoUseAfterFree, CountIsHolders,
    Listed,
   FooObj_!Holders, FooObj_!Destroying, InList

\* malloc: nobody points to the new object yet
LEMMA MallocOK ==
  ASSUME FooObjInv, NEW c \in Threads, NEW l \in {"idle", "link"}, FooObj_!Malloc(c, l),
         l = "idle" <=> variant = "mutex1"
  PROVE  FooObjInv'
<1>1. CASE UNCHANGED <<live, f_count, f_id, ptr, pc>>
  BY <1>1, SameOK DEF FooObj_!Malloc, FooObj_!locks
<1>2. CASE \E o \in Objs \ live : /\ live' = live \cup {o} /\ FooObj_!Point(c, o)
        /\ FooObj_!Goto(c, l)
                                 /\ f_count' = [f_count EXCEPT ![o] = 1]
  <2>1. PICK o \in Objs \ live : /\ live' = live \cup {o} /\ FooObj_!Point(c, o)
                                      /\ FooObj_!Goto(c, l)
                                 /\ f_count' = [f_count EXCEPT ![o] = 1]
    BY <1>2
  <2>2. /\ pc[c] = "idle" /\ ptr[c] = Nil /\ o # Nil
        /\ variant' = variant /\ fh' = fh /\ hashlock' = hashlock
    BY FooObjAssumption DEF FooObj_!Malloc, FooObj_!Call, FooObj_!locks
  <2>3. \A u \in Threads : ptr[u] # o
    BY <2>2 DEF FooObjInv, FooObj_!NoUseAfterFree
  <2>4. ~InList(o)
    BY <2>3 DEF FooObjInv, Listed
  <2>5. /\ FooTypes' /\ HashHeld' /\ NoList'
    BY <2>1, <2>2 DEF FooObjInv, FooTypes, HashHeld, NoList, FooObj_!Point, FooObj_!Goto, FooLabels
  <2>6. Pointing' /\ FooObj_!NoUseAfterFree'
    BY <2>1, <2>2, <2>3 DEF FooObjInv, FooTypes, Pointing, FooObj_!NoUseAfterFree, FooObj_!Point,
        FooObj_!Goto
  <2>7. CountIsHolders'
    <3>1. FooObj_!Holders(o)' = {c}
      BY <2>1, <2>2, <2>3 DEF FooObjInv, FooTypes, FooObj_!Holders, FooObj_!Point, FooObj_!Goto
    <3>2. ASSUME NEW x \in live PROVE FooObj_!Holders(x)' = FooObj_!Holders(x)
            /\ FooObj_!Destroying(x)' = FooObj_!Destroying(x)
      BY <2>1, <2>2, FooObjAssumption DEF FooObjInv, FooTypes, FooObj_!Holders,
          FooObj_!Destroying, FooObj_!Point, FooObj_!Goto
    <3>3. Cardinality({c}) = 1
      BY FS_Singleton
    <3> QED
      BY <2>1, <3>1, <3>2, <3>3 DEF FooObjInv, FooTypes, CountIsHolders
  <2>8. Listed'
    <3>1. \A x : InList(x)' <=> InList(x)
      BY <2>2 DEF InList
    <3>2. \A u \in Threads \ {c} : ptr'[u] = ptr[u] /\ pc'[u] = pc[u]
      BY <2>1 DEF FooObjInv, FooTypes, FooObj_!Point, FooObj_!Goto
    <3>3. ptr'[c] = o /\ pc'[c] = l
      BY <2>1 DEF FooObjInv, FooTypes, FooObj_!Point, FooObj_!Goto
    <3>4. ASSUME NEW x \in Objs, InList(x)
          PROVE  \E u \in Threads : ptr'[u] = x /\ pc'[u] \notin {"link", "destroy"}
      <4>1. PICK u \in Threads : ptr[u] = x /\ pc[u] \notin {"link", "destroy"}
        BY <3>4 DEF FooObjInv, Listed
      <4>2. u # c
        BY <2>2, <4>1, FooObjAssumption
      <4> QED
        BY <3>2, <4>1, <4>2
    <3>5. ASSUME variant # "mutex1", NEW u \in Threads, ptr'[u] # Nil,
                 pc'[u] \notin {"link", "destroy"}
          PROVE  InList(ptr'[u])
      BY <3>2, <3>3, <3>5 DEF FooObjInv, Listed
    <3> QED
      BY <2>2, <3>1, <3>4, <3>5 DEF FooObjInv, Listed
  <2> QED
    BY <2>5, <2>6, <2>7, <2>8 DEF FooObjInv
<1> QED
  BY <1>1, <1>2 DEF FooObj_!Malloc

\* A thread goes on inside a call or returns, with the reference it had before.
LEMMA MoveOK ==
  ASSUME FooObjInv, NEW c \in Threads, NEW l \in {"idle", "finish", "last", "recheck"},
         pc[c] \in {"idle", "lockNew", "finish", "last"}, FooObj_!Goto(c, l),
         l = "idle" \/ (variant # "mutex1" /\ ptr[c] # Nil), l = "recheck" => hashlock' = c,
         \A u \in Threads \ {c} : hashlock = u => hashlock' = u,
         UNCHANGED <<variant, ptr, live, f_count, fh>>
  PROVE  FooObjInv'
<1>1. /\ pc' \in [Threads -> FooLabels] /\ pc'[c] = l
      /\ \A u \in Threads \ {c} : pc'[u] = pc[u]
  BY DEF FooObjInv, FooTypes, FooObj_!Goto, FooLabels
<1>2. \A o : InList(o)' <=> InList(o)
  BY DEF InList
<1>3. \A o : FooObj_!Holders(o)' = FooObj_!Holders(o)
        /\ FooObj_!Destroying(o)' = FooObj_!Destroying(o)
  BY <1>1 DEF FooObj_!Holders, FooObj_!Destroying
<1>4. FooTypes' /\ HashHeld' /\ FooObj_!NoUseAfterFree' /\ NoList'
  BY <1>1 DEF FooObjInv, FooTypes, HashHeld, FooObj_!NoUseAfterFree, NoList
<1>5. Pointing'
  BY <1>1 DEF FooObjInv, Pointing
<1>6. CountIsHolders'
  BY <1>3 DEF FooObjInv, CountIsHolders
<1>7. Listed'
  BY <1>1, <1>2 DEF FooObjInv, Listed
<1> QED
  BY <1>4, <1>5, <1>6, <1>7 DEF FooObjInv

\* the object enters the list, and others may find it from now on
LEMMA LinkOK == ASSUME FooObjInv, NEW c \in Threads, FooObj_!Link(c) PROVE FooObjInv'
<1>1. /\ pc[c] = "link" /\ pc' \in [Threads -> FooLabels] /\ pc'[c] = "lockNew"
      /\ \A u \in Threads \ {c} : pc'[u] = pc[u]
      /\ UNCHANGED <<variant, ptr, live, f_count>> /\ hashlock = Nil /\ hashlock' = c
  BY DEF FooObj_!Link, FooObjInv, FooTypes, FooObj_!Goto, FooLabels
<1>2. ptr[c] \in Objs /\ \A u \in Threads : ptr[u] = ptr[c] => u = c
  BY <1>1 DEF FooObjInv, FooTypes, Pointing
<1>3. ~InList(ptr[c])
  BY <1>1, <1>2 DEF FooObjInv, Listed
<1>4. /\ fh' \in Seq(Objs) /\ FooObj_!IsInjective(fh')
      /\ \A x : InList(x)' <=> InList(x) \/ x = ptr[c]
  BY <1>2, <1>3, PrependOK DEF FooObj_!Link, FooObjInv, FooTypes, Listed
<1>5. \A o : FooObj_!Holders(o)' = FooObj_!Holders(o)
        /\ FooObj_!Destroying(o)' = FooObj_!Destroying(o)
  BY <1>1 DEF FooObj_!Holders, FooObj_!Destroying
<1>6. variant # "mutex1"
  BY <1>1 DEF FooObjInv, NoList
<1>7. \A u \in Threads : pc[u] \notin {"lockNew", "hold", "recheck"}
  BY <1>1, FooObjAssumption DEF FooObjInv, HashHeld
<1>8. FooTypes' /\ HashHeld' /\ FooObj_!NoUseAfterFree' /\ NoList'
  BY <1>1, <1>4, <1>6, <1>7 DEF FooObjInv, FooTypes, HashHeld, FooObj_!NoUseAfterFree, NoList
<1>9. Pointing'
  BY <1>1 DEF FooObjInv, Pointing
<1>10. CountIsHolders'
  BY <1>1, <1>5 DEF FooObjInv, CountIsHolders
<1>11. Listed'
  BY <1>1, <1>4 DEF FooObjInv, Listed
<1> QED
  BY <1>8, <1>9, <1>10, <1>11 DEF FooObjInv

\* A thread that points to nothing comes to point to an object that others hold, with a
\* reference that is counted in the same step.
LEMMA JoinOK ==
  ASSUME FooObjInv, NEW u \in Threads, NEW o \in Objs,
         pc[u] = "idle", ptr[u] = Nil, FooObj_!Point(u, o),
           f_count' = [f_count EXCEPT ![o] = @ + 1],
         variant # "mutex1" => InList(o),
         \E v \in Threads : ptr[v] = o /\ pc[v] \notin {"link", "destroy"},
         UNCHANGED <<variant, pc, live, fh, hashlock>>
  PROVE  FooObjInv'
<1>1. /\ ptr' \in [Threads -> Objs \cup {Nil}] /\ ptr'[u] = o
      /\ \A v \in Threads \ {u} : ptr'[v] = ptr[v]
  BY DEF FooObjInv, FooTypes, FooObj_!Point
<1>2. PICK v \in Threads : ptr[v] = o /\ pc[v] \notin {"link", "destroy"}
  OBVIOUS
<1>3. o # Nil /\ v # u
  BY <1>2, FooObjAssumption
<1>4. \A x : InList(x)' <=> InList(x)
  BY DEF InList
<1>5. FooTypes' /\ HashHeld' /\ FooObj_!NoUseAfterFree' /\ NoList'
  BY <1>1, <1>2, <1>3 DEF FooObjInv, FooTypes, HashHeld, FooObj_!NoUseAfterFree, NoList
<1>6. Pointing'
  <2>1. ASSUME NEW w \in Threads, pc[w] \in {"link", "destroy"} PROVE ptr[w] # o
    BY <1>2, <2>1 DEF FooObjInv, Pointing
  <2> QED
    BY <1>1, <1>3, <2>1 DEF FooObjInv, Pointing
<1>7. CountIsHolders'
  <2>1. u \notin FooObj_!Holders(o) /\ FooObj_!Holders(o)' = FooObj_!Holders(o) \cup {u}
    BY <1>1, <1>3 DEF FooObj_!Holders
  <2>2. Cardinality(FooObj_!Holders(o)') = Cardinality(FooObj_!Holders(o)) + 1
    BY <2>1, HolderJoins
  <2>3. ASSUME NEW x \in live, x # o
        PROVE  FooObj_!Holders(x)' = FooObj_!Holders(x)
          /\ FooObj_!Destroying(x)' = FooObj_!Destroying(x) /\ x # Nil
    BY <1>1, <2>3, FooObjAssumption DEF FooObj_!Holders, FooObj_!Destroying, FooObjInv, FooTypes
  <2>4. o \in live /\ FooObj_!Destroying(o) = {}
    BY <1>2, <1>3 DEF FooObjInv, FooObj_!NoUseAfterFree, FooObj_!Destroying, Pointing
  <2>5. f_count'[o] = f_count[o] + 1 /\ \A x \in Objs \ {o} : f_count'[x] = f_count[x]
    BY DEF FooObjInv, FooTypes
  <2>6. live \subseteq Objs /\ live' = live
    BY DEF FooObjInv, FooTypes
  <2> QED
    BY <2>2, <2>3, <2>4, <2>5, <2>6 DEF FooObjInv, CountIsHolders
<1>8. Listed'
  <2>1. FooObj_!IsInjective(fh')
    BY DEF FooObjInv, Listed
  <2>2. ASSUME NEW x \in Objs, InList(x)
        PROVE  \E w \in Threads : ptr'[w] = x /\ pc[w] \notin {"link", "destroy"}
    <3>1. PICK w \in Threads : ptr[w] = x /\ pc[w] \notin {"link", "destroy"}
      BY <2>2 DEF FooObjInv, Listed
    <3>2. w # u
      BY <3>1, FooObjAssumption
    <3> QED
      BY <1>1, <3>1, <3>2
  <2>3. ASSUME variant # "mutex1", NEW w \in Threads, ptr'[w] # Nil,
               pc[w] \notin {"link", "destroy"}
        PROVE  InList(ptr'[w])
    BY <1>1, <2>3 DEF FooObjInv, Listed
  <2> QED
    BY <1>4, <2>1, <2>2, <2>3 DEF Listed
<1> QED
  BY <1>5, <1>6, <1>7, <1>8 DEF FooObjInv

\* mutex2.c: the pointer is found, and not yet counted
LEMMA Find2OK == ASSUME FooObjInv, NEW c \in Threads, NEW e, FooObj_!Find2(c, e) PROVE FooObjInv'
<1>1. CASE UNCHANGED <<pc, ptr, hashlock>>
  <2>1. UNCHANGED <<variant, live, f_count, fh, pc, ptr, hashlock>>
    BY <1>1 DEF FooObj_!Find2
  <2> QED
    BY <2>1, SameOK
<1>2. CASE FooObj_!Found(e) # Nil /\ hashlock' = c /\ FooObj_!Point(c, FooObj_!Found(e))
        /\ FooObj_!Goto(c, "hold")
  <2> PICK o : o = FooObj_!Found(e)
    OBVIOUS
  <2>1. o \in Objs /\ InList(o)
    BY <1>2, FoundInList DEF FooObjInv, FooTypes
  <2>2. PICK v \in Threads : ptr[v] = o /\ pc[v] \notin {"link", "destroy"}
    BY <2>1 DEF FooObjInv, Listed
  <2>3. /\ ptr' \in [Threads -> Objs \cup {Nil}] /\ ptr'[c] = o
        /\ pc' \in [Threads -> FooLabels] /\ pc'[c] = "hold"
        /\ \A u \in Threads \ {c} : ptr'[u] = ptr[u] /\ pc'[u] = pc[u]
    BY <1>2, <2>1 DEF FooObjInv, FooTypes, FooObj_!Point, FooObj_!Goto, FooLabels
  <2>4. /\ pc[c] = "idle" /\ ptr[c] = Nil /\ hashlock = Nil /\ hashlock' = c
        /\ variant = "mutex2" /\ UNCHANGED <<variant, live, f_count, fh>>
    BY <1>2 DEF FooObj_!Find2, FooObj_!Call
  <2>5. o # Nil /\ v # c
    BY <2>1, <2>2, <2>4, FooObjAssumption
  <2>6. \A u \in Threads : pc[u] \notin {"lockNew", "hold", "recheck"}
    BY <2>4, FooObjAssumption DEF FooObjInv, HashHeld
  <2>7. FooTypes' /\ HashHeld' /\ FooObj_!NoUseAfterFree' /\ NoList'
    BY <2>2, <2>3, <2>4, <2>5, <2>6 DEF FooObjInv, FooTypes, HashHeld, FooObj_!NoUseAfterFree,
        NoList
  <2>8. Pointing'
    <3>1. ASSUME NEW w \in Threads, pc[w] \in {"link", "destroy"} PROVE ptr[w] # o
      BY <2>2, <3>1 DEF FooObjInv, Pointing
    <3> QED
      BY <2>3, <2>4, <2>5, <3>1 DEF FooObjInv, Pointing
  <2>9. CountIsHolders'
    <3>1. ASSUME NEW x \in live
          PROVE  FooObj_!Holders(x)' = FooObj_!Holders(x)
            /\ FooObj_!Destroying(x)' = FooObj_!Destroying(x)
      <4>1. x # Nil
        BY FooObjAssumption DEF FooObjInv, FooTypes
      <4> QED
        BY <2>3, <2>4, <4>1 DEF FooObj_!Holders, FooObj_!Destroying
    <3> QED
      BY <2>4, <3>1 DEF FooObjInv, CountIsHolders
  <2>10. Listed'
    <3>1. FooObj_!IsInjective(fh') /\ \A x : InList(x)' <=> InList(x)
      BY <2>4 DEF FooObjInv, Listed, InList
    <3>2. ASSUME NEW x \in Objs, InList(x)
          PROVE  \E w \in Threads : ptr'[w] = x /\ pc'[w] \notin {"link", "destroy"}
      <4>1. PICK w \in Threads : ptr[w] = x /\ pc[w] \notin {"link", "destroy"}
        BY <3>2 DEF FooObjInv, Listed
      <4>2. w # c
        BY <2>4, <4>1, FooObjAssumption
      <4> QED
        BY <2>3, <4>1, <4>2
    <3>3. ASSUME NEW w \in Threads, ptr'[w] # Nil, pc'[w] \notin {"link", "destroy"}
          PROVE  InList(ptr'[w])
      <4>1. CASE w = c
        BY <2>1, <2>3, <4>1
      <4>2. CASE w # c
        BY <2>3, <2>4, <3>3, <4>2 DEF FooObjInv, Listed
      <4> QED
        BY <4>1, <4>2
    <3> QED
      BY <3>1, <3>2, <3>3 DEF Listed
  <2> QED
    BY <2>7, <2>8, <2>9, <2>10 DEF FooObjInv
<1>3. CASE FooObj_!Found(e) = Nil
  BY <1>1, <1>3 DEF FooObj_!Find2
<1>4. CASE FooObj_!Found(e) # Nil
  BY <1>2, <1>4 DEF FooObj_!Find2
<1> QED
  BY <1>3, <1>4

\* and it is counted, with hashlock still held
LEMMA FindHoldOK == ASSUME FooObjInv, NEW c \in Threads, FooObj_!FindHold(c) PROVE FooObjInv'
<1> PICK o : o = ptr[c]
  OBVIOUS
<1>1. /\ pc[c] = "hold" /\ pc' \in [Threads -> FooLabels] /\ pc'[c] = "idle"
      /\ \A u \in Threads \ {c} : pc'[u] = pc[u]
      /\ UNCHANGED <<variant, ptr, live, fh>> /\ f_count' = [f_count EXCEPT ![o] = @ + 1]
  BY DEF FooObj_!FindHold, FooObjInv, FooTypes, FooObj_!Goto, FooLabels
<1>2. o # Nil /\ o \in live /\ o \in Objs
  BY <1>1 DEF FooObjInv, FooTypes, Pointing, FooObj_!NoUseAfterFree
<1>3. \A u \in Threads \ {c} : pc[u] \notin {"lockNew", "hold", "recheck"}
  BY <1>1 DEF FooObjInv, HashHeld
<1>4. variant # "mutex1"
  BY <1>1 DEF FooObjInv, NoList
<1>5. FooTypes' /\ HashHeld' /\ FooObj_!NoUseAfterFree' /\ NoList'
  BY <1>1, <1>2, <1>3, <1>4 DEF FooObjInv, FooTypes, HashHeld, FooObj_!NoUseAfterFree, NoList
<1>6. Pointing'
  BY <1>1 DEF FooObjInv, Pointing
<1>7. CountIsHolders'
  <2>1. c \notin FooObj_!Holders(o) /\ FooObj_!Holders(o)' = FooObj_!Holders(o) \cup {c}
    BY <1>1 DEF FooObj_!Holders
  <2>2. Cardinality(FooObj_!Holders(o)') = Cardinality(FooObj_!Holders(o)) + 1
    BY <2>1, HolderJoins
  <2>3. ASSUME NEW x \in live, x # o
        PROVE  FooObj_!Holders(x)' = FooObj_!Holders(x)
          /\ FooObj_!Destroying(x)' = FooObj_!Destroying(x)
    BY <1>1, <2>3 DEF FooObj_!Holders, FooObj_!Destroying
  <2>4. FooObj_!Destroying(o) = {}
    BY <1>1, <1>2 DEF FooObjInv, FooObj_!Destroying, Pointing
  <2>5. f_count'[o] = f_count[o] + 1 /\ \A x \in Objs \ {o} : f_count'[x] = f_count[x]
    BY <1>1, <1>2 DEF FooObjInv, FooTypes
  <2>6. live \subseteq Objs /\ live' = live
    BY <1>1 DEF FooObjInv, FooTypes
  <2> QED
    BY <1>2, <2>2, <2>3, <2>4, <2>5, <2>6 DEF FooObjInv, CountIsHolders
<1>8. Listed'
  <2>1. FooObj_!IsInjective(fh') /\ \A x : InList(x)' <=> InList(x)
    BY <1>1 DEF FooObjInv, Listed, InList
  <2> QED
    BY <1>1, <2>1 DEF FooObjInv, Listed
<1> QED
  BY <1>5, <1>6, <1>7, <1>8 DEF FooObjInv

\* A reference is released that is not the last one.
LEMMA DropOK ==
  ASSUME FooObjInv, NEW c \in Threads, pc[c] \in {"idle", "recheck"}, ptr[c] # Nil,
         f_count[ptr[c]] # 1, f_count' = [f_count EXCEPT ![ptr[c]] = @ - 1],
         FooObj_!Point(c, Nil), FooObj_!Goto(c, "idle"),
         \A u \in Threads \ {c} : hashlock = u => hashlock' = u,
         UNCHANGED <<variant, live, fh>>
  PROVE  FooObjInv'
<1> PICK o : o = ptr[c]
  OBVIOUS
<1>1. /\ ptr' \in [Threads -> Objs \cup {Nil}] /\ ptr'[c] = Nil
      /\ pc' \in [Threads -> FooLabels] /\ pc'[c] = "idle"
      /\ \A u \in Threads \ {c} : ptr'[u] = ptr[u] /\ pc'[u] = pc[u]
  BY DEF FooObjInv, FooTypes, FooObj_!Point, FooObj_!Goto, FooLabels
<1>2. o \in live /\ o \in Objs /\ c \in FooObj_!Holders(o)
  BY DEF FooObjInv, FooTypes, FooObj_!NoUseAfterFree, FooObj_!Holders
<1>3. FooObj_!Destroying(o) = {}
  BY <1>2 DEF FooObjInv, FooObj_!Destroying, Pointing
<1>4. f_count[o] = Cardinality(FooObj_!Holders(o))
  BY <1>2, <1>3 DEF FooObjInv, CountIsHolders
<1>5. PICK v \in FooObj_!Holders(o) : v # c
  BY <1>2, <1>4, HoldersCounted
<1>6. v \in Threads /\ ptr[v] = o /\ pc[v] \notin {"hold", "destroy"}
  BY <1>5 DEF FooObj_!Holders
<1>7. pc[v] # "link"
  BY <1>5, <1>6 DEF FooObjInv, Pointing
<1>8. FooTypes' /\ HashHeld' /\ FooObj_!NoUseAfterFree' /\ NoList'
  <2>1. FooTypes'
    BY <1>1, <1>2 DEF FooObjInv, FooTypes
  <2>2. HashHeld'
    BY <1>1 DEF FooObjInv, HashHeld
  <2>3. FooObj_!NoUseAfterFree'
    BY <1>1 DEF FooObjInv, FooObj_!NoUseAfterFree
  <2>4. NoList'
    BY <1>1 DEF FooObjInv, NoList
  <2> QED
    BY <2>1, <2>2, <2>3, <2>4
<1>9. Pointing'
  BY <1>1 DEF FooObjInv, Pointing
<1>10. CountIsHolders'
  <2>1. FooObj_!Holders(o)' = FooObj_!Holders(o) \ {c}
    BY <1>1, <1>2, FooObjAssumption DEF FooObj_!Holders, FooObjInv, FooTypes
  <2>2. Cardinality(FooObj_!Holders(o)') = Cardinality(FooObj_!Holders(o)) - 1
    BY <1>2, <2>1, HolderLeaves
  <2>3. ASSUME NEW x \in live, x # o
        PROVE  FooObj_!Holders(x)' = FooObj_!Holders(x)
          /\ FooObj_!Destroying(x)' = FooObj_!Destroying(x)
    <3>1. x # Nil
      BY FooObjAssumption DEF FooObjInv, FooTypes
    <3> QED
      BY <1>1, <2>3, <3>1 DEF FooObj_!Holders, FooObj_!Destroying
  <2>4. f_count'[o] = f_count[o] - 1 /\ \A x \in Objs \ {o} : f_count'[x] = f_count[x]
    BY <1>2 DEF FooObjInv, FooTypes
  <2>5. live \subseteq Objs /\ live' = live
    BY DEF FooObjInv, FooTypes
  <2> QED
    BY <1>2, <1>4, <2>2, <2>3, <2>4, <2>5 DEF FooObjInv, CountIsHolders
<1>11. Listed'
  <2>1. FooObj_!IsInjective(fh') /\ \A x : InList(x)' <=> InList(x)
    BY DEF FooObjInv, Listed, InList
  <2>2. ASSUME NEW x \in Objs, InList(x)
        PROVE  \E w \in Threads : ptr'[w] = x /\ pc'[w] \notin {"link", "destroy"}
    <3>1. CASE x = o
      BY <1>1, <1>5, <1>6, <1>7, <3>1
    <3>2. CASE x # o
      <4>1. PICK w \in Threads : ptr[w] = x /\ pc[w] \notin {"link", "destroy"}
        BY <2>2 DEF FooObjInv, Listed
      <4> QED
        BY <1>1, <3>2, <4>1
    <3> QED
      BY <3>1, <3>2
  <2> QED
    BY <1>1, <2>1, <2>2 DEF FooObjInv, Listed
<1> QED
  BY <1>8, <1>9, <1>10, <1>11 DEF FooObjInv

\* foo_rele writes no count but the one of the object its thread points to.
CountsOfOthersStay(c) ==
  f_count' \in [Objs -> Int] /\ \A x \in Objs \ {ptr[c]} : f_count'[x] = f_count[x]

\* The last reference is released: nobody else can have found the object, and it leaves
\* the list.
LEMMA LastOK ==
  ASSUME FooObjInv, NEW c \in Threads, pc[c] \in {"idle", "recheck"}, ptr[c] # Nil,
         f_count[ptr[c]] = 1, CountsOfOthersStay(c), FooObj_!Goto(c, "destroy"),
         \A u \in Threads \ {c} : pc[u] # "hold",
         variant = "mutex1" => fh' = fh,
         variant # "mutex1" => fh' = FooObj_!RemoveFirst(fh, ptr[c]),
         \A u \in Threads \ {c} : hashlock = u => hashlock' = u,
         UNCHANGED <<variant, ptr, live>>
  PROVE  FooObjInv'
<1> PICK o : o = ptr[c]
  OBVIOUS
<1>1. /\ pc' \in [Threads -> FooLabels] /\ pc'[c] = "destroy"
      /\ \A u \in Threads \ {c} : pc'[u] = pc[u]
  BY DEF FooObjInv, FooTypes, FooObj_!Goto, FooLabels
<1>2. o \in live /\ o \in Objs /\ c \in FooObj_!Holders(o)
  BY DEF FooObjInv, FooTypes, FooObj_!NoUseAfterFree, FooObj_!Holders
<1>3. FooObj_!Destroying(o) = {}
  BY <1>2 DEF FooObjInv, FooObj_!Destroying, Pointing
<1>4. Cardinality(FooObj_!Holders(o)) = 1
  BY <1>2, <1>3 DEF FooObjInv, CountIsHolders
<1>5. FooObj_!Holders(o) = {c}
  BY <1>2, <1>4, HoldersCounted
<1>6. \A u \in Threads : ptr[u] = o => u = c
  BY <1>3, <1>5 DEF FooObj_!Holders, FooObj_!Destroying
<1>7. /\ fh' \in Seq(Objs) /\ FooObj_!IsInjective(fh')
      /\ \A x : InList(x)' <=> InList(x) /\ x # o
  <2>1. CASE variant = "mutex1"
    <3>1. fh' = fh /\ \A x : ~InList(x)
      BY <2>1 DEF FooObjInv, NoList, InList
    <3> QED
      BY <3>1 DEF FooObjInv, FooTypes, Listed, InList
  <2>2. CASE variant # "mutex1"
    BY <2>2, RemoveOK DEF FooObjInv, FooTypes, Listed
  <2> QED
    BY <2>1, <2>2
<1>8. FooTypes' /\ HashHeld' /\ FooObj_!NoUseAfterFree'
  BY <1>1, <1>2, <1>7 DEF FooObjInv, FooTypes, HashHeld, FooObj_!NoUseAfterFree, CountsOfOthersStay
<1>9. NoList'
  BY <1>1 DEF FooObjInv, NoList
<1>10. Pointing'
  BY <1>1, <1>6 DEF FooObjInv, Pointing
<1>11. CountIsHolders'
  <2>1. FooObj_!Destroying(o)' # {}
    BY <1>1 DEF FooObj_!Destroying
  <2>2. ASSUME NEW x \in live, x # o
        PROVE  FooObj_!Holders(x)' = FooObj_!Holders(x)
          /\ FooObj_!Destroying(x)' = FooObj_!Destroying(x)
    BY <1>1, <2>2 DEF FooObj_!Holders, FooObj_!Destroying
  <2>3. \A x \in Objs \ {o} : f_count'[x] = f_count[x]
    BY DEF CountsOfOthersStay
  <2>4. live \subseteq Objs /\ live' = live
    BY DEF FooObjInv, FooTypes
  <2> QED
    BY <2>1, <2>2, <2>3, <2>4 DEF FooObjInv, CountIsHolders
<1>12. Listed'
  <2>1. ASSUME NEW x \in Objs, InList(x), x # o
        PROVE  \E w \in Threads : ptr'[w] = x /\ pc'[w] \notin {"link", "destroy"}
    BY <1>1, <2>1 DEF FooObjInv, Listed
  <2>2. ASSUME variant # "mutex1", NEW w \in Threads, NEW x, x = ptr[w], x # Nil,
               pc'[w] \notin {"link", "destroy"}
        PROVE  InList(x)'
    BY <1>1, <1>6, <1>7, <2>2 DEF FooObjInv, Listed
  <2> QED
    BY <1>7, <2>1, <2>2 DEF Listed
<1> QED
  BY <1>8, <1>9, <1>10, <1>11, <1>12 DEF FooObjInv

\* the object is freed by the only thread that points to it
LEMMA DestroyOK == ASSUME FooObjInv, NEW c \in Threads, FooObj_!Destroy(c) PROVE FooObjInv'
<1> DEFINE o == ptr[c]
<1>1. /\ ptr' \in [Threads -> Objs \cup {Nil}] /\ ptr'[c] = Nil
      /\ pc[c] = "destroy" /\ pc' \in [Threads -> FooLabels] /\ pc'[c] = "idle"
      /\ \A u \in Threads \ {c} : ptr'[u] = ptr[u] /\ pc'[u] = pc[u]
      /\ live' = live \ {o} /\ UNCHANGED <<variant, f_count, fh, hashlock>>
  BY DEF FooObj_!Destroy, FooObjInv, FooTypes, FooObj_!Point, FooObj_!Goto, FooLabels,
      FooObj_!locks
<1>2. o # Nil /\ \A u \in Threads : ptr[u] = o => u = c
  BY <1>1 DEF FooObjInv, Pointing
<1>3. FooTypes' /\ HashHeld' /\ FooObj_!NoUseAfterFree' /\ NoList'
  BY <1>1, <1>2 DEF FooObjInv, FooTypes, HashHeld, FooObj_!NoUseAfterFree, NoList
<1>4. Pointing'
  BY <1>1 DEF FooObjInv, Pointing
<1>5. CountIsHolders'
  <2>1. ASSUME NEW x \in live, x # o
        PROVE  FooObj_!Holders(x)' = FooObj_!Holders(x)
          /\ FooObj_!Destroying(x)' = FooObj_!Destroying(x)
    <3>1. x # Nil
      BY FooObjAssumption DEF FooObjInv, FooTypes
    <3> QED
      BY <1>1, <2>1, <3>1 DEF FooObj_!Holders, FooObj_!Destroying
  <2> QED
    BY <1>1, <2>1 DEF FooObjInv, CountIsHolders
<1>6. Listed'
  <2>1. FooObj_!IsInjective(fh') /\ \A x : InList(x)' <=> InList(x)
    BY <1>1 DEF FooObjInv, Listed, InList
  <2>2. ASSUME NEW x \in Objs, InList(x)
        PROVE  \E w \in Threads : ptr'[w] = x /\ pc'[w] \notin {"link", "destroy"}
    <3>1. PICK w \in Threads : ptr[w] = x /\ pc[w] \notin {"link", "destroy"}
      BY <2>2 DEF FooObjInv, Listed
    <3> QED
      BY <1>1, <3>1
  <2> QED
    BY <1>1, <2>1, <2>2 DEF FooObjInv, Listed
<1> QED
  BY <1>3, <1>4, <1>5, <1>6 DEF FooObjInv

-----------------------------------------------------------------------------
(* The actions are these steps.                                              *)

\* foo_hold: the thread that gives the reference away shows that the object is in use
LEMMA GiveOK ==
  ASSUME FooObjInv, NEW c \in Threads, NEW u \in Threads, FooObj_!Give(c, u)
  PROVE  FooObjInv'
<1> PICK o : o = ptr[c]
  OBVIOUS
<1>1. /\ pc[c] = "idle" /\ o # Nil /\ o \in Objs /\ pc[u] = "idle" /\ ptr[u] = Nil
      /\ FooObj_!Point(u, o) /\ f_count' = [f_count EXCEPT ![o] = @ + 1]
      /\ UNCHANGED <<variant, pc, live, fh, hashlock>>
  BY DEF FooObj_!Give, FooObj_!Call, FooObj_!Point, FooObjInv, FooTypes, FooObj_!locks
<1>2. variant # "mutex1" => InList(o)
  BY <1>1 DEF FooObjInv, Listed
<1>3. \E v \in Threads : ptr[v] = o /\ pc[v] \notin {"link", "destroy"}
  BY <1>1
<1> QED
  BY <1>1, <1>2, <1>3, JoinOK

LEMMA Find3OK ==
  ASSUME FooObjInv, NEW c \in Threads, NEW e, FooObj_!Find3(c, e)
  PROVE  FooObjInv'
<1> PICK o : o = FooObj_!Found(e)
  OBVIOUS
<1>1. /\ pc[c] = "idle" /\ ptr[c] = Nil /\ FooObj_!Point(c, o)
      /\ f_count' = IF o = Nil THEN f_count ELSE [f_count EXCEPT ![o] = @ + 1]
      /\ UNCHANGED <<variant, pc, live, fh, hashlock>>
  BY DEF FooObj_!Find3, FooObj_!Call
<1>2. CASE o = Nil
  BY <1>1, <1>2, SameOK DEF FooObj_!Point, FooObjInv, FooTypes
<1>3. CASE o # Nil
  <2>1. o \in Objs /\ InList(o)
    BY <1>3, FoundInList DEF FooObjInv, FooTypes
  <2>2. \E v \in Threads : ptr[v] = o /\ pc[v] \notin {"link", "destroy"}
    BY <2>1 DEF FooObjInv, Listed
  <2>3. f_count' = [f_count EXCEPT ![o] = @ + 1]
    BY <1>1, <1>3
  <2> QED
    BY <1>1, <2>1, <2>2, <2>3, JoinOK
<1> QED
  BY <1>2, <1>3

LEMMA Rele1OK == ASSUME FooObjInv, NEW c \in Threads, FooObj_!Rele1(c) PROVE FooObjInv'
<1>1. /\ variant = "mutex1" /\ pc[c] = "idle" /\ ptr[c] \in Objs /\ ptr[c] # Nil
      /\ f_count' = [f_count EXCEPT ![ptr[c]] = @ - 1]
      /\ UNCHANGED <<variant, live, fh, hashlock>>
  BY DEF FooObj_!Rele1, FooObj_!Call, FooObj_!Unlocked, FooObj_!Drop, FooObj_!locks, FooObjInv,
      FooTypes
<1>2. \A u \in Threads : pc[u] # "hold"
  BY <1>1 DEF FooObjInv, NoList
<1>3. CASE f_count[ptr[c]] = 1
  <2>1. FooObj_!Goto(c, "destroy") /\ ptr' = ptr /\ CountsOfOthersStay(c) /\ fh' = fh
    BY <1>1, <1>3 DEF FooObj_!Rele1, FooObj_!Drop, FooObjInv, FooTypes, CountsOfOthersStay
  <2> QED
    BY <1>1, <1>2, <1>3, <2>1, LastOK
<1>4. CASE f_count[ptr[c]] # 1
  BY <1>1, <1>4, DropOK DEF FooObj_!Rele1, FooObj_!Drop
<1> QED
  BY <1>3, <1>4

LEMMA Rele3OK == ASSUME FooObjInv, NEW c \in Threads, FooObj_!Rele3(c) PROVE FooObjInv'
<1>1. /\ variant = "mutex3" /\ pc[c] = "idle" /\ ptr[c] \in Objs /\ ptr[c] # Nil
      /\ hashlock = Nil /\ f_count' = [f_count EXCEPT ![ptr[c]] = @ - 1]
      /\ UNCHANGED <<variant, live, hashlock>>
  BY DEF FooObj_!Rele3, FooObj_!Call, FooObj_!Drop, FooObj_!locks, FooObjInv, FooTypes
<1>2. \A u \in Threads : pc[u] # "hold"
  BY <1>1, FooObjAssumption DEF FooObjInv, HashHeld
<1>3. CASE f_count[ptr[c]] = 1
  <2>1. /\ FooObj_!Goto(c, "destroy") /\ ptr' = ptr /\ CountsOfOthersStay(c)
        /\ fh' = FooObj_!RemoveFirst(fh, ptr[c])
    BY <1>1, <1>3 DEF FooObj_!Rele3, FooObj_!Drop, FooObjInv, FooTypes, CountsOfOthersStay
  <2> QED
    BY <1>1, <1>2, <1>3, <2>1, LastOK
<1>4. CASE f_count[ptr[c]] # 1
  <2>1. FooObj_!Goto(c, "idle") /\ FooObj_!Point(c, Nil) /\ fh' = fh
    BY <1>4 DEF FooObj_!Rele3, FooObj_!Drop
  <2> QED
    BY <1>1, <1>4, <2>1, DropOK
<1> QED
  BY <1>3, <1>4

LEMMA Rele2OK == ASSUME FooObjInv, NEW c \in Threads, FooObj_!Rele2(c) PROVE FooObjInv'
<1>1. /\ variant = "mutex2" /\ pc[c] = "idle" /\ ptr[c] # Nil
      /\ UNCHANGED <<variant, live, fh, hashlock>>
  BY DEF FooObj_!Rele2, FooObj_!Call, FooObj_!Unlocked, FooObj_!locks
<1>2. CASE f_count[ptr[c]] = 1
  <2>1. FooObj_!Goto(c, "last") /\ UNCHANGED <<f_count, ptr>>
    BY <1>2 DEF FooObj_!Rele2
  <2> QED
    BY <1>1, <2>1, MoveOK
<1>3. CASE f_count[ptr[c]] # 1
  <2>1. /\ f_count' = [f_count EXCEPT ![ptr[c]] = @ - 1] /\ FooObj_!Point(c, Nil) /\ pc' = pc
    BY <1>3 DEF FooObj_!Rele2
  <2>2. FooObj_!Goto(c, "idle")
    BY <1>1, <2>1 DEF FooObj_!Goto, FooObjInv, FooTypes
  <2> QED
    BY <1>1, <1>3, <2>1, <2>2, DropOK
<1> QED
  BY <1>2, <1>3

\* The count may have grown since it was read: hashlock is what keeps it now.
LEMMA RecheckOK == ASSUME FooObjInv, NEW c \in Threads, FooObj_!Recheck(c) PROVE FooObjInv'
<1>1. /\ pc[c] = "recheck" /\ ptr[c] \in Objs /\ ptr[c] # Nil /\ hashlock = c
      /\ UNCHANGED <<variant, live>>
  BY DEF FooObj_!Recheck, FooObj_!Unlocked, FooObjInv, FooTypes, HashHeld
<1>2. \A u \in Threads \ {c} : hashlock # u /\ pc[u] # "hold"
  BY <1>1 DEF FooObjInv, HashHeld
<1>3. variant # "mutex1"
  BY <1>1 DEF FooObjInv, NoList
<1>4. CASE f_count[ptr[c]] = 1
  <2>1. /\ FooObj_!Goto(c, "destroy") /\ ptr' = ptr /\ fh' = FooObj_!RemoveFirst(fh, ptr[c])
        /\ CountsOfOthersStay(c)
    BY <1>1, <1>4 DEF FooObj_!Recheck, FooObjInv, FooTypes, CountsOfOthersStay
  <2> QED
    BY <1>1, <1>2, <1>3, <1>4, <2>1, LastOK
<1>5. CASE f_count[ptr[c]] # 1
  <2>1. /\ f_count' = [f_count EXCEPT ![ptr[c]] = @ - 1] /\ FooObj_!Point(c, Nil)
             /\ FooObj_!Goto(c, "idle")
        /\ fh' = fh
    BY <1>5 DEF FooObj_!Recheck
  <2> QED
    BY <1>1, <1>2, <1>5, <2>1, DropOK
<1> QED
  BY <1>4, <1>5

LEMMA FooObjStep == ASSUME FooObjInv, [FooObj_!Next]_(FooObj_!vars) PROVE FooObjInv'
<1>1. CASE UNCHANGED FooObj_!vars
  BY <1>1, SameOK DEF FooObj_!vars
<1>2. ASSUME NEW c \in Threads, FooObj_!Step(c) PROVE FooObjInv'
  <2>1. ASSUME FooObj_!Alloc1(c) PROVE FooObjInv'
    BY <2>1, MallocOK DEF FooObj_!Alloc1
  <2>2. ASSUME FooObj_!Alloc2(c) \/ FooObj_!Alloc3(c) PROVE FooObjInv'
    <3>1. FooObj_!Malloc(c, "link") /\ variant # "mutex1"
      BY <2>2 DEF FooObj_!Alloc2, FooObj_!Alloc3
    <3> QED
      BY <3>1, MallocOK
  <2>3. ASSUME FooObj_!Link(c) PROVE FooObjInv'
    BY <2>3, LinkOK
  <2>4. ASSUME FooObj_!LockNew(c) PROVE FooObjInv'
    <3>1. /\ pc[c] = "lockNew" /\ ptr[c] # Nil /\ hashlock = c /\ FooObj_!Goto(c, "finish")
          /\ UNCHANGED <<variant, ptr, live, f_count, fh>>
      BY <2>4 DEF FooObj_!LockNew, FooObj_!Unlocked, FooObjInv, HashHeld
    <3>2. variant # "mutex1"
      BY <3>1 DEF FooObjInv, NoList
    <3> QED
      BY <3>1, <3>2, MoveOK
  <2>5. ASSUME FooObj_!Finish(c) PROVE FooObjInv'
    BY <2>5, MoveOK DEF FooObj_!Finish
  <2>6. ASSUME NEW u \in Threads, FooObj_!Hold1(c, u) \/ FooObj_!Hold2(c, u)
          \/ FooObj_!Hold3(c, u) PROVE FooObjInv'
    BY <2>6, GiveOK DEF FooObj_!Hold1, FooObj_!Hold2, FooObj_!Hold3
  <2>7. ASSUME NEW e \in Ids, FooObj_!Find2(c, e) \/ FooObj_!Find3(c, e) PROVE FooObjInv'
    BY <2>7, Find2OK, Find3OK
  <2>8. ASSUME FooObj_!FindHold(c) PROVE FooObjInv'
    BY <2>8, FindHoldOK
  <2>9. ASSUME FooObj_!Rele1(c) \/ FooObj_!Rele2(c) \/ FooObj_!Rele3(c) PROVE FooObjInv'
    BY <2>9, Rele1OK, Rele2OK, Rele3OK
  <2>10. ASSUME FooObj_!LockList(c) PROVE FooObjInv'
    <3>1. /\ pc[c] = "last" /\ hashlock = Nil /\ hashlock' = c /\ FooObj_!Goto(c, "recheck")
          /\ UNCHANGED <<variant, ptr, live, f_count, fh>>
      BY <2>10 DEF FooObj_!LockList
    <3>2. variant # "mutex1" /\ ptr[c] # Nil
      BY <3>1 DEF FooObjInv, NoList, Pointing
    <3>3. \A u \in Threads : hashlock # u
      BY <3>1, FooObjAssumption
    <3> QED
      BY <3>1, <3>2, <3>3, MoveOK
  <2>11. ASSUME FooObj_!Recheck(c) PROVE FooObjInv'
    BY <2>11, RecheckOK
  <2>12. ASSUME FooObj_!Destroy(c) PROVE FooObjInv'
    BY <2>12, DestroyOK
  <2> QED
    BY <1>2, <2>1, <2>2, <2>3, <2>4, <2>5, <2>6, <2>7, <2>8, <2>9, <2>10, <2>11, <2>12
       DEF FooObj_!Step
<1> QED
  BY <1>1, <1>2 DEF FooObj_!Next

-----------------------------------------------------------------------------
\* FooObj names the same Cardinality.
LEMMA FooObjSize == \A S : FooObj_!Cardinality(S) = Cardinality(S)
BY Zenon DEF FooObj_!Cardinality, Cardinality

\* Who destroys an object points to it alone, and the count is that of the references.
LEMMA CountFollows == FooObjInv => FooObj_!Counted
<1> SUFFICES ASSUME FooObjInv PROVE FooObj_!Counted
  OBVIOUS
<1>1. ASSUME NEW o \in live, FooObj_!Destroying(o) # {},
             NEW c \in Threads, NEW u \in Threads, ptr[c] = o, ptr[u] = o
      PROVE  c = u
  <2>1. PICK v \in Threads : ptr[v] = o /\ pc[v] = "destroy"
    BY <1>1 DEF FooObj_!Destroying
  <2> QED
    BY <1>1, <2>1 DEF FooObjInv, Pointing
<1>2. \A o \in live : FooObj_!Destroying(o) = {} => f_count[o] = Cardinality(FooObj_!Holders(o))
  BY DEF FooObjInv, CountIsHolders
<1> QED
  BY <1>1, <1>2, FooObjSize, Zenon DEF FooObj_!Counted

\* What is listed is what can be used, once.
LEMMA ListFollows == FooObjInv => FooObj_!ListIsLive
<1> SUFFICES ASSUME FooObjInv PROVE FooObj_!ListIsLive
  OBVIOUS
<1>1. FooObj_!IsInjective(fh)
  BY DEF FooObjInv, Listed
<1>2. ASSUME variant # "mutex1", NEW o \in Objs
      PROVE  InList(o) <=> \E c \in Threads : ptr[c] = o /\ pc[c] \notin {"link", "destroy"}
  BY <1>2, FooObjAssumption DEF FooObjInv, Listed
<1> QED
  BY <1>1, <1>2 DEF FooObj_!ListIsLive, InList

\* FooObjInv has what ObjectsCounted asks for.
LEMMA FooObjHold ==
  FooObjInv => FooObj_!NoUseAfterFree /\ FooObj_!Counted /\ FooObj_!ListIsLive
BY CountFollows, ListFollows DEF FooObjInv

-----------------------------------------------------------------------------
(* JobQueue: the pointers spell the sequence, which has no job twice, and    *)
(* whoever has a job has one of its own.                                     *)

\* x stands at the places of the sequence s, and Nil beside it.
Beside(s, k) == IF k \in 1 .. Len(s) THEN s[k] ELSE Nil

\* The pointers head, tail, nxt and prv spell s.
Spelled(s, hd, tl, nxt, prv) ==
  /\ hd = Beside(s, 1) /\ tl = Beside(s, Len(s))
  /\ \A k \in 1 .. Len(s) : nxt[s[k]] = Beside(s, k + 1) /\ prv[s[k]] = Beside(s, k - 1)

NoneTwice(s) == \A a, b \in 1 .. Len(s) : s[a] = s[b] => a = b
InQueue(s, j) == \E k \in 1 .. Len(s) : s[k] = j

QueueTypes ==
  /\ queue \in Seq(Jobs) /\ NoneTwice(queue)
  /\ j_next \in [Jobs -> Jobs \cup {Nil}] /\ j_prev \in [Jobs -> Jobs \cup {Nil}]
  /\ jp \in [Workers -> Jobs \cup {Nil}] /\ DOMAIN j_id = Jobs
  /\ pc \in [Workers -> {"idle", "walk", "found"}]

\* Readers walk in the queue; a job is found by the worker it is for.
Walking ==
  \A w \in Workers :
    /\ pc[w] = "walk" => w \in readers
    /\ pc[w] = "idle" => jp[w] = Nil
    /\ pc[w] = "found" => jp[w] # Nil
    /\ jp[w] # Nil => InQueue(queue, jp[w]) /\ (pc[w] = "found" => j_id[jp[w]] = w)

QueueInv == QueueTypes /\ Spelled(queue, q_head, q_tail, j_next, j_prev) /\ Walking

\* The queue is empty after queue_init.
LEMMA QueueInit == JobQueue_!Init => QueueInv
BY DEF JobQueue_!Init, QueueInv, QueueTypes, Spelled, Beside, Walking, NoneTwice

\* A job in front of the queue.
LEMMA InFront ==
  ASSUME NEW s \in Seq(Jobs), NEW j \in Jobs
  PROVE  /\ <<j>> \o s \in Seq(Jobs) /\ Len(<<j>> \o s) = Len(s) + 1
         /\ (<<j>> \o s)[1] = j /\ \A k \in 1 .. Len(s) : (<<j>> \o s)[k + 1] = s[k]
<1>1. <<j>> \in Seq(Jobs) /\ Len(<<j>>) = 1 /\ <<j>>[1] = j
  OBVIOUS
<1>2. /\ <<j>> \o s \in Seq(Jobs) /\ Len(<<j>> \o s) = Len(<<j>>) + Len(s)
      /\ \A k \in 1 .. Len(<<j>>) + Len(s) :
           (<<j>> \o s)[k] = IF k <= Len(<<j>>) THEN <<j>>[k] ELSE s[k - Len(<<j>>)]
  BY <1>1, ConcatProperties, Zenon
<1>3. PICK len \in Nat : len = Len(s)
  OBVIOUS
<1> DEFINE u == <<j>> \o s
<1> HIDE DEF u
<1>4. u \in Seq(Jobs) /\ Len(u) = 1 + len /\ \A k \in 1 .. 1 + len : u[k] = IF k <= 1 THEN j
        ELSE s[k - 1]
  BY <1>1, <1>2, <1>3 DEF u
<1>5. u \in Seq(Jobs) /\ Len(u) = len + 1 /\ u[1] = j /\ \A k \in 1 .. len : u[k + 1] = s[k]
  BY <1>4
<1> QED
  BY <1>3, <1>5 DEF u

\* A job taken out of it.
LEMMA TakenOut ==
  ASSUME NEW s \in Seq(Jobs), NEW p \in 1 .. Len(s)
  PROVE  /\ JobQueue_!RemoveAt(s, p) \in Seq(Jobs) /\ Len(JobQueue_!RemoveAt(s, p)) = Len(s) - 1
         /\ \A k \in 1 .. Len(s) - 1 :
              JobQueue_!RemoveAt(s, p)[k] = IF k < p THEN s[k] ELSE s[k + 1]
<1>1. PICK len \in Nat : len = Len(s)
  OBVIOUS
<1>2. \A k \in 1 .. len : s[k] \in Jobs
  BY <1>1
<1> DEFINE u == SubSeq(s, 1, p - 1)
           v == SubSeq(s, p + 1, Len(s))
<1>3. u \in Seq(Jobs) /\ Len(u) = p - 1 /\ \A k \in 1 .. p - 1 : u[k] = s[k]
  BY <1>1, <1>2
<1>4. v \in Seq(Jobs) /\ Len(v) = len - p /\ \A k \in 1 .. len - p : v[k] = s[k + p]
  <2>1. v \in Seq(Jobs) /\ Len(v) = len - p
    BY <1>1, <1>2
  <2>2. ASSUME NEW k \in 1 .. len - p PROVE v[k] = s[k + p]
    BY <1>1, <1>2
  <2> QED
    BY <2>1, <2>2
<1> HIDE DEF u, v
<1>5. /\ u \o v \in Seq(Jobs) /\ Len(u \o v) = Len(u) + Len(v)
      /\ \A k \in 1 .. Len(u) + Len(v) : (u \o v)[k] = IF k <= Len(u) THEN u[k] ELSE v[k - Len(u)]
  BY <1>3, <1>4, ConcatProperties, Zenon
<1> DEFINE r == u \o v
<1> HIDE DEF r
<1>6. /\ r \in Seq(Jobs) /\ Len(r) = (p - 1) + (len - p)
      /\ \A k \in 1 .. (p - 1) + (len - p) : r[k] = IF k <= p - 1 THEN u[k] ELSE v[k - (p - 1)]
  BY <1>3, <1>4, <1>5 DEF r
<1>7. ASSUME NEW k \in 1 .. len - 1 PROVE r[k] = IF k < p THEN s[k] ELSE s[k + 1]
  <2>1. CASE k < p
    <3>1. k \in 1 .. p - 1 /\ k <= p - 1 /\ k \in 1 .. (p - 1) + (len - p)
      BY <1>1, <2>1
    <3> QED
      BY <1>3, <1>6, <2>1, <3>1
  <2>2. CASE p <= k
    <3>1. /\ k - (p - 1) \in 1 .. len - p /\ ~(k <= p - 1) /\ k \in 1 .. (p - 1) + (len - p)
          /\ (k - (p - 1)) + p = k + 1
      BY <1>1, <2>2
    <3>2. r[k] = v[k - (p - 1)]
      BY <1>6, <3>1
    <3>3. v[k - (p - 1)] = s[(k - (p - 1)) + p]
      BY <1>4, <3>1
    <3>4. s[(k - (p - 1)) + p] = s[k + 1]
      BY <3>1
    <3>5. ~(k < p)
      BY <1>1, <2>2
    <3> QED
      BY <3>2, <3>3, <3>4, <3>5
  <2> QED
    BY <1>1, <2>1, <2>2
<1>8. r \in Seq(Jobs) /\ Len(r) = len - 1
  BY <1>1, <1>6
<1>9. JobQueue_!RemoveAt(s, p) = r
  BY Zenon DEF JobQueue_!RemoveAt, r, u, v
<1> QED
  BY <1>1, <1>7, <1>8, <1>9

\* What job_insert, job_append and job_remove do: s becomes u, and the pointers new ones.
Typed(s, u, nxt, prv) ==
  /\ s \in Seq(Jobs) /\ u \in Seq(Jobs) /\ NoneTwice(s)
  /\ nxt \in [Jobs -> Jobs \cup {Nil}] /\ prv \in [Jobs -> Jobs \cup {Nil}]
InsertedIn(s, u, j, hd, tl, nxt, prv, hd2, tl2, nxt2, prv2) ==
  /\ Typed(s, u, nxt, prv) /\ Spelled(s, hd, tl, nxt, prv) /\ j \in Jobs /\ ~InQueue(s, j)
  /\ Len(u) = Len(s) + 1 /\ u[1] = j /\ \A k \in 1 .. Len(s) : u[k + 1] = s[k]
  /\ hd2 = j /\ tl2 = (IF hd = Nil THEN j ELSE tl)
  /\ nxt2 = [nxt EXCEPT ![j] = hd]
  /\ prv2 = [x \in Jobs |-> IF x = j THEN Nil ELSE IF x = hd THEN j ELSE prv[x]]
AppendedTo(s, u, j, hd, tl, nxt, prv, hd2, tl2, nxt2, prv2) ==
  /\ Typed(s, u, nxt, prv) /\ Spelled(s, hd, tl, nxt, prv) /\ j \in Jobs /\ ~InQueue(s, j)
  /\ Len(u) = Len(s) + 1 /\ u[Len(s) + 1] = j /\ \A k \in 1 .. Len(s) : u[k] = s[k]
  /\ tl2 = j /\ hd2 = (IF tl = Nil THEN j ELSE hd)
  /\ nxt2 = [x \in Jobs |-> IF x = j THEN Nil ELSE IF x = tl THEN j ELSE nxt[x]]
  /\ prv2 = [prv EXCEPT ![j] = tl]
RemovedFrom(s, u, p, hd, tl, nxt, prv, hd2, tl2, nxt2, prv2) ==
  /\ Typed(s, u, nxt, prv) /\ Spelled(s, hd, tl, nxt, prv) /\ p \in 1 .. Len(s)
  /\ Len(u) = Len(s) - 1
  /\ \A k \in 1 .. Len(s) - 1 : u[k] = IF k < p THEN s[k] ELSE s[k + 1]
  /\ hd2 = (IF s[p] = hd THEN nxt[s[p]] ELSE hd)
  /\ tl2 = (IF s[p] # tl THEN tl ELSE IF s[p] = hd THEN Nil ELSE prv[s[p]])
  /\ nxt2 = (IF s[p] = hd THEN nxt ELSE [nxt EXCEPT ![prv[s[p]]] = nxt[s[p]]])
  /\ prv2 = (IF s[p] = tl THEN prv ELSE [prv EXCEPT ![nxt[s[p]]] = prv[s[p]]])

\* job_insert: the new head, whose neighbour was the head.
LEMMA Inserted ==
  \A s, u, j, hd, tl, nxt, prv, hd2, tl2, nxt2, prv2 :
    InsertedIn(s, u, j, hd, tl, nxt, prv, hd2, tl2, nxt2, prv2) =>
      NoneTwice(u) /\ Spelled(u, hd2, tl2, nxt2, prv2)
<1> SUFFICES ASSUME NEW s, NEW u, NEW j, NEW hd, NEW tl, NEW nxt, NEW prv, NEW hd2, NEW tl2,
                    NEW nxt2, NEW prv2,
                    InsertedIn(s, u, j, hd, tl, nxt, prv, hd2, tl2, nxt2, prv2)
             PROVE  NoneTwice(u) /\ Spelled(u, hd2, tl2, nxt2, prv2)
  OBVIOUS
<1> USE DEF InsertedIn, Typed
<1>1. PICK len \in Nat : len = Len(s)
  OBVIOUS
<1>2. \A k \in 1 .. len : s[k] \in Jobs /\ s[k] # j /\ s[k] # Nil
  BY <1>1, QueueAssumption DEF InQueue
<1>3. Len(u) = len + 1 /\ \A k \in 1 .. len + 1 : u[k] = IF k = 1 THEN j ELSE s[k - 1]
  <2>1. ASSUME NEW k \in 1 .. len + 1, k # 1 PROVE u[k] = s[k - 1]
    <3>1. k - 1 \in 1 .. len /\ (k - 1) + 1 = k
      BY <2>1
    <3>2. \A q \in 1 .. len : u[q + 1] = s[q]
      BY <1>1
    <3>3. u[(k - 1) + 1] = s[k - 1]
      BY <3>1, <3>2
    <3> QED
      BY <3>1, <3>3
  <2> QED
    BY <1>1, <2>1
<1>4. NoneTwice(u)
  <2> SUFFICES ASSUME NEW a \in 1 .. len + 1, NEW b \in 1 .. len + 1, u[a] = u[b] PROVE a = b
    BY <1>3 DEF NoneTwice
  <2>1. a # 1 => a - 1 \in 1 .. len
    OBVIOUS
  <2>2. b # 1 => b - 1 \in 1 .. len
    OBVIOUS
  <2>3. a = 1 <=> b = 1
    <3>1. ASSUME NEW x \in 1 .. len + 1, x # 1 PROVE u[x] # u[1]
      <4>1. x - 1 \in 1 .. len /\ 1 \in 1 .. len + 1
        BY <3>1
      <4> QED
        BY <1>2, <1>3, <3>1, <4>1
    <3> QED
      BY <3>1
  <2>4. ASSUME a # 1, b # 1 PROVE a = b
    <3>1. s[a - 1] = s[b - 1] /\ a - 1 \in 1 .. len /\ b - 1 \in 1 .. len
      BY <1>3, <2>1, <2>2, <2>4
    <3>2. a - 1 = b - 1
      BY <1>1, <3>1 DEF NoneTwice
    <3> QED
      BY <3>2
  <2> QED
    BY <2>3, <2>4
<1>5. hd = (IF len = 0 THEN Nil ELSE s[1]) /\ tl = (IF len = 0 THEN Nil ELSE s[len])
  BY <1>1 DEF Spelled, Beside
<1>6. hd2 = Beside(u, 1) /\ tl2 = Beside(u, Len(u))
  <2>1. len # 0 => (len + 1) - 1 = len /\ len \in 1 .. len /\ 1 \in 1 .. len
    OBVIOUS
  <2> QED
    BY <1>1, <1>2, <1>3, <1>5, <2>1 DEF Beside
<1>7. ASSUME NEW k \in 1 .. len + 1
      PROVE  nxt2[u[k]] = Beside(u, k + 1) /\ prv2[u[k]] = Beside(u, k - 1)
  <2>1. CASE k = 1
    <3>1. u[k] = j /\ nxt2[j] = hd /\ prv2[j] = Nil
      BY <1>3, <2>1
    <3>2. Beside(u, k + 1) = hd
      <4>1. len # 0 => 2 \in 1 .. len + 1 /\ 2 - 1 = 1 /\ 2 # 1
        OBVIOUS
      <4>2. k + 1 = 2 /\ (len = 0 => 2 \notin 1 .. len + 1)
        BY <2>1
      <4> QED
        BY <1>3, <1>5, <4>1, <4>2 DEF Beside
    <3>3. Beside(u, k - 1) = Nil
      BY <1>3, <2>1 DEF Beside
    <3> QED
      BY <3>1, <3>2, <3>3
  <2>2. CASE k # 1
    <3>1. k - 1 \in 1 .. len /\ (k - 1) + 1 = k /\ (k + 1) - 1 = k /\ k + 1 # 1
      BY <2>2
    <3>2. u[k] = s[k - 1] /\ u[k] \in Jobs /\ u[k] # j
      BY <1>2, <1>3, <2>2, <3>1
    <3>3. nxt[s[k - 1]] = Beside(s, k) /\ prv[s[k - 1]] = Beside(s, k - 2)
      <4>1. (k - 1) - 1 = k - 2
        OBVIOUS
      <4> QED
        BY <1>1, <3>1, <4>1 DEF Spelled
    <3>4. nxt2[u[k]] = Beside(u, k + 1)
      <4>1. k \in 1 .. len <=> k + 1 \in 1 .. len + 1
        BY <2>2
      <4> QED
        BY <1>1, <1>3, <3>1, <3>2, <3>3, <4>1 DEF Beside
    <3>5. prv2[u[k]] = Beside(u, k - 1)
      <4>1. CASE k = 2
        <5>1. s[1] = u[k] /\ hd = s[1] /\ k - 1 = 1 /\ 1 \in 1 .. len + 1
          BY <1>5, <3>1, <3>2, <4>1
        <5> QED
          BY <1>3, <3>2, <5>1 DEF Beside
      <4>2. CASE k # 2
        <5>1. k - 2 \in 1 .. len /\ (k - 1) - 1 = k - 2 /\ k - 1 \in 1 .. len + 1 /\ k - 1 # 1
                /\ 1 \in 1 .. len
          BY <2>2, <4>2
        <5>2. Beside(u, k - 1) = s[k - 2] /\ Beside(s, k - 2) = s[k - 2]
          BY <1>1, <1>3, <5>1 DEF Beside
        <5>3. u[k] # hd
          <6>1. hd = s[1] /\ k - 1 # 1
            BY <1>5, <5>1
          <6> QED
            BY <1>1, <3>1, <3>2, <5>1, <6>1 DEF NoneTwice
        <5> QED
          BY <3>2, <3>3, <5>2, <5>3
      <4> QED
        BY <4>1, <4>2
    <3> QED
      BY <3>4, <3>5
  <2> QED
    BY <2>1, <2>2
<1> QED
  BY <1>3, <1>4, <1>6, <1>7 DEF Spelled

\* job_append: the new tail, whose neighbour was the tail.
LEMMA AppendedJob ==
  \A s, u, j, hd, tl, nxt, prv, hd2, tl2, nxt2, prv2 :
    AppendedTo(s, u, j, hd, tl, nxt, prv, hd2, tl2, nxt2, prv2) =>
      NoneTwice(u) /\ Spelled(u, hd2, tl2, nxt2, prv2)
<1> SUFFICES ASSUME NEW s, NEW u, NEW j, NEW hd, NEW tl, NEW nxt, NEW prv, NEW hd2, NEW tl2,
                    NEW nxt2, NEW prv2,
                    AppendedTo(s, u, j, hd, tl, nxt, prv, hd2, tl2, nxt2, prv2)
             PROVE  NoneTwice(u) /\ Spelled(u, hd2, tl2, nxt2, prv2)
  OBVIOUS
<1> USE DEF AppendedTo, Typed
<1>1. PICK len \in Nat : len = Len(s)
  OBVIOUS
<1>2. \A k \in 1 .. len : s[k] \in Jobs /\ s[k] # j /\ s[k] # Nil
  BY <1>1, QueueAssumption DEF InQueue
<1>3. Len(u) = len + 1 /\ \A k \in 1 .. len + 1 : u[k] = IF k = len + 1 THEN j ELSE s[k]
  BY <1>1
<1>4. NoneTwice(u)
  <2> SUFFICES ASSUME NEW a \in 1 .. len + 1, NEW b \in 1 .. len + 1, u[a] = u[b] PROVE a = b
    BY <1>3 DEF NoneTwice
  <2>1. a # len + 1 => a \in 1 .. len
    OBVIOUS
  <2>2. b # len + 1 => b \in 1 .. len
    OBVIOUS
  <2> QED
    BY <1>1, <1>2, <1>3, <2>1, <2>2 DEF NoneTwice
<1>5. hd = (IF len = 0 THEN Nil ELSE s[1]) /\ tl = (IF len = 0 THEN Nil ELSE s[len])
  BY <1>1 DEF Spelled, Beside
<1>6. hd2 = Beside(u, 1) /\ tl2 = Beside(u, Len(u))
  <2>1. len # 0 => len \in 1 .. len /\ 1 \in 1 .. len /\ 1 # len + 1
    OBVIOUS
  <2> QED
    BY <1>1, <1>2, <1>3, <1>5, <2>1 DEF Beside
<1>7. ASSUME NEW k \in 1 .. len + 1
      PROVE  nxt2[u[k]] = Beside(u, k + 1) /\ prv2[u[k]] = Beside(u, k - 1)
  <2>1. CASE k = len + 1
    <3>1. u[k] = j /\ prv2[j] = tl /\ nxt2[j] = Nil
      BY <1>3, <2>1
    <3>2. Beside(u, k - 1) = tl
      <4>1. (len # 0 => len \in 1 .. len + 1 /\ len # len + 1) /\ k - 1 = len
        BY <2>1
      <4> QED
        BY <1>3, <1>5, <4>1 DEF Beside
    <3>3. Beside(u, k + 1) = Nil
      BY <1>3, <2>1 DEF Beside
    <3> QED
      BY <3>1, <3>2, <3>3
  <2>2. CASE k # len + 1
    <3>1. k \in 1 .. len
      BY <2>2
    <3>2. u[k] = s[k] /\ u[k] \in Jobs /\ u[k] # j
      BY <1>2, <1>3, <2>2, <3>1
    <3>3. nxt[s[k]] = Beside(s, k + 1) /\ prv[s[k]] = Beside(s, k - 1)
      BY <1>1, <3>1 DEF Spelled
    <3>4. prv2[u[k]] = Beside(u, k - 1)
      <4>1. (k - 1 \in 1 .. len <=> k - 1 \in 1 .. len + 1) /\ k - 1 # len + 1
        BY <3>1
      <4> QED
        BY <1>1, <1>3, <3>2, <3>3, <4>1 DEF Beside
    <3>5. nxt2[u[k]] = Beside(u, k + 1)
      <4>1. CASE k = len
        <5>1. tl = u[k] /\ k + 1 = len + 1 /\ k + 1 \in 1 .. len + 1
          BY <1>5, <3>1, <3>2, <4>1
        <5> QED
          BY <1>3, <3>2, <5>1 DEF Beside
      <4>2. CASE k # len
        <5>1. k + 1 \in 1 .. len /\ k + 1 # len + 1 /\ k + 1 \in 1 .. len + 1 /\ len \in 1 .. len
          BY <3>1, <4>2
        <5>2. Beside(u, k + 1) = s[k + 1] /\ Beside(s, k + 1) = s[k + 1]
          BY <1>1, <1>3, <5>1 DEF Beside
        <5>3. u[k] # tl
          BY <1>1, <1>5, <3>1, <3>2, <4>2, <5>1 DEF NoneTwice
        <5> QED
          BY <3>2, <3>3, <5>2, <5>3
      <4> QED
        BY <4>1, <4>2
    <3> QED
      BY <3>4, <3>5
  <2> QED
    BY <2>1, <2>2
<1> QED
  BY <1>3, <1>4, <1>6, <1>7 DEF Spelled

\* job_remove: the neighbours of the job become each other's.
LEMMA Unlinked ==
  \A s, u, p, hd, tl, nxt, prv, hd2, tl2, nxt2, prv2 :
    RemovedFrom(s, u, p, hd, tl, nxt, prv, hd2, tl2, nxt2, prv2) =>
      NoneTwice(u) /\ Spelled(u, hd2, tl2, nxt2, prv2)
<1> SUFFICES ASSUME NEW s, NEW u, NEW p, NEW hd, NEW tl, NEW nxt, NEW prv, NEW hd2, NEW tl2,
                    NEW nxt2, NEW prv2,
                    RemovedFrom(s, u, p, hd, tl, nxt, prv, hd2, tl2, nxt2, prv2)
             PROVE  NoneTwice(u) /\ Spelled(u, hd2, tl2, nxt2, prv2)
  OBVIOUS
<1> USE DEF RemovedFrom, Typed
<1>1. PICK len \in Nat : len = Len(s)
  OBVIOUS
<1>2. \A k \in 1 .. len : s[k] \in Jobs /\ s[k] # Nil
  BY <1>1, QueueAssumption
<1>3. Len(u) = len - 1 /\ \A k \in 1 .. len - 1 : u[k] = IF k < p THEN s[k] ELSE s[k + 1]
  BY <1>1
<1>4. \A a, b \in 1 .. len : s[a] = s[b] => a = b
  BY <1>1 DEF NoneTwice
<1>5. p \in 1 .. len /\ hd = s[1] /\ tl = s[len] /\ 1 \in 1 .. len /\ len \in 1 .. len
  <2>1. p \in 1 .. len /\ 1 \in 1 .. len /\ len \in 1 .. len
    BY <1>1
  <2> QED
    BY <1>1, <2>1 DEF Spelled, Beside
<1>6. (s[p] = hd <=> p = 1) /\ (s[p] = tl <=> p = len)
  BY <1>4, <1>5
<1>7. \A k \in 1 .. len : /\ nxt[s[k]] = (IF k = len THEN Nil ELSE s[k + 1])
                          /\ prv[s[k]] = (IF k = 1 THEN Nil ELSE s[k - 1])
  <2> SUFFICES ASSUME NEW k \in 1 .. len
               PROVE  /\ nxt[s[k]] = (IF k = len THEN Nil ELSE s[k + 1])
                      /\ prv[s[k]] = (IF k = 1 THEN Nil ELSE s[k - 1])
    OBVIOUS
  <2>1. (k = len <=> k + 1 \notin 1 .. len) /\ (k = 1 <=> k - 1 \notin 1 .. len)
    OBVIOUS
  <2> QED
    BY <1>1, <2>1 DEF Spelled, Beside
<1>8. NoneTwice(u)
  <2> SUFFICES ASSUME NEW a \in 1 .. len - 1, NEW b \in 1 .. len - 1, u[a] = u[b] PROVE a = b
    BY <1>3 DEF NoneTwice
  <2>1. PICK x \in 1 .. len : u[a] = s[x] /\ x = IF a < p THEN a ELSE a + 1
    <3>1. a \in 1 .. len /\ a + 1 \in 1 .. len
      OBVIOUS
    <3> QED
      BY <1>3, <3>1
  <2>2. PICK y \in 1 .. len : u[b] = s[y] /\ y = IF b < p THEN b ELSE b + 1
    <3>1. b \in 1 .. len /\ b + 1 \in 1 .. len
      OBVIOUS
    <3> QED
      BY <1>3, <3>1
  <2>3. x = y
    <3>1. s[x] = s[y]
      BY <2>1, <2>2
    <3> QED
      BY <1>4, <3>1
  <2>4. (IF a < p THEN a ELSE a + 1) = (IF b < p THEN b ELSE b + 1)
    BY <2>1, <2>2, <2>3
  <2>5. p \in Nat
    BY <1>5
  <2> QED
    BY <2>4, <2>5
<1>9. hd2 = Beside(u, 1) /\ tl2 = Beside(u, Len(u))
  <2>1. hd2 = Beside(u, 1)
    <3>1. CASE p = 1
      <4>1. hd2 = (IF len = 1 THEN Nil ELSE s[2])
        BY <1>5, <1>6, <1>7, <3>1
      <4>2. len # 1 => 1 \in 1 .. len - 1
        BY <1>5
      <4>3. (len = 1 => 1 \notin 1 .. len - 1) /\ ~(1 < p) /\ 1 + 1 = 2
        BY <3>1
      <4> QED
        BY <1>3, <4>1, <4>2, <4>3 DEF Beside
    <3>2. CASE p # 1
      <4>1. 1 < p /\ 1 \in 1 .. len - 1
        BY <1>5, <3>2
      <4> QED
        BY <1>3, <1>5, <1>6, <3>2, <4>1 DEF Beside
    <3> QED
      BY <3>1, <3>2
  <2>2. tl2 = Beside(u, Len(u))
    <3>1. CASE p = len
      <4>1. tl2 = (IF len = 1 THEN Nil ELSE s[len - 1])
        BY <1>5, <1>6, <1>7, <3>1
      <4>2. len # 1 => len - 1 \in 1 .. len - 1 /\ len - 1 < p
        BY <1>5, <3>1
      <4>3. len = 1 => len - 1 \notin 1 .. len - 1
        OBVIOUS
      <4> QED
        BY <1>3, <4>1, <4>2, <4>3 DEF Beside
    <3>2. CASE p # len
      <4>1. len - 1 \in 1 .. len - 1 /\ ~(len - 1 < p) /\ (len - 1) + 1 = len
        BY <1>5, <3>2
      <4> QED
        BY <1>3, <1>5, <1>6, <3>2, <4>1 DEF Beside
    <3> QED
      BY <3>1, <3>2
  <2> QED
    BY <2>1, <2>2
\* the job before p has lost its neighbour on this side, the job behind p on that side
<1>10. ASSUME NEW k \in 1 .. len, k # p
       PROVE  nxt2[s[k]] = (IF k + 1 = p THEN nxt[s[p]] ELSE nxt[s[k]])
  <2>1. CASE p = 1
    <3>1. nxt2 = nxt
      BY <1>6, <2>1
    <3>2. k + 1 # p
      BY <2>1
    <3> QED
      BY <3>1, <3>2
  <2>2. CASE p # 1
    <3>0. p - 1 \in 1 .. len /\ s[p] # hd /\ prv[s[p]] = s[p - 1]
      BY <1>5, <1>6, <1>7, <2>2
    <3>1. nxt2 = [nxt EXCEPT ![s[p - 1]] = nxt[s[p]]] /\ p - 1 \in 1 .. len
      BY <3>0
    <3>2. s[k] = s[p - 1] <=> k + 1 = p
      BY <1>4, <3>1
    <3> QED
      BY <1>2, <3>1, <3>2
  <2> QED
    BY <2>1, <2>2
<1>11. ASSUME NEW k \in 1 .. len, k # p
       PROVE  prv2[s[k]] = (IF k - 1 = p THEN prv[s[p]] ELSE prv[s[k]])
  <2>1. CASE p = len
    <3>1. prv2 = prv
      BY <1>6, <2>1
    <3>2. k - 1 # p
      BY <2>1
    <3> QED
      BY <3>1, <3>2
  <2>2. CASE p # len
    <3>0. p + 1 \in 1 .. len /\ s[p] # tl /\ nxt[s[p]] = s[p + 1]
      BY <1>5, <1>6, <1>7, <2>2
    <3>1. prv2 = [prv EXCEPT ![s[p + 1]] = prv[s[p]]] /\ p + 1 \in 1 .. len
      BY <3>0
    <3>2. s[k] = s[p + 1] <=> k - 1 = p
      BY <1>4, <3>1
    <3> QED
      BY <1>2, <3>1, <3>2
  <2> QED
    BY <2>1, <2>2
<1>12. ASSUME NEW k \in 1 .. len - 1
       PROVE  nxt2[u[k]] = Beside(u, k + 1) /\ prv2[u[k]] = Beside(u, k - 1)
  <2>1. PICK x \in 1 .. len : x # p /\ u[k] = s[x] /\ x = IF k < p THEN k ELSE k + 1
    <3>1. k \in 1 .. len /\ k + 1 \in 1 .. len
      OBVIOUS
    <3> QED
      BY <1>3, <1>5, <3>1
  <2>2. Beside(u, k + 1) = IF k + 1 = len THEN Nil ELSE IF k + 1 < p THEN s[k + 1] ELSE s[k + 2]
    <3> HIDE DEF RemovedFrom, Typed
    <3>1. k + 1 = len <=> k + 1 \notin 1 .. len - 1
      OBVIOUS
    <3>2. (k + 1) + 1 = k + 2
      OBVIOUS
    <3> QED
      BY <1>3, <3>1, <3>2 DEF Beside
  <2>3. Beside(u, k - 1) = IF k = 1 THEN Nil ELSE IF k - 1 < p THEN s[k - 1] ELSE s[k]
    <3> HIDE DEF RemovedFrom, Typed
    <3>1. k = 1 <=> k - 1 \notin 1 .. len - 1
      OBVIOUS
    <3>2. (k - 1) + 1 = k
      OBVIOUS
    <3> QED
      BY <1>3, <3>1, <3>2 DEF Beside
  <2>4. nxt2[s[x]] = Beside(u, k + 1)
    <3>1. CASE k + 1 < p
      <4>1. x = k /\ x + 1 # p /\ k + 1 # len /\ k # len
        BY <1>5, <2>1, <3>1
      <4> QED
        BY <1>7, <1>10, <2>1, <2>2, <3>1, <4>1
    <3>2. CASE k + 1 = p
      <4>1. x = k /\ x + 1 = p /\ p + 1 = k + 2 /\ (p = len <=> k + 1 = len) /\ ~(k + 1 < p)
        BY <1>5, <2>1, <3>2
      <4>2. nxt2[s[x]] = IF p = len THEN Nil ELSE s[p + 1]
        BY <1>5, <1>7, <1>10, <2>1, <4>1
      <4> QED
        BY <2>2, <4>1, <4>2
    <3>3. CASE p <= k
      <4>1. x = k + 1 /\ x + 1 # p /\ x + 1 = k + 2 /\ ~(k + 1 < p)
        BY <1>5, <2>1, <3>3
      <4>2. nxt2[s[x]] = IF x = len THEN Nil ELSE s[x + 1]
        BY <1>7, <1>10, <2>1, <4>1
      <4> QED
        BY <2>2, <4>1, <4>2
    <3> QED
      BY <1>5, <3>1, <3>2, <3>3
  <2>5. prv2[s[x]] = Beside(u, k - 1)
    <3>1. CASE k < p
      <4>1. x = k /\ x - 1 # p /\ (k # 1 => k - 1 < p)
        BY <1>5, <2>1, <3>1
      <4> QED
        BY <1>7, <1>11, <2>1, <2>3, <4>1
    <3>2. CASE k = p
      <4>1. x = k + 1 /\ x - 1 = p /\ k - 1 < p
        BY <1>5, <2>1, <3>2
      <4>2. prv2[s[x]] = IF p = 1 THEN Nil ELSE s[p - 1]
        BY <1>5, <1>7, <1>11, <2>1, <4>1
      <4> QED
        BY <2>3, <3>2, <4>1, <4>2
    <3>3. CASE p < k
      <4>1. x = k + 1 /\ x - 1 # p /\ x - 1 = k /\ ~(k - 1 < p) /\ k # 1 /\ x # 1
        BY <1>5, <2>1, <3>3
      <4>2. prv2[s[x]] = s[x - 1]
        BY <1>7, <1>11, <2>1, <4>1
      <4> QED
        BY <2>3, <4>1, <4>2
    <3> QED
      BY <1>5, <3>1, <3>2, <3>3
  <2> QED
    BY <2>1, <2>4, <2>5
<1> QED
  BY <1>3, <1>8, <1>9, <1>12 DEF Spelled

\* Steps of the readers leave the queue as it is.
LEMMA ReadersKeep ==
  ASSUME QueueInv, NEW w \in Workers,
         JobQueue_!FindStart(w) \/ JobQueue_!FindNext(w) \/ JobQueue_!FindEnd(w)
  PROVE  QueueInv'
<1>1. /\ UNCHANGED <<q_head, q_tail, j_next, j_prev, j_id, queue>>
      /\ QueueTypes /\ Walking
  BY DEF JobQueue_!FindStart, JobQueue_!FindNext, JobQueue_!FindEnd, JobQueue_!ptrs, QueueInv
<1>2. Spelled(queue, q_head, q_tail, j_next, j_prev)'
  BY <1>1 DEF QueueInv, Spelled
<1>3. \A k \in 1 .. Len(queue) :
        /\ queue[k] \in Jobs /\ Beside(queue, k) = queue[k]
        /\ j_next[queue[k]] = Beside(queue, k + 1)
  BY <1>1 DEF QueueInv, QueueTypes, Spelled, Beside
<1>4. \A k : Beside(queue, k) # Nil => InQueue(queue, Beside(queue, k))
        /\ Beside(queue, k) \in Jobs
  BY <1>3 DEF Beside, InQueue
<1>5. \A j \in Jobs : InQueue(queue, j) => j_next[j] = Nil \/ InQueue(queue, j_next[j])
  BY <1>3, <1>4 DEF InQueue
<1>6. (q_head = Nil \/ InQueue(queue, q_head)) /\ q_head \in Jobs \cup {Nil}
  BY <1>4 DEF QueueInv, Spelled
<1>7. CASE JobQueue_!FindStart(w)
  <2>1. QueueTypes'
    BY <1>1, <1>6, <1>7 DEF QueueTypes, JobQueue_!FindStart
  <2>2. Walking'
    BY <1>1, <1>6, <1>7 DEF QueueTypes, Walking, JobQueue_!FindStart
  <2> QED
    BY <1>2, <2>1, <2>2 DEF QueueInv
<1>8. CASE JobQueue_!FindNext(w)
  <2>0. jp[w] \in Jobs /\ InQueue(queue, jp[w]) /\ j_next[jp[w]] \in Jobs \cup {Nil}
    BY <1>1, <1>8 DEF QueueTypes, Walking, JobQueue_!FindNext
  <2>1. QueueTypes'
    BY <1>1, <1>8, <2>0 DEF QueueTypes, JobQueue_!FindNext
  <2>2. Walking'
    <3>1. ASSUME NEW v \in Workers
          PROVE  /\ pc[v] = "walk" => v \in readers'
                 /\ pc[v] = "idle" => jp'[v] = Nil
                 /\ pc[v] = "found" => jp'[v] # Nil
                 /\ jp'[v] # Nil => InQueue(queue, jp'[v]) /\ (pc[v] = "found" => j_id[jp'[v]] = v)
      BY <1>1, <1>5, <1>8, <2>0 DEF QueueTypes, Walking, JobQueue_!FindNext
    <3> QED
      BY <1>1, <1>8, <3>1 DEF Walking, JobQueue_!FindNext
  <2> QED
    BY <1>2, <2>1, <2>2 DEF QueueInv
<1>9. CASE JobQueue_!FindEnd(w)
  <2>1. QueueTypes'
    BY <1>1, <1>9 DEF QueueTypes, JobQueue_!FindEnd
  <2>2. Walking'
    BY <1>1, <1>9 DEF QueueTypes, Walking, JobQueue_!FindEnd
  <2> QED
    BY <1>2, <2>1, <2>2 DEF QueueInv
<1> QED
  BY <1>7, <1>8, <1>9

\* A job that is put into the queue is no worker's yet, and no worker walks meanwhile.
LEMMA PutKeeps ==
  ASSUME QueueInv, NEW j \in Jobs, NEW w \in Workers,
         JobQueue_!Insert(j, w) \/ JobQueue_!AppendJob(j, w)
  PROVE  QueueInv'
<1>1. /\ QueueTypes /\ Walking /\ Spelled(queue, q_head, q_tail, j_next, j_prev)
      /\ queue \in Seq(Jobs) /\ NoneTwice(queue)
      /\ j_next \in [Jobs -> Jobs \cup {Nil}] /\ j_prev \in [Jobs -> Jobs \cup {Nil}]
  BY DEF QueueInv, QueueTypes
<1>2. /\ UNCHANGED <<readers, jp, pc>> /\ readers = {} /\ j_id' = [j_id EXCEPT ![j] = w]
      /\ ~InQueue(queue, j) /\ \A v \in Workers : pc[v] = "found" => jp[v] # j
  BY <1>1 DEF JobQueue_!Insert, JobQueue_!AppendJob, JobQueue_!Put, JobQueue_!Queued,
     JobQueue_!Found, InQueue
<1>3. /\ q_head \in Jobs \cup {Nil} /\ q_tail \in Jobs \cup {Nil}
  BY <1>1 DEF Spelled, Beside
<1>4. PICK len \in Nat : len = Len(queue)
  BY <1>1
<1>5. ASSUME /\ queue' \in Seq(Jobs) /\ NoneTwice(queue')
             /\ j_next' \in [Jobs -> Jobs \cup {Nil}] /\ j_prev' \in [Jobs -> Jobs \cup {Nil}]
             /\ Spelled(queue', q_head', q_tail', j_next', j_prev')
             /\ \A x \in Jobs : InQueue(queue, x) => InQueue(queue', x)
      PROVE  QueueInv'
  <2>1. QueueTypes'
    BY <1>1, <1>2, <1>5 DEF QueueTypes
  <2>2. Walking'
    <3>1. ASSUME NEW v \in Workers, jp[v] # Nil
          PROVE  InQueue(queue', jp[v]) /\ (pc[v] = "found" => j_id'[jp[v]] = v)
      BY <1>1, <1>2, <1>5, <3>1 DEF QueueTypes, Walking
    <3> QED
      BY <1>1, <1>2, <3>1 DEF Walking
  <2> QED
    BY <1>5, <2>1, <2>2 DEF QueueInv
<1>6. CASE JobQueue_!Insert(j, w)
  <2>1. /\ queue' = <<j>> \o queue /\ j_next' = [j_next EXCEPT ![j] = q_head]
        /\ j_prev' = [x \in Jobs |-> IF x = j THEN Nil ELSE IF x = q_head THEN j ELSE j_prev[x]]
        /\ q_tail' = (IF q_head = Nil THEN j ELSE q_tail) /\ q_head' = j
    BY <1>6 DEF JobQueue_!Insert
  <2>2. /\ queue' \in Seq(Jobs) /\ Len(queue') = len + 1 /\ queue'[1] = j
        /\ \A k \in 1 .. len : queue'[k + 1] = queue[k]
    BY <1>1, <1>4, <2>1, InFront
  <2>3. NoneTwice(queue') /\ Spelled(queue', q_head', q_tail', j_next', j_prev')
    <3>1. InsertedIn(queue, queue', j, q_head, q_tail, j_next, j_prev, q_head', q_tail', j_next',
            j_prev')
      BY <1>1, <1>2, <1>4, <2>1, <2>2 DEF InsertedIn, Typed
    <3> QED
      BY <3>1, Inserted
  <2>4. j_next' \in [Jobs -> Jobs \cup {Nil}] /\ j_prev' \in [Jobs -> Jobs \cup {Nil}]
    BY <1>1, <1>3, <2>1
  <2>5. \A x \in Jobs : InQueue(queue, x) => InQueue(queue', x)
    BY <1>4, <2>2 DEF InQueue
  <2> QED
    BY <1>5, <2>2, <2>3, <2>4, <2>5
<1>7. CASE JobQueue_!AppendJob(j, w)
  <2>1. /\ queue' = Append(queue, j) /\ j_prev' = [j_prev EXCEPT ![j] = q_tail]
        /\ j_next' = [x \in Jobs |-> IF x = j THEN Nil ELSE IF x = q_tail THEN j ELSE j_next[x]]
        /\ q_head' = (IF q_tail = Nil THEN j ELSE q_head) /\ q_tail' = j
    BY <1>7 DEF JobQueue_!AppendJob
  <2>2. /\ queue' \in Seq(Jobs) /\ Len(queue') = len + 1 /\ queue'[len + 1] = j
        /\ \A k \in 1 .. len : queue'[k] = queue[k]
    BY <1>1, <1>4, <2>1
  <2>3. NoneTwice(queue') /\ Spelled(queue', q_head', q_tail', j_next', j_prev')
    <3>1. AppendedTo(queue, queue', j, q_head, q_tail, j_next, j_prev, q_head', q_tail', j_next',
            j_prev')
      BY <1>1, <1>2, <1>4, <2>1, <2>2 DEF AppendedTo, Typed
    <3> QED
      BY <3>1, AppendedJob
  <2>4. j_next' \in [Jobs -> Jobs \cup {Nil}] /\ j_prev' \in [Jobs -> Jobs \cup {Nil}]
    BY <1>1, <1>3, <2>1
  <2>5. \A x \in Jobs : InQueue(queue, x) => InQueue(queue', x)
    BY <1>4, <2>2 DEF InQueue
  <2> QED
    BY <1>5, <2>2, <2>3, <2>4, <2>5
<1> QED
  BY <1>6, <1>7

\* A worker removes the job it found; the jobs of the others stay.
LEMMA RemoveKeeps == ASSUME QueueInv, NEW w \in Workers, JobQueue_!RemoveJob(w) PROVE QueueInv'
<1>1. /\ QueueTypes /\ Walking /\ Spelled(queue, q_head, q_tail, j_next, j_prev)
      /\ queue \in Seq(Jobs) /\ NoneTwice(queue)
      /\ j_next \in [Jobs -> Jobs \cup {Nil}] /\ j_prev \in [Jobs -> Jobs \cup {Nil}]
  BY DEF QueueInv, QueueTypes
<1>2. /\ pc[w] = "found" /\ readers = {} /\ JobQueue_!Unlink(jp[w])
      /\ queue' = JobQueue_!RemoveAt(queue, JobQueue_!At(jp[w]))
      /\ jp' = [jp EXCEPT ![w] = Nil] /\ pc' = [pc EXCEPT ![w] = "idle"]
      /\ UNCHANGED <<j_id, readers>>
  BY DEF JobQueue_!RemoveJob
<1>3. /\ jp[w] \in Jobs /\ InQueue(queue, jp[w])
      /\ \A v \in Workers \ {w} : pc[v] = "found" => jp[v] # jp[w]
  BY <1>1, <1>2 DEF QueueTypes, Walking
<1>4. PICK len \in Nat : len = Len(queue)
  BY <1>1
<1>5. DOMAIN queue = 1 .. len
  BY <1>1, <1>4
<1>6. PICK p \in 1 .. len : queue[p] = jp[w] /\ p = JobQueue_!At(jp[w])
  <2>1. \E k \in DOMAIN queue : queue[k] = jp[w]
    BY <1>3, <1>4, <1>5 DEF InQueue
  <2>2. JobQueue_!At(jp[w]) \in DOMAIN queue /\ queue[JobQueue_!At(jp[w])] = jp[w]
    BY <2>1, Zenon DEF JobQueue_!At
  <2> QED
    BY <1>5, <2>2
<1>7. /\ queue' \in Seq(Jobs) /\ Len(queue') = len - 1
      /\ \A k \in 1 .. len - 1 : queue'[k] = IF k < p THEN queue[k] ELSE queue[k + 1]
  BY <1>1, <1>2, <1>4, <1>6, TakenOut
<1>8. /\ q_head' = (IF queue[p] = q_head THEN j_next[queue[p]] ELSE q_head)
      /\ q_tail' = (IF queue[p] # q_tail THEN q_tail
                    ELSE IF queue[p] = q_head THEN Nil ELSE j_prev[queue[p]])
      /\ j_next' = (IF queue[p] = q_head THEN j_next
                    ELSE [j_next EXCEPT ![j_prev[queue[p]]] = j_next[queue[p]]])
      /\ j_prev' = (IF queue[p] = q_tail THEN j_prev
                    ELSE [j_prev EXCEPT ![j_next[queue[p]]] = j_prev[queue[p]]])
  BY <1>2, <1>6 DEF JobQueue_!Unlink, JobQueue_!RemoveHead, JobQueue_!RemoveTail,
      JobQueue_!RemoveMiddle
<1>9. NoneTwice(queue') /\ Spelled(queue', q_head', q_tail', j_next', j_prev')
  <2>1. RemovedFrom(queue, queue', p, q_head, q_tail, j_next, j_prev, q_head', q_tail', j_next',
          j_prev')
    BY <1>1, <1>4, <1>6, <1>7, <1>8 DEF RemovedFrom, Typed
  <2> QED
    BY <2>1, Unlinked
<1>10. j_next' \in [Jobs -> Jobs \cup {Nil}] /\ j_prev' \in [Jobs -> Jobs \cup {Nil}]
  <2>1. j_next[queue[p]] \in Jobs \cup {Nil} /\ j_prev[queue[p]] \in Jobs \cup {Nil}
    BY <1>1, <1>3, <1>6
  <2> QED
    BY <1>1, <1>8, <2>1
<1>11. \A x \in Jobs : InQueue(queue, x) /\ x # jp[w] => InQueue(queue', x)
  <2> SUFFICES ASSUME NEW k \in 1 .. len, queue[k] # jp[w]
               PROVE  \E a \in 1 .. len - 1 : queue'[a] = queue[k]
    BY <1>4, <1>7 DEF InQueue
  <2>1. k # p
    BY <1>6
  <2>2. CASE k < p
    <3>1. k \in 1 .. len - 1
      BY <1>6, <2>2
    <3> QED
      BY <1>7, <2>2, <3>1
  <2>3. CASE p < k
    <3>1. k - 1 \in 1 .. len - 1 /\ ~(k - 1 < p) /\ (k - 1) + 1 = k
      BY <1>6, <2>3
    <3> QED
      BY <1>7, <3>1
  <2> QED
    BY <2>1, <2>2, <2>3
<1>12. QueueTypes'
  BY <1>1, <1>2, <1>7, <1>9, <1>10 DEF QueueTypes
<1>13. Walking'
  <2>1. ASSUME NEW v \in Workers
        PROVE  /\ pc'[v] = "walk" => v \in readers'
               /\ pc'[v] = "idle" => jp'[v] = Nil
               /\ pc'[v] = "found" => jp'[v] # Nil
               /\ jp'[v] # Nil => InQueue(queue', jp'[v])
                    /\ (pc'[v] = "found" => j_id'[jp'[v]] = v)
    <3>1. CASE v = w
      BY <1>1, <1>2, <3>1 DEF QueueTypes
    <3>2. CASE v # w
      <4>1. jp'[v] = jp[v] /\ pc'[v] = pc[v]
        BY <1>1, <1>2, <3>2 DEF QueueTypes
      <4>2. pc[v] # "walk" /\ (jp[v] # Nil => pc[v] = "found")
        BY <1>1, <1>2 DEF QueueTypes, Walking
      <4>3. jp[v] # Nil => jp[v] \in Jobs /\ jp[v] # jp[w] /\ InQueue(queue, jp[v])
        BY <1>1, <1>3, <3>2, <4>2 DEF QueueTypes, Walking
      <4> QED
        BY <1>1, <1>2, <1>11, <4>1, <4>2, <4>3 DEF Walking
    <3> QED
      BY <3>1, <3>2
  <2> QED
    BY <2>1 DEF Walking
<1> QED
  BY <1>9, <1>12, <1>13 DEF QueueInv

\* Each call on the queue, and each step of a reader, keeps QueueInv.
LEMMA QueueStep == ASSUME QueueInv, [JobQueue_!Next]_(JobQueue_!vars) PROVE QueueInv'
<1>1. CASE UNCHANGED JobQueue_!vars
  BY <1>1 DEF JobQueue_!vars, JobQueue_!ptrs, QueueInv, QueueTypes, Walking, Spelled
<1>2. CASE JobQueue_!Next
  BY <1>2, ReadersKeep, PutKeeps, RemoveKeeps DEF JobQueue_!Next
<1> QED
  BY <1>1, <1>2

\* QueueInv has what WellLinked and FoundIsQueued ask for.
LEMMA QueueHold == QueueInv => JobQueue_!WellLinked /\ JobQueue_!FoundIsQueued
<1> SUFFICES ASSUME QueueInv PROVE JobQueue_!WellLinked /\ JobQueue_!FoundIsQueued
  OBVIOUS
<1>1. DOMAIN queue = 1 .. Len(queue)
  BY DEF QueueInv, QueueTypes
<1>2. \A k : JobQueue_!Neighbour(k) = Beside(queue, k)
  BY <1>1 DEF JobQueue_!Neighbour, Beside
<1>3. JobQueue_!WellLinked
  BY <1>1, <1>2 DEF QueueInv, Spelled, JobQueue_!WellLinked
<1> QED
  BY <1>1, <1>3 DEF QueueInv, Walking, InQueue, JobQueue_!FoundIsQueued, JobQueue_!Queued

-----------------------------------------------------------------------------
(* Getenv: from the lock to its return a caller holds env_mutex, and the     *)
(* buffer of a caller is written by its own calls only.                      *)

\* A caller that returned a value of getenv2.c or getenv3.c finds it in its own buffer.
OwnValue(c) ==
  pc[c] = "use" /\ result[c] = "value" =>
    /\ buf[c].of = name[c]
    /\ prog = "getenv3" => buf[c].end \/ Length[name[c]] >= MAXSTRINGSZ - 1

GetenvInv ==
  /\ DOMAIN pc = Callers /\ DOMAIN name = Callers /\ DOMAIN result = Callers
  /\ DOMAIN buf = Callers \cup {Nobody}
  /\ prog # "getenv1" =>
       \A c \in Callers : (owner = c <=> pc[c] \in {"buffer", "copy", "end"}) /\ OwnValue(c)

\* At first nobody calls.
LEMMA GetenvInit == Getenv_!Init => GetenvInv
BY GetenvAssumption DEF Getenv_!Init, GetenvInv, OwnValue

\* Each step of a call keeps GetenvInv.
LEMMA GetenvStep == ASSUME GetenvInv, [Getenv_!Next]_(Getenv_!vars) PROVE GetenvInv'
<1>1. CASE UNCHANGED Getenv_!vars
  BY <1>1 DEF Getenv_!vars, Getenv_!locals, GetenvInv, OwnValue
<1>2. ASSUME NEW c \in Callers, Getenv_!Call(c) PROVE GetenvInv'
  BY <1>2, GetenvAssumption DEF GetenvInv, OwnValue, Getenv_!Call, Getenv_!Goto, Getenv_!Returns
<1>3. ASSUME NEW c \in Callers, Getenv_!Lock(c) PROVE GetenvInv'
  BY <1>3, GetenvAssumption DEF GetenvInv, OwnValue, Getenv_!Lock, Getenv_!Goto, Getenv_!locals
<1>4. ASSUME NEW c \in Callers, Getenv_!Allocate(c) PROVE GetenvInv'
  BY <1>4, GetenvAssumption DEF GetenvInv, OwnValue, Getenv_!Allocate, Getenv_!Leave, Getenv_!Goto,
     Getenv_!Returns, Getenv_!locals
<1>5. ASSUME NEW c \in Callers, Getenv_!Find(c) PROVE GetenvInv'
  BY <1>5, GetenvAssumption DEF GetenvInv, OwnValue, Getenv_!Find, Getenv_!Ready, Getenv_!Leave,
     Getenv_!Goto, Getenv_!Returns, Getenv_!locals
<1>6. ASSUME NEW c \in Callers, Getenv_!Copy(c) PROVE GetenvInv'
  BY <1>6, GetenvAssumption DEF GetenvInv, OwnValue, Getenv_!Copy, Getenv_!Buffer, Getenv_!Goto,
     Getenv_!locals
<1>7. ASSUME NEW c \in Callers, Getenv_!EndCopy(c) PROVE GetenvInv'
  <2>1. PICK x : buf' = [buf EXCEPT ![Getenv_!Buffer(c)] = [of |-> name[c], end |-> x]]
                 /\ ((prog = "getenv3" /\ Length[name[c]] >= MAXSTRINGSZ - 1) \/ x = TRUE)
    BY <1>7 DEF Getenv_!EndCopy
  <2>2. /\ prog' = prog /\ name' = name /\ owner' = (IF owner = c THEN Nobody ELSE owner)
        /\ pc' = [pc EXCEPT ![c] = "use"] /\ result' = [result EXCEPT ![c] = "value"]
        /\ pc[c] = "end"
    BY <1>7 DEF Getenv_!EndCopy, Getenv_!Leave, Getenv_!Goto, Getenv_!Returns, Getenv_!locals
  <2>3. /\ DOMAIN pc' = Callers /\ DOMAIN name' = Callers /\ DOMAIN result' = Callers
        /\ DOMAIN buf' = Callers \cup {Nobody}
    BY <2>1, <2>2 DEF GetenvInv
  <2>4. ASSUME prog # "getenv1", NEW d \in Callers
        PROVE  (owner' = d <=> pc'[d] \in {"buffer", "copy", "end"}) /\ OwnValue(d)'
    <3>1. Getenv_!Buffer(c) = c
      BY <2>4 DEF Getenv_!Buffer
    <3>2. buf'[d] = IF d = c THEN [of |-> name[c], end |-> x] ELSE buf[d]
      BY <2>1, <3>1 DEF GetenvInv
    <3>3. pc'[d] = (IF d = c THEN "use" ELSE pc[d])
          /\ result'[d] = (IF d = c THEN "value" ELSE result[d])
      BY <2>2 DEF GetenvInv
    <3>4. owner' = d <=> pc'[d] \in {"buffer", "copy", "end"}
      BY <2>2, <2>4, <3>3, GetenvAssumption DEF GetenvInv
    <3>5. CASE d = c
      <4>1. buf'[d].of = name[d] /\ buf'[d].end = x
        BY <3>2, <3>5
      <4> QED
        BY <2>1, <2>2, <3>4, <3>5, <4>1 DEF OwnValue
    <3>6. CASE d # c
      <4>1. OwnValue(d)
        BY <2>4 DEF GetenvInv
      <4>2. buf'[d] = buf[d] /\ pc'[d] = pc[d] /\ result'[d] = result[d]
        BY <3>2, <3>3, <3>6
      <4> QED
        BY <2>2, <3>4, <4>1, <4>2 DEF OwnValue
    <3> QED
      BY <3>5, <3>6
  <2> QED
    BY <2>2, <2>3, <2>4 DEF GetenvInv
<1>8. ASSUME NEW c \in Callers, Getenv_!Use(c) PROVE GetenvInv'
  BY <1>8, GetenvAssumption DEF GetenvInv, OwnValue, Getenv_!Use, Getenv_!Goto, Getenv_!locals
<1> QED
  BY <1>1, <1>2, <1>3, <1>4, <1>5, <1>6, <1>7, <1>8 DEF Getenv_!Next

\* GetenvInv has what ValueIsOwn asks for.
LEMMA GetenvHold == GetenvInv => Getenv_!ValueIsOwn
BY DEF GetenvInv, OwnValue, Getenv_!ValueIsOwn, Getenv_!Buffer

-----------------------------------------------------------------------------
(* Timeout: a struct timespec is in range, the mutex is held by whoever the  *)
(* position of main and of the helper says, and retry is called by one of    *)
(* them, the helper's sleep ending no sooner than asked for.                 *)

Timespec == [tv_sec : Nat, tv_nsec : 0 .. SECTONSEC - 1]

TimeoutInv ==
  /\ clock \in Nat /\ wake \in Nat /\ when \in Timespec /\ now \in Timespec
  /\ owner \in {"none", "main", "helper"}
  /\ owner = "main" <=> pc \in {"timeout", "thread", "call", "called", "unlock"}
  /\ owner = "helper" <=> helper = "called"
  /\ depth = CASE owner = "none" -> 0 [] pc = "called" -> 2 [] OTHER -> 1
  /\ helper \in {"none", "sleep", "asleep", "called", "ended"}
  /\ helper # "none" => pc \in {"unlock", "exit", "done"}
  /\ helper \in {"sleep", "asleep"} => tip = "used" /\ retried = {}
  /\ pc \in {"start", "timeout", "thread", "call"} => retried = {}
  /\ pc = "thread" => tip = "used"
  /\ pc = "thread" \/ helper # "none" =>
       Timeout_!After(when, now) /\ Timeout_!Nsec(now) <= clock
  /\ helper = "asleep" => wake >= Timeout_!Nsec(when)
  /\ retried = {} \/ \E x : retried = {x} /\ (x.by = "helper" => x.at >= Timeout_!Nsec(when))
  /\ helper = "none" /\ pc \notin {"called", "unlock", "exit", "done"} => retried = {}

\* The seconds and the nanoseconds of a reading of the clock are in range, and make it up.
LEMMA TimeOfClock ==
  ASSUME NEW c \in Nat PROVE Timeout_!Time(c) \in Timespec /\ Timeout_!Nsec(Timeout_!Time(c)) = c
<1>1. PICK d \in Nat \ {0} : d = SECTONSEC
  BY TimeoutAssumption
<1>2. c \div d \in Nat /\ c % d \in 0 .. d - 1 /\ (c \div d) * d + (c % d) = c
  BY Z3
<1> QED
  BY <1>1, <1>2 DEF Timespec, Timeout_!Time, Timeout_!Nsec

\* The difference that timeout_helper sleeps is when - now, and not negative.
LEMMA WaitIsDifference ==
  ASSUME NEW a \in Timespec, NEW b \in Timespec, Timeout_!After(a, b)
  PROVE  /\ Timeout_!Nsec(Timeout_!Wait(a, b)) = Timeout_!Nsec(a) - Timeout_!Nsec(b)
         /\ Timeout_!Nsec(a) \in Nat /\ Timeout_!Nsec(b) \in Nat
         /\ Timeout_!Nsec(a) >= Timeout_!Nsec(b)
<1>1. PICK d \in Nat \ {0} : d = SECTONSEC
  BY TimeoutAssumption
<1>2. PICK s1 \in Nat, n1 \in 0 .. d - 1 : a = [tv_sec |-> s1, tv_nsec |-> n1]
  BY <1>1 DEF Timespec
<1>3. PICK s2 \in Nat, n2 \in 0 .. d - 1 : b = [tv_sec |-> s2, tv_nsec |-> n2]
  BY <1>1 DEF Timespec
<1>4. Timeout_!Nsec(a) = s1 * d + n1 /\ Timeout_!Nsec(b) = s2 * d + n2
  BY <1>1, <1>2, <1>3 DEF Timeout_!Nsec
<1>5. s1 > s2 \/ (s1 = s2 /\ n1 > n2)
  BY <1>2, <1>3 DEF Timeout_!After
<1>6. PICK x \in Nat : s1 = s2 + x
  <2>1. s1 - s2 \in Nat /\ s1 = s2 + (s1 - s2)
    BY <1>5
  <2> QED
    BY <2>1
<1>7. s1 * d = s2 * d + x * d /\ x * d \in Nat /\ (x # 0 => x * d >= d) /\ s2 * d \in Nat
  BY <1>6
<1>8. Timeout_!Nsec(a) \in Nat /\ Timeout_!Nsec(b) \in Nat /\ Timeout_!Nsec(a) >= Timeout_!Nsec(b)
  BY <1>4, <1>5, <1>6, <1>7
<1>9. CASE n1 >= n2
  <2>1. Timeout_!Wait(a, b) = [tv_sec |-> x, tv_nsec |-> n1 - n2]
    BY <1>9, <1>2, <1>3, <1>6 DEF Timeout_!Wait
  <2> QED
    BY <2>1, <1>1, <1>4, <1>7, <1>8 DEF Timeout_!Nsec
<1>10. CASE n1 < n2
  <2>1. Timeout_!Wait(a, b) = [tv_sec |-> x - 1, tv_nsec |-> d - n2 + n1]
    BY <1>10, <1>1, <1>2, <1>3, <1>6 DEF Timeout_!Wait
  <2>2. (x - 1) * d = x * d - d
    OBVIOUS
  <2> QED
    BY <2>1, <2>2, <1>1, <1>4, <1>7, <1>8 DEF Timeout_!Nsec
<1> QED
  BY <1>9, <1>10

\* At first nobody holds the mutex and no time was read.
LEMMA TimeoutInit == Timeout_!Init => TimeoutInv
BY TimeoutAssumption DEF Timeout_!Init, TimeoutInv, Timeout_!Zero, Timespec

\* Each step of main, of the helper and of the clock keeps TimeoutInv.
LEMMA TimeoutStep == ASSUME TimeoutInv, [Timeout_!Next]_(Timeout_!vars) PROVE TimeoutInv'
<1> USE TimeoutAssumption
<1>1. CASE UNCHANGED Timeout_!vars
  BY <1>1 DEF Timeout_!vars, TimeoutInv, Timeout_!After, Timeout_!Nsec
<1> DEFINE N(y) == Timeout_!Nsec(y)
           A(y, z) == Timeout_!After(y, z)
<1>a. \A y \in Timespec : N(y) \in Nat
  BY DEF Timespec, Timeout_!Nsec
<1>b. N(when)' = Timeout_!Nsec(when') /\ N(now)' = Timeout_!Nsec(now')
      /\ A(when, now)' = Timeout_!After(when', now')
  BY DEF Timeout_!Nsec, Timeout_!After
<1>2. CASE Timeout_!Tick
  BY <1>2, <1>a, <1>b DEF TimeoutInv, Timeout_!Tick
<1>3. CASE Timeout_!Main
  <2>1. [Timeout_!Time(clock) EXCEPT !.tv_sec = @ + Delay] \in Timespec
    BY TimeOfClock DEF TimeoutInv, Timespec
  <2> QED
    BY <1>3, <1>a, <1>b, <2>1 DEF TimeoutInv, Timeout_!Main, Timeout_!Lock
<1>4. CASE Timeout_!timeout
  <2>1. now' \in Timespec /\ N(now)' <= clock
    BY <1>4, <1>b, TimeOfClock DEF TimeoutInv, Timeout_!timeout
  <2> QED
    BY <1>4, <1>a, <1>b, <2>1 DEF TimeoutInv, Timeout_!timeout
<1>5. CASE Timeout_!makethread
  BY <1>5, <1>a, <1>b DEF TimeoutInv, Timeout_!makethread
<1>6. CASE Timeout_!CallNow
  BY <1>6, <1>a, <1>b DEF TimeoutInv, Timeout_!CallNow, Timeout_!Lock
<1>7. CASE Timeout_!Return
  BY <1>7, <1>a, <1>b DEF TimeoutInv, Timeout_!Return, Timeout_!Unlock
<1>8. CASE Timeout_!Exit
  BY <1>8, <1>a, <1>b DEF TimeoutInv, Timeout_!Exit
<1>9. CASE Timeout_!Sleep
  <2>1. wake' \in Nat /\ wake' >= N(when)
    <3>1. wake' = clock + (N(when) - N(now)) /\ N(now) <= clock /\ N(when) >= N(now)
      BY <1>9, WaitIsDifference DEF TimeoutInv, Timeout_!Sleep
    <3> QED
      BY <3>1, <1>a DEF TimeoutInv
  <2> QED
    BY <1>9, <1>a, <1>b, <2>1 DEF TimeoutInv, Timeout_!Sleep
<1>10. CASE Timeout_!Wakeup
  BY <1>10, <1>a, <1>b DEF TimeoutInv, Timeout_!Wakeup, Timeout_!Lock
<1>11. CASE Timeout_!HelperEnd
  BY <1>11, <1>a, <1>b DEF TimeoutInv, Timeout_!HelperEnd, Timeout_!Unlock
<1> QED
  BY <1>1, <1>2, <1>3, <1>4, <1>5, <1>6, <1>7, <1>8, <1>9, <1>10, <1>11 DEF Timeout_!Next

\* TimeoutInv has what NotBeforeDue asks for.
LEMMA TimeoutHold == TimeoutInv => Timeout_!NotBeforeDue
<1> SUFFICES ASSUME TimeoutInv PROVE Timeout_!NotBeforeDue
  OBVIOUS
<1>1. Timeout_!Cardinality(retried) = Cardinality(retried)
  BY Zenon DEF Timeout_!Cardinality, Cardinality
<1>2. Cardinality(retried) <= 1
  <2>1. CASE retried = {}
    BY <2>1, FS_EmptySet
  <2>2. ASSUME NEW x, retried = {x} PROVE Cardinality(retried) <= 1
    BY <2>2, FS_Singleton
  <2> QED
    BY <2>1, <2>2 DEF TimeoutInv
<1>3. helper \in {"sleep", "asleep"} =>
        /\ tip = "used"
        /\ Timeout_!Nsec(Timeout_!Wait(when, now)) = Timeout_!Nsec(when) - Timeout_!Nsec(now)
  BY WaitIsDifference DEF TimeoutInv
<1>4. \A x \in retried : x.by = "helper" => x.at >= Timeout_!Nsec(when)
  BY DEF TimeoutInv
<1>5. depth = 0 <=> owner = "none"
  BY DEF TimeoutInv
<1> QED
  BY <1>1, <1>2, <1>3, <1>4, <1>5 DEF Timeout_!NotBeforeDue

-----------------------------------------------------------------------------
(* CondVar: who holds the lock follows from the positions of the threads,    *)
(* and the messages in the queue, with a worker and processed are distinct.  *)

CvThreads == Workers \cup Producers \cup {"main", "thr_fn"}
CvPlaces(c) ==
  CASE c \in Workers -> {"none", "lock", "test", "wait", "woken", "loopEnds", "process"}
    [] c \in Producers -> {"none", "lock", "test", "signal", "end"}
    [] c = "main" -> {"none", "lock", "test", "wait", "woken", "loopEnds", "reset", "exit",
      "killed"}
    [] OTHER -> {"none", "sigwait", "lockQuit", "signal", "end"}

\* A thread tests the queue, or the flag, or leaves the loop with the lock only, and what
\* it found when it left the loop is so until it gives the lock back.
LockInv ==
  /\ DOMAIN pc = CvThreads /\ DOMAIN mp = Workers \cup Producers
  /\ \A c \in CvThreads : /\ pc[c] \in CvPlaces(c)
                          /\ lock = c <=> pc[c] \in {"test", "loopEnds"}
  /\ \A c \in Workers : pc[c] = "loopEnds" => workq # <<>>
  /\ pc["main"] = "loopEnds" => quitflag # 0
  /\ quitflag # 0 \/ pc["main"] \in {"reset", "exit"} => pc["thr_fn"] \in {"signal", "end"}
  /\ mask = "blocked" \/ pc["main"] \in {"exit", "killed"}

\* A message is in the queue, with the worker that took it, or processed, and only there.
MsgsInv ==
  /\ next \in Nat /\ workq \in Seq(1 .. next) /\ processed \in Seq(1 .. next)
  /\ \A j, k \in DOMAIN workq : workq[j] = workq[k] => j = k
  /\ \A j, k \in DOMAIN processed : processed[j] = processed[k] => j = k
  /\ \A j \in DOMAIN workq, k \in DOMAIN processed : workq[j] # processed[k]
  /\ \A c \in Workers : pc[c] = "process" =>
       /\ mp[c] \in 1 .. next
       /\ \A j \in DOMAIN workq : workq[j] # mp[c]
       /\ \A k \in DOMAIN processed : processed[k] # mp[c]
       /\ \A d \in Workers : pc[d] = "process" /\ mp[d] = mp[c] => d = c

CondVarInv == LockInv /\ MsgsInv

\* At first there are no messages, and nobody has the lock.
LEMMA CondVarInit == CondVar_!Init => CondVarInv
<1> SUFFICES ASSUME CondVar_!Init PROVE CondVarInv
  OBVIOUS
<1> USE CondVarAssumption DEF CondVar_!Main, CondVar_!Thread
<1>1. LockInv
  BY DEF CondVar_!Init, LockInv, CvThreads, CvPlaces
<1>2. MsgsInv
  BY DEF CondVar_!Init, MsgsInv
<1> QED
  BY <1>1, <1>2 DEF CondVarInv

\* Each step keeps LockInv.
LEMMA LockInvKept == ASSUME LockInv, CondVar_!Next PROVE LockInv'
<1> USE CondVarAssumption DEF CondVar_!Main, CondVar_!Thread
<1> USE DEF CvThreads, CondVar_!Goto, CondVar_!msgs, CondVar_!sigs
<1>0. ASSUME NEW c PROVE CvPlaces(c)' = CvPlaces(c)
  BY DEF CvPlaces
<1>1. ASSUME NEW c \in CvThreads, CondVar_!Lock(c) PROVE LockInv'
  BY <1>0, <1>1 DEF LockInv, CondVar_!Lock, CvPlaces
<1>2. ASSUME NEW c \in CvThreads, CondVar_!CondWait(c) PROVE LockInv'
  BY <1>0, <1>2 DEF LockInv, CondVar_!CondWait, CvPlaces
<1>3. ASSUME NEW c \in CvThreads, CondVar_!Spurious(c) PROVE LockInv'
  BY <1>0, <1>3 DEF LockInv, CondVar_!Spurious, CondVar_!Waiters, CvPlaces
<1>4. ASSUME NEW c \in CvThreads, CondVar_!Woken(c) PROVE LockInv'
  BY <1>0, <1>4 DEF LockInv, CondVar_!Woken, CvPlaces
<1>5. ASSUME NEW c \in CvThreads, CondVar_!LoopEnds(c) PROVE LockInv'
  BY <1>0, <1>5 DEF LockInv, CondVar_!LoopEnds, CondVar_!Empty, CvPlaces
<1>6. ASSUME NEW c \in CvThreads, CondVar_!Take(c) PROVE LockInv'
  BY <1>0, <1>6 DEF LockInv, CondVar_!Take, CvPlaces
<1>7. ASSUME NEW c \in CvThreads, CondVar_!Process(c) PROVE LockInv'
  BY <1>0, <1>7 DEF LockInv, CondVar_!Process, CvPlaces
<1>8. ASSUME NEW c \in CvThreads, CondVar_!Enqueue(c) PROVE LockInv'
  BY <1>0, <1>8 DEF LockInv, CondVar_!Enqueue, CvPlaces
<1>9. ASSUME NEW c \in CvThreads, CondVar_!Signal(c) PROVE LockInv'
  <2>1. DOMAIN pc = CvThreads /\ pc[c] = "signal" /\ c \notin Workers /\ c # "main"
    BY <1>9 DEF LockInv, CondVar_!Signal, CvPlaces
  <2>2. UNCHANGED <<mp, lock, workq, quitflag, mask>>
    BY <1>9 DEF CondVar_!Signal
  <2>3. PICK w : /\ w = c \/ (w \in CondVar_!Waiters /\ w # c)
                 /\ pc' = [pc EXCEPT ![w] = "woken", ![c] = CondVar_!Again(c)]
    <3>1. CASE pc' = [pc EXCEPT ![c] = CondVar_!Again(c)]
      <4>1. pc' = [pc EXCEPT ![c] = "woken", ![c] = CondVar_!Again(c)]
        BY <2>1, <3>1
      <4> QED
        BY <4>1
    <3>2. ASSUME NEW w \in CondVar_!Waiters, pc' = [pc EXCEPT ![w] = "woken",
            ![c] = CondVar_!Again(c)]
          PROVE w # c
      BY <2>1, <3>2 DEF CondVar_!Waiters
    <3> QED
      BY <1>9, <3>1, <3>2 DEF CondVar_!Signal
  <2>4. \A d \in CvThreads : pc'[d] = IF d = c THEN CondVar_!Again(c) ELSE IF d = w THEN "woken"
          ELSE pc[d]
    BY <2>1, <2>3
  <2>5. DOMAIN pc' = CvThreads
    BY <2>1, <2>3
  <2>6. CondVar_!Again(c) \in {"lock", "end"} /\ (c \notin Producers => CondVar_!Again(c) = "end")
    BY DEF CondVar_!Again
  <2>7. w # c => w \in Workers \cup {"main"} /\ pc[w] = "wait"
    BY <2>3 DEF LockInv, CondVar_!Waiters, CvPlaces
  <2>8. \A d \in CvThreads : pc'[d] \in CvPlaces(d)
    <3>1. CvPlaces(c) \in {{"none", "lock", "test", "signal", "end"},
                           {"none", "sigwait", "lockQuit", "signal", "end"}}
          /\ (c \in Producers => CvPlaces(c) = {"none", "lock", "test", "signal", "end"})
      BY <2>1 DEF CvPlaces
    <3>2. CondVar_!Again(c) \in CvPlaces(c)
      BY <2>6, <3>1
    <3>3. w # c => "woken" \in CvPlaces(w)
      BY <2>7 DEF CvPlaces
    <3> QED
      BY <2>3, <2>4, <3>2, <3>3 DEF LockInv
  <2>9. \A d \in CvThreads : lock' = d <=> pc'[d] \in {"test", "loopEnds"}
    BY <2>1, <2>2, <2>3, <2>4, <2>6, <2>7 DEF LockInv
  <2>10. \A d \in CvThreads : pc'[d] = "loopEnds" => pc[d] = "loopEnds"
    BY <2>1, <2>3, <2>4, <2>6, <2>7
  <2>11. pc["thr_fn"] \in {"signal", "end"} => pc'["thr_fn"] \in {"signal", "end"}
    BY <2>4, <2>6, <2>7
  <2>12. /\ \A d \in Workers : pc'[d] = "loopEnds" => workq' # <<>>
         /\ pc'["main"] = "loopEnds" => quitflag' # 0
    BY <2>2, <2>10 DEF LockInv
  <2>13. pc'["main"] = pc["main"] \/ (pc["main"] = "wait" /\ pc'["main"] = "woken")
    BY <2>1, <2>4, <2>7
  <2>14. /\ quitflag' # 0 \/ pc'["main"] \in {"reset", "exit"}
              => pc'["thr_fn"] \in {"signal", "end"}
         /\ mask' = "blocked" \/ pc'["main"] \in {"exit", "killed"}
    BY <2>2, <2>11, <2>13 DEF LockInv
  <2> QED
    BY <1>0, <2>2, <2>5, <2>8, <2>9, <2>12, <2>14 DEF LockInv
<1>10. ASSUME NEW x, CondVar_!Kill(x) PROVE LockInv'
  BY <1>0, <1>10 DEF LockInv, CondVar_!Kill, CvPlaces
<1>11. CASE CondVar_!Sigwait
  BY <1>0, <1>11 DEF LockInv, CondVar_!Sigwait, CvPlaces
<1>12. CASE CondVar_!SetFlag
  BY <1>0, <1>12 DEF LockInv, CondVar_!SetFlag, CvPlaces
<1>13. CASE CondVar_!Cleared
  BY <1>0, <1>13 DEF LockInv, CondVar_!Cleared, CvPlaces
<1>14. CASE CondVar_!Unblock
  BY <1>0, <1>14 DEF LockInv, CondVar_!Unblock, CvPlaces
<1>15. DOMAIN pc = CvThreads
  BY DEF LockInv
<1> QED
  BY <1>1, <1>2, <1>3, <1>4, <1>5, <1>6, <1>7, <1>8, <1>9, <1>10, <1>11, <1>12, <1>13, <1>14, <1>15
  DEF CondVar_!Next

\* A step that leaves the messages alone and moves no worker to or from process_msg.
LEMMA MsgsUntouched ==
  ASSUME MsgsInv, UNCHANGED <<next, workq, processed, mp>>,
         \A c \in Workers : pc'[c] = "process" => pc[c] = "process"
  PROVE  MsgsInv'
BY DEF MsgsInv

\* Each step keeps MsgsInv.
LEMMA MsgsInvKept == ASSUME LockInv, MsgsInv, CondVar_!Next PROVE MsgsInv'
<1> USE CondVarAssumption DEF CondVar_!Main, CondVar_!Thread
<1> USE DEF CvThreads, CondVar_!Goto, CondVar_!msgs, CondVar_!sigs
<1>d. DOMAIN pc = CvThreads /\ DOMAIN mp = Workers \cup Producers
  BY DEF LockInv
<1>1. ASSUME NEW c \in CvThreads,
             \/ CondVar_!Lock(c) \/ CondVar_!CondWait(c) \/ CondVar_!Spurious(c)
             \/ CondVar_!Woken(c) \/ CondVar_!LoopEnds(c)
      PROVE MsgsInv'
  <2>1. UNCHANGED <<next, workq, processed, mp>>
    BY <1>1 DEF CondVar_!Lock, CondVar_!CondWait, CondVar_!Spurious, CondVar_!Woken,
       CondVar_!LoopEnds
  <2>2. \A d \in Workers : pc'[d] = "process" => pc[d] = "process"
    BY <1>1, <1>d DEF CondVar_!Lock, CondVar_!CondWait, CondVar_!Spurious, CondVar_!Woken,
       CondVar_!LoopEnds
  <2> QED
    BY <2>1, <2>2, MsgsUntouched
<1>2. ASSUME NEW c \in CvThreads, CondVar_!Signal(c) PROVE MsgsInv'
  <2>1. UNCHANGED <<next, workq, processed, mp>>
    BY <1>2 DEF CondVar_!Signal
  <2>2. \A d \in Workers : pc'[d] = "process" => pc[d] = "process"
    BY <1>2, <1>d DEF CondVar_!Signal, CondVar_!Again, CondVar_!Waiters
  <2> QED
    BY <2>1, <2>2, MsgsUntouched
<1>3. ASSUME NEW x, \/ CondVar_!Kill(x) \/ CondVar_!Sigwait \/ CondVar_!SetFlag
                    \/ CondVar_!Cleared \/ CondVar_!Unblock
      PROVE MsgsInv'
  <2>1. UNCHANGED <<next, workq, processed, mp>>
    BY <1>3 DEF CondVar_!Kill, CondVar_!Sigwait, CondVar_!SetFlag, CondVar_!Cleared,
       CondVar_!Unblock
  <2>2. \A d \in Workers : pc'[d] = "process" => pc[d] = "process"
    BY <1>3, <1>d DEF CondVar_!Kill, CondVar_!Sigwait, CondVar_!SetFlag, CondVar_!Cleared,
       CondVar_!Unblock
  <2> QED
    BY <2>1, <2>2, MsgsUntouched
<1>4. ASSUME NEW c \in CvThreads, CondVar_!Take(c) PROVE MsgsInv'
  <2>1. c \in Workers /\ pc[c] = "loopEnds" /\ workq # <<>>
    BY <1>4 DEF LockInv, CondVar_!Take
  <2>2. /\ workq' = Tail(workq) /\ next' = next /\ processed' = processed
        /\ \A d \in Workers : /\ pc'[d] = IF d = c THEN "process" ELSE pc[d]
                              /\ mp'[d] = IF d = c THEN Head(workq) ELSE mp[d]
    BY <1>4, <2>1, <1>d DEF CondVar_!Take
  <2>3. PICK len \in Nat : len = Len(workq)
    BY DEF MsgsInv
  <2>4. len > 0 /\ DOMAIN workq = 1 .. len
    BY <2>1, <2>3 DEF MsgsInv
  <2>5. /\ Tail(workq) \in Seq(1 .. next) /\ DOMAIN Tail(workq) = 1 .. len - 1
        /\ \A j \in 1 .. len - 1 : Tail(workq)[j] = workq[j + 1]
        /\ Head(workq) = workq[1] /\ workq[1] \in 1 .. next
    BY <2>1, <2>3, <2>4 DEF MsgsInv
  <2>6. \A j \in DOMAIN workq' : j + 1 \in DOMAIN workq /\ j + 1 # 1 /\ workq'[j] = workq[j + 1]
    BY <2>2, <2>4, <2>5
  <2>7. 1 \in DOMAIN workq
    BY <2>4
  <2>8. \A j, k \in DOMAIN workq' : workq'[j] = workq'[k] => j = k
    <3>1. \A j, k \in DOMAIN workq' : workq'[j] = workq'[k] => j + 1 = k + 1
      BY <2>6 DEF MsgsInv
    <3> QED
      BY <3>1, <2>2, <2>5
  <2>9. \A j \in DOMAIN workq', k \in DOMAIN processed' : workq'[j] # processed'[k]
    BY <2>2, <2>6 DEF MsgsInv
  <2>10. \A d \in Workers : pc'[d] = "process" =>
           /\ mp'[d] \in 1 .. next'
           /\ \A j \in DOMAIN workq' : workq'[j] # mp'[d]
           /\ \A k \in DOMAIN processed' : processed'[k] # mp'[d]
           /\ \A e \in Workers : pc'[e] = "process" /\ mp'[e] = mp'[d] => e = d
    <3>1. \A k \in DOMAIN processed : processed[k] # workq[1]
      BY <2>7 DEF MsgsInv
    <3>2. \A e \in Workers : pc[e] = "process" => mp[e] # workq[1]
      BY <2>7 DEF MsgsInv
    <3>3. \A j \in DOMAIN workq' : workq'[j] # workq[1]
      BY <2>6, <2>7 DEF MsgsInv
    <3>4. ASSUME NEW d \in Workers, pc'[d] = "process", d = c
          PROVE  /\ mp'[d] \in 1 .. next'
                 /\ \A j \in DOMAIN workq' : workq'[j] # mp'[d]
                 /\ \A k \in DOMAIN processed' : processed'[k] # mp'[d]
                 /\ \A e \in Workers : pc'[e] = "process" /\ mp'[e] = mp'[d] => e = d
      BY <2>2, <2>5, <3>1, <3>2, <3>3, <3>4
    <3>5. ASSUME NEW d \in Workers, pc'[d] = "process", d # c
          PROVE  /\ mp'[d] \in 1 .. next'
                 /\ \A j \in DOMAIN workq' : workq'[j] # mp'[d]
                 /\ \A k \in DOMAIN processed' : processed'[k] # mp'[d]
                 /\ \A e \in Workers : pc'[e] = "process" /\ mp'[e] = mp'[d] => e = d
      <4>1. pc[d] = "process" /\ mp'[d] = mp[d]
        BY <2>2, <3>5
      <4>2. /\ mp[d] \in 1 .. next /\ \A j \in DOMAIN workq : workq[j] # mp[d]
            /\ \A k \in DOMAIN processed : processed[k] # mp[d]
            /\ \A e \in Workers : pc[e] = "process" /\ mp[e] = mp[d] => e = d
        BY <4>1 DEF MsgsInv
      <4> QED
        BY <2>2, <2>5, <2>6, <3>2, <4>1, <4>2
    <3> QED
      BY <3>4, <3>5
  <2> QED
    BY <2>2, <2>5, <2>8, <2>9, <2>10 DEF MsgsInv
<1>5. ASSUME NEW c \in CvThreads, CondVar_!Process(c) PROVE MsgsInv'
  <2>1. c \in Workers /\ pc[c] = "process"
    BY <1>5 DEF LockInv, CondVar_!Process, CvPlaces
  <2>2. /\ processed' = Append(processed, mp[c]) /\ next' = next /\ workq' = workq
        /\ \A d \in Workers : /\ pc'[d] = IF d = c THEN "lock" ELSE pc[d]
                              /\ mp'[d] = IF d = c THEN 0 ELSE mp[d]
    BY <1>5, <2>1, <1>d DEF CondVar_!Process
  <2>3. PICK len \in Nat : len = Len(processed)
    BY DEF MsgsInv
  <2>4. DOMAIN processed = 1 .. len /\ mp[c] \in 1 .. next
    BY <2>1, <2>3 DEF MsgsInv
  <2>5. /\ processed' \in Seq(1 .. next) /\ DOMAIN processed' = 1 .. len + 1
        /\ \A k \in 1 .. len + 1 : processed'[k] = IF k = len + 1 THEN mp[c] ELSE processed[k]
    BY <2>2, <2>3, <2>4 DEF MsgsInv
  <2>6. \A k \in DOMAIN processed' : \/ k = len + 1 /\ processed'[k] = mp[c]
                                     \/ k \in DOMAIN processed /\ processed'[k] = processed[k]
    BY <2>4, <2>5
  <2>m. /\ \A j, k \in DOMAIN processed : processed[j] = processed[k] => j = k
        /\ \A j \in DOMAIN workq : workq[j] # mp[c]
        /\ \A k \in DOMAIN processed : processed[k] # mp[c]
        /\ \A d \in Workers : pc[d] = "process" /\ mp[d] = mp[c] => d = c
        /\ \A j \in DOMAIN workq, k \in DOMAIN processed : workq[j] # processed[k]
    BY <2>1 DEF MsgsInv
  <2>7. \A j, k \in DOMAIN processed' : processed'[j] = processed'[k] => j = k
    BY <2>6, <2>m
  <2>8. \A j \in DOMAIN workq', k \in DOMAIN processed' : workq'[j] # processed'[k]
    BY <2>2, <2>6, <2>m
  <2>9. ASSUME NEW d \in Workers, pc'[d] = "process"
        PROVE  /\ mp'[d] \in 1 .. next'
               /\ \A j \in DOMAIN workq' : workq'[j] # mp'[d]
               /\ \A k \in DOMAIN processed' : processed'[k] # mp'[d]
               /\ \A e \in Workers : pc'[e] = "process" /\ mp'[e] = mp'[d] => e = d
    <3>1. d # c /\ pc[d] = "process" /\ mp'[d] = mp[d]
      BY <2>2, <2>9
    <3>2. /\ mp[d] \in 1 .. next /\ \A j \in DOMAIN workq : workq[j] # mp[d]
          /\ \A k \in DOMAIN processed : processed[k] # mp[d]
          /\ \A e \in Workers : pc[e] = "process" /\ mp[e] = mp[d] => e = d
      BY <3>1 DEF MsgsInv
    <3>3. \A e \in Workers : pc'[e] = "process" => pc[e] = "process" /\ mp'[e] = mp[e]
      BY <2>2
    <3> QED
      BY <2>1, <2>2, <2>6, <2>m, <3>1, <3>2, <3>3
  <2> QED
    BY <2>2, <2>5, <2>7, <2>8, <2>9 DEF MsgsInv
<1>6. ASSUME NEW c \in CvThreads, CondVar_!Enqueue(c) PROVE MsgsInv'
  <2>1. /\ next' = next + 1 /\ workq' = <<next + 1>> \o workq /\ processed' = processed
        /\ \A d \in Workers : mp'[d] = mp[d] /\ (pc'[d] = "process" => pc[d] = "process")
    BY <1>6, <1>d DEF CondVar_!Enqueue
  <2>2. PICK len \in Nat : len = Len(workq)
    BY DEF MsgsInv
  <2>3. PICK num \in Nat : num = next
    BY DEF MsgsInv
  <2>4. /\ workq \in Seq(1 .. num + 1) /\ processed \in Seq(1 .. num + 1)
        /\ DOMAIN workq = 1 .. len /\ \A j \in DOMAIN workq : workq[j] \in 1 .. num
        /\ \A j \in DOMAIN processed : processed[j] \in 1 .. num
    <3>1. workq \in Seq(1 .. num) /\ processed \in Seq(1 .. num) /\ DOMAIN workq = 1 .. len
      BY <2>2, <2>3 DEF MsgsInv
    <3>2. \A T : \A s \in Seq(T) : \A j \in DOMAIN s : s[j] \in T
      OBVIOUS
    <3>3. /\ \A j \in DOMAIN workq : workq[j] \in 1 .. num
          /\ \A j \in DOMAIN processed : processed[j] \in 1 .. num
      BY <3>1, <3>2
    <3>4. \A s \in Seq(1 .. num) : s \in Seq(1 .. num + 1)
      OBVIOUS
    <3> QED
      BY <3>1, <3>3, <3>4
  <2>5. <<num + 1>> \in Seq(1 .. num + 1) /\ Len(<<num + 1>>) = 1 /\ <<num + 1>>[1] = num + 1
    OBVIOUS
  <2>6. /\ workq' \in Seq(1 .. num + 1) /\ DOMAIN workq' = 1 .. len + 1
        /\ \A j \in 1 .. len + 1 : workq'[j] = IF j = 1 THEN num + 1 ELSE workq[j - 1]
    BY <2>1, <2>2, <2>3, <2>4, <2>5
  <2>7. \A j \in DOMAIN workq' : \/ j = 1 /\ workq'[j] = num + 1
                                 \/ j - 1 \in DOMAIN workq /\ workq'[j] = workq[j - 1]
    <3>1. \A j \in 1 .. len + 1 : j = 1 \/ j - 1 \in 1 .. len
      OBVIOUS
    <3>2. DOMAIN workq' = 1 .. len + 1 /\ DOMAIN workq = 1 .. len
      BY <2>4, <2>6
    <3>3. \A j \in 1 .. len + 1 : workq'[j] = IF j = 1 THEN num + 1 ELSE workq[j - 1]
      BY <2>6
    <3> QED
      BY <3>1, <3>2, <3>3
  <2>8. \A x \in 1 .. num : x # num + 1 /\ x \in 1 .. num + 1
    OBVIOUS
  <2>9. \A j, k \in DOMAIN workq' : workq'[j] = workq'[k] => j = k
    <3>1. \A j, k \in DOMAIN workq : workq[j] = workq[k] => j = k
      BY DEF MsgsInv
    <3>2. ASSUME NEW j \in DOMAIN workq'
          PROVE  \/ j = 1 /\ workq'[j] = num + 1
                 \/ j # 1 /\ j - 1 \in DOMAIN workq /\ workq'[j] = workq[j - 1]
                      /\ workq'[j] # num + 1
      <4>1. j = 1 \/ (j - 1 \in DOMAIN workq /\ workq'[j] = workq[j - 1])
        BY <2>7
      <4>2. CASE j = 1
        BY <2>6, <4>2
      <4>3. CASE j # 1
        <5>1. workq[j - 1] \in 1 .. num
          BY <2>4, <4>1, <4>3
        <5> QED
          BY <2>8, <4>1, <4>3, <5>1
      <4> QED
        BY <4>2, <4>3
    <3>3. ASSUME NEW j \in DOMAIN workq', NEW k \in DOMAIN workq', workq'[j] = workq'[k]
          PROVE  j = k \/ j - 1 = k - 1
      BY <3>1, <3>2, <3>3
    <3>4. \A j \in DOMAIN workq' : j \in Nat
      BY <2>6
    <3> QED
      BY <3>3, <3>4
  <2>10. \A j \in DOMAIN workq', k \in DOMAIN processed' : workq'[j] # processed'[k]
    <3>1. \A j \in DOMAIN workq, k \in DOMAIN processed : workq[j] # processed[k]
      BY DEF MsgsInv
    <3> QED
      BY <2>1, <2>4, <2>7, <2>8, <3>1
  <2>11. ASSUME NEW d \in Workers, pc'[d] = "process"
         PROVE  /\ mp'[d] \in 1 .. next'
                /\ \A j \in DOMAIN workq' : workq'[j] # mp'[d]
                /\ \A k \in DOMAIN processed' : processed'[k] # mp'[d]
                /\ \A e \in Workers : pc'[e] = "process" /\ mp'[e] = mp'[d] => e = d
    <3>1. pc[d] = "process" /\ mp'[d] = mp[d]
      BY <2>1, <2>11
    <3>2. /\ mp[d] \in 1 .. num /\ \A j \in DOMAIN workq : workq[j] # mp[d]
          /\ \A k \in DOMAIN processed : processed[k] # mp[d]
          /\ \A e \in Workers : pc[e] = "process" /\ mp[e] = mp[d] => e = d
      BY <2>3, <3>1 DEF MsgsInv
    <3> QED
      BY <2>1, <2>3, <2>7, <2>8, <3>1, <3>2
  <2>12. \A j, k \in DOMAIN processed' : processed'[j] = processed'[k] => j = k
    BY <2>1 DEF MsgsInv
  <2>13. next' \in Nat /\ workq' \in Seq(1 .. next') /\ processed' \in Seq(1 .. next')
    BY <2>1, <2>3, <2>4, <2>6
  <2> QED
    BY <2>9, <2>10, <2>11, <2>12, <2>13 DEF MsgsInv
<1> QED
  BY <1>1, <1>2, <1>3, <1>4, <1>5, <1>6, <1>d DEF CondVar_!Next

\* Each step of the programs with a condition variable keeps both.
LEMMA CondVarStep == ASSUME CondVarInv, [CondVar_!Next]_(CondVar_!vars) PROVE CondVarInv'
<1>1. CASE UNCHANGED CondVar_!vars
  BY <1>1 DEF CondVar_!vars, CondVar_!msgs, CondVar_!sigs, CondVarInv, LockInv, MsgsInv, CvThreads,
     CvPlaces
<1>2. CASE CondVar_!Next
  BY <1>2, LockInvKept, MsgsInvKept DEF CondVarInv
<1> QED
  BY <1>1, <1>2

\* LockInv and MsgsInv have what WaitsForReason asks for.
LEMMA CondVarHold == CondVarInv => CondVar_!WaitsForReason
<1> SUFFICES ASSUME LockInv, MsgsInv PROVE CondVar_!WaitsForReason
  BY DEF CondVarInv
<1> USE CondVarAssumption DEF CondVar_!Main, CondVar_!Thread
<1>1. \A c \in DOMAIN pc : pc[c] = "loopEnds" => ~ CondVar_!Empty(c) /\ lock = c
  BY DEF LockInv, CvThreads, CvPlaces, CondVar_!Empty
<1>2. \A j, k \in DOMAIN processed : processed[j] = processed[k] => j = k
  BY DEF MsgsInv
<1> QED
  BY <1>1, <1>2 DEF LockInv, CondVar_!WaitsForReason

-----------------------------------------------------------------------------
(* BarrierSort: a range whose thread is at the barrier is sorted and stays   *)
(* so; merge has taken the first numbers of each range, every one once, and  *)
(* has left none that is below one it took.                                  *)

BarRange(c) == (c - 1) * TNUM + 1 .. c * TNUM
Taken == {k \in 1 .. NTHR * TNUM : \E c \in 1 .. NTHR : k \in BarRange(c) /\ k < idx[c]}

RangesInv ==
  /\ nums \in [1 .. NTHR * TNUM -> 0 .. RandMax]
  /\ started \in Nat /\ arrived \subseteq 0 .. NTHR
  /\ \A c \in 1 .. NTHR : c \in arrived =>
       \A j, k \in BarRange(c) : j <= k => nums[j] <= nums[k]
  /\ pc \in {"merge", "done"} => arrived = 0 .. NTHR

MergeInv ==
  /\ \A c \in 1 .. NTHR : idx[c] \in (c - 1) * TNUM + 1 .. c * TNUM + 1
  /\ DOMAIN idx = 1 .. NTHR
  /\ snums \in Seq(0 .. RandMax)
  /\ \E g \in Bijection(1 .. Len(snums), Taken) : \A k \in 1 .. Len(snums) : snums[k] = nums[g[k]]
  /\ \A j \in 1 .. Len(snums) - 1 : snums[j] <= snums[j + 1]
  /\ \A j \in 1 .. Len(snums) : \A k \in 1 .. NTHR * TNUM : k \notin Taken => snums[j] <= nums[k]
  /\ pc \notin {"merge", "done"} => snums = <<>> /\ Taken = {}
  /\ pc = "done" => Len(snums) = NTHR * TNUM

\* The ranges cover nums and do not overlap.
LEMMA RangesCover ==
  /\ \A c \in 1 .. NTHR : BarRange(c) \subseteq 1 .. NTHR * TNUM
  /\ \A k \in 1 .. NTHR * TNUM : \E c \in 1 .. NTHR : k \in BarRange(c)
  /\ \A c, d \in 1 .. NTHR : c # d => BarRange(c) \cap BarRange(d) = {}
  /\ \A c \in 1 .. NTHR : (c - 1) * TNUM \in Nat /\ c * TNUM = (c - 1) * TNUM + TNUM
<1>1. PICK len \in Nat \ {0} : len = TNUM
  BY BarrierAssumption
<1>2. PICK num \in Nat \ {0} : num = NTHR
  BY BarrierAssumption
<1>3. \A c \in 1 .. num : (c - 1) * len \in Nat /\ c * len = (c - 1) * len + len
  <2>1. ASSUME NEW c \in 1 .. num PROVE (c - 1) * len \in Nat /\ c * len = (c - 1) * len + len
    <3>1. PICK x \in Nat : x = c - 1
      OBVIOUS
    <3>2. x * len \in Nat /\ (x + 1) * len = x * len + len
      OBVIOUS
    <3> QED
      BY <3>1, <3>2
  <2> QED
    BY <2>1
<1>4. ASSUME NEW c \in Nat, NEW d \in Nat, c <= d PROVE c * len <= d * len
  <2>1. PICK x \in Nat : d = c + x
    <3>1. d - c \in Nat /\ d = c + (d - c)
      BY <1>4
    <3> QED
      BY <3>1
  <2>2. (c + x) * len = c * len + x * len /\ x * len \in Nat /\ c * len \in Nat
    OBVIOUS
  <2> QED
    BY <2>1, <2>2
<1>5. \A c \in 1 .. NTHR : BarRange(c) \subseteq 1 .. NTHR * TNUM
  <2>1. ASSUME NEW c \in 1 .. num, NEW k \in (c - 1) * len + 1 .. c * len
          PROVE k \in 1 .. num * len
    <3>1. (c - 1) * len \in Nat /\ c * len \in Nat /\ c * len <= num * len /\ num * len \in Nat
      BY <1>3, <1>4
    <3> QED
      BY <3>1
  <2> QED
    BY <1>1, <1>2, <2>1 DEF BarRange
<1>6. \A k \in 1 .. NTHR * TNUM : \E c \in 1 .. NTHR : k \in BarRange(c)
  <2>1. ASSUME NEW k \in 1 .. num * len
        PROVE  \E c \in 1 .. num : k \in (c - 1) * len + 1 .. c * len
    <3>1. num * len \in Nat
      OBVIOUS
    <3>2. PICK x \in Nat : x = k - 1
      BY <3>1
    <3>3. x \div len \in Nat /\ x % len \in 0 .. len - 1 /\ (x \div len) * len + (x % len) = x
      BY Z3
    <3>4. PICK q \in Nat : q = x \div len
      BY <3>3
    <3>5. q * len <= x /\ x < q * len + len /\ q * len \in Nat
      BY <3>3, <3>4
    <3>6. q < num
      <4>1. CASE q >= num
        BY <1>4, <3>1, <3>2, <3>5, <4>1
      <4> QED
        BY <4>1
    <3>7. q + 1 \in 1 .. num /\ (q + 1) - 1 = q /\ (q + 1) * len = q * len + len
      BY <3>6
    <3>8. k \in q * len + 1 .. q * len + len
      BY <3>1, <3>2, <3>5
    <3> QED
      BY <3>7, <3>8
  <2> QED
    BY <1>1, <1>2, <2>1 DEF BarRange
<1>7. \A c, d \in 1 .. NTHR : c # d => BarRange(c) \cap BarRange(d) = {}
  <2>1. ASSUME NEW c \in 1 .. num, NEW d \in 1 .. num, c < d,
               NEW k \in (c - 1) * len + 1 .. c * len, k \in (d - 1) * len + 1 .. d * len
        PROVE  FALSE
    <3>1. c * len <= (d - 1) * len
      BY <1>4, <2>1
    <3>2. (c - 1) * len \in Nat /\ c * len \in Nat /\ (d - 1) * len \in Nat /\ d * len \in Nat
      BY <1>3
    <3> QED
      BY <2>1, <3>1, <3>2
  <2>2. \A c, d \in 1 .. num : c # d => c < d \/ d < c
    OBVIOUS
  <2> QED
    BY <1>1, <1>2, <2>1, <2>2 DEF BarRange
<1> QED
  BY <1>1, <1>2, <1>3, <1>5, <1>6, <1>7

\* What merge has taken is a matter of its positions only.
LEMMA TakenSame == ASSUME UNCHANGED idx PROVE Taken' = Taken
BY DEF Taken, BarRange

BarrierInv == RangesInv /\ MergeInv

\* Before the merge nothing is sorted or taken.
LEMMA BarrierInit == BarrierSort_!Init => BarrierInv
<1> SUFFICES ASSUME BarrierSort_!Init PROVE BarrierInv
  OBVIOUS
<1>1. RangesInv
  BY BarrierAssumption DEF BarrierSort_!Init, BarrierSort_!NUMNUM, RangesInv
<1>2. idx = [c \in 1 .. NTHR |-> (c - 1) * TNUM + 1] /\ snums = <<>> /\ pc = "create"
  BY DEF BarrierSort_!Init
<1>3. \A c \in 1 .. NTHR : idx[c] \in (c - 1) * TNUM + 1 .. c * TNUM + 1
  <2>1. ASSUME NEW c \in 1 .. NTHR PROVE idx[c] \in (c - 1) * TNUM + 1 .. c * TNUM + 1
    <3>1. idx[c] = (c - 1) * TNUM + 1
      BY <1>2
    <3>2. (c - 1) * TNUM \in Nat /\ c * TNUM = (c - 1) * TNUM + TNUM /\ TNUM \in Nat
      BY RangesCover, BarrierAssumption
    <3> QED
      BY <3>1, <3>2
  <2> QED
    BY <2>1
<1>4. Taken = {}
  <2>1. ASSUME NEW c \in 1 .. NTHR, NEW k \in BarRange(c), k < idx[c] PROVE FALSE
    <3>1. idx[c] = (c - 1) * TNUM + 1 /\ (c - 1) * TNUM \in Nat /\ c * TNUM \in Nat
      BY <1>2, RangesCover, BarrierAssumption
    <3> QED
      BY <2>1, <3>1 DEF BarRange
  <2> QED
    BY <2>1 DEF Taken
<1>5. \E g \in Bijection(1 .. Len(snums), Taken) : \A k \in 1 .. Len(snums) : snums[k] = nums[g[k]]
  <2>1. 1 .. Len(snums) = {}
    BY <1>2
  <2>2. [k \in {} |-> k] \in Bijection({}, {})
    BY DEF Bijection, Injection, Surjection, IsInjective
  <2> QED
    BY <1>4, <2>1, <2>2
<1>6. MergeInv
  <2>1. snums \in Seq(0 .. RandMax) /\ Len(snums) = 0
    BY <1>2
  <2> QED
    BY <1>2, <1>3, <1>4, <1>5, <2>1 DEF MergeInv
<1> QED
  BY <1>1, <1>6 DEF BarrierInv

\* A step that is none of merge's leaves what it has taken.
LEMMA MergeLater ==
  ASSUME MergeInv, UNCHANGED <<idx, snums>>, pc \notin {"merge", "done"} \/ UNCHANGED <<nums, pc>>,
         pc' = "done" => pc = "done"
  PROVE  MergeInv'
<1>0. Taken' = Taken
  BY TakenSame
<1>1. CASE pc \notin {"merge", "done"}
  <2>1. snums = <<>> /\ Taken = {}
    BY <1>1 DEF MergeInv
  <2>2. Len(snums) = 0
    BY <2>1
  <2>3. \E g \in Bijection(1 .. Len(snums),
          Taken) : \A k \in 1 .. Len(snums) : snums[k] = nums'[g[k]]
    <3>1. PICK g : g \in Bijection(1 .. Len(snums), Taken)
      BY DEF MergeInv
    <3> QED
      BY <2>2, <3>1
  <2> QED
    BY <1>0, <1>1, <2>1, <2>2, <2>3 DEF MergeInv
<1>2. CASE UNCHANGED <<nums, pc>>
  BY <1>0, <1>2 DEF MergeInv
<1> QED
  BY <1>1, <1>2

\* The minimum that merge finds: of a head that no head is below.
LEMMA MinIdxIs ==
  ASSUME RangesInv, MergeInv, BarrierSort_!Heads # {}
  PROVE  /\ BarrierSort_!minidx \in BarrierSort_!Heads
         /\ \A k \in BarrierSort_!Heads : nums[idx[BarrierSort_!minidx]] <= nums[idx[k]]
<1> DEFINE H == BarrierSort_!Heads
           V == {nums[idx[c]] : c \in H}
<1>1. \A c \in H : c \in Nat /\ nums[idx[c]] \in Nat
  <2>1. \A c \in H : c \in 1 .. NTHR /\ idx[c] \in BarRange(c)
    BY DEF BarrierSort_!Heads, BarrierSort_!Range0, BarRange
  <2>2. \A c \in H : idx[c] \in 1 .. NTHR * TNUM
    BY <2>1, RangesCover
  <2> QED
    BY <2>1, <2>2 DEF RangesInv
<1>2. PICK c \in H : \A k \in H : nums[idx[c]] <= nums[idx[k]]
  <2>1. V \in SUBSET Nat /\ V # {}
    BY <1>1
  <2>2. PICK x \in V : \A y \in V : x <= y
    BY <2>1, LeastOne
  <2> QED
    BY <2>2
<1> DEFINE E == {d \in H : nums[idx[d]] = nums[idx[c]]}
<1>3. E \in SUBSET Nat /\ E # {}
  BY <1>1, <1>2
<1>4. PICK d \in E : \A e \in E : d <= e
  <2> HIDE DEF E
  <2> QED
    BY <1>3, LeastOne
<1> DEFINE First(e) == \A k \in H : \/ nums[idx[e]] < nums[idx[k]]
                                    \/ nums[idx[e]] = nums[idx[k]] /\ e <= k
<1>5. First(d)
  <2>1. ASSUME NEW k \in H PROVE \/ nums[idx[d]] < nums[idx[k]]
                                 \/ nums[idx[d]] = nums[idx[k]] /\ d <= k
    <3>1. nums[idx[d]] = nums[idx[c]] /\ nums[idx[c]] <= nums[idx[k]] /\ d \in H
      BY <1>2
    <3>2. CASE nums[idx[k]] = nums[idx[c]]
      BY <1>4, <3>1, <3>2
    <3>3. CASE nums[idx[k]] # nums[idx[c]]
      BY <1>1, <3>1, <3>3
    <3> QED
      BY <3>2, <3>3
  <2> QED
    BY <2>1
<1>6. d \in H
  OBVIOUS
<1>7. BarrierSort_!minidx = CHOOSE e \in H : First(e)
  BY DEF BarrierSort_!minidx
<1> HIDE DEF First, H, E
<1>8. BarrierSort_!minidx \in H /\ First(BarrierSort_!minidx)
  BY <1>5, <1>6, <1>7
<1> QED
  <2>1. ASSUME NEW k \in H PROVE nums[idx[BarrierSort_!minidx]] <= nums[idx[k]]
    BY <1>1, <1>8, <2>1 DEF First
  <2> QED
    BY <1>8, <2>1 DEF H

\* While a number is left, a range has a head for merge.
LEMMA HeadIsLeft ==
  ASSUME RangesInv, MergeInv, Len(snums) < NTHR * TNUM PROVE BarrierSort_!Heads # {}
<1>1. PICK len \in Nat : len = Len(snums)
  BY DEF MergeInv
<1>2. PICK num \in Nat : num = NTHR * TNUM
  BY BarrierAssumption
<1>3. IsFiniteSet(Taken) /\ Cardinality(Taken) = len
  <2>1. IsFiniteSet(1 .. len) /\ Cardinality(1 .. len) = len
    BY FS_Interval
  <2>2. ExistsBijection(1 .. len, Taken)
    BY <1>1 DEF MergeInv, ExistsBijection
  <2> QED
    BY <2>1, <2>2, FS_Bijection
<1>4. Cardinality(1 .. num) = num
  BY FS_Interval
<1>5. PICK k \in 1 .. num : k \notin Taken
  <2>1. CASE 1 .. num \subseteq Taken
    <3>1. Taken \subseteq 1 .. num
      BY <1>2 DEF Taken
    <3>2. Taken = 1 .. num
      BY <2>1, <3>1
    <3> QED
      BY <1>1, <1>2, <1>3, <1>4, <3>2
  <2> QED
    BY <2>1
<1>6. PICK c \in 1 .. NTHR : k \in BarRange(c)
  BY <1>2, <1>5, RangesCover
<1>7. ~(k < idx[c])
  BY <1>2, <1>5, <1>6 DEF Taken
<1>8. idx[c] \in BarRange(c)
  <2>1. PICK x \in Nat : x = (c - 1) * TNUM
    BY <1>6, RangesCover
  <2>2. PICK y \in Nat : y = c * TNUM
    BY <1>6, RangesCover, BarrierAssumption
  <2>3. idx[c] \in x + 1 .. y + 1 /\ k \in x + 1 .. y
    BY <1>6, <2>1, <2>2 DEF MergeInv, BarRange
  <2>4. idx[c] \in x + 1 .. y
    BY <1>7, <2>3
  <2> QED
    BY <2>1, <2>2, <2>4 DEF BarRange
<1>9. nums[idx[c]] < LongMax
  <2>1. idx[c] \in 1 .. NTHR * TNUM
    BY <1>6, <1>8, RangesCover
  <2>2. nums[idx[c]] \in 0 .. RandMax
    BY <2>1 DEF RangesInv
  <2> QED
    BY <2>2, BarrierAssumption
<1>10. c \in BarrierSort_!Heads
  BY <1>6, <1>8, <1>9 DEF BarrierSort_!Heads, BarrierSort_!Range0, BarRange
<1> QED
  BY <1>10

\* The next position of the range that merge takes from is the one it has not taken.
LEMMA TakenGrows ==
  ASSUME MergeInv, NEW c \in 1 .. NTHR, idx[c] \in BarRange(c),
         idx' = [idx EXCEPT ![c] = @ + 1]
  PROVE  /\ Taken' = Taken \cup {idx[c]}
         /\ idx[c] \in 1 .. NTHR * TNUM /\ idx[c] \notin Taken
<1>1. idx[c] \in 1 .. NTHR * TNUM
  BY RangesCover
<1>2. \A d \in 1 .. NTHR : d # c => idx[c] \notin BarRange(d)
  BY RangesCover
<1>3. \A d \in 1 .. NTHR : idx'[d] = IF d = c THEN idx[c] + 1 ELSE idx[d]
  BY DEF MergeInv
<1>4. idx[c] \notin Taken
  BY <1>1, <1>2 DEF Taken
<1>5. \A d \in 1 .. NTHR : BarRange(d)' = BarRange(d)
  BY DEF BarRange
<1>6. \A d \in 1 .. NTHR : BarRange(d) \subseteq 1 .. NTHR * TNUM
  BY RangesCover
<1>7. ASSUME NEW k \in 1 .. NTHR * TNUM PROVE k \in Taken' <=> k \in Taken \/ k = idx[c]
  <2>1. PICK x \in Nat : x = NTHR * TNUM
    BY BarrierAssumption
  <2>2. k \in Nat /\ idx[c] \in Nat
    BY <1>1, <2>1
  <2>3. k < idx[c] + 1 <=> k < idx[c] \/ k = idx[c]
    BY <2>2
  <2> QED
    BY <1>1, <1>3, <1>5, <2>3 DEF Taken
<1>8. Taken \subseteq 1 .. NTHR * TNUM /\ Taken' \subseteq 1 .. NTHR * TNUM
  BY DEF Taken
<1> QED
  BY <1>1, <1>4, <1>7, <1>8

\* A step of merge keeps MergeInv.
LEMMA MergeStepKeeps == ASSUME RangesInv, MergeInv, BarrierSort_!merge PROVE MergeInv'
<1>0. PICK num \in Nat : num = NTHR * TNUM
  BY BarrierAssumption
<1>l. PICK len \in Nat : len = Len(snums)
  BY DEF MergeInv
<1>n. BarrierSort_!NUMNUM = num
  BY <1>0 DEF BarrierSort_!NUMNUM
<1>1. CASE len = num
  <2>1. UNCHANGED <<snums, idx, nums>> /\ pc' = "done" /\ pc = "merge"
    BY <1>1, <1>l, <1>n DEF BarrierSort_!merge
  <2>2. Taken' = Taken
    BY <2>1, TakenSame
  <2> QED
    BY <1>0, <1>1, <1>l, <2>1, <2>2 DEF MergeInv
<1>2. CASE len # num
  <2> DEFINE c == BarrierSort_!minidx
             p == idx[c]
             v == nums[p]
  <2>1. /\ snums' = Append(snums, v) /\ idx' = [idx EXCEPT ![c] = @ + 1]
        /\ UNCHANGED <<nums, pc>> /\ pc = "merge"
    BY <1>2, <1>l, <1>n DEF BarrierSort_!merge
  <2>2. len < num
    <3>1. PICK g \in Bijection(1 .. len, Taken) : TRUE
      BY <1>l DEF MergeInv
    <3>2. Cardinality(1 .. len) = len /\ IsFiniteSet(1 .. len)
          /\ Cardinality(1 .. num) = num /\ IsFiniteSet(1 .. num)
      BY FS_Interval
    <3>3. Cardinality(Taken) = len
      BY <3>1, <3>2, FS_Bijection DEF ExistsBijection
    <3>4. Taken \in SUBSET (1 .. num)
      BY <1>0 DEF Taken
    <3>5. Cardinality(Taken) <= Cardinality(1 .. num)
      BY <3>2, <3>4, FS_Subset
    <3> QED
      BY <1>2, <3>2, <3>3, <3>5
  <2>3. /\ c \in BarrierSort_!Heads
        /\ \A k \in BarrierSort_!Heads : v <= nums[idx[k]]
    BY <1>0, <1>l, <2>2, HeadIsLeft, MinIdxIs
  <2>4. c \in 1 .. NTHR /\ p \in BarRange(c)
    BY <2>3 DEF BarrierSort_!Heads, BarrierSort_!Range0, BarRange
  <2>5. Taken' = Taken \cup {p} /\ p \in 1 .. num /\ p \notin Taken
    <3> HIDE DEF c
    <3> QED
      BY <1>0, <2>1, <2>4, TakenGrows
  <2>6. v \in 0 .. RandMax
    BY <1>0, <2>5 DEF RangesInv
  <2>7. \A d \in 1 .. NTHR : idx'[d] \in (d - 1) * TNUM + 1 .. d * TNUM + 1
    <3> HIDE DEF c
    <3>1. ASSUME NEW d \in 1 .. NTHR PROVE idx'[d] \in (d - 1) * TNUM + 1 .. d * TNUM + 1
      <4>1. PICK x \in Nat : x = (d - 1) * TNUM
        BY RangesCover
      <4>2. PICK y \in Nat : y = d * TNUM
        BY RangesCover, BarrierAssumption
      <4>3. idx[d] \in x + 1 .. y + 1
        BY <4>1, <4>2 DEF MergeInv
      <4>4. CASE d = c
        <5>1. idx'[d] = idx[d] + 1 /\ idx[d] \in x + 1 .. y
          BY <2>1, <2>4, <4>1, <4>2, <4>4 DEF MergeInv, BarRange
        <5> QED
          BY <4>1, <4>2, <5>1
      <4>5. CASE d # c
        <5>1. idx'[d] = idx[d]
          BY <2>1, <4>5 DEF MergeInv
        <5> QED
          BY <4>1, <4>2, <4>3, <5>1
      <4> QED
        BY <4>4, <4>5
    <3> QED
      BY <3>1
  <2>8. DOMAIN idx' = 1 .. NTHR
    BY <2>1 DEF MergeInv
  <2> HIDE DEF p, v, c
  <2>9. /\ snums' \in Seq(0 .. RandMax) /\ Len(snums') = len + 1
        /\ \A k \in 1 .. len + 1 : snums'[k] = IF k = len + 1 THEN v ELSE snums[k]
    BY <1>l, <2>1, <2>6 DEF MergeInv
  <2>10. \E g \in Bijection(1 .. len + 1, Taken') :
            \A k \in 1 .. len + 1 : snums'[k] = nums'[g[k]]
    <3>1. PICK g \in Bijection(1 .. len, Taken) : \A k \in 1 .. len : snums[k] = nums[g[k]]
      BY <1>l DEF MergeInv
    <3> DEFINE h == [k \in 1 .. len + 1 |-> IF k = len + 1 THEN p ELSE g[k]]
    <3>2. /\ g \in [1 .. len -> Taken] /\ \A j, k \in 1 .. len : g[j] = g[k] => j = k
          /\ \A x \in Taken : \E k \in 1 .. len : g[k] = x
      BY <3>1 DEF Bijection, Injection, Surjection, IsInjective
    <3>3. \A k \in 1 .. len + 1 : k # len + 1 => k \in 1 .. len
      OBVIOUS
    <3>4. h \in [1 .. len + 1 -> Taken']
      BY <2>5, <3>2, <3>3
    <3>5. \A j, k \in 1 .. len + 1 : h[j] = h[k] => j = k
      BY <2>5, <3>2, <3>3
    <3>6. \A x \in Taken' : \E k \in 1 .. len + 1 : h[k] = x
      <4>1. ASSUME NEW x \in Taken PROVE \E k \in 1 .. len + 1 : h[k] = x
        <5>1. PICK k \in 1 .. len : g[k] = x
          BY <3>2
        <5>2. k \in 1 .. len + 1 /\ k # len + 1
          OBVIOUS
        <5> QED
          BY <5>1, <5>2
      <4>2. len + 1 \in 1 .. len + 1 /\ h[len + 1] = p
        OBVIOUS
      <4> QED
        BY <2>5, <4>1, <4>2
    <3>7. \A k \in 1 .. len + 1 : snums'[k] = nums'[h[k]]
      BY <2>1, <2>9, <3>1, <3>3 DEF v
    <3> HIDE DEF h
    <3>8. h \in Bijection(1 .. len + 1, Taken')
      BY <3>4, <3>5, <3>6 DEF Bijection, Injection, Surjection, IsInjective
    <3> QED
      BY <3>7, <3>8
  <2>11. \A j \in 1 .. len : snums[j] <= v
    BY <1>0, <1>l, <2>5 DEF MergeInv, v
  <2>12. \A j \in 1 .. len : snums'[j] <= snums'[j + 1]
    <3>1. ASSUME NEW j \in 1 .. len PROVE snums'[j] <= snums'[j + 1]
      <4>1. snums'[j] = snums[j]
        BY <2>9
      <4>2. CASE j = len
        BY <2>9, <2>11, <4>1, <4>2
      <4>3. CASE j # len
        <5>1. j \in 1 .. len - 1 /\ j + 1 \in 1 .. len + 1 /\ j + 1 # len + 1
          BY <4>3
        <5>2. snums[j] <= snums[j + 1]
          BY <1>l, <5>1 DEF MergeInv
        <5> QED
          BY <2>9, <4>1, <5>1, <5>2
      <4> QED
        BY <4>2, <4>3
    <3> QED
      BY <3>1
  <2>13. \A k \in 1 .. num : k \notin Taken => v <= nums[k]
    <3>1. ASSUME NEW k \in 1 .. num, k \notin Taken PROVE v <= nums[k]
      <4>1. PICK d \in 1 .. NTHR : k \in BarRange(d)
        BY <1>0, RangesCover
      <4>2. ~(k < idx[d])
        BY <1>0, <3>1, <4>1 DEF Taken
      <4>3. PICK x \in Nat : x = (d - 1) * TNUM
        BY RangesCover
      <4>4. PICK y \in Nat : y = d * TNUM
        BY RangesCover, BarrierAssumption
      <4>5. idx[d] \in x + 1 .. y + 1 /\ k \in x + 1 .. y
        BY <4>1, <4>3, <4>4 DEF MergeInv, BarRange
      <4>6. idx[d] \in x + 1 .. y /\ idx[d] <= k
        BY <4>2, <4>5
      <4>7. idx[d] \in BarRange(d) /\ idx[d] \in 1 .. num
        BY <1>0, <4>3, <4>4, <4>6, RangesCover DEF BarRange
      <4>8. d \in arrived
        BY <2>1 DEF RangesInv
      <4>9. nums[idx[d]] <= nums[k]
        BY <4>1, <4>6, <4>7, <4>8 DEF RangesInv
      <4>10. nums[idx[d]] \in 0 .. RandMax /\ nums[k] \in 0 .. RandMax
        BY <1>0, <4>7 DEF RangesInv
      <4>11. d \in BarrierSort_!Heads
        BY <4>7, <4>10, BarrierAssumption DEF BarrierSort_!Heads, BarrierSort_!Range0, BarRange
      <4>12. v <= nums[idx[d]]
        BY <2>3, <4>11
      <4> QED
        BY <2>6, <4>9, <4>10, <4>12
    <3> QED
      BY <3>1
  <2>14. \A j \in 1 .. len + 1 : \A k \in 1 .. num : k \notin Taken' => snums'[j] <= nums'[k]
    <3>1. ASSUME NEW j \in 1 .. len + 1, NEW k \in 1 .. num, k \notin Taken'
            PROVE snums'[j] <= nums'[k]
      <4>1. k \notin Taken /\ nums'[k] = nums[k]
        BY <2>1, <2>5, <3>1
      <4>2. CASE j = len + 1
        BY <2>9, <2>13, <4>1, <4>2
      <4>3. CASE j # len + 1
        <5>1. j \in 1 .. len /\ snums'[j] = snums[j]
          BY <2>9, <4>3
        <5> QED
          BY <1>0, <1>l, <4>1, <5>1 DEF MergeInv
      <4> QED
        BY <4>2, <4>3
    <3> QED
      BY <3>1
  <2>15. (len + 1) - 1 = len
    OBVIOUS
  <2> QED
    BY <1>0, <2>1, <2>7, <2>8, <2>9, <2>10, <2>12, <2>14, <2>15 DEF MergeInv
<1> QED
  BY <1>1, <1>2

\* A thread sorts its own range, which no range at the barrier shares.
LEMMA SortKeeps ==
  ASSUME RangesInv, NEW c \in 1 .. NTHR, BarrierSort_!thr_fn(c), pc \notin {"merge", "done"}
  PROVE  RangesInv'
<1>1. PICK p \in Bijection(BarRange(c), BarRange(c)) :
        /\ \A j, k \in BarRange(c) : j <= k => nums[p[j]] <= nums[p[k]]
        /\ nums' = [k \in DOMAIN nums |-> IF k \in BarRange(c) THEN nums[p[k]] ELSE nums[k]]
  <2>1. BarrierSort_!Bijection(BarRange(c), BarRange(c)) = Bijection(BarRange(c), BarRange(c))
    BY DEF BarrierSort_!Bijection, BarrierSort_!Injection, BarrierSort_!Surjection,
       BarrierSort_!IsInjective, Bijection, Injection, Surjection, IsInjective
  <2>2. BarrierSort_!Range0(c) = BarRange(c)
    BY DEF BarrierSort_!Range0, BarRange
  <2>3. \E p \in BarrierSort_!Bijection(BarrierSort_!Range0(c), BarrierSort_!Range0(c)) :
          /\ BarrierSort_!InOrder(c, p)
          /\ nums' = [k \in DOMAIN nums |->
                        IF k \in BarrierSort_!Range0(c) THEN nums[p[k]] ELSE nums[k]]
    BY DEF BarrierSort_!thr_fn
  <2> QED
    BY <2>1, <2>2, <2>3 DEF BarrierSort_!InOrder
<1>2. /\ arrived' = arrived \cup {c} /\ started' = started /\ pc' = pc
  BY DEF BarrierSort_!thr_fn
<1>3. BarRange(c) \subseteq 1 .. NTHR * TNUM
  BY RangesCover
<1>4. \A k \in BarRange(c) : p[k] \in BarRange(c)
  BY <1>1 DEF Bijection, Injection
<1>5. nums' \in [1 .. NTHR * TNUM -> 0 .. RandMax]
  BY <1>1, <1>3, <1>4 DEF RangesInv
<1>6. \A k \in 1 .. NTHR * TNUM : nums'[k] = IF k \in BarRange(c) THEN nums[p[k]] ELSE nums[k]
  BY <1>1 DEF RangesInv
<1>7. ASSUME NEW d \in 1 .. NTHR, d \in arrived'
      PROVE  \A j, k \in BarRange(d) : j <= k => nums'[j] <= nums'[k]
  <2>0. BarRange(d) \subseteq 1 .. NTHR * TNUM
    BY RangesCover
  <2>1. CASE d = c
    BY <1>1, <1>3, <1>6, <2>1
  <2>2. CASE d # c
    <3>1. \A k \in BarRange(d) : nums'[k] = nums[k]
      BY <1>6, <2>0, <2>2, RangesCover
    <3>2. d \in arrived
      BY <1>2, <1>7, <2>2
    <3> QED
      BY <3>1, <3>2 DEF RangesInv
  <2> QED
    BY <2>1, <2>2
<1>8. \A d : BarRange(d)' = BarRange(d)
  BY DEF BarRange
<1>9. arrived' \subseteq 0 .. NTHR
  <2>1. c \in 0 .. NTHR
    BY BarrierAssumption
  <2> QED
    BY <1>2, <2>1 DEF RangesInv
<1> QED
  BY <1>2, <1>5, <1>7, <1>8, <1>9 DEF RangesInv

\* A step that leaves nums alone keeps the ranges sorted.
LEMMA RangesLater ==
  ASSUME RangesInv, nums' = nums, started' \in Nat,
         \/ arrived' = arrived \/ arrived' = arrived \cup {0},
         pc' \in {"merge", "done"} => arrived' = 0 .. NTHR
  PROVE  RangesInv'
<1>1. arrived' \subseteq 0 .. NTHR
  <2>1. 0 \in 0 .. NTHR
    BY BarrierAssumption
  <2> QED
    BY <2>1 DEF RangesInv
<1>2. \A c \in 1 .. NTHR : c \in arrived' => c \in arrived
  BY BarrierAssumption
<1>3. \A c : BarRange(c)' = BarRange(c)
  BY DEF BarRange
<1> QED
  BY <1>1, <1>2, <1>3 DEF RangesInv

\* Each step of the parallel sort keeps both.
LEMMA BarrierStep == ASSUME BarrierInv, [BarrierSort_!Next]_(BarrierSort_!vars) PROVE BarrierInv'
<1>0. RangesInv /\ MergeInv
  BY DEF BarrierInv
<1>1. CASE UNCHANGED BarrierSort_!vars
  <2>1. UNCHANGED <<nums, snums, started, arrived, pc, idx>>
    BY <1>1 DEF BarrierSort_!vars
  <2>2. started' \in Nat /\ (pc' \in {"merge", "done"} => arrived' = 0 .. NTHR)
    BY <1>0, <2>1 DEF RangesInv
  <2> QED
    BY <1>0, <2>1, <2>2, RangesLater, MergeLater DEF BarrierInv
<1>2. CASE BarrierSort_!Create
  <2>1. /\ UNCHANGED <<nums, snums, arrived, idx>> /\ started' \in Nat
        /\ pc = "create" /\ pc' \in {"create", "wait", "failed"}
    BY <1>0, <1>2 DEF BarrierSort_!Create, RangesInv
  <2> QED
    BY <1>0, <2>1, RangesLater, MergeLater DEF BarrierInv
<1>3. CASE BarrierSort_!Wait
  <2>1. /\ UNCHANGED <<nums, snums, started, idx>> /\ started' \in Nat
        /\ arrived' = arrived \cup {0} /\ pc = "wait" /\ pc' = "barrier"
    BY <1>0, <1>3 DEF BarrierSort_!Wait, RangesInv
  <2> QED
    BY <1>0, <2>1, RangesLater, MergeLater DEF BarrierInv
<1>4. CASE BarrierSort_!Pass
  <2>1. /\ UNCHANGED <<nums, snums, started, arrived, idx>> /\ started' \in Nat
        /\ arrived = 0 .. NTHR /\ pc = "barrier" /\ pc' = "merge"
    BY <1>0, <1>4 DEF BarrierSort_!Pass, RangesInv
  <2> QED
    BY <1>0, <2>1, RangesLater, MergeLater DEF BarrierInv
<1>5. CASE BarrierSort_!merge
  <2>1. UNCHANGED <<nums, started, arrived>> /\ pc = "merge"
    BY <1>5 DEF BarrierSort_!merge
  <2>2. started' \in Nat /\ arrived' = 0 .. NTHR
    BY <1>0, <2>1 DEF RangesInv
  <2> QED
    BY <1>0, <1>5, <2>1, <2>2, RangesLater, MergeStepKeeps DEF BarrierInv
<1>6. ASSUME NEW c \in 1 .. NTHR, BarrierSort_!thr_fn(c) PROVE BarrierInv'
  <2>1. c \notin arrived /\ UNCHANGED <<snums, started, pc, idx>>
    BY <1>6 DEF BarrierSort_!thr_fn
  <2>2. pc \notin {"merge", "done"}
    BY <1>0, <2>1, BarrierAssumption DEF RangesInv
  <2> QED
    BY <1>0, <1>6, <2>1, <2>2, SortKeeps, MergeLater DEF BarrierInv
<1> QED
  BY <1>1, <1>2, <1>3, <1>4, <1>5, <1>6 DEF BarrierSort_!Next

\* A rearrangement holds each number as often.
LEMMA CountsAgree ==
  ASSUME NEW len \in Nat, NEW f \in Seq(Nat), NEW g, NEW h \in Bijection(1 .. len, 1 .. len),
         Len(f) = len, DOMAIN g = 1 .. len, \A k \in 1 .. len : f[k] = g[h[k]], NEW x
  PROVE  BarrierSort_!Count(f, x) = BarrierSort_!Count(g, x)
<1> DEFINE S == {k \in DOMAIN f : f[k] = x}
           T == {k \in DOMAIN g : g[k] = x}
<1>1. DOMAIN f = 1 .. len
  OBVIOUS
<1>2. /\ h \in [1 .. len -> 1 .. len] /\ \A j, k \in 1 .. len : h[j] = h[k] => j = k
      /\ \A y \in 1 .. len : \E k \in 1 .. len : h[k] = y
  BY DEF Bijection, Injection, Surjection, IsInjective
<1>3. S \in SUBSET (1 .. len) /\ IsFiniteSet(S)
  <2>1. S \in SUBSET (1 .. len)
    BY <1>1
  <2>2. IsFiniteSet(1 .. len)
    BY FS_Interval
  <2> QED
    BY <2>1, <2>2, FS_Subset
<1> DEFINE r == [k \in S |-> h[k]]
<1>4. r \in Bijection(S, T)
  <2>1. r \in [S -> T]
    BY <1>1, <1>2
  <2>2. \A j, k \in S : r[j] = r[k] => j = k
    BY <1>1, <1>2
  <2>3. \A y \in T : \E k \in S : r[k] = y
    BY <1>1, <1>2
  <2> HIDE DEF r, S, T
  <2> QED
    BY <2>1, <2>2, <2>3 DEF Bijection, Injection, Surjection, IsInjective
<1> HIDE DEF r, S, T
<1>5. Cardinality(S) = Cardinality(T)
  BY <1>3, <1>4, FS_Bijection DEF ExistsBijection
<1>6. BarrierSort_!Count(f, x) = Cardinality(S) /\ BarrierSort_!Count(g, x) = Cardinality(T)
  <2>1. ASSUME NEW U PROVE BarrierSort_!Cardinality(U) = Cardinality(U)
    BY Zenon DEF BarrierSort_!Cardinality, Cardinality
  <2> QED
    BY <2>1, Zenon DEF BarrierSort_!Count, S, T
<1> QED
  BY <1>5, <1>6

\* RangesInv and MergeInv have what MergeSorts asks for.
LEMMA BarrierHold == BarrierInv => BarrierSort_!MergeSorts
<1> SUFFICES ASSUME RangesInv, MergeInv PROVE BarrierSort_!MergeSorts
  BY DEF BarrierInv
<1>0. PICK num \in Nat : num = NTHR * TNUM
  BY BarrierAssumption
<1>n. BarrierSort_!NUMNUM = num
  BY <1>0 DEF BarrierSort_!NUMNUM
<1>1. ASSUME pc = "merge", NEW c \in 1 .. NTHR PROVE BarrierSort_!Sorted(BarrierSort_!Part(c))
  <2>1. PICK x \in Nat : x = (c - 1) * TNUM
    BY RangesCover
  <2>2. PICK len \in Nat : len = TNUM
    BY BarrierAssumption
  <2>3. c * TNUM = x + len /\ BarRange(c) = x + 1 .. x + len
    BY <2>1, <2>2, RangesCover DEF BarRange
  <2>4. BarrierSort_!Part(c) = SubSeq(nums, x + 1, x + len)
    BY <2>1, <2>3 DEF BarrierSort_!Part
  <2>5. \A k \in x + 1 .. x + len : nums[k] \in 0 .. RandMax
    BY <2>3, RangesCover DEF RangesInv
  <2>6. /\ Len(SubSeq(nums, x + 1, x + len)) = len
        /\ \A k \in 1 .. len : SubSeq(nums, x + 1, x + len)[k] = nums[x + k]
    <3>1. x + 1 \in Int /\ x + len \in Int /\ (x + len) - (x + 1) + 1 = len
          /\ (len # 0 => x + 1 <= x + len)
      OBVIOUS
    <3>2. /\ Len(SubSeq(nums, x + 1, x + len)) =
               IF x + 1 <= x + len THEN (x + len) - (x + 1) + 1 ELSE 0
          /\ \A k \in 1 .. (x + len) - (x + 1) + 1 :
               SubSeq(nums, x + 1, x + len)[k] = nums[(x + 1) + k - 1]
      BY <2>5, <3>1, SubSeqProperties
    <3>3. \A k \in 1 .. len : (x + 1) + k - 1 = x + k
      OBVIOUS
    <3> QED
      BY <3>1, <3>2, <3>3
  <2>7. \A k \in 1 .. len - 1 : nums[x + k] <= nums[x + (k + 1)]
    <3>1. c \in arrived
      BY <1>1 DEF RangesInv
    <3>2. \A k \in 1 .. len - 1 : x + k \in x + 1 .. x + len /\ x + (k + 1) \in x + 1 .. x + len
                                  /\ x + k <= x + (k + 1)
      OBVIOUS
    <3> QED
      BY <2>3, <3>1, <3>2 DEF RangesInv
  <2>8. \A k \in 1 .. len - 1 : k \in 1 .. len /\ k + 1 \in 1 .. len
    OBVIOUS
  <2> QED
    BY <2>4, <2>6, <2>7, <2>8 DEF BarrierSort_!Sorted
<1>2. Len(snums) < num => BarrierSort_!Heads # {}
  BY <1>0, HeadIsLeft
<1>3. BarrierSort_!Sorted(snums)
  BY DEF MergeInv, BarrierSort_!Sorted
<1>4. ASSUME pc = "done", NEW x \in 0 .. RandMax
      PROVE  BarrierSort_!Count(snums, x) = BarrierSort_!Count(nums, x)
  <2>1. Len(snums) = num
    BY <1>0, <1>4 DEF MergeInv
  <2>2. PICK h \in Bijection(1 .. num, Taken) : \A k \in 1 .. num : snums[k] = nums[h[k]]
    BY <2>1 DEF MergeInv
  <2>3. Taken = 1 .. num
    <3>1. IsFiniteSet(1 .. num) /\ Cardinality(1 .. num) = num
      BY FS_Interval
    <3>2. Cardinality(Taken) = Cardinality(1 .. num)
      BY <2>2, <3>1, FS_Bijection DEF ExistsBijection
    <3>3. Taken \in SUBSET (1 .. num)
      BY <1>0 DEF Taken
    <3> QED
      BY <3>1, <3>2, <3>3, FS_Subset
  <2>4. snums \in Seq(Nat)
    BY BarrierAssumption DEF MergeInv
  <2>5. DOMAIN nums = 1 .. num
    BY <1>0 DEF RangesInv
  <2> QED
    BY <2>1, <2>2, <2>3, <2>4, <2>5, CountsAgree
<1> QED
  BY <1>1, <1>2, <1>3, <1>4, <1>n DEF BarrierSort_!MergeSorts

-----------------------------------------------------------------------------
(* SignalPrograms: of the programs that are promised something, where main   *)
(* is or will be again when the handlers have returned (Base), and what holds *)
(* there whatever handlers run, inside each other too.                       *)

AllSignals == SignalPrograms_!Signals
Op == SignalPrograms_!Op

\* the handlers h run inside each other and main, at steps of their code and of main's
Stacked(h) ==
  /\ at \in {prog} \cup h /\ prog \notin h /\ pc \in 1 .. 10 /\ mask \subseteq AllSignals
  /\ stack \in Seq(({prog} \cup h) \X (1 .. 10) \X SUBSET AllSignals)
  /\ at = prog <=> stack = <<>>
  /\ \A k \in DOMAIN stack : stack[k][1] = prog <=> k = 1
Base == IF at = prog THEN pc ELSE stack[1][2]
Within(h) == at = h \/ \E k \in DOMAIN stack : stack[k][1] = h

\* the steps of the program itself, and what comes from outside
Called == \/ SignalPrograms_!Dispositions \/ SignalPrograms_!Masks \/ SignalPrograms_!Flow
          \/ SignalPrograms_!Leave \/ SignalPrograms_!Read \/ SignalPrograms_!Children
          \/ SignalPrograms_!Kill

\* A handler is called: with h on top, the rest of the stack and its base stay.
LEMMA HandlerCalled ==
  ASSUME NEW h, Stacked(h), at' \in h, pc' = 1, mask' \subseteq AllSignals, prog' = prog,
         NEW then \in 1 .. 10, NEW old \in SUBSET AllSignals,
         stack' = Append(stack, <<at, then, old>>)
  PROVE  /\ Stacked(h)' /\ Base' = (IF at = prog THEN then ELSE Base)
         /\ Len(stack') = Len(stack) + 1
         /\ \A k \in DOMAIN stack' :
              stack'[k] = IF k = Len(stack) + 1 THEN <<at, then, old>> ELSE stack[k]
         /\ \A x : Within(x)' <=> Within(x) \/ at' = x
<1> DEFINE F == ({prog} \cup h) \X (1 .. 10) \X SUBSET AllSignals
           f == <<at, then, old>>
<1>1. PICK len \in Nat : len = Len(stack) /\ DOMAIN stack = 1 .. len /\ stack \in Seq(F)
  BY DEF Stacked
<1>2. f \in F /\ f[1] = at /\ f[2] = then /\ f[3] = old
  BY DEF Stacked
<1> HIDE DEF F, f
<1>3. /\ stack' \in Seq(F) /\ Len(stack') = len + 1 /\ DOMAIN stack' = 1 .. len + 1
      /\ \A k \in 1 .. len + 1 : stack'[k] = IF k = len + 1 THEN f ELSE stack[k]
  BY <1>1, <1>2 DEF f
<1>4. at = prog <=> len = 0
  BY <1>1 DEF Stacked
<1>5. ASSUME NEW k \in 1 .. len + 1 PROVE stack'[k][1] = prog <=> k = 1
  BY <1>1, <1>2, <1>3, <1>4 DEF Stacked
<1>6. at' # prog /\ stack' # <<>>
  BY <1>3 DEF Stacked
<1>7. Stacked(h)'
  BY <1>3, <1>5, <1>6 DEF Stacked, F
<1>8. Base' = IF at = prog THEN then ELSE Base
  BY <1>1, <1>2, <1>3, <1>4, <1>6 DEF Base
<1>9. ASSUME NEW x PROVE Within(x)' <=> Within(x) \/ at' = x
  BY <1>1, <1>2, <1>3 DEF Within
<1> QED
  BY <1>1, <1>3, <1>7, <1>8, <1>9 DEF f

\* A handler returns to where it was called.
LEMMA HandlerReturns ==
  ASSUME NEW h, Stacked(h), at # prog, prog' = prog,
         at' = stack[Len(stack)][1], pc' = stack[Len(stack)][2], mask' = stack[Len(stack)][3],
         stack' = SubSeq(stack, 1, Len(stack) - 1)
  PROVE  /\ Stacked(h)' /\ Base' = Base
         /\ Len(stack) \in DOMAIN stack
         /\ \A k \in DOMAIN stack' : k \in DOMAIN stack /\ stack'[k] = stack[k]
         /\ \A x : Within(x)' => Within(x)
         /\ \A x : Within(x) => Within(x)' \/ at = x
<1> DEFINE F == ({prog} \cup h) \X (1 .. 10) \X SUBSET AllSignals
<1>1. PICK len \in Nat : len = Len(stack) /\ DOMAIN stack = 1 .. len /\ stack \in Seq(F)
  BY DEF Stacked
<1>2. len # 0 /\ len \in 1 .. len /\ 1 \in 1 .. len
  BY <1>1 DEF Stacked
<1>3. \A k \in 1 .. len : /\ stack[k] \in F /\ stack[k][1] \in {prog} \cup h
        /\ stack[k][2] \in 1 .. 10
                          /\ stack[k][3] \subseteq AllSignals
  BY <1>1
<1> HIDE DEF F
<1>4. /\ stack' \in Seq(F) /\ Len(stack') = len - 1 /\ DOMAIN stack' = 1 .. len - 1
      /\ \A k \in 1 .. len - 1 : stack'[k] = stack[k] /\ k \in 1 .. len
  BY <1>1, <1>2, <1>3
<1>5. \A k \in 1 .. len : stack[k][1] = prog <=> k = 1
  BY <1>1 DEF Stacked
<1>6. at' = prog <=> len = 1
  BY <1>1, <1>2, <1>5
<1>7. stack' = <<>> <=> len = 1
  <2>1. stack' = <<>> <=> Len(stack') = 0
    BY <1>4, EmptySeq
  <2> QED
    BY <1>2, <1>4, <2>1
<1>8. Stacked(h)'
  <2>1. /\ at' \in {prog'} \cup h /\ prog' \notin h /\ pc' \in 1 .. 10
             /\ mask' \subseteq AllSignals
        /\ stack' \in Seq(({prog'} \cup h) \X (1 .. 10) \X SUBSET AllSignals)
    BY <1>1, <1>2, <1>3, <1>4 DEF Stacked, F
  <2>2. \A k \in DOMAIN stack' : stack'[k][1] = prog' <=> k = 1
    BY <1>4, <1>5
  <2> QED
    BY <1>6, <1>7, <2>1, <2>2 DEF Stacked
<1>9. Base' = Base
  BY <1>1, <1>2, <1>4, <1>6 DEF Base
<1>10. ASSUME NEW x PROVE (Within(x)' => Within(x)) /\ (Within(x) => Within(x)' \/ at = x)
  <2>1. \A k \in 1 .. len : k = len \/ k \in 1 .. len - 1
    OBVIOUS
  <2> QED
    BY <1>1, <1>2, <1>4, <2>1 DEF Within
<1> QED
  BY <1>1, <1>2, <1>4, <1>8, <1>9, <1>10

\* What a call may change of a process.
LEMMA CallKeeps ==
  ASSUME Called
  PROVE  /\ prog' = prog /\ st = "running"
         /\ Op[1] \notin {"pause", "suspend"}
         /\ Op[1] \notin {"exit", "kill"} => st' = st
         /\ Op[1] \notin {"return", "longjmp", "siglongjmp", "kill"} => at' = at /\ stack' = stack
         /\ Op[1] \notin {"block", "unblock", "mask", "oldmask", "return", "longjmp",
              "siglongjmp", "kill"} =>
              mask' = mask
         /\ Op[1] \notin {"signal", "keep", "back", "unignore"} => disp' = disp
         /\ Op[1] # "keep" => saved' = saved
         /\ Op[1] # "block" => oldmask' = oldmask
         /\ Op[1] # "kill" => pending' \subseteq pending
         /\ Op[1] \notin {"signal", "keep", "back", "unignore", "flushIf", "flush", "kill"}
              => pending' = pending
         /\ Op[1] # "setjmp" => env' = env
         /\ Op[1] # "set" => flag' = flag
         /\ Op[1] # "alarm" => alarm' = alarm
         /\ Op[1] \notin {"flushIf", "flush"} => flushed' = flushed
         /\ Op[1] \notin {"fork", "waitpid", "wait"} => kid' = kid /\ status' = status
         /\ Op[1] \notin {"if", "unlessDfl", "goto", "exit", "read", "fork", "return", "longjmp",
              "siglongjmp", "kill"} =>
              pc' = pc + 1
<1> USE DEF Op, Called, SignalPrograms_!Is, SignalPrograms_!Fall, SignalPrograms_!GoTo,
            SignalPrograms_!memory
<1>1. CASE SignalPrograms_!Dispositions
  BY <1>1 DEF SignalPrograms_!Dispositions
<1>2. CASE SignalPrograms_!Masks
  BY <1>2 DEF SignalPrograms_!Masks
<1>3. CASE SignalPrograms_!Flow
  BY <1>3 DEF SignalPrograms_!Flow
<1>4. CASE SignalPrograms_!Leave
  BY <1>4 DEF SignalPrograms_!Leave
<1>5. CASE SignalPrograms_!Read
  BY <1>5 DEF SignalPrograms_!Read
<1>6. CASE SignalPrograms_!Children
  BY <1>6 DEF SignalPrograms_!Children
<1>7. CASE SignalPrograms_!Kill
  BY <1>7 DEF SignalPrograms_!Kill
<1> QED
  BY <1>1, <1>2, <1>3, <1>4, <1>5, <1>6, <1>7

\* What each call does.
LEMMA CallDoes ==
  ASSUME Called
  PROVE  /\ Op[1] = "signal" => disp' = [disp EXCEPT ![Op[2]] = Op[3]]
         /\ Op[1] = "keep" => /\ disp' = [disp EXCEPT ![Op[2]] = Op[3]]
                              /\ saved' = [saved EXCEPT ![Op[2]] = disp[Op[2]]]
         /\ Op[1] = "back" => disp' = [disp EXCEPT ![Op[2]] = saved[Op[2]]]
         /\ Op[1] = "unignore"
              => disp' = [disp EXCEPT ![Op[2]] = IF disp[Op[2]] = "ign" THEN "dfl"
              ELSE disp[Op[2]]]
         /\ Op[1] = "flushIf" => flushed' = (flushed \/ disp[Op[2]] = "dfl")
         /\ Op[1] = "flush" => flushed' = TRUE
         /\ Op[1] = "block" => mask' = mask \cup Op[2] /\ oldmask' = mask
         /\ Op[1] = "unblock" => mask' = mask \ Op[2]
         /\ Op[1] = "mask" => mask' = Op[2]
         /\ Op[1] = "oldmask" => mask' = oldmask
         /\ Op[1] = "if" => pc' = IF flag = Op[2] THEN Op[3] ELSE pc + 1
         /\ Op[1] = "unlessDfl" => pc' = IF saved[Op[2]] # "dfl" THEN Op[3] ELSE pc + 1
         /\ Op[1] = "goto" => pc' = Op[2]
         /\ Op[1] = "set" => flag' = Op[2]
         /\ Op[1] = "alarm" => alarm' = Op[2]
         /\ Op[1] = "setjmp" => env' = <<Op[2], mask>>
         /\ Op[1] = "exit" => st' = "exit" /\ pc' = pc
         /\ Op[1] = "read" => pc' = (IF prog = "sigtstp" /\ input > 0 THEN pc ELSE pc + 1)
         /\ Op[1] = "return" => /\ at' = stack[Len(stack)][1] /\ pc' = stack[Len(stack)][2]
                                /\ mask' = stack[Len(stack)][3]
                                /\ stack' = SubSeq(stack, 1, Len(stack) - 1)
         /\ Op[1] = "longjmp" => at' = prog /\ pc' = env[1] /\ stack' = <<>> /\ mask' = mask
         /\ Op[1] = "fork" => \/ pc' = pc + 1 /\ kid' = "runs" /\ status' = status
                              \/ pc' = Op[2] /\ kid' = kid /\ status' = "noChild"
         /\ Op[1] = "waitpid" => \/ kid = "zombie" /\ kid' = "gone" /\ status' = "command"
                                 \/ kid = "gone" /\ kid' = "gone" /\ status' = "error"
         /\ Op[1] = "wait" => kid # "runs" /\ kid' = "gone" /\ status' = status
         /\ Op[1] = "kill" => IF Op[2] \in mask
                              THEN pending' = pending \cup {Op[2]} /\ pc' = pc + 1
                                /\ UNCHANGED <<at, stack, st, mask>>
                              ELSE pending' = pending \ {Op[2]}
                                /\ SignalPrograms_!Takes(Op[2], mask, pc + 1, mask)
<1> USE DEF Op, Called, SignalPrograms_!Is, SignalPrograms_!Fall, SignalPrograms_!GoTo,
            SignalPrograms_!memory
<1>1. CASE SignalPrograms_!Dispositions
  BY <1>1 DEF SignalPrograms_!Dispositions
<1>2. CASE SignalPrograms_!Masks
  BY <1>2 DEF SignalPrograms_!Masks
<1>3. CASE SignalPrograms_!Flow
  BY <1>3 DEF SignalPrograms_!Flow
<1>4. CASE SignalPrograms_!Leave
  BY <1>4 DEF SignalPrograms_!Leave
<1>5. CASE SignalPrograms_!Read
  BY <1>5 DEF SignalPrograms_!Read
<1>6. CASE SignalPrograms_!Children
  BY <1>6 DEF SignalPrograms_!Children
<1>7. CASE SignalPrograms_!Kill
  BY <1>7 DEF SignalPrograms_!Kill
<1> QED
  BY <1>1, <1>2, <1>3, <1>4, <1>5, <1>6, <1>7

\* Base is a step of main, where a handler that was called by main returns to.
LEMMA BaseIs ==
  ASSUME NEW h, Stacked(h)
  PROVE  /\ Base \in 1 .. 10 /\ Base \in Nat /\ (at = prog => Base = pc)
         /\ at # prog => 1 \in DOMAIN stack /\ stack[1][1] = prog /\ stack[1][2] = Base
<1>1. PICK len \in Nat : DOMAIN stack = 1 .. len /\ (len = 0 <=> stack = <<>>)
  BY DEF Stacked
<1>2. \A k \in DOMAIN stack : stack[k][2] \in 1 .. 10
  BY DEF Stacked
<1> QED
  BY <1>1, <1>2 DEF Stacked, Base

\* Main goes on, or a handler, or a handler jumps into main.
LEMMA GoesOn ==
  ASSUME NEW h, Stacked(h), prog' = prog, at' = at, stack' = stack, pc' \in 1 .. 10,
    mask' \subseteq AllSignals
  PROVE  /\ Stacked(h)' /\ Base' = (IF at = prog THEN pc' ELSE Base)
         /\ \A x : Within(x)' <=> Within(x)
         /\ at = prog => Base = pc /\ DOMAIN stack = {} /\ \A x \in h : ~Within(x)
<1>1. Stacked(h)'
  BY DEF Stacked
<1>2. Base' = (IF at = prog THEN pc' ELSE Base)
  BY DEF Base
<1>3. \A x : Within(x)' <=> Within(x)
  BY DEF Within
<1>4. at = prog => stack = <<>> /\ prog \notin h
  BY DEF Stacked
<1> QED
  BY <1>1, <1>2, <1>3, <1>4 DEF Base, Within

LEMMA Jumps ==
  ASSUME NEW h, Stacked(h), prog' = prog, at' = prog, stack' = <<>>, pc' \in 1 .. 10,
    mask' \subseteq AllSignals
  PROVE  Stacked(h)' /\ Base' = pc' /\ DOMAIN stack' = {} /\ \A x \in h : ~Within(x)'
<1>1. stack' \in Seq(({prog'} \cup h) \X (1 .. 10) \X SUBSET AllSignals) /\ DOMAIN stack' = {}
  OBVIOUS
<1>2. Stacked(h)'
  BY <1>1 DEF Stacked
<1>3. \A x \in h : x # prog
  BY DEF Stacked
<1> QED
  BY <1>1, <1>2, <1>3 DEF Base, Within

\* What a signal does that is taken.
LEMMA SignalTaken ==
  ASSUME NEW h, Stacked(h), h \cap {"dfl", "ign"} = {}, prog' = prog,
         NEW s \in AllSignals, disp[s] \in h \cup {"dfl", "ign"},
         NEW during \in SUBSET AllSignals, NEW then \in 1 .. 10,
           SignalPrograms_!Takes(s, during, then, mask)
  PROVE  /\ Stacked(h)'
         /\ \/ /\ disp[s] \notin h /\ at' = at /\ stack' = stack /\ mask' = mask
               /\ Base' = (IF at = prog THEN pc' ELSE Base)
               /\ \A x : Within(x)' <=> Within(x)
               /\ \/ pc' = pc /\ st' = st /\ (disp[s] = "ign" \/ s = "CHLD")
                  \/ disp[s] = "dfl" /\ pc' = then /\ st' = IF s = "TSTP" THEN "stopped" ELSE s
            \/ /\ disp[s] \in h /\ at' = disp[s] /\ pc' = 1 /\ st' = st /\ mask' = during \cup {s}
               /\ Base' = (IF at = prog THEN then ELSE Base)
               /\ Len(stack') = Len(stack) + 1
               /\ \A k \in DOMAIN stack' :
                    stack'[k] = IF k = Len(stack) + 1 THEN <<at, then, mask>> ELSE stack[k]
               /\ \A k \in DOMAIN stack' : k # Len(stack) + 1 => k \in DOMAIN stack
               /\ \A x : Within(x)' <=> Within(x) \/ at' = x
<1>0. mask \in SUBSET AllSignals /\ pc \in 1 .. 10 /\ prog \notin h
        /\ DOMAIN stack = 1 .. Len(stack) /\ Len(stack) \in Nat
  BY DEF Stacked
<1>1. CASE disp[s] = "ign" \/ (disp[s] = "dfl" /\ s = "CHLD")
  <2>1. pc' = pc /\ at' = at /\ stack' = stack /\ st' = st /\ mask' = mask
    BY <1>1 DEF SignalPrograms_!Takes, SignalPrograms_!GoTo
  <2>2. disp[s] \notin h
    BY <1>1
  <2>3. mask' \subseteq AllSignals /\ pc' \in 1 .. 10
    BY <1>0, <2>1
  <2>4. /\ Stacked(h)' /\ Base' = (IF at = prog THEN pc' ELSE Base)
        /\ \A x : Within(x)' <=> Within(x)
    BY <2>1, <2>3, GoesOn
  <2> QED
    BY <1>1, <2>1, <2>2, <2>4
<1>2. CASE disp[s] = "dfl" /\ s # "CHLD"
  <2>1. /\ pc' = then /\ at' = at /\ stack' = stack /\ st' = (IF s = "TSTP" THEN "stopped" ELSE s)
        /\ mask' = mask
    BY <1>2 DEF SignalPrograms_!Takes, SignalPrograms_!GoTo
  <2>2. disp[s] \notin h
    BY <1>2
  <2>3. mask' \subseteq AllSignals /\ pc' \in 1 .. 10
    BY <1>0, <2>1
  <2>4. /\ Stacked(h)' /\ Base' = (IF at = prog THEN pc' ELSE Base)
        /\ \A x : Within(x)' <=> Within(x)
    BY <2>1, <2>3, GoesOn
  <2> QED
    BY <1>2, <2>1, <2>2, <2>4
<1>3. CASE disp[s] \in h
  <2>1. /\ stack' = Append(stack, <<at, then, mask>>) /\ at' = disp[s] /\ pc' = 1
        /\ mask' = during \cup {s} /\ st' = st
    BY <1>3 DEF SignalPrograms_!Takes
  <2>2. mask' \subseteq AllSignals /\ at' \in h
    BY <1>3, <2>1
  <2>3. /\ Stacked(h)' /\ Base' = (IF at = prog THEN then ELSE Base)
        /\ Len(stack') = Len(stack) + 1
        /\ \A k \in DOMAIN stack' :
             stack'[k] = IF k = Len(stack) + 1 THEN <<at, then, mask>> ELSE stack[k]
        /\ \A x : Within(x)' <=> Within(x) \/ at' = x
    BY <1>0, <2>1, <2>2, HandlerCalled
  <2>4. DOMAIN stack' = 1 .. Len(stack')
    BY <2>3 DEF Stacked
  <2>5. \A k \in DOMAIN stack' : k # Len(stack) + 1 => k \in DOMAIN stack
    BY <1>0, <2>3, <2>4
  <2> QED
    BY <1>3, <2>1, <2>3, <2>5
<1> QED
  BY <1>1, <1>2, <1>3

\* A pending signal that is delivered, and what else comes from outside.
LEMMA Delivery ==
  ASSUME NEW s \in AllSignals, SignalPrograms_!Deliver(s)
  PROVE  /\ st = "running" /\ s \in pending /\ pending' = pending \ {s} /\ prog' = prog
         /\ disp' = disp /\ saved' = saved /\ oldmask' = oldmask /\ alarm' = alarm /\ kid' = kid
         /\ env' = env /\ flag' = flag /\ input' = input /\ flushed' = flushed /\ status' = status
         /\ \/ s \notin mask /\ SignalPrograms_!Takes(s, mask, pc, mask)
            \/ Op[1] = "pause" /\ s \notin mask /\ SignalPrograms_!Takes(s, mask, pc + 1, mask)
            \/ Op[1] = "suspend" /\ s \notin Op[2] /\ SignalPrograms_!Takes(s, Op[2], pc + 1, mask)
            \/ Op[1] = "read" /\ s = "ALRM" /\ s \notin mask
                 /\ SignalPrograms_!Takes(s, mask, Op[2], mask)
BY DEF Op, SignalPrograms_!Deliver, SignalPrograms_!Is, SignalPrograms_!memory

LEMMA FromOutside ==
  ASSUME SignalPrograms_!Continue \/ SignalPrograms_!Tick \/ SignalPrograms_!Others
  PROVE  /\ prog' = prog /\ at' = at /\ pc' = pc /\ stack' = stack /\ disp' = disp
              /\ saved' = saved
         /\ mask' = mask /\ oldmask' = oldmask
         /\ env' = env /\ flag' = flag /\ input' = input /\ flushed' = flushed /\ status' = status
         /\ st' = st \/ (st = "stopped" /\ st' = "running")
         /\ pending \subseteq pending' /\ st \in {"running", "stopped"}
         /\ \A s \in pending' : \/ s \in pending
                                \/ s = "ALRM" /\ alarm = 1 /\ alarm' = alarm - 1
                                \/ s \in SignalPrograms_!Sent[prog] /\ disp[s] # "ign"
                                \/ s = "CHLD" /\ kid = "runs" /\ kid' = "zombie"
         /\ \/ alarm' = alarm
            \/ alarm > 0 /\ alarm' = alarm - 1 /\ (alarm = 1 => "ALRM" \in pending')
         /\ kid' = kid \/ (kid = "runs" /\ kid' = "zombie")
<1>1. CASE SignalPrograms_!Continue
  BY <1>1 DEF SignalPrograms_!Continue, SignalPrograms_!memory
<1>2. CASE SignalPrograms_!Tick
  BY <1>2 DEF SignalPrograms_!Tick, SignalPrograms_!Alive, SignalPrograms_!memory
<1>3. CASE SignalPrograms_!Others
  <2>1. CASE \E s \in SignalPrograms_!Sent[prog] :
               pending' = IF disp[s] = "ign" THEN pending ELSE pending \cup {s}
    BY <1>3, <2>1 DEF SignalPrograms_!Others, SignalPrograms_!Alive, SignalPrograms_!memory
  <2>2. CASE kid = "runs" /\ kid' = "zombie" /\ pending' = pending \cup {"CHLD"}
    BY <1>3, <2>2 DEF SignalPrograms_!Others, SignalPrograms_!Alive, SignalPrograms_!memory
  <2> QED
    BY <1>3, <2>1, <2>2 DEF SignalPrograms_!Others
<1> QED
  BY <1>1, <1>2, <1>3

\* sleep2.c: while main is before or in pause, either the alarm is still to come or the jump out
\* of its handler is.
TsleepInv ==
  /\ Stacked({"sig_int", "jump"})
  /\ at = "tsleep2" => pc \in 1 .. 7
  /\ at = "sig_int" => pc \in 1 .. 2
  /\ at = "jump" => pc = 1
  /\ \A k \in DOMAIN stack : /\ stack[k][1] = "tsleep2" => stack[k][2] \in 1 .. 7
                             /\ stack[k][1] = "sig_int" => stack[k][2] \in 1 .. 2
                             /\ stack[k][1] = "jump" => stack[k][2] = 1
  /\ pending \subseteq {"INT", "ALRM"} /\ alarm \in Nat /\ kid = "none"
  /\ disp \in [AllSignals -> {"dfl", "sig_int", "jump"}]
  /\ disp["INT"] # "jump" /\ disp["ALRM"] # "sig_int"
  /\ Base >= 3 => disp["ALRM"] = "jump"
  /\ Base >= 4 => env[1] = 6
  /\ Base <= 4 => alarm = 0 /\ "ALRM" \notin pending
  /\ Base = 5 => alarm > 0 \/ "ALRM" \in pending \/ Within("jump")
  /\ Within("jump") => Base >= 5

\* The steps of the code.
LEMMA TsleepCode ==
  /\ at = "tsleep2" =>
       /\ pc = 1 => Op = <<"signal", "INT", "sig_int">>
       /\ pc = 2 => Op = <<"signal", "ALRM", "jump">>
       /\ pc = 3 => Op = <<"setjmp", 6>>
       /\ pc = 4 => Op = <<"alarm", Seconds>>
       /\ pc = 5 => Op = <<"pause">>
       /\ pc = 6 => Op = <<"alarm", 0>>
       /\ pc = 7 => Op = <<"exit">>
  /\ at = "sig_int" => (pc = 1 => Op = <<"work">>) /\ (pc = 2 => Op = <<"return">>)
  /\ at = "jump" => (pc = 1 => Op = <<"longjmp">>)
<1>1. /\ SignalPrograms_!code["tsleep2"] = SignalPrograms_!tsleep2
      /\ SignalPrograms_!code["sig_int"] = SignalPrograms_!sig_int
      /\ SignalPrograms_!code["jump"] = << <<"longjmp">> >>
  BY DEF SignalPrograms_!code
<1> QED
  BY <1>1 DEF Op, SignalPrograms_!Op, SignalPrograms_!tsleep2, SignalPrograms_!sig_int

\* The steps of sleep2.c and of its handlers.
LEMMA TsleepCalls == ASSUME prog = "tsleep2", TsleepInv, Called PROVE TsleepInv'
<1> DEFINE H == {"sig_int", "jump"}
<1>0. prog' = prog /\ Stacked(H) /\ pc \in Nat /\ mask \subseteq AllSignals
        /\ at \in {"tsleep2", "sig_int", "jump"}
  BY CallKeeps DEF TsleepInv, Stacked
<1>1. CASE at = "tsleep2" /\ pc \in {1, 2, 3, 4, 6, 7}
  <2>1. Op[1] \in {"signal", "setjmp", "alarm", "exit"}
    BY <1>1, TsleepCode
  <2>2. at' = at /\ stack' = stack /\ mask' = mask /\ pending' \subseteq pending /\ kid' = kid
    BY <2>1, CallKeeps
  <2>3. pc' = IF pc = 7 THEN pc ELSE pc + 1
    BY <1>0, <1>1, <2>1, CallKeeps, CallDoes, TsleepCode
  <2>4. pc' \in 1 .. 7 /\ pc' \in 1 .. 10
    BY <1>1, <2>3
  <2>5. /\ Stacked(H)' /\ Base' = pc' /\ Base = pc /\ DOMAIN stack = {} /\ ~Within("jump")
             /\ ~Within("jump")'
    BY <1>0, <1>1, <2>2, <2>4, GoesOn
  <2>6. disp' = IF pc = 1 THEN [disp EXCEPT !["INT"] = "sig_int"]
                ELSE IF pc = 2 THEN [disp EXCEPT !["ALRM"] = "jump"] ELSE disp
    BY <1>1, CallKeeps, CallDoes, TsleepCode
  <2>7. env'[1] = IF pc = 3 THEN 6 ELSE env[1]
    BY <1>1, CallKeeps, CallDoes, TsleepCode
  <2>8. alarm' = (IF pc = 4 THEN Seconds ELSE IF pc = 6 THEN 0 ELSE alarm)
    BY <1>1, CallKeeps, CallDoes, TsleepCode
  <2>9. /\ disp' \in [AllSignals -> {"dfl", "sig_int", "jump"}]
        /\ disp'["INT"] # "jump" /\ disp'["ALRM"] # "sig_int"
        /\ pc' >= 3 => disp'["ALRM"] = "jump"
    BY <1>1, <2>3, <2>5, <2>6 DEF TsleepInv, AllSignals, SignalPrograms_!Signals
  <2> QED
    BY <1>1, <2>2, <2>3, <2>4, <2>5, <2>7, <2>8, <2>9, SecondsAssumption DEF TsleepInv
<1>2. CASE at = "tsleep2" /\ pc = 5
  BY <1>2, TsleepCode, CallKeeps
<1>3. CASE at = "sig_int" /\ pc = 1
  <2>1. Op = <<"work">>
    BY <1>3, TsleepCode
  <2>2. /\ at' = at /\ stack' = stack /\ mask' = mask /\ pending' = pending /\ pc' = 2
             /\ disp' = disp
        /\ env' = env /\ alarm' = alarm /\ kid' = kid
    BY <1>3, <2>1, CallKeeps
  <2>3. Stacked(H)' /\ Base' = Base /\ (Within("jump")' <=> Within("jump"))
    BY <1>0, <1>3, <2>2, GoesOn
  <2> QED
    BY <1>3, <2>2, <2>3 DEF TsleepInv
<1>4. CASE at = "sig_int" /\ pc = 2
  <2>1. Op = <<"return">>
    BY <1>4, TsleepCode
  <2>2. /\ pending' = pending /\ disp' = disp /\ env' = env /\ alarm' = alarm /\ kid' = kid
        /\ at' = stack[Len(stack)][1] /\ pc' = stack[Len(stack)][2] /\ mask' = stack[Len(stack)][3]
        /\ stack' = SubSeq(stack, 1, Len(stack) - 1)
    BY <2>1, CallKeeps, CallDoes
  <2>3. /\ Stacked(H)' /\ Base' = Base /\ (Within("jump")' <=> Within("jump"))
             /\ Len(stack) \in DOMAIN stack
        /\ \A k \in DOMAIN stack' : k \in DOMAIN stack /\ stack'[k] = stack[k]
    BY <1>0, <1>4, <2>2, HandlerReturns
  <2> QED
    BY <2>2, <2>3 DEF TsleepInv
<1>5. CASE at = "jump"
  <2>1. Op = <<"longjmp">>
    BY <1>5, TsleepCode DEF TsleepInv
  <2>2. Within("jump") /\ Base >= 5
    BY <1>5 DEF Within, TsleepInv
  <2>3. env[1] = 6 /\ disp["ALRM"] = "jump" /\ Base \in Nat
    BY <1>0, <2>2, BaseIs DEF TsleepInv
  <2>4. /\ pending' = pending /\ disp' = disp /\ env' = env /\ alarm' = alarm /\ mask' = mask
             /\ kid' = kid
        /\ at' = prog /\ pc' = 6 /\ stack' = <<>>
    BY <2>1, <2>3, CallKeeps, CallDoes
  <2>5. Stacked(H)' /\ Base' = 6 /\ DOMAIN stack' = {} /\ ~Within("jump")'
    BY <1>0, <2>4, Jumps
  <2> QED
    BY <1>0, <2>3, <2>4, <2>5 DEF TsleepInv
<1> QED
  BY <1>0, <1>1, <1>2, <1>3, <1>4, <1>5 DEF TsleepInv

\* A signal is delivered to it: SIGALRM always to the handler that jumps.
LEMMA TsleepSignals == ASSUME prog = "tsleep2", TsleepInv, NEW s \in AllSignals,
  SignalPrograms_!Deliver(s) PROVE TsleepInv'
<1> DEFINE H == {"sig_int", "jump"}
<1>0. /\ prog' = prog /\ Stacked(H) /\ pc \in 1 .. 10 /\ mask \in SUBSET AllSignals
      /\ at \in {"tsleep2", "sig_int", "jump"} /\ H \cap {"dfl", "ign"} = {}
  BY Delivery DEF TsleepInv, Stacked
<1>1. /\ s \in pending /\ pending' = pending \ {s} /\ disp' = disp /\ env' = env /\ alarm' = alarm
           /\ kid' = kid
      /\ s \in {"INT", "ALRM"}
  BY Delivery DEF TsleepInv
<1>2. Op[1] \in {"pause", "suspend", "read"} => Op[1] = "pause" /\ at = "tsleep2" /\ pc = 5
  BY TsleepCode DEF TsleepInv, Stacked
<1>3. PICK then \in 1 .. 10 : /\ SignalPrograms_!Takes(s, mask, then, mask)
                              /\ then = pc \/ (at = "tsleep2" /\ pc = 5 /\ then = 6)
  <2>1. pc + 1 \in 1 .. 10 \/ pc # 5
    BY <1>0
  <2> QED
    BY <1>0, <1>2, <2>1, Delivery
<1>4. disp[s] \in H \cup {"dfl", "ign"} /\ (disp[s] = "jump" <=> disp[s] \in H /\ s = "ALRM")
        /\ disp[s] # "ign"
  BY <1>1 DEF TsleepInv
<1>5. at = "tsleep2" => Base = pc
  BY <1>0 DEF Base, TsleepInv
<1>6. CASE disp[s] \notin H
  <2>1. /\ Stacked(H)' /\ at' = at /\ stack' = stack /\ Base' = (IF at = prog THEN pc' ELSE Base)
        /\ (Within("jump")' <=> Within("jump")) /\ pc' \in {pc, then}
    BY <1>0, <1>3, <1>4, <1>6, SignalTaken
  <2>2. s = "ALRM" => Base <= 2 /\ Base \in Nat
    BY <1>4, <1>6, <1>0, <1>1 DEF TsleepInv, Base, Stacked
  <2> QED
    BY <1>0, <1>1, <1>3, <1>5, <2>1, <2>2 DEF TsleepInv
<1>7. CASE disp[s] \in H
  <2>1. /\ Stacked(H)' /\ at' = disp[s] /\ pc' = 1
        /\ Base' = (IF at = prog THEN then ELSE Base)
        /\ \A k \in DOMAIN stack' : stack'[k] = IF k = Len(stack) + 1 THEN <<at, then, mask>>
             ELSE stack[k]
        /\ \A k \in DOMAIN stack' : k # Len(stack) + 1 => k \in DOMAIN stack
        /\ (Within("jump")' <=> Within("jump") \/ at' = "jump")
    BY <1>0, <1>3, <1>4, <1>7, SignalTaken
  <2>2. /\ Base \in Nat /\ Base' \in Nat /\ (Base' = Base \/ (Base = 5 /\ Base' = 6))
    BY <1>0, <1>3, <1>5, <2>1, BaseIs
  <2>3. s = "ALRM" => Base >= 5 /\ Within("jump")'
    BY <1>1, <1>4, <1>7, <2>1, <2>2 DEF TsleepInv
  <2>4. ASSUME NEW k \in DOMAIN stack'
        PROVE  /\ stack'[k][1] = "tsleep2" => stack'[k][2] \in 1 .. 7
               /\ stack'[k][1] = "sig_int" => stack'[k][2] \in 1 .. 2
               /\ stack'[k][1] = "jump" => stack'[k][2] = 1
    <3>1. CASE k = Len(stack) + 1
      BY <1>0, <1>3, <2>1, <3>1 DEF TsleepInv
    <3>2. CASE k # Len(stack) + 1
      BY <2>1, <3>2 DEF TsleepInv
    <3> QED
      BY <3>1, <3>2
  <2>5. /\ Base' >= 3 => disp["ALRM"] = "jump"
        /\ Base' >= 4 => env[1] = 6
        /\ Base' <= 4 => alarm = 0 /\ "ALRM" \notin pending'
        /\ Base' = 5 => alarm > 0 \/ "ALRM" \in pending' \/ Within("jump")'
        /\ Within("jump")' => Base' >= 5
    <3>1. CASE s = "ALRM"
      BY <1>1, <2>2, <2>3, <3>1 DEF TsleepInv
    <3>2. CASE s = "INT"
      BY <1>1, <1>4, <2>1, <2>2, <3>2 DEF TsleepInv
    <3> QED
      BY <1>1, <3>1, <3>2
  <2>6. at' \in H /\ (at' = "jump" => pc' = 1) /\ (at' = "sig_int" => pc' \in 1 .. 2)
          /\ at' # "tsleep2"
    BY <1>7, <2>1
  <2> QED
    BY <1>1, <2>1, <2>4, <2>5, <2>6 DEF TsleepInv
<1> QED
  BY <1>6, <1>7

\* Time goes by, and others send SIGINT.
LEMMA TsleepOutside ==
  ASSUME prog = "tsleep2", TsleepInv, SignalPrograms_!Continue \/ SignalPrograms_!Tick
    \/ SignalPrograms_!Others
  PROVE  TsleepInv'
<1>1. SignalPrograms_!Sent[prog] = {"INT"}
  BY DEF SignalPrograms_!Sent, SignalPrograms_!code
<1>2. Stacked({"sig_int", "jump"})' /\ Base' = Base /\ (Within("jump")' <=> Within("jump"))
  BY FromOutside DEF TsleepInv, Stacked, Base, Within
<1>3. /\ at' = at /\ pc' = pc /\ stack' = stack /\ disp' = disp /\ env' = env /\ kid' = kid
      /\ pending \subseteq pending'
      /\ \A s \in pending' : s \in pending \/ (s = "ALRM" /\ alarm = 1) \/ s \in {"INT"}
      /\ \/ alarm' = alarm
         \/ alarm > 0 /\ alarm' = alarm - 1 /\ (alarm = 1 => "ALRM" \in pending')
  BY <1>1, FromOutside DEF TsleepInv
<1> QED
  BY <1>2, <1>3 DEF TsleepInv

\* read2.c: the same while main is before or in read.
ReadInv ==
  /\ Stacked({"jump"})
  /\ at = "read2" => pc \in 1 .. 6
  /\ at = "jump" => pc = 1
  /\ \A k \in DOMAIN stack : /\ stack[k][1] = "read2" => stack[k][2] \in 1 .. 6
                             /\ stack[k][1] = "jump" => stack[k][2] = 1
  /\ pending \subseteq {"ALRM"} /\ alarm \in Nat /\ kid = "none"
  /\ disp \in [AllSignals -> {"dfl", "jump"}]
  /\ Base >= 2 => disp["ALRM"] = "jump"
  /\ Base >= 3 => env[1] = 6
  /\ Base <= 3 => alarm = 0 /\ "ALRM" \notin pending
  /\ Base = 4 => alarm > 0 \/ "ALRM" \in pending \/ Within("jump")
  /\ Within("jump") => Base >= 4

\* The steps of the code.
LEMMA ReadCode ==
  /\ at = "read2" =>
       /\ pc = 1 => Op = <<"signal", "ALRM", "jump">>
       /\ pc = 2 => Op = <<"setjmp", 6>>
       /\ pc = 3 => Op = <<"alarm", Seconds>>
       /\ pc = 4 => Op = <<"read", 6>>
       /\ pc = 5 => Op = <<"alarm", 0>>
       /\ pc = 6 => Op = <<"exit">>
  /\ at = "jump" => (pc = 1 => Op = <<"longjmp">>)
<1>1. /\ SignalPrograms_!code["read2"] = SignalPrograms_!read2
      /\ SignalPrograms_!code["jump"] = << <<"longjmp">> >>
  BY DEF SignalPrograms_!code
<1> QED
  BY <1>1 DEF Op, SignalPrograms_!Op, SignalPrograms_!read2

\* The steps of read2.c and of its handler.
LEMMA ReadCalls == ASSUME prog = "read2", ReadInv, Called PROVE ReadInv'
<1> DEFINE H == {"jump"}
<1>0. prog' = prog /\ Stacked(H) /\ pc \in Nat /\ mask \subseteq AllSignals
        /\ at \in {"read2", "jump"}
  BY CallKeeps DEF ReadInv, Stacked
<1>1. CASE at = "read2"
  <2>0. pc \in 1 .. 6
    BY <1>1 DEF ReadInv
  <2>1. Op[1] \in {"signal", "setjmp", "alarm", "read", "exit"}
    BY <1>1, <2>0, ReadCode
  <2>2. at' = at /\ stack' = stack /\ mask' = mask /\ pending' \subseteq pending /\ kid' = kid
    BY <2>1, CallKeeps
  <2>3. pc' = IF pc = 6 THEN pc ELSE pc + 1
    BY <1>0, <1>1, <2>0, <2>1, CallKeeps, CallDoes, ReadCode
  <2>4. pc' \in 1 .. 6 /\ pc' \in 1 .. 10
    BY <2>0, <2>3
  <2>5. /\ Stacked(H)' /\ Base' = pc' /\ Base = pc /\ DOMAIN stack = {} /\ ~Within("jump")
             /\ ~Within("jump")'
    BY <1>0, <1>1, <2>2, <2>4, GoesOn
  <2>6. disp' = IF pc = 1 THEN [disp EXCEPT !["ALRM"] = "jump"] ELSE disp
    BY <1>1, <2>0, CallKeeps, CallDoes, ReadCode
  <2>7. env'[1] = IF pc = 2 THEN 6 ELSE env[1]
    BY <1>1, <2>0, CallKeeps, CallDoes, ReadCode
  <2>8. alarm' = (IF pc = 3 THEN Seconds ELSE IF pc = 5 THEN 0 ELSE alarm)
    BY <1>1, <2>0, CallKeeps, CallDoes, ReadCode
  <2>9. pc = 1 \/ pending' = pending
    BY <1>1, <2>0, CallKeeps, ReadCode
  <2>10. /\ disp' \in [AllSignals -> {"dfl", "jump"}]
         /\ pc' >= 2 => disp'["ALRM"] = "jump"
    BY <2>0, <2>3, <2>5, <2>6 DEF ReadInv, AllSignals, SignalPrograms_!Signals
  <2> QED
    BY <1>1, <2>0, <2>2, <2>3, <2>4, <2>5, <2>7, <2>8, <2>9, <2>10, SecondsAssumption DEF ReadInv
<1>2. CASE at = "jump"
  <2>1. Op = <<"longjmp">>
    BY <1>2, ReadCode DEF ReadInv
  <2>2. Within("jump") /\ Base >= 4
    BY <1>2 DEF Within, ReadInv
  <2>3. env[1] = 6 /\ disp["ALRM"] = "jump" /\ Base \in Nat
    BY <1>0, <2>2, BaseIs DEF ReadInv
  <2>4. /\ pending' = pending /\ disp' = disp /\ env' = env /\ alarm' = alarm /\ mask' = mask
             /\ kid' = kid
        /\ at' = prog /\ pc' = 6 /\ stack' = <<>>
    BY <2>1, <2>3, CallKeeps, CallDoes
  <2>5. Stacked(H)' /\ Base' = 6 /\ DOMAIN stack' = {} /\ ~Within("jump")'
    BY <1>0, <2>4, Jumps
  <2> QED
    BY <1>0, <2>3, <2>4, <2>5 DEF ReadInv
<1> QED
  BY <1>0, <1>1, <1>2

\* SIGALRM is delivered to the handler that jumps.
LEMMA ReadSignals ==
  ASSUME prog = "read2", ReadInv, NEW s \in AllSignals, SignalPrograms_!Deliver(s) PROVE ReadInv'
<1> DEFINE H == {"jump"}
<1>0. /\ prog' = prog /\ Stacked(H) /\ pc \in 1 .. 10 /\ mask \in SUBSET AllSignals
      /\ at \in {"read2", "jump"} /\ H \cap {"dfl", "ign"} = {}
  BY Delivery DEF ReadInv, Stacked
<1>1. /\ s \in pending /\ pending' = pending \ {s} /\ disp' = disp /\ env' = env /\ alarm' = alarm
           /\ kid' = kid
      /\ s = "ALRM"
  BY Delivery DEF ReadInv
<1>2. Op[1] \in {"pause", "suspend", "read"} => Op = <<"read", 6>> /\ at = "read2" /\ pc = 4
  BY ReadCode DEF ReadInv, Stacked
<1>3. PICK then \in 1 .. 10 : /\ SignalPrograms_!Takes(s, mask, then, mask)
                              /\ then = pc \/ (at = "read2" /\ pc = 4 /\ then = 6)
  BY <1>0, <1>2, Delivery
<1>4. Base \in Nat /\ Base >= 4 /\ disp[s] = "jump" /\ (at = "read2" => Base = pc)
  BY <1>0, <1>1, BaseIs DEF ReadInv
<1>5. /\ Stacked(H)' /\ at' = "jump" /\ pc' = 1
      /\ Base' = (IF at = prog THEN then ELSE Base)
      /\ \A k \in DOMAIN stack' : stack'[k] = IF k = Len(stack) + 1 THEN <<at, then, mask>>
           ELSE stack[k]
      /\ \A k \in DOMAIN stack' : k # Len(stack) + 1 => k \in DOMAIN stack
      /\ Within("jump")'
  BY <1>0, <1>3, <1>4, SignalTaken
<1>6. Base' \in Nat /\ Base' >= 4
  BY <1>0, <1>3, <1>4, <1>5
<1>7. ASSUME NEW k \in DOMAIN stack'
      PROVE  /\ stack'[k][1] = "read2" => stack'[k][2] \in 1 .. 6
             /\ stack'[k][1] = "jump" => stack'[k][2] = 1
  <2>1. CASE k = Len(stack) + 1
    BY <1>0, <1>3, <1>5, <2>1 DEF ReadInv
  <2>2. CASE k # Len(stack) + 1
    BY <1>5, <2>2 DEF ReadInv
  <2> QED
    BY <2>1, <2>2
<1> QED
  BY <1>1, <1>4, <1>5, <1>6, <1>7 DEF ReadInv

\* Time goes by.
LEMMA ReadOutside ==
  ASSUME prog = "read2", ReadInv, SignalPrograms_!Continue \/ SignalPrograms_!Tick
    \/ SignalPrograms_!Others
  PROVE  ReadInv'
<1>1. SignalPrograms_!Sent[prog] = {}
  BY DEF SignalPrograms_!Sent, SignalPrograms_!code
<1>2. Stacked({"jump"})' /\ Base' = Base /\ (Within("jump")' <=> Within("jump"))
  BY FromOutside DEF ReadInv, Stacked, Base, Within
<1>3. /\ at' = at /\ pc' = pc /\ stack' = stack /\ disp' = disp /\ env' = env /\ kid' = kid
      /\ pending \subseteq pending'
      /\ \A s \in pending' : s \in pending \/ (s = "ALRM" /\ alarm = 1)
      /\ \/ alarm' = alarm
         \/ alarm > 0 /\ alarm' = alarm - 1 /\ (alarm = 1 => "ALRM" \in pending')
  BY <1>1, FromOutside DEF ReadInv
<1> QED
  BY <1>2, <1>3 DEF ReadInv

\* sigtstp.c: the disposition follows from where the process is, and a handler that was called
\* inside the handler returns to a step at which it was set.  A process that inherited SIG_IGN
\* never leaves main.
TstpInv ==
  /\ Stacked({"sig_tstp"})
  /\ at \in {"sigtstp", "sig_tstp"} => pc \in 1 .. 5
  /\ \A k \in DOMAIN stack : /\ stack[k][1] = "sigtstp" => stack[k][2] \in 4 .. 5
                             /\ stack[k][1] = "sig_tstp" => stack[k][2] \in {1, 2, 5}
  /\ pending \subseteq {"TSTP"} /\ alarm = 0 /\ kid = "none"
  /\ disp \in [AllSignals -> {"dfl", "ign", "sig_tstp"}]
  /\ saved \in [AllSignals -> {"dfl", "ign"}]
  /\ at = "sigtstp" /\ saved["TSTP"] = "dfl" =>
       disp["TSTP"] = IF pc = 1 THEN "dfl" ELSE IF pc \in {2, 3} THEN "ign" ELSE "sig_tstp"
  /\ at = "sig_tstp" => disp["TSTP"] = IF pc \in {3, 4} THEN "dfl" ELSE "sig_tstp"
  /\ saved["TSTP"] = "ign" => /\ at = "sigtstp" /\ pc # 3
                              /\ disp["TSTP"] = "ign" /\ st # "stopped"

\* The steps of the code.
LEMMA TstpCode ==
  /\ at = "sigtstp" =>
       /\ pc = 1 => Op = <<"keep", "TSTP", "ign">>
       /\ pc = 2 => Op = <<"unlessDfl", "TSTP", 4>>
       /\ pc = 3 => Op = <<"signal", "TSTP", "sig_tstp">>
       /\ pc = 4 => Op = <<"read", 4>>
       /\ pc = 5 => Op = <<"exit">>
  /\ at = "sig_tstp" =>
       /\ pc = 1 => Op = <<"unblock", {"TSTP"}>>
       /\ pc = 2 => Op = <<"signal", "TSTP", "dfl">>
       /\ pc = 3 => Op = <<"kill", "TSTP">>
       /\ pc = 4 => Op = <<"signal", "TSTP", "sig_tstp">>
       /\ pc = 5 => Op = <<"return">>
<1>1. /\ SignalPrograms_!code["sigtstp"] = SignalPrograms_!sigtstp
      /\ SignalPrograms_!code["sig_tstp"] = SignalPrograms_!sig_tstp
  BY DEF SignalPrograms_!code
<1> QED
  BY <1>1 DEF Op, SignalPrograms_!Op, SignalPrograms_!sigtstp, SignalPrograms_!sig_tstp

\* The steps of sigtstp.c and of its handler.
LEMMA TstpCalls == ASSUME prog = "sigtstp", TstpInv, Called PROVE TstpInv'
<1> DEFINE H == {"sig_tstp"}
<1>0. prog' = prog /\ Stacked(H) /\ pc \in Nat /\ mask \subseteq AllSignals
        /\ at \in {"sigtstp", "sig_tstp"}
  BY CallKeeps DEF TstpInv, Stacked
<1>1. CASE at = "sigtstp"
  <2>0. pc \in 1 .. 5 /\ "TSTP" \in AllSignals
    BY <1>1 DEF TstpInv, AllSignals, SignalPrograms_!Signals
  <2>1. Op[1] \in {"keep", "unlessDfl", "signal", "read", "exit"}
    BY <1>1, <2>0, TstpCode
  <2>2. /\ at' = at /\ stack' = stack /\ mask' = mask /\ pending' \subseteq pending /\ kid' = kid
        /\ alarm' = alarm
    BY <2>1, CallKeeps
  <2>3. /\ pc = 1 => pc' = 2
        /\ pc = 2 => pc' = IF saved["TSTP"] # "dfl" THEN 4 ELSE 3
        /\ pc = 3 => pc' = 4
        /\ pc = 4 => pc' \in {4, 5}
        /\ pc = 5 => pc' = 5
    BY <1>0, <1>1, CallKeeps, CallDoes, TstpCode
  <2>4. /\ disp' = IF pc = 1 THEN [disp EXCEPT !["TSTP"] = "ign"]
                   ELSE IF pc = 3 THEN [disp EXCEPT !["TSTP"] = "sig_tstp"] ELSE disp
        /\ saved' = IF pc = 1 THEN [saved EXCEPT !["TSTP"] = disp["TSTP"]] ELSE saved
        /\ st' \in {st, "exit"}
    BY <1>1, <2>0, CallKeeps, CallDoes, TstpCode
  <2>7. saved["TSTP"] \in {"dfl", "ign"} /\ (pc = 1 => disp["TSTP"] = saved["TSTP"])
    BY <1>1, <2>0 DEF TstpInv
  <2>8. saved' \in [AllSignals -> {"dfl", "ign"}] /\ saved'["TSTP"] = saved["TSTP"]
    BY <2>0, <2>4, <2>7 DEF TstpInv
  <2>9. saved["TSTP"] = "ign" => disp["TSTP"] = "ign" /\ st # "stopped" /\ pc # 3
    BY DEF TstpInv
  <2>10. saved["TSTP"] = "dfl" =>
           disp["TSTP"] = IF pc = 1 THEN "dfl" ELSE IF pc \in {2, 3} THEN "ign" ELSE "sig_tstp"
    BY <1>1 DEF TstpInv
  <2>11. disp \in [AllSignals -> {"dfl", "ign", "sig_tstp"}]
    BY DEF TstpInv
  <2>12. disp'["TSTP"] = IF pc = 1 THEN "ign" ELSE IF pc = 3 THEN "sig_tstp" ELSE disp["TSTP"]
    BY <2>0, <2>4, <2>11
  <2>5. /\ disp' \in [AllSignals -> {"dfl", "ign", "sig_tstp"}]
        /\ saved["TSTP"] = "dfl" =>
             disp'["TSTP"] = IF pc' = 1 THEN "dfl" ELSE IF pc' \in {2, 3} THEN "ign"
                             ELSE "sig_tstp"
        /\ saved["TSTP"] = "ign" => disp'["TSTP"] = "ign" /\ pc' # 3 /\ st' # "stopped"
    <3>1. disp' \in [AllSignals -> {"dfl", "ign", "sig_tstp"}]
      BY <2>0, <2>4, <2>11
    <3>2. saved["TSTP"] = "dfl" =>
             disp'["TSTP"] = IF pc' = 1 THEN "dfl" ELSE IF pc' \in {2, 3} THEN "ign"
                             ELSE "sig_tstp"
      BY <2>0, <2>3, <2>10, <2>12
    <3>3. saved["TSTP"] = "ign" => disp'["TSTP"] = "ign" /\ pc' # 3 /\ st' # "stopped"
      BY <2>0, <2>3, <2>4, <2>9, <2>12
    <3> QED
      BY <3>1, <3>2, <3>3
  <2>6. Stacked(H)'
    <3>1. pc' \in 1 .. 10
      BY <2>0, <2>3
    <3> QED
      BY <1>0, <2>2, <3>1, GoesOn
  <2>13. pc' \in 1 .. 5
    BY <2>0, <2>3
  <2> QED
    BY <1>1, <2>2, <2>5, <2>6, <2>8, <2>13 DEF TstpInv
<1>2. CASE at = "sig_tstp" /\ pc \in {1, 2, 4}
  <2>1. Op[1] \in {"signal", "unblock"}
    BY <1>2, TstpCode
  <2>2. /\ at' = at /\ stack' = stack /\ pending' \subseteq pending /\ kid' = kid /\ alarm' = alarm
        /\ pc' = pc + 1 /\ saved' = saved
    BY <2>1, CallKeeps
  <2>3. mask' \subseteq AllSignals
    BY <1>0, <1>2, CallKeeps, CallDoes, TstpCode
  <2>4. disp' = IF pc = 2 THEN [disp EXCEPT !["TSTP"] = "dfl"]
                ELSE IF pc = 4 THEN [disp EXCEPT !["TSTP"] = "sig_tstp"] ELSE disp
    BY <1>2, CallKeeps, CallDoes, TstpCode
  <2>5. /\ disp' \in [AllSignals -> {"dfl", "ign", "sig_tstp"}]
        /\ disp'["TSTP"] = IF pc' \in {3, 4} THEN "dfl" ELSE "sig_tstp"
    BY <1>2, <2>2, <2>4 DEF TstpInv, AllSignals, SignalPrograms_!Signals
  <2>6. Stacked(H)'
    <3>1. pc' \in 1 .. 10
      BY <1>2, <2>2
    <3> QED
      BY <1>0, <2>2, <2>3, <3>1, GoesOn
  <2> QED
    BY <1>2, <2>2, <2>5, <2>6 DEF TstpInv
<1>3. CASE at = "sig_tstp" /\ pc = 3
  <2>1. Op = <<"kill", "TSTP">> /\ disp["TSTP"] = "dfl"
    BY <1>3, TstpCode DEF TstpInv
  <2>2. /\ at' = at /\ stack' = stack /\ mask' = mask /\ kid' = kid /\ alarm' = alarm
             /\ disp' = disp /\ saved' = saved
        /\ pc' = 4 /\ pending' \subseteq {"TSTP"}
    <3>1. kid' = kid /\ alarm' = alarm /\ disp' = disp /\ saved' = saved
      BY <2>1, CallKeeps
    <3>2. IF "TSTP" \in mask
          THEN pending' = pending \cup {"TSTP"} /\ pc' = pc + 1
            /\ UNCHANGED <<at, stack, st, mask>>
          ELSE pending' = pending \ {"TSTP"} /\ SignalPrograms_!Takes("TSTP", mask, pc + 1, mask)
      BY <2>1, CallDoes
    <3>3. pending \subseteq {"TSTP"}
      BY DEF TstpInv
    <3>4. CASE "TSTP" \in mask
      <4>1. /\ pending' = pending \cup {"TSTP"} /\ pc' = pc + 1
            /\ at' = at /\ stack' = stack /\ mask' = mask
        BY <3>2, <3>4
      <4>2. pending' \subseteq {"TSTP"}
        BY <3>3, <4>1
      <4> QED
        BY <1>3, <3>1, <4>1, <4>2
    <3>5. CASE "TSTP" \notin mask
      <4>1. SignalPrograms_!Takes("TSTP", mask, pc + 1, mask)
        BY <3>2, <3>5
      <4>2. pc' = pc + 1 /\ at' = at /\ stack' = stack /\ mask' = mask
        BY <2>1, <4>1 DEF SignalPrograms_!Takes, SignalPrograms_!GoTo
      <4>3. pending' \subseteq {"TSTP"}
        BY <3>2, <3>3, <3>5
      <4> QED
        BY <1>3, <3>1, <4>2, <4>3
    <3> QED
      BY <3>4, <3>5
  <2>3. Stacked(H)'
    BY <1>0, <2>2, GoesOn
  <2> QED
    BY <1>3, <2>1, <2>2, <2>3 DEF TstpInv
<1>4. CASE at = "sig_tstp" /\ pc = 5
  <2>1. Op = <<"return">>
    BY <1>4, TstpCode
  <2>2. /\ pending' = pending /\ disp' = disp /\ alarm' = alarm /\ kid' = kid /\ saved' = saved
        /\ at' = stack[Len(stack)][1] /\ pc' = stack[Len(stack)][2] /\ mask' = stack[Len(stack)][3]
        /\ stack' = SubSeq(stack, 1, Len(stack) - 1)
    BY <2>1, CallKeeps, CallDoes
  <2>3. /\ Stacked(H)' /\ Len(stack) \in DOMAIN stack
        /\ \A k \in DOMAIN stack' : k \in DOMAIN stack /\ stack'[k] = stack[k]
    BY <1>0, <1>4, <2>2, HandlerReturns
  <2>4. /\ at' = "sigtstp" => pc' \in 4 .. 5
        /\ at' = "sig_tstp" => pc' \in {1, 2, 5}
    BY <2>2, <2>3 DEF TstpInv
  <2>5. disp["TSTP"] = "sig_tstp" /\ saved["TSTP"] # "ign"
    BY <1>4 DEF TstpInv
  <2>6. at' \in {"sigtstp", "sig_tstp"} => pc' \in 1 .. 5
    BY <2>4
  <2>7. at' = "sigtstp" \/ at' = "sig_tstp" => ~(pc' \in {3, 4} /\ at' = "sig_tstp")
    BY <2>4
  <2> QED
    BY <1>4, <2>2, <2>3, <2>4, <2>5, <2>6, <2>7 DEF TstpInv
<1> QED
  BY <1>0, <1>1, <1>2, <1>3, <1>4 DEF TstpInv

\* SIGTSTP is delivered: to the handler where it is set, and else it stops the process.
LEMMA TstpSignals ==
  ASSUME prog = "sigtstp", TstpInv, NEW s \in AllSignals, SignalPrograms_!Deliver(s) PROVE TstpInv'
<1> DEFINE H == {"sig_tstp"}
<1>0. /\ prog' = prog /\ Stacked(H) /\ pc \in 1 .. 10 /\ mask \in SUBSET AllSignals
      /\ at \in {"sigtstp", "sig_tstp"} /\ H \cap {"dfl", "ign"} = {}
  BY Delivery DEF TstpInv, Stacked
<1>1. /\ pending' = pending \ {s} /\ disp' = disp /\ alarm' = alarm /\ kid' = kid /\ s = "TSTP"
      /\ saved' = saved /\ st = "running"
  BY Delivery DEF TstpInv
<1>2. Op[1] \notin {"pause", "suspend"}
  <2>1. pc \in 1 .. 5
    BY <1>0 DEF TstpInv
  <2> QED
    BY <1>0, <2>1, TstpCode
<1>3. SignalPrograms_!Takes(s, mask, pc, mask)
  BY <1>1, <1>2, Delivery
<1>4. disp[s] \in {"dfl", "ign", "sig_tstp"}
  BY <1>1 DEF TstpInv
<1>5. CASE disp[s] \in {"dfl", "ign"}
  <2>1. /\ Stacked(H)' /\ at' = at /\ stack' = stack /\ pc' = pc
        /\ disp[s] = "ign" => st' = st
    BY <1>0, <1>3, <1>5, SignalTaken
  <2>2. saved["TSTP"] = "ign" => st' # "stopped"
    BY <1>1, <2>1 DEF TstpInv
  <2> QED
    BY <1>1, <2>1, <2>2 DEF TstpInv
<1>6. CASE disp[s] = "sig_tstp"
  <2>1. /\ Stacked(H)' /\ at' = "sig_tstp" /\ pc' = 1
        /\ \A k \in DOMAIN stack' : stack'[k] = IF k = Len(stack) + 1 THEN <<at, pc, mask>>
             ELSE stack[k]
        /\ \A k \in DOMAIN stack' : k # Len(stack) + 1 => k \in DOMAIN stack
    BY <1>0, <1>3, <1>6, SignalTaken
  <2>2. /\ at = "sigtstp" => pc \in 4 .. 5
        /\ at = "sig_tstp" => pc \in {1, 2, 5}
        /\ saved["TSTP"] # "ign"
    <3>1. disp["TSTP"] = "sig_tstp" /\ "TSTP" \in AllSignals
      BY <1>1, <1>6
    <3>2. saved["TSTP"] = "dfl"
      BY <3>1 DEF TstpInv
    <3> QED
      BY <3>1, <3>2 DEF TstpInv
  <2>3. ASSUME NEW k \in DOMAIN stack'
        PROVE  /\ stack'[k][1] = "sigtstp" => stack'[k][2] \in 4 .. 5
               /\ stack'[k][1] = "sig_tstp" => stack'[k][2] \in {1, 2, 5}
    <3>1. CASE k = Len(stack) + 1
      BY <2>1, <2>2, <3>1
    <3>2. CASE k # Len(stack) + 1
      BY <2>1, <3>2 DEF TstpInv
    <3> QED
      BY <3>1, <3>2
  <2> QED
    BY <1>1, <1>6, <2>1, <2>2, <2>3 DEF TstpInv
<1> QED
  BY <1>4, <1>5, <1>6

\* Others send SIGTSTP, and SIGCONT after it.
LEMMA TstpOutside ==
  ASSUME prog = "sigtstp", TstpInv,
         SignalPrograms_!Continue \/ SignalPrograms_!Tick \/ SignalPrograms_!Others
  PROVE  TstpInv'
<1>1. SignalPrograms_!Sent[prog] = {"TSTP"}
  BY DEF SignalPrograms_!Sent, SignalPrograms_!code
<1>2. Stacked({"sig_tstp"})'
  BY FromOutside DEF TstpInv, Stacked
<1>3. /\ at' = at /\ pc' = pc /\ stack' = stack /\ disp' = disp /\ kid' = kid /\ alarm' = alarm
      /\ saved' = saved /\ (st' = st \/ st' = "running")
      /\ \A s \in pending' : s \in pending \/ s = "TSTP"
  BY <1>1, FromOutside DEF TstpInv
<1> QED
  BY <1>2, <1>3 DEF TstpInv

\* suspend2.c: from the time SIGQUIT is blocked, main has it blocked, and where it waits the
\* handler has not set the flag since main has read it: it cannot run.
BaseMask == IF at = prog THEN mask ELSE stack[1][3]
SuspendInv ==
  /\ Stacked({"ret", "setflag"})
  /\ at = "suspend2" => pc \in 1 .. 9
  /\ at = "setflag" => pc \in 1 .. 2
  /\ at = "ret" => pc = 1
  /\ \A k \in DOMAIN stack : /\ stack[k][1] = "suspend2" => stack[k][2] \in 1 .. 9
                             /\ stack[k][1] = "setflag" => stack[k][2] \in 1 .. 2
                             /\ stack[k][1] = "ret" => stack[k][2] = 1
  /\ pending \subseteq {"INT", "QUIT"} /\ alarm = 0 /\ kid = "none" /\ flag \in {0, 1}
  /\ disp \in [AllSignals -> {"dfl", "ret", "setflag"}] /\ disp["INT"] # "setflag"
  /\ oldmask \subseteq AllSignals
  /\ Base \in 4 .. 8 => "QUIT" \in BaseMask
  /\ Base = 5 => /\ flag = 0 /\ ~Within("setflag") /\ "QUIT" \in mask
                 /\ \A k \in DOMAIN stack : "QUIT" \in stack[k][3]

\* The steps of the code.
LEMMA SuspendCode ==
  /\ at = "suspend2" =>
       /\ pc = 1 => Op = <<"signal", "INT", "ret">>
       /\ pc = 2 => Op = <<"signal", "QUIT", "setflag">>
       /\ pc = 3 => Op = <<"block", {"QUIT"}>>
       /\ pc = 4 => Op = <<"if", 1, 7>>
       /\ pc = 5 => Op = <<"suspend", {}>>
       /\ pc = 6 => Op = <<"goto", 4>>
       /\ pc = 7 => Op = <<"set", 0>>
       /\ pc = 8 => Op = <<"oldmask">>
       /\ pc = 9 => Op = <<"exit">>
  /\ at = "setflag" => (pc = 1 => Op = <<"set", 1>>) /\ (pc = 2 => Op = <<"return">>)
  /\ at = "ret" => (pc = 1 => Op = <<"return">>)
<1>1. /\ SignalPrograms_!code["suspend2"] = SignalPrograms_!suspend2
      /\ SignalPrograms_!code["setflag"] = << <<"set", 1>>, <<"return">> >>
      /\ SignalPrograms_!code["ret"] = << <<"return">> >>
  BY DEF SignalPrograms_!code
<1> QED
  BY <1>1 DEF Op, SignalPrograms_!Op, SignalPrograms_!suspend2

\* A handler that returns gives main the mask back that it was called with.
LEMMA MaskReturns ==
  ASSUME NEW h, Stacked(h), at # prog, prog' = prog, Stacked(h)',
         at' = stack[Len(stack)][1], mask' = stack[Len(stack)][3],
         stack' = SubSeq(stack, 1, Len(stack) - 1)
  PROVE  BaseMask' = BaseMask
<1> DEFINE F == ({prog} \cup h) \X (1 .. 10) \X SUBSET AllSignals
<1>1. PICK len \in Nat : len = Len(stack) /\ DOMAIN stack = 1 .. len /\ stack \in Seq(F)
  BY DEF Stacked
<1> HIDE DEF F
<1>2. len # 0 /\ len \in 1 .. len
  BY <1>1 DEF Stacked
<1>3. CASE at' = prog
  <2>1. len = 1
    BY <1>1, <1>2, <1>3 DEF Stacked
  <2> QED
    BY <1>1, <1>3, <2>1 DEF BaseMask
<1>4. CASE at' # prog
  <2>1. len # 1
    BY <1>1, <1>2, <1>4 DEF Stacked
  <2>2. stack'[1] = stack[1]
    BY <1>1, <1>2, <2>1
  <2> QED
    BY <1>4, <2>2 DEF BaseMask
<1> QED
  BY <1>3, <1>4

\* The steps of suspend2.c and of its handlers.
LEMMA SuspendCalls == ASSUME prog = "suspend2", SuspendInv, Called PROVE SuspendInv'
<1> DEFINE H == {"ret", "setflag"}
<1>0. /\ prog' = prog /\ Stacked(H) /\ pc \in Nat /\ mask \subseteq AllSignals
      /\ at \in {"suspend2", "ret", "setflag"}
  BY CallKeeps DEF SuspendInv, Stacked
<1>1. CASE at = "suspend2" /\ pc # 5
  <2>0. pc \in {1, 2, 3, 4, 6, 7, 8, 9}
    BY <1>1 DEF SuspendInv
  <2>1. Op[1] \in {"signal", "block", "if", "goto", "set", "oldmask", "exit"}
    BY <1>1, <2>0, SuspendCode
  <2>2. /\ at' = at /\ stack' = stack /\ pending' \subseteq pending /\ kid' = kid /\ alarm' = alarm
    BY <2>1, CallKeeps
  <2>3. pc' = IF pc = 4 THEN IF flag = 1 THEN 7 ELSE 5
              ELSE IF pc = 6 THEN 4 ELSE IF pc = 9 THEN 9 ELSE pc + 1
    <3>1. CASE pc \in {1, 2, 3, 7, 8}
      BY <1>1, <3>1, CallKeeps, SuspendCode
    <3>2. CASE pc \in {4, 6, 9}
      BY <1>1, <3>2, CallDoes, SuspendCode
    <3> QED
      BY <2>0, <3>1, <3>2
  <2>4. pc' \in 1 .. 9 /\ pc' \in 1 .. 10 /\ (pc' = 5 => pc = 4 /\ flag # 1)
        /\ (pc' \in 4 .. 8 => pc \in {3, 4, 6, 7})
    BY <2>0, <2>3
  <2>5. /\ pc \notin {3, 8} => mask' = mask /\ oldmask' = oldmask
        /\ pc = 3 => mask' = mask \cup {"QUIT"} /\ oldmask' = mask
        /\ pc = 8 => mask' = oldmask /\ oldmask' = oldmask
    BY <1>1, <2>0, CallKeeps, CallDoes, SuspendCode
  <2>6. mask' \subseteq AllSignals /\ oldmask' \subseteq AllSignals
    BY <1>0, <2>5 DEF SuspendInv, AllSignals, SignalPrograms_!Signals
  <2>7. Stacked(H)' /\ Base' = pc' /\ Base = pc /\ DOMAIN stack = {} /\ ~Within("setflag")'
    BY <1>0, <1>1, <2>2, <2>4, <2>6, GoesOn
  <2>8. disp' = IF pc = 1 THEN [disp EXCEPT !["INT"] = "ret"]
                ELSE IF pc = 2 THEN [disp EXCEPT !["QUIT"] = "setflag"] ELSE disp
    BY <1>1, <2>0, CallKeeps, CallDoes, SuspendCode
  <2>9. disp' \in [AllSignals -> {"dfl", "ret", "setflag"}] /\ disp'["INT"] # "setflag"
    BY <2>8 DEF SuspendInv, AllSignals, SignalPrograms_!Signals
  <2>10. flag' = IF pc = 7 THEN 0 ELSE flag
    BY <1>1, <2>0, CallKeeps, CallDoes, SuspendCode
  <2>11. pc' \in 4 .. 8 => "QUIT" \in mask'
    <3>1. pc \in {4, 6, 7} => "QUIT" \in mask
      BY <1>0, <1>1, <2>7 DEF SuspendInv, BaseMask
    <3> QED
      BY <2>4, <2>5, <3>1
  <2>12. BaseMask' = mask'
    BY <1>0, <1>1, <2>2 DEF BaseMask
  <2>13. flag' \in {0, 1} /\ (pc' = 5 => flag' = 0)
    BY <2>4, <2>10 DEF SuspendInv
  <2> QED
    BY <1>1, <2>2, <2>4, <2>6, <2>7, <2>9, <2>11, <2>12, <2>13 DEF SuspendInv
<1>2. CASE at = "suspend2" /\ pc = 5
  BY <1>2, SuspendCode, CallKeeps
<1>3. CASE at = "setflag" /\ pc = 1
  <2>1. Op = <<"set", 1>>
    BY <1>3, SuspendCode
  <2>2. /\ at' = at /\ stack' = stack /\ mask' = mask /\ pending' = pending /\ pc' = 2
             /\ disp' = disp
        /\ alarm' = alarm /\ kid' = kid /\ oldmask' = oldmask /\ flag' = 1
    BY <1>3, <2>1, CallKeeps, CallDoes
  <2>3. Stacked(H)' /\ Base' = Base
    BY <1>0, <1>3, <2>2, GoesOn
  <2>4. BaseMask' = BaseMask /\ Base # 5
    BY <1>0, <1>3, <2>2 DEF SuspendInv, Within, BaseMask
  <2> QED
    BY <1>3, <2>2, <2>3, <2>4 DEF SuspendInv
<1>4. CASE (at = "setflag" /\ pc = 2) \/ at = "ret"
  <2>1. Op = <<"return">>
    BY <1>4, SuspendCode DEF SuspendInv
  <2>2. /\ pending' = pending /\ disp' = disp /\ alarm' = alarm /\ kid' = kid /\ oldmask' = oldmask
        /\ flag' = flag
        /\ at' = stack[Len(stack)][1] /\ pc' = stack[Len(stack)][2] /\ mask' = stack[Len(stack)][3]
        /\ stack' = SubSeq(stack, 1, Len(stack) - 1)
    BY <2>1, CallKeeps, CallDoes
  <2>3. /\ Stacked(H)' /\ Base' = Base /\ (Within("setflag")' => Within("setflag"))
        /\ Len(stack) \in DOMAIN stack
        /\ \A k \in DOMAIN stack' : k \in DOMAIN stack /\ stack'[k] = stack[k]
    BY <1>0, <1>4, <2>2, HandlerReturns
  <2>4. BaseMask' = BaseMask
    BY <1>0, <1>4, <2>2, <2>3, MaskReturns
  <2>5. /\ at' = "suspend2" => pc' \in 1 .. 9
        /\ at' = "setflag" => pc' \in 1 .. 2
        /\ at' = "ret" => pc' = 1
        /\ Base = 5 => "QUIT" \in mask'
    BY <2>2, <2>3 DEF SuspendInv
  <2> QED
    BY <2>2, <2>3, <2>4, <2>5 DEF SuspendInv
<1> QED
  BY <1>0, <1>1, <1>2, <1>3, <1>4 DEF SuspendInv

\* A signal is delivered to it: while main is at sigsuspend, SIGQUIT only by sigsuspend.
LEMMA SuspendSignals ==
  ASSUME prog = "suspend2", SuspendInv, NEW s \in AllSignals, SignalPrograms_!Deliver(s)
  PROVE  SuspendInv'
<1> DEFINE H == {"ret", "setflag"}
<1>0. /\ prog' = prog /\ Stacked(H) /\ pc \in 1 .. 10 /\ mask \in SUBSET AllSignals
      /\ at \in {"suspend2", "ret", "setflag"} /\ H \cap {"dfl", "ign"} = {}
      /\ Base \in Nat /\ (at = prog => Base = pc)
      /\ at # prog => 1 \in DOMAIN stack
  BY Delivery, BaseIs DEF SuspendInv, Stacked
<1>1. /\ pending' = pending \ {s} /\ disp' = disp /\ alarm' = alarm /\ kid' = kid /\ flag' = flag
      /\ oldmask' = oldmask /\ s \in {"INT", "QUIT"}
  BY Delivery DEF SuspendInv
<1>2. Op[1] \in {"pause", "suspend", "read"} => Op = <<"suspend", {}>> /\ at = "suspend2" /\ pc = 5
  BY <1>0, SuspendCode DEF SuspendInv
<1>3. PICK then \in 1 .. 10, during \in SUBSET AllSignals :
        /\ SignalPrograms_!Takes(s, during, then, mask)
        /\ \/ then = pc /\ during = mask /\ s \notin mask
           \/ at = "suspend2" /\ pc = 5 /\ then = 6
  <2>1. CASE s \notin mask /\ SignalPrograms_!Takes(s, mask, pc, mask)
    BY <1>0, <2>1
  <2>2. CASE Op[1] = "suspend" /\ SignalPrograms_!Takes(s, Op[2], pc + 1, mask)
    <3>1. SignalPrograms_!Takes(s, {}, 6, mask)
      BY <1>2, <2>2
    <3> QED
      BY <1>2, <2>2, <3>1
  <2> QED
    BY <1>2, <2>1, <2>2, Delivery
<1>4. disp[s] \in H \cup {"dfl", "ign"} /\ (disp[s] = "setflag" => s = "QUIT") /\ disp[s] # "ign"
  BY <1>1 DEF SuspendInv
<1>5. CASE disp[s] \notin H
  <2>1. /\ Stacked(H)' /\ at' = at /\ stack' = stack /\ mask' = mask
        /\ Base' = (IF at = prog THEN pc' ELSE Base)
        /\ (Within("setflag")' <=> Within("setflag")) /\ pc' \in {pc, then}
    BY <1>0, <1>3, <1>4, <1>5, SignalTaken
  <2>2. BaseMask' = BaseMask /\ (Base' = Base \/ (Base = 5 /\ Base' = 6))
    BY <1>0, <1>3, <2>1 DEF BaseMask
  <2>3. pc' = pc \/ (at = "suspend2" /\ pc' = 6)
    BY <1>3, <2>1
  <2> QED
    BY <1>0, <1>1, <2>1, <2>2, <2>3 DEF SuspendInv
<1>6. CASE disp[s] \in H
  <2>1. /\ Stacked(H)' /\ at' = disp[s] /\ pc' = 1 /\ mask' = during \cup {s}
        /\ Base' = (IF at = prog THEN then ELSE Base) /\ Len(stack') = Len(stack) + 1
        /\ \A k \in DOMAIN stack' : stack'[k] = IF k = Len(stack) + 1 THEN <<at, then, mask>>
             ELSE stack[k]
        /\ \A k \in DOMAIN stack' : k # Len(stack) + 1 => k \in DOMAIN stack
        /\ (Within("setflag")' <=> Within("setflag") \/ at' = "setflag")
    BY <1>0, <1>3, <1>4, <1>6, SignalTaken
  <2>2. Base' \in Nat /\ (Base' = Base \/ (Base = 5 /\ Base' = 6))
        /\ (Base' = 5 => during = mask /\ s \notin mask)
    BY <1>0, <1>3, <2>1
  <2>3. ASSUME NEW k \in DOMAIN stack'
        PROVE  /\ stack'[k][1] = "suspend2" => stack'[k][2] \in 1 .. 9
               /\ stack'[k][1] = "setflag" => stack'[k][2] \in 1 .. 2
               /\ stack'[k][1] = "ret" => stack'[k][2] = 1
               /\ Base' = 5 => "QUIT" \in stack'[k][3]
    <3>1. CASE k = Len(stack) + 1
      <4>1. stack'[k] = <<at, then, mask>>
        BY <2>1, <3>1
      <4> QED
        BY <1>0, <1>3, <2>2, <4>1 DEF SuspendInv
    <3>2. CASE k # Len(stack) + 1
      BY <2>1, <2>2, <3>2 DEF SuspendInv
    <3> QED
      BY <3>1, <3>2
  <2>4. BaseMask' = BaseMask
    <3>1. Len(stack) \in Nat /\ DOMAIN stack = 1 .. Len(stack) /\ (at = prog <=> Len(stack) = 0)
      BY <1>0, EmptySeq DEF Stacked
    <3>2. 1 \in DOMAIN stack' /\ at' # prog'
      BY <1>0, <1>6, <2>1, <3>1 DEF Stacked
    <3>3. stack'[1] = IF at = prog THEN <<at, then, mask>> ELSE stack[1]
      BY <2>1, <3>1, <3>2
    <3> QED
      BY <3>2, <3>3 DEF BaseMask
  <2>5. Base' = 5 => "QUIT" \in mask /\ s # "QUIT" /\ at' # "setflag" /\ "QUIT" \in mask'
    BY <1>1, <1>4, <2>1, <2>2 DEF SuspendInv
  <2>6. at' \in H /\ (at' = "ret" => pc' = 1) /\ (at' = "setflag" => pc' \in 1 .. 2)
          /\ at' # "suspend2"
    BY <1>6, <2>1
  <2>7. Base' = 5 => flag = 0 /\ ~Within("setflag")'
    BY <2>1, <2>2, <2>5 DEF SuspendInv
  <2>8. Base' \in 4 .. 8 => "QUIT" \in BaseMask'
    BY <2>2, <2>4 DEF SuspendInv
  <2> QED
    BY <1>1, <2>1, <2>3, <2>5, <2>6, <2>7, <2>8 DEF SuspendInv
<1> QED
  BY <1>5, <1>6

\* Others send SIGINT and SIGQUIT.
LEMMA SuspendOutside ==
  ASSUME prog = "suspend2", SuspendInv,
         SignalPrograms_!Continue \/ SignalPrograms_!Tick \/ SignalPrograms_!Others
  PROVE  SuspendInv'
<1>1. SignalPrograms_!Sent[prog] = {"INT", "QUIT"}
  BY DEF SignalPrograms_!Sent, SignalPrograms_!code
<1>2. /\ Stacked({"ret", "setflag"})' /\ Base' = Base /\ BaseMask' = BaseMask
      /\ (Within("setflag")' <=> Within("setflag"))
  BY FromOutside DEF SuspendInv, Stacked, Base, BaseMask, Within
<1>3. /\ at' = at /\ pc' = pc /\ stack' = stack /\ disp' = disp /\ kid' = kid /\ alarm' = alarm
      /\ flag' = flag /\ mask' = mask /\ oldmask' = oldmask
      /\ \A s \in pending' : s \in pending \/ s \in {"INT", "QUIT"}
  BY <1>1, FromOutside DEF SuspendInv
<1> QED
  BY <1>2, <1>3 DEF SuspendInv

\* abort.c: it runs, or SIGABRT has ended it with its streams flushed.
AbortRuns ==
  /\ st = "running"
  /\ at = "abort" => pc \in 1 .. 8
  /\ at = "ret" => pc = 1 /\ Len(stack) = 1 /\ Base = 5
  /\ Base >= 2 => disp["ABRT"] # "ign"
  /\ Base >= 3 /\ disp["ABRT"] = "dfl" => flushed
  /\ Base >= 6 => flushed
  /\ Base >= 7 => disp["ABRT"] = "dfl"
  /\ at = "abort" /\ pc \in {4, 8} => mask = {"INT", "QUIT"}
AbortInv ==
  /\ Stacked({"ret"}) /\ pending = {} /\ alarm = 0 /\ kid = "none"
  /\ disp \in [AllSignals -> {"dfl", "ign", "ret"}]
  /\ AbortRuns \/ (st = "ABRT" /\ flushed)

\* The steps of the code.
LEMMA AbortCode ==
  /\ at = "abort" =>
       /\ pc = 1 => Op = <<"unignore", "ABRT">>
       /\ pc = 2 => Op = <<"flushIf", "ABRT">>
       /\ pc = 3 => Op = <<"mask", {"INT", "QUIT"}>>
       /\ pc = 4 => Op = <<"kill", "ABRT">>
       /\ pc = 5 => Op = <<"flush">>
       /\ pc = 6 => Op = <<"signal", "ABRT", "dfl">>
       /\ pc = 7 => Op = <<"mask", {"INT", "QUIT"}>>
       /\ pc = 8 => Op = <<"kill", "ABRT">>
  /\ at = "ret" => (pc = 1 => Op = <<"return">>)
<1>1. /\ SignalPrograms_!code["abort"] = SignalPrograms_!abort
      /\ SignalPrograms_!code["ret"] = << <<"return">> >>
  BY DEF SignalPrograms_!code
<1> QED
  BY <1>1 DEF Op, SignalPrograms_!Op, SignalPrograms_!abort

\* The steps of abort.c: the first SIGABRT goes to the handler or ends it, the second ends it.
LEMMA AbortCalls == ASSUME prog = "abort", AbortInv, Called PROVE AbortInv'
<1> DEFINE H == {"ret"}
<1>0. /\ prog' = prog /\ Stacked(H) /\ pc \in Nat /\ mask \in SUBSET AllSignals /\ st = "running"
      /\ at \in {"abort", "ret"} /\ H \cap {"dfl", "ign"} = {}
  BY CallKeeps DEF AbortInv, AbortRuns, Stacked
<1>1. CASE at = "abort" /\ pc \notin {4, 8}
  <2>0. pc \in {1, 2, 3, 5, 6, 7}
    BY <1>0, <1>1 DEF AbortInv, AbortRuns
  <2>1. Op[1] \in {"unignore", "flushIf", "mask", "flush", "signal"}
    BY <1>1, <2>0, AbortCode
  <2>2. /\ at' = at /\ stack' = stack /\ pending' \subseteq pending /\ kid' = kid /\ alarm' = alarm
        /\ st' = st /\ pc' = pc + 1
    BY <2>1, CallKeeps
  <2>3. mask' = IF pc \in {3, 7} THEN {"INT", "QUIT"} ELSE mask
    BY <1>1, <2>0, CallKeeps, CallDoes, AbortCode
  <2>4. mask' \subseteq AllSignals /\ pc' \in 1 .. 10
    BY <1>0, <2>0, <2>2, <2>3 DEF AllSignals, SignalPrograms_!Signals
  <2>5. Stacked(H)' /\ Base' = pc' /\ Base = pc
    BY <1>0, <1>1, <2>2, <2>4, GoesOn
  <2>6. disp' = IF pc = 1 THEN [disp EXCEPT !["ABRT"] = IF disp["ABRT"] = "ign" THEN "dfl"
          ELSE disp["ABRT"]]
                ELSE IF pc = 6 THEN [disp EXCEPT !["ABRT"] = "dfl"] ELSE disp
    BY <1>1, <2>0, CallKeeps, CallDoes, AbortCode
  <2>7. /\ pc = 2 => (flushed' <=> flushed \/ disp["ABRT"] = "dfl")
        /\ pc = 5 => flushed'
        /\ pc \notin {2, 5} => flushed' = flushed
    <3>1. ASSUME pc = 2 PROVE flushed' = (flushed \/ disp["ABRT"] = "dfl")
      <4>1. Op[1] = "flushIf" /\ Op[2] = "ABRT"
        BY <1>1, <3>1, AbortCode
      <4> QED
        BY <4>1, CallDoes
    <3>2. ASSUME pc = 5 PROVE flushed' = TRUE
      <4>1. Op[1] = "flush"
        BY <1>1, <3>2, AbortCode
      <4> QED
        BY <4>1, CallDoes
    <3>3. ASSUME pc \notin {2, 5} PROVE flushed' = flushed
      <4>1. Op[1] \notin {"flush", "flushIf"}
        BY <1>1, <2>0, <3>3, AbortCode
      <4> QED
        BY <4>1, CallKeeps
    <3> QED
      BY <3>1, <3>2, <3>3
  <2>8. /\ disp' \in [AllSignals -> {"dfl", "ign", "ret"}]
        /\ disp'["ABRT"] = IF (pc = 1 /\ disp["ABRT"] = "ign") \/ pc = 6 THEN "dfl"
             ELSE disp["ABRT"]
    BY <2>6 DEF AbortInv, AbortRuns, AllSignals, SignalPrograms_!Signals
  <2>9. /\ pc' >= 2 => disp'["ABRT"] # "ign"
        /\ pc' >= 7 => disp'["ABRT"] = "dfl"
    BY <1>0, <2>0, <2>2, <2>5, <2>8 DEF AbortInv, AbortRuns
  <2>10. /\ pc' >= 3 /\ disp'["ABRT"] = "dfl" => flushed'
         /\ pc' >= 6 => flushed'
    <3>1. CASE pc = 1
      BY <2>2, <3>1
    <3>2. CASE pc \in {2, 5}
      BY <2>2, <2>7, <2>8, <3>2
    <3>3. CASE pc \in {3, 6, 7}
      BY <1>0, <2>2, <2>5, <2>7, <2>8, <3>3 DEF AbortInv, AbortRuns
    <3> QED
      BY <2>0, <3>1, <3>2, <3>3
  <2>11. pc' \in 1 .. 8 /\ (pc' \in {4, 8} => mask' = {"INT", "QUIT"})
    BY <2>0, <2>2, <2>3
  <2>12. pending' = {} /\ kid' = "none" /\ alarm' = 0 /\ st' = "running" /\ at' = "abort"
           /\ at' # "ret"
    BY <1>0, <1>1, <2>2 DEF AbortInv, AbortRuns
  <2>13. AbortRuns'
    BY <2>5, <2>8, <2>9, <2>10, <2>11, <2>12 DEF AbortRuns
  <2> QED
    BY <2>5, <2>8, <2>12, <2>13 DEF AbortInv
<1>2. CASE at = "abort" /\ pc \in {4, 8}
  <2>1. Op = <<"kill", "ABRT">> /\ mask = {"INT", "QUIT"}
    BY <1>0, <1>2, AbortCode DEF AbortInv, AbortRuns
  <2>2. /\ disp' = disp /\ kid' = kid /\ alarm' = alarm /\ flushed' = flushed
        /\ pending' = pending \ {"ABRT"} /\ SignalPrograms_!Takes("ABRT", mask, pc + 1, mask)
    BY <2>1, CallKeeps, CallDoes
  <2>3. Base = pc /\ stack = <<>> /\ Len(stack) = 0 /\ (at = prog)
    BY <1>0, <1>2 DEF Base, Stacked
  <2>4. /\ disp["ABRT"] \in H \cup {"dfl", "ign"} /\ disp["ABRT"] # "ign" /\ "ABRT" \in AllSignals
        /\ disp["ABRT"] = "dfl" => flushed
        /\ disp["ABRT"] = "ret" => pc = 4
    BY <1>0, <1>2, <2>3 DEF AbortInv, AbortRuns, AllSignals, SignalPrograms_!Signals
  <2>5. pc + 1 \in 1 .. 10
    BY <1>2
  <2>6. CASE disp["ABRT"] = "dfl"
    <3>1. Stacked(H)' /\ st' = "ABRT"
      BY <1>0, <2>2, <2>4, <2>5, <2>6, SignalTaken
    <3> QED
      BY <2>2, <2>4, <2>6, <3>1 DEF AbortInv, AbortRuns
  <2>7. CASE disp["ABRT"] = "ret"
    <3>1. Stacked(H)' /\ at' = "ret" /\ pc' = 1 /\ st' = st /\ Base' = pc + 1
            /\ Len(stack') = Len(stack) + 1
      BY <1>0, <2>2, <2>3, <2>4, <2>5, <2>7, SignalTaken
    <3>2. Base' = 5 /\ Len(stack') = 1 /\ at' # "abort"
      BY <2>3, <2>4, <2>7, <3>1
    <3>3. /\ disp'["ABRT"] = "ret" /\ disp'["ABRT"] \notin {"dfl", "ign"} /\ st' = "running"
          /\ ~(Base' >= 6) /\ ~(Base' >= 7)
      BY <1>0, <2>2, <2>7, <3>1, <3>2
    <3>4. pending' = {} /\ kid' = "none" /\ alarm' = 0
            /\ disp' \in [AllSignals -> {"dfl", "ign", "ret"}]
      BY <2>2 DEF AbortInv, AbortRuns
    <3>5. AbortRuns'
      BY <3>1, <3>2, <3>3, Zenon DEF AbortRuns
    <3> QED
      BY <3>1, <3>4, <3>5 DEF AbortInv
  <2> QED
    BY <2>4, <2>6, <2>7
<1>3. CASE at = "ret"
  <2>1. Op = <<"return">> /\ Base = 5 /\ Len(stack) = 1
    BY <1>0, <1>3, AbortCode DEF AbortInv, AbortRuns
  <2>2. /\ pending' = pending /\ disp' = disp /\ alarm' = alarm /\ kid' = kid
             /\ flushed' = flushed /\ st' = st
        /\ at' = stack[Len(stack)][1] /\ pc' = stack[Len(stack)][2] /\ mask' = stack[Len(stack)][3]
        /\ stack' = SubSeq(stack, 1, Len(stack) - 1)
    BY <2>1, CallKeeps, CallDoes
  <2>3. Stacked(H)' /\ Base' = Base /\ Len(stack) \in DOMAIN stack
    BY <1>0, <1>3, <2>2, HandlerReturns
  <2>4. at' = "abort" /\ pc' = 5
    BY <1>0, <1>3, <2>1, <2>2, <2>3 DEF Stacked, Base
  <2> QED
    BY <1>0, <2>1, <2>2, <2>3, <2>4 DEF AbortInv, AbortRuns
<1> QED
  BY <1>0, <1>1, <1>2, <1>3

\* Nothing comes from outside.
LEMMA AbortSignals ==
  ASSUME prog = "abort", AbortInv, NEW s \in AllSignals, SignalPrograms_!Deliver(s) PROVE AbortInv'
BY Delivery DEF AbortInv, AbortRuns

LEMMA AbortOutside ==
  ASSUME prog = "abort", AbortInv,
         SignalPrograms_!Continue \/ SignalPrograms_!Tick \/ SignalPrograms_!Others
  PROVE  AbortInv'
<1>1. SignalPrograms_!Sent[prog] = {}
  BY DEF SignalPrograms_!Sent, SignalPrograms_!code
<1>2. Stacked({"ret"})' /\ Base' = Base
  BY FromOutside DEF AbortInv, AbortRuns, Stacked, Base
<1>3. /\ at' = at /\ pc' = pc /\ stack' = stack /\ disp' = disp /\ kid' = kid /\ alarm' = alarm
      /\ mask' = mask /\ flushed' = flushed /\ pending' = {} /\ st' = st
  BY <1>1, FromOutside DEF AbortInv, AbortRuns
<1> QED
  BY <1>2, <1>3 DEF AbortInv, AbortRuns

\* system.c: SIGCHLD stays blocked until waitpid has had the child, and the signals of the
\* terminal are ignored as long as it runs.
SystemInv ==
  /\ Stacked({"sig_cld"})
  /\ at = "sig_cld" => pc \in 1 .. 3 /\ Base = 10
  /\ \A k \in DOMAIN stack : stack[k][1] = "sig_cld" => stack[k][2] \in 1 .. 3
  /\ pending \subseteq {"INT", "QUIT", "CHLD"} /\ alarm = 0
  /\ disp \in [AllSignals -> {"dfl", "ign", "sig_cld"}]
  /\ saved \in [AllSignals -> {"dfl", "ign", "sig_cld"}]
  /\ \A s \in {"INT", "QUIT"} : disp[s] # "sig_cld" /\ saved[s] # "sig_cld"
  /\ oldmask \subseteq AllSignals
  /\ Base \in 3 .. 7 => disp["INT"] = "ign"
  /\ Base \in 4 .. 8 => disp["QUIT"] = "ign"
  /\ "CHLD" \in pending => Base >= 6
  /\ Base \in 5 .. 9 => "CHLD" \in mask
  /\ kid \in {"none", "runs", "zombie", "gone"}
  /\ Base <= 5 => kid = "none"
  /\ Base = 6 => kid \in {"runs", "zombie"}
  /\ Base >= 7 => kid # "runs"
  /\ status # "error" /\ (st \in {"INT", "QUIT"} => kid # "runs")

\* The steps of the code.
LEMMA SystemCode ==
  /\ at = "system" =>
       /\ pc = 1 => Op = <<"signal", "CHLD", "sig_cld">>
       /\ pc = 2 => Op = <<"keep", "INT", "ign">>
       /\ pc = 3 => Op = <<"keep", "QUIT", "ign">>
       /\ pc = 4 => Op = <<"block", {"CHLD"}>>
       /\ pc = 5 => Op = <<"fork", 7>>
       /\ pc = 6 => Op = <<"waitpid">>
       /\ pc = 7 => Op = <<"back", "INT">>
       /\ pc = 8 => Op = <<"back", "QUIT">>
       /\ pc = 9 => Op = <<"oldmask">>
       /\ pc = 10 => Op = <<"exit">>
  /\ at = "sig_cld" =>
       /\ pc = 1 => Op = <<"signal", "CHLD", "sig_cld">>
       /\ pc = 2 => Op = <<"wait">>
       /\ pc = 3 => Op = <<"return">>
<1>1. /\ SignalPrograms_!code["system"] = SignalPrograms_!system
      /\ SignalPrograms_!code["sig_cld"] = SignalPrograms_!sig_cld
  BY DEF SignalPrograms_!code
<1> QED
  BY <1>1 DEF Op, SignalPrograms_!Op, SignalPrograms_!system, SignalPrograms_!sig_cld

\* The steps of system.c and of its caller's handler.
LEMMA SystemCalls == ASSUME prog = "system", SystemInv, Called PROVE SystemInv'
<1> DEFINE H == {"sig_cld"}
<1>0. /\ prog' = prog /\ Stacked(H) /\ pc \in 1 .. 10 /\ mask \subseteq AllSignals
      /\ at \in {"system", "sig_cld"} /\ st = "running"
  BY CallKeeps DEF SystemInv, Stacked
<1>1. CASE at = "system"
  <2>0. pc \in {1, 2, 3, 4, 5, 6, 7, 8, 9, 10}
    BY <1>0
  <2>1. Op[1] \in {"signal", "keep", "block", "fork", "waitpid", "back", "oldmask", "exit"}
    BY <1>1, <2>0, SystemCode
  <2>2. /\ at' = at /\ stack' = stack /\ pending' \subseteq pending /\ alarm' = alarm
        /\ st' \in {"running", "exit"}
    BY <1>0, <1>1, <2>0, <2>1, CallKeeps, CallDoes, SystemCode
  <2>3. pc' = (IF pc = 10 THEN 10 ELSE pc + 1) \/ (pc = 5 /\ pc' = 7)
    <3>1. CASE pc \in {5, 10}
      BY <1>1, <3>1, CallDoes, SystemCode
    <3>2. CASE pc \notin {5, 10}
      BY <1>1, <2>0, <3>2, CallKeeps, SystemCode
    <3> QED
      BY <3>1, <3>2
  <2>4. /\ pc \notin {4, 9} => mask' = mask /\ oldmask' = oldmask
        /\ pc = 4 => mask' = mask \cup {"CHLD"} /\ oldmask' = mask
        /\ pc = 9 => mask' = oldmask /\ oldmask' = oldmask
    BY <1>1, <2>0, CallKeeps, CallDoes, SystemCode
  <2>5. mask' \subseteq AllSignals /\ oldmask' \subseteq AllSignals /\ pc' \in 1 .. 10
    <3>1. oldmask \subseteq AllSignals /\ mask \cup {"CHLD"} \subseteq AllSignals
      BY <1>0 DEF SystemInv, AllSignals, SignalPrograms_!Signals
    <3>2. mask' \subseteq AllSignals /\ oldmask' \subseteq AllSignals
      BY <1>0, <2>4, <3>1
    <3> QED
      BY <2>0, <2>3, <3>2
  <2>6. Stacked(H)' /\ Base' = pc' /\ Base = pc /\ DOMAIN stack = {}
    BY <1>0, <1>1, <2>2, <2>5, GoesOn
  <2>7. disp' = CASE pc = 1 -> [disp EXCEPT !["CHLD"] = "sig_cld"]
                  [] pc = 2 -> [disp EXCEPT !["INT"] = "ign"]
                  [] pc = 3 -> [disp EXCEPT !["QUIT"] = "ign"]
                  [] pc = 7 -> [disp EXCEPT !["INT"] = saved["INT"]]
                  [] pc = 8 -> [disp EXCEPT !["QUIT"] = saved["QUIT"]]
                  [] OTHER -> disp
    <3>1. CASE pc \in {1, 2, 3, 7, 8}
      BY <1>1, <3>1, CallDoes, SystemCode
    <3>2. CASE pc \in {4, 5, 6, 9, 10}
      BY <1>1, <3>2, CallKeeps, SystemCode
    <3> QED
      BY <2>0, <3>1, <3>2
  <2>8. saved' = CASE pc = 2 -> [saved EXCEPT !["INT"] = disp["INT"]]
                   [] pc = 3 -> [saved EXCEPT !["QUIT"] = disp["QUIT"]]
                   [] OTHER -> saved
    BY <1>1, <2>0, CallKeeps, CallDoes, SystemCode
  <2>9. /\ disp' \in [AllSignals -> {"dfl", "ign", "sig_cld"}]
        /\ saved' \in [AllSignals -> {"dfl", "ign", "sig_cld"}]
        /\ \A s \in {"INT", "QUIT"} : disp'[s] # "sig_cld" /\ saved'[s] # "sig_cld"
    BY <2>7, <2>8 DEF SystemInv, AllSignals, SignalPrograms_!Signals
  <2>10. /\ pc' \in 3 .. 7 => disp'["INT"] = "ign"
         /\ pc' \in 4 .. 8 => disp'["QUIT"] = "ign"
    BY <2>0, <2>3, <2>6, <2>7 DEF SystemInv, AllSignals, SignalPrograms_!Signals
  <2>11. pc' \in 5 .. 9 => "CHLD" \in mask'
    BY <2>0, <2>3, <2>4, <2>6 DEF SystemInv
  <2>12. "CHLD" \in pending' => pc' >= 6
    BY <2>0, <2>2, <2>3, <2>6 DEF SystemInv
  <2>13. /\ kid' \in {"none", "runs", "zombie", "gone"}
         /\ pc' <= 5 => kid' = "none"
         /\ pc' = 6 => kid' \in {"runs", "zombie"}
         /\ pc' >= 7 => kid' # "runs"
         /\ status' # "error"
    <3>1. CASE pc = 5
      <4>1. \/ pc' = pc + 1 /\ kid' = "runs" /\ status' = status
            \/ pc' = 7 /\ kid' = kid /\ status' = "noChild"
        BY <1>1, <3>1, CallDoes, SystemCode
      <4> QED
        BY <2>6, <3>1, <4>1 DEF SystemInv
    <3>2. CASE pc = 6
      <4>1. kid = "zombie" /\ kid' = "gone" /\ status' = "command"
        BY <1>1, <2>6, <3>2, CallDoes, SystemCode DEF SystemInv
      <4> QED
        BY <2>3, <3>2, <4>1
    <3>3. CASE pc \notin {5, 6}
      <4>1. kid' = kid /\ status' = status
        BY <1>1, <2>0, <3>3, CallKeeps, SystemCode
      <4> QED
        BY <2>0, <2>3, <2>6, <3>3, <4>1 DEF SystemInv
    <3> QED
      BY <3>1, <3>2, <3>3
  <2>14. alarm' = 0 /\ pending' \subseteq {"INT", "QUIT", "CHLD"} /\ at' # "sig_cld"
           /\ DOMAIN stack' = {}
         /\ st' \notin {"INT", "QUIT"}
    BY <1>1, <2>2, <2>6 DEF SystemInv
  <2> QED
    BY <2>5, <2>6, <2>9, <2>10, <2>11, <2>12, <2>13, <2>14 DEF SystemInv
<1>2. CASE at = "sig_cld" /\ pc \in {1, 2}
  <2>1. Op[1] \in {"signal", "wait"} /\ Base = 10
    BY <1>2, SystemCode DEF SystemInv
  <2>2. /\ at' = at /\ stack' = stack /\ mask' = mask /\ pending' \subseteq pending
             /\ alarm' = alarm
        /\ pc' = pc + 1 /\ oldmask' = oldmask /\ saved' = saved /\ st' = st
    BY <2>1, CallKeeps
  <2>3. disp' = IF pc = 1 THEN [disp EXCEPT !["CHLD"] = "sig_cld"] ELSE disp
    BY <1>2, CallKeeps, CallDoes, SystemCode
  <2>4. kid' \in {kid, "gone"} /\ status' = status
    BY <1>2, CallKeeps, CallDoes, SystemCode
  <2>5. /\ disp' \in [AllSignals -> {"dfl", "ign", "sig_cld"}]
        /\ \A s \in {"INT", "QUIT"} : disp'[s] # "sig_cld"
    BY <2>3 DEF SystemInv, AllSignals, SignalPrograms_!Signals
  <2>6. Stacked(H)' /\ Base' = Base
    <3>1. pc' \in 1 .. 10
      BY <1>2, <2>2
    <3> QED
      BY <1>0, <1>2, <2>2, <3>1, GoesOn
  <2> QED
    BY <1>0, <1>2, <2>1, <2>2, <2>4, <2>5, <2>6 DEF SystemInv
<1>3. CASE at = "sig_cld" /\ pc = 3
  <2>1. Op = <<"return">> /\ Base = 10
    BY <1>3, SystemCode DEF SystemInv
  <2>2. /\ pending' = pending /\ disp' = disp /\ saved' = saved /\ alarm' = alarm /\ kid' = kid
        /\ oldmask' = oldmask /\ status' = status /\ st' = st
        /\ at' = stack[Len(stack)][1] /\ pc' = stack[Len(stack)][2] /\ mask' = stack[Len(stack)][3]
        /\ stack' = SubSeq(stack, 1, Len(stack) - 1)
    BY <2>1, CallKeeps, CallDoes
  <2>3. /\ Stacked(H)' /\ Base' = Base /\ Len(stack) \in DOMAIN stack
        /\ \A k \in DOMAIN stack' : k \in DOMAIN stack /\ stack'[k] = stack[k]
    BY <1>0, <1>3, <2>2, HandlerReturns
  <2>4. at' = "sig_cld" => pc' \in 1 .. 3
    BY <2>2, <2>3 DEF SystemInv
  <2> QED
    BY <1>0, <2>1, <2>2, <2>3, <2>4 DEF SystemInv
<1> QED
  BY <1>0, <1>1, <1>2, <1>3 DEF SystemInv

\* A signal is delivered: SIGCHLD only at the end, and the signals of the terminal to nobody
\* while the child runs.
LEMMA SystemSignals ==
  ASSUME prog = "system", SystemInv, NEW s \in AllSignals, SignalPrograms_!Deliver(s)
  PROVE  SystemInv'
<1> DEFINE H == {"sig_cld"}
<1>0. /\ prog' = prog /\ Stacked(H) /\ pc \in 1 .. 10 /\ mask \in SUBSET AllSignals
      /\ at \in {"system", "sig_cld"} /\ H \cap {"dfl", "ign"} = {} /\ st = "running"
  BY Delivery DEF SystemInv, Stacked
<1>1. /\ pending' = pending \ {s} /\ s \in pending /\ s \in {"INT", "QUIT", "CHLD"}
      /\ disp' = disp /\ saved' = saved /\ alarm' = alarm /\ kid' = kid /\ oldmask' = oldmask
      /\ status' = status
  BY Delivery DEF SystemInv
<1>2. Op[1] \notin {"pause", "suspend", "read"}
  <2>1. CASE at = "system"
    <3>1. pc \in {1, 2, 3, 4, 5, 6, 7, 8, 9, 10}
      BY <1>0
    <3> QED
      BY <2>1, <3>1, SystemCode
  <2>2. CASE at = "sig_cld"
    BY <2>2, SystemCode DEF SystemInv
  <2> QED
    BY <1>0, <2>1, <2>2
<1>3. SignalPrograms_!Takes(s, mask, pc, mask) /\ s \notin mask
  BY <1>2, Delivery
<1>4. disp[s] \in H \cup {"dfl", "ign"} /\ (disp[s] = "sig_cld" => s = "CHLD")
  BY <1>1 DEF SystemInv
<1>5. Base \in 1 .. 10 /\ (at = prog => Base = pc)
  BY <1>0, BaseIs
<1>6. CASE disp[s] \notin H
  <2>1. /\ Stacked(H)' /\ at' = at /\ stack' = stack /\ mask' = mask /\ pc' = pc
        /\ Base' = (IF at = prog THEN pc' ELSE Base)
        /\ st' = st \/ (st' = s /\ disp[s] = "dfl")
    BY <1>0, <1>1, <1>3, <1>4, <1>6, SignalTaken
  <2>2. Base' = Base
    BY <1>5, <2>1
  <2>3. st' \in {"INT", "QUIT"} => kid # "runs"
    <3>1. CASE kid = "runs"
      <4>1. Base = 6
        BY <1>5, <3>1 DEF SystemInv
      <4> QED
        BY <1>0, <1>1, <2>1, <4>1 DEF SystemInv
    <3> QED
      BY <3>1
  <2> QED
    BY <1>1, <2>1, <2>2, <2>3 DEF SystemInv
<1>7. CASE disp[s] = "sig_cld"
  <2>1. Base = 10
    BY <1>1, <1>3, <1>4, <1>5, <1>7 DEF SystemInv
  <2>2. /\ Stacked(H)' /\ at' = "sig_cld" /\ pc' = 1 /\ Base' = (IF at = prog THEN pc ELSE Base)
             /\ st' = st
        /\ \A k \in DOMAIN stack' : stack'[k] = IF k = Len(stack) + 1 THEN <<at, pc, mask>>
             ELSE stack[k]
        /\ \A k \in DOMAIN stack' : k # Len(stack) + 1 => k \in DOMAIN stack
    BY <1>0, <1>3, <1>7, SignalTaken
  <2>3. Base' = 10
    BY <1>5, <2>1, <2>2
  <2>4. ASSUME NEW k \in DOMAIN stack' PROVE stack'[k][1] = "sig_cld" => stack'[k][2] \in 1 .. 3
    <3>1. CASE k = Len(stack) + 1
      BY <2>2, <3>1 DEF SystemInv
    <3>2. CASE k # Len(stack) + 1
      BY <2>2, <3>2 DEF SystemInv
    <3> QED
      BY <3>1, <3>2
  <2> QED
    BY <1>0, <1>1, <2>1, <2>2, <2>3, <2>4 DEF SystemInv
<1> QED
  BY <1>4, <1>6, <1>7

\* The child ends, and the terminal sends SIGINT and SIGQUIT.
LEMMA SystemOutside ==
  ASSUME prog = "system", SystemInv,
         SignalPrograms_!Continue \/ SignalPrograms_!Tick \/ SignalPrograms_!Others
  PROVE  SystemInv'
<1>1. SignalPrograms_!Sent[prog] = {"INT", "QUIT"}
  BY DEF SignalPrograms_!Sent, SignalPrograms_!code
<1>2. Stacked({"sig_cld"})' /\ Base' = Base
  BY FromOutside DEF SystemInv, Stacked, Base
<1>3. Base \in 1 .. 10
  BY BaseIs DEF SystemInv
<1>4. /\ at' = at /\ pc' = pc /\ stack' = stack /\ disp' = disp /\ saved' = saved /\ alarm' = alarm
      /\ mask' = mask /\ oldmask' = oldmask /\ status' = status
      /\ \A s \in pending' : s \in pending \/ s \in {"INT", "QUIT"} \/ (s = "CHLD" /\ kid = "runs")
      /\ kid' = kid \/ (kid = "runs" /\ kid' = "zombie")
      /\ st' \in {"INT", "QUIT"} => st \in {"INT", "QUIT"}
  BY <1>1, FromOutside DEF SystemInv
<1>5. "CHLD" \in pending' => Base >= 6
  BY <1>3, <1>4 DEF SystemInv
<1>6. /\ kid' \in {"none", "runs", "zombie", "gone"}
      /\ Base <= 5 => kid' = "none"
      /\ Base = 6 => kid' \in {"runs", "zombie"}
      /\ Base >= 7 => kid' # "runs"
      /\ st' \in {"INT", "QUIT"} => kid' # "runs"
  BY <1>3, <1>4 DEF SystemInv
<1> QED
  BY <1>2, <1>4, <1>5, <1>6 DEF SystemInv

\* Of each program that runs its own invariant; prog does not change.
SignalInv == /\ prog = "tsleep2" => TsleepInv
             /\ prog = "read2" => ReadInv
             /\ prog = "sigtstp" => TstpInv
             /\ prog = "suspend2" => SuspendInv
             /\ prog = "abort" => AbortInv
             /\ prog = "system" => SystemInv

LEMMA SignalInit == SignalPrograms_!Init => SignalInv
<1> SUFFICES ASSUME SignalPrograms_!Init PROVE SignalInv
  OBVIOUS
<1>1. /\ at = prog /\ pc = 1 /\ stack = <<>> /\ st = "running" /\ oldmask = {} /\ pending = {}
      /\ flag = 0 /\ alarm = 0 /\ kid = "none" /\ status = "none" /\ saved = disp
      /\ mask = {} \/ (prog = "abort" /\ mask = {"ABRT"})
  BY DEF SignalPrograms_!Init
<1>2. PICK h \in {"dfl", "ign", "ret"} :
        disp = [s \in AllSignals |->
                  IF \/ s = "ABRT" /\ prog = "abort"
                     \/ s = "TSTP" /\ prog = "sigtstp" /\ h # "ret"
                  THEN h ELSE "dfl"]
  BY DEF SignalPrograms_!Init, AllSignals
<1>3. mask \subseteq AllSignals /\ oldmask \subseteq AllSignals
  BY <1>1 DEF AllSignals, SignalPrograms_!Signals
<1>4. ASSUME NEW H, prog \notin H PROVE Stacked(H) /\ Base = 1 /\ \A x \in H : ~Within(x)
  <2>1. stack \in Seq(({prog} \cup H) \X (1 .. 10) \X SUBSET AllSignals) /\ DOMAIN stack = {}
    BY <1>1
  <2> QED
    BY <1>1, <1>3, <1>4, <2>1 DEF Stacked, Base, Within
<1>5. DOMAIN stack = {}
  BY <1>1
<1>6. ASSUME prog # "abort", prog # "sigtstp"
      PROVE  disp \in [AllSignals -> {"dfl"}] /\ \A s \in {"INT", "QUIT", "TSTP", "ALRM",
        "CHLD"} : disp[s] = "dfl"
  BY <1>2, <1>6 DEF AllSignals, SignalPrograms_!Signals
<1>7. CASE prog = "tsleep2"
  <2> DEFINE H == {"sig_int", "jump"}
  <2>0. prog \notin H /\ "jump" \in H
    BY <1>7
  <2> HIDE DEF H
  <2>1. Stacked(H) /\ Base = 1 /\ ~Within("jump")
    BY <1>4, <2>0
  <2> USE DEF H
  <2> QED
    BY <1>1, <1>5, <1>6, <1>7, <2>1 DEF SignalInv, TsleepInv
<1>8. CASE prog = "read2"
  <2>1. Stacked({"jump"}) /\ Base = 1 /\ ~Within("jump")
    BY <1>4, <1>8
  <2> QED
    BY <1>1, <1>5, <1>6, <1>8, <2>1 DEF SignalInv, ReadInv
<1>9. CASE prog = "sigtstp"
  <2>1. Stacked({"sig_tstp"})
    BY <1>4, <1>9
  <2>2. disp \in [AllSignals -> {"dfl", "ign"}] /\ "TSTP" \in AllSignals
    BY <1>2, <1>9 DEF AllSignals, SignalPrograms_!Signals
  <2> QED
    BY <1>1, <1>5, <1>9, <2>1, <2>2 DEF SignalInv, TstpInv
<1>10. CASE prog = "suspend2"
  <2>1. Stacked({"ret", "setflag"}) /\ Base = 1
    BY <1>4, <1>10
  <2> QED
    BY <1>1, <1>3, <1>5, <1>6, <1>10, <2>1 DEF SignalInv, SuspendInv
<1>11. CASE prog = "abort"
  <2>1. Stacked({"ret"}) /\ Base = 1
    BY <1>4, <1>11
  <2>2. disp \in [AllSignals -> {"dfl", "ign", "ret"}]
    BY <1>2
  <2> QED
    BY <1>1, <1>11, <2>1, <2>2 DEF SignalInv, AbortInv, AbortRuns
<1>12. CASE prog = "system"
  <2>1. Stacked({"sig_cld"}) /\ Base = 1
    BY <1>4, <1>12
  <2> QED
    BY <1>1, <1>3, <1>5, <1>6, <1>12, <2>1 DEF SignalInv, SystemInv
<1> QED
  BY <1>7, <1>8, <1>9, <1>10, <1>11, <1>12 DEF SignalInv

LEMMA SignalStep ==
  ASSUME SignalInv, [SignalPrograms_!Next]_(SignalPrograms_!vars) PROVE SignalInv'
<1>1. CASE Called
  <2>1. prog' = prog
    BY <1>1, CallKeeps
  <2> QED
    BY <1>1, <2>1, TsleepCalls, ReadCalls, TstpCalls, SuspendCalls, AbortCalls, SystemCalls
    DEF SignalInv
<1>2. CASE \E s \in AllSignals : SignalPrograms_!Deliver(s)
  <2>1. PICK s \in AllSignals : SignalPrograms_!Deliver(s)
    BY <1>2
  <2>2. prog' = prog
    BY <2>1, Delivery
  <2> QED
    BY <2>1, <2>2, TsleepSignals, ReadSignals, TstpSignals, SuspendSignals, AbortSignals,
       SystemSignals DEF SignalInv
<1>3. CASE SignalPrograms_!Continue \/ SignalPrograms_!Tick \/ SignalPrograms_!Others
  <2>1. prog' = prog
    BY <1>3, FromOutside
  <2> QED
    BY <1>3, <2>1, TsleepOutside, ReadOutside, TstpOutside, SuspendOutside, AbortOutside,
       SystemOutside DEF SignalInv
<1>4. CASE UNCHANGED SignalPrograms_!vars
  BY <1>4
  DEF SignalInv, TsleepInv, ReadInv, TstpInv, SuspendInv, AbortInv, AbortRuns, SystemInv, Stacked,
    Base,
      BaseMask, Within, SignalPrograms_!vars, SignalPrograms_!memory
<1> QED
  BY <1>1, <1>2, <1>3, <1>4 DEF SignalPrograms_!Next, Called, AllSignals

LEMMA SignalHold == SignalInv => SignalPrograms_!WakeupNotLost /\ SignalPrograms_!EndsAsPromised
<1> SUFFICES ASSUME SignalInv
             PROVE  SignalPrograms_!WakeupNotLost /\ SignalPrograms_!EndsAsPromised
  OBVIOUS
<1>1. ASSUME prog = "tsleep2", st = "running", at = prog, Op[1] \in {"pause", "read"}
      PROVE  alarm > 0 \/ "ALRM" \in pending
  <2>1. TsleepInv /\ Stacked({"sig_int", "jump"}) /\ stack = <<>> /\ Base = pc /\ ~Within("jump")
    BY <1>1 DEF SignalInv, TsleepInv, Stacked, Base, Within
  <2>2. pc = 5
    BY <1>1, <2>1, TsleepCode DEF TsleepInv
  <2> QED
    BY <2>1, <2>2 DEF TsleepInv
<1>2. ASSUME prog = "read2", st = "running", at = prog, Op[1] \in {"pause", "read"}
      PROVE  alarm > 0 \/ "ALRM" \in pending
  <2>1. ReadInv /\ Stacked({"jump"}) /\ stack = <<>> /\ Base = pc /\ ~Within("jump")
    BY <1>2 DEF SignalInv, ReadInv, Stacked, Base, Within
  <2>2. pc = 4
    BY <1>2, <2>1, ReadCode DEF ReadInv
  <2> QED
    BY <2>1, <2>2 DEF ReadInv
<1>3. ASSUME prog = "suspend2", st = "running", at = prog, Op[1] = "suspend" PROVE flag = 0
  <2>1. SuspendInv /\ Base = pc
    BY <1>3 DEF SignalInv, Base
  <2>2. pc = 5
    BY <1>3, <2>1, SuspendCode DEF SuspendInv
  <2> QED
    BY <2>1, <2>2 DEF SuspendInv
<1>4. SignalPrograms_!WakeupNotLost
  BY <1>1, <1>2, <1>3 DEF SignalPrograms_!WakeupNotLost, Op
<1>5. SignalPrograms_!EndsAsPromised
  <2>1. prog = "abort" => st = "running" \/ (st = "ABRT" /\ flushed)
    BY DEF SignalInv, AbortInv, AbortRuns
  <2>2. prog = "system" => status # "error" /\ (st \in {"INT", "QUIT"} => kid # "runs")
    BY DEF SignalInv, SystemInv
  <2>3. ASSUME prog = "sigtstp", at = "sigtstp", pc > 3
        PROVE  disp["TSTP"] = IF saved["TSTP"] = "dfl" THEN "sig_tstp" ELSE "ign"
    BY <2>3 DEF SignalInv, TstpInv, AllSignals, SignalPrograms_!Signals
  <2>4. prog = "sigtstp" /\ st = "stopped" => saved["TSTP"] = "dfl"
    BY DEF SignalInv, TstpInv, AllSignals, SignalPrograms_!Signals
  <2> QED
    BY <2>1, <2>2, <2>3, <2>4 DEF SignalPrograms_!EndsAsPromised, SignalPrograms_!Alive
<1> QED
  BY <1>4, <1>5
=============================================================================
