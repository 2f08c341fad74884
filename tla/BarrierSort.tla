----------------------------- MODULE BarrierSort -----------------------------
(***************************************************************************)
(* The parallel sort of threads/barrier.c: every thread sorts its range of *)
(* nums in place and waits at the barrier, the main thread waits there too *)
(* and merges the ranges into snums.  LongMax marks an empty minimum in    *)
(* merge, so it must be above every number that random returns.            *)
(***************************************************************************)
EXTENDS Naturals, Sequences, FiniteSets, Functions

CONSTANTS NTHR, TNUM,    \* threads, and numbers per thread
          RandMax,       \* random gives 0 .. RandMax
          LongMax

VARIABLES nums, snums,
          started,       \* threads that were created
          arrived,       \* who waits at the barrier or passed it: 0 is the main thread
          pc,            \* the main thread
          idx            \* merge's position in each range

vars == <<nums, snums, started, arrived, pc, idx>>

NUMNUM == NTHR * TNUM
Range0(i) == (i - 1) * TNUM + 1 .. i * TNUM
Sorted(s) == \A i \in 1 .. Len(s) - 1 : s[i] <= s[i + 1]
Part(i) == SubSeq(nums, (i - 1) * TNUM + 1, i * TNUM)

Init ==
  /\ nums \in [1 .. NUMNUM -> 0 .. RandMax]
  /\ snums = <<>>
  /\ started = 0
  /\ arrived = {}
  /\ pc = "create"
  /\ idx = [i \in 1 .. NTHR |-> (i - 1) * TNUM + 1]

\* a thread that cannot be created ends the program
Create ==
  /\ pc = "create"
  /\ \/ /\ started' = started + 1
        /\ pc' = IF started' = NTHR THEN "wait" ELSE "create"
     \/ pc' = "failed" /\ UNCHANGED started
  /\ UNCHANGED <<nums, snums, arrived, idx>>

\* thr_fn: heapsort arranges its own range by complong; then the barrier
InOrder(i, p) == \A m, n \in Range0(i) : m <= n => nums[p[m]] <= nums[p[n]]
thr_fn(i) ==
  /\ pc # "failed"
  /\ i <= started
  /\ i \notin arrived
  /\ \E p \in Bijection(Range0(i), Range0(i)) :
       /\ InOrder(i, p)
       /\ nums' = [n \in DOMAIN nums |-> IF n \in Range0(i) THEN nums[p[n]] ELSE nums[n]]
  /\ arrived' = arrived \cup {i}
  /\ UNCHANGED <<snums, started, pc, idx>>

Wait ==
  /\ pc = "wait"
  /\ arrived' = arrived \cup {0}
  /\ pc' = "barrier"
  /\ UNCHANGED <<nums, snums, started, idx>>

\* mutant: the barrier does not count main
PassEarly ==
  /\ pc = "barrier"
  /\ Cardinality(arrived) >= NTHR
  /\ pc' = "merge"
  /\ UNCHANGED <<nums, snums, started, arrived, idx>>

\* the barrier opens for NTHR + 1
Pass ==
  /\ pc = "barrier"
  /\ arrived = 0 .. NTHR
  /\ pc' = "merge"
  /\ UNCHANGED <<nums, snums, started, arrived, idx>>

\* the first of the ranges whose next number is the smallest below LongMax
Heads == {i \in 1 .. NTHR : idx[i] \in Range0(i) /\ nums[idx[i]] < LongMax}
minidx == CHOOSE i \in Heads : \A k \in Heads : \/ nums[idx[i]] < nums[idx[k]]
                                                \/ nums[idx[i]] = nums[idx[k]] /\ i <= k

merge ==
  /\ pc = "merge"
  /\ IF Len(snums) = NUMNUM THEN pc' = "done" /\ UNCHANGED <<snums, idx>>
     ELSE /\ snums' = Append(snums, nums[idx[minidx]])
          /\ idx' = [idx EXCEPT ![minidx] = @ + 1]
          /\ UNCHANGED pc
  /\ UNCHANGED <<nums, started, arrived>>

Next == Create \/ Wait \/ Pass \/ merge \/ \E i \in 1 .. NTHR : thr_fn(i)
Spec == Init /\ [][Next]_vars
Done == pc \in {"done", "failed"}
-----------------------------------------------------------------------------
Count(s, n) == Cardinality({i \in DOMAIN s : s[i] = n})

\* merge runs on sorted ranges only, while nobody writes them, and never finds all of them
\* at their ends; what it prints is sorted and holds each number as often as nums does.
MergeSorts ==
  /\ pc = "merge" => /\ \A i \in 1 .. NTHR : Sorted(Part(i))
                     /\ Len(snums) < NUMNUM => Heads # {}
  /\ Sorted(snums)
  /\ pc = "done" => \A n \in 0 .. RandMax : Count(snums, n) = Count(nums, n)
=============================================================================
