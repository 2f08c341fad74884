------------------------------- MODULE AioCopy -------------------------------
(***************************************************************************)
(* The copy by asynchronous I/O of advio/rot13c2.c, and ch14/14_21.c which *)
(* retypes it with another end of its loop.  A buffer belongs to one       *)
(* block of the file, read and written at the same offset; the system      *)
(* completes pending operations in any order.  A block is one byte, or 0   *)
(* where a file has no data: the input file may shrink after fstat.        *)
(***************************************************************************)
EXTENDS Naturals, FiniteSets

CONSTANTS NBUF, Size,      \* buffers, and blocks of the file
          Bytes,           \* what a block may hold: not 0
          Programs         \* of {"rot13c2", "14_21"}

VARIABLES prog,            \* the program
          infile, outfile,
          pc,              \* "scan", "suspend", "exit0" or "failed"
          i,               \* the buffer the scan is at
          off, numop,
          bufs             \* per buffer: its operation, block, data, result and last

vars == <<prog, infile, outfile, pc, i, off, numop, bufs>>

isalpha(c) == c \in 65 .. 90 \/ c \in 97 .. 122
translate(c) == IF ~isalpha(c) THEN c
                ELSE IF c >= 110 THEN c - 13
                ELSE IF c >= 97 THEN c + 13
                ELSE IF c >= 78 THEN c - 13 ELSE c + 13

Init ==
  /\ prog \in Programs
  /\ infile \in [1 .. Size -> Bytes]
  /\ outfile = [n \in 1 .. Size |-> 0]
  /\ pc = "scan"
  /\ i = 1
  /\ off = 0
  /\ numop = 0
  /\ bufs = [b \in 1 .. NBUF |-> [op |-> "UNUSED", block |-> 1, data |-> 0,
                                  result |-> "none", last |-> FALSE]]

NextBuf == IF i < NBUF THEN i' = i + 1 /\ UNCHANGED pc
           ELSE i' = 1 /\ pc' = "scanned"
Fail == pc' = "failed" /\ UNCHANGED <<i, off, numop, bufs>>
At(op) == pc = "scan" /\ bufs[i].op = op

\* more data remains unread: the next block is read
StartRead ==
  /\ At("UNUSED")
  /\ IF off < Size
     THEN \/ /\ bufs' = [bufs EXCEPT ![i] = [op |-> "READ_PENDING", block |-> off + 1,
                           data |-> 0, result |-> "INPROGRESS",
                           last |-> @.last \/ off + 1 >= Size]]
             /\ off' = off + 1
             /\ numop' = numop + 1
             /\ NextBuf
          \/ Fail
     ELSE NextBuf /\ UNCHANGED <<off, numop, bufs>>
  /\ UNCHANGED <<prog, infile, outfile>>

InProgress ==
  /\ pc = "scan"
  /\ bufs[i].op # "UNUSED" /\ bufs[i].result = "INPROGRESS"
  /\ NextBuf
  /\ UNCHANGED <<prog, infile, outfile, off, numop, bufs>>

\* a read is complete: a short one must be the last, the data is translated and written
StartWrite ==
  /\ At("READ_PENDING")
  /\ bufs[i].result # "INPROGRESS"
  /\ IF bufs[i].result = "error" \/ (bufs[i].result = "short" /\ ~bufs[i].last)
     THEN Fail
     ELSE \/ /\ bufs' = [bufs EXCEPT ![i].op = "WRITE_PENDING",
                                     ![i].data = translate(@), ![i].result = "INPROGRESS"]
             /\ NextBuf
             /\ UNCHANGED <<off, numop>>
          \/ Fail
  /\ UNCHANGED <<prog, infile, outfile>>

EndWrite ==
  /\ At("WRITE_PENDING")
  /\ bufs[i].result # "INPROGRESS"
  /\ IF bufs[i].result # "ok" THEN Fail
     ELSE /\ bufs' = [bufs EXCEPT ![i].op = "UNUSED"]
          /\ numop' = numop - 1
          /\ NextBuf
          /\ UNCHANGED off
  /\ UNCHANGED <<prog, infile, outfile>>

\* mutant: pending operations are not counted
EndScanRead ==
  /\ prog = "rot13c2" /\ pc = "scanned"
  /\ pc' = IF off >= Size THEN "fsync" ELSE "suspend"
  /\ UNCHANGED <<prog, infile, outfile, i, off, numop, bufs>>

\* the loop ends when nothing is pending and the file is read
EndScan ==
  /\ prog = "rot13c2" /\ pc = "scanned"
  /\ pc' = IF numop = 0 THEN (IF off >= Size THEN "fsync" ELSE "scan") ELSE "suspend"
  /\ UNCHANGED <<prog, infile, outfile, i, off, numop, bufs>>

\* 14_21.c leaves the loop, and the program, after its first aio_suspend; with nothing
\* to copy it returns from main
EndScan21 ==
  /\ prog = "14_21"
  /\ \/ /\ pc = "scanned"
        /\ pc' = IF numop = 0 THEN (IF off >= Size THEN "exit0" ELSE "scan") ELSE "suspend"
     \/ pc = "resumed" /\ pc' \in {"exit0", "failed"}
  /\ UNCHANGED <<prog, infile, outfile, i, off, numop, bufs>>

\* aio_suspend returns when an operation it waits for is complete
Pending(b) == bufs[b].op # "UNUSED"
Resume ==
  /\ pc = "suspend"
  /\ \/ /\ \E b \in 1 .. NBUF : Pending(b) /\ bufs[b].result # "INPROGRESS"
        /\ pc' = IF prog = "14_21" THEN "resumed" ELSE "scan"
     \/ pc' = "failed"
  /\ UNCHANGED <<prog, infile, outfile, i, off, numop, bufs>>

Fsync ==
  /\ pc = "fsync"
  /\ pc' \in {"exit0", "failed"}
  /\ UNCHANGED <<prog, infile, outfile, i, off, numop, bufs>>

\* the system completes an operation
Running == pc \notin {"exit0", "failed"}
Complete(b) ==
  /\ Running
  /\ Pending(b) /\ bufs[b].result = "INPROGRESS"
  /\ \/ /\ bufs[b].op = "READ_PENDING"
        /\ \/ bufs' = [bufs EXCEPT ![b].data = infile[bufs[b].block],
                   ![b].result = IF infile[bufs[b].block] = 0 THEN "short" ELSE "ok"]
           \/ bufs' = [bufs EXCEPT ![b].result = "error"]
        /\ UNCHANGED outfile
     \/ /\ bufs[b].op = "WRITE_PENDING"
        /\ \/ /\ bufs' = [bufs EXCEPT ![b].result = "ok"]
              /\ outfile' = [outfile EXCEPT ![bufs[b].block] = bufs[b].data]
           \/ bufs' = [bufs EXCEPT ![b].result = "error"] /\ UNCHANGED outfile
  /\ UNCHANGED <<prog, infile, pc, i, off, numop>>

Shrink(n) ==
  /\ Running
  /\ infile' = [m \in 1 .. Size |-> IF m > n THEN 0 ELSE infile[m]]
  /\ infile' # infile
  /\ UNCHANGED <<prog, outfile, pc, i, off, numop, bufs>>

Next == \/ StartRead \/ InProgress \/ StartWrite \/ EndWrite
        \/ EndScan \/ EndScan21 \/ Resume \/ Fsync
        \/ \E b \in 1 .. NBUF : Complete(b)
        \/ \E n \in 1 .. Size - 1 : Shrink(n)
Spec == Init /\ [][Next]_vars
Done == ~Running
-----------------------------------------------------------------------------
\* numop counts the pending operations, no two of them are for the same block, and a
\* block of the output is either not written yet or the translated block of the input.
BuffersApart ==
  /\ numop = Cardinality({b \in 1 .. NBUF : Pending(b)})
  /\ \A b, c \in 1 .. NBUF :
       Pending(b) /\ Pending(c) /\ bufs[b].block = bufs[c].block => b = c
  /\ \A n \in 1 .. Size : outfile[n] # 0 /\ infile[n] # 0 => outfile[n] = translate(infile[n])

\* When rot13c2 exits with success, each block that is still in the input was written, and
\* translating the output gives the input.
CopiedWhole ==
  prog = "rot13c2" /\ pc = "exit0" =>
    \A n \in 1 .. Size : infile[n] # 0 => translate(outfile[n]) = infile[n]
=============================================================================
