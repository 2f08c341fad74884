--------------------------- MODULE PrinterAnswer ---------------------------
(***************************************************************************)
(* printer_status and readmore of printer/printd.c: the printer's answer   *)
(* arrives in pieces of any size and is parsed in a buffer.  A token       *)
(* stands for the bytes the parser treats alike: a status line, "C" and    *)
(* "L" for the two parts of Content-Length, the length with the character  *)
(* behind it, "N" and "R" for the line ends, the status and the request ID *)
(* of the IPP header, "x" for any other byte.  Bytes never received are    *)
(* "?".  i is an offset from 0, as in the code: the token bp[i].           *)
(***************************************************************************)
EXTENDS Integers, SequencesExt

CONSTANTS Answers,     \* what the printer may send: sequences of tokens
          IOBUFSZ      \* the buffer, in tokens

VARIABLES pc,          \* "read", "status", ... as in printer_status, "out"
          net,         \* what the printer sent and was not read
          sent,        \* all it sent
          bp,          \* the bytes of the buffer that were received, by offset
          bufsz, datsz, i, success,
          pieces       \* reads that returned data

parse == <<bufsz, datsz, i, success>>
vars == <<pc, net, sent, bp, parse, pieces>>

Byte(o) == IF o \in DOMAIN bp THEN bp[o] ELSE "?"
BytesAt(o, n) == [k \in 1 .. n |-> Byte(o + k - 1)]
Put(o, s) == [k \in DOMAIN bp \cup o .. o + Len(s) - 1 |->
                IF k - o + 1 \in DOMAIN s THEN s[k - o + 1] ELSE bp[k]]

Init ==
  /\ sent \in Answers
  /\ net = sent
  /\ pc = "read"
  /\ bp = <<>>
  /\ bufsz = IOBUFSZ /\ datsz = 0 /\ i = 0
  /\ success = FALSE
  /\ pieces = 0

\* tread: what is there by now, up to n bytes, and a negative n is a large one; no bytes
\* after a timeout, an error or the end
tread(n) == {SubSeq(net, 1, k) : k \in 0 .. (IF n \in 0 .. Len(net) THEN n ELSE Len(net))}
Received(s) == /\ pieces' = pieces + 1
               /\ net' = SubSeq(net, Len(s) + 1, Len(net))
Out == pc' = "out" /\ UNCHANGED <<net, bp, parse, pieces>>

Read ==
  /\ pc = "read"
  /\ \E s \in tread(bufsz) :
       IF s = <<>> THEN Out
       ELSE /\ Received(s)
            /\ bp' = Put(0, s)
            /\ datsz' = Len(s)
            /\ pc' = "status"
            /\ UNCHANGED <<bufsz, i, success>>
  /\ UNCHANGED sent

\* a status line of the class informational, or none: read on into the same buffer
Status ==
  /\ pc = "status"
  /\ \/ /\ Byte(0) \notin {"http200", "http400"}
        /\ pc' = "read" /\ UNCHANGED <<net, bp, parse, pieces>>
     \/ Byte(0) = "http400" /\ Out
     \/ /\ Byte(0) = "http200"
        /\ i' = 1
        /\ pc' = "length"
        /\ UNCHANGED <<net, bp, bufsz, datsz, success, pieces>>
  /\ UNCHANGED sent

\* readmore at offset i, which returns the offset of the end of the data; its callers add
\* that to datsz
ReadMore(next) ==
  LET bsz == IF i >= bufsz THEN bufsz + IOBUFSZ ELSE bufsz
  IN  \E s \in tread(bsz - i) :
        IF s = <<>> THEN Out
        ELSE /\ Received(s)
             /\ bp' = Put(i, s)
             /\ bufsz' = bsz
             /\ datsz' = datsz + i + Len(s)
             /\ pc' = next
             /\ UNCHANGED <<i, success>>

\* the loop for Content-Length: stop at a "C" or behind the data, where more is read
Scan == LET at == {k \in i .. datsz : k = datsz \/ Byte(k) = "C"}
        IN  CHOOSE k \in at : \A m \in at : k <= m

FindLength ==
  /\ pc = "length"
  /\ i < datsz
  /\ i' = Scan
  /\ pc' = IF Scan >= datsz THEN "lengthMore" ELSE "compare"
  /\ UNCHANGED <<net, sent, bp, bufsz, datsz, success, pieces>>

LengthMore ==
  /\ pc = "lengthMore" \/ (pc = "length" /\ i >= datsz)
  /\ ReadMore("compare")
  /\ UNCHANGED sent

\* the comparison may look at bytes that were not received
Compare ==
  /\ pc = "compare"
  /\ IF BytesAt(i, 2) = <<"C", "L">> /\ Byte(i + 2) = "len"
     THEN i' = i + 3 /\ pc' = "headerMore"
     ELSE i' = i + 1 /\ pc' = "length"
  /\ UNCHANGED <<net, sent, bp, bufsz, datsz, success, pieces>>

HeaderMore ==
  /\ pc = "headerMore"
  /\ IF i >= datsz THEN ReadMore("end")
     ELSE pc' = "end" /\ UNCHANGED <<net, bp, parse, pieces>>
  /\ UNCHANGED sent

\* the loop for the empty line: it looks no further than two bytes before the end, and
\* reads more only at the end
EndAt == {k \in i .. datsz - 3 : BytesAt(k, 3) = <<"N", "R", "N">>}
FindEnd ==
  /\ pc = "end"
  /\ IF EndAt # {}
     THEN /\ i' = 3 + CHOOSE k \in EndAt : \A m \in EndAt : k <= m
          /\ pc' = IF i' >= datsz THEN "endMore" ELSE "body"
          /\ UNCHANGED <<net, bp, bufsz, datsz, success, pieces>>
     ELSE IF i >= datsz THEN ReadMore("end")
     ELSE /\ i' = IF i < datsz - 2 THEN datsz - 2 ELSE i
          /\ pc' = "end"
          /\ UNCHANGED <<net, bp, bufsz, datsz, success, pieces>>
  /\ UNCHANGED sent

\* the empty line was the end of the data
EndMore ==
  /\ pc = "endMore"
  /\ ReadMore("body")
  /\ UNCHANGED sent

\* the rest of the body, then the IPP status and the job it is for
Body ==
  /\ pc = "body"
  /\ IF datsz - i < 2 THEN ReadMore("ipp")
     ELSE pc' = "ipp" /\ UNCHANGED <<net, bp, parse, pieces>>
  /\ UNCHANGED sent

\* mutant: the request ID is not compared
IppAny ==
  /\ pc = "ipp"
  /\ success' = (Byte(i) = "ippOk")
  /\ pc' = "out"
  /\ UNCHANGED <<net, sent, bp, bufsz, datsz, i, pieces>>

Ipp ==
  /\ pc = "ipp"
  /\ success' = (BytesAt(i, 2) = <<"ippOk", "ours">>)
  /\ pc' = "out"
  /\ UNCHANGED <<net, sent, bp, bufsz, datsz, i, pieces>>

Next == Read \/ Status \/ FindLength \/ LengthMore \/ Compare \/ HeaderMore
        \/ FindEnd \/ EndMore \/ Body \/ Ipp
Spec == Init /\ [][Next]_vars
FairSpec == Spec /\ WF_vars(Next)
-----------------------------------------------------------------------------
Good(a) == \E k \in 1 .. Len(a) - 1 : a[k] = "ippOk" /\ a[k + 1] = "ours"

\* However the answer is cut into pieces and whatever the buffer holds behind it, a job
\* counts as printed only if the printer accepted this job; and an accepting answer that
\* arrives in one piece is understood.
PrintedMeansAccepted ==
  /\ success => Good(sent)
  /\ pc = "out" /\ pieces = 1 /\ net = <<>> /\ sent[1] = "http200" =>
       success = Good(sent)

\* The answer can be returned in multiple read attempts: printer_status comes to its end.
AnswerEnds == <>(pc = "out")
=============================================================================
