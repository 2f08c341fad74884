----------------------------- MODULE MemStream -----------------------------
(***************************************************************************)
(* exercises/fmemopen.c: a stream over a buffer in memory, as the calls    *)
(* that the standard I/O library makes of mstream_read, mstream_write,     *)
(* mstream_seek and mstream_close in any order.  An offset p of the code   *)
(* is the byte buf[p + 1].  file is what an ordinary file would hold after *)
(* the same calls: the abstract stream the buffer is to agree with.        *)
(***************************************************************************)
EXTENDS Integers, SequencesExt

CONSTANTS Types,       \* the type arguments: sequences of letters
          Bytes,       \* bytes that are written, not 0
          MaxSize,     \* bound: the longest buffer
          MaxCalls     \* bound: calls on the open stream

VARIABLES pc,          \* "closed", "open" or "ended"
          buf, flags, vsize, curpos,
          got,         \* what the last mstream_read returned
          file,        \* the abstract file
          kept,        \* how much of the buffer is as written, before any nul byte in it
          calls

vars == <<pc, buf, flags, vsize, curpos, got, file, kept, calls>>

rsize == Len(buf)
Least(a, b) == IF a < b THEN a ELSE b
Strings(n) == UNION {[1 .. k -> Bytes] : k \in 0 .. n}

\* type_to_flags: the flags of a type string, or none when it is in error
Letter(fl, c) ==
  CASE "ERROR" \in fl -> fl
    [] c = "r" /\ fl = {} -> {"MS_READ"}
    [] c = "w" /\ fl = {} -> {"MS_WRITE", "MS_TRUNCATE"}
    [] c = "a" /\ fl = {} -> {"MS_APPEND"}
    [] c = "+" /\ fl # {} -> fl \cup {"MS_READ", "MS_WRITE"}
    [] c = "b" /\ fl # {} -> fl
    [] OTHER -> {"ERROR"}
type_to_flags(type) == FoldLeft(Letter, {}, type) \ {"ERROR"}

\* find_end: the offset of the first nul byte, or the length
find_end(b) == LET at == SelectInSeq(b, LAMBDA c : c = 0)
               IN  IF at = 0 THEN Len(b) ELSE at - 1

Init ==
  /\ pc = "closed"
  /\ buf = <<>> /\ flags = {} /\ vsize = 0 /\ curpos = 0
  /\ got = <<>> /\ file = <<>> /\ kept = 0 /\ calls = 0

\* fmemopen with the caller's buffer, or with one of its own that malloc filled; any
\* failure of malloc or funopen frees what was allocated
Fails == pc' = "ended" /\ UNCHANGED <<buf, flags, vsize, curpos, got, file, kept, calls>>
fmemopen(b, type, mine) ==
  /\ pc = "closed"
  /\ \/ Fails
     \/ LET fl == type_to_flags(type)
            pos == IF ~mine /\ "MS_APPEND" \in fl THEN find_end(b) ELSE 0
            size == IF "MS_APPEND" \in fl THEN pos
                    ELSE IF "MS_TRUNCATE" \in fl THEN 0 ELSE Len(b)
        IN  /\ Len(b) > 0 /\ fl # {}
            /\ mine => {"MS_READ", "MS_WRITE"} \subseteq fl
            /\ pc' = "open"
            /\ buf' = b
            /\ flags' = fl \cup (IF mine THEN {"MS_MYBUF"} ELSE {})
            /\ curpos' = pos
            /\ vsize' = size
            /\ file' = SubSeq(b, 1, size)
            /\ kept' = size
            /\ UNCHANGED <<got, calls>>

Call == pc = "open" /\ calls < MaxCalls /\ calls' = calls + 1

mstream_read(len) ==
  /\ Call
  /\ LET nr == IF "MS_READ" \notin flags \/ curpos >= vsize THEN 0
               ELSE Least(len, vsize - curpos)
     IN  /\ got' = SubSeq(buf, curpos + 1, curpos + nr)
         /\ curpos' = curpos + nr
  /\ UNCHANGED <<pc, buf, flags, vsize, file, kept>>

\* s copied over b from offset o
Over(b, o, s) == [p \in 1 .. Len(b) |-> IF p - o \in DOMAIN s THEN s[p - o] ELSE b[p]]
Nul(b, o) == [b EXCEPT ![o + 1] = 0]
WriteOnly == "MS_READ" \notin flags

\* where the nul byte goes: behind a readable stream that grew and does not fill its
\* buffer; at the position of one that is only written, or in the last byte
NulAt(end) ==
  IF WriteOnly THEN (IF end < rsize THEN end ELSE rsize - 1)
  ELSE IF end > vsize /\ end < rsize THEN end ELSE -1

mstream_write(s) ==
  /\ Call
  /\ flags \cap {"MS_APPEND", "MS_WRITE"} # {}
  /\ LET o == IF "MS_APPEND" \in flags THEN vsize ELSE curpos
         nw == Least(Len(s), rsize - o)
         data == Over(buf, o, SubSeq(s, 1, nw))
         end == o + nw
     IN  /\ curpos' = end
         /\ vsize' = IF end > vsize THEN end ELSE vsize
         /\ buf' = IF NulAt(end) >= 0 THEN Nul(data, NulAt(end)) ELSE data
         /\ file' = [p \in 1 .. vsize' |-> IF p - o \in 1 .. nw THEN s[p - o] ELSE file[p]]
         /\ LET agrees == IF kept >= o /\ end > kept THEN end ELSE kept
            IN  kept' = IF NulAt(end) >= 0 THEN Least(NulAt(end), agrees) ELSE agrees
  /\ UNCHANGED <<pc, flags, got>>

\* mutant: the size of the buffer for the end of the data
mstream_seekRoom(pos, whence) ==
  /\ Call
  /\ LET o == pos + (CASE whence = "SEEK_SET" -> 0
                       [] whence = "SEEK_END" -> vsize
                       [] whence = "SEEK_CUR" -> curpos)
     IN  curpos' = IF o < 0 \/ o > rsize THEN curpos ELSE o
  /\ UNCHANGED <<pc, buf, flags, vsize, got, file, kept>>

mstream_seek(pos, whence) ==
  /\ Call
  /\ LET o == pos + (CASE whence = "SEEK_SET" -> 0
                       [] whence = "SEEK_END" -> vsize
                       [] whence = "SEEK_CUR" -> curpos)
     IN  curpos' = IF o < 0 \/ o > vsize THEN curpos ELSE o
  /\ UNCHANGED <<pc, buf, flags, vsize, got, file, kept>>

mstream_close ==
  /\ pc = "open"
  /\ pc' = "ended"
  /\ UNCHANGED <<buf, flags, vsize, curpos, got, file, kept, calls>>

Next ==
  \/ \E b \in UNION {[1 .. n -> Bytes \cup {0}] : n \in 0 .. MaxSize}, type \in Types,
        mine \in BOOLEAN : fmemopen(b, type, mine)
  \/ \E len \in 1 .. MaxSize : mstream_read(len)
  \/ \E s \in Strings(MaxSize) : mstream_write(s)
  \/ \E pos \in {-1, 0, 1}, whence \in {"SEEK_SET", "SEEK_CUR", "SEEK_END"} :
        mstream_seek(pos, whence)
  \/ mstream_close
Spec == Init /\ [][Next]_vars
Done == pc = "ended"
-----------------------------------------------------------------------------
\* The position never leaves the data nor the data the buffer, so that every copy and
\* every nul byte stays inside it.  A stream that can be read holds what a file would; one
\* that is only written does so up to the nul byte that ends it.
StreamAgrees ==
  pc = "open" =>
    /\ curpos <= vsize /\ vsize <= rsize
    /\ ~WriteOnly => SubSeq(buf, 1, vsize) = file
    /\ WriteOnly => SubSeq(buf, 1, kept) = SubSeq(file, 1, kept)
=============================================================================
