---------------------------- MODULE PrintSubmit ----------------------------
(***************************************************************************)
(* One print job from the command printer/print.c to a client thread of    *)
(* printd.c over a connection: connect_retry over the server's addresses,  *)
(* the request header, the file in blocks, the timed reads of util.c, and  *)
(* the response.  The client does not close its side after the file, so    *)
(* the daemon takes 20 seconds of silence for the end of it.               *)
(***************************************************************************)
EXTENDS Integers, SequencesExt

CONSTANTS Configs,      \* configuration files: sequences of lines
          Addresses,    \* of the print server: a sequence of "up" and "down"
          Blocks,       \* blocks of the file, 1 .. Blocks
          Header,       \* pieces the request header may arrive in
          MAXSLEEP,     \* 128
          JOBNM_MAX,    \* 256
          MaxName       \* bound: the longest file name

VARIABLES config,       \* the configuration file
          client,       \* print.c: "open", "connect", "header", "send", "wait", or its end
          aip, numsec,  \* the address it tries and the seconds it sleeps next
          block,        \* blocks sent
          readerr,      \* the file can no longer be read
          jobnm,        \* length of the job's name in the request
          wire,         \* blocks on their way, 0 for a piece of the header
          daemon,       \* client_thread
          nleft,        \* treadn: pieces of the header still to read
          spool,        \* the data file
          answer,       \* the response on its way: "none", "ok", "rejected" or "read"
          stalled       \* the daemon's timeout came before the end of the file

cvars == <<config, client, aip, numsec, block, jobnm, readerr>>
dvars == <<daemon, nleft, spool, answer, stalled>>
vars == <<cvars, wire, dvars>>

Init ==
  /\ config \in Configs
  /\ client = "open" /\ aip = 1 /\ numsec = 1 /\ block = 0
  /\ jobnm = 0 /\ readerr = FALSE
  /\ wire = <<>>
  /\ daemon = "idle" /\ nleft = Header /\ spool = <<>>
  /\ answer = "none" /\ stalled = FALSE

Ended == {"failed", "rejected", "told"}

\* the value on the first line with two fields, of which the keyword is one
scan_configfile(keyword) ==
  LET at == SelectInSeq(config, LAMBDA line : Len(line) = 2 /\ line[1] = keyword)
  IN  IF at = 0 THEN "NULL" ELSE config[at][2]

\* the file is opened, its name of n characters shortened to "... " and its end
NameLen(n) == IF n >= JOBNM_MAX THEN 4 + (JOBNM_MAX - 5) ELSE n
Open ==
  /\ client = "open"
  /\ \/ /\ scan_configfile("printserver") # "NULL"
        /\ client' = "connect"
        /\ \E n \in 1 .. MaxName : jobnm' = NameLen(n)
     \/ client' = "failed" /\ UNCHANGED jobnm
  /\ UNCHANGED <<config, aip, numsec, block, readerr, wire, dvars>>

\* connect_retry: exponential backoff up to MAXSLEEP, then the next address; at once if there
\* is no socket
Retry ==
  /\ client = "connect"
  /\ IF aip > Len(Addresses) THEN client' = "failed" /\ UNCHANGED <<config, aip, numsec, daemon>>
     ELSE \/ /\ Addresses[aip] = "up" /\ daemon = "idle"
             /\ client' = "header"
             /\ daemon' = "header"
             /\ UNCHANGED <<config, aip, numsec>>
          \/ /\ \/ 2 * numsec <= MAXSLEEP /\ numsec' = 2 * numsec /\ UNCHANGED aip
                \/ numsec' = 1 /\ aip' = aip + 1
             /\ UNCHANGED <<client, daemon>>
  /\ UNCHANGED <<config, block, jobnm, readerr, wire, nleft, spool, answer, stalled>>

\* submit_file: writes may fail, with a part of what they were given sent
Write(s) == wire' = wire \o s
SendHeader ==
  /\ client = "header"
  /\ \E k \in 0 .. Header : /\ Write([j \in 1 .. k |-> 0])
                            /\ client' = IF k = Header THEN "send" ELSE "failed"
  /\ UNCHANGED <<config, aip, numsec, block, jobnm, readerr, dvars>>

\* A read that fails gives -1, and so does writen of -1 bytes, which takes it for the number
\* of bytes written: the file is read again, for ever if the error stays (readerr).  -1 on
\* the wire is a part of a block.
SendBlock ==
  /\ client = "send" /\ ~readerr
  /\ \/ /\ block < Blocks
        /\ \/ block' = block + 1 /\ Write(<<block + 1>>) /\ UNCHANGED client
           \/ client' = "failed" /\ \E s \in {<<>>, <<-1>>} : Write(s) /\ UNCHANGED block
        /\ UNCHANGED readerr
     \/ readerr' = TRUE /\ UNCHANGED <<client, block, wire>>
     \/ /\ block = Blocks
        /\ client' = "wait"
        /\ UNCHANGED <<block, wire, readerr>>
  /\ UNCHANGED <<config, aip, numsec, jobnm, dvars>>

\* the end of print: the response, or the end of the connection
Response ==
  /\ client = "wait"
  /\ \/ answer = "ok" /\ client' = "told"
     \/ answer = "rejected" /\ client' = "rejected"
     \/ answer = "none" /\ daemon = "end" /\ client' = "failed"
  /\ answer' = "read"
  /\ UNCHANGED <<config, aip, numsec, block, jobnm, readerr, wire, daemon, nleft, spool, stalled>>

\* tread: a piece that is there, or its timeout, an error or the end of the connection
Arrives(p) == wire # <<>> /\ p = Head(wire) /\ wire' = Tail(wire)
Silence == wire = <<>> /\ UNCHANGED wire
Reject == daemon' = "end" /\ answer' = "rejected"

\* treadn for the request header, all of it or an error
ReadHeader ==
  /\ daemon = "header"
  /\ \/ /\ Arrives(0)
        /\ nleft' = nleft - 1
        /\ daemon' = IF nleft = 1 THEN "copy" ELSE "header"
        /\ UNCHANGED answer
     \/ Silence /\ Reject /\ UNCHANGED nleft
  /\ UNCHANGED <<cvars, spool, stalled>>

\* mutant: a short block is taken for the end of the file
CopyNoEnd ==
  /\ daemon = "copy"
  /\ \/ \E p \in {-1} \cup 1 .. Blocks :
           /\ Arrives(p)
           /\ spool' = Append(spool, p)
           /\ daemon' = IF p = 1 THEN "reply" ELSE "copy"
           /\ UNCHANGED <<answer, stalled>>
     \/ Silence /\ daemon' = "reply" /\ stalled' = (client \in {"send", "header"})
        /\ UNCHANGED <<spool, answer>>
  /\ UNCHANGED <<cvars, nleft>>

\* the copy ends with a read that returns nothing, whatever the reason
Copy ==
  /\ daemon = "copy"
  /\ \/ /\ \E p \in {-1} \cup 1 .. Blocks : Arrives(p) /\ spool' = Append(spool, p)
        /\ UNCHANGED <<daemon, answer, stalled>>
     \/ Silence /\ daemon' = "reply" /\ stalled' = (client \in {"send", "header"})
        /\ UNCHANGED <<spool, answer>>
     \/ Reject /\ spool' = <<>> /\ UNCHANGED <<wire, stalled>>
  /\ UNCHANGED <<cvars, nleft>>

Reply ==
  /\ daemon = "reply"
  /\ answer' = "ok"
  /\ daemon' = "end"
  /\ UNCHANGED <<cvars, wire, nleft, spool, stalled>>

Next == Open \/ Retry \/ SendHeader \/ SendBlock \/ Response
        \/ ReadHeader \/ Copy \/ Reply
Spec == Init /\ [][Next]_vars

\* the client's end, or its loop on a file that can no longer be read
Done == /\ client \in Ended \/ (client = "send" /\ readerr)
        /\ daemon \in {"idle", "end"}
-----------------------------------------------------------------------------
\* A client that is told its job number has its whole file in the spool directory, block
\* by block, unless it was silent for 20 seconds; then the daemon has a first part of it,
\* and only a client that failed leaves a part of a block there.
SpooledIsFile ==
  /\ \A n \in DOMAIN spool : spool[n] = n \/ (spool[n] = -1 /\ client = "failed")
  /\ client = "told" /\ ~stalled => Len(spool) = Blocks
  /\ jobnm < JOBNM_MAX
  /\ numsec <= MAXSLEEP
=============================================================================
