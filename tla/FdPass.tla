------------------------------- MODULE FdPass -------------------------------
(***************************************************************************)
(* The open server that the client forks (ipc2/open.fe, ipc2/opend.fe) and *)
(* the protocol of send_fd and recv_ufd (ipc2/sendfd2.c, recvfd2.c): any   *)
(* text, then a null and a status byte, which carry the descriptor if the  *)
(* status is 0.  A byte is a token: <<"open">>, <<"name", file>> and       *)
(* <<"null">> in a request; <<"text">>, <<"null">> and <<"status", s, file>>*)
(* in an answer.  The sockets are streams: what is read is what there is,  *)
(* up to MAXLINE bytes.                                                    *)
(***************************************************************************)
EXTENDS Integers, Sequences

CONSTANTS Names,         \* records [file, size]: a file or Nil, the size of the request
          Nil,
          MAXLINE, MaxCalls

VARIABLES cpc, server,   \* the client; "none", "error" (of fork), "read", "answer", "gone"
          name, calls,   \* what csopen was called with; calls
          c2s, s2c,      \* the two directions of the socket pair
          request,       \* the server's buffer
          opened,        \* the server's open file
          status, newfd, \* of recv_ufd, which returns newfd or -status
          lost           \* an answer was left or split: a write to stderr failed, or a
                         \* request was longer than the server's buffer

recv == <<status, newfd>>
vars == <<cpc, server, name, calls, c2s, s2c, request, opened, recv, lost>>

Init ==
  /\ cpc = "fgets" /\ server = "none"
  /\ name \in Names /\ calls = 0
  /\ c2s = <<>> /\ s2c = <<>> /\ request = <<>>
  /\ opened = Nil
  /\ status = -1 /\ newfd = Nil
  /\ lost = FALSE

\* csopen: the server is forked the first time; an error leaves the socket pair open
csopen ==
  /\ cpc = "fgets"
  /\ calls < MaxCalls
  /\ calls' = calls + 1
  /\ name' \in Names
  /\ IF server # "none" THEN cpc' = "writev" /\ UNCHANGED server
     ELSE \/ cpc' = "writev" /\ server' = "read"
          \/ cpc' = "fgets" /\ server' \in {"none", "error"}
  /\ UNCHANGED <<c2s, s2c, request, opened, recv, lost>>

\* writev raises SIGPIPE if the server is gone; recv_ufd begins without a status
Writev ==
  /\ cpc = "writev"
  /\ IF server = "gone" THEN cpc' = "killed" /\ UNCHANGED <<c2s, recv, lost>>
     ELSE /\ cpc' = "recvmsg"
          /\ c2s' = c2s \o [k \in 1 .. name.size |->
                              IF k = 1 THEN <<"open">> ELSE IF k = name.size THEN <<"null">>
                              ELSE <<"name", name.file>>]
          /\ status' = -1 /\ newfd' = Nil
          /\ lost' = (lost \/ name.size > MAXLINE)
  /\ UNCHANGED <<server, name, calls, s2c, request, opened>>

Smallest(S) == CHOOSE k \in S : \A m \in S : k <= m
\* the bytes one recvmsg returns: it never goes past a descriptor
Part == LET fds == {k \in DOMAIN s2c : s2c[k][1] = "status" /\ s2c[k][3] # Nil}
        IN  SubSeq(s2c, 1, Smallest({MAXLINE, Len(s2c)} \cup fds))

\* one turn of recv_ufd's loop; the text is written to stderr
Recvmsg ==
  LET nulls == {k \in DOMAIN Part : Part[k][1] = "null"}
      last == Part[Len(Part)]
      text == Len(Part) - (IF nulls = {} THEN 0 ELSE 2)
  IN  /\ cpc = "recvmsg"
      /\ IF s2c = <<>> THEN server = "gone" /\ cpc' = "fgets" /\ UNCHANGED <<s2c, recv, lost>>
         ELSE /\ s2c' = SubSeq(s2c, Len(Part) + 1, Len(s2c))
              /\ IF nulls # {} /\ Smallest(nulls) # Len(Part) - 1
                 THEN cpc' = "dumped" /\ UNCHANGED <<recv, lost>>
                 ELSE /\ IF nulls = {} THEN UNCHANGED recv
                         ELSE /\ status' = last[2]
                              /\ newfd' = last[3]
                      /\ \/ cpc' = (IF status' < 0 THEN "recvmsg"
                                    ELSE IF status' = 0 THEN "cat" ELSE "fgets")
                            /\ UNCHANGED lost
                         \/ text > 0 /\ cpc' = "fgets" /\ lost' = TRUE
  /\ UNCHANGED <<server, name, calls, c2s, request, opened>>

\* the file is copied and closed, or an error ends the client
Cat ==
  /\ cpc = "cat"
  /\ cpc' \in {"fgets", "exit"}
  /\ UNCHANGED <<server, name, calls, c2s, s2c, request, opened, recv, lost>>

EndClient ==
  /\ cpc = "fgets" /\ calls = MaxCalls
  /\ cpc' = "exit"
  /\ UNCHANGED <<server, name, calls, c2s, s2c, request, opened, recv, lost>>

\* the server's main: the end of file when the client is gone
ClientGone == cpc \in {"exit", "killed", "dumped"}
ReadRequest ==
  /\ server = "read"
  /\ IF c2s = <<>> THEN ClientGone /\ server' = "gone" /\ UNCHANGED <<c2s, request>>
     ELSE LET n == Smallest({MAXLINE, Len(c2s)})
          IN  /\ request' = SubSeq(c2s, 1, n)
              /\ c2s' = SubSeq(c2s, n + 1, Len(c2s))
              /\ server' = "answer"
  /\ UNCHANGED <<cpc, name, calls, s2c, opened, recv, lost>>

\* send_fd: two bytes in one message; -256 and the like become status 1
send_fd(fd, file) ==
  LET s == (-fd) % 256
  IN  <<<<"null">>, <<"status", IF fd < 0 /\ s = 0 THEN 1 ELSE IF fd < 0 THEN s ELSE 0, file>>>>
\* mutant: errmsg is not cut
TextUncut(n) == [k \in 1 .. n + 1 |-> <<"text">>]
\* errmsg is cut by snprintf: with the status it fits into MAXLINE bytes
Text(n) == [k \in 1 .. n |-> <<"text">>]

\* the first string of the request; the next ones, of a client that did not wait, are not seen
First(r) == SubSeq(r, 1, Smallest({k \in DOMAIN r : r[k] = <<"null">>}))
File(r) == IF r[Len(r)] = <<"null">> /\ r[1] = <<"open">> THEN First(r)[2][2] ELSE Nil

\* handle_request: an error is sent as text, then as the status -1, whether or not the text
\* could be sent; send_fd's own error ends the server
handle_request ==
  /\ server = "answer"
  /\ opened' = File(request)
  /\ IF opened' = Nil
     THEN /\ server' = "status"
          /\ \E n \in 0 .. MAXLINE - 2 : s2c' = s2c \o Text(n)
     ELSE \/ server' = "close" /\ s2c' = s2c \o send_fd(0, opened')
          \/ server' = "gone" /\ UNCHANGED s2c
  /\ UNCHANGED <<cpc, name, calls, c2s, request, recv, lost>>

SendStatus ==
  /\ server = "status"
  /\ s2c' = s2c \o send_fd(-1, Nil)
  /\ server' = "read"
  /\ UNCHANGED <<cpc, name, calls, c2s, request, opened, recv, lost>>

CloseFd ==
  /\ server = "close"
  /\ opened' = Nil
  /\ server' = "read"
  /\ UNCHANGED <<cpc, name, calls, c2s, s2c, request, recv, lost>>

Next == csopen \/ Writev \/ Recvmsg \/ Cat \/ EndClient
        \/ ReadRequest \/ handle_request \/ SendStatus \/ CloseFd
Spec == Init /\ [][Next]_vars

\* after an error of fork the next csopen waits for ever
Done == \/ ClientGone /\ server \in {"none", "gone", "error"}
        \/ cpc = "recvmsg" /\ server = "error"
-----------------------------------------------------------------------------
\* As long as every request fits into the server's buffer and stderr can be written, each
\* answer is read whole and is the one to this request: the client gets the file it named,
\* or an error status if there is none, and nothing is left in the sockets behind it.
AnswersMatch ==
  ~lost =>
    /\ cpc # "dumped"
    /\ cpc = "cat" => newfd = name.file
    /\ cpc = "fgets" /\ status > 0 => name.file = Nil /\ newfd = Nil
    /\ cpc \in {"fgets", "writev"} => c2s = <<>> /\ s2c = <<>>
=============================================================================
