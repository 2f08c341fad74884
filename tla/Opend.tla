------------------------------- MODULE Opend -------------------------------
(***************************************************************************)
(* The open server of apue.3e/ipc2/opend with either of its loops,         *)
(* loop.select.c or loop.poll.c, and its clients (apue.3e/ipc2/open): one   *)
(* iterative process that accepts connections, reads requests and sends     *)
(* each answer, a descriptor or an error, over the connection it came from. *)
(* A server step is one system call of the loop with the computation up to  *)
(* the next; clients connect, ask, read and go away at any moment.          *)
(***************************************************************************)
EXTENDS Integers, Sequences, FiniteSets

CONSTANTS
  Clients,      \* client processes, each connects once (csfd is static)
  NoClient,
  NAlloc,       \* NALLOC of client.c
  MaxFd,        \* descriptors for connections that the server process may have
  MaxRequests,  \* bound: requests of a client
  Loops         \* the programs to check: a subset of {"select", "poll"}

ASSUME OpendAssumption ==
  /\ NoClient \notin Clients
  /\ NAlloc \in Nat \ {0} /\ MaxFd \in Nat \ {0} /\ MaxRequests \in Nat
  /\ Loops \subseteq {"select", "poll"}

VARIABLES
  loop,              \* the program: opend.select or opend.poll
  cli, sent,         \* of a client: what it does, requests sent
  inbox, answer,     \* of its connection: a request not read, an answer not read
  reset,             \* closed by the client with an answer unread
  backlog, conn,     \* connections not accepted; the client at each descriptor
  client,            \* client[]: descriptor and uid of each entry
  allset, rset, maxi,\* of loop.select.c
  pollfd,            \* of loop.poll.c: pollfd[0 .. numfd - 1]
  pc, i              \* where the loop is, and its index

clients == <<cli, sent, inbox, answer, reset>>
selecting == <<allset, rset, maxi>>
vars == <<loop, clients, backlog, conn, client, selecting, pollfd, pc, i>>

Fds == 1 .. MaxFd
Listen == 0             \* listenfd
Avail == -1             \* fd of an available entry of client[]
NumFd == Cardinality(DOMAIN pollfd)
Unused == [fd |-> Avail, uid |-> NoClient]

\* client_alloc: NALLOC more entries, all available
Grown(a) ==
  [j \in 0 .. Cardinality(DOMAIN a) + NAlloc - 1 |-> IF j \in DOMAIN a THEN a[j] ELSE Unused]
Free(a) == {j \in DOMAIN a : a[j].fd = Avail}
Least(S) == CHOOSE j \in S : \A k \in S : j <= k
Roomy(a) == IF Free(a) = {} THEN Grown(a) ELSE a
\* client_add: the first available entry
AddAt(a) == Least(Free(Roomy(a)))
Added(a, fd, uid) == [Roomy(a) EXCEPT ![AddAt(a)] = [fd |-> fd, uid |-> uid]]
\* client_del: the entry becomes available; it keeps its uid
Deleted(a, fd) == [a EXCEPT ![Least({j \in DOMAIN a : a[j].fd = fd})].fd = Avail]

Init ==
  /\ loop \in Loops
  /\ cli = [c \in Clients |-> "new"] /\ sent = [c \in Clients |-> 0]
  /\ inbox = [c \in Clients |-> FALSE] /\ answer = [c \in Clients |-> "none"]
  /\ reset = [c \in Clients |-> FALSE]
  /\ backlog = <<>> /\ conn = [f \in Fds |-> NoClient]
  /\ client = IF loop = "poll" THEN Added(<<>>, Listen, NoClient) ELSE <<>>
  /\ allset = {} /\ rset = {} /\ maxi = -1
  /\ pollfd = [j \in {0} |-> [fd |-> Listen, rev |-> "none"]]
  /\ pc = "wait" /\ i = 0

-----------------------------------------------------------------------------
(* The clients (csopen).                                                     *)

Up == pc # "down"

Connect(c) ==
  /\ cli[c] = "new" /\ Up
  /\ cli' = [cli EXCEPT ![c] = "idle"] /\ backlog' = Append(backlog, c)
  /\ UNCHANGED <<loop, sent, inbox, answer, reset, conn, client, selecting, pollfd, pc, i>>

Ask(c) ==
  /\ cli[c] = "idle" /\ Up /\ sent[c] < MaxRequests
  /\ cli' = [cli EXCEPT ![c] = "waiting"] /\ inbox' = [inbox EXCEPT ![c] = TRUE]
  /\ sent' = [sent EXCEPT ![c] = @ + 1]
  /\ UNCHANGED <<loop, answer, reset, backlog, conn, client, selecting, pollfd, pc, i>>

\* recv_fd returns with the answer, or because the server is gone
Receive(c) ==
  /\ cli[c] = "waiting" /\ (answer[c] # "none" \/ ~Up)
  /\ cli' = [cli EXCEPT ![c] = "idle"] /\ answer' = [answer EXCEPT ![c] = "none"]
  /\ UNCHANGED <<loop, sent, inbox, reset, backlog, conn, client, selecting, pollfd, pc, i>>

\* the client exits or is killed, whether or not it waits for an answer
Leave(c) ==
  /\ cli[c] \in {"idle", "waiting"}
  /\ cli' = [cli EXCEPT ![c] = "gone"]
  /\ reset' = [reset EXCEPT ![c] = answer[c] # "none"]
  /\ UNCHANGED <<loop, sent, inbox, answer, backlog, conn, client, selecting, pollfd, pc, i>>

-----------------------------------------------------------------------------
(* select or poll returns.                                                   *)

Readable(f) == conn[f] # NoClient /\ (inbox[conn[f]] \/ cli[conn[f]] = "gone")
Events(f) ==
  IF cli[conn[f]] = "gone" THEN "hup" ELSE IF inbox[conn[f]] THEN "in" ELSE "none"
AnyReady == backlog # <<>> \/ \E f \in Fds : Readable(f)
Next1 == IF backlog # <<>> THEN "accept" ELSE "scan"

SelectReturns ==
  /\ loop = "select" /\ pc = "wait" /\ AnyReady
  /\ rset' = {f \in allset : Readable(f)}
  /\ pc' = Next1 /\ i' = 0
  /\ UNCHANGED <<loop, clients, backlog, conn, client, allset, maxi, pollfd>>

PollReturns ==
  /\ loop = "poll" /\ pc = "wait" /\ AnyReady
  /\ pollfd' = [j \in DOMAIN pollfd |->
                  IF j = 0 THEN pollfd[0] ELSE [pollfd[j] EXCEPT !.rev = Events(pollfd[j].fd)]]
  /\ pc' = Next1 /\ i' = 1
  /\ UNCHANGED <<loop, clients, backlog, conn, client, selecting>>

NewEntry(f) == [fd |-> f, rev |-> "none"]
\* mutants: the number of entries instead of the largest index, or no update
MaxiPast(k) == IF k + 1 > maxi THEN k + 1 ELSE maxi
MaxiKept(k) == maxi
MaxiWith(k) == IF k > maxi THEN k ELSE maxi

(* serv_accept gives the lowest free descriptor; when none is left it fails  *)
(* and log_sys ends the server.  loop.select.c then starts again from select; *)
(* loop.poll.c goes on to the other descriptors.                             *)
Accept ==
  LET c == Head(backlog)
      free == {f \in Fds : conn[f] = NoClient}
      f == Least(free)
  IN /\ pc = "accept"
     /\ backlog' = Tail(backlog)
     /\ \/ /\ free = {} /\ pc' = "down"
           /\ UNCHANGED <<conn, client, selecting, pollfd>>
        \/ /\ free # {} /\ conn' = [conn EXCEPT ![f] = c]
           /\ client' = Added(client, f, c)
           /\ \/ /\ loop = "select" /\ pc' = "wait"
                 /\ allset' = allset \cup {f} /\ maxi' = MaxiWith(AddAt(client))
                 /\ UNCHANGED <<rset, pollfd>>
              \/ /\ loop = "poll" /\ pc' = "scan"
                 /\ pollfd' = [j \in 0 .. NumFd |-> IF j = NumFd THEN NewEntry(f) ELSE pollfd[j]]
                 /\ UNCHANGED selecting
     /\ UNCHANGED <<loop, clients, i>>

-----------------------------------------------------------------------------
(* The scan.  Entries that are not ready are passed over on the way to the   *)
(* next that is.                                                             *)

Ready(j) ==
  IF loop = "select" THEN client[j].fd # Avail /\ client[j].fd \in rset
  ELSE pollfd[j].rev # "none"
Last == IF loop = "select" THEN maxi ELSE NumFd - 1
ReadyFrom == {j \in i .. Last : Ready(j)}
At == Least(ReadyFrom)                                   \* the entry served next
Fd(j) == IF loop = "select" THEN client[j].fd ELSE pollfd[j].fd
HungUp(j) == loop = "poll" /\ pollfd[j].rev = "hup"
Scanning == pc = "scan" /\ ReadyFrom # {}

EndScan ==
  /\ pc = "scan" /\ ReadyFrom = {}
  /\ pc' = "wait"
  /\ UNCHANGED <<loop, clients, backlog, conn, client, selecting, pollfd, i>>

\* mutant: the answer goes to the first connected client
AnswerFirst(c, a) ==
  answer' = [answer EXCEPT ![conn[Least({f \in Fds : conn[f] # NoClient})]] = a]
Answer(c, a) == answer' = [answer EXCEPT ![c] = a]

(* read returns a request: handle_request answers with a descriptor or an     *)
(* error.  If the client has gone in the meantime the answer raises SIGPIPE,  *)
(* which the server does not catch.                                          *)
Request ==
  LET c == conn[Fd(At)]
  IN /\ Scanning /\ ~HungUp(At) /\ inbox[c]
     /\ inbox' = [inbox EXCEPT ![c] = FALSE]
     /\ \/ /\ cli[c] # "gone" /\ i' = At + 1
           /\ \E a \in {"fd", "error"} : Answer(c, a)
           /\ UNCHANGED pc
        \/ cli[c] = "gone" /\ pc' = "down" /\ UNCHANGED <<answer, i>>
     /\ UNCHANGED <<loop, cli, sent, reset, backlog, conn, client, selecting, pollfd>>

\* mutant: the entry moved into the gap keeps the events of the one it replaces
PackStale(j) ==
  [k \in 0 .. NumFd - 2 |-> IF k = j THEN [pollfd[k] EXCEPT !.fd = pollfd[NumFd - 1].fd]
                            ELSE pollfd[k]]
\* the last pollfd entry takes the place of entry j
Pack(j) == [k \in 0 .. NumFd - 2 |-> IF k = j THEN pollfd[NumFd - 1] ELSE pollfd[k]]

\* mutant: the closed descriptor stays in the set for select
ClearedNot(f) == allset
Cleared(f) == allset \ {f}

(* read returns 0, or poll reports POLLHUP: the connection is forgotten and   *)
(* closed.  read may also fail because the client left an answer unread, and  *)
(* log_sys ends the server.                                                  *)
Closed ==
  LET f == Fd(At)  c == conn[f]
  IN /\ Scanning /\ (HungUp(At) \/ ~inbox[c]) /\ cli[c] = "gone"
     /\ \/ /\ conn' = [conn EXCEPT ![f] = NoClient]
           /\ client' = Deleted(client, f)
           /\ \/ loop = "select" /\ allset' = Cleared(f) /\ i' = At + 1 /\ UNCHANGED pollfd
              \/ loop = "poll" /\ pollfd' = Pack(At) /\ i' = At /\ UNCHANGED allset
           /\ UNCHANGED pc
        \/ /\ reset[c] /\ ~HungUp(At) /\ pc' = "down"
           /\ UNCHANGED <<conn, client, allset, pollfd, i>>
     /\ UNCHANGED <<loop, clients, backlog, rset, maxi>>

Server == SelectReturns \/ PollReturns \/ Accept \/ EndScan \/ Request \/ Closed
Client(c) == Connect(c) \/ Ask(c) \/ Receive(c) \/ Leave(c)

\* no client is left and the server waits, or is gone
Quiet ==
  /\ \A c \in Clients : cli[c] = "gone" \/ (cli[c] = "new" /\ ~Up)
  /\ ~Up \/ (pc = "wait" /\ ~AnyReady)
  /\ UNCHANGED vars

Next == Server \/ (\E c \in Clients : Client(c)) \/ Quiet

Spec == Init /\ [][Next]_vars

\* the server process keeps running; clients owe nothing
FairSpec == Spec /\ WF_vars(Server)

-----------------------------------------------------------------------------
(* Properties *)

(* Type invariant.                                                           *)
TypeOK ==
  /\ loop \in Loops /\ pc \in {"wait", "accept", "scan", "down"} /\ i \in Nat
  /\ cli \in [Clients -> {"new", "idle", "waiting", "gone"}]
  /\ sent \in [Clients -> 0 .. MaxRequests]
  /\ inbox \in [Clients -> BOOLEAN] /\ reset \in [Clients -> BOOLEAN]
  /\ answer \in [Clients -> {"none", "fd", "error"}]
  /\ backlog \in Seq(Clients) /\ conn \in [Fds -> Clients \cup {NoClient}]
  /\ DOMAIN client = 0 .. Cardinality(DOMAIN client) - 1
  /\ \A j \in DOMAIN client :
       client[j] \in [fd : {Avail, Listen} \cup Fds, uid : Clients \cup {NoClient}]
  /\ allset \subseteq Fds /\ rset \subseteq Fds /\ maxi \in -1 .. Cardinality(DOMAIN client) - 1
  /\ DOMAIN pollfd = 0 .. NumFd - 1
  /\ \A j \in DOMAIN pollfd : pollfd[j] \in [fd : {Listen} \cup Fds, rev : {"none", "in", "hup"}]

(* Every connection has one entry of client[], with its own uid, and is       *)
(* watched by select or poll once; nothing else is (client.c, opend.h:14 "one *)
(* Client struct per connected client").                                     *)
Registered ==
  LET open == {f \in Fds : conn[f] # NoClient}
      used == {j \in DOMAIN client : client[j].fd \notin {Avail, Listen}}
  IN /\ {client[j].fd : j \in used} = open /\ Cardinality(used) = Cardinality(open)
     /\ \A j \in used : client[j].uid = conn[client[j].fd]
     /\ loop = "select" => allset = open /\ \A j \in used : j <= maxi
     /\ loop = "poll" =>
          {pollfd[j].fd : j \in 1 .. NumFd - 1} = open /\ NumFd - 1 = Cardinality(open)

(* The server never waits in read: whatever entry of the scan it comes to     *)
(* next, the connection has a request or is closed, although the events were  *)
(* reported before others were served, closed, moved or accepted.             *)
ReadNeverBlocks ==
  Scanning => \A j \in ReadyFrom :
                conn[Fd(j)] # NoClient /\ (inbox[conn[Fd(j)]] \/ cli[conn[Fd(j)]] = "gone")

(* An answer is only ever there for a client that waits for one or has gone,  *)
(* and a client never has an answer and a request under way at once.          *)
AnswersAsked ==
  \A c \in Clients : answer[c] # "none" => cli[c] \in {"waiting", "gone"} /\ ~inbox[c]

(* The uid handle_request is given and logs with a request ("request: %s,     *)
(* from uid %d", request.c:16) is that of the client that sent it.            *)
RequestUid == Scanning => client[At].uid = conn[Fd(At)]

(* A request is answered, unless its client or the server goes away: a scan   *)
(* comes to every connection that select or poll reports.                    *)
Answered ==
  \A c \in Clients : inbox[c] ~> (answer[c] # "none" \/ cli[c] # "waiting" \/ ~Up)
=============================================================================
