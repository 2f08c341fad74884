--------------------------- MODULE Opend_proofs ---------------------------
(***************************************************************************)
(* Opend: for any number of clients, descriptors, entries and requests,    *)
(* every connection is registered once and watched once, the scan comes    *)
(* only to connections that have something to read, the uid given with a   *)
(* request is the sender's with loop.select.c, and answers go to clients   *)
(* that asked.  The counts of Registered are bijections from entries to    *)
(* descriptors; what the scan relies on is that the events it has not come *)
(* to yet still describe the connection they were reported for.            *)
(***************************************************************************)
EXTENDS Opend, FiniteSetTheorems, TLAPS

\* An array of C that grows: a function on 0 .. n-1.
Array(a) == \E n \in Nat : DOMAIN a = 0 .. n - 1
Entry == [fd : {Avail, Listen} \cup Fds, uid : Clients \cup {NoClient}]
PollEntry == [fd : {Listen} \cup Fds, rev : {"none", "in", "hup"}]

Types ==
  /\ loop \in {"select", "poll"} /\ loop \in Loops
  /\ pc \in {"wait", "accept", "scan", "down"} /\ i \in Nat
  /\ cli \in [Clients -> {"new", "idle", "waiting", "gone"}]
  /\ sent \in [Clients -> 0 .. MaxRequests]
  /\ inbox \in [Clients -> BOOLEAN] /\ reset \in [Clients -> BOOLEAN]
  /\ answer \in [Clients -> {"none", "fd", "error"}]
  /\ backlog \in Seq(Clients) /\ conn \in [Fds -> Clients \cup {NoClient}]
  /\ Array(client) /\ \A j \in DOMAIN client : client[j] \in Entry
  /\ allset \subseteq Fds /\ rset \subseteq Fds /\ maxi \in Int
  /\ maxi = -1 \/ maxi \in DOMAIN client
  /\ Array(pollfd) /\ \A j \in DOMAIN pollfd : pollfd[j] \in PollEntry

Open(f) == conn[f] # NoClient
Used(j) == client[j].fd \in Fds

\* client[]: the entries that are used and the open descriptors are one to one.
Entries ==
  /\ \A j \in DOMAIN client : Used(j) => Open(client[j].fd) /\ client[j].uid = conn[client[j].fd]
  /\ \A j, k \in DOMAIN client : Used(j) /\ client[j].fd = client[k].fd => j = k
  /\ \A f \in Fds : Open(f) => \E j \in DOMAIN client : client[j].fd = f

\* What select is asked for are the open descriptors, and maxi covers their entries.
SelectWatches ==
  loop = "select" => /\ \A f \in Fds : f \in allset <=> Open(f)
                     /\ \A j \in DOMAIN client : Used(j) => j <= maxi

\* The entries for poll after the first and the open descriptors are one to one.
PollWatches ==
  loop = "poll" =>
    /\ 0 \in DOMAIN pollfd /\ pollfd[0].rev = "none"
    /\ \A j \in DOMAIN pollfd : j # 0 => pollfd[j].fd \in Fds /\ Open(pollfd[j].fd)
    /\ \A j, k \in DOMAIN pollfd : j # 0 /\ k # 0 /\ pollfd[j].fd = pollfd[k].fd => j = k
    /\ \A f \in Fds : Open(f) => \E j \in DOMAIN pollfd : j # 0 /\ pollfd[j].fd = f

\* A client has connected once: it is in the backlog once or at one descriptor.
Connected ==
  /\ \A f, g \in Fds : Open(f) /\ conn[f] = conn[g] => f = g
  /\ \A f \in Fds : Open(f) => cli[conn[f]] # "new"
  /\ \A j \in 1 .. Len(backlog) :
       cli[backlog[j]] # "new" /\ \A f \in Fds : conn[f] # backlog[j]
  /\ \A j, k \in 1 .. Len(backlog) : backlog[j] = backlog[k] => j = k

\* The events that the scan has not come to yet are still true.
Unscanned ==
  /\ loop = "select" /\ pc = "scan" =>
       \A j \in DOMAIN client : j >= i /\ client[j].fd \in rset => Readable(client[j].fd)
  /\ loop = "poll" /\ pc \in {"accept", "scan"} =>
       \A j \in DOMAIN pollfd :
         j >= i /\ pollfd[j].rev # "none" =>
           /\ Readable(pollfd[j].fd)
           /\ pollfd[j].rev = "hup" => cli[conn[pollfd[j].fd]] = "gone"

\* A request that was not read is that of a client that waits or has gone.
Asked == \A c \in Clients : inbox[c] => cli[c] \in {"waiting", "gone"} \/ ~Up

\* The loop goes to accept only when somebody waits there.
Pending == pc = "accept" => backlog # <<>>

IInv ==
  Types /\ Entries /\ SelectWatches /\ PollWatches /\ Connected /\ Unscanned /\ Asked
    /\ AnswersAsked /\ Pending

-----------------------------------------------------------------------------
(* The operators on client[] and pollfd[].                                   *)

\* A set of naturals that is not empty has a least element.
LEMMA LeastIn == ASSUME NEW S \in SUBSET Nat, S # {} PROVE Least(S) \in S
<1>1. PICK x \in S : \A y \in S : ~(<<y, x>> \in OpToRel(<, Nat))
  BY NatLessThanWellFounded, WFMin
<1>2. ASSUME NEW y \in S PROVE x <= y
  <2>1. x \in Nat /\ y \in Nat
    OBVIOUS
  <2>2. ~(y < x)
    BY <1>1, <2>1 DEF OpToRel
  <2> QED
    BY <2>1, <2>2
<1> QED
  BY <1>2 DEF Least

\* The number of elements of an array is what its domain says.
LEMMA ArraySize ==
  ASSUME NEW a, Array(a)
  PROVE  /\ IsFiniteSet(DOMAIN a) /\ Cardinality(DOMAIN a) \in Nat
         /\ DOMAIN a = 0 .. Cardinality(DOMAIN a) - 1
<1>1. PICK n \in Nat : DOMAIN a = 0 .. n - 1
  BY DEF Array
<1>2. IsFiniteSet(0 .. n - 1) /\ Cardinality(0 .. n - 1) = n
  BY FS_Interval
<1> QED
  BY <1>1, <1>2

\* client_alloc: more entries, the new ones available.
LEMMA GrownOK ==
  ASSUME NEW a, Array(a), OpendAssumption
  PROVE  /\ Array(Grown(a)) /\ DOMAIN a \subseteq DOMAIN Grown(a)
         /\ \E j \in DOMAIN Grown(a) : j \notin DOMAIN a
         /\ \A j \in DOMAIN Grown(a) : Grown(a)[j] = IF j \in DOMAIN a THEN a[j] ELSE Unused
<1>1. PICK n \in Nat : DOMAIN a = 0 .. n - 1
  BY DEF Array
<1>2. Cardinality(DOMAIN a) = n
  BY <1>1, FS_Interval
<1>3. n + NAlloc \in Nat /\ NAlloc >= 1
  BY DEF OpendAssumption
<1>4. DOMAIN Grown(a) = 0 .. (n + NAlloc) - 1
  BY <1>1, <1>2 DEF Grown
<1>5. n \in DOMAIN Grown(a) /\ n \notin DOMAIN a
  BY <1>1, <1>3, <1>4
<1>6. Array(Grown(a))
  BY <1>3, <1>4 DEF Array
<1>7. DOMAIN a \subseteq DOMAIN Grown(a)
  BY <1>1, <1>3, <1>4
<1>8. \A j \in DOMAIN Grown(a) : Grown(a)[j] = IF j \in DOMAIN a THEN a[j] ELSE Unused
  BY DEF Grown
<1> QED
  BY <1>5, <1>6, <1>7, <1>8

\* client_add: one available entry is taken, the others stay or are new.
LEMMA AddedOK ==
  ASSUME NEW a, Array(a), NEW f, NEW u, OpendAssumption
  PROVE  /\ Array(Added(a, f, u)) /\ DOMAIN a \subseteq DOMAIN Added(a, f, u)
         /\ AddAt(a) \in DOMAIN Added(a, f, u)
         /\ Added(a, f, u)[AddAt(a)] = [fd |-> f, uid |-> u]
         /\ AddAt(a) \in DOMAIN a => a[AddAt(a)].fd = Avail
         /\ \A j \in DOMAIN Added(a, f, u) :
              j # AddAt(a) => Added(a, f, u)[j] = IF j \in DOMAIN a THEN a[j] ELSE Unused
<1> DEFINE b == Roomy(a)
<1>1. /\ Array(b) /\ DOMAIN a \subseteq DOMAIN b
      /\ \A j \in DOMAIN b : b[j] = IF j \in DOMAIN a THEN a[j] ELSE Unused
      /\ Free(b) # {}
  <2>1. CASE Free(a) = {}
    <3>1. b = Grown(a)
      BY <2>1 DEF Roomy
    <3>2. PICK j \in DOMAIN b : j \notin DOMAIN a
      BY <3>1, GrownOK
    <3>3. b[j] = Unused
      BY <3>1, <3>2, GrownOK
    <3> QED
      BY <3>1, <3>2, <3>3, GrownOK DEF Free, Unused
  <2>2. CASE Free(a) # {}
    BY <2>2 DEF Roomy
  <2> QED
    BY <2>1, <2>2
<1>2. DOMAIN b \in SUBSET Nat
  BY <1>1 DEF Array
<1>3. AddAt(a) \in Free(b)
  <2>1. Free(b) \in SUBSET Nat
    BY <1>2 DEF Free
  <2> QED
    BY <1>1, <2>1, LeastIn DEF AddAt
<1>4. AddAt(a) \in DOMAIN b /\ b[AddAt(a)].fd = Avail
  BY <1>3 DEF Free
<1>5. Added(a, f, u) = [b EXCEPT ![AddAt(a)] = [fd |-> f, uid |-> u]]
  BY DEF Added
<1>6. DOMAIN Added(a, f, u) = DOMAIN b
  BY <1>5
<1>7. Array(Added(a, f, u))
  BY <1>1, <1>6 DEF Array
<1> HIDE DEF b
<1> QED
  BY <1>1, <1>4, <1>5, <1>6, <1>7

\* client_del: the entry of a descriptor that is in the array once becomes available.
LEMMA DeletedOK ==
  ASSUME NEW a, Array(a), NEW k \in DOMAIN a,
         \A j \in DOMAIN a : a[j].fd = a[k].fd => j = k
  PROVE  Deleted(a, a[k].fd) = [a EXCEPT ![k].fd = Avail]
<1> DEFINE S == {j \in DOMAIN a : a[j].fd = a[k].fd}
<1>1. S \in SUBSET Nat /\ k \in S
  BY DEF Array
<1>2. Least(S) = k
  BY <1>1, LeastIn
<1> QED
  BY <1>2 DEF Deleted

\* What a step that keeps connections, entries and events must keep besides.
LEMMA Kept ==
  ASSUME Types, Entries, SelectWatches, PollWatches, Unscanned,
         UNCHANGED <<loop, conn, client, selecting, pollfd, pc, i>>,
         \A c \in Clients : (inbox[c] => inbox'[c]) /\ (cli[c] = "gone" => cli'[c] = "gone")
  PROVE  Entries' /\ SelectWatches' /\ PollWatches' /\ Unscanned'
<1> USE DEF selecting
<1>1. Entries'
  BY DEF Entries, Open, Used, Fds
<1>2. SelectWatches' /\ PollWatches'
  BY DEF SelectWatches, PollWatches, Open, Used, Fds
<1>3. \A f \in Fds : Readable(f) => Readable(f)'
  BY DEF Readable, Types
<1>4. \A j \in DOMAIN client : client[j].fd \in rset => client[j].fd \in Fds
  BY DEF Types
<1>5. loop = "poll" => \A j \in DOMAIN pollfd : pollfd[j].rev # "none" => pollfd[j].fd \in Fds /\ conn[pollfd[j].fd] \in Clients
  BY DEF PollWatches, Types, Open
<1>6. Unscanned'
  BY <1>3, <1>4, <1>5 DEF Unscanned
<1> QED
  BY <1>1, <1>2, <1>6

-----------------------------------------------------------------------------
(* The clients.                                                              *)

LEMMA ConnectOK == ASSUME OpendAssumption, IInv, NEW c \in Clients, Connect(c) PROVE IInv'
<1> USE DEF IInv, Connect, selecting
<1>1. Types'
  BY DEF Types
<1>2. Entries' /\ SelectWatches' /\ PollWatches' /\ Unscanned'
  <2>1. \A d \in Clients : (inbox[d] => inbox'[d]) /\ (cli[d] = "gone" => cli'[d] = "gone")
    BY DEF Types
  <2> QED
    BY <2>1, Kept
<1>3. Connected'
  <2>1. /\ Len(backlog') = Len(backlog) + 1 /\ backlog'[Len(backlog) + 1] = c
        /\ \A j \in 1 .. Len(backlog) : backlog'[j] = backlog[j] /\ backlog[j] \in Clients
        /\ Len(backlog) \in Nat
    BY DEF Types
  <2>2. \A f \in Fds : conn[f] # c
    BY OpendAssumption DEF OpendAssumption, Connected, Open
  <2>3. \A j \in 1 .. Len(backlog) : backlog[j] # c
    BY DEF Connected
  <2>4. \A f \in Fds : Open(f) => conn[f] \in Clients
    BY DEF Types, Open
  <2>5. \A d \in Clients : cli'[d] = IF d = c THEN "idle" ELSE cli[d]
    BY DEF Types
  <2>6. \A f \in Fds : Open(f)' <=> Open(f)
    BY DEF Open
  <2>7. \A f, g \in Fds : Open(f)' /\ conn'[f] = conn'[g] => f = g
    BY <2>6 DEF Connected
  <2>8. \A f \in Fds : Open(f)' => cli'[conn'[f]] # "new"
    BY <2>4, <2>5, <2>6 DEF Connected
  <2>9. \A j \in 1 .. Len(backlog') :
          j \in 1 .. Len(backlog) \/ (backlog'[j] = c /\ j = Len(backlog) + 1)
    <3>1. PICK n \in Nat : n = Len(backlog) /\ n + 1 = Len(backlog')
      BY <2>1
    <3>2. \A j \in 1 .. n + 1 : j \in 1 .. n \/ j = n + 1
      OBVIOUS
    <3> QED
      BY <2>1, <3>1, <3>2
  <2>10. \A j \in 1 .. Len(backlog') : cli'[backlog'[j]] # "new" /\ \A f \in Fds : conn'[f] # backlog'[j]
    BY <2>1, <2>2, <2>5, <2>9 DEF Connected
  <2>11. \A j, k \in 1 .. Len(backlog') : backlog'[j] = backlog'[k] => j = k
    BY <2>1, <2>3, <2>9 DEF Connected
  <2> QED
    BY <2>7, <2>8, <2>10, <2>11 DEF Connected, Fds
<1>4. Asked' /\ AnswersAsked'
  BY DEF Asked, AnswersAsked, Types, Up
<1>5. Pending'
  <2>1. backlog \in Seq(Clients) /\ Append(backlog, c) # <<>>
    BY DEF Types
  <2> QED
    BY <2>1 DEF Pending
<1> QED
  BY <1>1, <1>2, <1>3, <1>4, <1>5

\* A step of a client that is connected.
LEMMA StillConnected ==
  ASSUME Types, Connected, UNCHANGED <<conn, backlog>>,
         \A c \in Clients : cli[c] # "new" => cli'[c] # "new"
  PROVE  Connected'
<1>1. \A j \in 1 .. Len(backlog) : backlog[j] \in Clients
  BY DEF Types
<1>2. \A f \in Fds : Open(f) => conn[f] \in Clients
  BY DEF Types, Open
<1>3. \A f \in Fds : Open(f)' <=> Open(f)
  BY DEF Open
<1> QED
  BY <1>1, <1>2, <1>3 DEF Connected, Fds

LEMMA AskOK == ASSUME OpendAssumption, IInv, NEW c \in Clients, Ask(c) PROVE IInv'
<1> USE DEF IInv, Ask, selecting
<1>1. Types'
  BY DEF Types, OpendAssumption
<1>2. /\ \A d \in Clients : (inbox[d] => inbox'[d]) /\ (cli[d] = "gone" => cli'[d] = "gone")
      /\ \A d \in Clients : cli[d] # "new" => cli'[d] # "new"
  BY DEF Types
<1>3. Entries' /\ SelectWatches' /\ PollWatches' /\ Unscanned'
  BY <1>2, Kept
<1>4. Connected'
  BY <1>2, StillConnected
<1>5. Asked' /\ AnswersAsked' /\ Pending'
  BY DEF Pending, Asked, AnswersAsked, Types, Up
<1> QED
  BY <1>1, <1>3, <1>4, <1>5

LEMMA ReceiveOK == ASSUME IInv, NEW c \in Clients, Receive(c) PROVE IInv'
<1> USE DEF IInv, Receive, selecting
<1>1. Types'
  BY DEF Types
<1>2. /\ \A d \in Clients : (inbox[d] => inbox'[d]) /\ (cli[d] = "gone" => cli'[d] = "gone")
      /\ \A d \in Clients : cli[d] # "new" => cli'[d] # "new"
  BY DEF Types
<1>3. Entries' /\ SelectWatches' /\ PollWatches' /\ Unscanned'
  BY <1>2, Kept
<1>4. Connected'
  BY <1>2, StillConnected
<1>5. Asked' /\ AnswersAsked' /\ Pending'
  BY DEF Pending, Asked, AnswersAsked, Types, Up
<1> QED
  BY <1>1, <1>3, <1>4, <1>5

LEMMA LeaveOK == ASSUME IInv, NEW c \in Clients, Leave(c) PROVE IInv'
<1> USE DEF IInv, Leave, selecting
<1>1. Types'
  BY DEF Types
<1>2. /\ \A d \in Clients : (inbox[d] => inbox'[d]) /\ (cli[d] = "gone" => cli'[d] = "gone")
      /\ \A d \in Clients : cli[d] # "new" => cli'[d] # "new"
  BY DEF Types
<1>3. Entries' /\ SelectWatches' /\ PollWatches' /\ Unscanned'
  BY <1>2, Kept
<1>4. Connected'
  BY <1>2, StillConnected
<1>5. Asked' /\ AnswersAsked' /\ Pending'
  BY DEF Pending, Asked, AnswersAsked, Types, Up
<1> QED
  BY <1>1, <1>3, <1>4, <1>5

-----------------------------------------------------------------------------
(* The server.                                                               *)

\* Next1 is one of the labels of the loop.
LEMMA SelectReturnsOK == ASSUME IInv, SelectReturns PROVE IInv'
<1> USE DEF IInv, SelectReturns, clients, Next1
<1>1. Types'
  <2>1. rset' \subseteq Fds
    BY DEF Types
  <2>2. i' \in Nat /\ pc' \in {"accept", "scan"}
    OBVIOUS
  <2> QED
    BY <2>1, <2>2 DEF Types
<1>2. Entries' /\ SelectWatches' /\ PollWatches' /\ Connected'
  BY DEF Entries, SelectWatches, PollWatches, Connected, Open, Used, Fds
<1>3. Unscanned'
  BY DEF Unscanned, Readable
<1>4. Asked' /\ AnswersAsked' /\ Pending'
  BY DEF Pending, Asked, AnswersAsked, Up
<1> QED
  BY <1>1, <1>2, <1>3, <1>4

LEMMA PollReturnsOK == ASSUME IInv, PollReturns PROVE IInv'
<1> USE DEF IInv, clients, selecting
<1>0. /\ loop = "poll" /\ pc = "wait" /\ pc' \in {"accept", "scan"} /\ i' = 1
      /\ (pc' = "accept" => backlog # <<>>)
      /\ UNCHANGED <<loop, clients, backlog, conn, client, selecting>>
  BY DEF PollReturns, Next1
<1>1. /\ DOMAIN pollfd' = DOMAIN pollfd /\ 0 \in DOMAIN pollfd /\ pollfd'[0] = pollfd[0]
      /\ \A j \in DOMAIN pollfd : j # 0 => pollfd'[j] = [pollfd[j] EXCEPT !.rev = Events(pollfd[j].fd)]
  BY DEF PollReturns, PollWatches
<1>2. \A j \in DOMAIN pollfd :
        pollfd'[j] \in PollEntry /\ pollfd'[j].fd = pollfd[j].fd
          /\ (j # 0 => pollfd'[j].rev = Events(pollfd[j].fd))
  BY <1>1 DEF Types, PollEntry, Events
<1>3. Types'
  <2>1. Array(pollfd')
    BY <1>1 DEF Types, Array
  <2> QED
    BY <1>0, <1>1, <1>2, <2>1 DEF Types
<1>4. Entries' /\ SelectWatches' /\ Connected'
  BY <1>0 DEF Entries, SelectWatches, Connected, Open, Used, Fds
<1>5. PollWatches'
  <2>1. 0 \in DOMAIN pollfd' /\ pollfd'[0].rev = "none"
    BY <1>0, <1>1 DEF PollWatches
  <2>2. \A j \in DOMAIN pollfd' : j # 0 => pollfd'[j].fd \in Fds /\ Open(pollfd'[j].fd)
    BY <1>0, <1>1, <1>2 DEF PollWatches, Open
  <2>3. \A j, k \in DOMAIN pollfd' : j # 0 /\ k # 0 /\ pollfd'[j].fd = pollfd'[k].fd => j = k
    BY <1>0, <1>1, <1>2 DEF PollWatches
  <2>4. \A f \in Fds : Open(f)' => \E j \in DOMAIN pollfd' : j # 0 /\ pollfd'[j].fd = f
    BY <1>0, <1>1, <1>2 DEF PollWatches, Open
  <2> QED
    BY <1>0, <2>1, <2>2, <2>3, <2>4 DEF PollWatches, Open, Fds
<1>6. Unscanned'
  <2>1. ASSUME NEW j \in DOMAIN pollfd, pollfd'[j].rev # "none"
        PROVE  Readable(pollfd[j].fd) /\ (pollfd'[j].rev = "hup" => cli[conn[pollfd[j].fd]] = "gone")
    <3>1. j # 0
      BY <1>0, <1>1, <2>1 DEF PollWatches
    <3>2. Open(pollfd[j].fd) /\ pollfd'[j].rev = Events(pollfd[j].fd)
      BY <1>0, <1>2, <3>1 DEF PollWatches
    <3> QED
      BY <2>1, <3>2 DEF Events, Readable, Open
  <2> QED
    BY <1>0, <1>1, <1>2, <2>1 DEF Unscanned, Readable
<1>7. Asked' /\ AnswersAsked' /\ Pending'
  BY <1>0 DEF Pending, Asked, AnswersAsked, Up
<1> QED
  BY <1>3, <1>4, <1>5, <1>6, <1>7

LEMMA EndScanOK == ASSUME IInv, EndScan PROVE IInv'
<1> USE DEF IInv, EndScan, clients, selecting
<1>1. Types'
  BY DEF Types
<1>2. Entries' /\ SelectWatches' /\ PollWatches' /\ Connected'
  BY DEF Entries, SelectWatches, PollWatches, Connected, Open, Used, Fds
<1>3. Unscanned' /\ Asked' /\ AnswersAsked' /\ Pending'
  BY DEF Unscanned, Pending, Asked, AnswersAsked, Up
<1> QED
  BY <1>1, <1>2, <1>3

\* A server that ends leaves everything as it was for the others.
LEMMA EndsOK ==
  ASSUME IInv, pc' = "down", i' = i,
         UNCHANGED <<loop, cli, sent, reset, conn, client, selecting, pollfd, answer>>,
         backlog' \in {backlog, Tail(backlog)}, backlog # <<>> \/ backlog' = backlog,
         inbox' \in [Clients -> BOOLEAN], \A c \in Clients : inbox'[c] => inbox[c]
  PROVE  IInv'
<1> USE DEF IInv, selecting
<1>1. \/ backlog' = backlog
      \/ /\ Len(backlog') = Len(backlog) - 1 /\ backlog' \in Seq(Clients) /\ Len(backlog) \in Nat
         /\ \A j \in 1 .. Len(backlog') : backlog'[j] = backlog[j + 1]
  <2>1. CASE backlog' # backlog
    <3>1. backlog \in Seq(Clients) /\ backlog # <<>> /\ backlog' = Tail(backlog)
      BY <2>1 DEF Types
    <3> QED
      BY <3>1
  <2> QED
    BY <2>1
<1>2. Types'
  BY <1>1 DEF Types
<1>3. Entries' /\ SelectWatches' /\ PollWatches'
  BY DEF Entries, SelectWatches, PollWatches, Open, Used, Fds
<1>4. Connected'
  <2>1. CASE backlog' = backlog
    BY <2>1 DEF Connected, Open, Fds
  <2>2. CASE backlog' # backlog
    <3>1. PICK n \in Nat : n = Len(backlog) /\ n - 1 = Len(backlog')
      BY <1>1, <2>2
    <3>2. \A j \in 1 .. n - 1 : j + 1 \in 1 .. n
      OBVIOUS
    <3>3. \A j \in 1 .. Len(backlog') : j \in Nat /\ j + 1 \in 1 .. Len(backlog) /\ backlog'[j] = backlog[j + 1]
      BY <1>1, <2>2, <3>1, <3>2
    <3> QED
      BY <3>3 DEF Connected, Open, Fds
  <2> QED
    BY <2>1, <2>2
<1>5. Unscanned' /\ Asked' /\ AnswersAsked' /\ Pending'
  BY DEF Unscanned, Pending, Asked, AnswersAsked, Up
<1> QED
  BY <1>2, <1>3, <1>4, <1>5

\* The next client of the backlog gets a descriptor that is free.
LEMMA AcceptedOK ==
  ASSUME IInv, pc = "accept", NEW f \in Fds, ~Open(f),
         conn' = [conn EXCEPT ![f] = Head(backlog)], backlog' = Tail(backlog), cli' = cli
  PROVE  /\ Head(backlog) \in Clients /\ Head(backlog) # NoClient => Connected'
         /\ backlog' \in Seq(Clients)
<1> USE DEF IInv
<1>1. backlog \in Seq(Clients) /\ backlog # <<>> /\ Len(backlog) \in Nat
  BY DEF Types, Pending
<1>2. PICK c \in Clients : c = Head(backlog) /\ c = backlog[1] /\ 1 \in 1 .. Len(backlog)
  BY <1>1
<1>3. PICK n \in Nat : n + 1 = Len(backlog) /\ n = Len(Tail(backlog))
  BY <1>1
<1>4. \A j \in 1 .. n : j + 1 \in 1 .. Len(backlog) /\ backlog'[j] = backlog[j + 1] /\ j + 1 # 1
  BY <1>1, <1>3
<1>5. \A g \in Fds : conn'[g] = IF g = f THEN c ELSE conn[g]
  BY <1>2 DEF Types
<1>6. \A g \in Fds : conn[g] # c
  BY <1>2 DEF Connected
<1>7. ASSUME c # NoClient PROVE Connected'
  <2>1. \A g, h \in Fds : conn'[g] # NoClient /\ conn'[g] = conn'[h] => g = h
    BY <1>5, <1>6 DEF Connected, Open
  <2>2. \A g \in Fds : conn'[g] # NoClient => cli[conn'[g]] # "new"
    BY <1>2, <1>5 DEF Connected, Open
  <2>3. \A j \in 1 .. n : cli[backlog'[j]] # "new" /\ \A g \in Fds : conn'[g] # backlog'[j]
    BY <1>2, <1>4, <1>5 DEF Connected
  <2>4. \A j, k \in 1 .. n : backlog'[j] = backlog'[k] => j = k
    BY <1>4 DEF Connected
  <2> QED
    BY <1>3, <2>1, <2>2, <2>3, <2>4, SMTT(30) DEF Connected, Open, Fds
<1> QED
  BY <1>1, <1>2, <1>7

LEMMA AcceptOK == ASSUME OpendAssumption, IInv, Accept PROVE IInv'
<1> USE DEF IInv
<1>1. PICK c : c = Head(backlog)
  OBVIOUS
<1>2. PICK f : f = Least({g \in Fds : conn[g] = NoClient})
  OBVIOUS
<1>3. /\ pc = "accept" /\ backlog' = Tail(backlog) /\ UNCHANGED <<loop, clients, i>>
      /\ backlog # <<>>
  BY DEF Accept, Pending
<1>4. CASE pc' = "down"
  <2>1. UNCHANGED <<conn, client, selecting, pollfd>>
    BY <1>4 DEF Accept
  <2>2. inbox' \in [Clients -> BOOLEAN]
    BY <1>3 DEF Types, clients
  <2> QED
    BY <1>3, <1>4, <2>1, <2>2, EndsOK DEF clients, selecting
<1>5. CASE pc' # "down"
  <2>1. /\ {g \in Fds : conn[g] = NoClient} # {}
        /\ conn' = [conn EXCEPT ![f] = c] /\ client' = Added(client, f, c)
    BY <1>1, <1>2, <1>5 DEF Accept
  <2>2. f \in Fds /\ conn[f] = NoClient
    <3>1. {g \in Fds : conn[g] = NoClient} \in SUBSET Nat
      BY OpendAssumption DEF OpendAssumption, Fds
    <3> QED
      BY <1>2, <2>1, <3>1, LeastIn
  <2>3. c \in Clients /\ c # NoClient /\ Connected' /\ backlog' \in Seq(Clients)
    <3>1. c \in Clients /\ c # NoClient
      BY <1>1, <1>3 DEF Types, OpendAssumption
    <3> QED
      BY <1>1, <1>3, <2>1, <2>2, <3>1, AcceptedOK DEF Open, clients
  <2>4. \A g \in Fds : conn'[g] = IF g = f THEN c ELSE conn[g]
    BY <2>1 DEF Types
  <2>5. conn' \in [Fds -> Clients \cup {NoClient}]
    BY <2>1, <2>3 DEF Types
  <2>6. PICK at : at = AddAt(client)
    OBVIOUS
  <2>7. /\ Array(client') /\ DOMAIN client \subseteq DOMAIN client' /\ at \in DOMAIN client'
        /\ client'[at] = [fd |-> f, uid |-> c]
        /\ at \in DOMAIN client => client[at].fd = Avail
        /\ \A j \in DOMAIN client' :
             j # at => client'[j] = IF j \in DOMAIN client THEN client[j] ELSE Unused
    BY <2>1, <2>6, AddedOK DEF Types
  <2>8. Avail \notin Fds /\ Listen \notin Fds
    BY OpendAssumption DEF OpendAssumption, Fds, Avail, Listen
  <2>9. \A j \in DOMAIN client' : client'[j] \in Entry
    <3>1. [fd |-> f, uid |-> c] \in Entry /\ Unused \in Entry
      BY <2>2, <2>3 DEF Entry, Unused
    <3>2. \A j \in DOMAIN client : client[j] \in Entry
      BY DEF Types
    <3> QED
      BY <2>7, <3>1, <3>2
  <2>10. \A j \in DOMAIN client' :
           j # at => IF j \in DOMAIN client THEN client'[j] = client[j] ELSE client'[j].fd \notin Fds
    BY <2>7, <2>8 DEF Unused
  <2>11. Entries'
    <3>1. \A j \in DOMAIN client : client[j].fd # f
      BY <2>2 DEF Entries, Used, Open
    <3>2. client'[at].fd = f /\ client'[at].uid = c
      BY <2>7
    <3>3. \A j \in DOMAIN client' : client'[j].fd \in Fds =>
            conn'[client'[j].fd] # NoClient /\ client'[j].uid = conn'[client'[j].fd]
      BY <2>2, <2>3, <2>4, <2>10, <3>1, <3>2 DEF Entries, Used, Open
    <3>4. \A j, k \in DOMAIN client' : client'[j].fd \in Fds /\ client'[j].fd = client'[k].fd => j = k
      BY <2>10, <3>1, <3>2 DEF Entries, Used
    <3>5. ASSUME NEW g \in Fds, conn'[g] # NoClient
          PROVE  \E j \in DOMAIN client' : client'[j].fd = g
      <4>1. CASE g = f
        BY <2>7, <3>2, <4>1
      <4>2. CASE g # f
        <5>1. PICK j \in DOMAIN client : client[j].fd = g
          BY <2>4, <3>5, <4>2 DEF Entries, Open
        <5>2. j # at
          BY <2>7, <2>8, <5>1
        <5> QED
          BY <2>7, <2>10, <5>1, <5>2
      <4> QED
        BY <4>1, <4>2
    <3> QED
      BY <3>3, <3>4, <3>5 DEF Entries, Used, Open, Fds
  <2>12. Asked' /\ AnswersAsked'
    BY <1>3, <1>5 DEF Asked, AnswersAsked, Up, clients
  <2>13. CASE loop = "select"
    <3>1. /\ pc' = "wait" /\ allset' = allset \cup {f} /\ maxi' = MaxiWith(at)
          /\ UNCHANGED <<rset, pollfd>>
      BY <1>2, <1>5, <2>6, <2>13 DEF Accept
    <3>2. DOMAIN client' \subseteq Nat
      BY <2>7 DEF Array
    <3>3. maxi' \in Int /\ maxi' >= maxi /\ maxi' >= at /\ (maxi' = -1 \/ maxi' \in DOMAIN client')
      BY <2>7, <3>1, <3>2 DEF MaxiWith, Types
    <3>4. Types'
      BY <1>3, <2>2, <2>3, <2>5, <2>7, <2>9, <3>1, <3>3 DEF Types, clients, Entry
    <3>5. SelectWatches'
      <4>1. \A g \in Fds : g \in allset' <=> conn'[g] # NoClient
        BY <2>2, <2>3, <2>4, <2>13, <3>1 DEF SelectWatches, Open
      <4>2. ASSUME NEW j \in DOMAIN client', client'[j].fd \in Fds PROVE j <= maxi'
        <5>1. CASE j = at
          BY <3>3, <5>1
        <5>2. CASE j # at
          <6>1. j \in DOMAIN client /\ client[j].fd \in Fds /\ j \in Int
            BY <2>10, <3>2, <4>2, <5>2
          <6>2. j <= maxi
            BY <2>13, <6>1 DEF SelectWatches, Used
          <6> QED
            BY <3>3, <6>1, <6>2 DEF Types
        <5> QED
          BY <5>1, <5>2
      <4> QED
        BY <4>1, <4>2 DEF SelectWatches, Open, Used, Fds
    <3>6. PollWatches' /\ Unscanned' /\ Pending'
      BY <1>3, <2>13, <3>1 DEF PollWatches, Unscanned, Pending
    <3> QED
      BY <2>3, <2>11, <2>12, <3>4, <3>5, <3>6
  <2>14. CASE loop = "poll"
    <3>1. /\ pc' = "scan" /\ UNCHANGED selecting
          /\ pollfd' = [j \in 0 .. NumFd |-> IF j = NumFd THEN NewEntry(f) ELSE pollfd[j]]
      BY <1>2, <1>5, <2>14 DEF Accept
    <3>2. PICK n \in Nat : n = NumFd /\ DOMAIN pollfd = 0 .. n - 1
      BY ArraySize DEF Types, NumFd
    <3>3. 0 \in DOMAIN pollfd /\ n # 0
      BY <2>14, <3>2 DEF PollWatches
    <3>4. /\ DOMAIN pollfd' = 0 .. n /\ pollfd'[n] = [fd |-> f, rev |-> "none"]
          /\ \A j \in DOMAIN pollfd' : j # n => j \in DOMAIN pollfd /\ pollfd'[j] = pollfd[j]
          /\ \A j \in DOMAIN pollfd : j # n /\ j \in DOMAIN pollfd'
      BY <3>1, <3>2 DEF NewEntry
    <3>5. Types'
      <4>1. Array(pollfd')
        <5>1. n + 1 \in Nat /\ 0 .. n = 0 .. (n + 1) - 1
          BY <3>2
        <5> QED
          BY <3>4, <5>1 DEF Array
      <4>2. \A j \in DOMAIN pollfd' : pollfd'[j] \in PollEntry
        <5>1. [fd |-> f, rev |-> "none"] \in PollEntry
          BY <2>2 DEF PollEntry
        <5>2. \A j \in DOMAIN pollfd : pollfd[j] \in PollEntry
          BY DEF Types
        <5> QED
          BY <3>4, <5>1, <5>2
      <4> QED
        BY <1>3, <2>3, <2>5, <2>7, <2>9, <3>1, <4>1, <4>2 DEF Types, clients, selecting, Entry, PollEntry
    <3>6. PollWatches'
      <4>1. \A j \in DOMAIN pollfd : j # 0 => pollfd[j].fd # f
        BY <2>2, <2>14 DEF PollWatches, Open
      <4>2. \A j \in DOMAIN pollfd' : j # 0 => pollfd'[j].fd \in Fds /\ conn'[pollfd'[j].fd] # NoClient
        BY <2>2, <2>3, <2>4, <2>14, <3>4 DEF PollWatches, Open
      <4>3. \A j, k \in DOMAIN pollfd' : j # 0 /\ k # 0 /\ pollfd'[j].fd = pollfd'[k].fd => j = k
        BY <2>14, <3>4, <4>1 DEF PollWatches
      <4>4. \A g \in Fds : conn'[g] # NoClient => \E j \in DOMAIN pollfd' : j # 0 /\ pollfd'[j].fd = g
        BY <2>4, <2>14, <3>2, <3>3, <3>4 DEF PollWatches, Open
      <4>5. 0 \in DOMAIN pollfd' /\ pollfd'[0].rev = "none"
        BY <2>14, <3>3, <3>4 DEF PollWatches
      <4> QED
        BY <4>2, <4>3, <4>4, <4>5 DEF PollWatches, Open, Fds
    <3>7. Unscanned'
      <4>1. ASSUME NEW j \in DOMAIN pollfd', j >= i', pollfd'[j].rev # "none"
            PROVE  Readable(pollfd[j].fd)' /\ pollfd'[j].fd = pollfd[j].fd
                   /\ (pollfd'[j].rev = "hup" => cli'[conn'[pollfd'[j].fd]] = "gone")
        <5>1. j # n /\ j \in DOMAIN pollfd /\ pollfd'[j] = pollfd[j]
          BY <3>4, <4>1
        <5>2. j # 0
          BY <2>14, <4>1, <5>1 DEF PollWatches
        <5>3. pollfd[j].fd \in Fds /\ Open(pollfd[j].fd) /\ pollfd[j].fd # f
          BY <2>2, <2>14, <5>1, <5>2 DEF PollWatches, Open
        <5>4. conn'[pollfd[j].fd] = conn[pollfd[j].fd]
          BY <2>4, <5>3
        <5>5. Readable(pollfd[j].fd) /\ (pollfd[j].rev = "hup" => cli[conn[pollfd[j].fd]] = "gone")
          BY <1>3, <2>14, <4>1, <5>1 DEF Unscanned
        <5> QED
          BY <1>3, <3>1, <5>1, <5>4, <5>5 DEF Readable, clients
      <4> QED
        BY <1>3, <2>14, <4>1 DEF Unscanned, Readable
    <3>8. SelectWatches' /\ Pending'
      BY <1>3, <2>14, <3>1 DEF SelectWatches, Pending
    <3> QED
      BY <2>3, <2>11, <2>12, <3>5, <3>6, <3>7, <3>8
  <2> QED
    BY <2>13, <2>14 DEF Types
<1> QED
  BY <1>4, <1>5

\* What the scan may come to next is open and has something to read.
LEMMA ReadyOK ==
  ASSUME IInv, pc = "scan", NEW j \in ReadyFrom
  PROVE  /\ j \in Nat /\ j >= i /\ Fd(j) \in Fds /\ Open(Fd(j)) /\ conn[Fd(j)] \in Clients
         /\ Readable(Fd(j)) /\ (HungUp(j) => cli[conn[Fd(j)]] = "gone")
         /\ loop = "select" => j \in DOMAIN client /\ client[j].fd = Fd(j)
         /\ loop = "poll" => j \in DOMAIN pollfd /\ j # 0 /\ pollfd[j].fd = Fd(j)
<1> USE DEF IInv
<1>1. i \in Nat
  BY DEF Types
<1>2. CASE loop = "select"
  <2>1. j \in i .. maxi /\ client[j].fd \in rset
    BY <1>2 DEF ReadyFrom, Last, Ready
  <2>2. j \in Nat /\ j >= i /\ j \in DOMAIN client
    <3>1. j \in Nat /\ j >= i /\ j <= maxi /\ maxi \in Int /\ maxi # -1
      BY <1>1, <2>1 DEF Types
    <3>2. PICK n \in Nat : DOMAIN client = 0 .. n - 1
      BY DEF Types, Array
    <3>3. maxi \in 0 .. n - 1
      BY <3>1, <3>2 DEF Types
    <3> QED
      BY <3>1, <3>2, <3>3
  <2>3. Fd(j) = client[j].fd /\ Fd(j) \in Fds
    BY <1>2, <2>1 DEF Fd, Types
  <2>4. Readable(Fd(j))
    BY <1>2, <2>1, <2>2, <2>3 DEF Unscanned
  <2>5. Open(Fd(j)) /\ conn[Fd(j)] \in Clients
    BY <2>3, <2>4 DEF Readable, Open, Types
  <2> QED
    BY <1>2, <2>2, <2>3, <2>4, <2>5 DEF HungUp
<1>3. CASE loop = "poll"
  <2>1. PICK n \in Nat : n = NumFd /\ DOMAIN pollfd = 0 .. n - 1
    BY ArraySize DEF Types, NumFd
  <2>2. j \in i .. n - 1 /\ pollfd[j].rev # "none" /\ Fd(j) = pollfd[j].fd
    BY <1>3, <2>1 DEF ReadyFrom, Last, Ready, Fd
  <2>3. j \in Nat /\ j >= i /\ j \in DOMAIN pollfd /\ j # 0
    BY <1>1, <1>3, <2>1, <2>2 DEF PollWatches
  <2>4. Fd(j) \in Fds /\ Open(Fd(j)) /\ conn[Fd(j)] \in Clients
    BY <1>3, <2>2, <2>3 DEF PollWatches, Open, Types
  <2>5. Readable(Fd(j)) /\ (pollfd[j].rev = "hup" => cli[conn[Fd(j)]] = "gone")
    BY <1>3, <2>2, <2>3 DEF Unscanned
  <2> QED
    BY <1>3, <2>2, <2>3, <2>4, <2>5 DEF HungUp
<1> QED
  BY <1>2, <1>3 DEF Types

LEMMA AtOK == ASSUME IInv, Scanning PROVE pc = "scan" /\ At \in ReadyFrom
<1>1. ReadyFrom \in SUBSET Nat
  BY DEF IInv, Types, ReadyFrom
<1> QED
  BY <1>1, LeastIn DEF At, Scanning

LEMMA RequestOK == ASSUME IInv, Request PROVE IInv'
<1> USE DEF IInv
<1>1. PICK at : at = At
  OBVIOUS
<1>2. PICK f : f = Fd(at)
  OBVIOUS
<1>3. PICK c : c = conn[f]
  OBVIOUS
<1>4. Scanning /\ inbox[c] /\ inbox' = [inbox EXCEPT ![c] = FALSE]
      /\ UNCHANGED <<loop, cli, sent, reset, backlog, conn, client, selecting, pollfd>>
  BY <1>1, <1>2, <1>3 DEF Request
<1>5. pc = "scan" /\ at \in ReadyFrom
  BY <1>1, <1>4, AtOK
<1>6. /\ at \in Nat /\ at >= i /\ f \in Fds /\ Open(f) /\ c \in Clients
      /\ loop = "select" => at \in DOMAIN client /\ client[at].fd = f
      /\ loop = "poll" => at \in DOMAIN pollfd /\ at # 0 /\ pollfd[at].fd = f
  BY <1>2, <1>3, <1>5, ReadyOK
<1>7. inbox' \in [Clients -> BOOLEAN] /\ \A d \in Clients : inbox'[d] <=> inbox[d] /\ d # c
  BY <1>4 DEF Types
<1>8. CASE pc' = "down"
  <2>1. UNCHANGED <<answer, i>>
    BY <1>5, <1>8 DEF Request
  <2> QED
    BY <1>4, <1>7, <1>8, <2>1, EndsOK
<1>9. CASE pc' # "down"
  <2>1. /\ cli[c] # "gone" /\ i' = at + 1 /\ pc' = pc
        /\ answer' \in {[answer EXCEPT ![c] = "fd"], [answer EXCEPT ![c] = "error"]}
    BY <1>1, <1>2, <1>3, <1>9 DEF Request, Answer
  <2>2. Types'
    <3>1. i' \in Nat /\ answer' \in [Clients -> {"none", "fd", "error"}]
      BY <1>6, <2>1 DEF Types
    <3> QED
      BY <1>4, <1>7, <2>1, <3>1 DEF Types, selecting
  <2>3. Entries' /\ SelectWatches' /\ PollWatches' /\ Connected' /\ Pending'
    BY <1>4, <2>1 DEF Entries, SelectWatches, PollWatches, Connected, Pending, Open, Used, Fds, selecting
  <2>4. ASSUME NEW g \in Fds, Readable(g), g # f
        PROVE  Readable(g)'
    <3>1. conn[g] # c
      BY <1>3, <1>6, <2>4 DEF Connected, Readable, Open
    <3>2. conn[g] \in Clients
      BY <2>4 DEF Readable, Types
    <3> QED
      BY <1>4, <1>7, <2>4, <3>1, <3>2 DEF Readable
  <2>5. Unscanned'
    <3>1. ASSUME loop = "select", NEW j \in DOMAIN client, j >= i', client[j].fd \in rset
          PROVE  Readable(client[j].fd)'
      <4>1. j \in Nat /\ j >= i /\ j # at
        BY <1>6, <2>1, <3>1 DEF Types, Array
      <4>2. client[j].fd \in Fds /\ client[j].fd # f
        BY <1>6, <3>1, <4>1 DEF Types, Entries, Used
      <4>3. Readable(client[j].fd)
        BY <1>5, <3>1, <4>1 DEF Unscanned
      <4>4. PICK g \in Fds : g = client[j].fd
        BY <4>2
      <4>5. client'[j].fd = g
        BY <1>4, <4>4
      <4>6. Readable(g)'
        BY <2>4, <4>2, <4>3, <4>4
      <4> QED
        BY <1>4, <4>4, <4>6 DEF Readable
    <3>2. ASSUME loop = "poll", NEW j \in DOMAIN pollfd, j >= i', pollfd[j].rev # "none"
          PROVE  Readable(pollfd[j].fd)' /\ (pollfd[j].rev = "hup" => cli[conn[pollfd[j].fd]] = "gone")
      <4>1. j \in Nat /\ j >= i /\ j # at /\ j # 0
        BY <1>6, <2>1, <3>2 DEF Types, Array, PollWatches
      <4>2. pollfd[j].fd \in Fds /\ pollfd[j].fd # f
        BY <1>6, <3>2, <4>1 DEF PollWatches
      <4>3. Readable(pollfd[j].fd) /\ (pollfd[j].rev = "hup" => cli[conn[pollfd[j].fd]] = "gone")
        BY <1>5, <3>2, <4>1 DEF Unscanned
      <4>4. PICK g \in Fds : g = pollfd[j].fd
        BY <4>2
      <4>5. Readable(g)'
        BY <2>4, <4>2, <4>3, <4>4
      <4> QED
        BY <1>4, <4>3, <4>4, <4>5 DEF Readable
    <3> QED
      BY <1>4, <3>1, <3>2, <1>5, <2>1 DEF Unscanned, selecting, Readable
  <2>6. Asked' /\ AnswersAsked'
    <3>1. \A d \in Clients : d # c => answer'[d] = answer[d]
      BY <2>1 DEF Types
    <3>2. cli[c] \in {"waiting", "gone"} /\ ~inbox'[c]
      BY <1>4, <1>5, <1>6, <1>7 DEF Asked, Up
    <3> QED
      BY <1>4, <1>5, <1>7, <2>1, <3>1, <3>2 DEF Asked, AnswersAsked, Up
  <2> QED
    BY <2>2, <2>3, <2>5, <2>6
<1> QED
  BY <1>8, <1>9

\* The entry and the connection of a descriptor that is closed are gone, the others stay.
LEMMA ForgottenOK ==
  ASSUME OpendAssumption, Types, Entries, NEW f \in Fds, Open(f),
         conn' = [conn EXCEPT ![f] = NoClient], client' = Deleted(client, f)
  PROVE  /\ Entries' /\ conn' \in [Fds -> Clients \cup {NoClient}]
         /\ \A g \in Fds : conn'[g] = IF g = f THEN NoClient ELSE conn[g]
         /\ DOMAIN client' = DOMAIN client /\ Array(client')
         /\ \A j \in DOMAIN client : client'[j] \in Entry
         /\ \A j \in DOMAIN client : client'[j].fd \in Fds =>
              client'[j] = client[j] /\ client[j].fd # f
<1>1. PICK k \in DOMAIN client : client[k].fd = f
  BY DEF Entries
<1>2. \A j \in DOMAIN client : client[j].fd = client[k].fd => j = k
  BY <1>1 DEF Entries, Used
<1>3. client' = [client EXCEPT ![k].fd = Avail]
  BY <1>1, <1>2, DeletedOK DEF Types
<1>4. DOMAIN client' = DOMAIN client /\ \A j \in DOMAIN client : j # k => client'[j] = client[j]
  BY <1>3
<1>5. client[k] \in Entry /\ client'[k] = [client[k] EXCEPT !.fd = Avail]
  BY <1>1, <1>3 DEF Types
<1>6. client'[k] \in Entry /\ client'[k].fd = Avail
  BY <1>5 DEF Entry
<1>7. Avail \notin Fds
  BY OpendAssumption DEF OpendAssumption, Avail, Fds
<1>8. \A j \in DOMAIN client : client'[j].fd \in Fds =>
        client'[j] = client[j] /\ client[j].fd # f
  BY <1>1, <1>2, <1>4, <1>6, <1>7
<1>9. \A g \in Fds : conn'[g] = IF g = f THEN NoClient ELSE conn[g]
  BY DEF Types
<1>10. Entries'
  <2>1. \A j \in DOMAIN client' : client'[j].fd \in Fds =>
          conn'[client'[j].fd] # NoClient /\ client'[j].uid = conn'[client'[j].fd]
    BY <1>4, <1>8, <1>9 DEF Entries, Used, Open
  <2>2. \A j, m \in DOMAIN client' : client'[j].fd \in Fds /\ client'[j].fd = client'[m].fd => j = m
    BY <1>4, <1>8 DEF Entries, Used
  <2>3. \A g \in Fds : conn'[g] # NoClient => \E j \in DOMAIN client' : client'[j].fd = g
    BY <1>1, <1>4, <1>9 DEF Entries, Open
  <2> QED
    BY <2>1, <2>2, <2>3 DEF Entries, Open, Used, Fds
<1>11. conn' \in [Fds -> Clients \cup {NoClient}]
  BY DEF Types
<1>12. Array(client') /\ \A j \in DOMAIN client : client'[j] \in Entry
  BY <1>4, <1>6 DEF Types, Array
<1> QED
  BY <1>4, <1>8, <1>9, <1>10, <1>11, <1>12

LEMMA ClosedOK == ASSUME OpendAssumption, IInv, Closed PROVE IInv'
<1> USE DEF IInv
<1>1. PICK at : at = At
  OBVIOUS
<1>2. PICK f : f = Fd(at)
  OBVIOUS
<1>3. Scanning /\ UNCHANGED <<loop, clients, backlog, rset, maxi>>
  BY DEF Closed
<1>4. pc = "scan" /\ at \in ReadyFrom
  BY <1>1, <1>3, AtOK
<1>5. /\ at \in Nat /\ at >= i /\ f \in Fds /\ Open(f)
      /\ loop = "poll" => at \in DOMAIN pollfd /\ at # 0 /\ pollfd[at].fd = f
  BY <1>2, <1>4, ReadyOK
<1>6. CASE pc' = "down"
  <2>1. UNCHANGED <<conn, client, allset, pollfd, i>>
    BY <1>4, <1>6 DEF Closed
  <2>2. inbox' \in [Clients -> BOOLEAN]
    BY <1>3 DEF Types, clients
  <2> QED
    BY <1>3, <1>6, <2>1, <2>2, EndsOK DEF clients, selecting
<1>7. CASE pc' # "down"
  <2>1. /\ conn' = [conn EXCEPT ![f] = NoClient] /\ client' = Deleted(client, f) /\ pc' = pc
        /\ \/ loop = "select" /\ allset' = allset \ {f} /\ i' = at + 1 /\ UNCHANGED pollfd
           \/ loop = "poll" /\ pollfd' = Pack(at) /\ i' = at /\ UNCHANGED allset
    BY <1>1, <1>2, <1>7 DEF Closed, Cleared
  <2>2. /\ Entries' /\ conn' \in [Fds -> Clients \cup {NoClient}]
        /\ \A g \in Fds : conn'[g] = IF g = f THEN NoClient ELSE conn[g]
        /\ DOMAIN client' = DOMAIN client /\ Array(client')
        /\ \A j \in DOMAIN client : client'[j] \in Entry
        /\ \A j \in DOMAIN client : client'[j].fd \in Fds =>
             client'[j] = client[j] /\ client[j].fd # f
    BY <1>5, <2>1, ForgottenOK
  <2>3. Connected'
    <3>1. \A j \in 1 .. Len(backlog) : backlog[j] \in Clients
      BY DEF Types
    <3>2. \A g \in Fds : conn'[g] # NoClient => g # f /\ conn'[g] = conn[g]
      BY <2>2
    <3>3. /\ \A g, h \in Fds : conn'[g] # NoClient /\ conn'[g] = conn'[h] => g = h
          /\ \A g \in Fds : conn'[g] # NoClient => cli[conn'[g]] # "new"
      BY <3>2 DEF Connected, Open
    <3>4. \A j \in 1 .. Len(backlog) : \A g \in Fds : conn'[g] # backlog[j]
      BY OpendAssumption, <2>2, <3>1 DEF OpendAssumption, Connected
    <3> QED
      BY <1>3, <3>3, <3>4 DEF Connected, Open, Fds, clients
  <2>4. Asked' /\ AnswersAsked' /\ Pending'
    BY <1>3, <1>4, <2>1 DEF Pending, Asked, AnswersAsked, Up, clients
  <2>5. \A g \in Fds : Readable(g) /\ g # f => Readable(g)' /\ conn'[g] = conn[g]
    BY <1>3, <2>2 DEF Readable, clients
  <2>6. CASE loop = "select"
    <3>1. allset' = allset \ {f} /\ i' = at + 1 /\ UNCHANGED pollfd
      BY <2>1, <2>6
    <3>2. Types'
      <4>1. i' \in Nat
        BY <1>5, <3>1
      <4> QED
        BY <1>3, <1>4, <2>1, <2>2, <3>1, <4>1 DEF Types, clients, Entry
    <3>3. SelectWatches'
      <4>1. \A g \in Fds : g \in allset' <=> conn'[g] # NoClient
        BY <2>2, <2>6, <3>1 DEF SelectWatches, Open
      <4>2. \A j \in DOMAIN client' : client'[j].fd \in Fds => j <= maxi'
        BY <1>3, <2>2, <2>6 DEF SelectWatches, Used
      <4> QED
        BY <4>1, <4>2 DEF SelectWatches, Open, Used, Fds
    <3>4. Unscanned'
      <4>1. ASSUME NEW j \in DOMAIN client, j >= i', client'[j].fd \in rset
            PROVE  Readable(client[j].fd)' /\ client'[j].fd = client[j].fd
        <5>1. client'[j].fd \in Fds
          BY <4>1 DEF Types
        <5>2. client[j].fd \in Fds /\ client[j].fd # f /\ client'[j].fd = client[j].fd
          BY <2>2, <5>1
        <5>3. j \in Nat /\ j >= i
          BY <1>5, <3>1, <4>1 DEF Types, Array
        <5>4. Readable(client[j].fd)
          BY <1>4, <2>6, <4>1, <5>2, <5>3 DEF Unscanned
        <5>5. PICK g \in Fds : g = client[j].fd
          BY <5>2
        <5>6. Readable(g)'
          BY <2>5, <5>2, <5>4, <5>5
        <5> QED
          BY <2>2, <5>1, <5>2, <5>5, <5>6 DEF Readable
      <4> QED
        BY <1>3, <2>2, <2>6, <4>1 DEF Unscanned, Readable
    <3>5. PollWatches'
      BY <1>3, <2>6 DEF PollWatches
    <3> QED
      BY <2>2, <2>3, <2>4, <3>2, <3>3, <3>4, <3>5
  <2>7. CASE loop = "poll"
    <3>1. pollfd' = Pack(at) /\ i' = at /\ UNCHANGED allset
      BY <2>1, <2>7
    <3>2. PICK n \in Nat : n = NumFd /\ DOMAIN pollfd = 0 .. n - 1
      BY ArraySize DEF Types, NumFd
    <3>3. at \in 1 .. n - 1
      BY <1>5, <2>7, <3>2
    <3>4. /\ DOMAIN pollfd' = 0 .. n - 2
          /\ \A j \in 0 .. n - 2 : pollfd'[j] = IF j = at THEN pollfd[n - 1] ELSE pollfd[j]
      BY <3>1, <3>2 DEF Pack
    <3>5. \A j \in 0 .. n - 2 : j \in DOMAIN pollfd /\ j # n - 1
      BY <3>2
    <3>6. n - 1 \in DOMAIN pollfd /\ n - 1 # 0 /\ n - 1 >= at /\ n - 1 \in Nat
      BY <3>2, <3>3
    <3>7. PICK from \in [DOMAIN pollfd' -> DOMAIN pollfd] :
            \A j \in DOMAIN pollfd' : from[j] = IF j = at THEN n - 1 ELSE j
      <4>1. [j \in DOMAIN pollfd' |-> IF j = at THEN n - 1 ELSE j] \in [DOMAIN pollfd' -> DOMAIN pollfd]
        BY <3>4, <3>5, <3>6
      <4> QED
        BY <4>1
    <3>8. \A j \in DOMAIN pollfd' : pollfd'[j] = pollfd[from[j]] /\ from[j] \in DOMAIN pollfd
            /\ from[j] # at /\ (j # 0 => from[j] # 0)
      BY <1>5, <3>3, <3>4, <3>5, <3>6, <3>7
    <3>9. \A j, m \in DOMAIN pollfd' : from[j] = from[m] => j = m
      BY <3>4, <3>5, <3>7
    <3>10. \A j \in DOMAIN pollfd : j # at => \E m \in DOMAIN pollfd' : from[m] = j
      <4>1. ASSUME NEW j \in DOMAIN pollfd, j # at PROVE \E m \in DOMAIN pollfd' : from[m] = j
        <5>1. CASE j = n - 1
          <6>1. at \in DOMAIN pollfd'
            BY <3>2, <3>3, <3>4, <4>1, <5>1
          <6> QED
            BY <3>7, <5>1, <6>1
        <5>2. CASE j # n - 1
          <6>1. j \in DOMAIN pollfd'
            BY <3>2, <3>4, <4>1, <5>2
          <6> QED
            BY <3>7, <4>1, <6>1
        <5> QED
          BY <5>1, <5>2
      <4> QED
        BY <4>1
    <3>11. Types'
      <4>1. Array(pollfd')
        <5>1. n - 1 \in Nat /\ 0 .. n - 2 = 0 .. (n - 1) - 1
          BY <3>6
        <5> QED
          BY <3>4, <5>1 DEF Array
      <4>2. \A j \in DOMAIN pollfd' : pollfd'[j] \in PollEntry
        BY <3>8 DEF Types
      <4> QED
        BY <1>3, <1>4, <1>5, <2>1, <2>2, <3>1, <4>1, <4>2 DEF Types, clients, Entry, PollEntry
    <3>12. PollWatches'
      <4>1. 0 \in DOMAIN pollfd' /\ pollfd'[0].rev = "none"
        <5>1. 0 \in 0 .. n - 2 /\ 0 # at
          BY <3>3
        <5> QED
          BY <2>7, <3>4, <5>1 DEF PollWatches
      <4>2. \A j \in DOMAIN pollfd : j # 0 /\ j # at => pollfd[j].fd # f
        BY <1>5, <2>7 DEF PollWatches
      <4>3. \A j \in DOMAIN pollfd' : j # 0 => pollfd'[j].fd \in Fds /\ conn'[pollfd'[j].fd] # NoClient
        BY <2>2, <2>7, <3>8, <4>2 DEF PollWatches, Open
      <4>4. \A j, m \in DOMAIN pollfd' : j # 0 /\ m # 0 /\ pollfd'[j].fd = pollfd'[m].fd => j = m
        <5>1. ASSUME NEW j \in DOMAIN pollfd', NEW m \in DOMAIN pollfd', j # 0, m # 0,
                     pollfd'[j].fd = pollfd'[m].fd
              PROVE  j = m
          <6>1. from[j] = from[m]
            BY <2>7, <3>8, <5>1 DEF PollWatches
          <6> QED
            BY <3>9, <6>1
        <5> QED
          BY <5>1
      <4>5. ASSUME NEW g \in Fds, conn'[g] # NoClient
            PROVE  \E j \in DOMAIN pollfd' : j # 0 /\ pollfd'[j].fd = g
        <5>1. g # f /\ Open(g)
          BY <2>2, <4>5 DEF Open
        <5>2. PICK j \in DOMAIN pollfd : j # 0 /\ pollfd[j].fd = g
          BY <2>7, <5>1 DEF PollWatches
        <5>3. PICK m \in DOMAIN pollfd' : from[m] = j
          BY <1>5, <2>7, <3>10, <5>1, <5>2
        <5>4. m # 0
          BY <1>5, <2>7, <3>7, <5>2, <5>3
        <5> QED
          BY <3>8, <5>2, <5>3, <5>4
      <4> QED
        BY <4>1, <4>3, <4>4, <4>5 DEF PollWatches, Open, Fds
    <3>13. Unscanned'
      <4>1. ASSUME NEW j \in DOMAIN pollfd', j >= i', pollfd'[j].rev # "none"
            PROVE  /\ conn'[pollfd'[j].fd] # NoClient
                   /\ inbox'[conn'[pollfd'[j].fd]] \/ cli'[conn'[pollfd'[j].fd]] = "gone"
                   /\ pollfd'[j].rev = "hup" => cli'[conn'[pollfd'[j].fd]] = "gone"
        <5>1. PICK m \in DOMAIN pollfd : m = from[j] /\ m # at
          BY <3>8
        <5>2. pollfd'[j] = pollfd[m]
          BY <3>8, <5>1
        <5>3. m >= i
          <6>1. j \in Nat /\ j >= at /\ (m = n - 1 \/ m = j)
            BY <3>1, <3>2, <3>5, <3>4, <3>7, <4>1, <5>1
          <6> QED
            BY <1>5, <3>6, <6>1 DEF Types
        <5>4. Readable(pollfd[m].fd) /\ (pollfd[m].rev = "hup" => cli[conn[pollfd[m].fd]] = "gone")
          BY <1>4, <2>7, <4>1, <5>2, <5>3 DEF Unscanned
        <5>5. m # 0
          BY <2>7, <4>1, <5>2 DEF PollWatches
        <5>6. PICK g \in Fds : g = pollfd[m].fd /\ g # f
          BY <1>5, <2>7, <5>1, <5>5 DEF PollWatches
        <5>7. Readable(g)' /\ conn'[g] = conn[g]
          BY <2>5, <5>4, <5>6
        <5> QED
          BY <1>3, <5>2, <5>4, <5>6, <5>7 DEF Readable, clients
      <4> QED
        BY <1>3, <2>7, <4>1 DEF Unscanned, Readable
    <3>14. SelectWatches'
      BY <1>3, <2>7 DEF SelectWatches
    <3> QED
      BY <2>2, <2>3, <2>4, <3>11, <3>12, <3>13, <3>14
  <2> QED
    BY <2>6, <2>7 DEF Types
<1> QED
  BY <1>6, <1>7

-----------------------------------------------------------------------------
(* The inductive invariant.                                                  *)

LEMMA InitOK == ASSUME OpendAssumption, Init PROVE IInv
<1> USE DEF Init
<1>1. DOMAIN <<>> = 0 .. 0 - 1 /\ Array(<<>>)
  BY DEF Array
<1>2. /\ Array(client) /\ \A j \in DOMAIN client : client[j] \in Entry
      /\ \A j \in DOMAIN client : client[j].fd \notin Fds
  <2>1. CASE loop = "poll"
    <3>1. PICK a : a = <<>> /\ DOMAIN a = {}
      OBVIOUS
    <3>2. Array(a) /\ client = Added(a, Listen, NoClient)
      BY <1>1, <2>1, <3>1
    <3> HIDE DEF Init
    <3>3. \A j \in DOMAIN client : client[j] \in {Unused, [fd |-> Listen, uid |-> NoClient]}
      <4>1. \A j \in DOMAIN client : j # AddAt(a) => client[j] = Unused
        <5>1. \A j \in DOMAIN client : j # AddAt(a) => client[j] = IF j \in DOMAIN a THEN a[j] ELSE Unused
          BY <3>2, AddedOK, ZenonT(60)
        <5> QED
          BY <3>1, <5>1
      <4>2. client[AddAt(a)] = [fd |-> Listen, uid |-> NoClient]
        BY <3>2, AddedOK
      <4> QED
        BY <4>1, <4>2
    <3>4. Unused \in Entry /\ [fd |-> Listen, uid |-> NoClient] \in Entry
      BY DEF Entry, Unused
    <3>5. Unused.fd \notin Fds /\ [fd |-> Listen, uid |-> NoClient].fd \notin Fds
      BY OpendAssumption DEF OpendAssumption, Unused, Fds, Listen, Avail
    <3> QED
      BY <3>1, <3>2, <3>3, <3>4, <3>5, AddedOK
  <2>2. CASE loop # "poll"
    BY <1>1, <2>2
  <2> QED
    BY <2>1, <2>2
<1>3. /\ Array(pollfd) /\ DOMAIN pollfd = {0} /\ pollfd[0] = [fd |-> Listen, rev |-> "none"]
  <2>1. DOMAIN pollfd = {0} /\ {0} = 0 .. 1 - 1
    OBVIOUS
  <2> QED
    BY <2>1 DEF Array
<1>4. \A f \in Fds : conn[f] = NoClient
  OBVIOUS
<1>5. Types
  <2>1. \A j \in DOMAIN pollfd : pollfd[j] \in PollEntry
    BY <1>3 DEF PollEntry
  <2>2. loop \in {"select", "poll"} /\ sent \in [Clients -> 0 .. MaxRequests]
    BY OpendAssumption DEF OpendAssumption
  <2> QED
    BY <1>2, <1>3, <2>1, <2>2 DEF Types
<1>6. Entries /\ Connected /\ Pending /\ Asked /\ AnswersAsked /\ Unscanned
  BY <1>2, <1>4 DEF Entries, Connected, Pending, Asked, AnswersAsked, Unscanned, Open, Used
<1>7. SelectWatches /\ PollWatches
  BY <1>2, <1>3, <1>4 DEF SelectWatches, PollWatches, Open, Used
<1> QED
  BY <1>5, <1>6, <1>7 DEF IInv

LEMMA StepOK == ASSUME OpendAssumption, IInv, [Next]_vars PROVE IInv'
<1>1. CASE UNCHANGED vars
  <2> USE <1>1 DEF vars, clients, selecting
  <2>1. Types' /\ Connected' /\ AnswersAsked'
    BY DEF IInv, Types, Connected, Open, Fds, AnswersAsked
  <2>2. Asked' /\ Pending'
    BY DEF IInv, Asked, Up, Pending
  <2>3. Entries' /\ SelectWatches' /\ PollWatches' /\ Unscanned'
    BY Kept DEF IInv
  <2> QED
    BY <2>1, <2>2, <2>3 DEF IInv
<1>2. CASE Server
  BY <1>2, SelectReturnsOK, PollReturnsOK, AcceptOK, EndScanOK, RequestOK, ClosedOK DEF Server
<1>3. ASSUME NEW c \in Clients, Client(c) PROVE IInv'
  BY <1>3, ConnectOK, AskOK, ReceiveOK, LeaveOK DEF Client
<1> QED
  BY <1>1, <1>2, <1>3 DEF Next, Quiet

LEMMA Inductive == Spec => []IInv
<1>1. Init => IInv
  BY OpendAssumption, InitOK
<1>2. IInv /\ [Next]_vars => IInv'
  BY OpendAssumption, StepOK
<1> QED
  BY <1>1, <1>2, PTL DEF Spec

-----------------------------------------------------------------------------
(* The theorems.                                                             *)

LEMMA TypesOK == ASSUME Types PROVE TypeOK
<1>1. DOMAIN client = 0 .. Cardinality(DOMAIN client) - 1 /\ Cardinality(DOMAIN client) \in Nat
  BY ArraySize DEF Types
<1>2. DOMAIN pollfd = 0 .. NumFd - 1
  BY ArraySize DEF Types, NumFd
<1>3. maxi \in -1 .. Cardinality(DOMAIN client) - 1
  BY <1>1 DEF Types
<1> QED
  BY <1>1, <1>2, <1>3 DEF Types, TypeOK, Entry, PollEntry

\* Every variable keeps its type; client[] and pollfd[] are arrays from 0 and maxi is an index.
THEOREM TypeCorrect == Spec => []TypeOK
<1>1. IInv => TypeOK
  BY TypesOK DEF IInv
<1> QED
  BY <1>1, Inductive, PTL

\* Two sets with a one to one map between them have as many elements.
LEMMA SameCard ==
  ASSUME NEW S, IsFiniteSet(S), NEW T, NEW g \in [S -> T],
         \A x, y \in S : g[x] = g[y] => x = y, \A t \in T : \E x \in S : g[x] = t
  PROVE  Cardinality(S) = Cardinality(T)
<1>1. g \in Bijection(S, T)
  BY DEF Bijection, Injection, Surjection, IsInjective
<1> QED
  BY <1>1, FS_Bijection DEF ExistsBijection

LEMMA RegisteredOK == ASSUME OpendAssumption, IInv PROVE Registered
<1> DEFINE open == {f \in Fds : conn[f] # NoClient}
<1> DEFINE used == {j \in DOMAIN client : client[j].fd \notin {Avail, Listen}}
<1>1. \A j \in DOMAIN client : client[j].fd \in {Avail, Listen} \cup Fds
  BY DEF IInv, Types, Entry
<1>2. Avail \notin Fds /\ Listen \notin Fds
  BY OpendAssumption DEF OpendAssumption, Avail, Listen, Fds
<1>3. \A j : j \in used <=> j \in DOMAIN client /\ client[j].fd \in Fds
  BY <1>1, <1>2
<1>4. \A j \in used : client[j].fd \in open /\ client[j].uid = conn[client[j].fd]
  BY <1>3 DEF IInv, Entries, Open, Used
<1>5. \A f \in open : \E j \in used : client[j].fd = f
  BY <1>3 DEF IInv, Entries, Open
<1>6. {client[j].fd : j \in used} = open
  BY <1>4, <1>5
<1>7. Cardinality(used) = Cardinality(open)
  <2>1. IsFiniteSet(used)
    <3>1. IsFiniteSet(DOMAIN client) /\ used \in SUBSET DOMAIN client
      BY ArraySize DEF IInv, Types
    <3> QED
      BY <3>1, FS_Subset
  <2>2. PICK g \in [used -> open] : \A j \in used : g[j] = client[j].fd
    <3>1. [j \in used |-> client[j].fd] \in [used -> open]
      BY <1>4
    <3> QED
      BY <3>1
  <2>3. \A j, k \in used : g[j] = g[k] => j = k
    BY <1>3, <2>2 DEF IInv, Entries, Used
  <2>4. \A f \in open : \E j \in used : g[j] = f
    BY <1>5, <2>2
  <2> HIDE DEF used, open
  <2> QED
    BY <2>1, <2>3, <2>4, SameCard
<1>8. ASSUME loop = "select" PROVE allset = open /\ \A j \in used : j <= maxi
  <2>1. allset = open
    BY <1>8 DEF IInv, Types, SelectWatches, Open
  <2> QED
    BY <1>3, <1>8, <2>1 DEF IInv, SelectWatches, Used
<1>9. ASSUME loop = "poll"
      PROVE  {pollfd[j].fd : j \in 1 .. NumFd - 1} = open /\ NumFd - 1 = Cardinality(open)
  <2>1. PICK n \in Nat : n = NumFd /\ DOMAIN pollfd = 0 .. n - 1
    BY ArraySize DEF IInv, Types, NumFd
  <2>2. n >= 1
    BY <1>9, <2>1 DEF IInv, PollWatches
  <2>3. PICK m \in Nat : m = n - 1
    BY <2>1, <2>2
  <2>4. \A j : j \in 1 .. m <=> j \in DOMAIN pollfd /\ j # 0
    BY <2>1, <2>3
  <2>5. \A j \in 1 .. m : pollfd[j].fd \in open
    BY <1>9, <2>4 DEF IInv, PollWatches, Open
  <2>6. \A f \in open : \E j \in 1 .. m : pollfd[j].fd = f
    BY <1>9, <2>4 DEF IInv, PollWatches, Open
  <2>7. {pollfd[j].fd : j \in 1 .. m} = open
    BY <2>5, <2>6
  <2>8. IsFiniteSet(1 .. m) /\ Cardinality(1 .. m) = m
    BY FS_Interval
  <2>9. PICK g \in [1 .. m -> open] : \A j \in 1 .. m : g[j] = pollfd[j].fd
    <3>1. [j \in 1 .. m |-> pollfd[j].fd] \in [1 .. m -> open]
      BY <2>5
    <3> QED
      BY <3>1
  <2>10. \A j, k \in 1 .. m : g[j] = g[k] => j = k
    BY <1>9, <2>4, <2>9 DEF IInv, PollWatches
  <2>11. \A f \in open : \E j \in 1 .. m : g[j] = f
    BY <2>6, <2>9
  <2> HIDE DEF open
  <2>12. Cardinality(1 .. m) = Cardinality(open)
    BY <2>8, <2>10, <2>11, SameCard
  <2> QED
    BY <2>1, <2>3, <2>7, <2>8, <2>12
<1> QED
  BY <1>4, <1>6, <1>7, <1>8, <1>9 DEF Registered

\* Every open connection has one entry of client[], with its own uid, and is watched once.
THEOREM RegisteredHolds == Spec => []Registered
<1>1. IInv => Registered
  BY OpendAssumption, RegisteredOK
<1> QED
  BY <1>1, Inductive, PTL

\* The scan reads only from connections that have a request or are closed: it never waits.
THEOREM NeverBlocks == Spec => []ReadNeverBlocks
<1>1. IInv => ReadNeverBlocks
  <2>1. ASSUME IInv, Scanning, NEW j \in ReadyFrom PROVE Readable(Fd(j))
    BY <2>1, ReadyOK DEF Scanning
  <2> QED
    BY <2>1 DEF ReadNeverBlocks, Readable
<1> QED
  BY <1>1, Inductive, PTL

\* An answer is only ever there for a client that waits for one or has gone.
THEOREM AnswersWereAsked == Spec => []AnswersAsked
<1>1. IInv => AnswersAsked
  BY DEF IInv
<1> QED
  BY <1>1, Inductive, PTL
===========================================================================
