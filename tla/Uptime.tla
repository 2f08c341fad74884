------------------------------- MODULE Uptime -------------------------------
(***************************************************************************)
(* The uptime service of sockets/: the servers ruptimed.c (which sends the *)
(* output of popen), ruptimed-fd.c (which forks uptime on the connection)  *)
(* and ruptimed-dg.c (datagrams), with their clients ruptime.c and         *)
(* ruptime-dg.c.  Datagrams may be lost and overtake each other.           *)
(***************************************************************************)
EXTENDS Naturals, Sequences, FiniteSets

CONSTANTS Clients, Nobody,
          Programs       \* of {"ruptimed", "ruptimed-fd", "ruptimed-dg"}

VARIABLES prog,
          pc,            \* per client
          got,           \* per client: "none", "uptime" or "error"
          alarm,         \* per client: "off", "on", or "early": it went off before recvfrom
          queue, closed, \* connections to be accepted; those the server has closed
          net,           \* datagrams <<"ask" or "answer", client, text>>
          srv, cl        \* the server: "ready", "run", "send", "close", "exit" or "killed";
                         \* its client

conn == <<queue, closed>>
vars == <<prog, pc, got, alarm, conn, net, srv, cl>>
Datagrams == prog = "ruptimed-dg"

Init ==
  /\ prog \in Programs
  /\ pc = [c \in Clients |-> "start"]
  /\ got = [c \in Clients |-> "none"]
  /\ alarm = [c \in Clients |-> "off"]
  /\ queue = <<>> /\ closed = {}
  /\ net = {}
  /\ srv = "ready" /\ cl = Nobody

Goto(c, l) == pc' = [pc EXCEPT ![c] = l]
Serving == srv \notin {"exit", "killed"}

\* ruptime.c: connect_retry gives up when there is no server
Connect(c) ==
  /\ ~Datagrams
  /\ pc[c] = "start"
  /\ IF Serving THEN Goto(c, "recv") /\ queue' = Append(queue, c)
                ELSE Goto(c, "failed") /\ UNCHANGED queue
  /\ UNCHANGED <<prog, got, alarm, closed, net, srv, cl>>

\* recv until the end of the connection
End(c) ==
  /\ ~Datagrams
  /\ pc[c] = "recv"
  /\ c \in closed \/ ~Serving
  /\ pc' = [pc EXCEPT ![c] = IF c \in closed THEN "ended" ELSE "failed"]
  /\ UNCHANGED <<prog, got, alarm, conn, net, srv, cl>>

\* the user ends a client that waits
Interrupt(c) ==
  /\ pc[c] = "recv"
  /\ Goto(c, "gone")
  /\ UNCHANGED <<prog, got, alarm, conn, net, srv, cl>>

\* ruptime-dg.c: the request, the alarm, and recvfrom
Sendto(c) ==
  /\ Datagrams
  /\ pc[c] = "start"
  /\ \/ Goto(c, "alarm") /\ net' = net \cup {<<"ask", c, "none">>}
     \/ Goto(c, "failed") /\ UNCHANGED net
  /\ UNCHANGED <<prog, got, alarm, conn, srv, cl>>

SetAlarm(c) ==
  /\ pc[c] = "alarm"
  /\ alarm' = [alarm EXCEPT ![c] = "on"]
  /\ Goto(c, "call")
  /\ UNCHANGED <<prog, got, conn, net, srv, cl>>

Call(c) ==
  /\ pc[c] = "call"
  /\ Goto(c, "recv")
  /\ UNCHANGED <<prog, got, alarm, conn, net, srv, cl>>

\* the alarm ends recvfrom, but not one that has not begun
Timeout(c) ==
  /\ alarm[c] = "on"
  /\ pc[c] \in {"call", "recv"}
  /\ IF pc[c] = "recv" THEN Goto(c, "failed") ELSE UNCHANGED pc
  /\ alarm' = [alarm EXCEPT ![c] = IF pc[c] = "recv" THEN "off" ELSE "early"]
  /\ UNCHANGED <<prog, got, conn, net, srv, cl>>

Recvfrom(c) ==
  /\ pc[c] = "recv"
  /\ \E d \in net : /\ d[1] = "answer" /\ d[2] = c
                    /\ net' = net \ {d}
                    /\ got' = [got EXCEPT ![c] = d[3]]
  /\ alarm' = [alarm EXCEPT ![c] = "off"]
  /\ Goto(c, "ended")
  /\ UNCHANGED <<prog, conn, srv, cl>>

Lose == /\ \E d \in net : net' = net \ {d}
        /\ UNCHANGED <<prog, pc, got, alarm, conn, srv, cl>>

\* accept or recvfrom, whose errors end the server
Accept ==
  /\ srv = "ready"
  /\ \/ /\ queue # <<>>
        /\ cl' = Head(queue) /\ queue' = Tail(queue) /\ srv' = "run"
        /\ UNCHANGED net
     \/ \E d \in net : /\ d[1] = "ask"
                       /\ cl' = d[2] /\ net' = net \ {d} /\ srv' = "run"
                       /\ UNCHANGED queue
     \/ srv' = "exit" /\ UNCHANGED <<queue, net, cl>>
  /\ UNCHANGED <<prog, pc, got, alarm, closed>>

\* popen and the first fgets: a text, nothing, or an error; fork, whose error ends ruptimed-fd
Run ==
  /\ srv = "run"
  /\ srv' \in {"send", "close"} \cup (IF prog = "ruptimed-fd" THEN {"exit"} ELSE {})
  /\ UNCHANGED <<prog, pc, got, alarm, conn, net, cl>>

\* mutant: the connection is written by the server itself
KilledAny == "killed"

\* to a client that is gone the sender gets SIGPIPE, by the time the server is told so: in
\* ruptimed-fd it is a child
Killed == IF prog = "ruptimed" THEN "killed" ELSE "close"
Texts == IF prog = "ruptimed-fd" THEN {"uptime"} ELSE {"uptime", "error"}
Send ==
  /\ srv = "send"
  /\ IF Datagrams
     THEN /\ \E t \in Texts : net' = net \cup {<<"answer", cl, t>>}
          /\ srv' = "close"
          /\ UNCHANGED got
     ELSE IF pc[cl] = "gone" THEN srv' \in {Killed, "close"} /\ UNCHANGED <<net, got>>
     ELSE /\ \E t \in Texts : got' = [got EXCEPT ![cl] = t]
          /\ srv' = "close"
          /\ UNCHANGED net
  /\ UNCHANGED <<prog, pc, alarm, conn, cl>>

Close ==
  /\ srv = "close"
  /\ closed' = closed \cup {cl}
  /\ cl' = Nobody
  /\ srv' = "ready"
  /\ UNCHANGED <<prog, pc, got, alarm, queue, net>>

Next == \/ \E c \in Clients : \/ Connect(c) \/ End(c) \/ Interrupt(c) \/ Sendto(c)
                              \/ SetAlarm(c) \/ Call(c) \/ Timeout(c) \/ Recvfrom(c)
        \/ Lose \/ Accept \/ Run \/ Send \/ Close
Spec == Init /\ [][Next]_vars

\* a client whose alarm came too early may wait for ever
Stopped(c) == \/ pc[c] \in {"ended", "failed", "gone"}
              \/ pc[c] = "recv" /\ alarm[c] = "early" /\ ~\E d \in net : d[1] = "answer" /\ d[2] = c
Done == /\ \A c \in Clients : Stopped(c)
        /\ ~Serving \/ (srv = "ready" /\ queue = <<>> /\ net = {})
-----------------------------------------------------------------------------
\* A client that goes away ends ruptimed by SIGPIPE, but not the other servers; a client of
\* the datagrams waits without an alarm only if it went off before recvfrom; and it gets an
\* answer only to its own request, one that ends with success always.
UptimeAnswered ==
  /\ srv = "killed" => prog = "ruptimed" /\ \E c \in Clients : pc[c] = "gone"
  /\ Datagrams => \A c \in Clients :
       /\ pc[c] = "recv" => alarm[c] # "off"
       /\ pc[c] = "ended" => got[c] # "none"
       /\ Cardinality({d \in net : d[2] = c}) <= (IF pc[c] \in {"start", "ended"} THEN 0 ELSE 1)
=============================================================================
