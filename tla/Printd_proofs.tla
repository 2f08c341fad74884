--------------------------- MODULE Printd_proofs ---------------------------
(***************************************************************************)
(* Printd: whatever the numbers of clients, jobs, crashes, faults and       *)
(* edits, a job that was acknowledged is printed or in the spool directory, *)
(* what is printed is the client's own file, once and in order, and no      *)
(* wakeup and no reread of the configuration is lost.  The heart of it is   *)
(* that a job number, wherever it is found - with a thread, in a file name, *)
(* in the queue, in an acknowledgement - leads to one client, as long as    *)
(* the number was handed out once (Claims).                                 *)
(***************************************************************************)
EXTENDS Printd, TLAPS

Labels == {"new", "header", "data", "file", "req", "write", "unlink", "ack", "add", "signal",
           "cleanup", "end"}
\* Where a client thread has a job number.
Numbered == {"data", "file", "req", "write", "unlink", "ack", "add", "signal", "cleanup"}
Job == [id : JobIds, cl : Clients, n : Nat \ {0}]
Idle == {"none", "get", "wait"}          \* where the printer thread holds no job

\* Every variable has its type, and its value fits the label of the thread it belongs to.
Types ==
  /\ TypeOK
  /\ ppc \in Idle => job = NoJob
  /\ ppc \notin Idle => job \in Job
  /\ \A c \in Clients : IF cpc[c] \in Numbered THEN cid[c] \in JobIds ELSE cid[c] = 0
  /\ stopping => downs < MaxDown
  /\ downs <= MaxDown

\* The printer thread runs when the daemon does, client threads after the spool directory
\* was searched; a bad control file is gone before its data file.
Phases ==
  /\ phase = "down" <=> ppc = "none"
  /\ phase = "accept" => todo = {}
  /\ phase # "accept" => \A c \in Clients : cpc[c] \in {"new", "end"}
  /\ phase = "unlink" => entry \in JobIds /\ req[entry] = NoOne

\* Jobs are numbered as they are queued; the one the printer thread holds is before the queue.
Ordered ==
  /\ \A k \in 1 .. Len(queue) : queue[k].n <= added /\ (job # NoJob => job.n < queue[k].n)
  /\ \A k, l \in 1 .. Len(queue) : k < l => queue[k].n < queue[l].n
  /\ job # NoJob => job.n <= added

\* The configuration in use is that of the last SIGHUP, or is going to be read.
Config == hup <= conf /\ (reread \/ used >= hup \/ ppc = "init")

\* Job i of client c is in the queue, or in the hands of the printer thread.
InLine(c, i) ==
  \/ \E k \in 1 .. Len(queue) : queue[k].id = i /\ queue[k].cl = c
  \/ job # NoJob /\ job.id = i /\ job.cl = c
\* Every place where number i leads to client c.
Claim(c, i) ==
  cid[c] = i \/ <<c, i>> \in acked \/ data[i] = c \/ req[i] = c \/ InLine(c, i)

\* A number that is in use was handed out, and a client has one; it is that of one client
\* unless it was handed out again.
Claims ==
  /\ \A c \in Clients, i \in JobIds :
       Claim(c, i) => i \in given /\ cpc[c] \notin {"new", "header"}
  /\ \A c \in Clients, i, j \in JobIds : Claim(c, i) /\ Claim(c, j) => i = j
  /\ \A c, d \in Clients, i \in JobIds : Claim(c, i) /\ Claim(d, i) => c = d \/ i \in reused

\* Main is about to remove the files of number i.
Bad(i) == req[i] = Short \/ (phase = "unlink" /\ entry = i)
\* A job is in line when its thread is done with it, and its control file is whole.
Lined ==
  \A c \in Clients, i \in JobIds :
    InLine(c, i) => cpc[c] \in {"signal", "cleanup", "end"} /\ (Bad(i) => i \in reused)

\* What a client thread has done before it comes to a label.
Stages ==
  \A c \in Clients :
    /\ cpc[c] \in {"file", "req", "write", "ack", "add"} => data[cid[c]] = c \/ cid[c] \in reused
    /\ cpc[c] \in {"ack", "add"} => req[cid[c]] = c \/ cid[c] \in reused
    /\ \A i \in JobIds : <<c, i>> \in acked => cpc[c] \in {"add", "signal", "cleanup", "end"}

\* What the printer thread has done.
Done ==
  /\ PrintsOwnData
  /\ ppc \in {"unlink_data", "unlink_req"} => job.cl \in printed \/ job.id \in reused
  /\ AckedKept

\* While every number was handed out once: a client whose job was printed is done, and the
\* file is there again only if the daemon could not know.
Once ==
  reused = {} =>
    /\ \A c \in printed : cpc[c] \in {"signal", "cleanup", "end"}
    /\ \A i \in JobIds : data[i] \in printed =>
         data[i] \in excused \/ (ppc = "unlink_data" /\ job.cl = data[i])
    /\ again \subseteq excused

IInv ==
  Types /\ Phases /\ Ordered /\ Config /\ WakeupComing /\ Claims /\ Lined /\ Stages /\ Done /\ Once

-----------------------------------------------------------------------------
(* Types.                                                                    *)

\* Sequences of any set.
LEMMA SeqParts ==
  ASSUME NEW S
  PROVE  /\ <<>> \in Seq(S)
         /\ \A q \in Seq(S) : q # <<>> => Head(q) \in S /\ Tail(q) \in Seq(S)
         /\ \A q \in Seq(S), x \in S : Append(q, x) \in Seq(S) /\ <<x>> \o q \in Seq(S)
OBVIOUS

LEMMA InitTypes == Init => Types /\ Phases
<1> SUFFICES ASSUME Init PROVE Types /\ Phases
  OBVIOUS
<1> USE PrintdAssumption DEF Init, PrintdAssumption
<1>1. nextjob \in JobIds /\ jobno \in 0 .. MaxJob /\ todo \subseteq JobIds
  BY DEF JobIds
<1>2. {conf, used, hup} \subseteq 0 .. MaxConf /\ downs \in 0 .. MaxDown + 1 /\ downs <= MaxDown
      /\ faults \in 0 .. MaxFaults
  OBVIOUS
<1>3. TypeOK
  <2>1. queue \in Seq([id : JobIds, cl : Clients, n : Nat \ {0}])
    BY SeqParts
  <2>2. cancelled \subseteq Busy /\ acked \subseteq Clients \X JobIds
    OBVIOUS
  <2> QED
    BY <1>1, <1>2, <2>1, <2>2 DEF TypeOK
<1> QED
  BY <1>2, <1>3 DEF Types, Phases, Idle, Numbered

\* The tables of the client threads: part of Types.
Threads ==
  /\ cpc \in [Clients -> Labels] /\ cid \in [Clients -> {0} \cup JobIds]
  /\ \A c \in cancelled : c \in Clients /\ cpc[c] \notin {"new", "end"}
  /\ \A c \in Clients : IF cpc[c] \in Numbered THEN cid[c] \in JobIds ELSE cid[c] = 0

LEMMA ThreadsTyped == Types => Threads
BY DEF Types, TypeOK, Threads, Busy, Labels

LEMMA EndsThreads == ASSUME Threads, NEW c \in Clients, Ends(c) PROVE Threads'
BY DEF Threads, Ends, Labels, Numbered

LEMMA BecomesThreads ==
  ASSUME Threads, NEW c \in Clients, NEW l \in Numbered, Becomes(c, l), cpc[c] \in Numbered
  PROVE  Threads'
BY DEF Threads, Becomes, Goes, Labels, Numbered

\* The files and the count of failures: a step that changes one entry, or fails.
LEMMA FilesTyped ==
  ASSUME Types, NEW x, NEW y \in Clients \cup {NoOne}, NEW z \in Clients \cup {NoOne, Short},
         data' \in {data, [data EXCEPT ![x] = y]}, req' \in {req, [req EXCEPT ![x] = z]},
         faults' = faults \/ Fails
  PROVE  /\ data' \in [JobIds -> Clients \cup {NoOne}] /\ faults' \in 0 .. MaxFaults
         /\ req' \in [JobIds -> Clients \cup {NoOne, Short}]
<1>1. data \in [JobIds -> Clients \cup {NoOne}] /\ req \in [JobIds -> Clients \cup {NoOne, Short}]
  BY DEF Types, TypeOK
<1>2. faults' \in 0 .. MaxFaults
  BY PrintdAssumption DEF Types, TypeOK, Fails, PrintdAssumption
<1> QED
  BY <1>1, <1>2

\* Every action keeps the types.
LEMMA TypesOK == ASSUME Types, Phases, [Next]_vars PROVE Types' /\ Phases'
<1> USE PrintdAssumption DEF Types, Phases, TypeOK, PrintdAssumption, Idle, Numbered, Job,
          spool, daemon, printer, threads, config, prints, history, Busy
<1>0. CASE UNCHANGED vars
  BY <1>0 DEF vars
<1>1. CASE Start
  <2>1. nextjob' \in JobIds /\ todo' \subseteq JobIds /\ {conf', used', hup'} \subseteq 0 .. MaxConf
    BY <1>1 DEF Start, JobIds
  <2> QED
    BY <1>1, <2>1 DEF Start
<1>2. CASE Accepting
  BY <1>2 DEF Accepting
<1>3. ASSUME NEW x \in JobIds, ScanEntry(x) PROVE Types' /\ Phases'
  <2>1. /\ data' \in [JobIds -> Clients \cup {NoOne}]
        /\ req' \in [JobIds -> Clients \cup {NoOne, Short}]
    BY <1>3 DEF ScanEntry
  <2>2. queue' \in Seq(Job) /\ added' \in Nat
    <3>1. CASE UNCHANGED <<queue, added>>
      BY <3>1
    <3>2. CASE Enqueue(x, req[x]) /\ req[x] \in Clients
      <4>1. [id |-> x, cl |-> req[x], n |-> added + 1] \in Job
        BY <3>2
      <4> QED
        BY <3>2, <4>1, SeqParts DEF Enqueue
    <3> QED
      BY <1>3, <3>1, <3>2 DEF ScanEntry
  <2>3. /\ phase' \in {"scan", "unlink", "signal"} /\ entry' \in {0} \cup JobIds
        /\ phase' = "unlink" => entry' = x /\ req'[x] = NoOne
    BY <1>3 DEF ScanEntry
  <2>4. phase = "scan" /\ todo' \subseteq todo
        /\ UNCHANGED <<jobno, stopping, nextjob, printer, threads, config, downs, faults, history>>
    BY <1>3 DEF ScanEntry
  <2> QED
    BY <2>1, <2>2, <2>3, <2>4
<1>30. CASE ScanUnlink
  <2>1. data' \in [JobIds -> Clients \cup {NoOne}]
    BY <1>30 DEF ScanUnlink
  <2> QED
    BY <1>30, <2>1 DEF ScanUnlink
<1>31. CASE ScanSignal
  <2>1. ppc' \in {ppc, "get"} /\ (ppc' # ppc => ppc = "wait")
    BY <1>31 DEF ScanSignal, Signal
  <2> QED
    BY <1>31, <2>1 DEF ScanSignal
<1>4. CASE PickUp
  <2>1. CASE queue = <<>>
    BY <1>4, <2>1 DEF PickUp
  <2>2. CASE queue # <<>>
    <3>1. Head(queue) \in Job /\ Tail(queue) \in Seq(Job)
      BY <2>2, SeqParts
    <3> QED
      BY <1>4, <2>2, <3>1 DEF PickUp
  <2> QED
    BY <2>1, <2>2
<1>5. CASE UpdateJobNo
  BY <1>5, SMTT(30) DEF UpdateJobNo, JobIds
<1>6. CASE CheckConf
  BY <1>6 DEF CheckConf
<1>7. CASE InitPrinter
  BY <1>7 DEF InitPrinter
<1>8. CASE OpenData
  BY <1>8 DEF OpenData
<1>9. CASE SendJob
  BY <1>9 DEF SendJob, Prints
<1>10. CASE SendFails
  BY <1>10, SMTT(30) DEF SendFails, PutBack
<1>11. CASE AnswerLost
  BY <1>11 DEF AnswerLost, Prints, PutBack, Fails
<1>12. CASE UnlinkData
  BY <1>12 DEF UnlinkData
<1>13. CASE UnlinkReq
  BY <1>13 DEF UnlinkReq
<1>14. CASE EditConf
  BY <1>14 DEF EditConf
<1>15. CASE SigHup
  BY <1>15 DEF SigHup
<1>16. CASE KillWorkers
  BY <1>16 DEF KillWorkers
<1>17. ASSUME GoDown, downs' = downs + 1, downs < MaxDown PROVE Types' /\ Phases'
  <2>1. /\ nextjob' \in JobIds /\ todo' \subseteq JobIds /\ {conf', used', hup'} \subseteq 0 .. MaxConf
        /\ downs' \in 0 .. MaxDown + 1 /\ downs' <= MaxDown /\ entry' = 0
    BY <1>17 DEF GoDown, JobIds
  <2>2. /\ cpc' \in [Clients -> Labels] /\ cid' \in [Clients -> {0} \cup JobIds] /\ cancelled' = {}
        /\ \A c \in Clients : cpc'[c] \in {"new", "end"} /\ cid'[c] = 0
    BY <1>17 DEF GoDown, Labels
  <2> QED
    <3>1. cancelled' \subseteq Busy'
      BY <2>2
    <3>2. queue' \in Seq([id : JobIds, cl : Clients, n : Nat \ {0}])
      BY <1>17, SeqParts DEF GoDown
    <3>3. TypeOK'
      <4>1. /\ jobno' \in 0 .. MaxJob /\ data' \in [JobIds -> Clients \cup {NoOne}]
            /\ req' \in [JobIds -> Clients \cup {NoOne, Short}] /\ faults' \in 0 .. MaxFaults
        BY <1>17 DEF GoDown
      <4>2. /\ acked' \subseteq Clients \X JobIds
            /\ printed' \subseteq Clients /\ again' \subseteq printed'
            /\ given' \subseteq JobIds /\ reused' \subseteq given'
        BY <1>17 DEF GoDown
      <4>3. /\ phase' = "down" /\ stopping' = FALSE /\ added' = 0 /\ ppc' = "none" /\ job' = NoJob
            /\ reread' = FALSE
        BY <1>17 DEF GoDown
      <4> HIDE DEF Types, Phases, Busy
      <4> QED
        BY <2>1, <2>2, <3>1, <3>2, <4>1, <4>2, <4>3 DEF Labels
    <3> QED
      BY <1>17, <2>1, <2>2, <3>3 DEF GoDown
<1>18. ASSUME NEW c \in Clients, Accept(c) PROVE Types' /\ Phases'
  BY <1>18 DEF Accept
<1>19. ASSUME NEW c \in Clients, GetJobNo(c) PROVE Types' /\ Phases'
  <2>1. cpc[c] = "header" /\ phase = "accept"
    BY <1>19 DEF GetJobNo
  <2>2. Threads'
    <3>1. CASE Ends(c)
      BY <3>1, ThreadsTyped, EndsThreads
    <3>2. CASE Goes(c, "data") /\ cid' = [cid EXCEPT ![c] = nextjob]
      BY <3>2, ThreadsTyped DEF Threads, Goes, Labels
    <3> QED
      BY <1>19, <3>1, <3>2 DEF GetJobNo
  <2>3. nextjob' \in JobIds /\ faults' \in 0 .. MaxFaults
    BY <1>19, SMTT(30) DEF GetJobNo, Fails, JobIds
  <2>4. given' \subseteq JobIds /\ reused' \subseteq given'
    BY <1>19 DEF GetJobNo
  <2> QED
    BY <1>19, <2>1, <2>2, <2>3, <2>4 DEF GetJobNo, Threads, Labels
<1>20. ASSUME NEW c \in Clients, CreatData(c) PROVE Types' /\ Phases'
  <2>1. Threads'
    <3>1. Becomes(c, "file") \/ Ends(c)
      BY <1>20 DEF CreatData
    <3> QED
      BY <1>20, <3>1, ThreadsTyped, EndsThreads, BecomesThreads DEF CreatData
  <2>2. cpc[c] = "data" /\ phase = "accept"
    BY <1>20 DEF CreatData
  <2>3. /\ data' \in [JobIds -> Clients \cup {NoOne}] /\ faults' \in 0 .. MaxFaults
        /\ req' \in [JobIds -> Clients \cup {NoOne, Short}]
    <3>1. /\ data' \in {data, [data EXCEPT ![cid[c]] = c]} /\ req' \in {req, [req EXCEPT ![cid[c]] = NoOne]}
          /\ faults' = faults \/ Fails
      BY <1>20 DEF CreatData
    <3> QED
      BY <3>1, FilesTyped
  <2> QED
    BY <1>20, <2>1, <2>2, <2>3 DEF CreatData, Threads, Labels
<1>21. ASSUME NEW c \in Clients, CopyFile(c) PROVE Types' /\ Phases'
  <2>1. Threads'
    <3>1. Becomes(c, "req") \/ Ends(c)
      BY <1>21 DEF CopyFile
    <3> QED
      BY <1>21, <3>1, ThreadsTyped, EndsThreads, BecomesThreads DEF CopyFile
  <2>2. cpc[c] = "file" /\ phase = "accept"
    BY <1>21 DEF CopyFile
  <2>3. /\ data' \in [JobIds -> Clients \cup {NoOne}] /\ faults' \in 0 .. MaxFaults
        /\ req' \in [JobIds -> Clients \cup {NoOne, Short}]
    <3>1. /\ data' \in {data, [data EXCEPT ![cid[c]] = NoOne]} /\ req' \in {req, [req EXCEPT ![cid[c]] = NoOne]}
          /\ faults' = faults \/ Fails
      BY <1>21 DEF CopyFile
    <3> QED
      BY <3>1, FilesTyped
  <2> QED
    BY <1>21, <2>1, <2>2, <2>3 DEF CopyFile, Threads, Labels
<1>22. ASSUME NEW c \in Clients, CreatReq(c) PROVE Types' /\ Phases'
  <2>1. Threads'
    <3>1. Becomes(c, "write") \/ Ends(c)
      BY <1>22 DEF CreatReq
    <3> QED
      BY <1>22, <3>1, ThreadsTyped, EndsThreads, BecomesThreads DEF CreatReq
  <2>2. cpc[c] = "req" /\ phase = "accept"
    BY <1>22 DEF CreatReq
  <2>3. /\ data' \in [JobIds -> Clients \cup {NoOne}] /\ faults' \in 0 .. MaxFaults
        /\ req' \in [JobIds -> Clients \cup {NoOne, Short}]
    <3>1. /\ data' \in {data, [data EXCEPT ![cid[c]] = NoOne]} /\ req' \in {req, [req EXCEPT ![cid[c]] = Short]}
          /\ faults' = faults \/ Fails
      BY <1>22 DEF CreatReq
    <3> QED
      BY <3>1, FilesTyped
  <2> QED
    BY <1>22, <2>1, <2>2, <2>3 DEF CreatReq, Threads, Labels
<1>23. ASSUME NEW c \in Clients, WriteReq(c) PROVE Types' /\ Phases'
  <2>1. Threads'
    <3>1. Becomes(c, "ack") \/ Becomes(c, "unlink")
      BY <1>23 DEF WriteReq
    <3> QED
      BY <1>23, <3>1, ThreadsTyped, BecomesThreads DEF WriteReq
  <2>2. cpc[c] = "write" /\ phase = "accept"
    BY <1>23 DEF WriteReq
  <2>3. /\ data' \in [JobIds -> Clients \cup {NoOne}] /\ faults' \in 0 .. MaxFaults
        /\ req' \in [JobIds -> Clients \cup {NoOne, Short}]
    <3>1. /\ data' \in {data, [data EXCEPT ![cid[c]] = NoOne]}
          /\ req' \in {req, [req EXCEPT ![cid[c]] = c]} \/ req' \in {req, [req EXCEPT ![cid[c]] = NoOne]}
          /\ faults' = faults \/ Fails
      BY <1>23 DEF WriteReq
    <3> QED
      BY <3>1, FilesTyped
  <2> QED
    BY <1>23, <2>1, <2>2, <2>3 DEF WriteReq, Threads, Labels
<1>32. ASSUME NEW c \in Clients, UnlinkFailed(c) PROVE Types' /\ Phases'
  <2>1. Threads'
    BY <1>32, ThreadsTyped, EndsThreads DEF UnlinkFailed
  <2>2. cpc[c] = "unlink" /\ phase = "accept"
    BY <1>32 DEF UnlinkFailed
  <2>3. data' \in [JobIds -> Clients \cup {NoOne}]
    BY <1>32 DEF UnlinkFailed
  <2> QED
    BY <1>32, <2>1, <2>2, <2>3 DEF UnlinkFailed, Threads, Labels
<1>24. ASSUME NEW c \in Clients, Ack(c) PROVE Types' /\ Phases'
  BY <1>24 DEF Ack, Becomes, Goes
<1>25. ASSUME NEW c \in Clients, AddJob(c) PROVE Types' /\ Phases'
  BY <1>25 DEF AddJob, Enqueue, Becomes, Goes
<1>26. ASSUME NEW c \in Clients, SignalJob(c) PROVE Types' /\ Phases'
  BY <1>26 DEF SignalJob, Signal, Becomes, Goes
<1>27. ASSUME NEW c \in Clients, Cleanup(c) PROVE Types' /\ Phases'
  BY <1>27 DEF Cleanup, Ends
<1>28. ASSUME NEW c \in Clients, Cancelled(c) PROVE Types' /\ Phases'
  BY <1>28 DEF Cancelled, Ends
<1>29. (InitPrinterExits \/ ExitNow \/ Crash) => GoDown /\ downs' = downs + 1 /\ downs < MaxDown
  BY DEF InitPrinterExits, ExitNow, Crash
<1> QED
  BY <1>0, <1>1, <1>2, <1>3, <1>4, <1>5, <1>6, <1>7, <1>8, <1>9, <1>10, <1>11, <1>12, <1>13,
     <1>14, <1>15, <1>16, <1>17, <1>18, <1>19, <1>20, <1>21, <1>22, <1>23, <1>24, <1>25,
     <1>26, <1>27, <1>28, <1>29, <1>30, <1>31, <1>32
     DEF Next, MainStep, PrinterStep, ClientStep

-----------------------------------------------------------------------------
(* The queue and the job in the printer thread's hands: the line.            *)

LineStays == UNCHANGED <<queue, job, added>>
Grows(c, i) == Enqueue(i, c) /\ job' = job
Picks == queue # <<>> /\ job = NoJob /\ job' = Head(queue) /\ queue' = Tail(queue) /\ added' = added
PutsBack == job \in Job /\ job' = NoJob /\ queue' = <<job>> \o queue /\ added' = added
Drops == job' = NoJob /\ UNCHANGED <<queue, added>>
Empties == queue' = <<>> /\ job' = NoJob /\ added' = 0
\* The job that is queued is that of a thread at its add, or of a control file found by main.
Queues ==
  \E c \in Clients, i \in JobIds :
    /\ Grows(c, i)
    /\ (AddJob(c) /\ i = cid[c]) \/ (ScanEntry(i) /\ req[i] = c)

LEMMA LineSteps ==
  ASSUME Types, [Next]_vars
  PROVE  LineStays \/ Queues \/ Picks \/ PutsBack \/ Drops \/ Empties
<1> USE DEF spool, daemon, printer, threads, config, prints, history
<1>1. CASE UNCHANGED vars \/ Start \/ Accepting \/ UpdateJobNo \/ CheckConf \/ InitPrinter \/ SendJob
           \/ UnlinkData \/ EditConf \/ SigHup \/ KillWorkers \/ ScanUnlink \/ ScanSignal
  BY <1>1 DEF vars, Start, Accepting, ScanUnlink, ScanSignal, UpdateJobNo, CheckConf, InitPrinter, SendJob, UnlinkData,
              EditConf, SigHup, KillWorkers, LineStays
<1>2. ASSUME NEW x \in JobIds, ScanEntry(x) PROVE LineStays \/ Queues
  BY <1>2 DEF ScanEntry, LineStays, Queues, Grows
<1>3. CASE PickUp
  BY <1>3 DEF PickUp, Types, Idle, LineStays, Picks
<1>4. CASE SendFails \/ AnswerLost
  <2>1. job \in Job
    BY <1>4 DEF Types, Idle, SendFails, AnswerLost
  <2> QED
    BY <1>4, <2>1 DEF SendFails, AnswerLost, PutBack, PutsBack
<1>5. CASE OpenData \/ UnlinkReq
  BY <1>5 DEF OpenData, UnlinkReq, LineStays, Drops
<1>6. CASE InitPrinterExits \/ ExitNow \/ Crash
  BY <1>6 DEF InitPrinterExits, ExitNow, Crash, GoDown, Empties
<1>7. ASSUME NEW c \in Clients,
             Accept(c) \/ GetJobNo(c) \/ CreatData(c) \/ CopyFile(c) \/ CreatReq(c) \/ WriteReq(c)
             \/ UnlinkFailed(c) \/ Ack(c) \/ SignalJob(c) \/ Cleanup(c) \/ Cancelled(c)
      PROVE  LineStays
  BY <1>7 DEF Accept, GetJobNo, CreatData, CopyFile, CreatReq, WriteReq, UnlinkFailed, Ack, SignalJob,
              Cleanup, Cancelled, LineStays
<1>8. ASSUME NEW c \in Clients, AddJob(c) PROVE Queues
  <2>1. cid[c] \in JobIds
    BY <1>8 DEF AddJob, Types, Numbered
  <2>2. Grows(c, cid[c])
    BY <1>8 DEF AddJob, Grows
  <2> QED
    BY <1>8, <2>1, <2>2 DEF Queues
<1> QED
  BY <1>1, <1>2, <1>3, <1>4, <1>5, <1>6, <1>7, <1>8
     DEF Next, MainStep, PrinterStep, ClientStep

\* The job at each place after a step of the line.
LEMMA Line ==
  ASSUME queue \in Seq(Job)
  PROVE  /\ Len(queue) \in Nat
         /\ \A k \in 1 .. Len(queue) : queue[k] \in Job
         /\ queue # <<>> => 1 \in 1 .. Len(queue) /\ Head(queue) = queue[1]
                /\ Len(Tail(queue)) = Len(queue) - 1
                /\ \A k \in 1 .. Len(queue) - 1 : Tail(queue)[k] = queue[k + 1]
         /\ \A x \in Job : /\ Len(Append(queue, x)) = Len(queue) + 1
                           /\ Append(queue, x)[Len(queue) + 1] = x
                           /\ \A k \in 1 .. Len(queue) : Append(queue, x)[k] = queue[k]
         /\ \A x \in Job : /\ Len(<<x>> \o queue) = Len(queue) + 1
                           /\ (<<x>> \o queue)[1] = x
                           /\ \A k \in 1 .. Len(queue) : (<<x>> \o queue)[k + 1] = queue[k]
<1>1. Len(queue) \in Nat /\ \A k \in 1 .. Len(queue) : queue[k] \in Job
  OBVIOUS
<1>2. ASSUME queue # <<>>
      PROVE  1 \in 1 .. Len(queue) /\ Head(queue) = queue[1] /\ Len(Tail(queue)) = Len(queue) - 1
             /\ \A k \in 1 .. Len(queue) - 1 : Tail(queue)[k] = queue[k + 1]
  BY <1>2
<1>3. ASSUME NEW x \in Job
      PROVE  /\ Len(Append(queue, x)) = Len(queue) + 1 /\ Append(queue, x)[Len(queue) + 1] = x
             /\ \A k \in 1 .. Len(queue) : Append(queue, x)[k] = queue[k]
  OBVIOUS
<1>4. ASSUME NEW x \in Job
      PROVE  /\ Len(<<x>> \o queue) = Len(queue) + 1 /\ (<<x>> \o queue)[1] = x
             /\ \A k \in 1 .. Len(queue) : (<<x>> \o queue)[k + 1] = queue[k]
  OBVIOUS
<1> QED
  BY <1>1, <1>2, <1>3, <1>4

\* What is in line after a step was there before, or is the job that is queued.
LEMMA InLineSteps ==
  ASSUME Types, NEW c \in Clients, NEW i \in JobIds, InLine(c, i)',
         LineStays \/ Picks \/ PutsBack \/ Drops \/ Empties
  PROVE  InLine(c, i)
<1>1. queue \in Seq(Job) /\ NoJob.cl \notin Clients /\ (job = NoJob \/ job \in Job)
  BY PrintdAssumption DEF Types, TypeOK, Job, NoJob, PrintdAssumption
<1>2. Len(queue) \in Nat
  BY <1>1, Line
<1>3. CASE LineStays
  BY <1>3 DEF LineStays, InLine
<1>4. CASE Picks
  <2>1. CASE job' # NoJob /\ job'.id = i /\ job'.cl = c
    BY <1>1, <1>4, <2>1, Line DEF Picks, InLine
  <2>2. ASSUME NEW k \in 1 .. Len(queue'), queue'[k].id = i /\ queue'[k].cl = c PROVE InLine(c, i)
    <3>1. k \in 1 .. Len(queue) - 1 /\ queue'[k] = queue[k + 1]
      BY <1>1, <1>4, <2>2, Line DEF Picks
    <3>2. k + 1 \in 1 .. Len(queue)
      BY <1>2, <3>1
    <3> QED
      BY <2>2, <3>1, <3>2 DEF InLine
  <2> QED
    BY <2>1, <2>2 DEF InLine
<1>5. CASE PutsBack
  <2>1. PICK k \in 1 .. Len(queue) + 1 : queue'[k].id = i /\ queue'[k].cl = c
    BY <1>1, <1>5, Line DEF PutsBack, InLine
  <2>2. CASE k = 1
    <3>1. job # NoJob /\ queue'[1] = job
      BY <1>1, <1>5, Line DEF PutsBack, Job
    <3> QED
      BY <2>1, <2>2, <3>1 DEF InLine
  <2>3. CASE k # 1
    <3>1. k - 1 \in 1 .. Len(queue) /\ (k - 1) + 1 = k
      BY <1>2, <2>3
    <3>2. queue'[(k - 1) + 1] = queue[k - 1]
      BY <1>1, <1>5, <3>1, Line DEF PutsBack
    <3> QED
      BY <2>1, <3>1, <3>2 DEF InLine
  <2> QED
    BY <2>2, <2>3
<1>6. CASE Drops
  BY <1>6 DEF Drops, InLine
<1>7. CASE Empties
  BY <1>7 DEF Empties, InLine
<1> QED
  BY <1>3, <1>4, <1>5, <1>6, <1>7

LEMMA InLineGrows ==
  ASSUME Types, NEW c \in Clients, NEW i \in JobIds, NEW d \in Clients, NEW j \in JobIds,
         Grows(d, j), InLine(c, i)'
  PROVE  InLine(c, i) \/ (c = d /\ i = j)
<1>1. queue \in Seq(Job) /\ added \in Nat
  BY DEF Types, TypeOK, Job
<1>2. PICK x \in Job : x = [id |-> j, cl |-> d, n |-> added + 1] /\ queue' = Append(queue, x)
  BY <1>1 DEF Grows, Enqueue, Job
<1>3. CASE job' # NoJob /\ job'.id = i /\ job'.cl = c
  BY <1>3 DEF Grows, InLine
<1>4. ASSUME NEW k \in 1 .. Len(queue'), queue'[k].id = i /\ queue'[k].cl = c
      PROVE  InLine(c, i) \/ (c = d /\ i = j)
  <2>1. k \in 1 .. Len(queue) \/ k = Len(queue) + 1
    BY <1>1, <1>2, Line
  <2>2. CASE k \in 1 .. Len(queue)
    BY <1>1, <1>2, <1>4, <2>2, Line DEF InLine
  <2>3. CASE k = Len(queue) + 1
    <3>1. queue'[k] = x
      BY <1>1, <1>2, <2>3, Line
    <3> QED
      BY <1>2, <1>4, <3>1
  <2> QED
    BY <2>1, <2>2, <2>3
<1> QED
  BY <1>3, <1>4 DEF InLine

LEMMA OrderedOK == ASSUME Types, Ordered, [Next]_vars PROVE Ordered'
<1>1. /\ queue \in Seq(Job) /\ added \in Nat /\ (job = NoJob \/ job \in Job)
  BY DEF Types, TypeOK, Job
<1>2. Len(queue) \in Nat
  BY <1>1, Line
<1>3. CASE LineStays
  BY <1>3 DEF LineStays, Ordered
<1>4. ASSUME NEW c \in Clients, NEW i \in JobIds, Grows(c, i) PROVE Ordered'
  <2>1. PICK x \in Job : x = [id |-> i, cl |-> c, n |-> added + 1] /\ queue' = Append(queue, x)
    BY <1>1, <1>4 DEF Grows, Enqueue, Job
  <2>2. /\ Len(queue') = Len(queue) + 1 /\ queue'[Len(queue) + 1].n = added + 1
        /\ \A k \in 1 .. Len(queue) : queue'[k] = queue[k] /\ queue[k].n \in Nat
        /\ added' = added + 1 /\ job' = job
    <3>1. /\ Len(queue') = Len(queue) + 1 /\ queue'[Len(queue) + 1] = x
          /\ \A k \in 1 .. Len(queue) : queue'[k] = queue[k] /\ queue[k] \in Job
      BY <1>1, <2>1, Line
    <3> QED
      BY <1>4, <2>1, <3>1 DEF Grows, Enqueue, Job
  <2>3. \A k \in 1 .. Len(queue') : k \in 1 .. Len(queue) \/ k = Len(queue) + 1
    BY <1>2, <2>2
  <2>4. job # NoJob => job.n \in Nat /\ job.n <= added
    BY <1>1 DEF Ordered, Job
  <2>5. \A k \in 1 .. Len(queue) : queue[k].n < added + 1 /\ queue[k].n <= added + 1
    BY <1>1, <2>2 DEF Ordered
  <2>6. \A k \in 1 .. Len(queue') : queue'[k].n <= added' /\ (job' # NoJob => job'.n < queue'[k].n)
    BY <1>1, <2>2, <2>3, <2>4, <2>5 DEF Ordered
  <2>7. \A k, l \in 1 .. Len(queue') : k < l => queue'[k].n < queue'[l].n
    <3>1. ASSUME NEW k \in 1 .. Len(queue'), NEW l \in 1 .. Len(queue'), k < l
          PROVE  queue'[k].n < queue'[l].n
      <4>1. k \in 1 .. Len(queue)
        BY <1>2, <2>2, <2>3, <3>1
      <4>2. CASE l \in 1 .. Len(queue)
        BY <2>2, <3>1, <4>1, <4>2 DEF Ordered
      <4>3. CASE l = Len(queue) + 1
        BY <2>2, <2>5, <4>1, <4>3
      <4> QED
        BY <2>3, <4>2, <4>3
    <3> QED
      BY <3>1
  <2> QED
    BY <1>1, <2>2, <2>4, <2>6, <2>7 DEF Ordered
<1>5. CASE Picks
  <2>1. /\ 1 \in 1 .. Len(queue) /\ job' = queue[1] /\ Len(queue') = Len(queue) - 1 /\ added' = added
        /\ \A k \in 1 .. Len(queue') : queue'[k] = queue[k + 1]
    BY <1>1, <1>5, Line DEF Picks
  <2>2. \A k \in 1 .. Len(queue') : k \in Int /\ k + 1 \in 1 .. Len(queue) /\ 1 < k + 1
    BY <1>2, <2>1
  <2>3. job'.n <= added' /\ \A k \in 1 .. Len(queue') : queue'[k].n <= added' /\ job'.n < queue'[k].n
    BY <2>1, <2>2 DEF Ordered
  <2>4. ASSUME NEW k \in 1 .. Len(queue'), NEW l \in 1 .. Len(queue'), k < l
        PROVE  queue'[k].n < queue'[l].n
    <3>1. k + 1 < l + 1
      BY <2>2, <2>4
    <3> QED
      BY <2>1, <2>2, <3>1 DEF Ordered
  <2> QED
    BY <2>3, <2>4 DEF Ordered
<1>6. CASE PutsBack
  <2>1. /\ Len(queue') = Len(queue) + 1 /\ queue'[1] = job /\ added' = added /\ job' = NoJob
        /\ \A k \in 1 .. Len(queue) : queue'[k + 1] = queue[k]
        /\ job # NoJob
    BY <1>1, <1>6, Line DEF PutsBack, Job, NoJob
  <2>2. ASSUME NEW k \in 1 .. Len(queue'), k # 1
        PROVE  k - 1 \in 1 .. Len(queue) /\ queue'[k] = queue[k - 1]
    <3>1. k - 1 \in 1 .. Len(queue) /\ (k - 1) + 1 = k
      BY <1>2, <2>1, <2>2
    <3>2. queue'[(k - 1) + 1] = queue[k - 1]
      BY <2>1, <3>1
    <3> QED
      BY <3>1, <3>2
  <2>3. \A k \in 1 .. Len(queue') : queue'[k].n <= added'
    BY <2>1, <2>2 DEF Ordered
  <2>4. ASSUME NEW k \in 1 .. Len(queue'), NEW l \in 1 .. Len(queue'), k < l
        PROVE  queue'[k].n < queue'[l].n
    <3>1. l # 1 /\ k \in Int /\ l \in Int
      BY <1>2, <2>1, <2>4
    <3>2. CASE k = 1
      BY <2>1, <2>2, <3>1, <3>2 DEF Ordered
    <3>3. CASE k # 1
      <4>1. k - 1 < l - 1
        BY <2>4, <3>1
      <4> QED
        BY <2>2, <3>1, <3>3, <4>1 DEF Ordered
    <3> QED
      BY <3>2, <3>3
  <2> QED
    BY <2>1, <2>3, <2>4 DEF Ordered
<1>7. CASE Drops
  BY <1>7 DEF Drops, Ordered
<1>8. CASE Empties
  BY <1>8 DEF Empties, Ordered
<1> QED
  BY <1>3, <1>4, <1>5, <1>6, <1>7, <1>8, LineSteps DEF Queues

LEMMA ConfigOK == ASSUME Types, Config, [Next]_vars PROVE Config'
<1> USE DEF Config, spool, daemon, printer, threads, config, prints, history
<1>1. hup \in Nat /\ conf \in Nat /\ used \in Nat
  BY PrintdAssumption DEF Types, TypeOK, PrintdAssumption
<1>2. CASE UNCHANGED vars \/ Accepting \/ UpdateJobNo \/ KillWorkers \/ SendJob \/ SendFails \/ AnswerLost
           \/ OpenData \/ UnlinkData \/ UnlinkReq \/ PickUp \/ ScanUnlink
  BY <1>1, <1>2 DEF vars, ScanUnlink, Accepting, UpdateJobNo, KillWorkers, SendJob, SendFails, AnswerLost,
                    PutBack, OpenData, UnlinkData, UnlinkReq, PickUp
<1>3. CASE Start \/ CheckConf \/ InitPrinter \/ EditConf \/ SigHup
  BY <1>1, <1>3 DEF Start, CheckConf, InitPrinter, EditConf, SigHup
<1>4. CASE InitPrinterExits \/ ExitNow \/ Crash
  BY <1>1, <1>4 DEF InitPrinterExits, ExitNow, Crash, GoDown
<1>5. ASSUME NEW x \in JobIds, ScanEntry(x) PROVE Config'
  BY <1>5 DEF ScanEntry
<1>7. CASE ScanSignal
  BY <1>7 DEF ScanSignal, Signal
<1>6. ASSUME NEW c \in Clients,
             Accept(c) \/ GetJobNo(c) \/ CreatData(c) \/ CopyFile(c) \/ CreatReq(c) \/ WriteReq(c)
             \/ UnlinkFailed(c) \/ Ack(c) \/ AddJob(c) \/ SignalJob(c) \/ Cleanup(c) \/ Cancelled(c)
      PROVE  Config'
  BY <1>6 DEF Accept, GetJobNo, CreatData, CopyFile, CreatReq, WriteReq, UnlinkFailed, Ack, AddJob, SignalJob,
              Signal, Cleanup, Cancelled
<1> QED
  BY <1>2, <1>3, <1>4, <1>5, <1>6, <1>7 DEF Next, MainStep, PrinterStep, ClientStep

\* The queue is only put on by a thread, main or a client's, that will signal.
LEMMA WakeupOK == ASSUME Types, WakeupComing, [Next]_vars PROVE WakeupComing'
<1> USE DEF WakeupComing, spool, daemon, printer, threads, config, prints, history
<1>1. CASE UNCHANGED vars \/ Accepting \/ UpdateJobNo \/ KillWorkers \/ SendJob \/ SendFails \/ AnswerLost
           \/ OpenData \/ UnlinkData \/ UnlinkReq \/ PickUp \/ Start \/ CheckConf \/ InitPrinter
           \/ EditConf \/ SigHup \/ ScanUnlink
  BY <1>1 DEF vars, ScanUnlink, Accepting, UpdateJobNo, KillWorkers, SendJob, SendFails, AnswerLost, PutBack,
              OpenData, UnlinkData, UnlinkReq, PickUp, Start, CheckConf, InitPrinter, EditConf, SigHup
<1>2. CASE InitPrinterExits \/ ExitNow \/ Crash
  BY <1>2 DEF InitPrinterExits, ExitNow, Crash, GoDown
<1>3. ASSUME NEW x \in JobIds, ScanEntry(x) PROVE WakeupComing'
  BY <1>3 DEF ScanEntry
<1>7. CASE ScanSignal
  BY <1>7 DEF ScanSignal, Signal
<1>4. ASSUME NEW c \in Clients,
             Accept(c) \/ GetJobNo(c) \/ CreatData(c) \/ CopyFile(c) \/ CreatReq(c) \/ WriteReq(c)
             \/ UnlinkFailed(c) \/ Ack(c) \/ Cleanup(c) \/ Cancelled(c)
      PROVE  WakeupComing'
  <2>1. cpc \in [Clients -> Labels]
    BY ThreadsTyped DEF Threads
  <2>2. cpc[c] # "signal" /\ (\E l : cpc' = [cpc EXCEPT ![c] = l]) /\ UNCHANGED <<phase, queue, ppc>>
    BY <1>4 DEF Accept, GetJobNo, CreatData, CopyFile, CreatReq, WriteReq, UnlinkFailed, Ack, Cleanup, Cancelled,
                Becomes, Goes, Ends
  <2>3. \A d \in Clients : cpc[d] = "signal" => cpc'[d] = "signal"
    BY <2>1, <2>2
  <2> QED
    BY <2>2, <2>3
<1>5. ASSUME NEW c \in Clients, AddJob(c) PROVE WakeupComing'
  <2>1. cpc \in [Clients -> Labels]
    BY ThreadsTyped DEF Threads
  <2> QED
    BY <1>5, <2>1 DEF AddJob, Becomes, Goes
<1>6. ASSUME NEW c \in Clients, SignalJob(c) PROVE WakeupComing'
  BY <1>6 DEF SignalJob, Signal
<1> QED
  BY <1>1, <1>2, <1>3, <1>4, <1>5, <1>6, <1>7 DEF Next, MainStep, PrinterStep, ClientStep

-----------------------------------------------------------------------------
(* What a step does to the files, the client threads and the printer thread. *)

Creating == {"data", "file", "req", "write", "unlink"}
Stored == {"file", "req", "write", "ack", "add"}
Over == {"signal", "cleanup", "end"}
Unlinking == {"unlink_data", "unlink_req"}

\* What is never taken back, and the jobs that are printed.
History ==
  /\ given \subseteq given' /\ reused \subseteq reused' /\ printed \subseteq printed'
  /\ excused \subseteq excused'
  /\ (printed' = printed /\ again' = again) \/ SendJob \/ AnswerLost
  /\ \A c \in Clients, i \in JobIds :
       <<c, i>> \in acked' => <<c, i>> \in acked \/ (cid[c] = i /\ cpc[c] = "ack" /\ cpc'[c] = "add")

\* A data file is changed by its thread before the job is acknowledged, by main when it
\* removed a short control file, or by the printer thread.
DataStep ==
  \A i \in JobIds : data'[i] # data[i] =>
    /\ printed' = printed
    /\ \/ \E d \in Clients : cid[d] = i /\ cpc[d] \in Creating /\ (data'[i] = d \/ cpc'[d] = "end")
                             /\ data'[i] \in {d, NoOne}
       \/ phase = "unlink" /\ entry = i /\ data'[i] = NoOne
       \/ ppc = "unlink_data" /\ job.id = i /\ data'[i] = NoOne

ReqStep ==
  \A i \in JobIds : req'[i] # req[i] =>
    \/ \E d \in Clients : cid[d] = i /\ cpc[d] \in {"req", "write"} /\ req'[i] \in {d, NoOne, Short}
    \/ phase = "scan" /\ req[i] = Short /\ req'[i] = NoOne
    \/ ppc = "unlink_req" /\ job.id = i /\ req'[i] = NoOne

ThreadStep ==
  \A c \in Clients :
    /\ cid'[c] \in {cid[c], 0} \/ GetJobNo(c)
    /\ cpc[c] \in Over => cpc'[c] \in Over
    /\ cpc[c] = "add" => cpc'[c] \in Over \cup {"add"}
    /\ cpc'[c] \in {"new", "header"} => cpc[c] \in {"new", "header"}
    /\ cpc'[c] \in Stored =>
         cid'[c] = cid[c] /\ (cpc[c] \in Stored \/ (cpc[c] = "data" /\ data'[cid[c]] = c))
    /\ cpc'[c] \in {"ack", "add"} =>
         cpc[c] \in {"ack", "add"} \/ (cpc[c] = "write" /\ req'[cid[c]] = c)

PrintStep ==
  /\ ppc' = "send" =>
       job' = job /\ (ppc = "send" \/ (ppc = "open" /\ data[job.id] # NoOne /\ data' = data))
  /\ ppc' \in Unlinking => job' = job /\ (ppc \in Unlinking \/ SendJob)
  /\ ppc = "unlink_data" =>
       (ppc' = "unlink_data" /\ job' = job) \/ UnlinkData \/ job.cl \in excused'

\* Main removes a data file after a short control file.
ScanStep ==
  \A i \in JobIds : phase' = "unlink" /\ entry' = i =>
    (phase = "unlink" /\ entry = i) \/ (phase = "scan" /\ req[i] = Short)

Steps == History /\ DataStep /\ ReqStep /\ ThreadStep /\ PrintStep

\* Steps that leave files, client threads and what was printed alone.
LEMMA QuietSteps ==
  ASSUME UNCHANGED <<data, req, cid, cpc, history>>, PrintStep
  PROVE  Steps
BY DEF Steps, History, DataStep, ReqStep, ThreadStep, history

\* A step of one client thread.
LEMMA ThreadSteps ==
  ASSUME Types, Phases, NEW c \in Clients,
         Accept(c) \/ ClientStep(c) \/ Cancelled(c)
  PROVE  Steps
<1>1. cpc \in [Clients -> Labels] /\ cid \in [Clients -> {0} \cup JobIds] /\ data \in [JobIds -> Clients \cup {NoOne}]
      /\ req \in [JobIds -> Clients \cup {NoOne, Short}] /\ (cpc[c] \in Numbered => cid[c] \in JobIds)
  BY DEF Types, TypeOK, Labels
<1>3. CASE Accept(c)
  BY <1>1, <1>3 DEF Accept, Steps, History, DataStep, ReqStep, ThreadStep, PrintStep, spool, printer,
                    history, Labels, Stored, Over, Unlinking
<1>4. CASE GetJobNo(c)
  BY <1>1, <1>4 DEF GetJobNo, Goes, Ends, Steps, History, DataStep, ReqStep, ThreadStep, PrintStep,
                    spool, printer, prints, Labels, Stored, Over, Unlinking
<1>5. CASE CreatData(c)
  BY <1>1, <1>5 DEF CreatData, Becomes, Goes, Ends, Steps, History, DataStep, ReqStep, ThreadStep, PrintStep,
                    printer, history, Labels, Stored, Over, Unlinking, Numbered, Creating
<1>6. CASE CopyFile(c)
  BY <1>1, <1>6 DEF CopyFile, Becomes, Goes, Ends, Steps, History, DataStep, ReqStep, ThreadStep, PrintStep,
                    printer, history, Labels, Stored, Over, Unlinking, Numbered, Creating
<1>7. CASE CreatReq(c)
  BY <1>1, <1>7 DEF CreatReq, Becomes, Goes, Ends, Steps, History, DataStep, ReqStep, ThreadStep, PrintStep,
                    printer, history, Labels, Stored, Over, Unlinking, Numbered, Creating
<1>8. CASE WriteReq(c)
  BY <1>1, <1>8 DEF WriteReq, Becomes, Goes, Ends, Steps, History, DataStep, ReqStep, ThreadStep, PrintStep,
                    printer, history, Labels, Stored, Over, Unlinking, Numbered, Creating
<1>13. CASE UnlinkFailed(c)
  BY <1>1, <1>13 DEF UnlinkFailed, Ends, Steps, History, DataStep, ReqStep, ThreadStep, PrintStep,
                    printer, history, Labels, Stored, Over, Unlinking, Numbered, Creating
<1>9. CASE Ack(c)
  BY <1>1, <1>9 DEF Ack, Becomes, Goes, Steps, History, DataStep, ReqStep, ThreadStep, PrintStep,
                    spool, printer, prints, Labels, Stored, Over, Unlinking, Numbered
<1>10. CASE AddJob(c)
  BY <1>1, <1>10 DEF AddJob, Becomes, Goes, Steps, History, DataStep, ReqStep, ThreadStep, PrintStep,
                    spool, printer, history, Labels, Stored, Over, Unlinking, Numbered
<1>11. CASE SignalJob(c)
  BY <1>1, <1>11 DEF SignalJob, Signal, Becomes, Goes, Steps, History, DataStep, ReqStep, ThreadStep, PrintStep,
                    spool, history, Labels, Stored, Over, Unlinking, Numbered
<1>12. CASE Cleanup(c) \/ Cancelled(c)
  BY <1>1, <1>12 DEF Cleanup, Cancelled, Ends, Steps, History, DataStep, ReqStep, ThreadStep, PrintStep,
                    spool, printer, history, Labels, Stored, Over, Unlinking, Numbered
<1> QED
  BY <1>3, <1>4, <1>5, <1>6, <1>7, <1>8, <1>9, <1>10, <1>11, <1>12, <1>13 DEF ClientStep

\* Every step of the daemon.
LEMMA StepsOK == ASSUME Types, Phases, [Next]_vars PROVE Steps
<1> USE DEF spool, daemon, printer, threads, config, prints, history, Unlinking
<1>1. CASE UNCHANGED vars \/ Accepting \/ KillWorkers \/ EditConf \/ SigHup \/ Start
           \/ PickUp \/ UpdateJobNo \/ CheckConf \/ InitPrinter \/ SendFails \/ OpenData
           \/ ScanSignal
  <2>1. UNCHANGED <<data, req, cid, cpc, history>>
    BY <1>1 DEF vars, Accepting, KillWorkers, EditConf, SigHup, Start, PickUp, UpdateJobNo, CheckConf,
                InitPrinter, SendFails, PutBack, OpenData, ScanSignal
  <2>2. PrintStep
    BY <1>1 DEF PrintStep, vars, Accepting, KillWorkers, EditConf, SigHup, Start, PickUp, UpdateJobNo,
                CheckConf, InitPrinter, SendFails, PutBack, OpenData, Phases, ScanSignal, Signal
  <2> QED
    BY <2>1, <2>2, QuietSteps
<1>2. ASSUME NEW x \in JobIds, ScanEntry(x) PROVE Steps
  BY <1>2 DEF ScanEntry, Types, TypeOK, Steps, History, DataStep, ReqStep, ThreadStep, PrintStep
<1>9. CASE ScanUnlink
  BY <1>9 DEF ScanUnlink, Types, TypeOK, Steps, History, DataStep, ReqStep, ThreadStep, PrintStep
<1>3. CASE SendJob
  BY <1>3 DEF SendJob, Prints, Steps, History, DataStep, ReqStep, ThreadStep, PrintStep
<1>4. CASE AnswerLost
  BY <1>4 DEF AnswerLost, Prints, PutBack, Steps, History, DataStep, ReqStep, ThreadStep, PrintStep
<1>5. CASE UnlinkData
  BY <1>5 DEF UnlinkData, Types, TypeOK, Steps, History, DataStep, ReqStep, ThreadStep, PrintStep
<1>6. CASE UnlinkReq
  BY <1>6 DEF UnlinkReq, Types, TypeOK, Steps, History, DataStep, ReqStep, ThreadStep, PrintStep
<1>7. ASSUME GoDown PROVE Steps
  <2>1. \A c \in Clients : cpc'[c] = (IF cpc[c] = "new" THEN "new" ELSE "end") /\ cid'[c] = 0
    BY <1>7 DEF GoDown
  <2>2. UNCHANGED <<data, req, acked, printed, again, given, reused>> /\ ppc' = "none"
        /\ excused \subseteq excused' /\ (ppc = "unlink_data" => job.cl \in excused')
    BY <1>7 DEF GoDown
  <2> QED
    BY <2>1, <2>2 DEF Steps, History, DataStep, ReqStep, ThreadStep, PrintStep, Stored, Over
<1>8. InitPrinterExits \/ ExitNow \/ Crash => GoDown
  BY DEF InitPrinterExits, ExitNow, Crash
<1> QED
  BY <1>1, <1>2, <1>3, <1>4, <1>5, <1>6, <1>7, <1>8, <1>9, ThreadSteps DEF Next, MainStep, PrinterStep

LEMMA ScanStepOK == ASSUME [Next]_vars PROVE ScanStep
<1> USE DEF ScanStep, daemon
<1>1. CASE UNCHANGED vars \/ KillWorkers \/ EditConf \/ SigHup \/ PickUp \/ UpdateJobNo \/ CheckConf
           \/ InitPrinter \/ OpenData \/ SendJob \/ SendFails \/ AnswerLost \/ UnlinkData \/ UnlinkReq
  BY <1>1 DEF vars, KillWorkers, EditConf, SigHup, PickUp, UpdateJobNo, CheckConf, InitPrinter,
              OpenData, SendJob, SendFails, AnswerLost, UnlinkData, UnlinkReq
<1>2. CASE Start \/ Accepting \/ ScanUnlink \/ ScanSignal \/ InitPrinterExits \/ ExitNow \/ Crash
  BY <1>2 DEF Start, Accepting, ScanUnlink, ScanSignal, InitPrinterExits, ExitNow, Crash, GoDown
<1>3. ASSUME NEW x \in JobIds, ScanEntry(x) PROVE ScanStep
  BY <1>3 DEF ScanEntry
<1>4. ASSUME NEW c \in Clients, Accept(c) \/ ClientStep(c) \/ Cancelled(c) PROVE ScanStep
  BY <1>4 DEF ClientStep, Accept, GetJobNo, CreatData, CopyFile, CreatReq, WriteReq, UnlinkFailed,
              Ack, AddJob, SignalJob, Cleanup, Cancelled
<1> QED
  BY <1>1, <1>2, <1>3, <1>4 DEF Next, MainStep, PrinterStep

-----------------------------------------------------------------------------
(* The numbers and what they lead to.                                        *)

\* A job that is in line was there before, or is queued by its thread or by main.
LEMMA InLineBefore ==
  ASSUME Types, [Next]_vars, NEW c \in Clients, NEW i \in JobIds, InLine(c, i)'
  PROVE  InLine(c, i) \/ (AddJob(c) /\ i = cid[c]) \/ (ScanEntry(i) /\ req[i] = c)
<1>1. CASE Queues
  <2>1. PICK d \in Clients, j \in JobIds :
          Grows(d, j) /\ ((AddJob(d) /\ j = cid[d]) \/ (ScanEntry(j) /\ req[j] = d))
    BY <1>1 DEF Queues
  <2>2. InLine(c, i) \/ (c = d /\ i = j)
    BY <2>1, InLineGrows
  <2> QED
    BY <2>1, <2>2
<1>2. CASE ~Queues
  BY <1>2, LineSteps, InLineSteps
<1> QED
  BY <1>1, <1>2

\* A new claim is made only by the thread that is given the number.
LEMMA ClaimBefore ==
  ASSUME Types, Phases, [Next]_vars, NEW c \in Clients, NEW i \in JobIds, Claim(c, i)'
  PROVE  Claim(c, i) \/ (GetJobNo(c) /\ cid'[c] = i)
<1>1. Steps
  BY StepsOK
<1>2. 0 \notin JobIds /\ c # NoOne /\ c # Short
  BY PrintdAssumption DEF JobIds, PrintdAssumption
<1>3. CASE cid'[c] = i
  BY <1>1, <1>2, <1>3 DEF Steps, ThreadStep, Claim
<1>4. CASE <<c, i>> \in acked'
  BY <1>1, <1>4 DEF Steps, History, Claim
<1>5. CASE data'[i] = c
  BY <1>1, <1>2, <1>5 DEF Steps, DataStep, Claim
<1>6. CASE req'[i] = c
  BY <1>1, <1>2, <1>6 DEF Steps, ReqStep, Claim
<1>7. CASE InLine(c, i)'
  BY <1>7, InLineBefore DEF Claim
<1> QED
  BY <1>3, <1>4, <1>5, <1>6, <1>7 DEF Claim

LEMMA ClaimsOK == ASSUME Types, Phases, Claims, [Next]_vars PROVE Claims'
<1>1. Steps
  BY StepsOK
<1>2. ASSUME NEW c \in Clients, NEW i \in JobIds, GetJobNo(c), cid'[c] = i
      PROVE  /\ i = nextjob /\ i \in given' /\ (i \in given => i \in reused') /\ cpc[c] = "header"
             /\ cpc'[c] = "data"
             /\ \A d \in Clients : d # c => cpc'[d] = cpc[d]
  <2>1. cid[c] = 0 /\ cid \in [Clients -> {0} \cup JobIds] /\ cpc \in [Clients -> Labels] /\ 0 \notin JobIds
    BY <1>2, ThreadsTyped DEF GetJobNo, Threads, Numbered, JobIds
  <2> QED
    BY <1>2, <2>1 DEF GetJobNo, Goes, Ends
<1>3. ASSUME NEW c \in Clients, NEW i \in JobIds, Claim(c, i)'
      PROVE  i \in given' /\ cpc'[c] \notin {"new", "header"}
  <2>1. CASE Claim(c, i)
    BY <1>1, <2>1 DEF Claims, Steps, History, ThreadStep
  <2>2. CASE GetJobNo(c) /\ cid'[c] = i
    BY <1>2, <2>2
  <2> QED
    BY <1>3, <2>1, <2>2, ClaimBefore
<1>4. ASSUME NEW c \in Clients, NEW i \in JobIds, NEW j \in JobIds, Claim(c, i)', Claim(c, j)'
      PROVE  i = j
  <2>1. CASE Claim(c, i) /\ Claim(c, j)
    BY <2>1 DEF Claims
  <2>2. CASE GetJobNo(c)
    <3>1. cpc[c] = "header"
      BY <2>2 DEF GetJobNo
    <3>2. ~Claim(c, i) /\ ~Claim(c, j)
      BY <3>1 DEF Claims
    <3> QED
      BY <1>4, <3>2, ClaimBefore
  <2> QED
    BY <1>4, <2>1, <2>2, ClaimBefore
<1>5. ASSUME NEW c \in Clients, NEW d \in Clients, NEW i \in JobIds, Claim(c, i)', Claim(d, i)', c # d
      PROVE  i \in reused'
  <2>1. CASE Claim(c, i) /\ Claim(d, i)
    BY <1>1, <1>5, <2>1 DEF Claims, Steps, History
  <2>2. ASSUME NEW e \in Clients, NEW f \in Clients, e # f, GetJobNo(e), cid'[e] = i, Claim(f, i)'
        PROVE  i \in reused'
    <3>1. Claim(f, i)
      <4>1. ~(GetJobNo(f) /\ cid'[f] = i)
        BY <1>2, <2>2
      <4> QED
        BY <2>2, <4>1, ClaimBefore
    <3>2. i \in given
      BY <3>1 DEF Claims
    <3> QED
      BY <1>2, <2>2, <3>2
  <2> QED
    BY <1>5, <2>1, <2>2, ClaimBefore
<1> QED
  BY <1>3, <1>4, <1>5 DEF Claims

LEMMA LinedOK ==
  ASSUME Types, Phases, Claims, Lined, Stages, [Next]_vars
  PROVE  Lined'
<1>1. Steps
  BY StepsOK
<1>2. ASSUME NEW c \in Clients, NEW i \in JobIds, InLine(c, i)'
      PROVE  cpc'[c] \in Over /\ (Bad(i)' => i \in reused')
  <2>1. CASE InLine(c, i)
    <3>1. cpc[c] \in Over /\ (Bad(i) => i \in reused)
      BY <2>1 DEF Lined, Over
    <3>2. ASSUME req'[i] = Short, req[i] # Short PROVE i \in reused'
      <4>1. Short \notin Clients /\ Short # NoOne
        BY PrintdAssumption DEF PrintdAssumption
      <4>2. PICK d \in Clients : cid[d] = i /\ cpc[d] \in {"req", "write"}
        BY <1>1, <3>2, <4>1 DEF Steps, ReqStep
      <4>3. Claim(c, i) /\ Claim(d, i) /\ c # d
        BY <2>1, <3>1, <4>2 DEF Claim, Over
      <4> QED
        BY <1>1, <4>3 DEF Claims, Steps, History
    <3>3. Bad(i)' => Bad(i) \/ (req'[i] = Short /\ req[i] # Short)
      BY ScanStepOK DEF ScanStep, Bad
    <3> QED
      BY <1>1, <3>1, <3>2, <3>3 DEF Steps, ThreadStep, History
  <2>2. CASE AddJob(c) /\ i = cid[c]
    <3>1. cpc[c] = "add" /\ cpc'[c] = "signal" /\ req' = req /\ phase' = phase /\ phase = "accept"
      BY <2>2 DEF AddJob, Becomes, Goes, Types, TypeOK, Phases, spool
    <3>2. req[i] = c \/ i \in reused
      BY <2>2, <3>1 DEF Stages
    <3> QED
      BY PrintdAssumption, <1>1, <3>1, <3>2 DEF PrintdAssumption, Bad, Over, Steps, History
  <2>3. CASE ScanEntry(i) /\ req[i] = c
    <3>1. phase = "scan" /\ phase' # "unlink" /\ cpc' = cpc /\ req' = req
      BY PrintdAssumption, <2>3 DEF PrintdAssumption, ScanEntry, threads
    <3>2. cpc[c] = "end"
      BY <2>3, <3>1 DEF Phases, Claims, Claim
    <3> QED
      BY PrintdAssumption, <2>3, <3>1, <3>2 DEF PrintdAssumption, Bad, Over
  <2> QED
    BY <1>2, <2>1, <2>2, <2>3, InLineBefore
<1> QED
  BY <1>2 DEF Lined, Over

\* While a thread stores its job nobody else has a hand in files of its number.
LEMMA NobodyElse ==
  ASSUME Types, Phases, Claims, Lined, NEW c \in Clients, cpc[c] \in Stored, cid[c] \notin reused
  PROVE  /\ cid[c] \in JobIds /\ phase = "accept" /\ job.id # cid[c]
         /\ \A d \in Clients : cid[d] = cid[c] => d = c
<1>1. cid[c] \in JobIds /\ phase = "accept"
  BY DEF Types, TypeOK, Numbered, Stored, Phases
<1>2. \A d \in Clients : cid[d] = cid[c] => d = c
  BY <1>1 DEF Claims, Claim
<1>3. ASSUME job.id = cid[c] PROVE FALSE
  <2>1. job \in Job /\ job # NoJob
    BY <1>1, <1>3 DEF Types, TypeOK, NoJob, JobIds, Job
  <2>2. InLine(job.cl, cid[c]) /\ job.cl \in Clients
    BY <1>3, <2>1 DEF InLine, Job
  <2>3. job.cl = c
    BY <1>1, <2>2 DEF Claims, Claim
  <2> QED
    BY <1>1, <2>2, <2>3 DEF Lined, Stored
<1> QED
  BY <1>1, <1>2, <1>3

LEMMA StagesOK ==
  ASSUME Types, Phases, Claims, Lined, Stages, [Next]_vars
  PROVE  Stages'
<1>1. Steps
  BY StepsOK
<1>2. ASSUME NEW c \in Clients, cpc'[c] \in Stored, cid'[c] \notin reused'
      PROVE  data'[cid'[c]] = c
  <2>1. cid'[c] = cid[c] /\ cid[c] \notin reused
    BY <1>1, <1>2 DEF Steps, ThreadStep, History
  <2>2. CASE cpc[c] = "data" /\ data'[cid[c]] = c
    BY <2>1, <2>2
  <2>3. CASE cpc[c] \in Stored
    <3>1. data[cid[c]] = c
      BY <2>1, <2>3 DEF Stages, Stored
    <3>2. ASSUME data'[cid[c]] # data[cid[c]] PROVE data'[cid[c]] = c
      <4>1. cid[c] \in JobIds /\ phase = "accept" /\ job.id # cid[c] /\ \A d \in Clients : cid[d] = cid[c] => d = c
        BY <2>1, <2>3, NobodyElse
      <4>2. data'[cid[c]] = c \/ cpc'[c] = "end"
        BY <1>1, <3>2, <4>1 DEF Steps, DataStep
      <4> QED
        BY <1>2, <4>2 DEF Stored
    <3> QED
      BY <2>1, <3>1, <3>2
  <2> QED
    BY <1>1, <1>2, <2>2, <2>3 DEF Steps, ThreadStep
<1>3. ASSUME NEW c \in Clients, cpc'[c] \in {"ack", "add"}, cid'[c] \notin reused'
      PROVE  req'[cid'[c]] = c
  <2>1. cid'[c] = cid[c] /\ cid[c] \notin reused
    BY <1>1, <1>3 DEF Steps, ThreadStep, History, Stored
  <2>2. CASE cpc[c] = "write" /\ req'[cid[c]] = c
    BY <2>1, <2>2
  <2>3. CASE cpc[c] \in {"ack", "add"}
    <3>1. req[cid[c]] = c
      BY <2>1, <2>3 DEF Stages
    <3>2. cid[c] \in JobIds /\ phase = "accept" /\ job.id # cid[c] /\ \A d \in Clients : cid[d] = cid[c] => d = c
      BY <2>1, <2>3, NobodyElse DEF Stored
    <3>3. req'[cid[c]] = req[cid[c]]
      BY <1>1, <2>3, <3>2 DEF Steps, ReqStep
    <3> QED
      BY <2>1, <3>1, <3>3
  <2> QED
    BY <1>1, <1>3, <2>2, <2>3 DEF Steps, ThreadStep
<1>4. ASSUME NEW c \in Clients, NEW i \in JobIds, <<c, i>> \in acked'
      PROVE  cpc'[c] \in {"add", "signal", "cleanup", "end"}
  <2>1. CASE <<c, i>> \in acked
    <3>1. cpc[c] \in {"add", "signal", "cleanup", "end"}
      BY <2>1 DEF Stages
    <3>2. CASE cpc[c] = "add"
      BY <1>1, <3>2 DEF Steps, ThreadStep, Over
    <3> QED
      BY <1>1, <3>1, <3>2 DEF Steps, ThreadStep, Over
  <2> QED
    BY <1>1, <1>4, <2>1 DEF Steps, History
<1> QED
  BY <1>2, <1>3, <1>4 DEF Stages, Stored

-----------------------------------------------------------------------------
(* What is printed and what is kept.                                         *)

\* The job in the printer thread's hands.
LEMMA JobHeld ==
  ASSUME Types, ppc \notin Idle
  PROVE  job.id \in JobIds /\ job.cl \in Clients /\ InLine(job.cl, job.id)
BY DEF Types, Job, NoJob, JobIds, InLine

\* A file with the number of that job is its client's.
LEMMA OwnFile ==
  ASSUME Types, Claims, ppc \notin Idle, job.id \notin reused,
         data[job.id] # NoOne
  PROVE  data[job.id] = job.cl
<1>1. job.id \in JobIds /\ job.cl \in Clients /\ Claim(job.cl, job.id)
  BY JobHeld DEF Claim
<1>2. data[job.id] \in Clients
  BY <1>1 DEF Types, TypeOK
<1>3. Claim(data[job.id], job.id)
  BY DEF Claim
<1> QED
  BY <1>1, <1>2, <1>3 DEF Claims

LEMMA DoneOK ==
  ASSUME Types, Phases, Claims, Lined, Stages, Done, [Next]_vars
  PROVE  Done'
<1>1. Steps /\ Idle = {"none", "get", "wait"}
  BY StepsOK DEF Idle
<1>2. ASSUME ppc' = "send" PROVE data'[job'.id] = job'.cl \/ job'.id \in reused'
  <2>1. job' = job /\ ppc \in {"send", "open"} /\ ppc \notin Idle
    BY <1>1, <1>2 DEF Steps, PrintStep, Idle
  <2>2. job.id \in JobIds /\ job.cl \in Clients /\ InLine(job.cl, job.id)
    BY <2>1, JobHeld
  <2>3. CASE job.id \in reused
    BY <1>1, <2>1, <2>3 DEF Steps, History
  <2>4. CASE job.id \notin reused /\ ppc = "open"
    BY <1>1, <1>2, <2>1, <2>4, OwnFile DEF Steps, PrintStep
  <2>5. CASE job.id \notin reused /\ ppc = "send"
    <3>1. data[job.id] = job.cl
      BY <2>5 DEF Done, PrintsOwnData
    <3>2. data'[job.id] = data[job.id]
      <4>1. ASSUME NEW d \in Clients, cid[d] = job.id, cpc[d] \in Creating PROVE FALSE
        <5>1. d = job.cl
          BY <2>2, <2>5, <4>1 DEF Claims, Claim
        <5> QED
          BY <2>2, <4>1, <5>1 DEF Lined, Creating
      <4>2. ~Bad(job.id)
        BY <2>2, <2>5 DEF Lined
      <4> QED
        BY <1>1, <2>2, <2>5, <4>1, <4>2 DEF Steps, DataStep, Bad
    <3> QED
      BY <2>1, <3>1, <3>2
  <2> QED
    BY <2>1, <2>3, <2>4, <2>5
<1>3. ASSUME ppc' \in Unlinking PROVE job'.cl \in printed' \/ job'.id \in reused'
  <2>1. job' = job
    BY <1>1, <1>3 DEF Steps, PrintStep
  <2>2. CASE ppc \in Unlinking
    BY <1>1, <2>1, <2>2 DEF Done, Steps, History, Unlinking
  <2>3. CASE SendJob
    <3>1. ppc = "send" /\ printed' = printed \cup ({data[job.id]} \ {NoOne})
      BY <2>3 DEF SendJob, Prints
    <3>2. job.cl # NoOne
      BY PrintdAssumption, <3>1, JobHeld DEF PrintdAssumption, Idle
    <3>3. data[job.id] = job.cl \/ job.id \in reused
      BY <3>1 DEF Done, PrintsOwnData
    <3> QED
      BY <1>1, <2>1, <3>1, <3>2, <3>3 DEF Steps, History
  <2> QED
    BY <1>1, <1>3, <2>2, <2>3 DEF Steps, PrintStep
<1>4. ASSUME NEW c \in Clients, NEW i \in JobIds, <<c, i>> \in acked', i \notin reused'
      PROVE  c \in printed' \/ (data'[i] = c /\ req'[i] = c)
  <2>1. i \notin reused
    BY <1>1, <1>4 DEF Steps, History
  <2>2. Claim(c, i) /\ (c \in printed \/ (data[i] = c /\ req[i] = c)) /\ cpc[c] \notin Creating
    <3>1. CASE <<c, i>> \in acked
      BY <2>1, <3>1 DEF Done, AckedKept, Spooled, Claim, Stages, Creating
    <3>2. CASE cid[c] = i /\ cpc[c] = "ack"
      BY <2>1, <3>2 DEF Stages, Claim, Creating
    <3> QED
      BY <1>1, <1>4, <3>1, <3>2 DEF Steps, History
  <2>3. CASE c \in printed
    BY <1>1, <2>3 DEF Steps, History
  <2>4. CASE c \notin printed /\ data[i] = c /\ req[i] = c
    <3>1. \A d \in Clients : cid[d] = i => d = c
      BY <2>1, <2>2 DEF Claims, Claim
    <3>2. ~(ppc \in Unlinking /\ job.id = i)
      <4>1. ASSUME ppc \in Unlinking, job.id = i PROVE FALSE
        <5>1. job.cl \in Clients /\ Claim(job.cl, i)
          BY <4>1, JobHeld DEF Unlinking, Idle, Claim
        <5>2. job.cl = c
          BY <2>1, <2>2, <5>1 DEF Claims
        <5> QED
          BY <2>1, <2>4, <4>1, <5>2 DEF Done, Unlinking
      <4> QED
        BY <4>1
    <3>3. req[i] # Short /\ ~(phase = "unlink" /\ entry = i)
      BY PrintdAssumption, <2>4 DEF PrintdAssumption, Phases
    <3>4. data'[i] = data[i]
      BY <1>1, <2>2, <3>1, <3>2, <3>3 DEF Steps, DataStep, Unlinking
    <3>5. req'[i] = req[i]
      BY <1>1, <2>2, <3>1, <3>2, <3>3 DEF Steps, ReqStep, Unlinking, Creating
    <3> QED
      BY <2>4, <3>4, <3>5
  <2> QED
    BY <2>2, <2>3, <2>4
<1>5. AckedKept'
  <2>1. acked' \subseteq Clients \X JobIds
    BY TypesOK DEF Types, TypeOK
  <2>2. ASSUME NEW a \in acked' PROVE (a[1] \in printed \/ Spooled(a[1], a[2]) \/ a[2] \in reused)'
    <3>1. a[1] \in Clients /\ a[2] \in JobIds /\ a = <<a[1], a[2]>>
      BY <2>1, <2>2
    <3> QED
      BY <1>4, <2>2, <3>1 DEF Spooled
  <2> QED
    BY <2>2 DEF AckedKept
<1> QED
  BY <1>2, <1>3, <1>5 DEF Done, PrintsOwnData, Unlinking

LEMMA OnceOK ==
  ASSUME Types, Phases, Claims, Lined, Stages, Done, Once, [Next]_vars
  PROVE  Once'
<1>1. Steps
  BY StepsOK
<1> SUFFICES ASSUME reused' = {}
             PROVE  /\ \A c \in printed' : cpc'[c] \in Over
                    /\ \A i \in JobIds : data'[i] \in printed' =>
                         data'[i] \in excused' \/ (ppc' = "unlink_data" /\ job'.cl = data'[i])
                    /\ again' \subseteq excused'
  BY DEF Once, Over
<1>2. reused = {} /\ printed \subseteq Clients /\ NoOne \notin Clients
  BY <1>1, PrintdAssumption DEF Steps, History, Types, TypeOK, PrintdAssumption
<1>3. \A c \in printed : cpc[c] \in Over
  BY <1>2 DEF Once, Over
\* A job is printed now: it is the client's own, and if it was printed before that is excused.
<1>4. ASSUME SendJob \/ AnswerLost
      PROVE  \E c \in Clients :
               /\ c = job.cl /\ c = data[job.id] /\ cpc[c] \in Over
               /\ printed' = printed \cup {c} /\ (c \in printed => c \in excused)
               /\ again' = IF c \in printed THEN again \cup {c} ELSE again
               /\ data' = data /\ job.id \in JobIds
               /\ (ppc' = "unlink_data" /\ job' = job) \/ c \in excused'
  <2>1. ppc = "send" /\ data' = data /\ Prints
    BY <1>4 DEF SendJob, AnswerLost, spool
  <2>2. job.id \in JobIds /\ job.cl \in Clients /\ InLine(job.cl, job.id)
    BY <2>1, JobHeld DEF Idle
  <2>3. data[job.id] = job.cl
    BY <1>2, <2>1 DEF Done, PrintsOwnData
  <2>4. cpc[job.cl] \in Over
    BY <2>2 DEF Lined, Over
  <2>5. job.cl \in printed => job.cl \in excused
    BY <1>2, <2>1, <2>2, <2>3 DEF Once
  <2>6. printed' = printed \cup {job.cl} /\ again' = IF job.cl \in printed THEN again \cup {job.cl} ELSE again
    BY <1>2, <2>1, <2>2, <2>3 DEF Prints
  <2>7. (ppc' = "unlink_data" /\ job' = job) \/ job.cl \in excused'
    BY <1>4, <2>3 DEF SendJob, AnswerLost
  <2> QED
    BY <2>1, <2>2, <2>3, <2>4, <2>5, <2>6, <2>7
<1>5. \A c \in printed' : cpc'[c] \in Over
  BY <1>1, <1>2, <1>3, <1>4 DEF Steps, History, ThreadStep
<1>6. again' \subseteq excused'
  BY <1>1, <1>2, <1>4 DEF Steps, History, Once
<1>7. ASSUME NEW i \in JobIds, data'[i] \in printed'
      PROVE  data'[i] \in excused' \/ (ppc' = "unlink_data" /\ job'.cl = data'[i])
  <2>1. CASE data'[i] # data[i]
    <3>1. printed' = printed /\ data'[i] # NoOne
      BY <1>1, <1>2, <1>7, <2>1 DEF Steps, DataStep
    <3>2. PICK d \in Clients : cpc[d] \in Creating /\ data'[i] = d
      BY <1>1, <2>1, <3>1 DEF Steps, DataStep
    <3> QED
      BY <1>3, <1>7, <3>1, <3>2 DEF Creating, Over
  <2>2. CASE data'[i] = data[i] /\ data[i] \in printed
    <3>1. data[i] \in excused \/ (ppc = "unlink_data" /\ job.cl = data[i])
      BY <1>2, <2>2 DEF Once
    <3>2. CASE data[i] \in excused
      BY <1>1, <2>2, <3>2 DEF Steps, History
    <3>3. CASE ppc = "unlink_data" /\ job.cl = data[i]
      <4>1. job.id \in JobIds /\ Claim(job.cl, job.id) /\ job.cl \in Clients /\ Claim(job.cl, i)
        BY <3>3, JobHeld DEF Idle, Claim
      <4>2. i = job.id
        BY <4>1 DEF Claims
      <4>3. ~UnlinkData
        <5>1. UnlinkData => data'[i] = NoOne
          BY <4>1, <4>2 DEF UnlinkData, Types, TypeOK
        <5> QED
          BY <1>2, <2>2, <5>1
      <4> QED
        BY <1>1, <2>2, <3>3, <4>3 DEF Steps, PrintStep
    <3> QED
      BY <3>1, <3>2, <3>3
  <2>3. CASE data'[i] = data[i] /\ data[i] \notin printed
    <3>1. SendJob \/ AnswerLost
      BY <1>1, <1>7, <2>3 DEF Steps, History
    <3>2. PICK c \in Clients : c = job.cl /\ printed' = printed \cup {c}
                               /\ ((ppc' = "unlink_data" /\ job' = job) \/ c \in excused')
      BY <1>4, <3>1
    <3>3. data'[i] = c
      BY <1>7, <2>3, <3>2
    <3> QED
      BY <3>2, <3>3
  <2> QED
    BY <2>1, <2>2, <2>3
<1> QED
  BY <1>5, <1>6, <1>7

-----------------------------------------------------------------------------
(* The inductive invariant and the theorems.                                 *)

LEMMA InitOK == Init => IInv
<1> SUFFICES ASSUME Init PROVE IInv
  OBVIOUS
<1> USE PrintdAssumption DEF Init, PrintdAssumption
<1>1. Types /\ Phases
  BY InitTypes
<1>2. Ordered /\ Config /\ WakeupComing
  BY DEF Ordered, Config, WakeupComing
<1>3. \A c \in Clients, i \in JobIds : ~Claim(c, i) /\ ~InLine(c, i)
  BY DEF Claim, InLine, JobIds
<1>4. Claims /\ Lined /\ Stages
  BY <1>3 DEF Claims, Lined, Stages
<1>5. Done /\ Once
  BY DEF Done, Once, PrintsOwnData, AckedKept
<1> QED
  BY <1>1, <1>2, <1>4, <1>5 DEF IInv

LEMMA Inductive == Spec => []IInv
<1>1. Init => IInv
  BY InitOK
<1>2. IInv /\ [Next]_vars => IInv'
  BY TypesOK, OrderedOK, ConfigOK, WakeupOK, ClaimsOK, LinedOK, StagesOK, DoneOK, OnceOK DEF IInv
<1> QED
  BY <1>1, <1>2, PTL DEF Spec

\* Every variable keeps its type.
THEOREM TypeCorrect == Spec => []TypeOK
<1>1. IInv => TypeOK
  BY DEF IInv, Types
<1> QED
  BY <1>1, Inductive, PTL

\* An acknowledged job is printed or in the spool directory, through crashes and restarts.
THEOREM AcknowledgedKept == Spec => []AckedKept
<1>1. IInv => AckedKept
  BY DEF IInv, Done
<1> QED
  BY <1>1, Inductive, PTL

\* What is sent for a job is the file of the client whose request it carries.
THEOREM OwnDataPrinted == Spec => []PrintsOwnData
<1>1. IInv => PrintsOwnData
  BY DEF IInv, Done
<1> QED
  BY <1>1, Inductive, PTL

\* A job is printed twice only where the daemon could not know of the first time.
THEOREM PrintedTwiceExcused == Spec => []PrintedOnce
<1>1. IInv => PrintedOnce
  BY DEF IInv, Once, PrintedOnce
<1> QED
  BY <1>1, Inductive, PTL

\* Jobs are finished in the order in which they were queued.
THEOREM FinishedInOrder == Spec => []InOrder
<1>1. IInv => InOrder
  <2> SUFFICES ASSUME IInv PROVE InOrder
    OBVIOUS
  <2>1. queue \in Seq(Job) /\ (job = NoJob \/ job \in Job) /\ Len(queue) \in Nat /\ Ordered
    BY Line DEF IInv, Types, TypeOK, Job
  <2>2. CASE job = NoJob
    BY <2>1, <2>2 DEF InOrder, Ordered
  <2>3. CASE job # NoJob
    <3>1. PICK line : line = <<job>> \o queue
      OBVIOUS
    <3>2. /\ DOMAIN line = 1 .. Len(queue) + 1 /\ line[1] = job
          /\ \A k \in 1 .. Len(queue) : line[k + 1] = queue[k]
      BY <2>1, <2>3, <3>1
    <3>3. ASSUME NEW k \in DOMAIN line, NEW l \in DOMAIN line, k < l PROVE line[k].n < line[l].n
      <4>1. /\ k \in Int /\ l \in Int /\ l - 1 \in 1 .. Len(queue) /\ (l - 1) + 1 = l
            /\ (k # 1 => k - 1 \in 1 .. Len(queue) /\ (k - 1) + 1 = k /\ k - 1 < l - 1)
        <5>1. PICK n \in Nat : n = Len(queue)
          BY <2>1
        <5>2. k \in 1 .. n + 1 /\ l \in 1 .. n + 1
          BY <3>2, <5>1
        <5> QED
          BY <3>3, <5>1, <5>2
      <4>2. line[l] = queue[l - 1] /\ (k # 1 => line[k] = queue[k - 1])
        BY <3>2, <4>1
      <4> QED
        BY <2>1, <2>3, <3>2, <4>1, <4>2 DEF Ordered
    <3> QED
      BY <2>3, <3>1, <3>3 DEF InOrder
  <2> QED
    BY <2>2, <2>3
<1> QED
  BY <1>1, Inductive, PTL

\* The printer thread never waits with a job queued and no signal on the way.
THEOREM NoLostWakeup == Spec => []WakeupComing
<1>1. IInv => WakeupComing
  BY DEF IInv
<1> QED
  BY <1>1, Inductive, PTL

\* No job is sent with a configuration older than a SIGHUP that was not looked at.
THEOREM ConfigurationFresh == Spec => []NoStaleConfig
<1>1. IInv => NoStaleConfig
  BY DEF IInv, Config, NoStaleConfig
<1> QED
  BY <1>1, Inductive, PTL
============================================================================
