------------------------------- MODULE Printd -------------------------------
(***************************************************************************)
(* The print spooling daemon apue.3e/printer/printd.c: one thread per      *)
(* client stores a job in the spool directory and queues it, the printer   *)
(* thread sends queued jobs, the signal thread handles SIGHUP and SIGTERM, *)
(* and a restarted daemon queues what it finds in the spool directory.     *)
(* Every client submits one file.  A section under joblock, configlock or  *)
(* workerlock is one step, as is each creation, write and unlink of a file.*)
(***************************************************************************)
EXTENDS Integers, Sequences, FiniteSets

CONSTANTS
  Clients,    \* each submits one file
  NoOne,      \* owner of a file that does not exist
  MaxJob,     \* the largest job number (INT32_MAX)
  MaxDown,    \* bound: crashes and SIGTERMs
  MaxFaults,  \* bound: failed reads and writes of client threads
  MaxConf     \* bound: edits of the configuration file

Short == "short"                  \* a control file created and not yet written

ASSUME PrintdAssumption ==
  /\ NoOne \notin Clients /\ Short \notin Clients \cup {NoOne}
  /\ MaxJob \in Nat \ {0} /\ MaxDown \in Nat /\ MaxFaults \in Nat /\ MaxConf \in Nat

JobIds == 1 .. MaxJob
NoJob == [id |-> 0, cl |-> NoOne, n |-> 0]

VARIABLES
  jobno, data, req,   \* spool: job ID file (0: empty), data files, control files
  phase,              \* main: down, scanning the spool, accepting
  todo, entry,        \* entries to scan; a bad entry with its data file to unlink
  stopping,           \* SIGTERM: kill_workers was called, exit follows
  nextjob, queue, added,          \* job counter, pending jobs, jobs queued so far
  ppc, job,           \* printer thread, and the job it holds
  cpc, cid, cancelled,   \* client threads, their job numbers, pthread_cancel pending
  conf, used, reread, hup, \* config file, the one in use, reread flag, SIGHUP of
  downs, faults,
  acked, printed, again, excused, given, reused   \* histories, see Init

spool == <<jobno, data, req>>
daemon == <<phase, todo, entry, stopping, nextjob, queue, added>>
printer == <<ppc, job>>
threads == <<cpc, cid, cancelled>>
config == <<conf, used, reread, hup>>
prints == <<printed, again, excused>>
history == <<acked, printed, again, excused, given, reused>>
vars == <<spool, daemon, printer, threads, config, downs, faults, history>>

Init ==
  /\ jobno = 0
  /\ data = [i \in JobIds |-> NoOne] /\ req = [i \in JobIds |-> NoOne]
  /\ phase = "down" /\ todo = {} /\ entry = 0 /\ stopping = FALSE
  /\ nextjob = 1 /\ queue = <<>> /\ added = 0
  /\ ppc = "none" /\ job = NoJob
  /\ cpc = [c \in Clients |-> "new"] /\ cid = [c \in Clients |-> 0]
  /\ cancelled = {}
  /\ conf = 0 /\ used = 0 /\ reread = FALSE /\ hup = 0
  /\ downs = 0 /\ faults = 0
  /\ acked = {}     \* <<client, number>> of the clients told their request ID
  /\ printed = {}   \* clients whose job was printed
  /\ again = {}     \* ... more than once
  /\ excused = {}   \* ... and the daemon could not know it
  /\ given = {} /\ reused = {}   \* job numbers handed out, and handed out twice

-----------------------------------------------------------------------------
(* main and build_qonstart.                                                  *)

\* mutant: the spool directory is not searched at start-up
StartEmpty ==
  /\ phase = "down" /\ phase' = "scan" /\ todo' = {}
  /\ nextjob' = IF jobno = 0 THEN 1 ELSE jobno
  /\ used' = conf /\ ppc' = "get"
  /\ UNCHANGED <<spool, entry, stopping, queue, added, job, threads, conf, reread, hup, downs,
                 faults, history>>
Start ==
  /\ phase = "down"
  /\ phase' = "scan"
  /\ nextjob' = IF jobno = 0 THEN 1 ELSE jobno
  /\ todo' = {i \in JobIds : req[i] # NoOne}
  /\ used' = conf                                    \* init_printer
  /\ ppc' = "get"
  /\ UNCHANGED <<spool, entry, stopping, queue, added, job, threads, conf, reread, hup, downs,
                 faults, history>>

Enqueue(i, c) ==
  /\ queue' = Append(queue, [id |-> i, cl |-> c, n |-> added + 1])
  /\ added' = added + 1
\* pthread_cond_signal(&jobwait)
Signal == ppc' = IF ppc = "wait" THEN "get" ELSE ppc

\* one directory entry: gone by now, unreadable (then both files go), or queued
ScanEntry(i) ==
  /\ phase = "scan" /\ i \in todo
  /\ todo' = todo \ {i}
  /\ \/ req[i] = NoOne /\ UNCHANGED <<req, phase, entry, queue, added>>
     \/ /\ req[i] = Short
        /\ req' = [req EXCEPT ![i] = NoOne] /\ phase' = "unlink" /\ entry' = i
        /\ UNCHANGED <<queue, added>>
     \/ /\ req[i] \in Clients
        /\ Enqueue(i, req[i]) /\ phase' = "signal" /\ UNCHANGED <<req, entry>>
  /\ UNCHANGED <<jobno, data, stopping, nextjob, printer, threads, config, downs, faults,
                 history>>
ScanUnlink ==
  /\ phase = "unlink" /\ phase' = "scan"
  /\ data' = [data EXCEPT ![entry] = NoOne] /\ entry' = 0
  /\ UNCHANGED <<jobno, req, todo, stopping, nextjob, queue, added, printer, threads, config,
                 downs, faults, history>>
ScanSignal ==
  /\ phase = "signal" /\ phase' = "scan" /\ Signal
  /\ UNCHANGED <<spool, todo, entry, stopping, nextjob, queue, added, job, threads, config,
                 downs, faults, history>>

Accepting ==
  /\ phase = "scan" /\ todo = {} /\ phase' = "accept"
  /\ UNCHANGED <<spool, todo, entry, stopping, nextjob, queue, added, printer, threads, config,
                 downs, faults, history>>

\* the process is gone, with all its threads; the spool directory stays
GoDown ==
  /\ phase' = "down" /\ todo' = {} /\ entry' = 0 /\ stopping' = FALSE
  /\ nextjob' = 1 /\ queue' = <<>> /\ added' = 0
  /\ ppc' = "none" /\ job' = NoJob
  /\ cpc' = [c \in Clients |-> IF cpc[c] = "new" THEN "new" ELSE "end"]
  /\ cid' = [c \in Clients |-> 0]
  /\ cancelled' = {} /\ reread' = FALSE /\ hup' = 0
  /\ excused' = excused \cup
       IF ppc = "unlink_data" THEN {job.cl} ELSE {}   \* printed, not yet removed
  /\ UNCHANGED <<spool, conf, used, faults, acked, printed, again, given, reused>>

Crash == phase # "down" /\ downs < MaxDown /\ downs' = downs + 1 /\ GoDown

-----------------------------------------------------------------------------
(* signal_thread.                                                            *)

SigHup ==
  /\ phase # "down"
  /\ hup # conf
  /\ reread' = TRUE /\ hup' = conf
  /\ UNCHANGED <<spool, daemon, printer, threads, conf, used, downs, faults, history>>

EditConf ==
  /\ conf < MaxConf /\ conf' = conf + 1
  /\ UNCHANGED <<spool, daemon, printer, threads, used, reread, hup, downs, faults,
                 history>>

Busy == {c \in Clients : cpc[c] \notin {"new", "end"}}
\* SIGTERM: kill_workers, then exit.  The list kill_workers walks misses workers and
\* may hold freed ones (see Workers): any of the threads are cancelled.
KillWorkers ==
  /\ phase # "down" /\ ~stopping /\ downs < MaxDown
  /\ \E some \in SUBSET Busy : cancelled' = some
  /\ stopping' = TRUE
  /\ UNCHANGED <<spool, phase, todo, entry, nextjob, queue, added, printer, cpc, cid, config,
                 downs, faults, history>>
ExitNow == stopping /\ downs' = downs + 1 /\ GoDown

-----------------------------------------------------------------------------
(* client_thread of client c.                                                *)

\* add_worker, then the header is awaited
Accept(c) ==
  /\ phase = "accept" /\ cpc[c] = "new"
  /\ cpc' = [cpc EXCEPT ![c] = "header"]
  /\ UNCHANGED <<spool, daemon, printer, cid, cancelled, config, downs, faults, history>>

Goes(c, label) == cpc' = [cpc EXCEPT ![c] = label] /\ UNCHANGED cancelled
Becomes(c, label) == Goes(c, label) /\ UNCHANGED cid
\* pthread_exit runs client_cleanup
Ends(c) ==
  /\ cpc' = [cpc EXCEPT ![c] = "end"] /\ cid' = [cid EXCEPT ![c] = 0]
  /\ cancelled' = cancelled \ {c}
Fails == faults < MaxFaults /\ faults' = faults + 1

\* mutant: the counter does not wrap around
GetJobNoNoWrap(c) ==
  /\ cpc[c] = "header" /\ Goes(c, "data")
  /\ cid' = [cid EXCEPT ![c] = nextjob] /\ nextjob' = nextjob + 1
  /\ UNCHANGED <<spool, phase, todo, entry, stopping, queue, added, printer, config, downs,
                 faults, history>>
GetJobNo(c) ==
  /\ cpc[c] = "header"
  /\ \/ /\ cid' = [cid EXCEPT ![c] = nextjob]
        /\ nextjob' = IF nextjob = MaxJob THEN 1 ELSE nextjob + 1
        /\ given' = given \cup {nextjob}
        /\ reused' = IF nextjob \in given THEN reused \cup {nextjob} ELSE reused
        /\ Goes(c, "data") /\ UNCHANGED faults
     \/ Fails /\ Ends(c) /\ UNCHANGED <<nextjob, given, reused>>
  /\ UNCHANGED <<spool, phase, todo, entry, stopping, queue, added, printer, config, downs,
                 acked, prints>>

\* creat truncates a file that exists
CreatData(c) ==
  /\ cpc[c] = "data"
  /\ \/ /\ data' = [data EXCEPT ![cid[c]] = c]
        /\ Becomes(c, "file") /\ UNCHANGED faults
     \/ Fails /\ Ends(c) /\ UNCHANGED data
  /\ UNCHANGED <<jobno, req, daemon, printer, config, downs, history>>

\* the copy ends at end of file, or by an error or a 20 second timeout of tread,
\* which are taken for the end; a failed write unlinks the data file
CopyFile(c) ==
  /\ cpc[c] = "file"
  /\ \/ Becomes(c, "req") /\ UNCHANGED <<data, faults>>
     \/ /\ Fails /\ data' = [data EXCEPT ![cid[c]] = NoOne] /\ Ends(c)
  /\ UNCHANGED <<jobno, req, daemon, printer, config, downs, history>>

\* mutant: the client is answered before its control file is written
CreatReqAcks(c) ==
  /\ cpc[c] = "req" /\ Becomes(c, "write")
  /\ req' = [req EXCEPT ![cid[c]] = Short] /\ acked' = acked \cup {<<c, cid[c]>>}
  /\ UNCHANGED <<jobno, data, daemon, printer, config, downs, faults, prints, given, reused>>
CreatReq(c) ==
  /\ cpc[c] = "req"
  /\ \/ /\ req' = [req EXCEPT ![cid[c]] = Short]
        /\ Becomes(c, "write") /\ UNCHANGED <<data, faults>>
     \/ Fails /\ data' = [data EXCEPT ![cid[c]] = NoOne] /\ Ends(c) /\ UNCHANGED req
  /\ UNCHANGED <<jobno, daemon, printer, config, downs, history>>

\* a write that fails: the control file is unlinked, then the data file
WriteReq(c) ==
  /\ cpc[c] = "write"
  /\ \/ /\ req' = [req EXCEPT ![cid[c]] = c]
        /\ Becomes(c, "ack") /\ UNCHANGED faults
     \/ /\ Fails /\ req' = [req EXCEPT ![cid[c]] = NoOne]
        /\ Becomes(c, "unlink")
  /\ UNCHANGED <<jobno, data, daemon, printer, config, downs, history>>
UnlinkFailed(c) ==
  /\ cpc[c] = "unlink" /\ Ends(c)
  /\ data' = [data EXCEPT ![cid[c]] = NoOne]
  /\ UNCHANGED <<jobno, req, daemon, printer, config, downs, faults, history>>

Ack(c) ==
  /\ cpc[c] = "ack" /\ acked' = acked \cup {<<c, cid[c]>>} /\ Becomes(c, "add")
  /\ UNCHANGED <<spool, daemon, printer, config, downs, faults, prints, given, reused>>

\* mutant: the job is queued under the number handed out last
AddJobLast(c) ==
  /\ cpc[c] = "add" /\ Becomes(c, "signal")
  /\ Enqueue(IF nextjob = 1 THEN MaxJob ELSE nextjob - 1, c)
  /\ UNCHANGED <<spool, phase, todo, entry, stopping, nextjob, printer, config, downs, faults,
                 history>>
AddJob(c) ==
  /\ cpc[c] = "add" /\ Enqueue(cid[c], c) /\ Becomes(c, "signal")
  /\ UNCHANGED <<spool, phase, todo, entry, stopping, nextjob, printer, config, downs,
                 faults, history>>

\* mutant: the printer thread is not signalled
SignalMissing(c) ==
  /\ cpc[c] = "signal" /\ Becomes(c, "cleanup")
  /\ UNCHANGED <<spool, daemon, printer, config, downs, faults, history>>
SignalJob(c) ==
  /\ cpc[c] = "signal" /\ Signal /\ Becomes(c, "cleanup")
  /\ UNCHANGED <<spool, daemon, job, config, downs, faults, history>>

Cleanup(c) ==
  /\ cpc[c] = "cleanup" /\ Ends(c)
  /\ UNCHANGED <<spool, daemon, printer, config, downs, faults, history>>

\* a cancelled worker ends at its next cancellation point; its files stay
Cancelled(c) ==
  /\ c \in cancelled
  /\ cpc[c] \in {"header", "data", "file", "req", "write", "ack", "add"}
  /\ Ends(c)
  /\ UNCHANGED <<spool, daemon, printer, config, downs, faults, history>>

-----------------------------------------------------------------------------
(* printer_thread.                                                           *)

PickUp ==
  /\ ppc = "get"
  /\ \/ queue = <<>> /\ ppc' = "wait" /\ UNCHANGED <<queue, job>>
     \/ /\ queue # <<>>
        /\ job' = Head(queue) /\ queue' = Tail(queue) /\ ppc' = "jobno"
  /\ UNCHANGED <<spool, phase, todo, entry, stopping, nextjob, added, threads, config, downs,
                 faults, history>>

\* the file is not truncated: the digits of a longer number stay behind a shorter one
UpdateJobNo ==
  /\ ppc = "jobno" /\ ppc' = "config"
  /\ jobno' \in IF nextjob >= jobno THEN {nextjob} ELSE JobIds
  /\ UNCHANGED <<data, req, daemon, job, threads, config, downs, faults, history>>

\* mutant: the flag is cleared and the configuration not read
CheckConfOnly ==
  /\ ppc = "config" /\ ppc' = "open" /\ reread' = FALSE
  /\ UNCHANGED <<spool, daemon, job, threads, conf, used, hup, downs, faults, history>>
CheckConf ==
  /\ ppc = "config"
  /\ ppc' = IF reread THEN "init" ELSE "open"
  /\ reread' = FALSE
  /\ UNCHANGED <<spool, daemon, job, threads, conf, used, hup, downs, faults, history>>

\* init_printer; without a usable printer it exits
InitPrinter ==
  /\ ppc = "init" /\ used' = conf /\ ppc' = "open"
  /\ UNCHANGED <<spool, daemon, job, threads, conf, reread, hup, downs, faults, history>>
InitPrinterExits == ppc = "init" /\ downs < MaxDown /\ downs' = downs + 1 /\ GoDown

\* a job whose data file is gone is dropped; its control file stays
OpenData ==
  /\ ppc = "open"
  /\ \/ data[job.id] = NoOne /\ ppc' = "get" /\ job' = NoJob
     \/ data[job.id] # NoOne /\ ppc' = "send" /\ UNCHANGED job
  /\ UNCHANGED <<spool, daemon, threads, config, downs, faults, history>>

Prints ==
  LET c == data[job.id]
  IN /\ printed' = printed \cup ({c} \ {NoOne})
     /\ again' = IF c \in printed THEN again \cup {c} ELSE again

\* mutant: a deferred job goes to the end of the list
PutLast ==
  /\ queue' = Append(queue, job) /\ job' = NoJob /\ ppc' = "get"
\* replace_job and the pause of a minute
PutBack ==
  /\ queue' = <<job>> \o queue /\ job' = NoJob /\ ppc' = "get"

SendJob ==
  /\ ppc = "send" /\ Prints /\ ppc' = "unlink_data"
  /\ UNCHANGED <<spool, daemon, job, threads, config, downs, faults, acked, excused,
                 given, reused>>

\* no connection or a failed write: deferred, not printed
SendFails ==
  /\ ppc = "send" /\ PutBack
  /\ UNCHANGED <<spool, phase, todo, entry, stopping, nextjob, added, threads, config, downs,
                 faults, history>>

\* printed, but printer_status did not get a good answer: deferred
AnswerLost ==
  /\ ppc = "send" /\ Prints /\ PutBack
  /\ excused' = excused \cup {data[job.id]}
  /\ Fails
  /\ UNCHANGED <<spool, phase, todo, entry, stopping, nextjob, added, threads, config, downs,
                 acked, given, reused>>

\* mutant: only the control file of a printed job is removed
UnlinkDataMissing ==
  /\ ppc = "unlink_data" /\ ppc' = "unlink_req"
  /\ UNCHANGED <<spool, daemon, job, threads, config, downs, faults, history>>
UnlinkData ==
  /\ ppc = "unlink_data" /\ ppc' = "unlink_req"
  /\ data' = [data EXCEPT ![job.id] = NoOne]
  /\ UNCHANGED <<jobno, req, daemon, job, threads, config, downs, faults, history>>

UnlinkReq ==
  /\ ppc = "unlink_req" /\ ppc' = "get" /\ job' = NoJob
  /\ req' = [req EXCEPT ![job.id] = NoOne]
  /\ UNCHANGED <<jobno, data, daemon, threads, config, downs, faults, history>>

-----------------------------------------------------------------------------
ClientStep(c) ==
  \/ GetJobNo(c) \/ CreatData(c) \/ CopyFile(c) \/ CreatReq(c) \/ WriteReq(c) \/ UnlinkFailed(c)
  \/ Ack(c) \/ AddJob(c) \/ SignalJob(c) \/ Cleanup(c)
PrinterStep ==
  \/ PickUp \/ UpdateJobNo \/ CheckConf \/ InitPrinter \/ OpenData
  \/ SendJob \/ SendFails \/ UnlinkData \/ UnlinkReq
MainStep == Start \/ Accepting \/ ScanUnlink \/ ScanSignal \/ \E i \in JobIds : ScanEntry(i)

\* nothing is left to do: every client has been served and every job printed
Quiet == phase = "accept" /\ ppc = "wait" /\ \A c \in Clients : cpc[c] = "end"

Next ==
  \/ MainStep \/ PrinterStep \/ AnswerLost \/ InitPrinterExits
  \/ \E c \in Clients : Accept(c) \/ ClientStep(c) \/ Cancelled(c)
  \/ EditConf \/ SigHup \/ KillWorkers \/ ExitNow \/ Crash
  \/ (Quiet /\ UNCHANGED vars)

Spec == Init /\ [][Next]_vars

\* the daemon is started again, its threads run, SIGTERM ends in exit, and a printer
\* that is asked again and again takes a job at last
FairSpec ==
  /\ Spec
  /\ WF_vars(MainStep) /\ WF_vars(PrinterStep) /\ WF_vars(ExitNow)
  /\ \A c \in Clients : WF_vars(ClientStep(c))
  /\ SF_vars(SendJob)

-----------------------------------------------------------------------------
(* Properties *)

TypeOK ==
  /\ jobno \in 0 .. MaxJob /\ nextjob \in JobIds /\ todo \subseteq JobIds
  /\ data \in [JobIds -> Clients \cup {NoOne}]
  /\ req \in [JobIds -> Clients \cup {NoOne, Short}]
  /\ phase \in {"down", "scan", "unlink", "signal", "accept"} /\ entry \in {0} \cup JobIds
  /\ stopping \in BOOLEAN
  /\ queue \in Seq([id : JobIds, cl : Clients, n : Nat \ {0}]) /\ added \in Nat
  /\ ppc \in {"none", "get", "wait", "jobno", "config", "init", "open", "send",
              "unlink_data", "unlink_req"}
  /\ job \in [id : JobIds, cl : Clients, n : Nat \ {0}] \cup {NoJob}
  /\ cpc \in [Clients -> {"new", "header", "data", "file", "req", "write", "unlink", "ack",
                          "add", "signal", "cleanup", "end"}]
  /\ cid \in [Clients -> {0} \cup JobIds]
  /\ cancelled \subseteq Busy
  /\ {conf, used, hup} \subseteq 0 .. MaxConf /\ reread \in BOOLEAN
  /\ downs \in 0 .. MaxDown + 1 /\ faults \in 0 .. MaxFaults
  /\ acked \subseteq Clients \X JobIds
  /\ printed \subseteq Clients /\ again \subseteq printed
  /\ given \subseteq JobIds /\ reused \subseteq given

Spooled(c, i) == data[i] = c /\ req[i] = c

(* A client that was told its request ID has its job printed or still in the  *)
(* spool directory, through crashes and restarts at any point, unless its    *)
(* number was handed out a second time.                                      *)
AckedKept ==
  \A a \in acked : a[1] \in printed \/ Spooled(a[1], a[2]) \/ a[2] \in reused

(* What is sent for a job is the file of the client whose request it carries.*)
PrintsOwnData ==
  ppc = "send" => data[job.id] = job.cl \/ job.id \in reused

(* A job is printed twice only if the daemon could not know of the first     *)
(* time: no answer from the printer, or a crash before the files were gone.  *)
PrintedOnce == reused = {} => again \subseteq excused

(* Jobs are finished in the order in which they were queued: one that is     *)
(* deferred stays ahead of all that were queued after it.                    *)
InOrder ==
  LET line == IF job = NoJob THEN queue ELSE <<job>> \o queue
  IN \A i, j \in DOMAIN line : i < j => line[i].n < line[j].n

(* pthread_cond_signal comes after the unlock of joblock: whenever the       *)
(* printer thread waits while a job is queued, its signal is on the way from *)
(* a client thread or from main, which searches the spool directory.         *)
WakeupComing ==
  (ppc = "wait" /\ queue # <<>>) =>
    phase = "signal" \/ \E c \in Clients : cpc[c] = "signal"

(* A job is not sent with a configuration older than the last SIGHUP that    *)
(* came before the reread flag was looked at.                                *)
NoStaleConfig == ppc \in {"open", "send"} => reread \/ used >= hup

(* Every job a client was told of is printed in the end.                     *)
AckedPrinted ==
  \A c \in Clients, i \in JobIds :
    <<c, i>> \in acked ~> (c \in printed \/ i \in reused)

(* "Update the job ID file with the next job number. Doesn't handle          *)
(* wrap-around" (printd.c:234): the number handed to a new job is not that   *)
(* of a job that is still in the spool directory.                            *)
FreshJobNo ==
  [][\A c \in Clients : cid'[c] # cid[c] /\ cid'[c] # 0 =>
       req[cid'[c]] = NoOne /\ \A d \in Clients : cid[d] # cid'[c]]_vars
=============================================================================
