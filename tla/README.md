# Verification of the APUE programs

The repository holds the source of *Advanced Programming in the UNIX
Environment*, third edition (`src/apue.3e/`), and a reader's retyped copies of
its programs by chapter (`src/ch*/`).  Three of its programs are systems: the
multi-user database library (`db/`), the print spooling daemon with its command
(`printer/`) and the open server (`ipc2/opend`).  Some sixty more are small,
but do what is hard to get right: threads, signals, pipes, record locks,
asynchronous I/O, datagrams.  This directory models both kinds in TLA+, checks
them with TLC and proves theorems about the database, the print spooling
daemon, the open server and all but two of the small programs with TLAPS.  All
paths below are relative to `src/apue.3e/`, unless they begin with `src/`.

- [1. Inventory](#1-inventory)
- [2. Modules and what they correspond to](#2-modules-and-what-they-correspond-to)
- [3. Runs](#3-runs)
- [4. Fairness](#4-fairness)
- [5. Proofs](#5-proofs)
- [6. Disagreements between code and comments](#6-disagreements-between-code-and-comments)
- [7. What is not modelled](#7-what-is-not-modelled)
- [8. Plan](#8-plan)

To run: `tlc -config MCDb_ops.cfg MCDb.tla`, and so on (the table in section 3
pairs each configuration with its module); `tlapm DbChains_proofs.tla`.

## 1. Inventory

| Part | State | Operations | What is hard | What makes it correct |
|---|---|---|---|---|
| Database library `db/db.c` | index file (free list pointer, hash table, index records chained by offset), data file; per handle: `idxoff`, `ptroff`, `chainoff`, `ptrval`, `datoff`, `datlen`, the file offset | `db_open`, `db_close`, `db_fetch`, `db_store` (insert, replace, store), `db_delete`, `db_nextrec`, `db_rewind` | processes that share the files and coordinate by `fcntl` byte-range locks only: a chain each, the free list, the ends of the two files; processes killed between two writes; values read before a lock is taken or after it is dropped; pointers of limited width | chains and free list never share a record; each key once, in its chain; a call takes effect at one moment; a scan sees live records; files never move a record; no deadlock |
| Print daemon `printer/printd.c` | spool directories (job ID file, data files, control files), job list, job counter, list of workers, printer address, reread flag | client threads (one per request), printer thread, signal thread, `main` and its search of the spool at start-up | three kinds of threads and three mutexes; condition variable; cancelled threads; crash or SIGTERM between two file operations; lost answers of the printer; restart | an acknowledged job is printed, with its own data, once, in order; no lost wakeup; SIGHUP takes effect |
| Print command `printer/print.c`, `sockets/clconn2.c` | the connection, the blocks of the file still to send | configuration, `connect_retry`, the header, the file in blocks, the response | a server that is down; pieces that arrive late; a daemon that ends the copy after 20 seconds of silence | the spooled file is the file |
| Answers of the printer `printd.c:printer_status` | a buffer that grows with `readmore` | parse status line, headers, IPP status | an answer in pieces | a job counts as printed only if the printer took it |
| Open server `ipc2/opend` | `client[]` (descriptor, uid; holes are reused), `pollfd[]` (packed) or `allset`/`maxi` | accept, read a request, answer with a descriptor or an error, forget a closed connection | two tables that must agree; events reported before the scan and used during it; clients that leave at any moment; descriptors reused | each connection registered once, with its uid; the loop never blocks in `read`; an answer goes to the one who asked |
| Open client `ipc2/open` | the static `csfd` | `csopen` | server gone | one request at a time |
| Forking open server `ipc2/*.fe`, `sendfd2.c`, `recvfd2.c` | a stream each way; descriptor behind the status byte | `csopen`, `handle_request`, `send_fd`, `recv_ufd` | text, status and descriptor share a stream | each answer is for its request |
| Message queues and poll `ipc2/pollmsg.c`, `exercises/pollmsg2.c` | a helper thread per queue, its socket or its lent buffer | receive, hand over, print | a wait without a loop; a buffer used by two threads | each message printed once, in order |
| Objects `threads/mutex1.c`-`mutex3.c` | `foo` objects, counts, hash list, two kinds of locks | `foo_alloc`, `foo_hold`, `foo_find`, `foo_rele` | lock order; the lock that `foo_rele` drops | an object lives while it is referenced |
| Job queue `threads/rwlock.c` | doubly linked list under a read-write lock | `job_insert`, `job_append`, `job_remove`, `job_find` | pointers at the ends | the links spell the queue |
| Waiting `threads/condvar.c`, `barrier.c`; `threadctl/timeout.c`, `suspend.c`, `getenv1.c`-`getenv3.c` | a queue and its condition; a barrier; a detached thread and a recursive mutex; static and per-thread buffers | process, enqueue; sort and merge; `timeout`; `getenv_r` | wakeups by nobody, static storage, a retry from two sides | no thread goes on too early; a value is the caller's |
| Signals `signals/`, timers `src/ch10/p5.c` | dispositions, mask, pending signals, jump buffers, alarm; a list of timers | `sleep1`, `sleep2`, `abort`, `system`, ...; `settimeout` | signals between two statements, and inside a handler | no wakeup lost; no timer runs early, and none twice or never but at the steps of an insertion that section 7 names |
| Record locks `advio/deadlock.c`, `mandatory.c`, `exercises/pendlock.c` | locks of each process | lock, wait, end | cycles of waiting processes | one of them is refused |
| Daemons `daemons/`, `src/ch13/13_7.c` | pid file and its lock, session, descriptors, dispositions | `daemonize`, `already_running`, reread | instances started at once; SIGHUP at any moment | one instance, which SIGHUP does not end |
| Turn taking `ipc1/tellwait.c`, `devzero.c`, `proc/tellwait2.c` | two pipes, a shared counter | TELL, WAIT, update | order of parent and child | they alternate |
| Commands `ipc1/popen.c`; coprocess `pipe4.c`, `add2.c`, `add2stdio.c` | `childpid[]`, descriptors of every process; buffers of standard I/O | `popen`, `pclose`; write a line, read its answer | inherited write ends; an answer that stays in a buffer | `pclose` returns |
| Asynchronous copy `advio/rot13c2.c`, `src/ch14/14_21.c` | buffers with one operation each | read, translate, write, `aio_suspend` | completions in any order, short files | the output is the translated input |
| Memory streams `exercises/fmemopen.c` | buffer, `vsize`, `curpos` | read, write, seek, close in every mode | positions at the ends of two sizes | the buffer is what a file would be |
| Pty `pty/` | two copying processes, the terminal's modes | `loop`, options | who ends first, and SIGTERM | output in order, terminal restored |
| Uptime `sockets/` | connections, datagrams, an alarm | `serve`, `print_uptime` | lost datagrams, an early alarm, children | each client gets an answer or ends |
| Limits `standards/` | `errno` | ask for each limit | `errno` left behind by an earlier call | each limit is its own |
| Standard I/O, files, environment, terminals, other exercises | - | sequential demonstrations of library calls | - | - |

How they interact.  The database's processes meet only in the two files and
their locks.  In the print daemon the client threads, the printer thread and
the signal thread share the job list (`joblock`, `jobwait`), the worker list
(`workerlock`) and the printer's address (`configlock`), and the daemon before
and after a restart share the spool directory.  The print command and a client
thread exchange the request, the file and the response over a connection; the
printer thread asks the printer over another.  The open server and its clients
exchange requests and descriptors over UNIX domain sockets.  The small programs
stand alone; in each, the actors are its own threads, processes, signal
handlers and the kernel.  The book's own library (`lib/`: locks, logging,
`serv_accept`, `send_fd`, `tread`) is not in the repository; its routines
appear in the models as the places that call them use them.

Every hazard found while reading, with its line and the properties aimed at it,
is in `PROJECT.json` under `hazards`.

## 2. Modules and what they correspond to

| Module | Content |
|---|---|
| `Db` | `db.c` after `db_open`: one action per system call (or lock call) of each function |
| `KvStore` | what the library promises: a map on which calls take effect atomically |
| `DbKv` | the refinement mapping from `Db` to `KvStore` |
| `DbScan` | `Db` with a history of each handle's scan |
| `DbOpen` | `db_open` of several processes, with stores and closes beside it |
| `Printd` | `printd.c` as a whole |
| `Workers` | its list of client threads, node by node |
| `Opend` | the open server with either loop, and its clients |
| `PrintSubmit` | one job from the print command to a client thread of the daemon |
| `PrinterAnswer` | `printer_status` and `readmore` over an answer that comes in pieces |
| `FooObj`, `JobQueue`, `CondVar`, `BarrierSort` | `threads/` (and `threadctl/suspend.c` in `CondVar`) |
| `Timeout`, `Getenv` | `threadctl/` |
| `SignalPrograms`, `AlarmList` | `signals/`; the timers of `src/ch10/p5.c` |
| `Daemon` | `daemons/` |
| `Turns`, `Coproc`, `Popen` | `ipc1/`, `proc/` |
| `AioCopy`, `RecLocks` | `advio/`, `exercises/pendlock.c` |
| `FdPass`, `PollMsg` | `ipc2/` beside the open server |
| `PtyCopy`, `Uptime`, `Limits`, `MemStream` | `pty/`, `sockets/`, `standards/`, `exercises/fmemopen.c` |
| `ProgramVars`, `ThreadParts`, `ProcessParts`, `Programs` | all small programs over one set of variables, and what their users rely on |
| `MCPrograms` | the instances of `Programs` for TLC, one run for all |
| `MCDb`, `MCDbScan`, `MCPrinterAnswer` | constants for TLC: workloads, preloaded files, answers |
| `DbChains_proofs`, `DbKv_proofs`, `DbOpen_proofs`, `Printd_proofs`, `Opend_proofs` | theorems about the three systems |
| `ThreadParts_proofs`, `ProcessParts_proofs`, `Programs_proofs` | theorems about the small programs |

`Db` and `DbOpen` are separate state machines over different abstractions of
the index file: `Db` keeps records and pointers and starts with a formatted
file; `DbOpen` keeps only what matters to formatting (is the file empty, is the
hash table first).  `DbKv` and `DbScan` extend `Db`.  `Workers` refines one
detail of `Printd`: because of what `Workers` finds about the list (section 6),
`Printd!KillWorkers` may cancel any subset of the threads.

**Db.**  The index file is three functions: `ptr` (the pointer field at each
slot; slot 0 is the free list pointer, slots `1..NHash` the hash table, the
others index records), `rec` (key, key length, data offset and data length of
each record) and the data file `dat`.  Offsets are counted in slots in file
order, so "offset 0 is the null pointer" keeps its meaning.  `db[p]` is the
process's DB handle, `loc[p]` the locals of `db_store`, `_db_dodelete` and
`_db_findfree`, `req[p]` the call under way, `pc[p]` its next system call.

| Code | Actions |
|---|---|
| entry of a call, `db_rewind` | `Call` |
| `_db_find_and_lock` and what its callers decide | `FindLock`, `FindHead`, `FindWalk`, with `Found`, `NotFound` |
| `db_fetch` | `FetchDat` |
| `_db_dodelete` | `DelLock`, `DelDat`, `DelFree`, `DelIdx`, `DelHead`, `DelUnlink`, `DelUnlock` |
| `db_store`, the chain pointer read (again) | `ReadChain` |
| `_db_findfree` | `FreeLock`, `FreeHead`, `FreeWalk`, `FreeTake`, `FreeUnlock` |
| `_db_writedat`, `_db_writeidx` at the end of a file | `AppendLock`, `AppendSeek`, `AppendWrite`, `AppendUnlock` |
| the same at a given place | `OverwriteDat`, `ReuseIdx` |
| `_db_writeptr` of the chain, with the PTR_MAX check | `Publish` |
| `db_nextrec` | `ScanLock`, `ScanIdx`, `ScanDat`, `ScanUnlock` |
| unlock and return | `UnlockChain`, `ScanUnlock` with `Return` |
| a signal that kills the process; `err_quit`, `err_dump` | `Kill`; `Exit` in `Publish` and `ScanIdx` |

A key's text, the ASCII formatting of a record and the statistics counters are
left out; a record's key length and data length are kept because reuse of a
deleted record depends on them.  `Call` resets what the next call sets before
it reads it (`NewHandle`), so that only the file offset carries over from one
call to the next, as in the code.

**KvStore / DbKv.**  `KvStore` has a map `kv` and, for each process, its call:
invoked, applied at one moment, answered.  A process that dies inside a call
may leave the call's own key with any value; only one that dies inside a
deletion may break the store.  `DbKv` reads `kv` off the chains.  A deletion,
and a replacement by a value of another length (delete and append), take effect
when `_db_dodelete` blanks the old data: the chain's write lock hides every
intermediate state from other calls.

**DbOpen.**  Actions follow `db_open`: `Open` (open(2), which creates or
truncates at once; `O_TRUNC` without `O_CREAT` empties the file and does no
more), `StatLock`, `Stat`, `InitHash`, `StatUnlock`; a user's store
is reduced to `UseLock`, `UseHead`, `UseAppend`, `UsePublish`, `UseUnlock`, and
`Close` is `db_close`.

**Printd.**  `main` and `build_qonstart`: `Start`, `ScanEntry` with
`ScanUnlink` and `ScanSignal`, `Accepting`; `client_thread`: `Accept`,
`GetJobNo`, `CreatData`, `CopyFile`, `CreatReq`, `WriteReq` with
`UnlinkFailed`, `Ack`, `AddJob`, `SignalJob`, `Cleanup`, and `Cancelled` for
`pthread_cancel`; `printer_thread`: `PickUp`, `UpdateJobNo`, `CheckConf`,
`InitPrinter`, `OpenData`, `SendJob` / `SendFails` / `AnswerLost`,
`UnlinkData`, `UnlinkReq`; `signal_thread`: `SigHup`, `KillWorkers`, `ExitNow`.
`Crash` is a kill at any moment.  A section under a mutex is one step; each
file operation is a step of its own.  `UpdateJobNo` models the file as the code
writes it: without truncation, so a shorter number leaves digits of a longer
one behind.

**Workers.**  `add_worker`, `client_cleanup` and `kill_workers` over nodes with
`next` and `prev`; a walk that comes to a freed node may find anything.

**Opend.**  `client[]` and `pollfd[]` are functions on `0..n-1`; `conn` is the
kernel's table of connected descriptors.  A server step is one system call with
what follows it; an entry of the scan that is not ready is passed over on the
way.  `loop` chooses `loop.select.c` or `loop.poll.c`.  The kernel is modelled
as these programs meet it on a UNIX domain stream socket: `poll` reports
`POLLHUP` once the peer has closed, `read` may fail with `ECONNRESET` if the
peer left an answer unread, a write to a closed connection raises `SIGPIPE`,
which the server does not catch.

**PrintSubmit.**  The client: `Open` (the configuration and `fopen`), `Retry`
(`connect_retry` over the addresses with its doubled sleeps), `SendHeader`,
`SendBlock`, `Response`; the daemon: `ReadHeader`, `Copy`, `Reply` of
`client_thread` with `treadn` of `util.c`.  It refines what `Printd!CopyFile`
does in one step: a client that stalls for 20 seconds looks like the end of the
file. Every write may fail after a part of it was sent, of the header too.  A
read of the file that fails does not end the client: `nr` and the result of
`writen(sockfd, buf, nr)` are both -1, the test `nw != nr` does not see it
(print.c:123-131), and the loop reads again; `readerr` is that loop.

**PrinterAnswer.**  The answer is a sequence of tokens, each for bytes the
parser treats alike; each read takes any piece of what is left, `ReadMore`
grows the buffer, and the actions from `Status` to `Ipp` are the parser's
stages. What `Printd!SendJob` and `AnswerLost` take as one result is decided
here byte by byte.

**FooObj, JobQueue.**  Objects and jobs are model values; what happens under
one lock is a step, and a lock that is given up and another taken are several.
`FooObj` is three programs; `foo_rele` of `mutex2.c` has the steps `Rele2`,
`LockList`, `Recheck`, `Destroy`.  `JobQueue` writes the pointers as the code
does and keeps the queue they stand for beside them.

**CondVar, BarrierSort, Timeout, Getenv.**  A wait for a condition is two steps
with a wakeup between them, which may also come from nobody.  What `heapsort`
leaves of a thread's range is any rearrangement of it that is in order
(`InOrder`): equal numbers look alike.  The merge of `barrier.c` takes one
number a step, with `LongMax` as its mark of an empty range, as in the code.
`Timeout` keeps the arithmetic of seconds and nanoseconds with a small
`SECTONSEC`, the recursive mutex with its depth, and the thread that could not
be started.

**SignalPrograms, RecLocks.**  Twelve and three programs are sequences of the
calls that matter (`Code`), with one action per kind of call, as the kernel
does it; a signal may be delivered between any two steps, a handler is a
program of its own on the stack, `longjmp` cuts the stack.  `sigtstp` begins
with either disposition of SIGTSTP that it can inherit and sets SIG_IGN before
its handler.

**AlarmList.**  `push_to_timer_list` is a step per line that reads or writes
what `alarm_proc` does: `Time`, `Cur`, `Test`, `SetNext` and `SetHead` in
front, `Walk` and `Link` further on, `Alarm`, `Return`; `alarm_proc` may come
between any two.  If it comes between `node->next = head` and `head = node`
(p5.c:33-34), a timer that was called and freed is in the list again:
`relinked`.  If it frees the timer behind which the new one is linked, that one
is not in the list: `missed`.  A null `head` is a `"crashed"` program, the
contents of freed memory in use a `"wild"` one, and neither is followed
further.

**Daemon.**  `daemonize` (`Fork1`, `Fork2`, `OpenNull`), `already_running`
(`LockFile`, `Truncate`, `WritePid`), and the threads or handlers of the three
programs, for several instances, any of which
is killed at any time and started by nobody again.

**PtyCopy.**  A read of the master ends the loop at the program's end or with
an error (`readerr`), and a process that cannot register `tty_atexit`
(pty/main.c:91) ends with the terminal raw (`noAtexit`).

**Turns, Coproc, Popen, AioCopy, FdPass, PollMsg, Uptime, Limits, MemStream.**
One action per call or per loop pass that touches shared state; pipes and
sockets are sequences, descriptor tables are functions.  The comment at the
head of each module says what a value stands for.

**Composition.**  `ProgramVars` declares the constants, with their assumptions,
and the variables of all the small programs.  `ThreadParts` instantiates the
modules of threads and of signal handlers, `ProcessParts` those of processes,
their files, pipes, sockets and timers, and `Programs` the rest; it has `Init`,
`Next` and the properties.  (They are files of their own because a proof then
carries only the instances it is about.)  An initial state chooses the module
(`Chosen` is the set to choose from), so one run checks all of them, and each
property of `Programs` says of the running module what its own properties say.
A step is a step of the chosen module: programs of different modules do not
interact, which they do not do in the book either.

## 3. Runs

| Run | Module / configuration | Expected | Properties |
|---|---|---|---|
| `db_ops` | `MCDb` / `MCDb_ops.cfg` | holds | `TypeOK`, `ChainsDisjoint`, `KeysPlaced`, `GeometryFixed`, `Linearizable`, `CallsReturn` |
| `db_crash` | `MCDb` / `MCDb_crash.cfg` | holds | `ChainsDisjoint`, `KeysPlaced`, `Linearizable` |
| `db_scan` | `MCDbScan` / `MCDbScan.cfg` | holds | `ScanComplete`, `ScanReadsLive`, `ScanOnce` |
| `db_open` | `DbOpen` / `DbOpen.cfg` | holds | `TypeOK`, `HeaderFirst`, `CreatorsReady`, `InitKeepsRecords` |
| `printd` | `Printd` / `Printd.cfg` | holds | `TypeOK`, `AckedKept`, `PrintsOwnData`, `PrintedOnce`, `InOrder`, `WakeupComing`, `NoStaleConfig` |
| `printd_live` | `Printd` / `Printd_live.cfg` | holds | `AckedPrinted` |
| `printd_restart` | `Printd` / `Printd_restart.cfg` | violated | `FreshJobNo` |
| `workers` | `Workers` / `Workers.cfg` | violated | `KillsAll` |
| `opend` | `Opend` / `Opend.cfg` | holds | `TypeOK`, `Registered`, `ReadNeverBlocks`, `AnswersAsked`, `Answered` |
| `opend_uid` | `Opend` / `Opend_uid.cfg` | violated | `RequestUid` |
| `programs` | `MCPrograms` / `MCPrograms.cfg` | holds | `ObjectsCounted`, `QueueLinked`, `ThreadsWait`, `SignalsSeen`, `OneGoesOn`, `PipesHandOver`, `CopiesAgree`, `AnswersFit`, `PrintedAsAsked`, `EachEnds` |
| `printer_answer` | `MCPrinterAnswer` / `PrinterAnswer.cfg` | violated | `AnswerEnds` |

**db_ops.**  Two processes make two calls each, chosen from deletions,
replacements by a longer value, stores, inserts and fetches, on three keys in
two chains, starting from an empty database or from one with all three keys.
That is the smallest instance with the interesting cases: two keys in one chain
(a predecessor is a record, not the table), a second chain (chain locks do not
exclude each other, so both processes are at the free list), two lengths (a
replacement that deletes and appends, and one that overwrites; a deleted record
that fits and one that does not), and two calls each, so that a record deleted
by one process is reused by the other or by itself.  `ChainsDisjoint` says that
no pointer ever leads into a record that is reached from elsewhere or still in
the hands of a store; `KeysPlaced` that each chain holds its own keys, once;
`GeometryFixed` that no record moves or changes size, which the two-part read
of `_db_readidx` relies on; `Linearizable` that `Db` implements `KvStore`;
`CallsReturn` that no call waits for ever.  A record is considered cut out of
its chain from the write of its blanked index record on; the free list and the
chain are both being changed between that write and the unlinking.

**db_crash.**  The same, with scans on a handle that makes other calls too, and
one process killed at any system call; `PtrMax = 6` lets one record be appended
behind the three preloaded ones (slots 3 to 5); a second one exceeds PTR_MAX.
The locks vanish and nothing is undone.  The invariants are excused (`torn`)
only for a kill between the writes of db.c:509 and db.c:522, where the chain
leads into the free list; at all other points structure and foreign keys
survive.

**db_scan.**  One process scans (five calls of `db_nextrec` or `db_rewind`,
enough to reach the end of three records, rewind and continue), the other makes
three changes, including a replacement that moves a record in the file.
`ScanReadsLive` takes the comment at db.c:843 at its word.  `ScanComplete` and
`ScanOnce` say what a scan guarantees beside writers: every key that stays in
place is returned, and none twice unless it was stored or moved.

**db_open.**  Three processes open once each with any flags (165,000 states);
four cells let two stores follow an initialization.  Two processes race to
create the database while a third uses it, or opens it with `O_TRUNC` alone.
That one empties the file and nobody initializes it (db.c:126, 134), so
`CreatorsReady` speaks of the time before (`bare`); `HeaderFirst` and
`InitKeepsRecords` hold with it, too.  `hit` is an `O_TRUNC` under a running
store, which no lock prevents.

**printd.**  Two clients, job numbers up to 2 (so the counter wraps), two
crashes or terminations (a restart of a restart), one failed operation of a
client thread or lost answer (3.3 million states, two minutes).  The
configuration is edited twice, so that a second SIGHUP may come between the
test of `reread` and the end of `init_printer`. `AckedKept` is the promise
behind the answer to the client: through crashes at any point the job is
printed or in the spool.  It is excused when the job's number was handed out
again (section 6). `InOrder` is the order in which jobs were put in the list,
which is not that of their numbers: two client threads may take their numbers
and queue their jobs in different orders.

**printd_live.**  One crash and one failure, three job numbers.

**opend.**  Three clients and two descriptors: the third connection finds no
descriptor or reuses one of a client that left.  `NAlloc = 1` makes the client
array grow at each new entry.  Both loops are initial states of one run
(237,000 states).  `Registered` includes that the entry of a connection has its
uid, which `loop.select.c` gives to `handle_request`.

**programs.**  One run for the small programs (208,000 states, one to two
minutes).
The instances are two or three threads, processes or buffers and two or three
objects, jobs, messages or bytes, which is where the cases lie:

- *Threads.*  `FooObj`: three threads, two objects, two calls each, so that one
  thread finds an object while another releases the last reference and a third
  gives one away.  `JobQueue`: three jobs and four calls, so jobs leave from the
  head, the tail and between, and one is queued again with its stale pointers.
  `CondVar`: two producers, two workers, one wakeup by nobody.  `BarrierSort`:
  two ranges of two numbers, of all values.  `Timeout`: each position of the two
  times within a second, and the failures of `malloc` and `pthread_create`.
  `Getenv`: two threads, three names, one of them unknown and one too long.
- *Signals.*  Two signals at any point of each program; three timers with delays
  0 to 2 (`AlarmList`), enough for a timer of two seconds whose alarm comes
  while one of one second is put in front of it.
- *Processes.*  `Daemon`: two instances, two signals or kills.  `Turns`: four
  turns.  `Coproc`: three lines.  `Popen`: two calls in each mode, the standard
  descriptors open or not, few enough of them that `pipe` fails.  `PtyCopy`: one
  chunk of input and two of output with every option.  `RecLocks`: the processes
  the programs have.  `FdPass`: two requests, for a file, for none, and one that
  is too long. `PollMsg`: two queues with two messages.  `Uptime`: two clients.
- *Data.*  `AioCopy`: three blocks and two buffers, short files.  `MemStream`:
  three calls in nine modes on a buffer of two bytes.  `Limits`: two symbols by
  `sysconf` and one by `pathconf`.  `PrintSubmit`: an address that is down and
  one that is up, three blocks.  `PrinterAnswer`: an accepting, a foreign and a
  failed answer, cut into pieces everywhere.

The properties say what a user of the programs relies on; the modules state
them with their exceptions (a `getenv1` that shares its buffer, a `sleep1` that
may sleep for ever, `pollmsg2` under a wakeup by nobody, a timer of `p5.c`
whose insertion meets the handler), because these programs are in the book to
show the exception, or have it.  `CopiesAgree` asks for the whole input of
`rot13c2` only: 14_21.c does not look at what a failed or short write left out
(`src/ch14/14_21.c:138-143`), and what is left to say of it is that no buffer
is used for two blocks.  `EachEnds` says that each program comes to its end or
to the one wait that its module names in `Done`; for the print command `Done`
names the loop on a file that can no longer be read, too, because that loop
does not end.

Mutants beyond those that `PROJECT.json` lists stand in the modules too: each
module has at least one, and for each TLC finds a property of `programs`
violated.

**Violations.**  `printd_restart`, `workers`, `opend_uid` and `printer_answer`
each check one statement that a comment or a log line makes; section 6 says
what TLC finds.  Two more statements of that kind are stated in the modules and
not among the runs; TLC finds them violated with `DbOpen.cfg` and
`CreatedIsInitialized` as its invariant, and with `MCDbScan.cfg`, `Workload <-
MixedWork`, `MaxOps <- MixedOps` and the invariant `NextIsSequential`.

Every property of a passing run has a mutant in `PROJECT.json`: a plausible bug
in a definition, written as an operator before it (its comment starts with
"mutant:"), for which TLC finds the property violated under the same
configuration.

## 4. Fairness

- `Db!FairSpec`: weak fairness of each process's steps.  A process that was not
  killed goes on, and a wait in `fcntl` ends once the lock stays free.  Nothing
  is assumed about new calls.  The lock order (chain, then free list, then an
  append lock) makes weak fairness enough in the bounded workload; with endless
  calls of other processes `fcntl` waiters could starve, since POSIX promises no
  order.
- `Printd!FairSpec`: the daemon is started again (`MainStep`), its threads run,
  SIGTERM ends in `exit`, and `SF(SendJob)`: a printer that is asked again and
  again takes a job at last.  Without the last one a printer that is always off
  line leaves a job in the list, as it should.  Crashes and failures are finite
  (`MaxDown`, `MaxFaults`).
- `Opend!FairSpec`: weak fairness of the server only.  Clients owe nothing: they
  may leave at any time or never ask.  The number of requests is finite, so
  scans end.
- `Programs!Spec`: weak fairness of `Next` as a whole: a program in which
  something can go on does not stop.  That is the weakest form; it is enough
  because every module bounds its calls, signals and messages, so that no actor
  can go on for ever while another waits.  Signals, lost datagrams and wakeups
  by nobody are in `Next` too, and being bounded they owe nothing either.
- `PrinterAnswer!FairSpec`: weak fairness of the parser; the whole answer has
  been sent, and `tread` comes back with what is there or with its timeout.

## 5. Proofs

`tlapm` checks every step with SMT and Zenon, and the temporal steps with PTL.
Nothing is assumed but the named assumptions on the constants, each next to the
constants it speaks of:

- `Db`: `ConstantsAssumption`, `WorkloadAssumption`, `PreloadsAssumption`: there
  is a hash chain; hash, key length and data length are total functions; a blank
  is no key or value; the workload consists of requests; a preload stores each
  key once.  `DbKv`: `NoneAssumption`, "no value" is not a value.  `DbOpen`:
  `OpenAssumption`.
- `Printd`: `PrintdAssumption`, `Opend`: `OpendAssumption`: the bounds are
  numbers, `NoOne` and `NoClient` are no clients, there are job numbers and
  descriptors, and `NALLOC` is not 0.
- `ProgramVars`: sizes are numbers, where the code has an array at least one;
  the marks `Nil`, `Nobody` and `Null` are no objects, threads or times; there
  are finitely many threads in `FooObj`; the roles of `CondVar` are different
  threads; random numbers are below the mark of an empty range
  (`BarrierAssumption`); the number of turns is even, as in the code
  (`TurnsAssumption`); a table of descriptors has room behind the standard ones
  (`PopenAssumption`); a request is longer than its frame and a buffer than its
  nul byte (`FdPassAssumption`).

No bound is used: the theorems hold for any number of processes, keys, calls
and crashes.  Each module of proofs is checked by itself in less than half an
hour.

**DbChains_proofs: files and types.**

- `TypeCorrect`: `Spec => []TypeOK`.  The part that is worth proving is
  `FilesTyped`: every pointer field in the index file, at any moment, in any
  interleaving with kills, is 0 or the offset of an index record that exists.
- `FilesOnlyGrow`: `Spec => GeometryFixed`.
- `AppendsAlone`: between the seek to the end of a file and the write there, no
  other process is at the same place.

`TypeOK` is not inductive: that a pointer written is a pointer depends on where
the process got it, perhaps several calls and steps ago.  The inductive
invariant `IInv` adds

- `Paired`: each index record describes a data record with its length;
- `Holds`: from its seek to its unlock, an appending process is the one holder
  of the append lock, so `Len(dat)` and `IdxEnd` cannot change under it;
- `Fit`, for each process at its label: values taken from pointer fields are
  still pointers (`Pointers`), the request is one that reaches this label
  (`Request`), the handle describes the index record it was read from, and one
  taken off the free list has the lengths of the request (`Handle`), an append
  goes to the present end (`Appending`).

`Handle` speaks of records that another process may be changing, which is what
makes `GeometryFixed` part of the same induction: the handle stays right
because lengths and data offsets never change.  `NextOK` shows `IInv /\
[Next]_vars => IInv' /\ Grows` with one lemma per action, each built from
lemmas about the file primitives (`WritePtrOK`, `WriteIdxOK`, `WriteDatOK`),
the locks (`WriteLockOK`, `UnlockOK`, ...) and processes that do not move
(`OthersFit`).  The initial states need that the preloaded chains are well
formed (`LastBeforeOK`, `LoadedOK`), which uses the existence of the largest
element of a bounded set of numbers, from the library's theorem on well-founded
relations.

**DbChains_proofs: lists.**  What a formatted index file has to stay, as
theorems of `Spec`:

- `ListsDisjoint`: `Spec => []ChainsDisjoint`;
- `KeysInPlace`: `Spec => []KeysPlaced`;
- `WritersAlone`: two calls between lock and unlock of one chain are two
  fetches, and one process at a time changes the free list.

`ChainsDisjoint` speaks of the records that a walk reaches, computed by a
recursive function, which no step of the proof can follow by induction on its
argument.  The proof therefore has its own notion of a list: `On(f, h)` is the
least set of records that holds what `f` has after `h` and after each of its
members.  What is true of a list is then shown by giving a set that is closed
(`OnLeast`). `Sound` (no two pointers on lists lead to one record) makes the
lists disjoint (`ListsApart`) and is kept by the two ways a list changes: a
record goes to the front (`Push`) or a pointer is led past one (`Remove`).
`ReachIsOn` brings the result back to `Reach`, which collects exactly what is
on the list: of the sets from which it would not, all of them finite, one has
no larger, and its first step adds to it.

None of it is inductive without what a process knows of a list when it writes
to it, which it may have read many steps before.  The invariant `LInv` is
`IInv` with

- `Guarded`: by its label, a process holds the lock of its chain or of the free
  list, and write locks are exclusive;
- `DatOnce`: a data record belongs to one index record, or to the one store that
  has appended it;
- `Knows`: a walk has passed only records with other keys (`Walked`); the record
  found, its predecessor and its successor are still where they were read
  (`Located`); a record leaving its chain is blank and leads to the free list
  while its predecessor still points to it (`Leaving`); there is no record with
  the key, and the head saved before `_db_findfree` is still the head
  (`Inserting`); the walk in the free list (`Searching`);
- `Apart`: a record in hand - taken off the free list and not yet in a chain,
  appended and not yet published, blanked and not yet free - is on no list and in
  nobody else's hand.

Between `del_idx` and `del_unlink` (`db.c:509-522`) the chain really leads into
the free list: `NextOf` reads the pointer that is being cut as the one that
will be written, and `Lists` is claimed only while nobody was killed there
(`torn`), as the properties themselves are.  That clause is the hypothesis the
code needs, as the run `db_crash` shows.  A step changes at most one pointer of
a live list; `ListsStep` carries what the other processes know over such a
step, because a process knows something only of lists whose lock it has.
`Exclusive` and `HasLocks` do not need the lists and hold for torn stores too.

**DbKv_proofs: the map.**  `Implements`: `Spec => Linearizable`, that is, `Db`
implements `KvStore` under the refinement mapping of `DbKv`.  Every fetch,
delete and store takes effect at one step between its call and its return, and
the answer it returns is the one the map gives at that step; a process that
dies in a call spoils at most its own key.

The steps at which a call takes effect are few: the read that finds the end of
the chain or a record that an insert may not replace (`LookingApplies`), the
read of the data (`FetchApplies`), the blanking of the data (`DeleteApplies`),
the overwriting in place (`OverwriteApplies`) and the write of the chain's head
(`PublishApplies`).  Calls, returns and deaths are steps of their own
(`CallInvokes`, `UnlockResponds`, `DeathDies`), and for every other step the
proof shows that the map and the calls stay as they are.  `TurnSimulates` puts
these together, one case per action.

The map is read off the files, so its proof needs what the lists contain and
not only that they are apart: `StoredOK` says that the value of a key is the
data of the record with that key on its chain, and none without such a record.
It follows from the parts of `LInv` behind `KeysPlaced` and from `ReachIsOn`;
with what a process knows of its chain (`Knows`) it gives `ValuesFit`, the
value that a process at each label has found or missed.  `SoleWriter` says that
of two calls between lock and unlock with one key, both are fetches.  That is
why nobody sees the gap between a deletion and the insertion that replaces it,
although the map already shows the new value there.  The invariant `KInv` is
`LInv` with

- `Fitting`: what a label says of its call and its answer: which operations can
  be there, that no answer is given before the unlock, that a store is past a
  deletion only if it replaces;
- `AllFilled`: the data of a store is in the data record it has appended or taken
  over, before and after its index record points to it.  It holds while nobody
  was killed inside a deletion (`torn`), like `Lists`.

What happens after such a death is not promised by `KvStore` (`broken`); the
proof then only shows that a torn store stays torn.

**DbKv_proofs: scans.**  `db_nextrec` takes no chain lock, so what it may rely
on is what a writer does under the lock of the free list.

- `ScansReadLive`: `Spec => [](Alive => ScanReadsLive)`.  Its invariant `RInv` is
  `KInv` with: a scan has the free list's lock (`ScanHolds`), the record it
  stopped at keeps its key until its data is read (`Reading`), and, while
  everybody lives, a record with a key is on the chain of that key or in the hand
  of a store (`Whole`) and has data unless a deletion is under way (`DataThere`).
  `Alive` (no process has died) is needed: a store that dies between the write of
  its index record and the publishing of it leaves a record that is on no chain
  and that a scan returns.  The run `db_scan` has no kills for that reason.
- `ScansComplete`: `ScanSpec => []ScanComplete`, with kills.  Its invariant
  `CInv` says where in the file the scan is: every key that has not moved and
  whose record lies behind it was returned (`PastSeen`, `AtRecord`, `AtEnd`).
- `ScansOnce`: `ScanSpec /\ []Alive => ScanOnce`.  `OInv` adds the converse, a
  key that was returned and has not moved has its record behind the scan
  (`SeenPast`).

**DbOpen_proofs.**  `HeaderComesFirst` and `CreatedIsReady` (the invariants
`HeaderFirst`, `CreatorsReady`), `InitIsSafe` (the action property
`InitKeepsRecords`) and `TypeCorrect`.  The inductive invariant says who may
hold the lock on the whole file and at which label (`Owners`), and what a
process knows about the file at its label (`Known`): in `init` the file is
still empty because every writer of records needs a lock the whole-file lock
excludes; after the first read of a user the file has its header or was
truncated under it.  `CreatedIsReady` has the exceptions of its property: an
`O_TRUNC` under a running store (`hit`) and one without `O_CREAT` (`bare`).

**Printd_proofs.**  For any clients, number of jobs, faults, edits and
restarts, the six invariants of the run `printd`:

- `AcknowledgedKept`: a job that was acknowledged was printed, or its data and
  control files are in the spool directory;
- `OwnDataPrinted`, `PrintedTwiceExcused`, `FinishedInOrder`: what is printed for
  a job is its client's file, a second time only when the printer's answer was
  lost or the daemon was killed after printing, and jobs end in the order in
  which they were queued;
- `NoLostWakeup`: a printer thread that waits while there are jobs has a signal
  coming;
- `ConfigurationFresh`: no job is sent with a configuration older than the last
  SIGHUP that came before the printer thread looked at its flag;

and `TypeCorrect`.  Where a property excludes the jobs whose number was handed
out a second time (finding 2), so does the theorem.  The job number is what
ties the daemon's state together, and it appears in the thread, the two file
names, the queue, the printer thread and the acknowledgement.  `Claims` says
that every one of these places leads to the same client, and to one number per
client, unless the number was reused.  Around it: `Lined` (a job is in the
queue only when its thread is done with the files), `Stages` (which file is
complete at which label of a client thread), `Done` (what the printer thread
has done before it unlinks), `Once` (while no number was reused, a file of a
printed job is there again only for the reasons `excused` records), `Ordered`
(sequence numbers in the queue and the hand), `Config` and `Phases`.  A restart
keeps only what is on disk: `Claims` survives because a restart drops claims
and makes none.

**Opend_proofs.**  For any clients, descriptors, `NALLOC`, number of requests
and either loop: `RegisteredHolds` (each connection has one entry in `client[]`
and is watched once), `NeverBlocks` (the scan reads only where there is
something to read), `AnswersWereAsked` and `TypeCorrect`.  `Registered` counts
entries; the invariant has bijections instead (`Entries`, `SelectWatches`,
`PollWatches`), which a step changes in one place.  What a reviewer of the
loops asks is in `Unscanned`: events reported by `select` or `poll` and not yet
come to are still true of the descriptor they were reported for, although the
same pass closes other descriptors, accepts a new client on a number that was
just freed, and, in `loop.poll.c`, moves the last entry of `pollfd[]` into the
place that was freed. That the uid of an entry is its client's is part of
`RegisteredHolds`; that `loop.poll.c` then takes the uid of another entry is
finding 3.

**ThreadParts_proofs, ProcessParts_proofs, Programs_proofs.**  Eight of the
properties of the run `programs` for any values of the constants: `GoingOn`
(`OneGoesOn`), `HandedOver` (`PipesHandOver`), `CopiesRight` (`CopiesAgree`),
`AnswersRight` (`AnswersFit`), `CountedRight` (`ObjectsCounted`), `QueueHolds`
(`QueueLinked`), `WaitedFor` (`ThreadsWait`) and `SignalsRight`
(`SignalsSeen`). For each module `X` the first two files prove that its
inductive invariant holds at first (`XInit`), that its steps keep it (`XStep`),
and what it implies (`XHold`); the last one puts them together: the running
module takes all the steps.  None of the properties is inductive.  What had to
be found for each:

| Module | Invariant | Why the property holds |
|---|---|---|
| `Daemon` | `DaemonInv` | an instance past `LockFile` that has not ended holds the lock (`HoldsLock`), the file has its pid from `WritePid` on, and at each label `daemonize` has left the session and the descriptors behind (`Daemonized`) |
| `RecLocks` | `RecLocksInv` | by the steps of both, who has which byte; the second of a cycle meets the first one waiting (`Crossed`) |
| `Turns` | `TurnsInv` | one byte is in the two pipes or one process has its turn, and the counter is what that one expects (`Rounds`); the child's output follows the parent's (`Output`) |
| `Coproc` | `CoprocInv` | the line that was sent is in one place only: a pipe, the coprocess or its buffer (`OnItsWay`) |
| `Popen` | `PopenInv` | which process has which end of which pipe, from what `childpid[]` remembered when it was forked (`WriteEnds`, `Remembered`, `Waited`) |
| `AioCopy` | `AioInv` | each block up to `off` is translated or in one buffer (`BlocksApart`), whose stage says what the block holds (`BufferFits`) |
| `MemStream` | `MemInv` | `curpos` \<= `vsize` \<= the buffer, and the buffer agrees with the file byte by byte, or up to `kept` if it is only written |
| `PtyCopy` | `PtyInv` | what was printed, what is in the buffer and what is in the pty make up what was sent; whoever is to end while the terminal is raw runs `tty_atexit` on the way, but for a parent that could not register it |
| `FdPass` | `FdPassInv` | unless a request was lost, the streams hold the answer to the request under way, in the part that is still to come (`InFlight`), and nothing between requests (`Between`) |
| `PollMsg` | `PollInv` | a message is in the queue, the socket or printed, in order (`DeliveredAt`), and a helper that lends its buffer does not write it |
| `Uptime` | `UptimeInv` | a client has at most one datagram under way, its request or its answer, or the server has it |
| `Limits` | `LimitsInv` | what was printed fits what the call said (`Fits`) |
| `FooObj` | `FooObjInv` | a thread between its walk and its increment has `hashlock` (`HashHeld`); an object being linked or destroyed has one pointer (`Pointing`): a wrong `foo_rele` breaks this first; the count and the list in terms of threads (`CountIsHolders`, `Listed`) |
| `JobQueue` | `QueueInv` | the four kinds of pointers spell the sequence (`Spelled`), which each set of writes of `job_remove` keeps; a walk stays in it under the read lock |
| `CondVar` | `CondVarInv` | `LockInv`: what a thread found when it left its loop is so until it gives the lock back; `MsgsInv`: a message is queued, with one worker, or processed |
| `BarrierSort` | `BarrierInv` | `RangesInv`: behind the barrier every range is in order; `MergeInv`: what was merged is a rearrangement of what was taken, in order, and below what is left |
| `Timeout` | `TimeoutInv` | who has the recursive mutex at which depth, and that the helper's sleep ends no sooner than asked for |
| `Getenv` | `GetenvInv` | with a lock or a buffer per thread, the value in the buffer is the one its owner copied (`OwnValue`) |
| `SignalPrograms` | `SignalInv` | one invariant for each of `sleep2`, `read2`, `sigtstp`, `suspend2`, `abort`, `system`, over the whole stack of handlers: `Base` is where the main program is, or will be when the handlers have returned, and e.g. from there to the wait the alarm or its jump is still to come |
| `AlarmList` | `AlarmInv` | the list is ordered by time and has each timer once (`InOrderOnce`); what the insertion has read would keep it so, at each of its lines (`FrontPlace`, `WalkPlace`); the head's proc is not called before its time, because an alarm goes off no sooner than the first timer is due (`CalledInTime`, `AlarmIsSet`); a freed timer is in the list only after an insertion that met the handler (`FreedTimers`) |

Sums over threads use the library's facts on finite sets, lists its facts on
sequences; a rearrangement is given by a bijection.  `JobQueue!RemoveJob` and
`BarrierSort!thr_fn` are written for these proofs without the operators that
the community modules define by recursion (`RemoveAt` of a position for
`Remove`, a rearrangement in order for `SortSeq`).  The attempt to prove
`MemInv` showed that an earlier `kept` of `MemStream` claimed too much after a
seek beyond the data; TLC had not met the case with three calls.

**Checked by TLC only:**

- `KillsAll` of `Workers` (violated), and its list, which a
  RECURSIVE operator walks: the prover does not take them.
- `PrintedAsAsked`: `PrinterAnswer` keeps it only for the answers and the buffer
  that its configuration gives, since the parser has the flaw of finding 4, and
  `PrintSubmit` is checked with it.
- `ScanOnce` and `ScanReadsLive` once a process was killed: they promise nothing
  then (see above).
- All liveness properties (`CallsReturn`, `AckedPrinted`, `Answered`, `EachEnds`)
  and `AnswerEnds`: liveness under fairness and `ENABLED` are beyond the prover.
  So is induction over data in general; `Reach` (above) is the one recursive
  function of these modules whose result is proved.

## 6. Disagreements between code and comments

1. **`add_worker` loses threads** (`printer/printd.c:543`, run `workers`).  If
   the list is not empty the new node is linked in front of the head but
   `workers` is not moved to it, so walks from `workers` never reach it.
   `kill_workers` ("Cancel (kill) all outstanding workers.", line 552) does not
   cancel it, `client_cleanup` does not close its socket, and when the first
   worker ends the head may be a freed node.
2. **Job numbers are reused after a restart** (`printer/printd.c:696`, run
   `printd_restart`).  The job ID file is written when the printer thread picks
   a job up, not when a number is handed out; the spooled files of an older job
   are then truncated by `creat`.
3. **Log of the wrong uid** (`ipc2/opend/loop.poll.c:91`, run `opend_uid`).
   `client[i].uid` is indexed with the index of `pollfd[]`, which is packed when
   a connection closes while `client[]` is not.
4. **The parser of the printer's answer may never end** (`printer/printd.c:980`,
   run `printer_answer`).  The search for the end of the HTTP header stops two
   bytes before the end of the data, and more is read only once it has come to
   that end: if the header is cut there, `while (!found)` goes on for ever, and
   the printer thread with it.  `readmore` also returns an offset where its
   callers expect a length (line 864).  The comment at line 886 says that
   answers "can be returned in multiple read attempts".

Two more, which are not listed as findings because no run is spent on them:
`db_open` with `O_CREAT` and without `O_TRUNC` creates a file and never
initializes it (`db/db.c:134`, `CreatedIsInitialized` of `DbOpen`), against "If
the database was created, we have to initialize it"; and `db_nextrec` goes on
from the file offset, which every other call on the handle moves
(`db/db.c:853`, `NextIsSequential` of `DbScan`), while the comment asks for
`db_rewind` before the first call only.

## 7. What is not modelled

In the modelled parts:

- `Db`: a write of a record is one step (a kill or a reader in the middle of one
  `writev` or `write` is not seen); `_db_dodelete` formats `db->idxbuf` into
  itself with `sprintf`, which is undefined, and the model has the outcome of
  builds where it works; `err_dump` on I/O errors, on a full disk and on a file
  that is not a database.  `db_nextrec` at an offset inside a record always ends
  in `err_dump` in the model, which is what its parsing does with the fields it
  meets.  PTR_MAX is counted in slots.
- `DbOpen`: one chain stands for the table; truncation of the data file is not
  modelled; nor is the failure of `open` for other reasons.
- `Printd`: the IPP request that is built for the printer; `util.c`'s
  configuration parsing beyond what `PrintSubmit` reads; name resolution.
- `AlarmList`: what a program does that uses the contents of a freed timer.
- `PrinterAnswer`: the text of headers other than Content-Length; `strtol` of a
  length that is no number.
- `Opend`: the text of requests and how it is parsed (`cliargs.c`,
  `request.c`); credentials.
- `FdPass`: the layout of control messages.
- `SignalPrograms`: a signal inside a library call (`reenter.c`).

Parts that are left out: `threads/timedlock.c` and `cleanup.c`,
`threadctl/atfork.c` and `detach.c`, `ipc1/slock.c`, `ipc2/bindunix.c` and
`sendmsg.c`, `advio/rot13a.c`, `mcopy2.c`, `nonblockw.c`, `sockets/findsvc.c`,
`termios/`, `filedir/`, `fileio/`, `environ/`, `relation/`, `datafiles/`, most
of `stdio/`: each makes library calls one after another and prints what they
say, with no state of its own that a property could be about.
`standards/*.awk` generates the two programs that `Limits` models.  Of the
reader's copies under `src/ch*/` most repeat a program above word for word;
some (`ch11/11_11.c`, `11_12.c`, `11_14.c`, `ch10/10_24.c`, `10_28.c`,
`10_31.c`) do not compile.

Hazards with no property, in `PROJECT.json`.  In these the code does not keep a
promise; the model takes the step, and the property beside it names it as its
exception:

- `db.c:853`: `db_nextrec` after another call (section 6);
- `db.c:509`: a kill between the blanked record and its unlinking (`torn`);
- `printd.c:447`: a client silent for 20 seconds has a part of its file printed
  (`stalled`);
- `loop.select.c:45`: a client that leaves with an answer unread ends the server
  for all (`Answered` asks for a server that is up);
- `p5.c:33`: the handler between the two writes in front of the head
  (`relinked`).

(The loop of print.c:123 on a file that can no longer be read, which `EachEnds`
names in `Done`, and db.c:134 in section 6 are of this kind, too.)

`db.c:736`, where a scan may read half of a value that is being overwritten,
needs data records in halves.

## 8. Plan

Done: all modules of section 2, and the proofs of section 5.  Left:

1. **Torn data in `Db`**: data records in two halves, for `db_nextrec` beside
   `OverwriteDat`.
2. `PrintSubmit` as a refinement of `Printd!CopyFile`, and `PrinterAnswer` of
   `SendJob`; then `SpooledIsFile` for any file and any addresses.
3. What a scan promises after a kill: each key that was stored under its lock,
   and of the rest only those whose store died.
