# Verification of the apue2e programs

The repository collects the programs of *Advanced Programming in the UNIX
Environment* (`apue2e`), of *The Linux Programming Interface* (`tlpi-dist`) and
two sets of exercises (`exercise`, `linux-sys-code`). Most files demonstrate one
system call. A few are real programs, with processes or threads that share
files, lists and locks. This project models those, in TLA+, from the C source:
TLC checks the models on small instances, and TLAPS proves most of their safety
properties for every size.

## 1. Inventory

| Part | State | Operations | What makes it hard |
|---|---|---|---|
| database library, `apue2e/db/db.c` | index file (free list, hash table, records), data file, `DB` structure per handle, fcntl locks | `db_open`, `db_close`, `db_fetch`, `db_store`, `db_delete`, `db_rewind`, `db_nextrec` | several processes, no server: lists in a file changed in several writes under one lock per list; records that move between lists; a scan that takes no chain lock; offsets limited to six digits; `open` truncates before the lock |
| print spooler daemon, `apue2e/ipp/printd.c` | job queue, `nextjob`, worker list, spool directory, job ID file | client threads, printer thread, signal thread, start-up | crash and restart from the disk; a retry of a job that may have been printed; condition variable; list code; threads that are cancelled |
| print command, `apue2e/ipp/print.c`, `util.c` | socket | submit, read with timeout | timeouts that race answers |
| semaphore library, `apue2e/lib/semaph.c` | a System V set of three semaphores | `sem_create`, `sem_open`, `sem_close`, `sem_rm`, `sem_wait`, `sem_signal` | create races remove; `SEM_UNDO` at the death of a process |
| dialer daemon, `apue2e/calld` | client table, `chld_flag`, device locks | requests, dialing children, `SIGCHLD` | signal between test and `select`; coalesced signals; slots reused |
| open server, `apue2e/opend` | client table | requests, descriptor passing | clients that go away |
| threads, `apue2e/threads`, `threadctl` | queues, reference counts, reader-writer lock | insert, remove, hold, release | lock order, use after release |
| apue library, `apue2e/lib` | pipes, signal masks | `TELL_WAIT`, `sleep`, `popen` | signals lost between test and wait |
| directory monitor, `tlpi-dist/inotify/inotify_dtree.c` | cache of watches and paths | events, renames, rebuild | events that are stale when read; queue overflow |
| tlpi synchronisation and servers, `tlpi-dist/{svshm,svsem,threads,pipes,sockets}` | shared memory, counters | transfer, produce, consume | lost wakeups, clients that die |
| everything else | none that outlives a call | one system call each | no protocol to check |

What the parts must guarantee:

- **database**: the files behave as one atomic map, whatever the processes do at
  the same time; no list is cut, joined or closed to a circle; a reader never
  sees half a deletion; every call returns.
- **opening a database**: a file that was created is initialised, and never while it
  is in use.
- **spooler**: a job that was accepted is printed, once if nothing fails, and
  survives a restart.
- **worker threads**: all of them are cancelled at the end, and each gives back
  what it took.
- **semaphore**: nobody's semaphore is removed or initialised again while it is
  open, whoever exits in the middle of a call; every `sem_create` ends.
- **printer's response**: a job is taken for printed only when the printer says so,
  in however many pieces it says it.
- **dialer**: one user per line at a time, and every client is answered.
- **directory monitor**: when it has caught up its cache is the tree; it loses no
  watch and always comes back to its prompt.
- **smaller protocols**: turns are taken, numbers are given once, nobody waits for
  an event that has happened, everything that was taken is given back.

## 2. Modules

| Module | Models | Runs |
|---|---|---|
| `Db` | every call of `db.c` on an open database, one system call per step | `db_lists`, `db_progress` |
| `DbMap` | abstract specification: one map, calls that take effect at one instant | |
| `DbInv` | the inductive invariant about lists, locks and data | `db_linear` |
| `DbView` | what the lists of `Db` mean, the refinement mapping to `DbMap`, and the inductive invariant behind both | `db_lists`, `db_linear` |
| `DbListProofs`, `DbProofs`, `DbViewProofs` | proofs about `Db`, the last of them that it implements `DbMap` | |
| `MCDb` | instances: keys, data and their lengths and hash values | the `db_*` runs |
| `DbOpen` | `db_open`, `db_close` and what the calls between them do to the start of the index file | `programs` |
| `PrintSpool`, `SpoolProofs` | jobs, spool directory, printer thread, restart of `printd.c`; proofs | `printd`, `spool_number` |
| `PrintWorkers` | the worker list of `printd.c` | `workers_killed` |
| `PrintStatus` | how `printd.c` reads the printer's response | `printd`, `status_pieces` |
| `Semaph` | `semaph.c` on one key | `sem_users`, `sem_open` |
| `Calld`, `CalldProofs` | the dialer daemon and its children; proofs | `programs` |
| `Dtree`, `MCDtree`, `DtreeProofs` | the directory tree monitor of `inotify_dtree.c`; instances; proofs | `dtree`, `dtree_follows` |
| `PtyLoop` | `loop()` of `pty` | `programs` |
| `RwQueue` | the job queue of `threads/rwlock.c` | `programs` |
| `TellWait` | `tellwait.c` under `devzero.c` | `programs` |
| `FifoSeqnum` | the sequence number server and its clients | `programs` |
| `SvshmXfr` | the transfer through shared memory | `programs` |
| `MultiJoin` | `thread_multijoin.c` | `programs` |
| `IpcPrograms`, `IpcProofs` | `FifoSeqnum`, `TellWait` and `SvshmXfr` side by side; proofs about these and `Semaph` | `programs` |
| `LockPrograms`, `LockProofs` | `DbOpen`, `RwQueue` and `MultiJoin` side by side; proofs | `programs` |
| `MCPrintd`, `MCPrograms` | several modules side by side for TLC | `printd`, `programs` |

`IpcPrograms` and `LockPrograms` declare the variables of several modules,
instantiate each with its own, state the assumptions on the constants and repeat
the names of the properties that runs and theorems share. `MCPrograms` extends them,
and `MCPrintd` extends `PrintSpool`, for TLC. None of them composes anything: the variable `part` is chosen
at the start and says which module a behaviour is about, and the variables of the
others stay as they began. They save a run per module and change nothing of what
is checked.

### 2.1 Db

*State.* `ptr` is the chain ptr field at each offset of the index file (the free
list head, the hash table and the first field of each record), `rec` the rest of
each record, `dat` the data file. `wlock` and `rlock` are the fcntl locks: the
first byte of each chain ptr, the part of the index file after the table, and
the data file. `idxoff`, `datoff`, `datlen`, `ptrval`, `ptroff` are the fields of
the `DB` structure; `offset`, `saveoff`, `newptr` are locals. Offsets are scaled
so that a ptr field and a record have size 1. Keys and data are atoms with a
length, because `_db_findfree` and `db_store` compare lengths, and a hash sum. A
field that no later step reads is set to `Dead`, which keeps the state space
small and makes a forgotten assignment show up as an error.

*Actions.* One per system call that reads or writes a shared file, named for
where it stands: `FindLock`, `FindNext`, `FindMatch`, `FindEnd` are
`_db_find_and_lock`; `DeleteBlankDat`, `DeleteBlankIdx`, `DeleteLinkFree`,
`DeleteUnlink` are `_db_dodelete`; `FreeLock`, `FreeNext`, `FreeTake`, `FreeNone`
are `_db_findfree`; `AppendSeek*`, `Append*`, `Reuse*`, `StoreLink`,
`StoreOverwrite` are `db_store`; `Next*` are `db_nextrec`. A lock is taken, or
released, in the step of the access next to it. `_db_readidx` reads a record
with two calls and is one step: a record keeps its length for ever, only its ptr
is read by the first call, and the one reader that may meet a writer of the
record, a scan, does not use the ptr. For a similar reason `NextDat` takes the key from the file, where the code copied it to
`idxbuf` one step earlier: the free list lock held in between keeps it as it was.
`StoreLinkExit` and `NextTorn` are the calls of `err_quit` and `err_dump` that
correct use of the library can reach; the kernel then drops the locks of the
process.

*Left out.* Failures of system calls; data and keys that break the length
limits, which end the process before it touches a file; the byte format of a
record; statistics counters. A position of the file descriptor inside the table
or a record is the single value `Torn`: what stands there does not parse as a
record.

### 2.2 DbOpen

`open` of the index file, `open` of the data file, the lock of the whole index
file, `fstat`, the write of the table and the unlock are one step each, and any flags
may be given, so every interleaving of creators, truncaters and users is there. The
index file is abstracted to what it starts with: nothing, the table, or something
else. `Fetch` is `db_fetch`; `Update` to `WritePtr` are `db_store` and `db_delete`, which
lock a chain (and so keep `LockIdx` waiting), read the chain ptr and the free list ptr,
and write a record and a ptr. A read at the end of the file ends the process
(`_db_readptr`); a write beyond the end of a file that was truncated meanwhile leaves
zeros where the table should be.

Two history variables name what db_open cannot prevent. `bare`: the index was last
emptied by an open that does not initialise, because it has only one of `O_CREAT` and
`O_TRUNC`. `spoiled`: the index was emptied under an update that goes on to write; the
creator waits for that update's lock, finds a file that is not empty, and writes no
table.

### 2.3 PrintSpool

The spool directory is `data` and `reqs`, by job number, and the job ID file.
`Stop` ends the daemon at any point and leaves the disk; `Start` and `ScanEntry`
are `init_request` and `build_qonstart`. Each client is one request and passes
the steps of `client_thread`; any creat or write may fail (`ClientFails`). A read of
the data that fails or times out does not: the thread goes on with the data it has
(`WriteData`, the file is `"cut"`), and the client is told success. Numbers start again
at 1 after `LONG_MAX` (`Successor`).
`printer_thread` is `GetJob` to `UnlinkReq`; the exchange with the printer is one
step with four outcomes: no data file, printed, not printed, and printed with
the answer lost. A client thread that writes to a file somebody unlinked
meanwhile writes to no name. The condition variable is explicit: the printer
thread waits until a signal, or a spurious wakeup, which gets no fairness.

### 2.4 PrintWorkers

Nodes are pieces of memory that `malloc` and `free` hand out and take back, so
that a pointer can outlive its node. `client_cleanup` and `kill_workers` walk
the list one node per step, holding `workerlock`. A step that would touch freed
memory leads to the state `undefined`, of which nothing is claimed. The history
variable `outstanding` is the workers that were serving when `kill_workers` began.

### 2.5 Semaph

`sem` is the set of three semaphores that has the key, `cur` its identifier (0
when there is none; a removed set is made anew with another one), `adj` the
amounts the kernel undoes when a process exits. One system call is one step. The
operation arrays of the code (`op_lock`, `op_close`, ...) are vectors that `semop` adds
all at once. A `semop` that sleeps is a state of its own in `sem_create`, because the
error differs: `EINVAL` when the set was gone before, `EIDRM` when it is removed during
the sleep. `Exit` may happen between any two calls. Assumed: fewer processes than
`BIGCOUNT`, since a counter of 0 means "not initialised" to the code.

### 2.6 PrintStatus

`printer_status` decides from the printer's answer whether a job leaves the spool.
A response is a sequence of messages of tokens (a status line, the two halves of
`Content-Length:`, a value, `\r`, `\n`, two bytes of body); `bp` is the buffer, `nr` how
much of it was read, `i` the position of the parser. The attributes that follow the
IPP header may be any bytes, so they can be read as anything (`Readings`), and so can
memory that nobody has written. Every loop of the function is
an action (`Skip`, `Compare`, `Header`, `Body`, ...), and `readmore` puts the next piece
where the code puts it, which for the body is at offset `i`. A read may return any
piece of the message that is due, or time out. The buffer is not cleared between
calls, so it begins as an earlier response left it (`Leftovers`). The growth of the
buffer is left out.

Two history variables: `cut`, a piece was not a whole message or came too late; `torn`,
a piece ended inside the body, so that `readmore` stores the rest of the body over its
beginning and the attributes may be taken for the header.

`PrintSpool` uses this module's result: its printer step takes a job for printed
only when the printer accepted it (`NoFalseSuccess`, which needs the body to come in
one piece) and always ends (`StatusReturns`, which needs each message to). A response
without a `Content-Length` is never taken for a success: the job is deferred and
printed again.

### 2.7 Calld

The daemon is one process with a signal handler that may run between any two of
its steps (`SigChld`); `client[]`, `lock[]`, `chld_flag` and `childdone` are as in the code.
The two loops over `client[]` take one entry per step. `Request` is `request` with the
search of the Systems file, which goes on after the entry of the last attempt
(`sysftell`), `is_locked`, `fork` and `lock_set`. A child dials, sends the descriptor
and exits, or fails, and a client may close its connection at any point. SIGCHLD
is one bit: the ends of two children may arrive as one signal. The handler may run
after the test of `chld_flag` and before `select` (`Enter`). `Quits` are the exits by
`log_sys` and `log_quit`: a call that fails, a request that does not parse. Pathnames, options,
the dialogue with the modem and the syntax of the files are left out.

`early` is a history variable: a client was gone before its child. The daemon then
releases the lock of a line on which the child still dials, which is why
`LineExclusive`, `LocksOwned` and `StaysUp` are conditional.

### 2.8 Dtree

The kernel's half is external: a tree of inodes, watches by inode, a bounded queue
of events that merges equal neighbours and ends in an overflow event when full. Directories are
made, removed and renamed by other processes; the two events of a rename are two
steps, so other events may come between them. The program's half is
`inotify_dtree.c`: `StatDir`, `OpenDir`, `Visit` and `List` are `nftw`, which looks a
directory up in the one it has listed, stats it, opens it, calls `traverseTree` with
its pathname and lists it, so that a change between any two of these is possible.
When the directory is gone at the stat it is passed over; when it is gone at the
`opendir`, `nftw` returns -1 and the walk of that root path or subtree is abandoned
(`Abandon`);
`ZapOne` to `ZapEnds` are `zapSubtree` with `inotify_rm_watch`; `Reinitialize` is
`reinitialize`; the actions of `ProcessNext` are the branches of `processNextInotifyEvent`;
`Read`, `ReadMore` and `TimesOut` are the first and the secondary read with its alarm;
`Command` takes the commands that change the cache (`0`, `a`, `z`, `q`). The history
variable `race` says whether renames had the program to themselves and whether a walk
went astray: it was abandoned, or the pathname led to another directory than the one
`nftw` had open.

Left out: renames over an existing directory, `IN_UNMOUNT`, files, the options `-x`
and `-d`, the commands that print, and arguments of `a` and `z` other than the roots.

### 2.9 The smaller protocols

- `PtyLoop`: the child copies standard input to the pty, the parent the pty to
  standard output; SIGTERM goes either way, and `sigcaught` is looked at only when a
  read was interrupted. Reads and writes of either process may fail. The program on
  the slave side is the environment.
- `RwQueue`: the four list functions are one step each under the write lock, and
  `job_find` takes one job per step under the read lock. A removed job keeps its
  links and may be inserted again. `tear` records that the last of several jobs was
  removed, after which the code leaves its predecessor pointing to it.
- `TellWait`: `TELL_WAIT`, `TELL_*` and `WAIT_*` with masks, pending signals, handler and
  `sigflag`, used by the two processes of `devzero.c`. The test of `sigflag` and `sigsuspend`
  are two steps.
- `FifoSeqnum`: `open` of a FIFO waits for its other end; a client may be killed or fail
  at any point (`MaxEnds` of them), and leaves its FIFO behind.
- `SvshmXfr`: writer and reader with `binary_sems.c`; semaphores and segment may be left
  over from a killed run. `early` says that the reader started on semaphores that the
  writer had not set yet; `failed`, that its write, or the writer's read, failed.
- `MultiJoin`: the main thread waits on a condition variable, with spurious wakeups,
  and joins every thread that announced its end.

## 3. Runs

| Run | Instance | Shows |
|---|---|---|
| `db_lists` | 2 processes, 3 keys on 2 chains, 1 data, records up to offset 5 | no record on two lists (`OneReference`); no circle (`Acyclic`); every record on a list or in somebody's hand (`NoRecordLost`); each chain has only its own keys, each once (`ChainsSound`); index records never share data (`DataExclusive`) |
| `db_linear` | 2 processes, 2 keys on 1 chain, 2 data of different length, all calls | nobody reads a half deleted record (`NoBlankRead`); the invariant of the proofs (`ViewInvBounded`); `Db` implements `DbMap` (`Linearizable`) |
| `db_progress` | 2 processes, 2 keys on 2 chains, 1 data, records up to offset 4, all calls and flags, no rewind | every call returns or exits (`Progress`) |
| `printd` | spool: 2 clients, 2 restarts, 1 lost answer. Response: 6 responses, 3 leftovers, any pieces | nothing in the spool is forgotten (`Spooled`), a job is printed once but for lost answers and restarts (`PrintedOnce`), none is lost while the daemon is up (`KeptWhileUp`), the spool empties unless the printer defers for ever (`SpoolDrains`); no job is taken for printed that the printer did not accept, unless the body came in pieces (`NoFalseSuccess`), and an uncut response is read to its end and right (`StatusReturns`) |
| `sem_users` | 3 processes, all calls, 1 exit, 2 sets | the process counter is exact (`CounterExact`); users are kept apart (`MutualExclusion`); `sem_close` never removes the semaphore of somebody who used `sem_create` (`CreatorsKept`); every `sem_create` ends (`CreateEnds`) |
| `dtree` | 3 inodes, 2 names, 1 changing process, queue of 3 events, 2 per read; root `x` over two levels with 3 changes, or with 2 and a command, or over three levels with 2 changes; roots `x` and `y/x`, where `y` is not watched, with 2 changes | with renames one at a time and no walk astray the cache is the tree whenever the monitor has caught up (`Consistent`); no watch is ever lost and no entry dead for good (`Tracked`); it comes back to `select` (`Returns`) |
| `programs` | see below | eight programs and parts of programs, each by itself |
| `spool_number` | 2 clients, 1 restart | violation: `AckedKept` |
| `sem_open` | 2 processes, `sem_open` too | violation: `OpenIsLive` |
| `dtree_follows` | 2 changes, no command | violation: `Follows` |
| `status_pieces` | as `printd` | violation: `PiecesReturn` |
| `workers_killed` | 3 threads, 2 nodes, 2 connections at a time | violation: `KillsAll` |

The parts of `programs`:

| Part | Instance | Shows |
|---|---|---|
| `Calld` | 2 clients that share a line, 2 lines, 4 entries in the Systems file | one user per line (`LineExclusive`), no lock without an owner (`LocksOwned`), no SIGPIPE and no child without an entry (`StaysUp`), every client gets a descriptor or an error unless a child's end goes unnoticed or the daemon has quit (`DialAnswers`) |
| `FifoSeqnum` | 3 clients, 1 of them ends | `UniqueNumbers`; `Answered`: a request is answered unless the server waits for a client that is gone |
| `PtyLoop` | 2 reads of input, 3 of output | `BothEnd`: the end of the program ends both processes and, with `-i`, loses no output, unless a read or write fails; `EofEnds`: the end of input ends the parent |
| `DbOpen` | 3 processes, all four sets of flags | `Initialised`: the table is never written over an index in use, and outside `db_open` the index starts with it, unless `bare` or `spoiled` |
| `RwQueue` | 3 jobs, 1 searcher | `NoJobLost`: the links are the queue; `FindsExactly`: `job_find` ends with the right answer |
| `TellWait` | `NLOOPS` 6 | `TakesTurns`; `Completes`: both processes end unless a signal comes right before a later `sigsuspend` |
| `SvshmXfr` | 3 blocks, any leftovers | `Alternates`; `TransferEnds`: all is copied and removed |
| `MultiJoin` | 3 threads | `JoinsAll`: the main thread ends and joined every thread once |

TLC checks deadlock in `spool_number` only. Elsewhere the system may really stop:
processes exit, the daemon ends, a transfer is over. That nobody waits for ever is
what the liveness properties say.

*Conditional properties.* Several programs are right except in a window that the
code leaves open. There the property has a disjunct for exactly that window, kept
in a history variable (`early`, `tear`, `missed`, `bare`, `spoiled`, `cut`, `torn`,
`race`) or in the state
(`Unseen`, `Stuck`), and section 5 describes the window. What it excludes is small:
everything outside it is checked.

*Why the bounds are enough.* Two processes suffice for every pair of calls to
interleave, and the locks relate processes in pairs; three keys on two chains
give a chain of two records and a second chain that shares the free list with
it. Two data lengths give both ways to replace a record and both outcomes of the
search of the free list. `PTR_MAX` is chosen so that the files overflow in the
run, and it bounds them: beyond it a process exits. What two processes and a few
keys cannot show, the theorems show. In the spooler two clients and one restart
give a pending job and a newcomer; a second restart gives a stop during the
start-up. For the worker list two nodes and three threads give a node that is
freed and handed out again. For the semaphore three processes give a closer, a
creator and a third that holds it, and a second set the reuse of the key. In the
monitor three changes give a rename, a change under the renamed directory and one
more, and a queue of three events overflows; the invariants also held with three
levels and 3 changes or 2 and a command (1.8 million states), with two changing
processes (5.0 million) and with a third name (2.8 million). In `Calld` two clients compete
for a line and one has a second line to fall back on; the invariants also held with
three clients (4.0 million states with no client gone early). `RwQueue` with two searchers
(234,562 states) passed too. `FifoSeqnum` has one length, 2, because `NumbersUnique` covers
all. `NLOOPS` 6 gives each process a first and two later `WAIT`s; three blocks give a
first, a middle and a last turn.

*Fairness.* What the kernel's scheduler gives: a process or thread that can go on
does. What the environment does is never forced: calls of clients, changes of the
tree, commands, input, signals from outside, exits, failures, spurious wakeups.

- `Db`: each process inside a call; a lock that is and stays free is granted.
- `PrintSpool`: the threads and the restart; whether the printer prints or defers is
  left open. `PrintStatus`: the function goes on, and which piece comes is left open.
- `Semaph`: inside `sem_create` and `sem_close`, and strong fairness of getting the lock,
  because the kernel serves the sleepers of a set in turn.
- `Dtree`: the program, and the second event of a rename that began.
- `Calld`: the daemon, the delivery of SIGCHLD, and each child (a dialing child ends: it
  sets alarms).
- `PtyLoop`: the parent, but no failure of its reads, and the delivery of SIGTERM to
  either; not the program on the slave side, nor standard input.
- `FifoSeqnum`: the server, and a client that began; not that a client starts.
- `RwQueue`: a search that began. `TellWait`: both processes and the delivery of their
  signals. `SvshmXfr`: both programs.
- `MultiJoin`: all threads, with strong fairness of getting the mutex.

## 4. Theorems

Every leaf is proved by Z3, Zenon or, for the temporal steps, LS4. Where an
invariant counts (users of a semaphore, threads to be joined, slots in use) it has a
conjunct `Counting` with the few facts about cardinality that its steps use. These
facts are about constants, hold in every state, and are proved from the theorems on
finite sets right before the theorems that need them.

### 4.1 The database library

`DbProofs` proves, for any number of processes, keys, data strings, chains and
any `PTR_MAX`, from the assumptions of `Db` only (lengths and hash sums are
numbers, `NHASH` is positive, the hash table fits, a key or data string is not
blank):

| Theorem | Statement |
|---|---|
| `Invariance` | `Spec => []IndInv` |
| `TypeCorrect` | `Spec => []TypeOK` |
| `NoSharedRecord` | `Spec => []OneReference` |
| `NoCircle` | `Spec => []Acyclic` |
| `NoSharedData` | `Spec => []DataExclusive` |
| `NoHalfDeletedRead` | `Spec => []NoBlankRead` |

None of these properties but `IndInv` itself is inductive. `OneReference` says nothing of who may
change which field, so a delete in one chain could undo a store in another. The
invariant `IndInv` of `DbInv` adds:

- every chain ptr field belongs to a class, its list: the free list or one chain,
  told by the key in the record. A field in use points only to records of its own
  class, and a process changes only fields of classes it has locked, or of a
  record it has taken off its list and holds alone;
- what each process remembers (`ptroff`, `offset`, `ptrval`, `saveoff`, `newptr`)
  is still true of the file, as long as the lock is held under which it was read;
- locks: a process at a label between a lock and its unlock holds that lock;
- data records belong to one index record, or to the process that appended them;
- there is a rank that falls along every field in use (`Ordered`), which is how
  the absence of circles becomes inductive: a push or a cut of a list keeps a
  rank, and a set of records that the fields do not leave would have no least
  rank.

The proof goes through each action once for types, once for locks and lists (both
in `DbListProofs`), and once for ownership, data and rank (`DbProofs`), with frame lemmas for the processes and fields an action leaves
alone. `RanksEnd` uses the well-foundedness of the natural numbers.

`DbViewProofs` goes on from there to what the lists and the calls mean:

| Theorem | Statement |
|---|---|
| `ViewInvariance` | `Spec => [](IndInv /\ ViewInv)` |
| `NothingLost` | `Spec => []NoRecordLost` |
| `ChainsHold` | `Spec => []ChainsSound` |
| `CallsAtomic` | `Spec => Linearizable`, that is `Spec => Map!MapSpec`, if `Rewinds` |

`Rewinds` says that clients call `db_rewind` before a scan, and again before they
resume one after another call. Without it the theorem is false: such a scan reads
inside the hash table and ends the process (`NextTorn`), which the map does not do.

A list is a set here: `From(o)` is the least set of records that has the one at `o`
and with each record the next one, so that no induction along a list is needed.
Two facts connect these sets to `IndInv`. All that is on a list from a field in use
on is of the class of that field (`ChainClass`: the records of that class are a
closed set). And every record of a class is on its list (`AllListed`): were one not,
the records of the class that are off the list would have one of greatest rank,
whose predecessor has a greater rank and is off the list too. The greatest rank
exists because the file is finite (`RankBound`), and the predecessor is what
`CoverInv` adds to `IndInv`.

`ViewInv` also has what the map needs:

- a key is on one record of the lists at most (`KeyInv`);
- a search has not passed its key, what it found still has the key, and a call that
  found nothing, or removed what it found, keeps the key off its chain (`FindInv`);
- what a call will return, or leave behind, is what its caller asked for, and a scan
  reads at a record (`CallerInv`).

Each action is one of a few changes of the lists (a record is blanked, linked to the
free list, unlinked, taken, written, linked to a chain, or nothing changes), stated
as `Blanks` to `Quiet` in `DbListProofs`; `CoverInv`, `KeyInv` and the part of
`FindInv` that other processes could disturb are proved once per change. `CallsAtomic`
then maps each action: a fetch takes effect when it reads the data, a delete and a
replacing store when they blank or overwrite the data, a store of a new key when it
starts to look for room, a call that fails when it finds that it does, a scan when it
reads the data of a record or meets the end of the file. Every other step but the call,
the return and the exit leaves the map as it was, which is a consequence of `KeyInv`
and of the chain lock. TLC checks the whole invariant, with bounded ranks, in
`db_linear`, and it held on the instances of `db_lists` and `db_progress`.

### 4.2 The semaphore library

`IpcProofs` proves, for any finite set of processes smaller than `BIGCOUNT`, any
bounds and any of the calls, `Exclusion` (`Spec => []MutualExclusion`),
`CounterIsExact` (`Spec => []CounterExact`) and `CreatorsAreKept`
(`Spec => CreatorsKept`, an action property).

`MutualExclusion` alone is not inductive: nothing in it keeps `sem_create` from
initialising the set again under a user, or an exit from undoing an operation
twice. The invariant `SemInv` says that

- what the kernel would undo for a process mirrors where the process is: 1 for the
  value while it holds the semaphore, 1 for the counter while it has the set open,
  -1 for the lock inside `sem_create` and `sem_close` (`AdjInv`);
- the lock has one holder when it is 1, none when it is 0 (`LockInv`), and the
  value leaves room for one holder (`ValueInv`);
- the counter is `BIGCOUNT` less the users, or 0 with no users (`CountInv`), and stays 0
  until who is about to initialise the set has done so (`InitInv`).

The lemma `Moves` is the core: a step of one process keeps all of this when
semaphores plus adjustments of that process stay what they were, which is what
`SEM_UNDO` means. It covers every `semop`, every exit and every step that leaves the
set alone; making, initialising and removing the set are treated by themselves.
`CreatorsInv` adds what a process that is about to remove the set knows. TLC
checked both invariants on the instance of `sem_users`.

### 4.3 The print spooler daemon

`SpoolProofs` assumes that there are finitely many requests, fewer than `LONG_MAX`, and
that the values which mean "nothing" are no request. `MaxStops` and `MaxLost` may be
anything, so the results hold for any number of restarts and lost answers.

| Theorem | Statement |
|---|---|
| `SpoolProofs!NothingForgotten` | `Spec => []Spooled` |
| `SpoolProofs!PrintsOnce` | `Spec => []PrintedOnce` |
| `SpoolProofs!JobsKept` | `Spec => []KeptWhileUp` |

The invariant of the spool, `SpoolInv`, has three layers. `NumberInv` bounds `nextjob` by
the clients that asked for a number, so that a number is always one the disk has a
place for. `FileInv` says under which number a client's data and request can be, and
from which step of `client_thread` on; a file that is still being written is never
taken for one that has all that arrived. `PrintInv` makes "printed once" inductive: while the data is
in the spool and not about to be unlinked, every earlier printing is accounted for
by a lost answer or an end of the daemon. `UpInv` holds until the daemon first ends:
numbers are distinct, so the files under a client's number are its own, and what is
queued was acknowledged. After a restart the numbers are not fresh any more, which
is the disagreement `spool_number` shows, and the reason why `JobsKept` stops there.

### 4.4 The dialer daemon

`CalldProofs` proves, for any finite set of clients, any lines and any Systems file,
`LinesExclusive` (`Spec => []LineExclusive`), `NoLockLeft` (`Spec => []LocksOwned`) and
`DaemonStaysUp` (`Spec => []StaysUp`). The invariant is `early \/ CalldInv`:

- no client and no child has two entries of `client[]` (`SlotInv`);
- until it is reaped, a child has an entry and its lock, and its client waits for it
  or has the answer (`KidInv`); an entry marked for a retry has no child left and a
  client that waits (`RetryInv`);
- a lock is a child's, for the child's line, and there is an entry that carries both
  the child's pid and its client (`LockInv`);
- what `select` reported is still true of the entries that `loop` has not come to
  (`ServeInv`), although handler, children and clients run meanwhile.

`LineExclusive` needs the third: two users of a line would be two owners of its one
lock. The search of the Systems file stops at the first entry that fits; that there is a
first one is the well-foundedness of `<` on the numbers.

### 4.5 The directory tree monitor

`DtreeProofs!WatchesTracked` (`Spec => []Tracked`) holds for any trees, names, number
of changing processes, size of the kernel's queue and of the read buffer, each at
least one event. The invariant `TrackInv` says that watch descriptors are not reused
and no directory has two watches (`WatchInv`); that every watch has its entry, and
every entry without a watch has its `IN_DELETE_SELF`, or an overflow event, among the
events that are queued or read, while no such event is about a watch that exists
(`ToldInv`); and that no event is read over another one (`BufInv`). The second is
what has to survive merging of equal events, an overflow, the removal of a whole
subtree by `zapSubtree`, the rewriting of the read buffer by the
secondary read, and `reinitialize`, which closes the instance and with it drops all
watches and events at once. TLC checked `TrackInv` on the instance of `dtree`.

### 4.6 The smaller protocols

| Theorem | Statement | For every | Argument |
|---|---|---|---|
| `IpcProofs!NumbersUnique` | `F!Spec => []UniqueNumbers` | number of clients, lengths in `Nat \ {0}` | what was given, or is on its way to a client, lies below `seqNum`, and no two of these ranges meet |
| `IpcProofs!TurnsTaken` | `T!Spec => []TakesTurns` | `NLOOPS` | there is one turn: a running process, a pending signal or a set `sigflag`, never two of these; and the counter says whose turn it is |
| `IpcProofs!Alternation` | `X!Spec => []Alternates` | number of blocks, any leftovers | one turn among the two semaphores, the writer and the reader; who has it knows how the segment and the output relate to the input |
| `LockProofs!OpenInitialises` | `O!Spec => []Initialised` | number of processes, any sets of flags | an empty index file is the debt of some process that has yet to come to `fstat` or to the write of the table, or `bare`; an index with something else in it is `spoiled`; who found the file empty holds the lock of the whole file, so nobody has written since |
| `LockProofs!QueueKeepsJobs` | `Q!Spec => []NoJobLost` | set of jobs and of searchers | the links are the sequence of the jobs in both directions; a last job that was removed leaves a stale `j_next` that only matters once all jobs before it are gone |
| `LockProofs!JoinsSafely` | `J!Spec => [](JoinedOnce /\ NoLostWakeup)` | number of threads | `numLive` and `numUnjoined` are the cardinalities of the threads not joined and of those that wait for it; the main thread sleeps on a positive `numUnjoined` only while a thread is about to signal |

The runs check these properties under the same names, except the last, which is the
safety behind `JoinsAll`.

### 4.7 Only model-checked

- All liveness properties: they need fairness and `ENABLED`.
- `ViewInvBounded` is `IndInv` and `ViewInv` with ranks up to the number of records,
  so that TLC can look for one; `ViewInvariance` is the same without the bound.
- `Consistent` compares the pathnames in the cache of `Dtree` with the tree: an
  induction over paths and over the events that are on their way.
- `NoFalseSuccess` depends on which token of a response comes to stand where in
  the buffer, for the responses of the instance.
- `FindsExactly` also says that the search ends.
- The five violations are counterexamples on an instance, and need no more.

## 5. Disagreements between code and comments

1. *Job numbers* are saved only when the printer thread picks up a job. After a
   restart a new client may get the number of a pending job and truncate its data
   (`spool_number`).
2. *`sem_open`* counts itself without the lock; the comment (`semaph.c:189`) says none is
   needed. It may do so after the last `sem_close` has read the counter, and its
   semaphore is then removed (`sem_open`).
3. *`inotify_dtree`*: a directory is removed or renamed between the stat and the `opendir`
   of `nftw`, which then returns -1; `watchDir` logs it and goes on, and the rest of the
   subtree is not walked. Or a directory is listed by `nftw` and renamed within the tree
   before its visit: it is passed over (`ENOENT`), and the pair of rename events only
   rewrites entries that are in the cache. Either way directories stay unwatched, where
   the comment (`inotify_dtree.c:23`) promises a representation "that remains consistent
   with the filesystem" (`dtree_follows`).
4. *`printer_status`*: the loop that looks for the end of the header stops two
   characters before the end of the data and reads more only past that end. A piece
   that ends inside the header makes it spin, where the comment (`printd.c:880`)
   says "They can be returned in multiple read attempts." (`status_pieces`).
5. *`kill_workers`*: `add_worker` changes the head of the list only when the list is empty
   (`printd.c:544`), so the worker of a second simultaneous connection is not found from
   the head and is not cancelled, where the comment (`printd.c:552`) says "Cancel (kill)
   all outstanding workers." (`workers_killed`).

Behaviour worth knowing, seen while modelling and without a run of its own:

- *db*: `db_nextrec` continues at the position of the descriptor, so `db_rewind` is needed
  after every other call, not only "before this function is called the first time"
  (`db.c:834`). `db_open` with `O_CREAT` and without `O_TRUNC` creates a database and does
  not initialise it; nor does it when another process is writing to the index that
  was just truncated. A store that needs an offset above `PTR_MAX` exits after it has
  appended the record, and when it was replacing a key with data of another length,
  after it has deleted the old one; `DbMap` says so (`StoreExit`). A scan may miss a key
  that is being replaced at the same time. A process that opens a database with
  `O_TRUNC` empties it under the hands of its users, who exit at their next call.
- *printd*: the worker that `kill_workers` misses is not found by `client_cleanup` either,
  so its node and socket stay behind. When the first worker ends while the second
  node hangs on its `prev`, the head points to freed memory, and a node that `malloc`
  hands out again can come to point to itself, on which `kill_workers` loops. A client
  whose connection fails in the middle of its data is told success, and what arrived
  is printed. `readmore` overwrites the body at offset `i`, and a body that came in two
  pieces may be misread as a success or a failure; a `Content-Length` cut in two is
  missed, and a response without one is never a success; what follows a 100 response
  in the same piece is dropped.
- *semaph*: `sem_create` retries on `EINVAL` only; when it sleeps for the lock while the
  set is removed the error is `EIDRM` and the process ends, where the comment
  (`semaph.c:119`) means to "just go back and create it again". A counter of 0 would also
  mean `BIGCOUNT` users.
- *calld*: a client that is gone before its child has its lock released while the child
  still dials. The ends of two children in one signal, or a signal between the test of
  `chld_flag` and `select`, leave a child unnoticed until something else happens, against
  "We'll find out the child's status when it terminates." The `pid` and `childdone` of a
  slot are not cleared; a child of no slot ends the daemon (`log_quit`).
- *inotify_dtree*: a root that is moved into another watched tree ends unwatched, and the
  rename of an ancestor of a root goes unnoticed. The command `0` may block when
  `select` had reported the old descriptor, and the alarm may go off before the read it
  is meant for.
- *rwlock.c*: removing the last of several jobs leaves its predecessor pointing to it.
  `job_find` may then find a removed job, a job that is inserted again closes a ring,
  and removing the others tears the queue.
- *tellwait*: the first `WAIT` restores the old mask, so from the second on a signal may
  come between the test of `sigflag` and `sigsuspend`, which then sleeps.
- *pty*: a SIGTERM that comes between two reads of the parent, or before the first, is
  forgotten. A parent that cannot write ends and does not tell the child; a child that
  cannot copy does not tell the parent.
- *fifo_seqnum_server*: the server waits for ever for a client that was killed after its
  request.

## 6. Not modelled

- `apue2e/opend`: the client table of the dialer daemon without its children, served
  in one pass of a single process; `Calld` has the same table and more.
- `print.c`, `tread` and `treadn` of a client: one request, one answer, no state beyond.
- `threads/mutex2.c`, `mutex3.c`: `foo_alloc` stores `f_next`, which nobody has set, in the
  hash table, so there is no list to check the other functions on. The other
  fragments of `threads` and `threadctl` have one thread and one signal or timer each.
- The rest of the `apue2e` library: wrappers of system calls and error output; the
  table of `popen` is used by one thread.
- `tlpi-dist`: `prod_condvar` and the other synchronisation examples repeat one condition
  variable and one counter, or the turns of `SvshmXfr`; the socket servers serve one
  client to its end before the next. All other chapters are pure I/O.
- `exercise`, `linux-sys-code`: small programs without a protocol.
- Inside the modelled parts: failures of `malloc`, the restart of the sequence number
  server (which begins at 0 again), the reuse of process ids, `sem_op` with amounts
  other than 1 and -1, a failing `accept` in `printd.c`, terminal and formatting code, and
  the byte formats of IPP, HTTP and the configuration files.
