----------------------------- MODULE PrintSpool -----------------------------
(***************************************************************************)
(* The print spooler daemon apue2e/ipp/printd.c: client threads that spool *)
(* a request to disk, the job queue, the printer thread, the job ID file,  *)
(* the end of the daemon at any point and its restart on what the disk     *)
(* holds.                                                                  *)
(*                                                                         *)
(* A client is one print request.  Its control file holds its request; its *)
(* data file is open while its thread writes, and then has the whole of    *)
(* its data, or is cut where tread timed out or failed.  A critical        *)
(* section under joblock, a system call on the spool directory and an      *)
(* exchange with the printer are one step each.                            *)
(***************************************************************************)
EXTENDS Naturals, Sequences, FiniteSets

CONSTANTS
    Clients,    \* print requests
    MaxStops,   \* bound: how often the daemon ends
    MaxLost,    \* bound: how often the printer's answer is lost
    LONG_MAX    \* the largest job number

None == "none"
Empty == "empty"    \* a control file created and not yet written

\* There are finitely many print requests; none of them is "none" or "empty".
ASSUME ClientsAssumption == IsFiniteSet(Clients) /\ None \notin Clients /\ Empty \notin Clients

\* There are more job numbers than print requests.
ASSUME NumbersAssumption == LONG_MAX \in Nat /\ Cardinality(Clients) < LONG_MAX

VARIABLES
    jobfile,    \* number in SPOOLDIR/jobno, 0 when the file is empty
    data,       \* SPOOLDIR/data: by number, whose data and how much of it
    reqs,       \* SPOOLDIR/reqs: by number, whose request
    main,       \* where the main thread is: "off" when no daemon runs
    pending,    \* directory entries build_qonstart has not read yet
    nextjob, queue, reread,
    cpc,        \* where each client's thread is
    jobid,      \* number of each client's job
    ppc, jp,    \* where the printer thread is, and its job
    printed,    \* how often the printer printed each client's data, whole or cut
    lost,       \* how often the printer's answer was lost
    stops       \* how often the daemon ended

disk == <<jobfile, data, reqs>>
jobs == <<nextjob, queue>>
clients == <<cpc, jobid>>
printer == <<ppc, jp>>
counts == <<printed, lost, stops>>
vars == <<disk, main, pending, jobs, reread, clients, printer, counts>>

NoFile == [of |-> None, has |-> "open"]
NoJob == [id |-> 0, of |-> None]
Numbers == 1 .. Cardinality(Clients)

Init ==
    /\ jobfile = 0
    /\ data = [n \in Numbers |-> NoFile]
    /\ reqs = [n \in Numbers |-> None]
    /\ main = "off"
    /\ pending = {}
    /\ nextjob = 0 /\ queue = <<>> /\ reread = FALSE
    /\ cpc = [c \in Clients |-> "new"]
    /\ jobid = [c \in Clients |-> 0]
    /\ ppc = "off" /\ jp = NoJob
    /\ printed = [c \in Clients |-> 0]
    /\ lost = 0 /\ stops = 0

-----------------------------------------------------------------------------
(* The job queue.                                                          *)

\* pthread_cond_signal(&jobwait): the printer thread stops waiting.
signal_jobwait == ppc' = IF ppc = "wait" THEN "get" ELSE ppc

\* add_job, up to the unlock; the signal follows as a step of its own.
add_job(c, n) == queue' = Append(queue, [id |-> n, of |-> c])

replace_job(j) == queue' = <<j>> \o queue

-----------------------------------------------------------------------------
(* The daemon starts, and ends.                                            *)

\* Mutant: the spool directory is not read.
MutPendingJobs == {}

PendingJobs == {n \in Numbers : reqs[n] # None}

\* main up to build_qonstart: init_request reads the number, or takes 1 when
\* the file is empty, and the printer thread starts.
Start ==
    /\ main = "off"
    /\ main' = "scan"
    /\ nextjob' = IF jobfile = 0 THEN 1 ELSE jobfile
    /\ pending' = PendingJobs
    /\ ppc' = "get"
    /\ UNCHANGED <<disk, queue, reread, clients, jp, counts>>

\* SIGTERM, a failure of the machine, or log_sys and log_quit in any thread:
\* only the disk is left.
Stop ==
    /\ main # "off" /\ stops < MaxStops
    /\ stops' = stops + 1
    /\ main' = "off" /\ pending' = {}
    /\ nextjob' = 0 /\ queue' = <<>> /\ reread' = FALSE
    /\ cpc' = [c \in Clients |-> IF cpc[c] = "new" THEN "new"
                                 ELSE IF cpc[c] \in {"add", "signal", "done"}
                                 THEN "done" ELSE "failed"]
    /\ ppc' = "off" /\ jp' = NoJob
    /\ UNCHANGED <<disk, jobid, printed, lost>>

\* build_qonstart reads one entry, in the order readdir returns them.  A
\* control file that was never written is unlinked with its data.
ScanEntry ==
    /\ main = "scan"
    /\ \E n \in pending :
        /\ pending' = pending \ {n}
        /\ \/ /\ reqs[n] = Empty
              /\ reqs' = [reqs EXCEPT ![n] = None]
              /\ data' = [data EXCEPT ![n] = NoFile]
              /\ UNCHANGED <<main, queue>>
           \/ /\ reqs[n] \in Clients
              /\ add_job(reqs[n], n)
              /\ main' = "signal"
              /\ UNCHANGED <<data, reqs>>
    /\ UNCHANGED <<jobfile, nextjob, reread, clients, printer, counts>>

ScanSignal ==
    /\ main = "signal" /\ main' = "scan"
    /\ signal_jobwait
    /\ UNCHANGED <<disk, pending, jobs, reread, clients, jp, counts>>

ScanEnd ==
    /\ main = "scan" /\ pending = {} /\ main' = "accept"
    /\ UNCHANGED <<disk, pending, jobs, reread, clients, printer, counts>>

\* SIGHUP: signal_thread schedules a new look at the configuration file.
SigHup ==
    /\ main # "off" /\ reread' = TRUE
    /\ UNCHANGED <<disk, main, pending, jobs, clients, printer, counts>>

-----------------------------------------------------------------------------
(* client_thread.                                                          *)

Goto(c, from, to) == cpc[c] = from /\ cpc' = [cpc EXCEPT ![c] = to]

\* Mutant: the new value of nextjob is lost, as it may be without joblock.
MutSameNumber(c) ==
    /\ main = "accept" /\ Goto(c, "new", "creat")
    /\ jobid' = [jobid EXCEPT ![c] = nextjob]
    /\ UNCHANGED <<disk, main, pending, jobs, reread, printer, counts>>

\* Job numbers start at 1 again after the largest.
Successor(n) == IF n = LONG_MAX THEN 1 ELSE n + 1

\* The request header arrives and get_newjobno takes a number.
get_newjobno(c) ==
    /\ main = "accept" /\ Goto(c, "new", "creat")
    /\ jobid' = [jobid EXCEPT ![c] = nextjob]
    /\ nextjob' = Successor(nextjob)
    /\ UNCHANGED <<disk, main, pending, queue, reread, printer, counts>>

\* creat makes the data file, or truncates the one that is there.
CreateData(c) ==
    /\ Goto(c, "creat", "data")
    /\ data' = [data EXCEPT ![jobid[c]] = [of |-> c, has |-> "open"]]
    /\ UNCHANGED <<jobfile, reqs, main, pending, jobs, reread, jobid, printer, counts>>

\* The loop of tread and write up to the end of the data, or up to a read that
\* times out or fails: the thread goes on with what it has.  The writes go to
\* the file this thread created, which no longer has a name when another thread
\* unlinked it.
WriteData(c) ==
    /\ Goto(c, "data", "ctl")
    /\ \E h \in {"whole", "cut"} :
          data' = [data EXCEPT ![jobid[c]].has = IF data[jobid[c]].of = c THEN h ELSE "open"]
    /\ UNCHANGED <<jobfile, reqs, main, pending, jobs, reread, jobid, printer, counts>>

CreateControl(c) ==
    /\ Goto(c, "ctl", "request")
    /\ reqs' = [reqs EXCEPT ![jobid[c]] = Empty]
    /\ UNCHANGED <<jobfile, data, main, pending, jobs, reread, jobid, printer, counts>>

WriteControl(c) ==
    /\ Goto(c, "request", "respond")
    /\ reqs' = [reqs EXCEPT ![jobid[c]] = IF @ = Empty THEN c ELSE @]
    /\ UNCHANGED <<jobfile, data, main, pending, jobs, reread, jobid, printer, counts>>

\* A read of the header, a creat or a write fails: what was spooled is
\* unlinked, and the client is told.
ClientFails(c) ==
    LET n == jobid[c] IN
    /\ main = "accept" /\ cpc[c] \in {"new", "creat", "data", "ctl", "request"}
    /\ cpc' = [cpc EXCEPT ![c] = "failed"]
    /\ data' = IF cpc[c] \in {"data", "ctl", "request"}
               THEN [data EXCEPT ![n] = NoFile] ELSE data
    /\ reqs' = IF cpc[c] = "request" THEN [reqs EXCEPT ![n] = None] ELSE reqs
    /\ UNCHANGED <<jobfile, main, pending, jobs, reread, jobid, printer, counts>>

\* The client is told its job number.
Respond(c) ==
    /\ Goto(c, "respond", "add")
    /\ UNCHANGED <<disk, main, pending, jobs, reread, jobid, printer, counts>>

AddJob(c) ==
    /\ Goto(c, "add", "signal")
    /\ add_job(c, jobid[c])
    /\ UNCHANGED <<disk, main, pending, nextjob, reread, jobid, printer, counts>>

\* Mutant: the printer thread is not told.
MutSignal(c) ==
    /\ Goto(c, "signal", "done")
    /\ UNCHANGED <<disk, main, pending, jobs, reread, jobid, printer, counts>>

Signal(c) ==
    /\ Goto(c, "signal", "done")
    /\ signal_jobwait
    /\ UNCHANGED <<disk, main, pending, jobs, reread, jobid, jp, counts>>

-----------------------------------------------------------------------------
(* printer_thread.                                                         *)

\* The queue is looked at under joblock: wait, or take the first job.
GetJob ==
    /\ ppc = "get"
    /\ \/ /\ queue = <<>> /\ ppc' = "wait"
          /\ UNCHANGED <<queue, jp>>
       \/ /\ queue # <<>> /\ ppc' = "update"
          /\ jp' = Head(queue) /\ queue' = Tail(queue)
    /\ UNCHANGED <<disk, main, pending, nextjob, reread, clients, counts>>

\* pthread_cond_wait may return without a signal; the loop tests again.
Wakeup ==
    /\ ppc = "wait" /\ ppc' = "get"
    /\ UNCHANGED <<disk, main, pending, jobs, reread, clients, jp, counts>>

\* nextjob is read without joblock.
update_jobno ==
    /\ ppc = "update" /\ ppc' = "config"
    /\ jobfile' = nextjob
    /\ UNCHANGED <<data, reqs, main, pending, jobs, reread, clients, jp, counts>>

\* init_printer, when SIGHUP came; without a printer it ends the daemon.
Config ==
    /\ ppc = "config" /\ ppc' = "send"
    /\ reread' = FALSE
    /\ UNCHANGED <<disk, main, pending, jobs, clients, jp, counts>>

\* "job canceled": there is no data file.
CancelJob ==
    /\ ppc = "send" /\ data[jp.id] = NoFile
    /\ ppc' = "get" /\ jp' = NoJob
    /\ UNCHANGED <<disk, main, pending, jobs, reread, clients, counts>>

Paper == IF data[jp.id].has # "open" THEN [printed EXCEPT ![data[jp.id].of] = @ + 1]
                                     ELSE printed

\* The printer takes the data and printer_status returns 1.
PrintJob ==
    /\ ppc = "send" /\ data[jp.id] # NoFile
    /\ printed' = Paper
    /\ ppc' = "unlink_data"
    /\ UNCHANGED <<disk, main, pending, jobs, reread, clients, jp, lost, stops>>

\* "job deferred": the printer cannot be reached or refuses, or it has printed
\* the job and its answer is lost.
Defer ==
    /\ ppc = "send" /\ data[jp.id] # NoFile
    /\ \/ UNCHANGED <<printed, lost>>
       \/ lost < MaxLost /\ lost' = lost + 1 /\ printed' = Paper
    /\ replace_job(jp)
    /\ ppc' = "get" /\ jp' = NoJob
    /\ UNCHANGED <<disk, main, pending, nextjob, reread, clients, stops>>

\* Mutant: the data file stays, and with it the job.
MutUnlinkData ==
    /\ ppc = "unlink_data" /\ ppc' = "get" /\ jp' = NoJob
    /\ replace_job(jp)
    /\ UNCHANGED <<disk, main, pending, nextjob, reread, clients, counts>>

UnlinkData ==
    /\ ppc = "unlink_data" /\ ppc' = "unlink_req"
    /\ data' = [data EXCEPT ![jp.id] = NoFile]
    /\ UNCHANGED <<jobfile, reqs, main, pending, jobs, reread, clients, jp, counts>>

UnlinkReq ==
    /\ ppc = "unlink_req" /\ ppc' = "get"
    /\ reqs' = [reqs EXCEPT ![jp.id] = None]
    /\ jp' = NoJob
    /\ UNCHANGED <<jobfile, data, main, pending, jobs, reread, clients, counts>>

-----------------------------------------------------------------------------
Main == Start \/ ScanEntry \/ ScanSignal \/ ScanEnd

Client(c) ==
    \/ get_newjobno(c) \/ CreateData(c) \/ WriteData(c) \/ CreateControl(c)
    \/ WriteControl(c) \/ Respond(c) \/ AddJob(c) \/ Signal(c)

Printer == GetJob \/ update_jobno \/ Config \/ CancelJob \/ PrintJob \/ Defer
               \/ UnlinkData \/ UnlinkReq

Next ==
    \/ Main \/ Printer \/ Wakeup \/ Stop \/ SigHup
    \/ \E c \in Clients : Client(c) \/ ClientFails(c)

Spec == Init /\ [][Next]_vars

\* The scheduler runs every thread that can run, and a daemon that ended is
\* started again.
FairSpec ==
    /\ Spec
    /\ WF_vars(Main) /\ WF_vars(Printer)
    /\ \A c \in Clients : WF_vars(Client(c))

-----------------------------------------------------------------------------
(* Properties.                                                             *)

\* The client was told its job number.
Acked(c) == cpc[c] \in {"add", "signal", "done"}

\* A job a client was told of is not lost: until it is printed its own request
\* and all of its data that was received are in the spool directory under its
\* number.  (The client is told of its job also when its data was cut.)  The
\* number comes from nextjob, which only update_jobno makes last.
AckedKept ==
    \A c \in Clients :
        Acked(c) => \/ printed[c] > 0
                    \/ /\ data[jobid[c]].of = c /\ data[jobid[c]].has # "open"
                       /\ reqs[jobid[c]] = c

\* As long as the daemon stays up the numbers it hands out are fresh, so no
\* job a client was told of is lost, whoever fails and however often the
\* printer defers.
KeptWhileUp == stops = 0 => AckedKept

\* The daemon forgets nothing that is in the spool directory: a request with
\* its data is still to be read by build_qonstart, or queued, or with the printer
\* thread, or its client thread is about to queue it, at every step of a
\* start, of a client and of the printer, and after any number of restarts.
Spooled ==
    \A n \in Numbers :
        (main # "off" /\ reqs[n] \in Clients /\ data[n].of = reqs[n]) =>
            \/ n \in pending
            \/ n = jp.id
            \/ \E i \in DOMAIN queue : queue[i].id = n
            \/ \E c \in Clients : jobid[c] = n /\ cpc[c] \in {"respond", "add"}

\* A job is printed once, unless the printer's answer was lost or the daemon
\* ended between printing the job and unlinking its files: neither deferring a
\* job nor reading the spool directory on start-up queues it twice.
PrintedOnce == \A c \in Clients : printed[c] <= 1 + lost + stops

\* add_job signals after it released joblock, and the printer thread tests
\* the queue before it waits, so no signal is lost: a client's data and its
\* request, also those found at start-up, do not stay in the spool directory
\* together, unless the printer keeps deferring jobs.
Drains ==
    \/ \A c \in Clients :
            []<>(\A n \in Numbers : data[n].of # c \/ reqs[n] # c)
    \/ []<><<Defer>>_vars
=============================================================================
