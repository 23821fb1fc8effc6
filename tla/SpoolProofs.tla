---------------------------- MODULE SpoolProofs -----------------------------
(***************************************************************************)
(* The spool of the print spooler daemon, for any number of print          *)
(* requests, of ends of the daemon and of lost answers.                    *)
(***************************************************************************)
EXTENDS PrintSpool, TLAPS

-----------------------------------------------------------------------------
(* The inductive invariant.                                                *)

File == [of : Clients \cup {None}, has : {"open", "cut", "whole"}]

Entry == [id : Numbers, of : Clients]

\* The client's thread has a job number, and the printer thread has a job.
Numbered(c) == cpc[c] \in {"creat", "data", "ctl", "request", "respond", "add", "signal", "done"}

Busy == ppc \in {"update", "config", "send", "unlink_data", "unlink_req"}

SpoolTypes ==
    /\ jobfile \in Nat /\ nextjob \in Nat /\ printed \in [Clients -> Nat]
    /\ lost \in Nat /\ stops \in Nat
    /\ data \in [Numbers -> File]
    /\ reqs \in [Numbers -> Clients \cup {None, Empty}]
    /\ main \in {"off", "scan", "signal", "accept"}
    /\ pending \subseteq Numbers
    /\ queue \in Seq(Entry)
    /\ cpc \in [Clients -> {"new", "creat", "data", "ctl", "request", "respond", "add",
                            "signal", "done", "failed"}]
    /\ jobid \in [Clients -> Nat]
    /\ ppc \in {"off", "get", "wait", "update", "config", "send", "unlink_data", "unlink_req"}
    /\ IF Busy THEN jp \in Entry ELSE jp = NoJob

\* The thread that wrote file n has gone on.
Closed(n) == data[n].has # "open"

Asked == {c \in Clients : cpc[c] # "new"}

\* get_newjobno runs at most once for a client, and update_jobno writes no
\* number that nextjob did not have.
NumberInv ==
    /\ nextjob <= Cardinality(Asked) + 1 /\ jobfile <= Cardinality(Asked) + 1
    /\ main # "off" => nextjob > 0
    /\ \A c \in Clients : Numbered(c) => jobid[c] \in Numbers
    /\ main # "accept" => \A c \in Clients : cpc[c] \in {"new", "done", "failed"}
    /\ main = "off" => queue = <<>> /\ ppc = "off"

\* A request is in its control file when its client thread is through with it,
\* and data in the data file of the client's number.
FileInv ==
    /\ \A n \in Numbers, c \in Clients :
          reqs[n] = c => cpc[c] \notin {"new", "creat", "data", "ctl", "request"}
    /\ \A n \in Numbers, c \in Clients :
          data[n].of = c => /\ n = jobid[c] /\ cpc[c] \notin {"new", "creat"}
                            /\ cpc[c] = "data" => ~Closed(n)
    /\ \A n \in Numbers : data[n].of = None => ~Closed(n)

\* A job is printed when its answer is lost, or when the daemon ends before the
\* data is unlinked, and at one other time, after which its data is unlinked.
PrintInv ==
    \A c \in Clients :
        /\ cpc[c] \in {"new", "creat", "data"} => printed[c] = 0
        /\ printed[c] <= 1 + lost + stops
        /\ \A n \in Numbers :
              (data[n].of = c /\ Closed(n) /\ ~(ppc = "unlink_data" /\ jp.id = n)) =>
                  printed[c] <= lost + stops

\* Entry j is of a job a client was told of.
Known(j) == j.id = jobid[j.of] /\ cpc[j.of] \in {"signal", "done"}

\* The files under the client's number are its own, until its job is printed.
Own(c) ==
    /\ cpc[c] = "new" => jobid[c] = 0
    /\ cpc[c] = "data" => data[jobid[c]] = [of |-> c, has |-> "open"]
    /\ cpc[c] \in {"ctl", "request", "respond", "add", "signal", "done"} =>
          printed[c] > 0 \/ (data[jobid[c]].of = c /\ Closed(jobid[c]))
    /\ cpc[c] = "request" => reqs[jobid[c]] = Empty
    /\ cpc[c] \in {"respond", "add", "signal", "done"} => printed[c] > 0 \/ reqs[jobid[c]] = c

\* Before the daemon first ends, the numbers are fresh.
Fresh ==
    /\ main \in {"off", "scan"} => /\ \A c \in Clients : cpc[c] = "new" /\ jobid[c] = 0
                                   /\ \A n \in Numbers : reqs[n] = None
    /\ main # "signal" /\ pending = {}
    /\ main # "off" => \A c \in Clients : jobid[c] < nextjob
    /\ \A c, d \in Clients : jobid[c] = jobid[d] /\ jobid[c] # 0 => c = d

\* The jobs that are queued and with the printer thread.
KnownJobs ==
    /\ \A k \in DOMAIN queue : Known(queue[k])
    /\ Busy => Known(jp)
    /\ ppc \in {"unlink_data", "unlink_req"} => printed[jp.of] > 0

UpInv == stops = 0 => Fresh /\ KnownJobs /\ \A c \in Clients : Own(c)

USE DEF Closed

SpoolInv == SpoolTypes /\ NumberInv /\ FileInv /\ PrintInv /\ Spooled /\ UpInv

-----------------------------------------------------------------------------
(* The spool: types and numbers.                                           *)

\* replace_job puts an entry in front of a queue.
LEMMA Prepended ==
  ASSUME NEW S, NEW s \in Seq(S), NEW e \in S
  PROVE  <<e>> \o s \in Seq(S)
  OBVIOUS

\* The files and records the actions write.
LEMMA FileTypes ==
    /\ NoFile \in File /\ NoFile.of = None /\ NoFile.has = "open"
    /\ \A c \in Clients : /\ [of |-> c, has |-> "open"] \in File
                          /\ [of |-> c, has |-> "open"].of = c
                          /\ [of |-> c, has |-> "open"].has = "open"
    /\ \A n \in Numbers, c \in Clients : [id |-> n, of |-> c] \in Entry
    /\ NoJob.id = 0 /\ 0 \notin Numbers
  BY DEF NoFile, File, Entry, NoJob, Numbers

\* Every step keeps the types.
LEMMA TypesStep ==
  ASSUME SpoolInv, Next
  PROVE  SpoolTypes'
  <1>0. SpoolTypes /\ NumberInv /\ FileInv
    BY Zenon DEF SpoolInv
  <1> USE FileTypes DEF disk, jobs, clients, printer, counts
  <1>1. CASE Start
    <2>1. nextjob' \in Nat /\ pending' \subseteq Numbers /\ main' = "scan" /\ ppc' = "get"
      BY Zenon, <1>0, <1>1 DEF SpoolTypes, Start, PendingJobs
    <2>2. UNCHANGED <<jobfile, data, reqs, queue, cpc, jobid, jp, printed, lost, stops>>
      BY Zenon, <1>1 DEF Start
    <2>3. jp = NoJob
      BY Zenon, <1>0, <1>1 DEF SpoolTypes, Start, NumberInv, Busy
    <2> QED
      BY Zenon, <1>0, <2>1, <2>2, <2>3 DEF SpoolTypes, Busy
  <1>1c. CASE ScanEnd \/ SigHup
    BY Zenon, <1>0, <1>1c DEF SpoolTypes, Busy, ScanEnd, SigHup
  <1>1a. CASE Stop
    <2>1. cpc' \in [Clients -> {"new", "done", "failed"}]
      BY Zenon, <1>1a DEF Stop
    <2>2. UNCHANGED <<jobfile, data, reqs, jobid, printed, lost>> /\ stops' = stops + 1
      BY ZenonT(30), <1>1a DEF Stop
    <2>3. /\ main' = "off" /\ pending' = {} /\ nextjob' = 0 /\ queue' = <<>> /\ ppc' = "off"
          /\ jp' = NoJob
      BY Zenon, <1>1a DEF Stop
    <2> QED
      BY <1>0, <2>1, <2>2, <2>3 DEF SpoolTypes, Busy
  <1>1b. CASE ScanSignal
    BY Zenon, <1>0, <1>1b DEF SpoolTypes, Busy, ScanSignal, signal_jobwait
  <1>2. CASE ScanEntry
    <2>1. PICK n \in pending :
             /\ pending' = pending \ {n}
             /\ \/ /\ reqs[n] = Empty
                   /\ reqs' = [reqs EXCEPT ![n] = None]
                   /\ data' = [data EXCEPT ![n] = NoFile]
                   /\ UNCHANGED <<main, queue>>
                \/ /\ reqs[n] \in Clients /\ add_job(reqs[n], n) /\ main' = "signal"
                   /\ UNCHANGED <<data, reqs>>
      BY Zenon, <1>2 DEF ScanEntry
    <2>2. n \in Numbers /\ pending' \subseteq Numbers
      BY Zenon, <1>0, <2>1 DEF SpoolTypes
    <2>3. /\ data' \in [Numbers -> File] /\ reqs' \in [Numbers -> Clients \cup {None, Empty}]
          /\ queue' \in Seq(Entry) /\ main' \in {"off", "scan", "signal", "accept"}
      <3>1. CASE /\ reqs' = [reqs EXCEPT ![n] = None] /\ data' = [data EXCEPT ![n] = NoFile]
                 /\ UNCHANGED <<main, queue>>
        BY Zenon, <1>0, <2>2, <3>1 DEF SpoolTypes
      <3>2. CASE /\ reqs[n] \in Clients /\ add_job(reqs[n], n) /\ main' = "signal"
                 /\ UNCHANGED <<data, reqs>>
        <4>1. [id |-> n, of |-> reqs[n]] \in Entry
          BY Zenon, <2>2, <3>2
        <4> QED
          BY <1>0, <3>2, <4>1 DEF SpoolTypes, add_job
      <3> QED
        BY Zenon, <2>1, <3>1, <3>2
    <2>6. UNCHANGED <<jobfile, nextjob, cpc, jobid, ppc, jp, printed, lost, stops>>
      BY Zenon, <1>2 DEF ScanEntry
    <2> QED
      BY Zenon, <1>0, <2>2, <2>3, <2>6 DEF SpoolTypes, Busy
  <1>3. ASSUME NEW c \in Clients, get_newjobno(c) \/ Respond(c) \/ AddJob(c) \/ Signal(c)
        PROVE  SpoolTypes'
    <2>1. queue' \in Seq(Entry)
      <3>1. CASE AddJob(c)
        <4>1. [id |-> jobid[c], of |-> c] \in Entry
          BY Zenon, <1>0, <3>1 DEF AddJob, Goto, NumberInv, Numbered
        <4> QED
          BY <1>0, <3>1, <4>1 DEF SpoolTypes, AddJob, add_job
      <3> QED
        BY Zenon, <1>0, <1>3, <3>1 DEF SpoolTypes, get_newjobno, Respond, Signal
    <2>2. /\ nextjob' \in Nat /\ jobid' \in [Clients -> Nat]
          /\ UNCHANGED <<jobfile, data, reqs, main, pending, jp, printed, lost, stops>>
      BY <1>0, <1>3 DEF SpoolTypes, get_newjobno, Successor, Respond, AddJob, Signal
    <2>3. \E to \in {"creat", "add", "signal", "done"} : cpc' = [cpc EXCEPT ![c] = to]
      BY ZenonT(30), <1>3 DEF get_newjobno, Respond, AddJob, Signal, Goto
    <2>4. ppc' = ppc \/ (ppc = "wait" /\ ppc' = "get")
      BY ZenonT(30), <1>3 DEF get_newjobno, Respond, AddJob, Signal, signal_jobwait
    <2> QED
      BY SMTT(20), <1>0, <2>1, <2>2, <2>3, <2>4 DEF SpoolTypes, Busy
  <1>4. ASSUME NEW c \in Clients,
               \/ CreateData(c) \/ WriteData(c) \/ CreateControl(c) \/ WriteControl(c)
               \/ ClientFails(c)
        PROVE  SpoolTypes'
    <2>1. data' \in [Numbers -> File]
      <3>1. CASE WriteData(c)
        <4>1. jobid[c] \in Numbers /\ data[jobid[c]] \in File
          BY Zenon, <1>0, <3>1 DEF WriteData, Goto, NumberInv, Numbered, SpoolTypes
        <4>2. \A h \in {"whole", "cut", "open"} : [data[jobid[c]] EXCEPT !.has = h] \in File
          BY Zenon, <4>1 DEF File
        <4>3. PICK h \in {"whole", "cut"} : data' =
                 [data EXCEPT ![jobid[c]].has = IF data[jobid[c]].of = c THEN h ELSE "open"]
          BY Zenon, <3>1 DEF WriteData
        <4>4. PICK g \in {"whole", "cut", "open"} :
                 data' = [data EXCEPT ![jobid[c]] = [data[jobid[c]] EXCEPT !.has = g]]
          BY Zenon, <4>3
        <4> QED
          BY Zenon, <1>0, <4>2, <4>4 DEF SpoolTypes
      <3> QED
        BY ZenonT(30), <1>0, <1>4, <3>1 DEF CreateData, CreateControl, WriteControl, ClientFails, SpoolTypes
    <2>2. /\ reqs' \in [Numbers -> Clients \cup {None, Empty}]
      <3>1. CASE CreateData(c) \/ WriteData(c)
        BY Zenon, <1>0, <3>1 DEF CreateData, WriteData, SpoolTypes
      <3>2. CASE CreateControl(c) \/ WriteControl(c) \/ ClientFails(c)
        <4>1. CASE CreateControl(c)
          BY Zenon, <1>0, <4>1 DEF CreateControl, SpoolTypes
        <4>2. CASE WriteControl(c)
          BY Zenon, <1>0, <4>2 DEF WriteControl, SpoolTypes
        <4>3. CASE ClientFails(c)
          BY Zenon, <1>0, <4>3 DEF ClientFails, SpoolTypes
        <4> QED
          BY Zenon, <3>2, <4>1, <4>2, <4>3
      <3> QED
        BY Zenon, <1>4, <3>1, <3>2
    <2>3. /\ UNCHANGED <<jobfile, nextjob, queue, main, pending, printed, lost, stops, jobid, ppc,
                         jp>>
          /\ \E to \in {"data", "ctl", "request", "respond", "failed"} :
                cpc' = [cpc EXCEPT ![c] = to]
      BY Zenon, <1>4 DEF CreateData, WriteData, CreateControl, WriteControl, ClientFails, Goto
    <2> QED
      BY SMTT(20), <1>0, <2>1, <2>2, <2>3 DEF SpoolTypes, Busy
  <1>5. CASE GetJob
    <2>1. CASE queue = <<>>
      BY Zenon, <1>0, <1>5, <2>1 DEF GetJob, SpoolTypes, Busy
    <2>2. CASE queue # <<>>
      <3>1. Head(queue) \in Entry /\ Tail(queue) \in Seq(Entry)
        BY <1>0, <2>2 DEF SpoolTypes
      <3> QED
        BY ZenonT(30), <1>0, <1>5, <2>2, <3>1 DEF GetJob, SpoolTypes, Busy
    <2> QED
      BY Zenon, <2>1, <2>2
  <1>6. CASE Wakeup \/ update_jobno \/ Config \/ CancelJob
    BY Zenon, <1>0, <1>6 DEF SpoolTypes, Busy, Wakeup, update_jobno, Config, CancelJob
  <1>7. CASE UnlinkData \/ UnlinkReq
    BY ZenonT(90), <1>0, <1>7 DEF SpoolTypes, Busy, UnlinkData, UnlinkReq
  <1>8. CASE PrintJob \/ Defer
    <2>1. printed' \in [Clients -> Nat] /\ lost' \in Nat
      <3>1. Paper \in [Clients -> Nat]
        <4>1. data[jp.id] \in File
          BY Zenon, <1>0, <1>8 DEF PrintJob, Defer, SpoolTypes, Busy, Entry
        <4>2. Closed(jp.id) => data[jp.id].of \in Clients
          BY Zenon, <1>0, <1>8, <4>1 DEF PrintJob, Defer, SpoolTypes, Busy, Entry, File, FileInv
        <4> QED
          BY <1>0, <4>1, <4>2 DEF Paper, SpoolTypes
      <3> QED
        BY <1>0, <1>8, <3>1 DEF PrintJob, Defer, SpoolTypes
    <2>2. queue' \in Seq(Entry)
      <3>1. queue \in Seq(Entry) /\ jp \in Entry
        BY Zenon, <1>0, <1>8 DEF PrintJob, Defer, SpoolTypes, Busy
      <3>2. queue' = queue \/ queue' = <<jp>> \o queue
        BY Zenon, <1>8 DEF PrintJob, Defer, replace_job, jobs
      <3> QED
        BY Zenon, <3>1, <3>2, Prepended
    <2> QED
      BY Zenon, <1>0, <1>8, <2>1, <2>2 DEF PrintJob, Defer, SpoolTypes, Busy
  <1> QED
    BY Zenon, <1>1, <1>1a, <1>1b, <1>1c, <1>2, <1>3, <1>4, <1>5, <1>6, <1>7, <1>8
       DEF Next, Main, Client, Printer

\* Steps of a client thread after get_newjobno: the number stays, and they only
\* happen once the daemon accepts connections.
LEMMA ClientMoves ==
  ASSUME SpoolInv, NEW c \in Clients,
         \/ CreateData(c) \/ WriteData(c) \/ CreateControl(c) \/ WriteControl(c)
         \/ Respond(c) \/ AddJob(c) \/ Signal(c) \/ ClientFails(c)
  PROVE  /\ main = "accept"
         /\ \E to \in {"data", "ctl", "request", "respond", "add", "signal", "done", "failed"} :
               /\ cpc' = [cpc EXCEPT ![c] = to]
               /\ to # "failed" => Numbered(c)
         /\ UNCHANGED <<jobfile, main, pending, nextjob, jobid, jp, printed, lost, stops>>
         /\ ppc' = ppc \/ (ppc = "wait" /\ ppc' = "get")
  <1> USE DEF disk, jobs, clients, printer, counts
  <1>1. main = "accept"
    <2>1. cpc[c] \notin {"new", "done", "failed"} \/ main = "accept"
      BY Zenon DEF CreateData, WriteData, CreateControl, WriteControl, Respond, AddJob, Signal,
             ClientFails, Goto
    <2> QED
      BY ZenonT(30), <2>1 DEF SpoolInv, NumberInv
  <1>2. /\ \E to \in {"data", "ctl", "request", "respond", "add", "signal", "done", "failed"} :
              /\ cpc' = [cpc EXCEPT ![c] = to]
              /\ to # "failed" => Numbered(c)
    BY Zenon DEF CreateData, WriteData, CreateControl, WriteControl, Respond, AddJob, Signal,
           ClientFails, Goto, Numbered
  <1>3. /\ UNCHANGED <<jobfile, main, pending, nextjob, jobid, jp, printed, lost, stops>>
        /\ ppc' = ppc \/ (ppc = "wait" /\ ppc' = "get")
    BY Zenon DEF CreateData, WriteData, CreateControl, WriteControl, Respond, AddJob, Signal,
           ClientFails, signal_jobwait
  <1> QED
    BY ZenonT(30), <1>1, <1>2, <1>3

-----------------------------------------------------------------------------
(* The spool: whose the files are, and how often a job is printed.         *)

Early == {"new", "creat", "data", "ctl", "request"}

\* A step that writes nothing: files may go, and threads may move on.
WritesNothing ==
    /\ \A n \in Numbers : data'[n] \in {data[n], NoFile} /\ reqs'[n] \in {reqs[n], None, Empty}
    /\ \A c \in Clients : /\ cpc'[c] \in Early => cpc[c] \in Early
                          /\ cpc'[c] \in {"new", "creat"} => cpc[c] \in {"new", "creat"}
                          /\ cpc'[c] = "data" => cpc[c] = "data"
                          /\ cpc[c] # "new" => jobid'[c] = jobid[c]

\* Files that no step writes keep their owners.
LEMMA FileKeeps ==
  ASSUME SpoolInv, WritesNothing
  PROVE  FileInv'
  <1> USE ClientsAssumption, FileTypes DEF SpoolInv, FileInv, WritesNothing
  <1>1. ASSUME NEW n \in Numbers, NEW c \in Clients, reqs'[n] = c
        PROVE  cpc'[c] \notin Early
    BY ZenonT(30), <1>1 DEF Early
  <1>2. ASSUME NEW n \in Numbers, NEW c \in Clients, data'[n].of = c
        PROVE  /\ n = jobid'[c] /\ cpc'[c] \notin {"new", "creat"}
               /\ cpc'[c] = "data" => ~Closed(n)'
    <2>1. data'[n] = data[n]
      BY Zenon, <1>2
    <2> QED
      BY <1>2, <2>1
  <1>3. ASSUME NEW n \in Numbers, data'[n].of = None
        PROVE  ~Closed(n)'
    <2>1. data'[n] = data[n] \/ data'[n] = NoFile
      BY Zenon
    <2> QED
      BY <1>3, <2>1
  <1> QED
    BY Zenon, <1>1, <1>2, <1>3 DEF Early

\* WriteData closes the file of its own client, with all of the data or a part.
LEMMA WriteStep ==
  ASSUME SpoolTypes, NEW c \in Clients, WriteData(c), jobid[c] \in Numbers
  PROVE  /\ \A n \in Numbers : data'[n].of = data[n].of /\ (n # jobid[c] => data'[n] = data[n])
         /\ \A n \in Numbers : Closed(n)' => IF n = jobid[c] THEN data[n].of = c ELSE Closed(n)
         /\ data[jobid[c]].of = c => data'[jobid[c]].has # "open"
  <1>1. PICK h \in {"whole", "cut"} :
          data' = [data EXCEPT ![jobid[c]].has = IF data[jobid[c]].of = c THEN h ELSE "open"]
    BY Zenon DEF WriteData
  <1>2. data[jobid[c]] \in File
    BY Zenon DEF SpoolTypes
  <1>3. \A n \in Numbers : n # jobid[c] => data'[n] = data[n]
    BY Zenon, <1>1 DEF SpoolTypes
  <1>4. data'[jobid[c]] = [data[jobid[c]] EXCEPT !.has = IF data[jobid[c]].of = c THEN h ELSE "open"]
    BY Zenon, <1>1 DEF SpoolTypes
  <1>5. /\ data'[jobid[c]].of = data[jobid[c]].of
        /\ data'[jobid[c]].has = IF data[jobid[c]].of = c THEN h ELSE "open"
    BY <1>2, <1>4 DEF File
  <1>6. \A n \in Numbers : Closed(n)' => IF n = jobid[c] THEN data[n].of = c ELSE Closed(n)
    BY <1>3, <1>5 DEF Closed
  <1> QED
    BY <1>1, <1>3, <1>5, <1>6

\* Every step keeps whose data is in which file.
LEMMA FileStep ==
  ASSUME SpoolInv, Next
  PROVE  FileInv'
  <1>0. SpoolTypes /\ NumberInv /\ FileInv
    BY Zenon DEF SpoolInv
  <1> USE DEF disk, jobs, clients, printer, counts
  <1>1. ASSUME NEW c \in Clients, CreateData(c)
        PROVE  FileInv'
    <2>1. /\ cpc[c] = "creat" /\ cpc' = [cpc EXCEPT ![c] = "data"] /\ jobid[c] \in Numbers
          /\ data' = [data EXCEPT ![jobid[c]] = [of |-> c, has |-> "open"]]
          /\ UNCHANGED <<reqs, jobid>>
      BY Zenon, <1>0, <1>1 DEF CreateData, Goto, NumberInv, Numbered
    <2>2. \A d \in Clients : cpc'[d] = IF d = c THEN "data" ELSE cpc[d]
      BY Zenon, <1>0, <2>1 DEF SpoolTypes
    <2>3. \A n \in Numbers : data'[n] = IF n = jobid[c] THEN [of |-> c, has |-> "open"] ELSE data[n]
      BY Zenon, <1>0, <2>1 DEF SpoolTypes
    <2> QED
      BY <1>0, <2>1, <2>2, <2>3, ClientsAssumption DEF FileInv
  <1>2. ASSUME NEW c \in Clients, WriteData(c)
        PROVE  FileInv'
    <2>1. /\ cpc[c] = "data" /\ cpc' = [cpc EXCEPT ![c] = "ctl"] /\ jobid[c] \in Numbers
          /\ UNCHANGED <<reqs, jobid>>
      BY Zenon, <1>0, <1>2 DEF WriteData, Goto, NumberInv, Numbered
    <2>2. \A d \in Clients : cpc'[d] = IF d = c THEN "ctl" ELSE cpc[d]
      BY Zenon, <1>0, <2>1 DEF SpoolTypes
    <2>3. \A n \in Numbers : /\ data'[n].of = data[n].of
                             /\ Closed(n)' =>
                                   IF n = jobid[c] THEN data[n].of = c ELSE Closed(n)
      BY Zenon, <1>0, <1>2, <2>1, WriteStep
    <2> QED
      BY <1>0, <2>1, <2>2, <2>3, ClientsAssumption DEF FileInv
  <1>3. ASSUME NEW c \in Clients, WriteControl(c)
        PROVE  FileInv'
    <2>1. /\ cpc[c] = "request" /\ cpc' = [cpc EXCEPT ![c] = "respond"] /\ jobid[c] \in Numbers
          /\ reqs' = [reqs EXCEPT ![jobid[c]] = IF @ = Empty THEN c ELSE @]
          /\ UNCHANGED <<data, jobid>>
      BY Zenon, <1>0, <1>3 DEF WriteControl, Goto, NumberInv, Numbered
    <2>2. \A d \in Clients : cpc'[d] = IF d = c THEN "respond" ELSE cpc[d]
      BY Zenon, <1>0, <2>1 DEF SpoolTypes
    <2>3. \A n \in Numbers : reqs'[n] \in {reqs[n], c}
      BY Zenon, <1>0, <2>1 DEF SpoolTypes
    <2> QED
      BY <1>0, <2>1, <2>2, <2>3 DEF FileInv
  <1>4. ASSUME NEW c \in Clients,
               \/ get_newjobno(c) \/ CreateControl(c) \/ Respond(c) \/ AddJob(c) \/ Signal(c)
               \/ ClientFails(c)
        PROVE  FileInv'
    <2>1. \A n \in Numbers : data'[n] \in {data[n], NoFile} /\ reqs'[n] \in {reqs[n], None, Empty}
      <3>1. CASE CreateControl(c)
        BY Zenon, <1>0, <3>1 DEF CreateControl, SpoolTypes
      <3>2. CASE ClientFails(c)
        BY Zenon, <1>0, <3>2 DEF ClientFails, SpoolTypes
      <3>3. CASE ~CreateControl(c) /\ ~ClientFails(c)
        BY Zenon, <1>4, <3>3 DEF get_newjobno, Respond, AddJob, Signal
      <3> QED
        BY Zenon, <3>1, <3>2, <3>3
    <2>2. PICK to \in {"creat", "request", "add", "signal", "done", "failed"} :
             /\ cpc' = [cpc EXCEPT ![c] = to]
             /\ to = "creat" => cpc[c] = "new"
             /\ to = "request" => cpc[c] = "ctl"
             /\ \/ jobid' = jobid
                \/ cpc[c] = "new" /\ jobid' = [jobid EXCEPT ![c] = nextjob]
      BY Zenon, <1>4 DEF get_newjobno, CreateControl, Respond, AddJob, Signal, ClientFails, Goto
    <2>3. \A d \in Clients : /\ cpc'[d] = IF d = c THEN to ELSE cpc[d]
                             /\ cpc[d] # "new" => jobid'[d] = jobid[d]
      BY Zenon, <1>0, <2>2 DEF SpoolTypes
    <2>4. WritesNothing
      BY Zenon, <2>1, <2>2, <2>3 DEF WritesNothing, Early
    <2> QED
      BY Zenon, <2>4, FileKeeps
  <1>5. CASE Stop
    <2>1. \A c \in Clients : cpc'[c] \in {"new", "done", "failed"}
                            /\ (cpc'[c] = "new" => cpc[c] = "new")
      BY Zenon, <1>5 DEF Stop
    <2>2. UNCHANGED <<data, reqs, jobid>>
      BY Zenon, <1>5 DEF Stop
    <2>3. WritesNothing
      BY Zenon, <2>1, <2>2 DEF WritesNothing, Early
    <2> QED
      BY Zenon, <2>3, FileKeeps
  <1>6. CASE Start \/ ScanEntry \/ ScanSignal \/ ScanEnd \/ SigHup \/ Printer \/ Wakeup
    <2>1. UNCHANGED <<cpc, jobid>>
      BY ZenonT(30), <1>6 DEF Start, ScanEntry, ScanSignal, ScanEnd, SigHup, Printer, GetJob, Wakeup,
                  update_jobno, Config, CancelJob, PrintJob, Defer, UnlinkData, UnlinkReq
    <2>2. \A n \in Numbers : data'[n] \in {data[n], NoFile} /\ reqs'[n] \in {reqs[n], None, Empty}
      <3>1. CASE ScanEntry
        BY Zenon, <1>0, <3>1 DEF ScanEntry, SpoolTypes
      <3>2. CASE UnlinkData \/ UnlinkReq
        BY Zenon, <1>0, <3>2 DEF UnlinkData, UnlinkReq, SpoolTypes
      <3>3. CASE ~ScanEntry /\ ~UnlinkData /\ ~UnlinkReq
        BY ZenonT(30), <1>6, <3>3 DEF Start, ScanSignal, ScanEnd, SigHup, Printer, GetJob, Wakeup,
                          update_jobno, Config, CancelJob, PrintJob, Defer
      <3> QED
        BY Zenon, <3>1, <3>2, <3>3
    <2>3. WritesNothing
      BY Zenon, <2>1, <2>2 DEF WritesNothing
    <2> QED
      BY Zenon, <2>3, FileKeeps
  <1> QED
    BY Zenon, <1>1, <1>2, <1>3, <1>4, <1>5, <1>6 DEF Next, Main, Client

\* A step that prints nothing and completes no data file.
LEMMA PrintKeeps ==
  ASSUME SpoolInv, UNCHANGED <<printed, lost, stops>>,
         \A c \in Clients : cpc'[c] \in {"new", "creat", "data"} => cpc[c] \in {"new", "creat", "data"},
         \A n \in Numbers :
            Closed(n)' => /\ data'[n] = data[n]
                          /\ ppc = "unlink_data" /\ jp.id = n =>
                                ppc' = "unlink_data" /\ jp'.id = n
  PROVE  PrintInv'
  <1>1. PrintInv /\ \A n \in Numbers : Closed(n)' => Closed(n)
    BY DEF SpoolInv
  <1> HIDE DEF Closed
  <1>2. ASSUME NEW c \in Clients, NEW n \in Numbers, data'[n].of = c, Closed(n)',
               ~(ppc' = "unlink_data" /\ jp'.id = n)
        PROVE  printed[c] <= lost + stops
    BY Zenon, <1>1, <1>2 DEF PrintInv
  <1> QED
    BY Zenon, <1>1, <1>2 DEF PrintInv

\* Every step keeps the count of printed copies.
LEMMA PrintStep ==
  ASSUME SpoolInv, Next
  PROVE  PrintInv'
  <1>0. SpoolTypes /\ NumberInv /\ FileInv /\ PrintInv
    BY Zenon DEF SpoolInv
  <1> USE DEF disk, jobs, clients, printer, counts
  <1>1. ASSUME NEW c \in Clients, WriteData(c)
        PROVE  PrintInv'
    <2>1. /\ cpc[c] = "data" /\ cpc' = [cpc EXCEPT ![c] = "ctl"] /\ jobid[c] \in Numbers
          /\ UNCHANGED <<printed, lost, stops, ppc, jp>>
      BY Zenon, <1>0, <1>1 DEF WriteData, Goto, NumberInv, Numbered
    <2>2. \A d \in Clients : cpc'[d] = IF d = c THEN "ctl" ELSE cpc[d]
      BY Zenon, <1>0, <2>1 DEF SpoolTypes
    <2>3. \A n \in Numbers : /\ data'[n].of = data[n].of
                             /\ Closed(n)' => data[n].of = c \/ Closed(n)
      BY Zenon, <1>0, <1>1, <2>1, WriteStep
    <2>4. printed[c] = 0
      BY Zenon, <1>0, <2>1 DEF PrintInv
    <2>5. lost \in Nat /\ stops \in Nat
      BY Zenon, <1>0 DEF SpoolTypes
    <2> HIDE DEF Closed
    <2> QED
      BY SMTT(20), <1>0, <2>1, <2>2, <2>3, <2>4, <2>5 DEF PrintInv
  <1>2. ASSUME NEW c \in Clients,
               \/ get_newjobno(c) \/ CreateData(c) \/ CreateControl(c) \/ WriteControl(c)
               \/ Respond(c) \/ AddJob(c) \/ Signal(c) \/ ClientFails(c)
        PROVE  PrintInv'
    <2>1. \A n \in Numbers : Closed(n)' => data'[n] = data[n]
      <3>1. CASE CreateData(c)
        BY Zenon, <1>0, <3>1 DEF CreateData, SpoolTypes
      <3>2. CASE ClientFails(c)
        BY Zenon, <1>0, <3>2, FileTypes DEF ClientFails, SpoolTypes
      <3>3. CASE ~CreateData(c) /\ ~ClientFails(c)
        BY ZenonT(30), <1>2, <3>3 DEF get_newjobno, CreateControl, WriteControl, Respond, AddJob, Signal
      <3> QED
        BY Zenon, <3>1, <3>2, <3>3
    <2>2. PICK to \in {"creat", "data", "request", "respond", "add", "signal", "done", "failed"} :
             /\ cpc' = [cpc EXCEPT ![c] = to]
             /\ to \in {"creat", "data"} => cpc[c] \in {"new", "creat"}
      BY ZenonT(90), <1>2 DEF get_newjobno, CreateData, CreateControl, WriteControl, Respond, AddJob, Signal,
                  ClientFails, Goto
    <2>3. \A d \in Clients : cpc'[d] = IF d = c THEN to ELSE cpc[d]
      BY Zenon, <1>0, <2>2 DEF SpoolTypes
    <2>4. UNCHANGED <<printed, lost, stops, jp>>
      BY ZenonT(30), <1>2 DEF get_newjobno, CreateData, CreateControl, WriteControl, Respond, AddJob, Signal,
                  ClientFails
    <2>5. ppc = "unlink_data" => ppc' = "unlink_data"
      BY ZenonT(30), <1>2 DEF get_newjobno, CreateData, CreateControl, WriteControl, Respond, AddJob, Signal,
                  ClientFails, signal_jobwait
    <2> QED
      BY Zenon, <2>1, <2>2, <2>3, <2>4, <2>5, PrintKeeps
  <1>3. CASE Stop
    <2>1. \A c \in Clients : cpc'[c] \in {"new", "creat", "data"} => cpc[c] = "new"
      BY Zenon, <1>3 DEF Stop
    <2>2. UNCHANGED <<data, printed, lost>> /\ stops' = stops + 1
      BY Zenon, <1>3 DEF Stop
    <2> QED
      BY <1>0, <2>1, <2>2 DEF PrintInv, SpoolTypes
  <1>4. CASE Start \/ ScanSignal \/ ScanEnd \/ SigHup \/ Wakeup
    <2>1. UNCHANGED <<data, cpc, printed, lost, stops, jp>>
      BY Zenon, <1>4 DEF Start, ScanSignal, ScanEnd, SigHup, Wakeup
    <2>2. ppc = "unlink_data" => ppc' = "unlink_data"
      BY Zenon, <1>0, <1>4 DEF Start, ScanSignal, ScanEnd, SigHup, Wakeup, signal_jobwait, NumberInv
    <2> QED
      BY Zenon, <2>1, <2>2, PrintKeeps
  <1>5. CASE ScanEntry \/ UnlinkData
    <2>1. \A n \in Numbers : Closed(n)' =>
             data'[n] = data[n] /\ (UnlinkData => n # jp.id)
      BY ZenonT(90), <1>0, <1>5, FileTypes DEF ScanEntry, UnlinkData, SpoolTypes
    <2>2. UNCHANGED <<cpc, printed, lost, stops, jp>> /\ (~UnlinkData => ppc' = ppc)
      BY ZenonT(30), <1>5 DEF ScanEntry, UnlinkData
    <2> QED
      BY Zenon, <1>5, <2>1, <2>2, PrintKeeps
  <1>6. CASE GetJob \/ update_jobno \/ Config \/ CancelJob \/ UnlinkReq
    BY ZenonT(30), <1>6, PrintKeeps DEF GetJob, update_jobno, Config, CancelJob, UnlinkReq
  <1>7. CASE PrintJob \/ Defer
    <2>1. ppc = "send" /\ jp.id \in Numbers /\ UNCHANGED <<data, cpc, stops>>
      BY Zenon, <1>0, <1>7 DEF PrintJob, Defer, SpoolTypes, Busy, Entry
    <2>2. Closed(jp.id) => data[jp.id].of \in Clients
      BY Zenon, <1>0, <2>1 DEF SpoolTypes, FileInv, File
    <2>3. ASSUME NEW c \in Clients
          PROVE  \/ Paper[c] = printed[c]
                 \/ /\ Paper[c] = printed[c] + 1 /\ Closed(jp.id) /\ data[jp.id].of = c
                    /\ cpc[c] \notin {"new", "creat", "data"} /\ jp.id = jobid[c]
                    /\ printed[c] <= lost + stops
      BY ZenonT(30), <1>0, <2>1, <2>2 DEF Paper, SpoolTypes, FileInv, PrintInv
    <2>4. CASE printed' = printed /\ lost' = lost
      BY Zenon, <1>0, <2>1, <2>4 DEF PrintInv
    <2>5. CASE printed' = Paper /\ lost' = lost /\ ppc' = "unlink_data" /\ jp' = jp
      <3>1. ASSUME NEW c \in Clients, Paper[c] = printed[c]
            PROVE  /\ cpc'[c] \in {"new", "creat", "data"} => printed'[c] = 0
                   /\ printed'[c] <= 1 + lost' + stops'
                   /\ \A n \in Numbers :
                         (data'[n].of = c /\ Closed(n)'
                             /\ ~(ppc' = "unlink_data" /\ jp'.id = n)) =>
                            printed'[c] <= lost' + stops'
        BY Zenon, <1>0, <2>1, <2>5, <3>1 DEF PrintInv
      <3>2. ASSUME NEW c \in Clients, Paper[c] # printed[c]
            PROVE  /\ cpc'[c] \notin {"new", "creat", "data"}
                   /\ printed'[c] <= 1 + lost' + stops'
                   /\ \A n \in Numbers : data'[n].of = c => n = jp'.id
        <4>1. /\ Paper[c] = printed[c] + 1 /\ cpc[c] \notin {"new", "creat", "data"}
              /\ jp.id = jobid[c] /\ printed[c] <= lost + stops
          BY Zenon, <2>3, <3>2
        <4>2. printed[c] \in Nat /\ lost \in Nat /\ stops \in Nat
          BY Zenon, <1>0 DEF SpoolTypes
        <4>3. \A n \in Numbers : data[n].of = c => n = jobid[c]
          BY Zenon, <1>0 DEF FileInv
        <4> QED
          BY <2>1, <2>5, <4>1, <4>2, <4>3
      <3> QED
        BY Zenon, <2>5, <3>1, <3>2 DEF PrintInv
    <2>6. CASE printed' = Paper /\ lost' = lost + 1
      BY <1>0, <2>1, <2>3, <2>6 DEF PrintInv, SpoolTypes
    <2> QED
      BY ZenonT(30), <1>7, <2>4, <2>5, <2>6 DEF PrintJob, Defer
  <1> QED
    BY Zenon, <1>1, <1>2, <1>3, <1>4, <1>5, <1>6, <1>7 DEF Next, Main, Client, Printer

-----------------------------------------------------------------------------
(* The spool: nothing in the directory is forgotten.                       *)

\* The request of number n is there with its data, and who knows of it.
Filed(n) == reqs[n] \in Clients /\ data[n].of = reqs[n]

Tracked(n) ==
    \/ n \in pending
    \/ n = jp.id
    \/ \E k \in DOMAIN queue : queue[k].id = n
    \/ \E c \in Clients : jobid[c] = n /\ cpc[c] \in {"respond", "add"}

\* Spooled, number by number.
LEMMA SpooledIs == Spooled <=> \A n \in Numbers : main # "off" /\ Filed(n) => Tracked(n)
  BY Zenon DEF Spooled, Filed, Tracked

\* Where the jobs of a queue are after the queue's operations.
LEMMA QueueIds ==
  ASSUME NEW q \in Seq(Entry), NEW j \in Entry
  PROVE  /\ \A k \in DOMAIN q : k \in DOMAIN Append(q, j) /\ Append(q, j)[k] = q[k]
         /\ Len(q) + 1 \in DOMAIN Append(q, j) /\ Append(q, j)[Len(q) + 1] = j
         /\ 1 \in DOMAIN (<<j>> \o q) /\ (<<j>> \o q)[1] = j
         /\ \A k \in DOMAIN q : k + 1 \in DOMAIN (<<j>> \o q) /\ (<<j>> \o q)[k + 1] = q[k]
         /\ q # <<>> => \A k \in DOMAIN q : \/ q[k] = Head(q)
                                            \/ k - 1 \in DOMAIN Tail(q) /\ Tail(q)[k - 1] = q[k]
  OBVIOUS
\* Every step keeps track of every job in the spool directory.
LEMMA SpooledStep ==
  ASSUME SpoolInv, Next
  PROVE  Spooled'
  <1>0. SpoolTypes /\ NumberInv /\ FileInv
    BY Zenon DEF SpoolInv
  <1>s. \A n \in Numbers : main # "off" /\ Filed(n) => Tracked(n)
    BY Zenon, SpooledIs DEF SpoolInv
  <1> USE DEF disk, jobs, clients, printer, counts
  <1> SUFFICES ASSUME NEW n \in Numbers, main' # "off", Filed(n)'
               PROVE  Tracked(n)'
    BY Zenon DEF Spooled, Filed, Tracked
  <1>n. n # 0 /\ None \notin Clients /\ Empty \notin Clients
    BY ClientsAssumption DEF Numbers
  <1>1. CASE Start
    BY Zenon, <1>1, <1>n DEF Start, PendingJobs, Filed, Tracked
  <1>2. CASE Stop
    BY Zenon, <1>2 DEF Stop
  <1>3. CASE ScanEntry
    <2>1. PICK m \in pending :
             /\ pending' = pending \ {m}
             /\ \/ /\ reqs' = [reqs EXCEPT ![m] = None]
                   /\ data' = [data EXCEPT ![m] = NoFile]
                   /\ UNCHANGED <<main, queue>>
                \/ /\ reqs[m] \in Clients /\ queue' = Append(queue, [id |-> m, of |-> reqs[m]])
                   /\ UNCHANGED <<data, reqs>>
      BY Zenon, <1>3 DEF ScanEntry, add_job
    <2>2. main # "off" /\ UNCHANGED <<jp, cpc, jobid>> /\ m \in Numbers
      BY Zenon, <1>0, <1>3 DEF ScanEntry, SpoolTypes
    <2>3. CASE /\ reqs' = [reqs EXCEPT ![m] = None] /\ data' = [data EXCEPT ![m] = NoFile]
               /\ queue' = queue
      <3>1. n # m /\ Filed(n)
        BY Zenon, <1>0, <1>n, <2>2, <2>3 DEF Filed, SpoolTypes
      <3> QED
        BY ZenonT(30), <1>s, <2>1, <2>2, <2>3, <3>1 DEF Tracked
    <2>4. CASE /\ reqs[m] \in Clients /\ queue' = Append(queue, [id |-> m, of |-> reqs[m]])
               /\ UNCHANGED <<data, reqs>>
      <3>1. [id |-> m, of |-> reqs[m]] \in Entry /\ queue \in Seq(Entry) /\ Filed(n)
        BY Zenon, <1>0, <2>2, <2>4 DEF Entry, SpoolTypes, Filed
      <3>2. /\ \A k \in DOMAIN queue : k \in DOMAIN queue' /\ queue'[k] = queue[k]
            /\ Len(queue) + 1 \in DOMAIN queue' /\ queue'[Len(queue) + 1].id = m
        BY <2>4, <3>1, QueueIds
      <3> QED
        BY ZenonT(90), <1>s, <2>1, <2>2, <3>1, <3>2 DEF Tracked
    <2> QED
      BY Zenon, <2>1, <2>3, <2>4
  <1>4. CASE ScanSignal \/ ScanEnd \/ SigHup \/ Wakeup \/ update_jobno \/ Config \/ PrintJob
    <2>1. UNCHANGED <<data, reqs, pending, queue, jp, cpc, jobid>>
      BY ZenonT(30), <1>4 DEF ScanSignal, ScanEnd, SigHup, Wakeup, update_jobno, Config, PrintJob
    <2>2. main # "off"
      BY ZenonT(30), <1>4 DEF ScanSignal, ScanEnd, SigHup, Wakeup, update_jobno, Config, PrintJob
    <2> QED
      BY Zenon, <1>s, <2>1, <2>2 DEF Filed, Tracked
  <1>5. ASSUME NEW c \in Clients,
               \/ get_newjobno(c) \/ CreateData(c) \/ WriteData(c) \/ CreateControl(c)
               \/ Signal(c) \/ ClientFails(c)
        PROVE  Tracked(n)'
    <2>1. /\ cpc[c] \notin {"respond", "add"} /\ UNCHANGED <<pending, queue, jp, main>>
          /\ \A d \in Clients \ {c} : cpc'[d] = cpc[d] /\ jobid'[d] = jobid[d]
      BY Zenon, <1>0, <1>5 DEF get_newjobno, CreateData, WriteData, CreateControl, Signal, ClientFails,
                        Goto, SpoolTypes
    <2>2. Filed(n)
      <3>1. CASE CreateData(c)
        <4>1. /\ cpc[c] = "creat" /\ jobid[c] \in Numbers /\ reqs' = reqs
              /\ data' = [data EXCEPT ![jobid[c]] = [of |-> c, has |-> "open"]]
          BY Zenon, <1>0, <3>1 DEF CreateData, Goto, NumberInv, Numbered
        <4>2. n # jobid[c]
          BY Zenon, <1>0, <4>1 DEF Filed, SpoolTypes, FileInv
        <4> QED
          BY Zenon, <1>0, <4>1, <4>2 DEF Filed, SpoolTypes
      <3>2. CASE WriteData(c)
        <4>1. \A m \in Numbers : data'[m].of = data[m].of
          BY Zenon, <1>0, <3>2, WriteStep DEF WriteData, Goto, NumberInv, Numbered
        <4> QED
          BY Zenon, <3>2, <4>1 DEF WriteData, Filed
      <3>3. CASE CreateControl(c)
        BY Zenon, <1>0, <1>n, <3>3 DEF CreateControl, Filed, SpoolTypes
      <3>4. CASE ClientFails(c)
        <4>1. data'[n] \in {data[n], NoFile} /\ reqs'[n] \in {reqs[n], None}
          BY Zenon, <1>0, <3>4 DEF ClientFails, SpoolTypes
        <4> QED
          BY ZenonT(30), <1>n, <4>1, FileTypes DEF Filed
      <3> QED
        BY ZenonT(30), <1>5, <3>1, <3>2, <3>3, <3>4 DEF get_newjobno, Signal, Filed
    <2> QED
      BY ZenonT(30), <1>s, <2>1, <2>2 DEF Tracked
  <1>6. ASSUME NEW c \in Clients, WriteControl(c)
        PROVE  Tracked(n)'
    <2>1. /\ cpc[c] = "request" /\ cpc' = [cpc EXCEPT ![c] = "respond"]
          /\ UNCHANGED <<data, pending, queue, jp, main, jobid>>
      BY Zenon, <1>6 DEF WriteControl, Goto
    <2>2. \A d \in Clients : cpc'[d] = IF d = c THEN "respond" ELSE cpc[d]
      BY Zenon, <1>0, <2>1 DEF SpoolTypes
    <2>3. CASE n = jobid[c]
      BY Zenon, <2>1, <2>2, <2>3 DEF Tracked
    <2>4. CASE n # jobid[c]
      <3>1. Filed(n)
        BY Zenon, <1>0, <1>6, <2>1, <2>4 DEF WriteControl, Filed, SpoolTypes
      <3> QED
        BY <1>s, <2>1, <2>2, <3>1 DEF Tracked
    <2> QED
      BY Zenon, <2>3, <2>4
  <1>7. ASSUME NEW c \in Clients, Respond(c) \/ AddJob(c)
        PROVE  Tracked(n)'
    <2>1. /\ UNCHANGED <<data, reqs, pending, jp, main, jobid>>
          /\ \A d \in Clients \ {c} : cpc'[d] = cpc[d]
      BY Zenon, <1>0, <1>7 DEF Respond, AddJob, Goto, SpoolTypes
    <2>2. Tracked(n)
      BY Zenon, <1>s, <2>1 DEF Filed
    <2>3. CASE Respond(c)
      BY Zenon, <1>0, <2>1, <2>2, <2>3 DEF Respond, Goto, SpoolTypes, Tracked
    <2>4. CASE AddJob(c)
      <3>1. /\ [id |-> jobid[c], of |-> c] \in Entry /\ queue \in Seq(Entry)
            /\ queue' = Append(queue, [id |-> jobid[c], of |-> c])
        BY Zenon, <1>0, <2>4 DEF AddJob, Goto, add_job, Entry, SpoolTypes, NumberInv, Numbered
      <3>2. /\ \A k \in DOMAIN queue : k \in DOMAIN queue' /\ queue'[k] = queue[k]
            /\ Len(queue) + 1 \in DOMAIN queue' /\ queue'[Len(queue) + 1].id = jobid[c]
        BY <3>1, QueueIds
      <3> QED
        BY Zenon, <2>1, <2>2, <3>2 DEF Tracked
    <2> QED
      BY Zenon, <1>7, <2>3, <2>4
  <1>8. CASE GetJob
    <2>1. /\ UNCHANGED <<data, reqs, pending, main, jobid, cpc>> /\ jp.id = 0
      BY Zenon, <1>0, <1>8, FileTypes DEF GetJob, SpoolTypes, Busy
    <2>2. Tracked(n)
      BY Zenon, <1>s, <2>1 DEF Filed
    <2>3. CASE UNCHANGED <<queue, jp>>
      BY Zenon, <2>1, <2>2, <2>3 DEF Tracked
    <2>4. CASE queue # <<>> /\ jp' = Head(queue) /\ queue' = Tail(queue)
      <3>1. Head(queue) \in Entry /\ queue \in Seq(Entry)
        BY <1>0, <2>4 DEF SpoolTypes
      <3>2. \A k \in DOMAIN queue : \/ queue[k] = jp'
                                    \/ k - 1 \in DOMAIN queue' /\ queue'[k - 1] = queue[k]
        BY Zenon, <2>4, <3>1, QueueIds
      <3> QED
        BY Zenon, <1>n, <2>1, <2>2, <3>2 DEF Tracked
    <2> QED
      BY Zenon, <1>8, <2>3, <2>4 DEF GetJob
  <1>9. CASE CancelJob \/ UnlinkData \/ UnlinkReq
    <2>1. /\ UNCHANGED <<pending, queue, main, jobid, cpc>> /\ main # "off"
          /\ jp.id \in Numbers
      BY Zenon, <1>0, <1>9 DEF CancelJob, UnlinkData, UnlinkReq, NumberInv, SpoolTypes, Busy, Entry
    <2>2. n # jp.id
      BY Zenon, <1>0, <1>n, <1>9, FileTypes DEF CancelJob, UnlinkData, UnlinkReq, Filed, SpoolTypes
    <2>3. Filed(n)
      BY Zenon, <1>0, <1>9, <2>1, <2>2 DEF CancelJob, UnlinkData, UnlinkReq, Filed, SpoolTypes
    <2> QED
      BY Zenon, <1>s, <2>1, <2>2, <2>3 DEF Tracked
  <1>10. CASE Defer
    <2>1. /\ UNCHANGED <<data, reqs, pending, main, jobid, cpc>> /\ queue' = <<jp>> \o queue
      BY ZenonT(30), <1>10 DEF Defer, replace_job
    <2>2. jp \in Entry /\ queue \in Seq(Entry)
      BY Zenon, <1>0, <1>10 DEF Defer, SpoolTypes, Busy
    <2>3. /\ 1 \in DOMAIN queue' /\ queue'[1] = jp
          /\ \A k \in DOMAIN queue : k + 1 \in DOMAIN queue' /\ queue'[k + 1] = queue[k]
      BY ZenonT(30), <2>1, <2>2, QueueIds
    <2>4. Tracked(n)
      BY Zenon, <1>s, <2>1 DEF Filed
    <2> QED
      BY ZenonT(30), <2>1, <2>3, <2>4 DEF Tracked
  <1> QED
    BY Zenon, <1>1, <1>2, <1>3, <1>4, <1>5, <1>6, <1>7, <1>8, <1>9, <1>10
       DEF Next, Main, Client, Printer

-----------------------------------------------------------------------------
(* The spool: what is kept until the daemon first ends.                    *)

\* Two clients with numbers do not have the same one.
LEMMA Apart ==
  ASSUME SpoolInv, stops = 0, NEW c \in Clients, NEW d \in Clients, c # d, jobid[c] \in Numbers
  PROVE  jobid[d] # jobid[c]
  BY DEF SpoolInv, UpInv, Fresh, Numbers

\* A client whose thread and whose files a step leaves alone.
LEMMA OwnKeeps ==
  ASSUME NEW d \in Clients, Own(d), printed'[d] >= printed[d], printed[d] \in Nat,
         printed'[d] \in Nat, cpc'[d] = cpc[d], jobid'[d] = jobid[d],
         Numbered(d) => data'[jobid[d]] = data[jobid[d]] /\ reqs'[jobid[d]] = reqs[jobid[d]]
  PROVE  Own(d)'
  BY DEF Own, Numbered

\* Jobs stay known when threads only move on.
LEMMA KnownKeeps ==
  ASSUME NEW j \in Entry, Known(j), jobid'[j.of] = jobid[j.of],
         cpc'[j.of] = cpc[j.of] \/ cpc'[j.of] \in {"signal", "done"}
  PROVE  Known(j)'
  BY Zenon DEF Known

\* The steps of a client thread.
LEMMA UpClient ==
  ASSUME SpoolInv, stops = 0, NEW c \in Clients, Client(c) \/ ClientFails(c),
         get_newjobno(c) => nextjob # LONG_MAX
  PROVE  Fresh' /\ KnownJobs' /\ \A d \in Clients : Own(d)'
  <1>0. SpoolTypes /\ NumberInv /\ FileInv /\ Fresh /\ KnownJobs /\ \A d \in Clients : Own(d)
    BY Zenon DEF SpoolInv, UpInv
  <1> USE DEF disk, jobs, clients, printer, counts
  <1>1. CASE get_newjobno(c)
    <2>1. /\ main = "accept" /\ cpc[c] = "new" /\ cpc' = [cpc EXCEPT ![c] = "creat"]
          /\ jobid' = [jobid EXCEPT ![c] = nextjob] /\ nextjob' = Successor(nextjob)
          /\ UNCHANGED <<data, reqs, main, pending, queue, ppc, jp, printed>>
      BY Zenon, <1>1 DEF get_newjobno, Goto
    <2>2. \A d \in Clients : /\ cpc'[d] = IF d = c THEN "creat" ELSE cpc[d]
                             /\ jobid'[d] = IF d = c THEN nextjob ELSE jobid[d]
      BY Zenon, <1>0, <2>1 DEF SpoolTypes
    <2>3. Fresh'
      <3>1. \A d \in Clients : jobid[d] \in Nat /\ jobid[d] < nextjob
        BY Zenon, <1>0, <2>1 DEF Fresh, SpoolTypes
      <3>2. nextjob \in Nat /\ nextjob' = nextjob + 1
        BY <1>0, <1>1, <2>1 DEF SpoolTypes, Successor
      <3> QED
        BY <1>0, <2>1, <2>2, <3>1, <3>2 DEF Fresh
    <2>4. ASSUME NEW d \in Clients
          PROVE  Own(d)'
      BY ZenonT(30), <1>0, <2>1, <2>2, OwnKeeps DEF Own, SpoolTypes
    <2>5. ASSUME NEW j \in Entry, Known(j)
          PROVE  Known(j)'
      BY Zenon, <2>1, <2>2, <2>5 DEF Known, Entry
    <2>6. KnownJobs'
      BY <1>0, <2>1, <2>5 DEF KnownJobs, SpoolTypes, Busy
    <2> QED
      BY Zenon, <2>3, <2>4, <2>6
  <1>2. CASE ~get_newjobno(c)
    <2>1. /\ main = "accept"
          /\ UNCHANGED <<main, pending, nextjob, jobid, jp, printed>>
          /\ ppc' = ppc \/ (ppc = "wait" /\ ppc' = "get")
      BY Zenon, <1>2, ClientMoves DEF Client
    <2>2. PICK to \in {"data", "ctl", "request", "respond", "add", "signal", "done", "failed"} :
             /\ cpc' = [cpc EXCEPT ![c] = to]
             /\ to # "failed" => Numbered(c)
      BY Zenon, <1>2, ClientMoves DEF Client
    <2>3. \A d \in Clients : cpc'[d] = IF d = c THEN to ELSE cpc[d]
      BY Zenon, <1>0, <2>2 DEF SpoolTypes
    <2>4. Fresh'
      BY Zenon, <1>0, <2>1 DEF Fresh
    <2>5. cpc[c] \notin {"signal", "done"} \/ to = "done"
      <3>1. cpc[c] \notin {"signal", "done"} \/ cpc'[c] = "done"
        BY Zenon, <1>0, <1>2 DEF Client, CreateData, WriteData, CreateControl, WriteControl, Respond,
                          AddJob, Signal, ClientFails, Goto, SpoolTypes
      <3> QED
        BY Zenon, <2>3, <3>1
    <2> DEFINE Then(j) == j.id = jobid'[j.of] /\ cpc'[j.of] \in {"signal", "done"}
    <2>6. ASSUME NEW j \in Entry, Known(j)
          PROVE  Then(j)
      BY ZenonT(30), <2>1, <2>3, <2>5, <2>6 DEF Known, Entry
    <2>7. KnownJobs'
      <3>1. \A k \in DOMAIN queue : queue[k] \in Entry /\ Then(queue[k])
        <4>1. \A k \in DOMAIN queue : queue[k] \in Entry /\ Known(queue[k])
          BY <1>0 DEF SpoolTypes, KnownJobs
        <4> QED
          BY ZenonT(30), <2>6, <4>1
      <3>2. \A k \in DOMAIN queue' : Then(queue'[k])
        <4>1. CASE AddJob(c)
          <5> DEFINE j == [id |-> jobid[c], of |-> c]
          <5>1. queue' = Append(queue, j) /\ cpc'[c] = "signal" /\ j \in Entry
            BY Zenon, <1>0, <4>1 DEF AddJob, add_job, Goto, SpoolTypes, NumberInv, Numbered, Entry
          <5>2. Then(j)
            BY ZenonT(30), <2>1, <5>1
          <5> HIDE DEF j, Then
          <5>3. \A k \in DOMAIN queue' : \/ k \in DOMAIN queue /\ queue'[k] = queue[k]
                                         \/ queue'[k] = j
            BY <1>0, <5>1 DEF SpoolTypes
          <5> QED
            BY ZenonT(30), <3>1, <5>2, <5>3
        <4>2. CASE queue' = queue
          BY Zenon, <3>1, <4>2
        <4> QED
          BY Zenon, <1>2, <4>1, <4>2 DEF Client, CreateData, WriteData, CreateControl, WriteControl,
                                  Respond, Signal, ClientFails
      <3>3. Busy' => Then(jp')
        <4>1. Busy' => Busy /\ jp \in Entry
          BY Zenon, <1>0, <2>1 DEF Busy, SpoolTypes
        <4>2. Busy' => Known(jp)
          BY Zenon, <1>0, <4>1 DEF KnownJobs
        <4> QED
          BY Zenon, <2>1, <2>6, <4>1, <4>2
      <3>4. ppc' \in {"unlink_data", "unlink_req"} => printed'[jp'.of] > 0
        BY Zenon, <1>0, <2>1 DEF KnownJobs
      <3> QED
        BY ZenonT(30), <3>2, <3>3, <3>4 DEF KnownJobs, Known
    <2>8. ASSUME NEW d \in Clients, d # c
          PROVE  Own(d)'
      <3>1. Numbered(c) \/ UNCHANGED <<data, reqs>>
        BY Zenon, <1>2 DEF Client, CreateData, WriteData, CreateControl, WriteControl, Respond,
                    AddJob, Signal, ClientFails, Goto, Numbered
      <3>2. \A n \in Numbers : n # jobid[c] => data'[n] = data[n] /\ reqs'[n] = reqs[n]
        <4>1. \A n \in Numbers : n # jobid[c] => data'[n] = data[n]
          BY Zenon, <1>0, <1>2 DEF Client, CreateData, WriteData, CreateControl, WriteControl, Respond,
                            AddJob, Signal, ClientFails, SpoolTypes
        <4>2. \A n \in Numbers : n # jobid[c] => reqs'[n] = reqs[n]
          BY Zenon, <1>0, <1>2 DEF Client, CreateData, WriteData, CreateControl, WriteControl, Respond,
                            AddJob, Signal, ClientFails, SpoolTypes
        <4> QED
          BY Zenon, <4>1, <4>2
      <3>3. Numbered(d) => data'[jobid[d]] = data[jobid[d]] /\ reqs'[jobid[d]] = reqs[jobid[d]]
        BY ZenonT(30), <1>0, <2>8, <3>1, <3>2, Apart DEF NumberInv
      <3>4. /\ Own(d) /\ printed[d] \in Nat /\ printed'[d] = printed[d] /\ cpc'[d] = cpc[d]
            /\ jobid'[d] = jobid[d]
        BY Zenon, <1>0, <2>1, <2>3, <2>8 DEF SpoolTypes
      <3>5. printed'[d] >= printed[d] /\ printed'[d] \in Nat
        BY <3>4
      <3> QED
        BY ZenonT(30), <3>3, <3>4, <3>5, OwnKeeps
    <2>9. Own(c)'
      <3>1. CASE CreateData(c)
        BY Zenon, <1>0, <2>1, <2>3, <3>1 DEF CreateData, Goto, Own, SpoolTypes, NumberInv, Numbered
      <3>2. CASE WriteData(c)
        <4>1. cpc[c] = "data" /\ cpc'[c] = "ctl" /\ jobid[c] \in Numbers
          BY Zenon, <1>0, <3>2 DEF WriteData, Goto, SpoolTypes, NumberInv, Numbered
        <4>2. data[jobid[c]].of = c
          BY Zenon, <1>0, <4>1, FileTypes DEF Own
        <4>3. data'[jobid[c]].of = c /\ data'[jobid[c]].has # "open"
          BY Zenon, <1>0, <3>2, <4>1, <4>2, WriteStep
        <4> QED
          BY Zenon, <2>1, <4>1, <4>3 DEF Own
      <3>3. CASE CreateControl(c)
        BY ZenonT(30), <1>0, <2>1, <2>3, <3>3 DEF CreateControl, Goto, Own, SpoolTypes, NumberInv, Numbered
      <3>4. CASE WriteControl(c)
        BY ZenonT(30), <1>0, <2>1, <2>3, <3>4 DEF WriteControl, Goto, Own, SpoolTypes, NumberInv, Numbered
      <3>5. CASE Respond(c) \/ AddJob(c) \/ Signal(c)
        BY ZenonT(30), <1>0, <2>1, <2>3, <3>5 DEF Respond, AddJob, Signal, Goto, Own, SpoolTypes
      <3>6. CASE ClientFails(c)
        BY ZenonT(30), <1>0, <2>1, <2>3, <3>6 DEF ClientFails, Own, SpoolTypes
      <3> QED
        BY Zenon, <1>2, <3>1, <3>2, <3>3, <3>4, <3>5, <3>6 DEF Client
    <2> QED
      BY Zenon, <2>4, <2>7, <2>8, <2>9
  <1> QED
    BY Zenon, <1>1, <1>2

\* The steps of the main and of the signal thread.
LEMMA UpMain ==
  ASSUME SpoolInv, stops = 0, Main \/ SigHup
  PROVE  Fresh' /\ KnownJobs' /\ \A d \in Clients : Own(d)'
  <1>0. SpoolTypes /\ NumberInv /\ Fresh /\ KnownJobs /\ \A d \in Clients : Own(d)
    BY Zenon DEF SpoolInv, UpInv
  <1> USE DEF disk, jobs, clients, printer, counts
  <1>1. ~ScanEntry /\ ~ScanSignal
    BY ZenonT(30), <1>0 DEF ScanEntry, ScanSignal, Fresh
  <1>2. /\ UNCHANGED <<data, reqs, queue, cpc, jobid, jp, printed>>
        /\ ppc' = ppc \/ (ppc = "off" /\ ppc' = "get")
    BY ZenonT(30), <1>0, <1>1 DEF Main, Start, ScanEnd, SigHup, NumberInv
  <1>3. Fresh'
    <2>1. CASE Start
      <3>1. main = "off" /\ main' = "scan" /\ nextjob' > 0
        BY <1>0, <2>1 DEF Start, SpoolTypes
      <3>2. pending' = {}
        BY ZenonT(30), <1>0, <2>1, <3>1 DEF Start, PendingJobs, Fresh
      <3> QED
        BY ZenonT(30), <1>0, <1>2, <3>1, <3>2 DEF Fresh
    <2>2. CASE ScanEnd \/ SigHup
      BY Zenon, <1>0, <1>2, <2>2 DEF Fresh, ScanEnd, SigHup
    <2> QED
      BY Zenon, <1>1, <2>1, <2>2 DEF Main
  <1>4. KnownJobs'
    BY ZenonT(30), <1>0, <1>2 DEF KnownJobs, Known, Busy
  <1> QED
    BY ZenonT(30), <1>0, <1>2, <1>3, <1>4 DEF Own

\* The steps of the printer thread.
LEMMA UpPrinter ==
  ASSUME SpoolInv, stops = 0, Printer \/ Wakeup
  PROVE  Fresh' /\ KnownJobs' /\ \A d \in Clients : Own(d)'
  <1>0. /\ SpoolTypes /\ NumberInv /\ FileInv /\ Fresh /\ KnownJobs
        /\ \A d \in Clients : Own(d) /\ printed[d] \in Nat
    BY Zenon DEF SpoolInv, UpInv, SpoolTypes
  <1> USE DEF disk, jobs, clients, printer, counts
  <1>1. UNCHANGED <<main, pending, nextjob, cpc, jobid>> /\ main # "off"
    BY ZenonT(30), <1>0 DEF Printer, GetJob, update_jobno, Config, CancelJob, PrintJob, Defer, UnlinkData,
                UnlinkReq, Wakeup, NumberInv
  <1>q. \A k \in DOMAIN queue : queue[k] \in Entry /\ Known(queue[k])
    BY <1>0 DEF SpoolTypes, KnownJobs
  <1>j. ASSUME Busy
        PROVE  /\ jp \in Entry /\ jp.of \in Clients /\ jp.id \in Numbers /\ Known(jp)
               /\ jp.id = jobid[jp.of] /\ cpc[jp.of] \in {"signal", "done"}
               /\ \A d \in Clients : d # jp.of => jobid[d] # jp.id
    <2>1. jp \in Entry /\ jp.of \in Clients /\ jp.id \in Numbers /\ Known(jp)
      BY Zenon, <1>0, <1>j DEF SpoolTypes, KnownJobs, Entry
    <2>2. jp.id = jobid[jp.of] /\ cpc[jp.of] \in {"signal", "done"}
      BY Zenon, <2>1 DEF Known
    <2> QED
      BY ZenonT(30), <2>1, <2>2, Apart
  <1>2. CASE GetJob
    <2>1. UNCHANGED <<data, reqs, printed>>
      BY Zenon, <1>2 DEF GetJob
    <2>2. CASE ppc' = "wait" /\ UNCHANGED <<queue, jp>>
      BY ZenonT(30), <1>0, <1>1, <2>1, <2>2 DEF Fresh, KnownJobs, Known, Busy, Own
    <2>3. CASE /\ queue # <<>> /\ ppc' = "update" /\ jp' = Head(queue)
               /\ queue' = Tail(queue)
      <3>1. /\ 1 \in DOMAIN queue /\ jp' = queue[1]
            /\ \A k \in DOMAIN queue' : k + 1 \in DOMAIN queue /\ queue'[k] = queue[k + 1]
        BY <1>0, <2>3 DEF SpoolTypes
      <3>2. KnownJobs'
        BY Zenon, <1>1, <1>q, <2>3, <3>1 DEF KnownJobs, Known
      <3> QED
        BY ZenonT(30), <1>0, <1>1, <2>1, <3>2 DEF Fresh, Own
    <2> QED
      BY Zenon, <1>2, <2>2, <2>3 DEF GetJob
  <1>3. CASE Wakeup \/ update_jobno \/ Config \/ CancelJob
    <2>1. UNCHANGED <<data, reqs, printed, queue>>
      BY ZenonT(30), <1>3 DEF Wakeup, update_jobno, Config, CancelJob
    <2>2. /\ ppc' \in {"get", "config", "send"}
          /\ ppc' # "get" => Busy /\ jp' = jp
      BY Zenon, <1>3 DEF Wakeup, update_jobno, Config, CancelJob, Busy
    <2>3. KnownJobs'
      BY ZenonT(30), <1>0, <1>1, <1>j, <2>1, <2>2 DEF KnownJobs, Known, Busy
    <2> QED
      BY ZenonT(30), <1>0, <1>1, <2>1, <2>3 DEF Fresh, Own
  <1>4. CASE UnlinkData \/ UnlinkReq
    <2>1. /\ Busy /\ printed[jp.of] > 0 /\ UNCHANGED <<queue, printed>>
          /\ ppc' \in {"get", "unlink_req"}
          /\ ppc' # "get" => jp' = jp
      BY ZenonT(30), <1>0, <1>4 DEF UnlinkData, UnlinkReq, KnownJobs, Busy
    <2>2. \A n \in Numbers : n # jp.id => data'[n] = data[n] /\ reqs'[n] = reqs[n]
      BY Zenon, <1>0, <1>4 DEF UnlinkData, UnlinkReq, SpoolTypes
    <2>3. ASSUME NEW d \in Clients
          PROVE  Own(d)'
      <3>1. CASE d = jp.of
        BY Zenon, <1>1, <1>j, <2>1, <3>1 DEF Own
      <3>2. CASE d # jp.of
        <4>1. Numbered(d) => data'[jobid[d]] = data[jobid[d]] /\ reqs'[jobid[d]] = reqs[jobid[d]]
          BY Zenon, <1>0, <1>j, <2>1, <2>2, <3>2 DEF NumberInv
        <4>2. printed'[d] >= printed[d] /\ printed'[d] \in Nat
          BY <1>0, <2>1
        <4> QED
          BY ZenonT(30), <1>0, <1>1, <4>1, <4>2, OwnKeeps
      <3> QED
        BY Zenon, <3>1, <3>2
    <2>4. KnownJobs'
      BY ZenonT(30), <1>0, <1>1, <1>j, <2>1 DEF KnownJobs, Known, Busy
    <2>5. main \notin {"off", "scan"}
      BY Zenon, <1>0, <1>j, <2>1 DEF Fresh
    <2> QED
      BY ZenonT(30), <1>0, <1>1, <2>3, <2>4, <2>5 DEF Fresh
  <1>5. CASE PrintJob \/ Defer
    <2>1. /\ ppc = "send" /\ Busy /\ data[jp.id] # NoFile /\ UNCHANGED <<data, reqs>>
          /\ printed' \in {printed, Paper}
      BY Zenon, <1>5 DEF PrintJob, Defer, Busy
    <2>2. \A d \in Clients : printed'[d] >= printed[d] /\ printed'[d] \in Nat
      <3>1. \A d \in Clients : Paper[d] \in {printed[d], printed[d] + 1}
        BY Zenon, <1>0, <2>1 DEF Paper, SpoolTypes
      <3> QED
        BY <1>0, <2>1, <3>1
    <2>3. ASSUME NEW d \in Clients
          PROVE  Own(d)'
      <3>1. /\ Own(d) /\ printed[d] \in Nat /\ printed'[d] >= printed[d] /\ printed'[d] \in Nat
            /\ cpc'[d] = cpc[d] /\ jobid'[d] = jobid[d]
        BY Zenon, <1>0, <1>1, <2>2
      <3>2. data'[jobid[d]] = data[jobid[d]] /\ reqs'[jobid[d]] = reqs[jobid[d]]
        BY Zenon, <2>1
      <3> QED
        BY Zenon, <3>1, <3>2, OwnKeeps
    <2>4. CASE PrintJob
      <3>1. UNCHANGED <<queue, jp>> /\ printed' = Paper
        BY Zenon, <2>4 DEF PrintJob
      <3>2. Paper[jp.of] > 0
        <4>1. printed[jp.of] > 0 \/ (data[jp.id].of = jp.of /\ Closed(jp.id))
          BY ZenonT(30), <1>0, <1>j, <2>1 DEF Own
        <4>2. CASE printed[jp.of] > 0
          BY <1>0, <1>j, <2>1, <2>2, <3>1, <4>2
        <4>3. CASE data[jp.id].of = jp.of /\ Closed(jp.id)
          BY <1>0, <1>j, <2>1, <4>3 DEF Paper, SpoolTypes
        <4> QED
          BY ZenonT(30), <4>1, <4>2, <4>3
      <3>3. KnownJobs'
        BY ZenonT(30), <1>0, <1>1, <1>j, <2>1, <3>1, <3>2 DEF KnownJobs, Known
      <3> QED
        BY Zenon, <1>0, <1>1, <2>1, <2>3, <3>3 DEF Fresh
    <2>5. CASE Defer
      <3>1. queue' = <<jp>> \o queue /\ ppc' = "get"
        BY Zenon, <2>5 DEF Defer, replace_job
      <3>2. \A k \in DOMAIN queue' : \/ queue'[k] = jp
                                     \/ k - 1 \in DOMAIN queue /\ queue'[k] = queue[k - 1]
        BY <1>0, <1>j, <2>1, <3>1 DEF SpoolTypes
      <3>3. KnownJobs'
        BY ZenonT(30), <1>1, <1>j, <1>q, <2>1, <3>1, <3>2 DEF KnownJobs, Known, Busy
      <3> QED
        BY Zenon, <1>0, <1>1, <2>1, <2>3, <3>3 DEF Fresh
    <2> QED
      BY Zenon, <1>5, <2>4, <2>5
  <1> QED
    BY Zenon, <1>2, <1>3, <1>4, <1>5 DEF Printer

-----------------------------------------------------------------------------
(* The number of jobs.                                                     *)

INSTANCE FiniteSetTheorems

\* The daemon is first started on an empty spool directory.
LEMMA SpoolInit == Init => SpoolInv
  <1> SUFFICES ASSUME Init PROVE SpoolInv
    BY Zenon
  <1>1. Asked = {} /\ Cardinality(Asked) = 0
    BY Zenon, FS_EmptySet DEF Init, Asked
  <1>2. NoFile \in File /\ NoFile.of = None /\ NoFile.has = "open"
    BY Zenon DEF NoFile, File
  <1>3. data \in [Numbers -> File] /\ \A n \in Numbers : data[n] = NoFile
    BY Zenon, <1>2 DEF Init
  <1>4. SpoolTypes
    BY <1>3 DEF Init, SpoolTypes, Busy
  <1>5. NumberInv
    BY <1>1 DEF Init, NumberInv, Numbered
  <1>6. FileInv /\ PrintInv /\ Spooled
    BY <1>2, <1>3, ClientsAssumption DEF Init, FileInv, PrintInv, Spooled, None
  <1>7. UpInv
    BY DEF Init, UpInv, Busy, Fresh, KnownJobs, Own
  <1> QED
    BY Zenon, <1>4, <1>5, <1>6, <1>7 DEF SpoolInv

\* The number of clients that asked for something.
LEMMA AskedCount ==
    /\ Cardinality(Clients) \in Nat
    /\ Cardinality(Asked) \in Nat /\ Cardinality(Asked) <= Cardinality(Clients)
    /\ \A c \in Clients : cpc[c] = "new" => Cardinality(Asked) < Cardinality(Clients)
  <1>1. IsFiniteSet(Clients) /\ Asked \subseteq Clients
    BY Zenon, ClientsAssumption DEF Asked
  <1>2. ASSUME NEW c \in Clients, cpc[c] = "new"
        PROVE  Asked # Clients
    BY Zenon, <1>2 DEF Asked
  <1> QED
    BY <1>1, <1>2, FS_Subset, FS_CardinalityType

\* The clients that have asked for a number stay the ones that have.
LEMMA AskedGrows ==
  ASSUME \A c \in Clients : cpc[c] # "new" => cpc'[c] # "new"
  PROVE  Cardinality(Asked) <= Cardinality(Asked') /\ Cardinality(Asked') \in Nat
  <1>1. IsFiniteSet(Clients) /\ Asked' \subseteq Clients /\ Asked \subseteq Asked'
    BY Zenon, ClientsAssumption DEF Asked
  <1> QED
    BY Zenon, <1>1, FS_Subset, FS_CardinalityType

\* get_newjobno for one client more.
LEMMA AskedOneMore ==
  ASSUME NEW c \in Clients, cpc[c] = "new", cpc'[c] # "new",
         \A d \in Clients \ {c} : cpc'[d] = cpc[d]
  PROVE  Cardinality(Asked') = Cardinality(Asked) + 1
  <1>1. IsFiniteSet(Asked)
    BY Zenon, ClientsAssumption, FS_Subset DEF Asked
  <1>2. Asked' = Asked \cup {c} /\ c \notin Asked
    BY Zenon DEF Asked
  <1> QED
    BY ZenonT(30), <1>1, <1>2, FS_AddElement

\* Every step keeps the bound on the job numbers.
LEMMA NumberStep ==
  ASSUME SpoolInv, Next
  PROVE  NumberInv'
  <1>0. SpoolTypes /\ NumberInv
    BY Zenon DEF SpoolInv
  <1> USE DEF disk, jobs, clients, printer, counts
  <1>1. ASSUME NEW c \in Clients, get_newjobno(c)
        PROVE  NumberInv'
    <2>1. /\ main = "accept" /\ cpc[c] = "new" /\ cpc' = [cpc EXCEPT ![c] = "creat"]
          /\ jobid' = [jobid EXCEPT ![c] = nextjob] /\ nextjob' = Successor(nextjob)
          /\ UNCHANGED <<jobfile, main, queue, ppc>>
      BY Zenon, <1>1 DEF get_newjobno, Goto
    <2>2. cpc'[c] = "creat" /\ \A d \in Clients \ {c} : cpc'[d] = cpc[d]
      BY Zenon, <1>0, <2>1 DEF SpoolTypes
    <2>3. Cardinality(Asked') = Cardinality(Asked) + 1
      BY Zenon, <2>1, <2>2, AskedOneMore
    <2>4. nextjob \in 1 .. Cardinality(Clients)
      BY <1>0, <2>1, AskedCount DEF SpoolTypes, NumberInv
    <2>s. nextjob' = nextjob + 1
      BY <2>1, <2>4, NumbersAssumption, AskedCount DEF Successor
    <2>5. /\ nextjob' <= Cardinality(Asked') + 1 /\ jobfile' <= Cardinality(Asked') + 1
          /\ nextjob' > 0
      BY <1>0, <2>1, <2>3, <2>4, <2>s, AskedCount DEF SpoolTypes, NumberInv
    <2>6. \A d \in Clients : Numbered(d)' => jobid'[d] \in Numbers
      <3>1. \A d \in Clients : jobid'[d] = IF d = c THEN nextjob ELSE jobid[d]
        BY Zenon, <1>0, <2>1 DEF SpoolTypes
      <3> QED
        BY Zenon, <1>0, <2>2, <2>4, <3>1 DEF NumberInv, Numbered, Numbers
    <2> QED
      BY Zenon, <2>1, <2>5, <2>6 DEF NumberInv
  <1>2. ASSUME NEW c \in Clients,
               \/ CreateData(c) \/ WriteData(c) \/ CreateControl(c) \/ WriteControl(c)
               \/ Respond(c) \/ AddJob(c) \/ Signal(c) \/ ClientFails(c)
        PROVE  NumberInv'
    <2>1. /\ main = "accept" /\ UNCHANGED <<jobfile, main, nextjob, jobid>>
      BY Zenon, <1>2, ClientMoves
    <2>2. PICK to \in {"data", "ctl", "request", "respond", "add", "signal", "done", "failed"} :
             /\ cpc' = [cpc EXCEPT ![c] = to]
             /\ to # "failed" => Numbered(c)
      BY Zenon, <1>2, ClientMoves
    <2>3. \A d \in Clients : cpc'[d] = IF d = c THEN to ELSE cpc[d]
      BY Zenon, <1>0, <2>2 DEF SpoolTypes
    <2>4. Cardinality(Asked) <= Cardinality(Asked') /\ Cardinality(Asked') \in Nat
      BY Zenon, <2>2, <2>3, AskedGrows
    <2>5. nextjob' <= Cardinality(Asked') + 1 /\ jobfile' <= Cardinality(Asked') + 1
      BY <1>0, <2>1, <2>4, AskedCount DEF SpoolTypes, NumberInv
    <2>6. \A d \in Clients : Numbered(d)' => jobid'[d] \in Numbers
      BY Zenon, <1>0, <2>1, <2>2, <2>3 DEF NumberInv, Numbered
    <2> QED
      BY Zenon, <1>0, <2>1, <2>5, <2>6 DEF NumberInv
  <1>3. CASE Stop
    <2>1. /\ main' = "off" /\ nextjob' = 0 /\ queue' = <<>> /\ ppc' = "off"
          /\ UNCHANGED <<jobfile, jobid>>
      BY Zenon, <1>3 DEF Stop
    <2>2. \A c \in Clients : /\ cpc'[c] \in {"new", "done", "failed"}
                             /\ cpc[c] # "new" => cpc'[c] # "new"
                             /\ cpc'[c] = "done" => Numbered(c)
      BY Zenon, <1>3 DEF Stop, Numbered
    <2>3. Cardinality(Asked) <= Cardinality(Asked') /\ Cardinality(Asked') \in Nat
      BY Zenon, <2>2, AskedGrows
    <2>4. nextjob' <= Cardinality(Asked') + 1 /\ jobfile' <= Cardinality(Asked') + 1
      BY <1>0, <2>1, <2>3, AskedCount DEF SpoolTypes, NumberInv
    <2> QED
      BY Zenon, <1>0, <2>1, <2>2, <2>4 DEF NumberInv, Numbered
  <1>4. CASE \/ Start \/ ScanEntry \/ ScanSignal \/ ScanEnd \/ SigHup
             \/ Printer \/ Wakeup
    <2>1. UNCHANGED <<cpc, jobid>>
      BY ZenonT(30), <1>4 DEF Start, ScanEntry, ScanSignal, ScanEnd, SigHup, Printer, GetJob, Wakeup,
                  update_jobno, Config, CancelJob, PrintJob, Defer, UnlinkData, UnlinkReq
    <2>2. UNCHANGED Asked /\ \A c \in Clients : Numbered(c)' = Numbered(c)
      BY Zenon, <2>1 DEF Asked, Numbered
    <2>3. CASE Start
      <3>1. /\ main' = "scan" /\ main = "off" /\ UNCHANGED jobfile
            /\ nextjob' = (IF jobfile = 0 THEN 1 ELSE jobfile)
        BY Zenon, <2>3 DEF Start
      <3>2. nextjob' <= Cardinality(Asked) + 1 /\ nextjob' > 0
        BY <1>0, <3>1, AskedCount DEF SpoolTypes, NumberInv
      <3> QED
        BY Zenon, <1>0, <2>1, <2>2, <3>1, <3>2 DEF NumberInv
    <2>4. CASE ~Start
      <3>1. /\ nextjob' = nextjob /\ jobfile' \in {jobfile, nextjob}
            /\ main = "off" <=> main' = "off"
            /\ main = "accept" => main' = "accept"
            /\ main # "off" \/ UNCHANGED <<queue, ppc>>
        BY ZenonT(30), <1>0, <1>4, <2>4
           DEF ScanEntry, ScanSignal, ScanEnd, SigHup, Printer, GetJob, Wakeup, NumberInv,
               update_jobno, Config, CancelJob, PrintJob, Defer, UnlinkData, UnlinkReq
      <3>2. main' # "accept" => main # "accept"
        BY Zenon, <3>1
      <3> QED
        BY Zenon, <1>0, <2>1, <2>2, <3>1, <3>2 DEF NumberInv
    <2> QED
      BY Zenon, <2>3, <2>4
  <1> QED
    BY Zenon, <1>1, <1>2, <1>3, <1>4 DEF Next, Main, Client

\* No job number is the last one.
LEMMA Room ==
  ASSUME SpoolInv, NEW c \in Clients, get_newjobno(c)
  PROVE  nextjob # LONG_MAX
  <1>1. cpc[c] = "new" /\ nextjob \in Nat /\ nextjob <= Cardinality(Asked) + 1
    BY Zenon DEF get_newjobno, Goto, SpoolInv, SpoolTypes, NumberInv
  <1> QED
    BY <1>1, AskedCount, NumbersAssumption

\* Every step of the daemon's threads and of its clients keeps the invariant.
LEMMA SpoolNext == SpoolInv /\ [Next]_vars => SpoolInv'
  <1>1. ASSUME SpoolInv, Next
        PROVE  UpInv'
    <2>1. SpoolTypes
      BY Zenon, <1>1 DEF SpoolInv
    <2>2. CASE Stop
      BY <2>1, <2>2 DEF Stop, UpInv, SpoolTypes
    <2>3. CASE ~Stop
      <3>1. stops' = stops
        BY ZenonT(30), <1>1, <2>3
           DEF Next, Main, Start, ScanEntry, ScanSignal, ScanEnd, Client, get_newjobno, CreateData,
               WriteData, CreateControl, WriteControl, Respond, AddJob, Signal, ClientFails,
               Printer, GetJob, update_jobno, Config, CancelJob, PrintJob, Defer, UnlinkData,
               UnlinkReq, Wakeup, SigHup, counts
      <3> QED
        BY Zenon, <1>1, <2>3, <3>1, Room, UpClient, UpMain, UpPrinter DEF Next, UpInv
    <2> QED
      BY Zenon, <2>2, <2>3
  <1>2. ASSUME SpoolInv, Next
        PROVE  SpoolInv'
    BY Zenon, <1>1, <1>2, TypesStep, NumberStep, FileStep, PrintStep, SpooledStep DEF SpoolInv
  <1>3. ASSUME SpoolInv, UNCHANGED vars
        PROVE  SpoolInv'
    <2> USE <1>3 DEF vars, disk, jobs, clients, printer, counts, SpoolInv
    <2>1. SpoolTypes'
      BY Zenon DEF SpoolTypes, Busy
    <2>2. NumberInv' /\ FileInv' /\ PrintInv' /\ Spooled'
      BY ZenonT(30) DEF NumberInv, FileInv, PrintInv, Spooled, Asked, Numbered
    <2>3. UpInv'
      BY Zenon DEF UpInv, Fresh, KnownJobs, Known, Busy, Own
    <2> QED
      BY Zenon, <2>1, <2>2, <2>3
  <1> QED
    BY Zenon, <1>2, <1>3

-----------------------------------------------------------------------------
(* The theorems about the spool.                                           *)

\* The daemon forgets no request that is in the spool directory with its data,
\* at any step of a start, of a client thread and of the printer thread, and
\* after any number of restarts, for any number of requests.
THEOREM NothingForgotten == Spec => []Spooled
  <1>1. SpoolInv => Spooled
    BY Zenon DEF SpoolInv
  <1> QED
    BY <1>1, SpoolInit, SpoolNext, PTL DEF Spec

\* A job is printed once, and once more at most for every lost answer of the
\* printer and every end of the daemon, for any number of requests, of lost
\* answers and of ends.
THEOREM PrintsOnce == Spec => []PrintedOnce
  <1>1. SpoolInv => PrintedOnce
    BY Zenon DEF SpoolInv, PrintInv, PrintedOnce
  <1> QED
    BY <1>1, SpoolInit, SpoolNext, PTL DEF Spec

\* Until the daemon first ends, the request of every job a client was told of
\* and all of its data that was received are in the spool directory under its
\* number until it is printed, for any number of requests, failures, deferrals
\* and reads that are cut short.
THEOREM JobsKept == Spec => []KeptWhileUp
  <1>1. SpoolInv => KeptWhileUp
    BY Zenon DEF SpoolInv, UpInv, Own, KeptWhileUp, AckedKept, Acked
  <1> QED
    BY <1>1, SpoolInit, SpoolNext, PTL DEF Spec
=============================================================================
