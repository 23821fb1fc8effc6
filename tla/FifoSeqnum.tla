----------------------------- MODULE FifoSeqnum -----------------------------
(***************************************************************************)
(* The sequence number service of tlpi-dist/pipes: clients send requests   *)
(* through the server's FIFO and read the answer from a FIFO of their own. *)
(* Opening a FIFO waits for its other end.  A client may be killed at any  *)
(* point, and then leaves its FIFO behind.                                 *)
(***************************************************************************)
EXTENDS Naturals, Sequences

CONSTANTS
    Clients,    \* clients, by process number
    SeqLens,    \* the lengths they may ask for
    MaxEnds     \* bound: how many clients are killed or fail

VARIABLES
    requests,   \* the server's FIFO
    spc, req,   \* where the server is, and the request it has read
    seqNum,
    fifos,      \* clients whose FIFO exists
    reply,      \* clients with a response in their FIFO, and the response
    cpc, seqLen,
    got,        \* what each client that printed a number printed
    ends        \* how many clients were killed or failed

vars == <<requests, spc, req, seqNum, fifos, reply, cpc, seqLen, got, ends>>

Goto(c, from, to) == cpc[c] = from /\ cpc' = [cpc EXCEPT ![c] = to]
Put(f, c, v) == [x \in DOMAIN f \cup {c} |-> IF x = c THEN v ELSE f[x]]

-----------------------------------------------------------------------------
(* The client.                                                             *)

\* Mutant: the FIFO is made after the request is sent.
MutMkfifo(c) == fifos
Mkfifo(c) == fifos \cup {c}

Start(c) ==
    /\ Goto(c, "new", "send")
    /\ fifos' = Mkfifo(c)
    /\ \E n \in SeqLens : seqLen' = [seqLen EXCEPT ![c] = n]
    /\ UNCHANGED <<requests, spc, req, seqNum, reply, got, ends>>

\* The request is short enough to be written in one piece.
Send(c) ==
    /\ Goto(c, "send", "open")
    /\ requests' = Append(requests, [pid |-> c, seqLen |-> seqLen[c]])
    /\ UNCHANGED <<spc, req, seqNum, fifos, reply, seqLen, got, ends>>

\* The response, and removeFifo on exit.
Receive(c) ==
    /\ c \in DOMAIN reply /\ Goto(c, "read", "exit")
    /\ got' = Put(got, c, reply[c])
    /\ fifos' = fifos \ {c}
    /\ UNCHANGED <<requests, spc, req, seqNum, reply, seqLen, ends>>

\* A signal ends the client, without a call of removeFifo.
Killed(c) ==
    /\ ends < MaxEnds /\ ends' = ends + 1
    /\ cpc[c] \in {"send", "open", "read"}
    /\ cpc' = [cpc EXCEPT ![c] = "killed"]
    /\ UNCHANGED <<requests, spc, req, seqNum, fifos, reply, seqLen, got>>

\* open fails; errExit calls removeFifo.
OpenFails(c) ==
    /\ ends < MaxEnds /\ ends' = ends + 1
    /\ Goto(c, "open", "errExit")
    /\ fifos' = fifos \ {c}
    /\ UNCHANGED <<requests, spc, req, seqNum, reply, seqLen, got>>

-----------------------------------------------------------------------------
(* The server.                                                             *)

Read ==
    /\ spc = "read" /\ requests # << >>
    /\ spc' = "open"
    /\ req' = Head(requests) /\ requests' = Tail(requests)
    /\ UNCHANGED <<seqNum, fifos, reply, cpc, seqLen, got, ends>>

\* open(clientFifo, O_WRONLY) finds the FIFO and waits, or gives up.
Open ==
    /\ spc = "open"
    /\ spc' = IF req.pid \in fifos THEN "waits" ELSE "read"
    /\ UNCHANGED <<requests, req, seqNum, fifos, reply, cpc, seqLen, got, ends>>

\* Both ends are open.
Meet ==
    /\ spc = "waits" /\ Goto(req.pid, "open", "read")
    /\ spc' = "write"
    /\ UNCHANGED <<requests, req, seqNum, fifos, reply, seqLen, got, ends>>

\* The write fails when the client is gone: SIGPIPE is ignored.
Write ==
    /\ spc = "write" /\ spc' = "update"
    /\ reply' = IF cpc[req.pid] = "read" THEN Put(reply, req.pid, seqNum) ELSE reply
    /\ UNCHANGED <<requests, req, seqNum, fifos, cpc, seqLen, got, ends>>

\* Mutant: every client is given one number.
MutAdvance == seqNum + 1
Advance == seqNum + req.seqLen

Update ==
    /\ spc = "update" /\ spc' = "read"
    /\ seqNum' = Advance
    /\ UNCHANGED <<requests, req, fifos, reply, cpc, seqLen, got, ends>>

-----------------------------------------------------------------------------
Init ==
    /\ requests = << >> /\ spc = "read" /\ seqNum = 0
    /\ req = [pid |-> "none", seqLen |-> 0]
    /\ fifos = {} /\ reply = << >> /\ got = << >> /\ ends = 0
    /\ cpc = [c \in Clients |-> "new"]
    /\ seqLen = [c \in Clients |-> 0]

Server == Read \/ Open \/ Meet \/ Write \/ Update
Client(c) == Send(c) \/ Receive(c)

Next == Server \/ \E c \in Clients : Start(c) \/ Client(c) \/ Killed(c) \/ OpenFails(c)

Spec == Init /\ [][Next]_vars
FairSpec == Spec /\ WF_vars(Server) /\ \A c \in Clients : WF_vars(Client(c))

-----------------------------------------------------------------------------
(* Properties.                                                             *)

\* "the allocation of unique sequential numbers": no number is given to two
\* clients, whoever is killed or fails at whatever point.
UniqueNumbers ==
    \A c, d \in DOMAIN got :
        c # d => \/ got[c] + seqLen[c] <= got[d]
                 \/ got[d] + seqLen[d] <= got[c]

\* The server waits for the other end of a FIFO that nobody will open.
Stuck == spc = "waits" /\ cpc[req.pid] \in {"killed", "errExit"}

\* Every client that sent its one request is answered, so that nobody waits,
\* because its FIFO was there before the request ("before sending request, to
\* avoid a race"), unless the server waits for ever for a client that ended
\* after its request.
Answered == []<>((\A c \in Clients : cpc[c] # "open") \/ Stuck)
=============================================================================
