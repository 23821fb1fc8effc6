---------------------------- MODULE IpcPrograms ----------------------------
(***************************************************************************)
(* Three pairs of programs that exchange data or turns, side by side: the  *)
(* sequence number server and its clients, parent and child of devzero     *)
(* with TELL and WAIT, writer and reader of svshm_xfr.                     *)
(***************************************************************************)
EXTENDS Integers, Sequences

CONSTANTS
    FifoClients, SeqLens, MaxEnds,      \* for FifoSeqnum
    NLOOPS, Blocks                      \* for TellWait, SvshmXfr

\* A client asks for at least one number (GN_GT_0 in fifo_seqnum_client.c).
ASSUME SeqLensAssumption == SeqLens \subseteq Nat \ {0}

VARIABLES
    requests, spc, req, seqNum, fifos, reply, cpc, seqLen, got, ends,
    area, reg, count, tpc, blocked, sent, sigflag, waits, missed,
    set, shm, next, out, w, r, tooearly, failed

F == INSTANCE FifoSeqnum WITH Clients <- FifoClients
T == INSTANCE TellWait WITH pc <- tpc, pending <- sent, i <- count
X == INSTANCE SvshmXfr WITH sem <- set, early <- tooearly

fvars == <<requests, spc, req, seqNum, fifos, reply, cpc, seqLen, got, ends>>
tvars == <<area, reg, count, tpc, blocked, sent, sigflag, waits, missed>>
xvars == <<set, shm, next, out, w, r, tooearly, failed>>

\* The invariants of the three, under their names there: the numbers the server
\* gives, the turns of TELL and WAIT and those of the transfer.
UniqueNumbers == F!UniqueNumbers
TakesTurns == T!TakesTurns
Alternates == X!Alternates
=============================================================================
