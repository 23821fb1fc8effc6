---------------------------- MODULE PrintStatus ----------------------------
(***************************************************************************)
(* printer_status and readmore of apue2e/ipp/printd.c: how the printer     *)
(* thread reads the printer's response, which may come in any number of    *)
(* pieces, and decides whether the job was printed.                        *)
(*                                                                         *)
(* A response is a sequence of messages, a message a sequence of tokens:   *)
(*   "200", "100", "500"       the status line up to and with its \r       *)
(*   "Con", "tent-Length:"     the two halves of that header's name        *)
(*   "digits"                  its value                                   *)
(*   "other", "CR", "LF"       any other part of a header, \r, \n          *)
(*   and, two bytes each, the body: "version", the status "st+" or "st-",  *)
(*   the request id "id0", "id" (this job's) or "id0", "id2", and "attr",  *)
(*   two bytes of the attributes, which may be any two bytes.              *)
(* A piece ends between two tokens.  The buffer is as large as it must be. *)
(***************************************************************************)
EXTENDS Integers, Sequences, SequencesExt

CONSTANTS
    Responses,  \* the sequences of messages the printer may answer with
    Leftovers   \* what malloc may return: contents of the buffer freed last

BodyLen == 6

VARIABLES
    whole,     \* the response, as it is sent
    msgs,      \* the messages that have not been read
    left,      \* what the buffer held at first
    bp,        \* the buffer: offset + 1 -> token
    nr, i,     \* as in the code: the end of the data, the current offset
    len,       \* Content-Length, in tokens
    pc,        \* where printer_status is
    success,
    cut,       \* history: a piece was not a message, or came too late
    torn       \* history: a piece ended inside the body

reads == <<bp, nr, msgs, cut, torn>>
vars == <<whole, left, reads, i, len, pc, success>>

At(k) == IF k + 1 \in DOMAIN bp THEN bp[k + 1] ELSE "junk"

-----------------------------------------------------------------------------
(* Reading.                                                                *)

Unread == FlattenSeq(msgs)

\* The buffer with tokens ts at offset off.
Store(off, ts) ==
    [k \in 1 .. (IF Len(bp) < off + Len(ts) THEN off + Len(ts) ELSE Len(bp)) |->
        IF k - off \in DOMAIN ts THEN ts[k - off] ELSE At(k - 1)]

\* tread() finds the next n tokens.
tread(off, n) ==
    /\ bp' = Store(off, SubSeq(Unread, 1, n))
    /\ nr' = off + n
    /\ msgs' = IF n = Len(Head(msgs)) THEN Tail(msgs)
               ELSE IF n = Len(Unread) THEN << >> ELSE <<SubSeq(Unread, n + 1, Len(Unread))>>
    /\ cut' = (cut \/ n # Len(Head(msgs)))
    /\ torn' = (torn \/ Len(Unread) - n \in 1 .. BodyLen - 1)

\* tread() meets the timeout or the end of the file: printer_status ends.
Fails ==
    /\ pc' = "out"
    /\ cut' = (cut \/ msgs # << >>)
    /\ UNCHANGED <<bp, nr, msgs, torn>>

\* Some piece is read to offset off.
Piece(off, next) ==
    \/ pc' = next /\ \E n \in 1 .. Len(Unread) : tread(off, n)
    \/ Fails

\* readmore() continues at the current offset, not at the end of the data.
readmore(next) == Piece(i, next)

-----------------------------------------------------------------------------
(* printer_status                                                          *)

\* The first read, and another one after an informational response or after
\* something that is not a status line.
ReadFirst ==
    /\ pc = "first"
    /\ Piece(0, "status")
    /\ UNCHANGED <<whole, left, i, len, success>>

\* What a piece that starts elsewhere has in the place of the code is anyone's
\* guess: nothing, or a number of any class.
Code == IF At(0) \in {"100", "200", "500"} THEN {At(0)} ELSE {"none", "100", "200", "500"}

StatusLine ==
    /\ pc = "status"
    /\ \E code \in Code :
        pc' = CASE code = "200" -> "search" [] code = "500" -> "out" [] OTHER -> "first"
    /\ i' = 1
    /\ UNCHANGED <<whole, left, reads, len, success>>

\* The search for Content-Length goes from one c to the next.
Skip ==
    /\ pc = "search" /\ i < nr /\ At(i) # "Con"
    /\ i' = i + 1
    /\ UNCHANGED <<whole, left, reads, len, pc, success>>

SearchMore ==
    /\ pc = "search" /\ i >= nr
    /\ readmore("compare")
    /\ UNCHANGED <<whole, left, i, len, success>>

\* The comparison and the digits look at what the buffer holds, read or not;
\* the character after the digits becomes a NUL and is passed over.
Compare ==
    /\ \/ pc = "search" /\ i < nr /\ At(i) = "Con"
       \/ pc = "compare"
    /\ IF At(i) = "Con" /\ At(i + 1) = "tent-Length:"
       THEN LET end == IF At(i + 2) = "digits" THEN i + 3 ELSE i + 2
            IN  /\ len' = (end - (i + 2)) * BodyLen
                /\ bp' = Store(end, <<"NUL">>)
                /\ i' = end + 1
                /\ pc' = "rest"
       ELSE i' = i + 1 /\ pc' = "search" /\ UNCHANGED <<bp, len>>
    /\ UNCHANGED <<whole, msgs, left, nr, success, cut, torn>>

Rest ==
    /\ pc = "rest"
    /\ IF i >= nr THEN readmore("header")
       ELSE pc' = "header" /\ UNCHANGED reads
    /\ UNCHANGED <<whole, left, i, len, success>>

\* Mutant: the search ends one character earlier.
MutEndsHeader == At(i) = "CR" /\ At(i + 1) = "LF" /\ At(i + 2) = "CR"

\* The end of the header.  Nothing changes when the last two tokens are reached
\* without it: neither loop condition holds, and the outer loop goes round.
EndsHeader == At(i) = "LF" /\ At(i + 1) = "CR" /\ At(i + 2) = "LF"

Header ==
    /\ pc = "header" /\ i < nr - 2
    /\ i' = IF EndsHeader THEN i + 3 ELSE i + 1
    /\ pc' = IF EndsHeader THEN "found" ELSE "header"
    /\ UNCHANGED <<whole, left, reads, len, success>>

HeaderMore ==
    /\ pc \in {"header", "found"} /\ i >= nr
    /\ readmore(IF pc = "found" THEN "body" ELSE "header")
    /\ UNCHANGED <<whole, left, i, len, success>>

\* One more read if the body is not there whole.
Body ==
    /\ \/ pc = "found" /\ i < nr
       \/ pc = "body"
    /\ IF nr - i < len THEN readmore("ipp")
       ELSE pc' = "ipp" /\ UNCHANGED reads
    /\ UNCHANGED <<whole, left, i, len, success>>

\* STATCLASS_OK accepts 0 to 255, as the halves of a small request id are.
StatClassOk(st) == st \in {"st+", "id0", "id", "id2"}

\* Mutant: the response to another job counts.
MutSameJob(hi, lo) == TRUE
SameJob(hi, lo) == hi = "id0" /\ lo = "id"

\* What two bytes may be taken for: attributes, and memory nobody has written,
\* for anything.
Readings(token) ==
    IF token \in {"attr", "junk"} THEN {"st+", "st-", "id0", "id", "id2"} ELSE {token}

\* struct ipp_hdr is what the buffer holds at the current offset, read or not.
IppHeader ==
    /\ pc = "ipp"
    /\ \E st \in Readings(At(i + 1)), hi \in Readings(At(i + 2)), lo \in Readings(At(i + 3)) :
        success' = (SameJob(hi, lo) /\ StatClassOk(st))
    /\ pc' = "out"
    /\ UNCHANGED <<whole, left, reads, i, len>>

-----------------------------------------------------------------------------
Init ==
    /\ whole \in Responses /\ msgs = whole
    /\ left \in Leftovers /\ bp = left
    /\ nr = 0 /\ i = 0 /\ len = 0
    /\ pc = "first" /\ success = FALSE /\ cut = FALSE /\ torn = FALSE

Next ==
    \/ ReadFirst \/ StatusLine \/ Skip \/ SearchMore \/ Compare \/ Rest
    \/ Header \/ HeaderMore \/ Body \/ IppHeader

Spec == Init /\ [][Next]_vars

\* The printer thread goes on reading.
FairSpec == Spec /\ WF_vars(Next)

-----------------------------------------------------------------------------
(* What the response says, and whether printer_status agrees.              *)

\* The printer accepted this job.
Accepted ==
    LET m == Last(whole)
    IN  /\ Head(m) = "200"
        /\ IsSuffix(<<"version", "st+", "id0", "id", "attr", "attr">>, m)

HasLength == "Con" \in Range(Last(whole))

\* A job is not taken for printed, and removed from the spool, unless the
\* printer accepted it: wherever the header is cut, however late a piece is, and
\* whatever the buffer held, as long as the body comes in one piece.  (When it
\* does not, readmore stores the rest of the body over its beginning.)
NoFalseSuccess == success => Accepted \/ torn

\* When every message comes in one piece and in time, printer_status returns,
\* and takes the job for printed if and only if the printer accepted it in a
\* response that has a Content-Length.
ReturnsUncut == <>(cut \/ (pc = "out" /\ success = (Accepted /\ HasLength)))

\* "They can be returned in multiple read attempts": printer_status returns
\* whatever the pieces are.
Returns == <>(pc = "out")
=============================================================================
