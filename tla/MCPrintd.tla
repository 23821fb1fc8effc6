------------------------------ MODULE MCPrintd ------------------------------
(***************************************************************************)
(* Two parts of the print spooler daemon for TLC, side by side: the spool  *)
(* and printer_status.  The variable part says which of them a behaviour   *)
(* is about, and the other stays in its initial state.                     *)
(***************************************************************************)
EXTENDS PrintSpool

CONSTANTS Responses, Leftovers      \* for PrintStatus

VARIABLES part, whole, msgs, left, bp, nr, i, len, pc, success, cut, torn

-----------------------------------------------------------------------------
(* The responses of a printer.                                             *)

IppBody(st, id) == <<"version", st, "id0", id, "attr", "attr">>
ContentLength == <<"Con", "tent-Length:", "digits", "CR", "LF">>
LengthFirst == <<"200", "LF">> \o ContentLength \o <<"other", "CR", "LF", "CR", "LF">>
LengthLast == <<"200", "LF", "other", "CR", "LF">> \o ContentLength \o <<"CR", "LF">>
NoLength == <<"200", "LF", "other", "CR", "LF", "CR", "LF">>
Continue == <<"100", "LF", "CR", "LF">>
Error == <<"500", "LF", "CR", "LF">>

MCResponses ==
    {<<LengthFirst \o IppBody("st+", "id")>>, <<LengthLast \o IppBody("st-", "id")>>,
     <<LengthLast \o IppBody("st+", "id2")>>, <<NoLength \o IppBody("st+", "id")>>, <<Error>>,
     <<Continue, LengthLast \o IppBody("st+", "id")>>}

\* What an earlier response may have left in the buffer: nothing, one to an
\* earlier try at this job, or one to another job with its body elsewhere.
MCLeftovers ==
    {<< >>, LengthLast \o IppBody("st+", "id"), NoLength \o IppBody("st+", "id2")}

S == INSTANCE PrintStatus

svars == <<whole, msgs, left, bp, nr, i, len, pc, success, cut, torn>>
all == <<part, vars, svars>>

-----------------------------------------------------------------------------
MCInit ==
    /\ part \in {"spool", "status"}
    /\ Init /\ S!Init
    /\ part # "status" => whole = <<Error>> /\ left = << >>

MCNext ==
    \/ part = "spool" /\ Next /\ UNCHANGED <<part, svars>>
    \/ part = "status" /\ S!Next /\ UNCHANGED <<part, vars>>

\* The fairness of PrintSpool and of PrintStatus, each for its own behaviours.
MCSpec ==
    /\ MCInit /\ [][MCNext]_all
    /\ WF_vars(part = "spool" /\ Main) /\ WF_vars(part = "spool" /\ Printer)
    /\ \A c \in Clients : WF_vars(part = "spool" /\ Client(c))
    /\ WF_svars(part = "status" /\ S!Next)

-----------------------------------------------------------------------------
\* The invariant of PrintStatus, under its name there: what printer_status takes
\* for success.
NoFalseSuccess == S!NoFalseSuccess

\* Drains, for the behaviours of the spool; ReturnsUncut, for those of
\* printer_status.
SpoolDrains == part = "spool" => Drains
StatusReturns == part = "status" => S!ReturnsUncut

\* Returns of PrintStatus, for the behaviours of printer_status.
PiecesReturn == part = "status" => S!Returns
=============================================================================
