------------------------------- MODULE Library -------------------------------
(***************************************************************************)
(* Files, profile images and receipts over one database.  A receipt names  *)
(* its files by their ids and neither module asks the other whether they   *)
(* exist, so that their steps interleave freely.                           *)
(***************************************************************************)
EXTENDS Files, Receipts

vars == <<fvars, rvars>>

Next ==
    \/ FilesNext /\ UNCHANGED rvars
    \/ ReceiptsNext /\ UNCHANGED fvars

LibrarySpec == FilesAtRest /\ ReceiptsAtRest /\ [][Next]_vars

Fairness == FilesFairness /\ ReceiptsFairness

\* Every request, every call and every list comes to its end: waiting for
\* locks never lasts for ever (receipts/infrastructure/persistence/
\* repository.py:103, no lock order between update and delete).
EveryRequestAnswered ==
    <>[](/\ pager.pc = "end"
         /\ \A r \in Requests : Ended(r)
         /\ \A c \in Calls : call[c].pc \in Answers)

=============================================================================
