------------------------- MODULE TransferContract -------------------------
(***************************************************************************)
(* What one call of cURL or cURL_FTP_xxx promises the 4D method that made  *)
(* it, whatever loop drives libcurl underneath: progress is reported while *)
(* the transfer is under way, the end is reported at most once and last,   *)
(* and the status that comes back is the transfer's own result when it has *)
(* one, and otherwise says why it has none.  README.md "Callback method",  *)
(* "Error handling" and the `Result` table describe the same promise in    *)
(* words; TransferLoop is shown to implement this module.                  *)
(***************************************************************************)
EXTENDS Naturals

CONSTANTS
    Chunks,         \* pieces of the transfer: it is complete when all moved
    ErrorCodes      \* CURLcodes, other than CURLE_OK, a transfer can end with

OK         == "CURLE_OK"
Aborted    == "CURLE_ABORTED_BY_CALLBACK"
FailedInit == "CURLE_FAILED_INIT"
Pending    == "pending"     \* the transfer has no result yet
None       == "none"        \* the call has not returned

Codes == {OK, Aborted, FailedInit} \cup ErrorCodes

VARIABLES
    moved,      \* pieces libcurl has moved
    outcome,    \* libcurl's result for the transfer, or Pending
    asked,      \* somebody asked for the call to be cancelled
    told,       \* progress the callback method was last told of
    toldEnd,    \* the callback method has been told of the end
    status      \* the `status` the call returned, or None

cvars == <<moved, outcome, asked, told, toldEnd, status>>

ContractInit ==
    /\ moved = 0
    /\ outcome = Pending
    /\ asked \in BOOLEAN
    /\ told = 0
    /\ toldEnd = FALSE
    /\ status = None

\* A transfer that has moved n pieces may end in these ways.
Endings(n) == ErrorCodes \cup {c \in {OK} : n = Chunks}

Move ==
    /\ status = None /\ outcome = Pending
    /\ \E n \in moved .. Chunks :
         /\ moved' = n
         /\ outcome' \in {Pending} \cup Endings(n)
    /\ UNCHANGED <<asked, told, toldEnd, status>>

Ask ==
    /\ status = None
    /\ asked' = TRUE
    /\ UNCHANGED <<moved, outcome, told, toldEnd, status>>

Tell ==
    /\ status = None /\ ~toldEnd
    /\ told' = moved
    /\ UNCHANGED <<moved, outcome, asked, toldEnd, status>>

TellEnd ==
    /\ status = None /\ ~toldEnd
    /\ outcome # Pending
    /\ told' = moved
    /\ toldEnd' = TRUE
    /\ UNCHANGED <<moved, outcome, asked, status>>

\* The transfer's own result wins; without one the call was cancelled on
\* request or could not be run.
Report ==
    /\ status = None
    /\ \/ outcome # Pending /\ status' = outcome
       \/ outcome = Pending /\ asked /\ status' = Aborted
       \/ outcome = Pending /\ status' = FailedInit
    /\ UNCHANGED <<moved, outcome, asked, told, toldEnd>>

ContractNext == Move \/ Ask \/ Tell \/ TellEnd \/ Report

ContractSpec == ContractInit /\ [][ContractNext]_cvars
=============================================================================
