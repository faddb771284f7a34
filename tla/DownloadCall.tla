----------------------------- MODULE DownloadCall -----------------------------
(***************************************************************************)
(* A whole call of cURL that downloads: the loop that drives the transfer  *)
(* (TransferLoop) and curl_write_function (DownloadWriter), which libcurl  *)
(* calls back from inside curl_multi_perform or curl_easy_perform.  While  *)
(* it does, the process may be aborted and the clock goes on; between two  *)
(* performs the callback method is called and the stream keeps writing its *)
(* buffer out; the file is closed after the status is known.               *)
(*                                                                         *)
(* A piece of the loop's transfer is a piece of the header, which is not   *)
(* handed to curl_write_function, or a unit of the writer's body.          *)
(***************************************************************************)
EXTENDS TransferLoop, Download

CONSTANTS
    MaxChunk,       \* longest chunk libcurl hands over
    FileFaults      \* which calls of the C library may fail in this instance

WriteErrorCode == "CURLE_WRITE_ERROR"

ASSUME ChunkAssumption == MaxChunk \in Nat \ {0}
ASSUME FileFaultsAssumption == FileFaults \subseteq {"open", "write", "close"}
ASSUME WriteErrorAssumption == WriteErrorCode \in ErrorCodes

callVars == <<vars, writer>>

W == INSTANCE DownloadWriter WITH MaxLength <- Chunks, Faults <- FileFaults

CallInit == Init /\ W!Init

\* The pieces before the body.
Header == Chunks - length

\* libcurl has the control, and may call back.
InPerform ==
    \/ pc = "begin" /\ mode = "atomic"
    \/ pc \in {"first", "perform"} /\ attached /\ outcome = Pending

\* libcurl hands a chunk over, or ends the transfer.
Libcurl == W!Deliver \/ W!Return \/ W!End

\* curl_write_function goes on.
Callback ==
    \/ W!ToBlob \/ W!ToOpenFile \/ W!OpenFile \/ W!OpenFails \/ W!Write
    \/ W!CloseBroken \/ W!Reopen \/ W!ReopenFails \/ W!Retry

InnerStep ==
    /\ InPerform
    /\ Libcurl \/ Callback
    /\ UNCHANGED vars

\* The perform returns, outside of the callback; what it has done is what the
\* callback has seen of it.
Committed ==
    /\ place \in {"idle", "cleanup"}
    /\ given = IF moved' > Header THEN moved' - Header ELSE 0
    /\ \/ status = W!Running    /\ outcome' = Pending
       \/ status = W!OK         /\ outcome' = OK
       \/ status = W!WriteError /\ outcome' = WriteErrorCode
       \/ status = W!OtherError /\ outcome' \in ErrorCodes \ {WriteErrorCode}

PerformReturns ==
    /\ EasyPerform \/ FirstPerform \/ Perform
    /\ InPerform => Committed
    /\ UNCHANGED writer

\* Every other step of the loop and of the host; libcurl is not inside.
OuterStep ==
    /\ \/ EasyInfo \/ NoMulti \/ Begin \/ AddHandle \/ FdsetFails \/ Delay \/ Watch
       \/ SelectReturns \/ SelectFails \/ Offer \/ Answer \/ Poll
       \/ Settle \/ Notify \/ Detach \/ Cleanup
       \/ Tick \/ Kill
    /\ UNCHANGED writer

\* The C library writes the buffer out when it likes.
FlushStep == W!Flush /\ UNCHANGED vars

\* curl_easy_cleanup: a transfer that has not ended ends now.
GiveUp ==
    /\ pc = "returned" /\ place = "idle"
    /\ W!End /\ status' = W!OtherError
    /\ UNCHANGED vars

\* _cURL closes the file after that, and returns.
CloseStep ==
    /\ pc = "returned"
    /\ W!CloseFile \/ W!NothingToClose
    /\ UNCHANGED vars

Over == pc = "returned" /\ place = "done"

CallNext ==
    \/ InnerStep \/ PerformReturns \/ OuterStep \/ FlushStep \/ GiveUp \/ CloseStep
    \/ Over /\ UNCHANGED callVars

CallSpec == CallInit /\ [][CallNext]_callVars

-----------------------------------------------------------------------------
(* Properties of the whole call *)

\* A call that returns CURLE_OK has put the whole body where the caller asked
\* for it, whatever made the loop break, and whatever had to be recovered in
\* the callback (unless nothing was handed over for the file).
OKHasAll ==
    Over /\ result = OK =>
        IF use_path THEN fresh => disk = Body(length)
                    ELSE blob = Body(length)

\* A chunk that could not be written is what the caller hears of, even when
\* the callback method or the process aborts the call in the same round
\* (curl_write_function's return, lines 644-668).
WriteErrorIsReported ==
    pc = "returned" /\ status = W!WriteError => result = WriteErrorCode

=============================================================================
