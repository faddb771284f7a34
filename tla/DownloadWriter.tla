-------------------------- MODULE DownloadWriter --------------------------
(***************************************************************************)
(* curl_write_function of 4DPlugin-cURL.cpp: what becomes of the body of a *)
(* response, handed over by libcurl chunk by chunk.  It goes to the        *)
(* response blob, or to the WRITEDATA file through a C stream which is     *)
(* opened by the first chunk, reopened once when a write fails, and closed *)
(* after the transfer, when the status is already known.                   *)
(*                                                                         *)
(* A chunk is some consecutive units of the body.  The stream (external)   *)
(* keeps what it accepted in a buffer, writes it out when it likes, and    *)
(* has to write the rest when it is closed.  Nobody else writes to the     *)
(* file, so that "wb" and "ab" both write at its end.                      *)
(*                                                                         *)
(* DownloadCall instantiates this module, and assumes what is needed of    *)
(* its constants.                                                          *)
(***************************************************************************)
EXTENDS Download

CONSTANTS
    MaxLength,  \* longest body
    MaxChunk,   \* longest chunk libcurl hands over
    Faults      \* which of "open", "write" and "close" may fail

OK         == "CURLE_OK"
WriteError == "CURLE_WRITE_ERROR"
OtherError == "other"       \* timeout, abort, connection lost, ...
Running    == "running"

Old == 0    \* a byte that was in the file before this call

vars == writer
stream == <<open, buffer>>
fixed == <<length, use_path>>

Part(s, n) == SubSeq(s, 1, n)
Rest(s, n) == SubSeq(s, n + 1, Len(s))

Init ==
    /\ length \in 0 .. MaxLength
    /\ use_path \in BOOLEAN
    /\ place = "idle"
    /\ blob = <<>>
    /\ disk \in {<<>>, <<Old>>}
    /\ fresh = FALSE /\ open = FALSE
    /\ buffer = <<>>
    /\ size = 0 /\ given = 0
    /\ chunk = <<>> /\ back = 0
    /\ status = Running

-----------------------------------------------------------------------------
(* libcurl and the C library *)

\* libcurl calls the callback with the next units, or, for an empty body, with
\* none.
Deliver ==
    /\ place = "idle" /\ status = Running
    /\ \E n \in 1 .. MaxChunk \cup {k \in {0} : length = 0} :
         /\ given + n <= length
         /\ chunk' = [i \in 1 .. n |-> given + i]
         /\ given' = given + n
    /\ place' = "enter"
    /\ UNCHANGED <<fixed, blob, disk, fresh, stream, size, back, status>>

\* The stream writes out some of its buffer.
Flush ==
    /\ open
    /\ \E n \in 1 .. Len(buffer) :
         /\ disk' = disk \o Part(buffer, n)
         /\ buffer' = Rest(buffer, n)
    /\ UNCHANGED <<fixed, place, blob, fresh, open, size, given, chunk, back,
                   status>>

\* fwrite accepts all of the chunk, or less if it fails; k is what it returns.
FWrite(k) ==
    /\ k \in {Len(chunk)} \cup {j \in 0 .. Len(chunk) : "write" \in Faults}
    /\ buffer' = buffer \o Part(chunk, k)

\* fclose writes the buffer out, or loses a part of it if it fails.
FClose ==
    /\ \E n \in {Len(buffer)} \cup {j \in 0 .. Len(buffer) : "close" \in Faults} :
         disk' = disk \o Part(buffer, n)
    /\ buffer' = <<>>
    /\ open' = FALSE

\* libcurl sees whether all of the chunk was taken.
Return ==
    /\ place = "return"
    /\ status' = IF back = Len(chunk) THEN Running ELSE WriteError
    /\ place' = IF back = Len(chunk) THEN "idle" ELSE "cleanup"
    /\ chunk' = <<>>
    /\ UNCHANGED <<fixed, blob, disk, fresh, stream, size, given, back>>

\* The transfer ends: complete, or by some other error at any time.
End ==
    /\ place = "idle" /\ status = Running
    /\ \/ given = length /\ status' = OK
       \/ status' = OtherError
    /\ place' = "cleanup"
    /\ UNCHANGED <<fixed, blob, disk, fresh, stream, size, given, chunk, back>>

-----------------------------------------------------------------------------
(* curl_write_function *)

\* ctx->data->addBytes
ToBlob ==
    /\ place = "enter" /\ ~use_path
    /\ blob' = blob \o chunk
    /\ back' = Len(chunk)
    /\ place' = "return"
    /\ UNCHANGED <<fixed, disk, fresh, stream, size, given, chunk, status>>

ToOpenFile ==
    /\ place = "enter" /\ use_path /\ open
    /\ place' = "write"
    /\ UNCHANGED <<fixed, blob, disk, fresh, stream, size, given, chunk,
                   back, status>>

\* "ab" for a file this call has written to, else "wb", which empties it.
OpenFile ==
    /\ place = "enter" /\ use_path /\ ~open
    /\ open' = TRUE
    /\ disk' = IF size # 0 THEN disk ELSE <<>>
    /\ fresh' = TRUE
    /\ place' = "write"
    /\ UNCHANGED <<fixed, blob, buffer, size, given, chunk, back, status>>

OpenFails ==
    /\ place = "enter" /\ use_path /\ ~open /\ "open" \in Faults
    /\ back' = 0
    /\ place' = "return"
    /\ UNCHANGED <<fixed, blob, disk, fresh, stream, size, given, chunk, status>>

\* Mutant: a partial write is finished by the recovery, with the whole chunk.
NeedsRetry_Partial(k) == k < Len(chunk)

\* written == 0
NeedsRetry(k) == k = 0

\* Mutant: the chunk is counted before it is known to be written.
Counted_Early(k) == Len(chunk)

\* ctx->size += written * size
Counted(k) == k

\* The first fwrite; written units are counted and returned.
Write ==
    /\ place = "write"
    /\ \E k \in 0 .. Len(chunk) :
         /\ FWrite(k)
         /\ size' = size + Counted(k)
         /\ IF NeedsRetry(k) THEN place' = "close" /\ UNCHANGED back
                            ELSE place' = "return" /\ back' = k
    /\ UNCHANGED <<fixed, blob, disk, fresh, open, given, chunk, status>>

\* The stream is given up; what fclose returns is not looked at.
CloseBroken ==
    /\ place = "close"
    /\ FClose
    /\ place' = "reopen"
    /\ UNCHANGED <<fixed, blob, fresh, size, given, chunk, back, status>>

\* Mutant: the file is created again.
Reopened_Create == <<>>

\* CPathAppend
Reopened == disk

Reopen ==
    /\ place = "reopen"
    /\ open' = TRUE
    /\ disk' = Reopened
    /\ place' = "retry"
    /\ UNCHANGED <<fixed, blob, fresh, buffer, size, given, chunk, back, status>>

ReopenFails ==
    /\ place = "reopen" /\ "open" \in Faults
    /\ back' = 0
    /\ place' = "return"
    /\ UNCHANGED <<fixed, blob, disk, fresh, stream, size, given, chunk, status>>

\* Mutant: the whole chunk is reported as written.
Taken_All(k) == Len(chunk)

\* written * size
Taken(k) == k

\* The second and last fwrite: nothing written is an error to libcurl.
Retry ==
    /\ place = "retry"
    /\ \E k \in 0 .. Len(chunk) :
         /\ FWrite(k)
         /\ size' = size + Counted(k)
         /\ back' = Taken(k)
    /\ place' = "return"
    /\ UNCHANGED <<fixed, blob, disk, fresh, open, given, chunk, status>>

\* After curl_easy_cleanup: fclose, whose result is not looked at.
CloseFile ==
    /\ place = "cleanup" /\ open
    /\ FClose
    /\ place' = "done"
    /\ UNCHANGED <<fixed, blob, fresh, size, given, chunk, back, status>>

NothingToClose ==
    /\ place = "cleanup" /\ ~open
    /\ place' = "done"
    /\ UNCHANGED <<fixed, blob, disk, fresh, stream, size, given, chunk,
                   back, status>>

\* The call is over.
Finished == place = "done" /\ UNCHANGED vars

-----------------------------------------------------------------------------
Next ==
    \/ Deliver \/ Flush \/ Return \/ End
    \/ ToBlob \/ ToOpenFile \/ OpenFile \/ OpenFails \/ Write
    \/ CloseBroken \/ Reopen \/ ReopenFails \/ Retry
    \/ CloseFile \/ NothingToClose
    \/ Finished

Spec == Init /\ [][Next]_vars
=============================================================================
