------------------------------ MODULE Download ------------------------------
(***************************************************************************)
(* A download as its caller sees it: what curl_write_function keeps of the *)
(* body of a response, and what it promises of the blob and of the file.   *)
(* DownloadWriter is the function; DownloadCall is a call that uses it.    *)
(*                                                                         *)
(* The body is 1 .. length.                                                *)
(***************************************************************************)
EXTENDS Integers, Sequences

VARIABLES
    length,     \* length of this body
    use_path,   \* WRITEDATA is set
    place,      \* where the callback is
    blob,       \* the response blob
    disk,       \* content of the file; a file that is not there is empty
    fresh,      \* this call has created the file
    open,       \* ctx->download_file # NULL
    buffer,     \* what the stream has accepted and not written
    size,       \* ctx->size
    given,      \* units libcurl has handed over
    chunk,      \* the chunk in hand
    back,       \* what the callback returns
    status      \* of the transfer

writer == <<length, use_path, place, blob, disk, fresh, open, buffer, size, given, chunk,
            back, status>>

Body(n) == [i \in 1 .. n |-> i]

\* ctx->size, and what libcurl has handed over, never count more than the body has (line 313).
WriterTypeOK ==
    /\ length \in Nat
    /\ use_path \in BOOLEAN /\ fresh \in BOOLEAN /\ open \in BOOLEAN
    /\ place \in {"idle", "enter", "write", "close", "reopen", "retry", "return",
                 "cleanup", "done"}
    /\ blob \in Seq(Nat) /\ disk \in Seq(Nat) /\ buffer \in Seq(Nat) /\ chunk \in Seq(Nat)
    /\ size \in 0 .. length /\ given \in 0 .. length /\ back \in Nat
    /\ status \in {"running", "CURLE_OK", "CURLE_WRITE_ERROR", "other"}

\* Once the call has created the file, what is on disk is at every moment the
\* beginning of the body: no unit is missing, repeated, or left from before,
\* however often writing had to be recovered (curl_write_function, lines 289-325).
FileIsPrefix == fresh => disk = Body(Len(disk))

\* A call that reports success has the whole body where the caller asked for
\* it, if libcurl handed any of it over (lines 289-325 and 2201-2217).
OKIsComplete ==
    place = "done" /\ status = "CURLE_OK" =>
        IF use_path THEN fresh => disk = Body(length)
                    ELSE blob = Body(length)

\* ctx->size, by which a file is reopened for appending or created anew, counts
\* what the file and the stream hold together.
SizeIsAccepted == fresh => size = Len(disk) + Len(buffer)

\* Data that has reached the file is never truncated away by the same call (lines 298
\* and 308).
NeverTruncated == [][fresh => Len(disk') >= Len(disk)]_writer
=============================================================================
