--------------------------- MODULE UploadReader ---------------------------
(***************************************************************************)
(* curl_read_function of 4DPlugin-cURL.cpp, and the lines of _cURL and     *)
(* cURL_FTP that decide where an upload comes from: the READDATA file, if  *)
(* it can be opened and is not empty when the call starts, or the request  *)
(* blob.  The file is opened again by the first read, and once more when a *)
(* read fails; another program may change its length at any time.          *)
(*                                                                         *)
(* A unit of the file is its position 1, 2, ...; a unit of the blob is its *)
(* position negated.  libcurl (external) asks for no more than the length  *)
(* it was told, and takes an early end as an error.                        *)
(***************************************************************************)
EXTENDS Integers, Sequences, FiniteSetsExt

CONSTANTS
    MaxFile,    \* longest file
    MaxBlob,    \* longest request blob
    MaxAsk,     \* units libcurl asks for at once
    Faults      \* what may go wrong in this instance

\* "change" is another program changing the length of the file.
FaultKinds == {"open", "read", "tell", "change"}

ASSUME SizesAssumption  == MaxFile \in Nat /\ MaxBlob \in Nat
ASSUME AskAssumption    == MaxAsk \in Nat \ {0}
ASSUME FaultsAssumption == Faults \subseteq FaultKinds

OK         == "CURLE_OK"
Aborted    == "CURLE_ABORTED_BY_CALLBACK"
ReadError  == "CURLE_READ_ERROR"
OtherError == "other"
Running    == "running"

ReadAbort == -1     \* CURL_READFUNC_ABORT
Unopened  == -1     \* `probed` of a file that was not there to look at

VARIABLES
    has_path,   \* READDATA names a file
    file,       \* length of the file
    probed,     \* its length when the call looked (a history)
    blob,       \* length of the request blob
    cursor,     \* CBytes::_cursorPosition
    size,       \* ctx->size
    declared,   \* INFILESIZE / POSTFIELDSIZE
    pc,
    open,       \* ctx->upload_file # NULL
    at,         \* position of the stream
    eof,        \* its end-of-file flag
    pos,        \* ctx->pos
    ask,        \* units libcurl asks for
    back,       \* what the callback returns
    sent,       \* the units libcurl was given
    status

vars == <<has_path, file, probed, blob, cursor, size, declared, pc, open, at,
          eof, pos, ask, back, sent, status>>
source == <<has_path, blob>>
lengths == <<probed, size, declared>>
stream == <<open, at, eof>>

Init ==
    /\ has_path \in BOOLEAN
    /\ file \in 0 .. MaxFile
    /\ probed = Unopened
    /\ blob \in 0 .. MaxBlob
    /\ cursor = 0
    /\ size = 0 /\ declared = 0
    /\ pc = "probe"
    /\ open = FALSE /\ at = 0 /\ eof = FALSE
    /\ pos = 0 /\ ask = 0 /\ back = 0
    /\ sent = <<>>
    /\ status = Running

-----------------------------------------------------------------------------
(* _cURL, cURL_FTP: the length of the upload *)

\* No file, or it cannot be opened: the blob, and its length.
ProbeNothing ==
    /\ pc = "probe"
    /\ ~has_path \/ "open" \in Faults
    /\ declared' = blob
    /\ pc' = "idle"
    /\ UNCHANGED <<source, file, probed, cursor, size, stream, pos, ask, back,
                   sent, status>>

\* Mutant: the length is told before the file is looked at.
Declared_Blob == blob

\* The second pair of curl_easy_setopt calls.
Declared == file

ProbeFile ==
    /\ pc = "probe" /\ has_path
    /\ size' = file
    /\ probed' = file
    /\ declared' = Declared
    /\ pc' = "idle"
    /\ UNCHANGED <<source, file, cursor, stream, pos, ask, back, sent, status>>

\* ftell fails, as it does on a pipe: size is -1, the declared length the blob's.
ProbeUnknown ==
    /\ pc = "probe" /\ has_path /\ "tell" \in Faults
    /\ size' = -1
    /\ probed' = file
    /\ declared' = blob
    /\ pc' = "idle"
    /\ UNCHANGED <<source, file, cursor, stream, pos, ask, back, sent, status>>

-----------------------------------------------------------------------------
(* libcurl, the C library, and another program *)

\* libcurl calls the callback while there is something left to send.
Ask ==
    /\ pc = "idle" /\ status = Running
    /\ \E n \in 1 .. Min({MaxAsk, declared - Len(sent)}) : ask' = n
    /\ pc' = "enter"
    /\ UNCHANGED <<source, file, lengths, cursor, stream, pos, back, sent, status>>

\* fread at position p returns k units: all there are, or fewer on an error; a
\* stream that has seen the end may return nothing without looking again.
\* Returns whether it met the end of the file.
There(p) == Max({0, Min({ask, file - p})})
FRead(p, k, end) ==
    \/ k = There(p) /\ end = (k < ask)
    \/ eof /\ k = 0 /\ end = TRUE
    \/ "read" \in Faults /\ k \in 0 .. ask - 1 /\ k <= There(p) /\ end = FALSE

FileUnits(p, k) == [i \in 1 .. k |-> p + i]
BlobUnits(p, k) == [i \in 1 .. k |-> -(p + i)]

\* libcurl takes the units, an abort, or an early end.
Return ==
    /\ pc = "return"
    /\ CASE back = ReadAbort -> status' = Aborted
         [] back = 0         -> status' = ReadError
         [] OTHER            -> status' = Running
    /\ pc' = IF back > 0 THEN "idle" ELSE "done"
    /\ UNCHANGED <<source, file, lengths, cursor, stream, pos, ask, back, sent>>

End ==
    /\ pc = "idle" /\ status = Running
    /\ \/ Len(sent) = declared /\ status' = OK
       \/ status' = OtherError
    /\ pc' = "done"
    /\ UNCHANGED <<source, file, lengths, cursor, stream, pos, ask, back, sent>>

ChangeFile ==
    /\ "change" \in Faults /\ pc # "done"
    /\ file' \in 0 .. MaxFile \ {file}
    /\ UNCHANGED <<source, lengths, cursor, pc, stream, pos, ask, back, sent, status>>

-----------------------------------------------------------------------------
(* curl_read_function *)

\* ctx->size
FromFile == size # 0

\* getBytesPtrForSize: what is left of the blob, at most.
ReadBlob ==
    /\ pc = "enter" /\ ~FromFile
    /\ LET k == Min({ask, blob - cursor}) IN
         /\ back' = k
         /\ cursor' = cursor + k
         /\ sent' = sent \o BlobUnits(cursor, k)
    /\ pc' = "return"
    /\ UNCHANGED <<source, file, lengths, stream, pos, ask, status>>

\* The cached stream, or a new one placed at ctx->pos.
UseOpen ==
    /\ pc = "enter" /\ FromFile /\ open
    /\ pc' = "read"
    /\ UNCHANGED <<source, file, lengths, cursor, stream, pos, ask, back, sent,
                   status>>

OpenFile ==
    /\ pc = "enter" /\ FromFile /\ ~open
    /\ open' = TRUE /\ at' = pos /\ eof' = FALSE
    /\ pc' = "read"
    /\ UNCHANGED <<source, file, lengths, cursor, pos, ask, back, sent, status>>

\* The file cannot be opened any more: 0, which reads as the end of the file.
OpenFails ==
    /\ pc = "enter" /\ FromFile /\ ~open /\ "open" \in Faults
    /\ back' = 0
    /\ pc' = "return"
    /\ UNCHANGED <<source, file, lengths, cursor, stream, pos, ask, sent, status>>

\* Mutant: any short read is taken for an error.
IsError_Short(k, end) == k < ask /\ ~end

\* len == 0 and no end of file
IsError(k, end) == k = 0 /\ ~end

\* Mutant: what was asked for, instead of what fread returned.
Got_Asked(k) == ask

\* len = fread(...)
Got(k) == k

\* Units read are given to libcurl and counted.
Give(k) ==
    /\ sent' = sent \o FileUnits(at, Got(k))
    /\ pos' = pos + Got(k)
    /\ back' = Got(k)
    /\ pc' = "return"

Read ==
    /\ pc = "read"
    /\ \E k \in 0 .. ask, end \in BOOLEAN :
         /\ FRead(at, k, end)
         /\ at' = at + k
         /\ eof' = (eof \/ end)
         /\ IF IsError(k, eof')
              THEN pc' = "reopen" /\ UNCHANGED <<sent, pos, back>>
              ELSE Give(k)
    /\ UNCHANGED <<source, file, lengths, cursor, open, ask, status>>

\* Mutant: the new stream is left at the beginning of the file.
Sought_Not == 0

\* CPathSeek(ctx->upload_file, ctx->pos, SEEK_SET)
Sought == pos

\* fclose, CPathOpen, CPathSeek
Reopen ==
    /\ pc = "reopen"
    /\ open' = TRUE /\ at' = Sought /\ eof' = FALSE
    /\ pc' = "reread"
    /\ UNCHANGED <<source, file, lengths, cursor, pos, ask, back, sent, status>>

ReopenFails ==
    /\ pc = "reopen" /\ "open" \in Faults
    /\ open' = FALSE
    /\ back' = ReadAbort
    /\ pc' = "return"
    /\ UNCHANGED <<source, file, lengths, cursor, at, eof, pos, ask, sent, status>>

\* Nothing again, for whatever reason, aborts the transfer.
Reread ==
    /\ pc = "reread"
    /\ \E k \in 0 .. ask, end \in BOOLEAN :
         /\ FRead(at, k, end)
         /\ at' = at + k
         /\ eof' = (eof \/ end)
         /\ IF k = 0
              THEN back' = ReadAbort /\ pc' = "return" /\ UNCHANGED <<sent, pos>>
              ELSE Give(k)
    /\ UNCHANGED <<source, file, lengths, cursor, open, ask, status>>

\* The call is over; cleanup closes the stream.
Finished == pc = "done" /\ UNCHANGED vars

-----------------------------------------------------------------------------
Next ==
    \/ ProbeNothing \/ ProbeFile \/ ProbeUnknown
    \/ Ask \/ Return \/ End \/ ChangeFile
    \/ ReadBlob \/ UseOpen \/ OpenFile \/ OpenFails \/ Read
    \/ Reopen \/ ReopenFails \/ Reread
    \/ Finished

Spec == Init /\ [][Next]_vars

-----------------------------------------------------------------------------
(* Properties *)

TypeOK ==
    /\ has_path \in BOOLEAN /\ open \in BOOLEAN /\ eof \in BOOLEAN
    /\ file \in 0 .. MaxFile /\ probed \in Unopened .. MaxFile
    /\ blob \in 0 .. MaxBlob /\ cursor \in 0 .. blob
    /\ size \in -1 .. MaxFile
    /\ declared \in 0 .. Max({MaxFile, MaxBlob})
    /\ pc \in {"probe", "idle", "enter", "read", "reopen", "reread", "return",
              "done"}
    /\ at \in Nat /\ pos \in Nat
    /\ ask \in 0 .. MaxAsk
    /\ back \in ReadAbort .. MaxAsk
    /\ sent \in Seq(1 .. MaxFile \cup -MaxBlob .. -1)
    /\ status \in {Running, OK, Aborted, ReadError, OtherError}

\* What libcurl was given is the beginning of one source, in order: no unit is
\* skipped or repeated by a recovery, and blob and file are never mixed, even
\* while another program changes the file.
SentInOrder ==
    \/ sent = FileUnits(0, Len(sent))
    \/ sent = BlobUnits(0, Len(sent))

\* An upload reported as successful has sent the whole of its source as it was
\* when the call looked: errors, and a file that has become shorter or cannot
\* be opened any more, never pass for its end.  The blob is sent only where no
\* file could be opened, and not in the place of one whose length could not be
\* told.  (Which source a file that was empty stands for is left open.)
OKSentAll ==
    pc = "done" /\ status = OK =>
        /\ probed > 0 =>
             IF size = probed THEN sent = FileUnits(0, probed)
                              ELSE sent = FileUnits(0, Len(sent))
        /\ probed = Unopened => sent = BlobUnits(0, blob)

\* Between two calls of the callback, ctx->pos, the stream, and what libcurl
\* was given agree, so that the next open or reopen resumes in the right place.
PosIsSent ==
    pc = "idle" /\ FromFile => pos = Len(sent) /\ (open => at = pos)
=============================================================================
