------------------------------ MODULE DebugLog ------------------------------
(***************************************************************************)
(* curl_debug_function of 4DPlugin-cURL.cpp: the log files of calls made    *)
(* with DEBUG.  Every call keeps one C stream and one size per category,    *)
(* opened by its first entry ("wb" while nothing has been written, else     *)
(* "ab"), and given up and reopened once when a write fails.  Calls of      *)
(* several 4D processes may log to one folder at the same time, each        *)
(* through streams of its own; DEBUG_ID puts them into different folders.   *)
(*                                                                         *)
(* An entry is one unit <<call, n>>, or empty.  A stream (external) keeps   *)
(* units in a buffer and writes them out when it likes: an "ab" stream at   *)
(* the end of the file, a "wb" stream where it has got to itself.           *)
(***************************************************************************)
EXTENDS Integers, Sequences, FiniteSetsExt

CONSTANTS
    Calls,      \* calls with DEBUG, in one or more processes
    Folders,    \* what DEBUG and DEBUG_ID may name
    Categories, \* of the log files CURLINFO_<category>.log
    MaxEntries, \* entries of all calls together
    Leftovers,  \* whether an earlier call has left log files there
    Faults      \* which calls of the C library may fail in this instance

FaultKinds == {"open", "write", "close"}

AllCategories == {"TEXT", "HEADER_IN", "HEADER_OUT", "DATA_IN", "DATA_OUT",
                  "SSL_DATA_IN", "SSL_DATA_OUT"}

ASSUME CategoriesAssumption == Categories \subseteq AllCategories
ASSUME EntriesAssumption    == MaxEntries \in Nat
ASSUME LeftoversAssumption  == Leftovers \subseteq BOOLEAN
ASSUME FaultsAssumption     == Faults \subseteq FaultKinds

Hole == <<"hole", 0>>  \* bytes nobody wrote
Old  == <<"old", 0>>   \* an entry of an earlier run

VARIABLES
    folder,     \* folder[c]: where call c logs
    disk,       \* disk[f, k]: content of a log file, empty if it is not there
    pc,
    hand,       \* hand[c]: category of the entry in hand, and whether it is empty
    log,        \* log[c]: categories of the entries of c so far, without empty ones
    handle,     \* handle[c, k]: "none", or the mode the stream was opened in
    at,         \* at[c, k]: where a "wb" stream has got to
    buffer,     \* buffer[c, k]: what it has accepted and not written out
    size,       \* size[c, k]
    lost        \* entries no write accepted (a history)

vars == <<folder, disk, pc, hand, log, handle, at, buffer, size, lost>>
entry == <<hand, log>>
streams == <<handle, at, buffer>>

Files == Folders \X Categories
Slots == Calls \X Categories

Nothing  == [of |-> "none", empty |-> TRUE]
InHand   == [of : Categories, empty : BOOLEAN]

Init ==
    /\ folder \in [Calls -> Folders]
    /\ \E left \in Leftovers : disk = [x \in Files |-> IF left THEN <<Old>> ELSE <<>>]
    /\ pc = [c \in Calls |-> "idle"]
    /\ hand = [c \in Calls |-> Nothing]
    /\ log = [c \in Calls |-> <<>>]
    /\ handle = [s \in Slots |-> "none"]
    /\ at = [s \in Slots |-> 0]
    /\ buffer = [s \in Slots |-> <<>>]
    /\ size = [s \in Slots |-> 0]
    /\ lost = {}

-----------------------------------------------------------------------------
(* Files and streams *)

\* s written over d from position p on.
WriteAt(d, p, s) ==
    [i \in 1 .. Max({Len(d), p + Len(s)}) |->
        IF i \in p + 1 .. p + Len(s) THEN s[i - p]
        ELSE IF i <= Len(d) THEN d[i] ELSE Hole]

\* Mutant: the two SSL logs are exchanged.
Label_Exchanged(k) ==
    CASE k = "SSL_DATA_IN"  -> "SSL_DATA_OUT"
      [] k = "SSL_DATA_OUT" -> "SSL_DATA_IN"
      [] OTHER -> k

\* path += LOG_CURLINFO_...
Label(k) == k

FileOf(c, k) == <<folder[c], Label(k)>>

\* The stream of c for k writes out n units.
WriteOut(c, k, n) ==
    LET s == SubSeq(buffer[<<c, k>>], 1, n)
        f == FileOf(c, k)
        p == IF handle[<<c, k>>] = "ab" THEN Len(disk[f]) ELSE at[<<c, k>>]
    IN  disk' = IF n = 0 THEN disk ELSE [disk EXCEPT ![f] = WriteAt(@, p, s)]

Flush(c, k) ==
    /\ handle[<<c, k>>] # "none" /\ buffer[<<c, k>>] # <<>>
    /\ \E n \in 1 .. Len(buffer[<<c, k>>]) :
         /\ WriteOut(c, k, n)
         /\ at' = [at EXCEPT ![<<c, k>>] = IF handle[<<c, k>>] = "wb" THEN @ + n ELSE @]
         /\ buffer' = [buffer EXCEPT ![<<c, k>>] = SubSeq(@, n + 1, Len(@))]
    /\ UNCHANGED <<folder, pc, entry, handle, size, lost>>

FClose(c, k) ==
    /\ \E n \in {Len(buffer[<<c, k>>])} \cup
                {m \in 0 .. Len(buffer[<<c, k>>]) : "close" \in Faults} :
         WriteOut(c, k, n)
    /\ buffer' = [buffer EXCEPT ![<<c, k>>] = <<>>]
    /\ handle' = [handle EXCEPT ![<<c, k>>] = "none"]
    /\ at' = [at EXCEPT ![<<c, k>>] = 0]

FOpen(c, k, mode) ==
    /\ handle' = [handle EXCEPT ![<<c, k>>] = mode]
    /\ disk' = IF mode = "wb" THEN [disk EXCEPT ![FileOf(c, k)] = <<>>] ELSE disk

\* The category and the content of the entry in hand.
Of(c) == hand[c].of
Unit(c) == <<c, Len(log[c])>>
Content(c) == IF hand[c].empty THEN <<>> ELSE <<Unit(c)>>

\* fwrite takes the entry, or nothing; ok says whether it took any unit.
FWrite(c, k, ok) ==
    \/ ok = ~hand[c].empty /\ buffer' = [buffer EXCEPT ![<<c, k>>] = @ \o Content(c)]
    \/ "write" \in Faults /\ ok = FALSE /\ UNCHANGED buffer

-----------------------------------------------------------------------------
(* libcurl *)

Logged == MapThenSumSet(LAMBDA c : Len(log[c]), Calls)

\* An entry of some category, or the end of the transfer.  The bound on all calls holds
\* for each of them.
Debug(c) ==
    /\ pc[c] = "idle" /\ Logged < MaxEntries /\ Len(log[c]) < MaxEntries
    /\ \E k \in Categories, e \in BOOLEAN :
         /\ hand' = [hand EXCEPT ![c] = [of |-> k, empty |-> e]]
         /\ log' = IF e THEN log ELSE [log EXCEPT ![c] = Append(@, k)]
    /\ pc' = [pc EXCEPT ![c] = "enter"]
    /\ UNCHANGED <<folder, disk, streams, size, lost>>

End(c) ==
    /\ pc[c] = "idle"
    /\ pc' = [pc EXCEPT ![c] = "cleanup"]
    /\ UNCHANGED <<folder, disk, entry, streams, size, lost>>

-----------------------------------------------------------------------------
(* curl_debug_function *)

\* It returns 0, whatever has become of the entry.
Return(c) ==
    /\ hand' = [hand EXCEPT ![c] = Nothing]
    /\ pc' = [pc EXCEPT ![c] = "idle"]

Lose(c) == lost' = IF hand[c].empty THEN lost ELSE lost \cup {Unit(c)}

\* Mutant: the mode does not depend on what has been written.
Mode_Create(c, k) == "wb"

\* *f_size ? CPathAppend : CPathCreate
Mode(c, k) == IF size[<<c, k>>] # 0 THEN "ab" ELSE "wb"

Open(c) ==
    LET k == Of(c) IN
    /\ pc[c] = "enter"
    /\ IF handle[<<c, k>>] # "none"
         THEN UNCHANGED <<handle, disk>>
         ELSE FOpen(c, k, Mode(c, k))
    /\ pc' = [pc EXCEPT ![c] = "write"]
    /\ UNCHANGED <<folder, entry, at, buffer, size, lost>>

\* The entry is lost; the callback returns 0 as ever.
OpenFails(c) ==
    /\ pc[c] = "enter" /\ handle[<<c, Of(c)>>] = "none" /\ "open" \in Faults
    /\ Lose(c)
    /\ Return(c)
    /\ UNCHANGED <<folder, disk, log, streams, size>>

\* Mutant: the entry is counted whether it was written or not.
Grown_Always(s, ok) == s + 1

\* if (written > 0) *f_size += written
Grown(s, ok) == IF ok THEN s + 1 ELSE s

\* Mutant: the entry is written once more although it was accepted.
Failed_Always(ok) == TRUE

\* written == 0
Failed(ok) == ~ok

Write(c) ==
    LET k == Of(c) IN
    /\ pc[c] = "write"
    /\ \E ok \in BOOLEAN :
         /\ FWrite(c, k, ok)
         /\ size' = [size EXCEPT ![<<c, k>>] = Grown(@, ok)]
         /\ IF Failed(ok)
              THEN pc' = [pc EXCEPT ![c] = "close"] /\ UNCHANGED hand
              ELSE Return(c)
    /\ UNCHANGED <<folder, disk, log, handle, at, lost>>

CloseBroken(c) ==
    /\ pc[c] = "close"
    /\ FClose(c, Of(c))
    /\ pc' = [pc EXCEPT ![c] = "reopen"]
    /\ UNCHANGED <<folder, entry, size, lost>>

\* CPathAppend
ReopenMode == "ab"

Reopen(c) ==
    /\ pc[c] = "reopen"
    /\ FOpen(c, Of(c), ReopenMode)
    /\ pc' = [pc EXCEPT ![c] = "rewrite"]
    /\ UNCHANGED <<folder, entry, at, buffer, size, lost>>

ReopenFails(c) ==
    /\ pc[c] = "reopen" /\ "open" \in Faults
    /\ Lose(c)
    /\ Return(c)
    /\ UNCHANGED <<folder, disk, log, streams, size>>

Rewrite(c) ==
    LET k == Of(c) IN
    /\ pc[c] = "rewrite"
    /\ \E ok \in BOOLEAN :
         /\ FWrite(c, k, ok)
         /\ size' = [size EXCEPT ![<<c, k>>] = Grown(@, ok)]
         /\ IF ok THEN UNCHANGED lost ELSE Lose(c)
    /\ Return(c)
    /\ UNCHANGED <<folder, disk, log, handle, at>>

-----------------------------------------------------------------------------
(* The end of the call: every stream is closed, after curl_easy_cleanup. *)

CloseOne(c, k) ==
    /\ pc[c] = "cleanup" /\ handle[<<c, k>>] # "none"
    /\ FClose(c, k)
    /\ UNCHANGED <<folder, pc, entry, size, lost>>

Done(c) ==
    /\ pc[c] = "cleanup"
    /\ \A k \in Categories : handle[<<c, k>>] = "none"
    /\ pc' = [pc EXCEPT ![c] = "done"]
    /\ UNCHANGED <<folder, disk, entry, streams, size, lost>>

Finished == (\A c \in Calls : pc[c] = "done") /\ UNCHANGED vars

-----------------------------------------------------------------------------
Next ==
    \/ \E c \in Calls :
         \/ Debug(c) \/ End(c)
         \/ Open(c) \/ OpenFails(c) \/ Write(c)
         \/ CloseBroken(c) \/ Reopen(c) \/ ReopenFails(c) \/ Rewrite(c)
         \/ Done(c)
    \/ \E c \in Calls, k \in Categories : Flush(c, k) \/ CloseOne(c, k)
    \/ Finished

Spec == Init /\ [][Next]_vars

-----------------------------------------------------------------------------
(* Properties *)

Units == Calls \X (1 .. MaxEntries)

TypeOK ==
    /\ folder \in [Calls -> Folders]
    /\ disk \in [Files -> Seq(Units \cup {Hole, Old})]
    /\ pc \in [Calls -> {"idle", "enter", "write", "close", "reopen", "rewrite",
                         "cleanup", "done"}]
    /\ hand \in [Calls -> InHand \cup {Nothing}]
    /\ log \in [Calls -> Seq(Categories)]
    /\ handle \in [Slots -> {"none", "ab", "wb"}]
    /\ at \in [Slots -> Nat]
    /\ buffer \in [Slots -> Seq(Units)]
    /\ size \in [Slots -> 0 .. MaxEntries]
    /\ lost \subseteq Units
    /\ \A s \in Slots : handle[s] = "none" => buffer[s] = <<>>

Entries(d) == {i \in DOMAIN d : d[i] \in Units}

\* Whatever calls share a folder, a log file holds entries of its own category
\* only: path, size and stream of the seven categories belong together.
CategoriesApart ==
    \A x \in Files : \A i \in Entries(disk[x]) :
        LET u == disk[x][i] IN log[u[1]][u[2]] = x[2]

\* In every log file the entries of one call are in the order in which it made
\* them, none of them twice, although other calls truncate the file and write
\* over each other in it.
OrderKept ==
    \A x \in Files : \A i, j \in Entries(disk[x]) :
        i < j /\ disk[x][i][1] = disk[x][j][1] => disk[x][i][2] < disk[x][j][2]

Alone(c) == \A d \in Calls \ {c} : folder[d] # folder[c]

\* The places of a file that a call has filled.
Own(d) == {i \in DOMAIN d : d[i] # Old}

\* A call that has a folder of its own loses exactly the entries that could not
\* be opened for or written, each by itself; the rest of its log is there, as
\* much as it has counted, and nobody else's.  (What becomes of the entries an
\* earlier call has left there is left open.)
LostAlone ==
    \A c \in Calls, k \in Categories :
        pc[c] = "done" /\ Alone(c) =>
            LET d == disk[<<folder[c], k>>] IN
            /\ Cardinality(Own(d)) = size[<<c, k>>]
            /\ \A i \in Own(d) : d[i][1] = c /\ d[i][2] \in DOMAIN log[c]
            /\ \A n \in DOMAIN log[c] :
                 log[c][n] = k => (\E i \in Own(d) : d[i] = <<c, n>>)
                                  \/ <<c, n>> \in lost
=============================================================================
