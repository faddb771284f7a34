---------------------------- MODULE FtpCommands ----------------------------
(***************************************************************************)
(* One call of a cURL_FTP_* command: what cURL_FTP makes of the URL and of *)
(* RENAME_TO, the slist of commands it sets next to those of the caller    *)
(* (QUOTE, PREQUOTE, POSTQUOTE), what libcurl then sends and the server    *)
(* does, and when the slists are freed.                                    *)
(*                                                                         *)
(* The URL names a directory D (MakeDir, RemoveDir and the listings) or a  *)
(* file F in it; a name is <<name, form>>, for the last one may have other *)
(* characters than ASCII and is then sent as it is in the URL, or as       *)
(* ENCODING_IN says.  The server's files are the set `tree` of their       *)
(* places, sequences of names from the root.                               *)
(***************************************************************************)
EXTENDS Integers, SequencesExt

CONSTANTS
    Commands,   \* the commands of this instance
    Homes,      \* where the server puts a user who logs in
    Faults      \* {"append"}: curl_slist_append may find no memory

AllCommands == {"GetDirList", "GetFileInfo", "MakeDir", "PrintDir", "Receive",
                "RemoveDir", "Rename", "Send", "System", "Delete"}
Phases == {"quote", "prequote", "postquote"}

D  == <<"D", "utf8">>
F  == <<"F", "utf8">>
N  == <<"N", "utf8">>
HomeName == <<"home", "utf8">>

ASSUME CommandsAssumption == Commands \subseteq AllCommands
ASSUME HomesAssumption    == Homes \subseteq {<<>>, <<HomeName>>}
ASSUME FaultsAssumption   == Faults \subseteq {"append"}

VARIABLES
    input,      \* command and options of the call
    home, tree, \* of the server
    pc,         \* where the call is
    path,       \* `path`: the names in the URL
    slists,     \* the slists of the call: their content
    life,       \* and whether they are allocated
    h,          \* which of them h is
    lost,       \* a curl_slist_append failed
    opt,        \* the slists set in the easy handle
    todo,       \* what libcurl has yet to send of the current one
    cwd,        \* the server's: current directory,
    from,       \* file named by RNFR,
    done,       \* and what it has done
    status

vars == <<input, home, tree, pc, path, slists, life, h, lost, opt, todo, cwd, from,
          done, status>>
memory == <<slists, life, h, lost, opt>>
server == <<tree, cwd, from, done>>

OK         == "CURLE_OK"
QuoteError == "CURLE_QUOTE_ERROR"
Denied     == "CURLE_REMOTE_ACCESS_DENIED"
FailedInit == "CURLE_FAILED_INIT"
Other      == "other"               \* connection lost, process aborted, ...
Running    == "running"

-----------------------------------------------------------------------------
(* Inputs *)

DirCommands  == {"MakeDir", "RemoveDir", "GetDirList", "PrintDir"}
PathCommands == {"MakeDir", "RemoveDir", "Rename", "Delete"}

\* scheme "none": a URL without "://", which libcurl takes for FTP by the host's name.  encoding: none;
\* one that converts the name; or one that fails to, the characters being
\* percent-encoded in the URL, the encoding unknown or too small.
Inputs ==
    {i \in [command : Commands, scheme : {"ftp", "sftp", "none"},
            encoding : {"none", "converts", "fails"},
            rename_to : {"", "bare", "full"}, caller : SUBSET Phases,
            create_missing : BOOLEAN] :
        /\ i.command \notin PathCommands => i.encoding = "none"
        /\ i.command # "Rename" => i.rename_to = ""}

sftp == input.scheme = "sftp"
ftp  == ~sftp

\* The names in the URL, and those of them libcurl changes to.
UrlNames == IF input.command \in DirCommands THEN <<D>> ELSE <<D, F>>

\* Mutant: the slash is added to the URL of every command.
UrlDirs_Always == UrlNames

\* The URL of a directory ends with a slash, that of a file does not.
UrlDirs == IF input.command \in DirCommands THEN UrlNames ELSE Front(UrlNames)

\* Files of the server, the same from the root and from the home directory.
Files(names) == {b \o n : b \in {<<>>, home}, n \in names}
Trees ==
    {Files(names) : names \in
        IF input.command \in DirCommands THEN {{}, {<<D>>}, {<<(<<"D", "other">>)>>}}
        ELSE {{<<D>>}, {<<D>>, <<D, F>>, <<D, D>>, <<D, D, F>>},
              {<<D>>, <<D, <<"F", "other">>>>}}}

Init ==
    /\ input \in Inputs
    /\ home \in Homes
    /\ tree \in {t \cup {home} : t \in Trees}
    /\ pc = "init"
    /\ path = <<>>
    /\ slists = [l \in Phases \cup {"h"} |-> <<>>]
    /\ life = [l \in Phases \cup {"h"} |-> "none"]
    /\ h = "NULL"
    /\ lost = FALSE
    /\ opt = [p \in Phases |-> "NULL"]
    /\ todo = <<>>
    /\ cwd = home /\ from = <<>> /\ done = <<>>
    /\ status = Running

-----------------------------------------------------------------------------
(* cURL_FTP until the transfer *)

EasyInit ==
    /\ pc = "init"
    /\ \/ pc' = "options" /\ UNCHANGED status
       \/ pc' = "returned" /\ status' = FailedInit      \* curl_easy_init failed
    /\ UNCHANGED <<input, home, path, memory, todo, server>>

Caller(p) == [verb |-> "caller", arg |-> p]

\* curl_set_options_for_ftp: the slists of the caller, and the path of the URL, which
\* stays empty without "://".
SetOptions ==
    /\ pc = "options"
    /\ slists' = [l \in DOMAIN slists |-> IF l \in input.caller THEN <<Caller(l)>> ELSE <<>>]
    /\ life' = [l \in DOMAIN life |-> IF l \in input.caller THEN "live" ELSE "none"]
    /\ opt' = [p \in Phases |-> IF p \in input.caller THEN p ELSE "NULL"]
    /\ path' = IF input.scheme = "none" THEN <<>> ELSE UrlNames
    /\ pc' = "command"
    /\ UNCHANGED <<input, home, h, lost, todo, server, status>>

\* apply_input_encoding, which leaves a name as it is when it fails.
Encoded(names) ==
    IF names # <<>> /\ input.encoding = "converts"
    THEN Append(Front(names), <<names[Len(names)][1], "other">>) ELSE names

\* A path in a command: from the root, or from where the server is.
Abs(names) == [abs |-> TRUE, names |-> names]
Rel(names) == [abs |-> FALSE, names |-> names]

rename_to ==
    CASE input.rename_to = ""     -> Rel(<<>>)
      [] input.rename_to = "bare" -> Rel(Encoded(<<N>>))
      [] input.rename_to = "full" -> Abs(Encoded(<<D, N>>))

Send1(verb, arg) == [verb |-> verb, arg |-> arg]

\* Mutant: DELE "takes a relative path" (the comment at line 2797).
DeletePath_Relative(names) == IF sftp THEN Abs(names) ELSE Rel(names)

DeletePath(names) == Abs(names)

\* Mutant: only one command is appended, whatever the protocol.
RenameQuotes_One(names) ==
    IF ftp THEN <<Send1("RNFR", Abs(names))>>
    ELSE <<[verb |-> "rename", arg |-> Abs(names), to |-> rename_to]>>

RenameQuotes(names) ==
    IF ftp THEN <<Send1("RNFR", Abs(names)), Send1("RNTO", rename_to)>>
    ELSE <<[verb |-> "rename", arg |-> Abs(names), to |-> rename_to]>>

\* The commands of the plug-in.
Quotes(names) ==
    CASE input.command = "MakeDir"   ->
            <<Send1("MKD", IF sftp THEN Abs(names) ELSE Rel(names))>>
      [] input.command = "RemoveDir" -> <<Send1("RMD", Abs(names))>>
      [] input.command = "Delete"    -> <<Send1("DELE", DeletePath(names))>>
      [] input.command = "System"    -> <<Send1("SYST", Rel(<<>>))>>
      [] input.command = "Rename"    -> RenameQuotes(names)
      [] OTHER -> <<>>

\* Mutant: a command goes before the transfer, as MKD and RMD do.
PhaseOf_Before(command) ==
    CASE command \in {"MakeDir", "RemoveDir", "Delete"} -> "quote"
      [] command = "Rename" -> "postquote"
      [] command = "System" -> "prequote"

PhaseOf(command) ==
    CASE command \in {"MakeDir", "RemoveDir"} -> "quote"
      [] command \in {"Rename", "Delete"}     -> "postquote"
      [] command = "System"                   -> "prequote"

Quoting == input.command \in PathCommands \cup {"System"}

\* Mutant: the commands are appended to the slist of the caller.
Target_Callers(p) == IF opt[p] = "NULL" THEN "h" ELSE p

\* The slist the commands are appended to.
Target(p) == "h"

\* h = curl_slist_append(h, ...) for each command; a failed one returns NULL, and
\* what was in the slist is lost.
Appended(start, quotes, failed) ==
    IF failed = {} THEN start \o quotes ELSE SubSeq(quotes, Max(failed) + 1, Len(quotes))

\* The switch before the transfer.
BuildCommand ==
    /\ pc = "command"
    /\ path' = IF input.command \in PathCommands THEN Encoded(path) ELSE path
    /\ IF ~Quoting THEN UNCHANGED memory
       ELSE \E failed \in SUBSET (IF "append" \in Faults THEN DOMAIN Quotes(path') ELSE {}) :
              LET p == PhaseOf(input.command)
                  t == Target(p)
                  l == Appended(slists[t], Quotes(path'), failed)
              IN /\ slists' = [slists EXCEPT ![t] = l]
                 /\ life' = [life EXCEPT ![t] = IF l = <<>> THEN "none" ELSE "live"]
                 /\ h' = IF l = <<>> THEN "NULL" ELSE t
                 /\ lost' = (failed # {})
                 /\ opt' = [opt EXCEPT ![p] = h']
    /\ pc' = "start"
    /\ UNCHANGED <<input, home, todo, server, status>>

-----------------------------------------------------------------------------
(* libcurl and the server (external) *)

Sending == {"quote", "cwd", "prequote", "transfer", "postquote"}

ListOf(p) == IF opt[p] = "NULL" THEN <<>> ELSE slists[opt[p]]

\* The transfer is over.
End(s) ==
    /\ status' = s
    /\ pc' = "results"
    /\ UNCHANGED <<input, home, path, memory, todo>>

\* libcurl goes on to the next of its places.
Go(place) ==
    /\ pc' = place
    /\ todo' = IF place \in Phases THEN ListOf(place) ELSE <<>>
    /\ UNCHANGED <<input, home, path, memory, status>>

\* curl_perform_non_atomic drives libcurl, which first logs in.
Start ==
    /\ pc = "start"
    /\ \/ Go("quote") /\ UNCHANGED server
       \/ End(Other) /\ UNCHANGED server

Place(arg) == IF arg.abs THEN arg.names ELSE cwd \o arg.names
Is(place, kind) == /\ place # <<>> /\ place \in tree
                   /\ kind = IF place[Len(place)][1] \in {"D", "home"} THEN "dir" ELSE "file"
Empty(place) == ~\E t \in tree : IsStrictPrefix(place, t)
Free(place) == place # <<>> /\ (Front(place) = <<>> \/ Front(place) \in tree)

\* What the server does if it grants command c.
Does(c) ==
    CASE c.verb = "MKD"  -> /\ c.arg.names # <<>> /\ Place(c.arg) \notin tree /\ Free(Place(c.arg))
                            /\ tree' = tree \cup {Place(c.arg)} /\ UNCHANGED from
      [] c.verb = "RMD"  -> /\ Is(Place(c.arg), "dir") /\ Empty(Place(c.arg))
                            /\ tree' = tree \ {Place(c.arg)} /\ UNCHANGED from
      [] c.verb = "DELE" -> /\ Is(Place(c.arg), "file")
                            /\ tree' = tree \ {Place(c.arg)} /\ UNCHANGED from
      [] c.verb = "RNFR" -> /\ Is(Place(c.arg), "file")
                            /\ from' = Place(c.arg) /\ UNCHANGED tree
      [] c.verb = "RNTO" -> /\ from # <<>> /\ c.arg.names # <<>> /\ Free(Place(c.arg))
                            /\ tree' = (tree \ {from}) \cup {Place(c.arg)} /\ from' = <<>>
      [] c.verb = "rename" -> /\ Is(Place(c.arg), "file") /\ c.to.names # <<>> /\ Free(Place(c.to))
                              /\ tree' = (tree \ {Place(c.arg)}) \cup {Place(c.to)}
                              /\ UNCHANGED from
      [] OTHER -> UNCHANGED <<tree, from>>

\* The next command of an slist is granted, or refused, which ends the transfer.
SendQuote ==
    /\ pc \in Phases /\ todo # <<>>
    /\ \/ /\ Does(Head(todo))
          /\ done' = Append(done, Head(todo))
          /\ todo' = Tail(todo)
          /\ UNCHANGED <<input, home, pc, path, memory, cwd, status>>
       \/ End(QuoteError) /\ UNCHANGED server

\* QUOTE comes before libcurl changes to the directory of the URL.  PREQUOTE does not
\* exist for SFTP, nor for a listing.
PhaseEnds ==
    /\ pc \in Phases /\ todo = <<>>
    /\ CASE pc = "quote"     -> Go(IF ftp THEN "cwd" ELSE "transfer")
         [] pc = "prequote"  -> Go("transfer")
         [] pc = "postquote" -> End(OK)
    /\ UNCHANGED server

\* CWD, and with FTP_CREATE_MISSING_DIRS a MKD if there is no such directory.
ChangeDir ==
    /\ pc = "cwd"
    /\ LET dir   == home \o UrlDirs
           there == dir \in tree
           next  == IF input.command \in {"GetDirList", "PrintDir"} THEN "transfer" ELSE "prequote"
       IN \/ /\ there \/ input.create_missing
             /\ Go(next)
             /\ tree' = IF there THEN tree ELSE tree \cup {dir}
             /\ cwd' = dir
             /\ UNCHANGED <<from, done>>
          \/ ~there /\ End(Denied) /\ UNCHANGED server

\* The transfer itself; only Send changes something of the server.
Transfer ==
    /\ pc = "transfer"
    /\ Go("postquote")
    /\ tree' = IF input.command = "Send"
               THEN tree \cup {(IF sftp THEN <<>> ELSE home) \o UrlNames} ELSE tree
    /\ UNCHANGED <<cwd, from, done>>

\* The connection breaks, or the process is aborted.
Break ==
    /\ pc \in Sending
    /\ End(Other)
    /\ UNCHANGED server

-----------------------------------------------------------------------------
(* cURL_FTP after the transfer *)

Freed(l) == IF life[l] = "live" THEN "freed" ELSE "twice"

\* Mutant: the switch does not know Rename.
FreesList_NotRename == Quoting /\ input.command # "Rename"

\* The commands whose case in the switch after the transfer frees h.
FreesList == Quoting

Results ==
    /\ pc = "results"
    /\ life' = IF FreesList /\ h # "NULL" THEN [life EXCEPT ![h] = Freed(h)] ELSE life
    /\ pc' = "cleanup"
    /\ UNCHANGED <<input, home, path, slists, h, lost, opt, todo, server, status>>

\* The slists of the options, then curl_easy_cleanup.
Cleanup ==
    /\ pc = "cleanup"
    /\ life' = [l \in DOMAIN life |-> IF l \in input.caller THEN Freed(l) ELSE life[l]]
    /\ pc' = "returned"
    /\ UNCHANGED <<input, home, path, slists, h, lost, opt, todo, server, status>>

Finished ==
    /\ pc = "returned"
    /\ UNCHANGED vars

Next ==
    \/ EasyInit \/ SetOptions \/ BuildCommand
    \/ Start \/ SendQuote \/ PhaseEnds \/ ChangeDir \/ Transfer \/ Break
    \/ Results \/ Cleanup \/ Finished

Spec == Init /\ [][Next]_vars

-----------------------------------------------------------------------------
\* Where the server puts what the URL, or RENAME_TO, names.
Base == IF sftp THEN <<>> ELSE home
Named == Encoded(UrlNames)
NewPlace ==
    IF input.rename_to = "full" THEN Encoded(<<D, N>>)
    ELSE Encoded(home \o (IF ftp THEN <<D, N>> ELSE <<N>>))
Listing == input.command \in {"GetDirList", "PrintDir"}

\* A command that returns status 0 has had its effect on the server (4DPlugin-cURL.cpp:
\* 2690-2804).  Left open is what the code does otherwise than the documentation says:
\* the place of a file that is renamed to a bare name (README.md:647, "in place") over
\* SFTP or away from the root, and a RemoveDir that FTP_CREATE_MISSING_DIRS undoes.
SuccessIsDone ==
    pc = "returned" /\ status = OK /\ ~lost =>
        CASE input.command = "MakeDir"   -> Base \o Named \in tree
          [] input.command = "RemoveDir" ->
                Named \notin tree \/ (ftp /\ input.create_missing /\ home = <<>>)
          [] input.command = "Delete"    -> Named \notin tree
          [] input.command = "Rename"    ->
                /\ Named \notin tree
                /\ input.rename_to = "full" \/ (ftp /\ home = <<>>) => NewPlace \in tree
          [] input.command = "Send"      -> Base \o UrlNames \in tree
          [] OTHER                       -> TRUE

\* Under status 0 the server has done what was asked for, in this order and nothing
\* else: QUOTE, PREQUOTE, POSTQUOTE, each of them the caller's, or the plug-in's
\* where a command of the plug-in has its place (lines 2714, 2743, 2767, 2779, 2800).
OwnPhase == [MakeDir |-> "quote", RemoveDir |-> "quote", System |-> "prequote",
             Rename |-> "postquote", Delete |-> "postquote"]
Expected(p) ==
    IF input.command \in DOMAIN OwnPhase /\ OwnPhase[input.command] = p THEN Quotes(path)
    ELSE IF p \in input.caller THEN <<Caller(p)>> ELSE <<>>
CommandsInOrder ==
    pc = "returned" /\ status = OK /\ ~lost =>
        done = Expected("quote")
               \o (IF sftp \/ Listing THEN <<>> ELSE Expected("prequote"))
               \o Expected("postquote")

\* Whatever is refused, lost or aborted, no step changes anything on the server but
\* what the command is about, and the directory of the URL with
\* FTP_CREATE_MISSING_DIRS.  A bare RENAME_TO is about the place that the server takes
\* it for: in the directory of the URL over FTP, in the home directory over SFTP.
Concerned ==
    CASE input.command = "MakeDir" -> {Base \o Named}
      [] input.command \in {"RemoveDir", "Delete"} -> {Named}
      [] input.command = "Rename"  -> {Named, NewPlace}
      [] input.command = "Send"    -> {Base \o UrlNames}
      [] OTHER -> {}
TouchesOnlyTarget ==
    [][(tree \ tree') \cup (tree' \ tree) \subseteq
          Concerned \cup (IF input.create_missing THEN {home \o UrlDirs} ELSE {})]_vars

\* The slists that libcurl reads are allocated until the transfer is over; each one
\* is freed once, whoever else may have set the same option, and none is left
\* (lines 2982-3036).
SlistsFreed ==
    /\ \A l \in DOMAIN life : life[l] # "twice"
    /\ pc \in Sending => \A p \in Phases : opt[p] # "NULL" => life[opt[p]] = "live"
    /\ pc = "returned" => \A l \in DOMAIN life : life[l] # "live"

\* Refuted by a run of its own.  "these all report the server's actual quote-command
\* response code" (README.md:735): after a RMD the server has accepted, RemoveDir
\* says so.
RemovedMeansSuccess ==
    pc = "returned" /\ input.command = "RemoveDir" /\ done = Quotes(path) /\ ~lost
        => status \in {OK, Other}
=============================================================================
