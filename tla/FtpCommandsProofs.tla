--------------------------- MODULE FtpCommandsProofs ---------------------------
(***************************************************************************)
(* Machine-checked proofs about FtpCommands, for every command, every set  *)
(* of options of the caller, and wherever a curl_slist_append fails or the *)
(* transfer ends: who frees which slist (ListsFreed); that only the target *)
(* of the command changes (OnlyTarget); that under status 0 the server has *)
(* done what it was asked for, in order (InOrder), with its effect (Done). *)
(*                                                                         *)
(* The last three rest on ServerInv: what libcurl is told and may send at  *)
(* each place, and where the server is when it gets it.                    *)
(***************************************************************************)
EXTENDS FtpCommands, SequenceTheorems, TLAPS

Lists  == Phases \cup {"h"}
Driven == {"start", "results"} \cup Sending

\* The slists of the caller's options are allocated, and no other one but perhaps h.
CallersLive ==
    \A l \in Phases : life[l] = IF l \in input.caller THEN "live" ELSE "none"

\* What has become of the slists where the call is.
ListsInv ==
    /\ input.caller \subseteq Phases
    /\ DOMAIN life = Lists
    /\ opt \in [Phases -> Lists \cup {"NULL"}]
    /\ h \in {"NULL", "h"}
    /\ pc \in {"init", "options", "command", "cleanup", "returned"} \cup Driven
    /\ pc \in {"init", "options"} => \A l \in Lists : life[l] = "none"
    /\ pc \in {"init", "options", "command"} => h = "NULL"
    /\ pc \in {"command", "cleanup"} \cup Driven => CallersLive
    /\ pc = "command" => life["h"] = "none" /\ \A p \in Phases : opt[p] \in input.caller \cup {"NULL"}
    /\ pc \in Driven =>
         /\ life["h"] = IF h = "h" THEN "live" ELSE "none"
         /\ h = "h" => Quoting
         /\ \A p \in Phases : opt[p] \in input.caller \cup {"NULL", h}
    /\ pc = "cleanup" => life["h"] \in {"none", "freed"}
    /\ pc = "returned" => \A l \in Lists : life[l] \in {"none", "freed"}

\* A step of libcurl or the server leaves the slists alone.
Sent == pc \in Driven /\ pc' \in Driven /\ UNCHANGED <<input, slists, life, h, lost, opt>>

LEMMA SentKeeps == ListsInv /\ Sent => ListsInv'
<1> SUFFICES ASSUME ListsInv, Sent PROVE ListsInv'
  OBVIOUS
<1>1. UNCHANGED <<input, life, h, opt>> /\ (Quoting' <=> Quoting) /\ (CallersLive' <=> CallersLive)
  BY DEF Sent, Quoting, CallersLive
<1> QED
  BY <1>1 DEF Sent, ListsInv, Driven, Sending

LEMMA InitOK == Init => ListsInv
<1> SUFFICES ASSUME Init PROVE ListsInv
  OBVIOUS
<1>1. input.caller \subseteq Phases
  BY DEF Init, Inputs
<1> QED
  BY <1>1 DEF Init, ListsInv, Lists, Driven, Sending

LEMMA StepOK == ListsInv /\ [Next]_vars => ListsInv'
<1> SUFFICES ASSUME ListsInv, [Next]_vars PROVE ListsInv'
  OBVIOUS
<1>1. CASE EasyInit
  BY <1>1 DEF EasyInit, ListsInv, memory, Driven, Sending, Lists
<1>2. CASE SetOptions
  <2>1. /\ pc' = "command" /\ input' = input /\ h' = h /\ pc = "options"
        /\ DOMAIN life' = Lists
        /\ \A l \in Lists : life'[l] = IF l \in input.caller THEN "live" ELSE "none"
    BY <1>2 DEF SetOptions, ListsInv, Lists
  <2>2. /\ opt' \in [Phases -> Lists \cup {"NULL"}]
        /\ \A p \in Phases : opt'[p] \in input.caller \cup {"NULL"}
    BY <1>2 DEF SetOptions, Lists
  <2>3. "h" \notin Phases /\ "h" \in Lists /\ Phases \subseteq Lists
    BY DEF Phases, Lists
  <2> QED
    BY <2>1, <2>2, <2>3 DEF ListsInv, CallersLive, Driven, Sending
<1>3. CASE BuildCommand
  <2>1. pc = "command" /\ pc' = "start" /\ input' = input
    BY <1>3 DEF BuildCommand
  <2>2. CASE ~Quoting
    <3>1. UNCHANGED <<life, h, opt>>
      BY <1>3, <2>2 DEF BuildCommand, memory
    <3> QED
      BY <2>1, <2>2, <3>1 DEF ListsInv, CallersLive, Driven, Sending
  <2>3. CASE Quoting
    <3>1. PICK l, p :
            /\ life' = [life EXCEPT !["h"] = IF l = <<>> THEN "none" ELSE "live"]
            /\ h' = IF l = <<>> THEN "NULL" ELSE "h"
            /\ opt' = [opt EXCEPT ![p] = h']
      BY <1>3, <2>3 DEF BuildCommand, Target
    <3>2. /\ DOMAIN life' = Lists
          /\ life'["h"] = (IF h' = "h" THEN "live" ELSE "none")
          /\ h' \in {"NULL", "h"}
          /\ \A q \in Phases : life'[q] = life[q]
      BY <3>1 DEF ListsInv, Lists, Phases
    <3>3. /\ opt' \in [Phases -> Lists \cup {"NULL"}]
          /\ \A q \in Phases : opt'[q] \in input.caller \cup {"NULL", h'}
      <4>1. /\ opt \in [Phases -> Lists \cup {"NULL"}]
            /\ \A q \in Phases : opt[q] \in input.caller \cup {"NULL"}
        BY <2>1 DEF ListsInv
      <4>2. h' \in Lists \cup {"NULL"}
        BY <3>2 DEF Lists
      <4>3. \A q \in Phases : opt'[q] = opt[q] \/ opt'[q] = h'
        BY <3>1, <4>1
      <4>4. opt' \in [Phases -> Lists \cup {"NULL"}]
        BY <3>1, <4>1, <4>2
      <4> QED
        BY <4>1, <4>3, <4>4
    <3>4. Quoting' <=> Quoting
      BY <2>1 DEF Quoting
    <3> QED
      BY <2>1, <2>3, <3>2, <3>3, <3>4 DEF ListsInv, CallersLive, Driven, Sending
  <2> QED
    BY <2>2, <2>3
<1>4. CASE Start \/ SendQuote \/ PhaseEnds \/ ChangeDir \/ Transfer \/ Break
  <2>1. Sent
    BY <1>4 DEF Sent, Driven, Sending, Start, SendQuote, PhaseEnds, ChangeDir, Transfer, Break,
                Go, End, memory, Phases
  <2> QED
    BY <2>1, SentKeeps
<1>5. CASE Results
  <2>1. pc = "results" /\ pc' = "cleanup" /\ UNCHANGED <<input, h, opt>>
    BY <1>5 DEF Results
  <2>2. life' = IF FreesList /\ h # "NULL" THEN [life EXCEPT ![h] = Freed(h)] ELSE life
    BY <1>5 DEF Results
  <2>3. /\ DOMAIN life' = Lists
        /\ life'["h"] \in {"none", "freed"}
        /\ \A l \in Phases : life'[l] = life[l]
    BY <2>1, <2>2 DEF ListsInv, Lists, Phases, Driven, FreesList, Freed
  <2> QED
    BY <2>1, <2>3 DEF ListsInv, CallersLive, Driven, Sending
<1>6. CASE Cleanup
  <2>1. pc = "cleanup" /\ pc' = "returned" /\ UNCHANGED <<input, h, opt>>
    BY <1>6 DEF Cleanup
  <2>2. /\ DOMAIN life' = Lists
        /\ \A l \in Lists : life'[l] = IF l \in input.caller THEN Freed(l) ELSE life[l]
    BY <1>6 DEF Cleanup, ListsInv
  <2>3. \A l \in Lists : life'[l] \in {"none", "freed"}
    BY <2>1, <2>2 DEF ListsInv, Lists, CallersLive, Freed
  <2> QED
    BY <2>1, <2>2, <2>3 DEF ListsInv, Driven, Sending
<1>7. CASE Finished \/ UNCHANGED vars
  <2>1. UNCHANGED <<input, pc, life, h, opt>>
    BY <1>7 DEF Finished, vars
  <2>2. (Quoting' <=> Quoting) /\ (CallersLive' <=> CallersLive)
    BY <2>1 DEF Quoting, CallersLive
  <2> QED
    BY <2>1, <2>2 DEF ListsInv
<1> QED
  BY <1>1, <1>2, <1>3, <1>4, <1>5, <1>6, <1>7 DEF Next

\* cURL_FTP keeps an slist allocated while libcurl reads it, frees each one once,
\* and leaves none, although the caller may have set the option of its own
\* commands (4DPlugin-cURL.cpp:2690-3036).
THEOREM ListsFreed == Spec => []SlistsFreed
<1>1. ListsInv => SlistsFreed
  <2> SUFFICES ASSUME ListsInv PROVE SlistsFreed
    OBVIOUS
  <2>1. \A l \in Lists : life[l] \in {"none", "live", "freed"}
    BY DEF ListsInv, CallersLive, Lists, Driven
  <2>2. pc \in Sending => \A p \in Phases : opt[p] # "NULL" => life[opt[p]] = "live"
    BY DEF ListsInv, CallersLive, Driven
  <2> QED
    BY <2>1, <2>2 DEF ListsInv, SlistsFreed
<1> QED
  BY <1>1, InitOK, StepOK, PTL DEF Spec

-----------------------------------------------------------------------------
(* Short sequences of names. *)

LEMMA Appends ==
    ASSUME NEW a, NEW b, NEW c
    PROVE  /\ <<a>> = Append(<<>>, a) /\ <<a, b>> = Append(<<a>>, b)
           /\ <<a, b, c>> = Append(<<a, b>>, c)
<1>1. <<a>> = Append(<<>>, a)
  OBVIOUS
<1>2. <<a, b>> = Append(<<a>>, b)
  OBVIOUS
<1>3. <<a, b, c>> = Append(<<a, b>>, c)
  OBVIOUS
<1> QED
  BY <1>1, <1>2, <1>3

LEMMA Joined ==
    ASSUME NEW a, NEW b, NEW c
    PROVE  /\ <<>> \o <<a>> = <<a>> /\ <<>> \o <<a, b>> = <<a, b>>
           /\ <<a>> \o <<b>> = <<a, b>>
           /\ <<a>> \o <<b, c>> = <<a, b, c>>
<1>1. /\ <<a>> \in Seq({a, b, c}) /\ <<b>> \in Seq({a, b, c}) /\ <<c>> \in Seq({a, b, c})
      /\ <<a, b>> \in Seq({a, b, c})
  OBVIOUS
<1>2. <<>> \o <<a>> = <<a>> /\ <<>> \o <<a, b>> = <<a, b>>
  BY <1>1, ConcatEmptySeq
<1>3. <<a>> \o <<b>> = <<a, b>> /\ <<b>> \o <<c>> = <<b, c>>
  <2>1. Append(<<a>>, b) = <<a>> \o <<b>>
    BY <1>1, AppendIsConcat
  <2>2. Append(<<b>>, c) = <<b>> \o <<c>>
    BY <1>1, AppendIsConcat
  <2> QED
    BY <2>1, <2>2, Appends
<1>4. <<a>> \o <<b, c>> = <<a, b, c>>
  <2>1. Append(<<a, b>>, c) = <<a, b>> \o <<c>>
    BY <1>1, AppendIsConcat
  <2>2. (<<a>> \o <<b>>) \o <<c>> = <<a>> \o (<<b>> \o <<c>>)
    BY <1>1, ConcatAssociative
  <2>3. <<a, b, c>> = Append(<<a, b>>, c)
    BY Appends
  <2> QED
    BY ONLY <2>1, <2>2, <2>3, <1>3, Zenon
<1> QED
  BY <1>2, <1>3, <1>4

LEMMA JoinedTwice ==
    ASSUME NEW a, NEW b, NEW c
    PROVE  (<<a>> \o <<b>>) \o <<c>> = <<a>> \o <<b, c>>
<1>1. <<a>> \in Seq({a, b, c}) /\ <<b>> \in Seq({a, b, c}) /\ <<c>> \in Seq({a, b, c})
  OBVIOUS
<1>2. (<<a>> \o <<b>>) \o <<c>> = <<a>> \o (<<b>> \o <<c>>)
  BY <1>1, ConcatAssociative
<1>3. <<b>> \o <<c>> = <<b, c>>
  BY Joined
<1> QED
  BY ONLY <1>2, <1>3, Zenon

LEMMA Fronts ==
    ASSUME NEW a, NEW b, NEW c
    PROVE  Front(<<a>>) = <<>> /\ Front(<<a, b>>) = <<a>> /\ Front(<<a, b, c>>) = <<a, b>>
<1>1. Front(<<a>>) = <<>>
  BY SubSeqEmpty DEF Front
<1>2. Front(<<a, b>>) = <<a>>
  <2>1. <<a, b>> \in Seq({a, b}) /\ Len(<<a, b>>) = 2 /\ Len(<<a, b>>) - 1 = 1
    OBVIOUS
  <2>2. SubSeq(<<a, b>>, 1, 1) = SubSeq(<<a, b>>, 1, 0) \o <<a>>
    BY <2>1, SubSeqRecursiveSecond
  <2>3. SubSeq(<<a, b>>, 1, 0) = <<>>
    BY SubSeqEmpty
  <2> QED
    BY ONLY <2>1, <2>2, <2>3, Joined, Zenon DEF Front
<1>3. Front(<<a, b, c>>) = <<a, b>>
  <2>1. /\ <<a, b, c>> \in Seq({a, b, c}) /\ Len(<<a, b, c>>) = 3
        /\ Len(<<a, b, c>>) - 1 = 2
    OBVIOUS
  <2>2. SubSeq(<<a, b, c>>, 1, 1) = SubSeq(<<a, b, c>>, 1, 0) \o <<a>>
    BY <2>1, SubSeqRecursiveSecond
  <2>3. SubSeq(<<a, b, c>>, 1, 2) = SubSeq(<<a, b, c>>, 1, 1) \o <<b>>
    BY <2>1, SubSeqRecursiveSecond
  <2>4. SubSeq(<<a, b, c>>, 1, 0) = <<>>
    BY SubSeqEmpty
  <2> QED
    BY ONLY <2>1, <2>2, <2>3, <2>4, Joined, Zenon DEF Front
<1> QED
  BY <1>1, <1>2, <1>3

-----------------------------------------------------------------------------
(* What the server is told: names, paths and commands. *)

\* A name as ENCODING_IN makes it.
Coded(name) == IF input.encoding = "converts" THEN <<name[1], "other">> ELSE name

LEMMA CodedNames ==
    /\ \A a : Encoded(<<a>>) = <<Coded(a)>>
    /\ \A a, b : Encoded(<<a, b>>) = <<a, Coded(b)>>
    /\ \A a, b, c : Encoded(<<a, b, c>>) = <<a, b, Coded(c)>>
<1> SUFFICES ASSUME NEW a, NEW b, NEW c
             PROVE  /\ Encoded(<<a>>) = <<Coded(a)>> /\ Encoded(<<a, b>>) = <<a, Coded(b)>>
                    /\ Encoded(<<a, b, c>>) = <<a, b, Coded(c)>>
  OBVIOUS
<1>1. /\ Len(<<a>>) = 1 /\ Len(<<a, b>>) = 2 /\ Len(<<a, b, c>>) = 3
      /\ <<a>>[1] = a /\ <<a, b>>[2] = b /\ <<a, b, c>>[3] = c
      /\ <<a>> # <<>> /\ <<a, b>> # <<>> /\ <<a, b, c>> # <<>>
  OBVIOUS
<1>2. Encoded(<<a>>) = <<Coded(a)>>
  <2>1. << <<a[1], "other">> >> = Append(<<>>, <<a[1], "other">>)
    BY Appends
  <2> QED
    BY <1>1, <2>1, Fronts DEF Encoded, Coded
<1>3. Encoded(<<a, b>>) = <<a, Coded(b)>>
  <2>1. <<a, <<b[1], "other">> >> = Append(<<a>>, <<b[1], "other">>)
    BY Appends
  <2> QED
    BY <1>1, <2>1, Fronts DEF Encoded, Coded
<1>4. Encoded(<<a, b, c>>) = <<a, b, Coded(c)>>
  <2>1. <<a, b, <<c[1], "other">> >> = Append(<<a, b>>, <<c[1], "other">>)
    BY Appends
  <2> QED
    BY <1>1, <2>1, Fronts DEF Encoded, Coded
<1> QED
  BY <1>2, <1>3, <1>4

LEMMA UrlIs ==
    /\ UrlDirs = <<D>>
    /\ UrlNames = IF input.command \in DirCommands THEN <<D>> ELSE <<D, F>>
    /\ Named = IF input.command \in DirCommands THEN <<Coded(D)>> ELSE <<D, Coded(F)>>
<1> QED
  BY Fronts, CodedNames DEF UrlDirs, UrlNames, Named

\* Where Rename puts the file is no directory of the URL, and not the file it moves.
LEMMA NewPlaceIs ==
    ASSUME home \in Homes
    PROVE  /\ home = <<>> \/ home = <<HomeName>>
           /\ input.rename_to = "full" => NewPlace = <<D, Coded(N)>>
           /\ input.rename_to # "full" /\ ftp => NewPlace = home \o <<D, Coded(N)>>
           /\ input.rename_to # "full" /\ sftp => NewPlace = home \o <<Coded(N)>>
           /\ input.command = "Rename" => NewPlace # Named
<1>1. home = <<>> \/ home = <<HomeName>>
  BY HomesAssumption
<1>2. input.rename_to = "full" => NewPlace = <<D, Coded(N)>>
  BY CodedNames DEF NewPlace
<1>3. input.rename_to # "full" /\ ftp => NewPlace = home \o <<D, Coded(N)>>
  <2>1. \/ /\ home \o <<D, N>> = <<D, N>> /\ home \o <<D, Coded(N)>> = <<D, Coded(N)>>
        \/ /\ home \o <<D, N>> = <<HomeName, D, N>>
           /\ home \o <<D, Coded(N)>> = <<HomeName, D, Coded(N)>>
    BY <1>1, Joined, ZenonT(60)
  <2> QED
    BY <2>1, CodedNames DEF NewPlace
<1>4. input.rename_to # "full" /\ sftp => NewPlace = home \o <<Coded(N)>>
  <2>1. \/ /\ home \o <<N>> = <<N>> /\ home \o <<Coded(N)>> = <<Coded(N)>>
        \/ /\ home \o <<N>> = <<HomeName, N>>
           /\ home \o <<Coded(N)>> = <<HomeName, Coded(N)>>
    BY <1>1, Joined
  <2> QED
    BY <2>1, CodedNames DEF NewPlace, ftp
<1>5. input.command = "Rename" => NewPlace # Named
  <2>1. Coded(F)[1] = "F" /\ Coded(N)[1] = "N"
    BY DEF Coded, F, N
  <2>2. input.command = "Rename" => Named = <<D, Coded(F)>>
    BY UrlIs DEF DirCommands
  <2>3. <<D, Coded(N)>> # <<D, Coded(F)>> /\ <<HomeName, Coded(N)>> # <<D, Coded(F)>>
    BY <2>1
  <2>5. /\ <<HomeName, D, Coded(N)>> # <<D, Coded(F)>>
        /\ <<Coded(N)>> # <<D, Coded(F)>>
    OBVIOUS
  <2> QED
    BY <1>1, <1>2, <1>3, <1>4, <2>2, <2>3, <2>5, Joined DEF ftp
<1> QED
  BY <1>1, <1>2, <1>3, <1>4, <1>5

\* The phase of a command, written twice in the model: once as the code chooses it.
LEMMA OwnPhaseIs ==
    ASSUME input.command \in AllCommands
    PROVE  /\ input.command \in DOMAIN OwnPhase <=> Quoting
           /\ Quoting => /\ OwnPhase[input.command] = PhaseOf(input.command)
                         /\ PhaseOf(input.command) \in Phases
<1>1. DOMAIN OwnPhase = {"MakeDir", "RemoveDir", "System", "Rename", "Delete"}
  BY DEF OwnPhase
<1>2. input.command \in DOMAIN OwnPhase <=> Quoting
  BY <1>1 DEF Quoting, PathCommands
<1>3. CASE input.command \in {"MakeDir", "RemoveDir"}
  BY <1>2, <1>3 DEF OwnPhase, PhaseOf, Phases
<1>4. CASE input.command \in {"Rename", "Delete"}
  BY <1>2, <1>4 DEF OwnPhase, PhaseOf, Phases
<1>5. CASE input.command = "System"
  BY <1>2, <1>5 DEF OwnPhase, PhaseOf, Phases
<1> QED
  BY <1>1, <1>2, <1>3, <1>4, <1>5

\* Where libcurl has changed to the directory of the URL.
After(place) == place \in {"prequote", "transfer", "postquote"}

\* The commands of the plug-in, and what libcurl may send in a phase.
OwnOf(names) == {Quotes(names)[i] : i \in DOMAIN Quotes(names)}
Own == OwnOf(path)
Sendable(p) == {Caller(p)} \cup (IF Quoting /\ PhaseOf(input.command) = p THEN Own ELSE {})

\* The path of the URL, encoded for the commands that send it.
PathInv ==
    /\ pc \in {"init", "options"} => path = <<>>
    /\ pc = "command" => path \in {<<>>, UrlNames}
    /\ pc \in Driven /\ input.command \in PathCommands => path \in {<<>>, Named}

\* The slists before the command is built, and the ones libcurl then has: the
\* plug-in's commands in its own phase, the caller's in the others.
QuotesInv ==
    /\ pc = "command" =>
         /\ ~lost
         /\ slists = [l \in Lists |-> IF l \in input.caller THEN <<Caller(l)>> ELSE <<>>]
         /\ opt = [p \in Phases |-> IF p \in input.caller THEN p ELSE "NULL"]
    /\ pc \in {"init", "options"} => ~lost /\ slists = [l \in Lists |-> <<>>]
    /\ pc \in Driven => \A p \in Phases : ListOf(p) \in Seq(Sendable(p))
    /\ pc \in Driven /\ ~lost => \A p \in Phases : ListOf(p) = Expected(p)

\* Where the server is, and the file it has in mind.  CWD and PREQUOTE are of FTP.
PlaceInv ==
    /\ pc \in {"init", "options", "command", "start", "quote", "cwd"} => cwd = home
    /\ pc \in Driven /\ sftp => cwd = home
    /\ ftp /\ After(pc) => cwd = home \o UrlDirs
    /\ from \in {<<>>, Named}
    /\ pc \in {"cwd", "prequote"} => ftp
    /\ pc = "prequote" => ~Listing
    /\ pc \in Phases => todo \in Seq(Sendable(pc))

ServerInv ==
    /\ input \in Inputs /\ home \in Homes
    /\ pc \in {"init", "options", "command", "cleanup", "returned"} \cup Driven
    /\ PathInv /\ QuotesInv /\ PlaceInv

\* The commands the server has to do before libcurl is at a place.
Prequotes == IF sftp \/ Listing THEN <<>> ELSE Expected("prequote")
Before(place) ==
    CASE place = "prequote"                -> Expected("quote")
      [] place \in {"transfer", "postquote"} -> Expected("quote") \o Prequotes
      [] OTHER                             -> <<>>

AnySent == UNION {Sendable(p) : p \in Phases}

\* At every place done and todo together are what the options ask for.
OrderInv ==
    /\ pc \in {"init", "options", "command", "start"} => done = <<>>
    /\ pc \in Driven => done \in Seq(AnySent)
    /\ pc \in Phases /\ ~lost => done \o todo = Before(pc) \o Expected(pc)
    /\ pc = "cwd" /\ ~lost => done = Expected("quote")
    /\ pc = "transfer" /\ ~lost => done = Before("transfer")
    /\ pc \in {"results", "cleanup", "returned"} /\ status = OK /\ ~lost =>
         done = Before("postquote") \o Expected("postquote")
    /\ status = OK => pc \in {"results", "cleanup", "returned"}

\* The effect on the server once the command of the plug-in is granted.
Effect ==
    CASE input.command = "MakeDir"   -> Base \o Named \in tree
      [] input.command = "RemoveDir" -> Named \notin tree \/ (ftp /\ input.create_missing /\ home = <<>>)
      [] input.command = "Delete"    -> Named \notin tree
      [] input.command = "Rename"    -> Named \notin tree /\ NewPlace \in tree
      [] input.command = "Send"      -> Base \o UrlNames \in tree
      [] OTHER                       -> TRUE
\* All of them, or with RNFR granted the second of two, is still to be sent.
Pending ==
    \/ todo = Quotes(path)
    \/ from = Named /\ todo = Tail(Quotes(path)) /\ todo # <<>>
    \/ todo = <<>> /\ Effect
EffectInv ==
    ~lost =>
      /\ Quoting /\ pc = PhaseOf(input.command) => Pending
      /\ input.command \in {"MakeDir", "RemoveDir"} /\ pc \in {"cwd", "prequote", "transfer", "postquote"}
            => Effect
      /\ input.command = "Send" /\ pc = "postquote" => Effect
      /\ status = OK => Effect

-----------------------------------------------------------------------------
(* What a command does when the server grants it. *)

LEMMA DoesIs ==
    ASSUME NEW c, Does(c)
    PROVE  /\ c.verb = "MKD" => /\ c.arg.names # <<>>
                                /\ tree' = tree \cup {Place(c.arg)} /\ from' = from
           /\ c.verb \in {"RMD", "DELE"} => /\ Place(c.arg) # <<>>
                                            /\ tree' = tree \ {Place(c.arg)} /\ from' = from
           /\ c.verb = "RNFR" => Place(c.arg) # <<>> /\ tree' = tree /\ from' = Place(c.arg)
           /\ c.verb = "RNTO" => /\ from # <<>> /\ c.arg.names # <<>> /\ from' = <<>>
                                 /\ tree' = (tree \ {from}) \cup {Place(c.arg)}
           /\ c.verb = "rename" => /\ Place(c.arg) # <<>> /\ c.to.names # <<>> /\ from' = from
                                   /\ tree' = (tree \ {Place(c.arg)}) \cup {Place(c.to)}
           /\ c.verb \in {"caller", "SYST"} => tree' = tree /\ from' = from
<1>1. CASE c.verb = "MKD"
  BY <1>1, Zenon DEF Does
<1>2. CASE c.verb = "RMD"
  BY <1>2 DEF Does, Is
<1>3. CASE c.verb = "DELE"
  BY <1>3 DEF Does, Is
<1>4. CASE c.verb = "RNFR"
  BY <1>4 DEF Does, Is
<1>5. CASE c.verb = "RNTO"
  BY <1>5 DEF Does
<1>6. CASE c.verb = "rename"
  BY <1>6 DEF Does, Is
<1>7. CASE c.verb \in {"caller", "SYST"}
  BY <1>7 DEF Does
<1> QED
  BY <1>1, <1>2, <1>3, <1>4, <1>5, <1>6, <1>7

LEMMA QuotesIs ==
    ASSUME NEW names
    PROVE
    /\ input.command = "MakeDir" =>
         Quotes(names) = <<Send1("MKD", IF sftp THEN Abs(names) ELSE Rel(names))>>
    /\ input.command = "RemoveDir" => Quotes(names) = <<Send1("RMD", Abs(names))>>
    /\ input.command = "Delete" => Quotes(names) = <<Send1("DELE", Abs(names))>>
    /\ input.command = "System" => Quotes(names) = <<Send1("SYST", Rel(<<>>))>>
    /\ input.command = "Rename" /\ ftp =>
         Quotes(names) = <<Send1("RNFR", Abs(names)), Send1("RNTO", rename_to)>>
    /\ input.command = "Rename" /\ sftp =>
         Quotes(names) = <<[verb |-> "rename", arg |-> Abs(names), to |-> rename_to]>>
BY DEF Quotes, DeletePath, RenameQuotes, ftp

\* What the server does with a command of the plug-in that it grants.
Granted(c) ==
    \/ /\ input.command = "MakeDir"
       /\ tree' = tree \cup {Base \o Named} /\ from' = from
    \/ /\ input.command \in {"RemoveDir", "Delete"}
       /\ tree' = tree \ {Named} /\ from' = from
    \/ /\ input.command = "Rename" /\ ftp /\ c = Send1("RNFR", Abs(path))
       /\ tree' = tree /\ from' = Named
    \/ /\ input.command = "Rename" /\ (sftp \/ c = Send1("RNTO", rename_to))
       /\ tree' = (tree \ {Named}) \cup {NewPlace} /\ from' \in {<<>>, Named}
    \/ /\ input.command = "System"
       /\ tree' = tree /\ from' = from

LEMMA RenameToIs ==
    ASSUME ServerInv, input.command = "Rename", pc = "postquote"
    PROVE  rename_to.names # <<>> => Place(rename_to) = NewPlace
<1>1. /\ input.rename_to \in {"", "bare", "full"}
      /\ home = <<>> \/ home = <<HomeName>>
  BY NewPlaceIs DEF ServerInv, Inputs
<1>2. CASE input.rename_to = ""
  BY <1>2 DEF rename_to, Rel
<1>3. CASE input.rename_to = "full"
  BY <1>3, CodedNames, NewPlaceIs DEF rename_to, Place, Abs, ServerInv
<1>4. CASE input.rename_to = "bare"
  <2>1. Place(rename_to) = cwd \o <<Coded(N)>>
    BY <1>4, CodedNames DEF rename_to, Place, Rel
  <2>2. CASE sftp
    <3>1. cwd = home
      BY <2>2 DEF ServerInv, PlaceInv, Driven, Sending
    <3> QED
      BY <1>4, <2>1, <2>2, <3>1, NewPlaceIs DEF ServerInv
  <2>3. CASE ftp
    <3>1. cwd = home \o <<D>>
      BY <2>3, UrlIs DEF ServerInv, PlaceInv, After
    <3>2. (home \o <<D>>) \o <<Coded(N)>> = home \o <<D, Coded(N)>>
      <4>1. CASE home = <<>>
        <5>1. <<>> \o <<D>> = <<D>> /\ <<D>> \o <<Coded(N)>> = <<D, Coded(N)>>
          BY Joined
        <5>2. <<>> \o <<D, Coded(N)>> = <<D, Coded(N)>>
          BY Joined
        <5> QED
          BY ONLY <4>1, <5>1, <5>2, Zenon
      <4>2. CASE home = <<HomeName>>
        <5>1. (<<HomeName>> \o <<D>>) \o <<Coded(N)>> = <<HomeName>> \o <<D, Coded(N)>>
          BY JoinedTwice
        <5> QED
          BY ONLY <4>2, <5>1, Zenon
      <4> QED
        BY <1>1, <4>1, <4>2
    <3> QED
      BY <1>4, <2>1, <2>3, <3>1, <3>2, NewPlaceIs DEF ServerInv
  <2> QED
    BY <2>2, <2>3 DEF ftp
<1> QED
  BY <1>1, <1>2, <1>3, <1>4

LEMMA OwnDoes ==
    ASSUME ServerInv, pc \in Phases, Quoting, PhaseOf(input.command) = pc,
           NEW c, c \in Own, Does(c)
    PROVE  Granted(c)
<1>1. /\ input.command \in AllCommands /\ home \in Homes
      /\ from \in {<<>>, Named}
      /\ input.command \in PathCommands => path \in {<<>>, Named}
  BY CommandsAssumption DEF ServerInv, PathInv, PlaceInv, Inputs, Driven, Sending, Phases
<1>2. PICK i \in DOMAIN Quotes(path) : c = Quotes(path)[i]
  BY DEF Own, OwnOf
<1>3. Place(Abs(path)) = path /\ Place(Rel(path)) = cwd \o path
  BY DEF Place, Abs, Rel
<1>4. CASE input.command = "MakeDir"
  <2>1. c = Send1("MKD", IF sftp THEN Abs(path) ELSE Rel(path))
    BY <1>2, <1>4, QuotesIs
  <2>2. path # <<>> /\ from' = from
        /\ tree' = tree \cup {IF sftp THEN path ELSE cwd \o path}
    <3>1. c.verb = "MKD" /\ c.arg = IF sftp THEN Abs(path) ELSE Rel(path)
      BY <2>1 DEF Send1
    <3>2. c.arg.names = path /\ Place(c.arg) = IF sftp THEN path ELSE cwd \o path
      <4>1. Abs(path).names = path /\ Rel(path).names = path
        BY DEF Abs, Rel
      <4> QED
        BY ONLY <1>3, <3>1, <4>1, Zenon
    <3>3. c.arg.names # <<>> /\ tree' = tree \cup {Place(c.arg)} /\ from' = from
      BY <3>1, DoesIs
    <3> QED
      BY <3>2, <3>3
  <2>3. path = Named
    BY <1>1, <1>4, <2>2 DEF PathCommands
  <2>4. pc = "quote" /\ cwd = home
    BY <1>4 DEF PhaseOf, ServerInv, PlaceInv
  <2>5. <<>> \o Named = Named
    BY <1>4, UrlIs, Joined DEF DirCommands
  <2> QED
    BY <1>4, <2>2, <2>3, <2>4, <2>5 DEF Granted, Base
<1>5. CASE input.command = "RemoveDir"
  <2>1. c = Send1("RMD", Abs(path))
    BY <1>2, <1>5, QuotesIs
  <2> QED
    BY <1>1, <1>3, <1>5, <2>1, DoesIs DEF Send1, Granted, PathCommands
<1>6. CASE input.command = "Delete"
  <2>1. c = Send1("DELE", Abs(path))
    BY <1>2, <1>6, QuotesIs
  <2> QED
    BY <1>1, <1>3, <1>6, <2>1, DoesIs DEF Send1, Granted, PathCommands
<1>7. CASE input.command = "System"
  <2>1. c = Send1("SYST", Rel(<<>>))
    BY <1>2, <1>7, QuotesIs
  <2> QED
    BY <1>7, <2>1, DoesIs DEF Send1, Granted
<1>8. CASE input.command = "Rename" /\ ftp
  <2>1. Quotes(path) = <<Send1("RNFR", Abs(path)), Send1("RNTO", rename_to)>>
    BY <1>8, QuotesIs
  <2>2. CASE c = Send1("RNFR", Abs(path))
    BY <1>1, <1>3, <1>8, <2>2, DoesIs DEF Send1, Granted, PathCommands
  <2>3. CASE c = Send1("RNTO", rename_to)
    <3>1. pc = "postquote"
      BY <1>8 DEF PhaseOf
    <3>2. /\ from = Named /\ rename_to.names # <<>> /\ from' = <<>>
          /\ tree' = (tree \ {from}) \cup {Place(rename_to)}
      BY <1>1, <2>3, DoesIs DEF Send1
    <3> QED
      BY <1>8, <2>3, <3>1, <3>2, RenameToIs DEF Granted
  <2>4. c = Send1("RNFR", Abs(path)) \/ c = Send1("RNTO", rename_to)
    BY <1>2, <2>1
  <2> QED
    BY <2>2, <2>3, <2>4
<1>9. CASE input.command = "Rename" /\ sftp
  <2>1. c = [verb |-> "rename", arg |-> Abs(path), to |-> rename_to]
    BY <1>2, <1>9, QuotesIs
  <2>2. /\ path # <<>> /\ rename_to.names # <<>> /\ from' = from
        /\ tree' = (tree \ {path}) \cup {Place(rename_to)}
    BY <1>3, <2>1, DoesIs
  <2>3. pc = "postquote"
    BY <1>9 DEF PhaseOf
  <2> QED
    BY <1>1, <1>9, <2>2, <2>3, RenameToIs DEF Granted, PathCommands
<1> QED
  BY <1>1, <1>4, <1>5, <1>6, <1>7, <1>8, <1>9 DEF Quoting, PathCommands, ftp

-----------------------------------------------------------------------------
(* ServerInv is kept by every step. *)

LEMMA SameData ==
    ASSUME UNCHANGED <<input, home, path, slists, opt>>
    PROVE  /\ (Quoting' <=> Quoting) /\ (sftp' <=> sftp) /\ (ftp' <=> ftp) /\ (Listing' <=> Listing)
           /\ UrlNames' = UrlNames /\ UrlDirs' = UrlDirs /\ Named' = Named
           /\ NewPlace' = NewPlace /\ Base' = Base
           /\ \A p \in Phases : /\ ListOf(p)' = ListOf(p) /\ Sendable(p)' = Sendable(p)
                                /\ Expected(p)' = Expected(p)
           /\ Quotes(path)' = Quotes(path)
<1>1. /\ (Quoting' <=> Quoting) /\ (sftp' <=> sftp) /\ (ftp' <=> ftp) /\ (Listing' <=> Listing)
      /\ UrlNames' = UrlNames
  BY DEF Quoting, sftp, ftp, Listing, UrlNames
<1>2. UrlDirs' = UrlDirs /\ Named' = Named /\ NewPlace' = NewPlace /\ Base' = Base
  BY <1>1 DEF UrlDirs, Named, Encoded, NewPlace, Base
<1>3. Quotes(path)' = Quotes(path)
  <2>1. input' = input /\ path' = path
    OBVIOUS
  <2>2. Abs(path)' = Abs(path) /\ Rel(path)' = Rel(path)
    BY <2>1
  <2>3. rename_to' = rename_to
    BY <2>1 DEF rename_to, Encoded
  <2>4. RenameQuotes(path)' = RenameQuotes(path)
    BY <1>1, <2>2, <2>3 DEF RenameQuotes
  <2> QED
    BY <1>1, <2>1, <2>2, <2>4 DEF Quotes, DeletePath
<1>4. ASSUME NEW p \in Phases
      PROVE  ListOf(p)' = ListOf(p) /\ Sendable(p)' = Sendable(p) /\ Expected(p)' = Expected(p)
  BY <1>1, <1>3 DEF ListOf, Sendable, Own, OwnOf, Expected, PhaseOf, Caller
<1> QED
  BY <1>1, <1>2, <1>3, <1>4

LEMMA QuotesTyped ==
    ASSUME input.command \in AllCommands, Quoting, NEW names
    PROVE  /\ Quotes(names) \in Seq(OwnOf(names))
           /\ Len(Quotes(names)) \in {1, 2}
<1>1. \/ \E x : Quotes(names) = <<x>>
      \/ \E x, y : Quotes(names) = <<x, y>>
  BY QuotesIs DEF Quoting, PathCommands, ftp
<1>2. Len(Quotes(names)) \in {1, 2}
  BY <1>1
<1>3. \E S : Quotes(names) \in Seq(S)
  <2>1. ASSUME NEW x, Quotes(names) = <<x>> PROVE Quotes(names) \in Seq({x})
    BY <2>1
  <2>2. ASSUME NEW x, NEW y, Quotes(names) = <<x, y>> PROVE Quotes(names) \in Seq({x, y})
    BY <2>2
  <2> QED
    BY <1>1, <2>1, <2>2
<1>4. Quotes(names) \in Seq(Range(Quotes(names)))
  BY <1>3, SeqOfRange
<1>5. Range(Quotes(names)) = OwnOf(names)
  BY Zenon DEF Range, OwnOf
<1> QED
  BY <1>2, <1>4, <1>5

LEMMA AppendedIs ==
    ASSUME NEW S, NEW q \in Seq(S), Len(q) \in {1, 2}, NEW failed, failed \subseteq DOMAIN q
    PROVE  /\ Appended(<<>>, q, failed) \in Seq(S)
           /\ failed = {} => Appended(<<>>, q, failed) = q
<1>1. CASE failed = {}
  BY <1>1, ConcatEmptySeq DEF Appended
<1>2. CASE failed # {}
  <2>1. failed \subseteq {1, 2}
    BY LenProperties
  <2>2. \E i \in failed : \A j \in failed : i >= j
    <3>1. CASE 2 \in failed
      BY <2>1, <3>1
    <3>2. CASE 2 \notin failed
      BY <1>2, <2>1, <3>2
    <3> QED
      BY <3>1, <3>2
  <2>3. Max(failed) \in failed
    BY <2>2 DEF Max
  <2>4. Max(failed) \in 1 .. Len(q)
    BY <2>3, LenProperties
  <2>5. \A i \in Max(failed) + 1 .. Len(q) : q[i] \in S
    BY <2>4, ElementOfSeq, LenProperties
  <2>6. SubSeq(q, Max(failed) + 1, Len(q)) \in Seq(S)
    BY <2>4, <2>5, SubSeqProperties, LenProperties
  <2> QED
    BY <1>2, <2>6 DEF Appended
<1> QED
  BY <1>1, <1>2

LEMMA ExpectedIs ==
    ASSUME input.command \in AllCommands, NEW p \in Phases
    PROVE  Expected(p) = IF Quoting /\ PhaseOf(input.command) = p THEN Quotes(path)
                         ELSE IF p \in input.caller THEN <<Caller(p)>> ELSE <<>>
BY OwnPhaseIs DEF Expected

\* While libcurl works the plug-in changes nothing it has told it.
LEMMA DataKept ==
    ASSUME ServerInv, pc \in Driven, pc' \in Driven, UNCHANGED <<input, home, path, memory>>
    PROVE  input' \in Inputs /\ home' \in Homes /\ PathInv' /\ QuotesInv'
<1>1. UNCHANGED <<input, home, path, slists, opt, lost>>
  BY DEF memory
<1>2. PathInv'
  BY <1>1, SameData DEF ServerInv, PathInv, Driven, Sending
<1>3. QuotesInv'
  BY <1>1, SameData DEF ServerInv, QuotesInv, Driven, Sending
<1> QED
  BY <1>1, <1>2, <1>3 DEF ServerInv

LEMMA ServerInit == Init => ServerInv
<1> SUFFICES ASSUME Init PROVE ServerInv
  OBVIOUS
<1> USE DEF Init
<1>1. PathInv
  BY DEF PathInv, Driven, Sending
<1>2. QuotesInv
  BY DEF QuotesInv, Driven, Sending, Lists
<1>3. PlaceInv
  BY DEF PlaceInv, Driven, Sending, After, Phases
<1> QED
  BY <1>1, <1>2, <1>3 DEF ServerInv

LEMMA BuildKeeps == ServerInv /\ BuildCommand => ServerInv'
<1> SUFFICES ASSUME ServerInv, BuildCommand PROVE ServerInv'
  OBVIOUS
<1>1. /\ pc = "command" /\ pc' = "start"
      /\ UNCHANGED <<input, home, cwd, from, todo>>
      /\ path' = IF input.command \in PathCommands THEN Encoded(path) ELSE path
  BY DEF BuildCommand, server
<1>2. /\ input \in Inputs /\ home \in Homes /\ input.command \in AllCommands
      /\ path \in {<<>>, UrlNames} /\ cwd = home /\ from \in {<<>>, Named} /\ ~lost
      /\ slists = [l \in Lists |-> IF l \in input.caller THEN <<Caller(l)>> ELSE <<>>]
      /\ opt = [p \in Phases |-> IF p \in input.caller THEN p ELSE "NULL"]
      /\ input.caller \subseteq Phases
  BY <1>1, CommandsAssumption DEF ServerInv, PathInv, QuotesInv, PlaceInv, Inputs
<1>3. /\ (Quoting' <=> Quoting) /\ Named' = Named
      /\ PhaseOf(input.command)' = PhaseOf(input.command)
      /\ Quotes(path)' = Quotes(path')
  <2>1. /\ Quoting' <=> Quoting
        /\ Named' = Named
    BY <1>1 DEF Quoting, Named, Encoded, UrlNames
  <2>2. PhaseOf(input.command)' = PhaseOf(input.command)
    BY <1>1 DEF PhaseOf
  <2>3. Quotes(path)' = Quotes(path')
    <3>1. (sftp' <=> sftp) /\ (ftp' <=> ftp) /\ rename_to' = rename_to
      BY <1>1 DEF sftp, ftp, rename_to, Encoded
    <3>2. RenameQuotes(path)' = RenameQuotes(path')
      BY <1>1, <3>1 DEF RenameQuotes
    <3> QED
      BY <1>1, <3>1, <3>2 DEF Quotes, DeletePath
  <2> QED
    BY <2>1, <2>2, <2>3
<1>4. PathInv'
  <2>1. Encoded(<<>>) = <<>> /\ Encoded(UrlNames) = Named
    BY DEF Encoded, Named
  <2> QED
    BY <1>1, <1>2, <1>3, <2>1 DEF PathInv
<1>5. PlaceInv'
  BY <1>1, <1>2, <1>3 DEF PlaceInv, After, Phases
<1>6. QuotesInv'
  <2>1. SUFFICES ASSUME NEW p \in Phases
                 PROVE  /\ ListOf(p)' \in Seq(Sendable(p)')
                        /\ ~lost' => ListOf(p)' = Expected(p)'
    BY <1>1 DEF QuotesInv
  <2>2. /\ Expected(p)' = IF Quoting /\ PhaseOf(input.command) = p THEN Quotes(path')
                          ELSE IF p \in input.caller THEN <<Caller(p)>> ELSE <<>>
        /\ Caller(p) \in Sendable(p)'
        /\ Quoting /\ PhaseOf(input.command) = p => OwnOf(path') \subseteq Sendable(p)'
    <3>1. input.command \in DOMAIN OwnPhase <=> Quoting
      BY <1>2, OwnPhaseIs
    <3>2. Quoting => OwnPhase[input.command] = PhaseOf(input.command)
      BY <1>2, OwnPhaseIs
    <3>3. Own' = OwnOf(path')
      BY <1>3 DEF Own, OwnOf
    <3>4. Caller(p)' = Caller(p)
      BY DEF Caller
    <3>5. Expected(p)' = IF Quoting /\ PhaseOf(input.command) = p THEN Quotes(path')
                         ELSE IF p \in input.caller THEN <<Caller(p)>> ELSE <<>>
      BY <1>1, <1>3, <3>1, <3>2, <3>4 DEF Expected
    <3> QED
      BY <1>1, <1>3, <3>3, <3>4, <3>5 DEF Sendable
  <2>3. ASSUME opt'[p] = opt[p], opt[p] # "NULL" => slists'[p] = slists[p],
               ~(Quoting /\ PhaseOf(input.command) = p)
        PROVE  ListOf(p)' \in Seq(Sendable(p)') /\ ListOf(p)' = Expected(p)'
    <3>1. ListOf(p)' = IF p \in input.caller THEN <<Caller(p)>> ELSE <<>>
      BY <1>2, <2>3 DEF ListOf, Lists, Phases
    <3>2. <<>> \in Seq(Sendable(p)') /\ <<Caller(p)>> \in Seq(Sendable(p)')
      BY <2>2
    <3> QED
      BY <2>2, <2>3, <3>1, <3>2
  <2>4. CASE ~Quoting
    <3>1. slists' = slists /\ opt' = opt
      BY <2>4 DEF BuildCommand, memory
    <3> QED
      BY <2>3, <2>4, <3>1
  <2>5. CASE Quoting
    <3> DEFINE q == PhaseOf(input.command)
    <3>1. PICK failed \in SUBSET DOMAIN Quotes(path') :
            /\ slists' = [slists EXCEPT !["h"] = Appended(slists["h"], Quotes(path'), failed)]
            /\ h' = IF Appended(slists["h"], Quotes(path'), failed) = <<>> THEN "NULL" ELSE "h"
            /\ lost' = (failed # {})
            /\ opt' = [opt EXCEPT ![q] = h']
      BY <2>5 DEF BuildCommand, Target
    <3>2. slists["h"] = <<>> /\ DOMAIN slists = Lists /\ "h" \in Lists /\ "h" \notin Phases
      BY <1>2 DEF Lists, Phases
    <3>3. q \in Phases
      BY <1>2, <2>5, OwnPhaseIs
    <3>4. CASE p # q
      <4>1. opt'[p] = opt[p] /\ slists'[p] = slists[p]
        BY <1>2, <3>1, <3>2, <3>4
      <4> QED
        BY <2>3, <3>4, <4>1
    <3>5. CASE p = q
      <4> DEFINE l == Appended(<<>>, Quotes(path'), failed)
      <4>1. /\ Quotes(path') \in Seq(OwnOf(path')) /\ Len(Quotes(path')) \in {1, 2}
        BY <1>2, <2>5, QuotesTyped
      <4>2. l \in Seq(OwnOf(path')) /\ (failed = {} => l = Quotes(path'))
        BY <4>1, AppendedIs
      <4>3. opt'[p] = h'
        BY <1>2, <3>1, <3>5
      <4>4. slists'["h"] = l /\ h' = IF l = <<>> THEN "NULL" ELSE "h"
        BY <3>1, <3>2
      <4> HIDE DEF l
      <4>5. ListOf(p)' = l
        BY <4>3, <4>4 DEF ListOf
      <4>6. l \in Seq(Sendable(p)')
        BY <2>2, <2>5, <3>5, <4>2, SeqMonotonic
      <4> QED
        BY <2>2, <2>5, <3>1, <3>5, <4>2, <4>5, <4>6
    <3> QED
      BY <3>4, <3>5
  <2> QED
    BY <2>4, <2>5
<1> QED
  BY <1>1, <1>2, <1>4, <1>5, <1>6 DEF ServerInv, Driven

\* A command of an slist: where it is in the slist does not matter here.
LEMMA SentIs ==
    ASSUME ServerInv, pc \in Phases, todo # <<>>, Does(Head(todo))
    PROVE  \/ tree' = tree /\ from' = from /\ Head(todo) = Caller(pc)
           \/ /\ Quoting /\ PhaseOf(input.command) = pc
              /\ Head(todo) \in Own /\ Granted(Head(todo))
<1>1. todo \in Seq(Sendable(pc))
  BY DEF ServerInv, PlaceInv
<1>2. Head(todo) \in Sendable(pc)
  BY <1>1, HeadTailProperties
<1>3. CASE Head(todo) = Caller(pc)
  <2>1. PICK c : c = Head(todo)
    OBVIOUS
  <2>2. Does(c) /\ c.verb = "caller"
    BY <1>3, <2>1 DEF Caller
  <2> QED
    BY <1>3, <2>2, DoesIs
<1>4. CASE Quoting /\ PhaseOf(input.command) = pc /\ Head(todo) \in Own
  <2>1. PICK c : c = Head(todo)
    OBVIOUS
  <2>2. c \in Own /\ Does(c)
    BY <1>4, <2>1
  <2>3. Granted(c)
    BY <1>4, <2>2, OwnDoes
  <2> QED
    BY <1>4, <2>1, <2>3
<1> QED
  BY <1>2, <1>3, <1>4 DEF Sendable

LEMMA GrantedFrom ==
    ASSUME from \in {<<>>, Named}, NEW c, Granted(c)
    PROVE  from' \in {<<>>, Named}
BY DEF Granted

LEMMA EarlyKeeps == ServerInv /\ (EasyInit \/ SetOptions) => ServerInv'
<1> SUFFICES ASSUME ServerInv, EasyInit \/ SetOptions PROVE ServerInv'
  OBVIOUS
<1>1. CASE EasyInit
  <2>1. /\ pc = "init" /\ pc' \in {"options", "returned"}
        /\ UNCHANGED <<input, home, path, slists, opt, lost, todo, cwd, from>>
    BY <1>1 DEF EasyInit, memory, server
  <2>2. PathInv' /\ QuotesInv'
    BY <2>1 DEF ServerInv, PathInv, QuotesInv, Driven, Sending
  <2>3. PlaceInv'
    BY <2>1, SameData DEF ServerInv, PlaceInv, Driven, Sending, After, Phases
  <2> QED
    BY <2>1, <2>2, <2>3 DEF ServerInv
<1>2. CASE SetOptions
  <2>1. /\ pc = "options" /\ pc' = "command"
        /\ UNCHANGED <<input, home, lost, todo, cwd, from>>
        /\ path' = IF input.scheme = "none" THEN <<>> ELSE UrlNames
        /\ slists' = [l \in DOMAIN slists |-> IF l \in input.caller THEN <<Caller(l)>> ELSE <<>>]
        /\ opt' = [p \in Phases |-> IF p \in input.caller THEN p ELSE "NULL"]
    BY <1>2 DEF SetOptions, server
  <2>2. PathInv'
    BY <2>1 DEF PathInv, UrlNames, Driven, Sending
  <2>3. ~lost' /\ DOMAIN slists = Lists
    BY <2>1 DEF ServerInv, QuotesInv
  <2>4. QuotesInv'
    BY <2>1, <2>3 DEF QuotesInv, Caller, Driven, Sending
  <2>5. PlaceInv'
    BY <2>1 DEF ServerInv, PlaceInv, Driven, Sending, After, Phases, Named, Encoded, UrlNames
  <2> QED
    BY <2>1, <2>2, <2>4, <2>5 DEF ServerInv
<1> QED
  BY <1>1, <1>2

\* The next place of libcurl: it has the slist of the phase to send.
LEMMA GoSends ==
    ASSUME ServerInv, pc \in Driven, NEW place \in Sending, Go(place)
    PROVE  /\ pc' = place /\ UNCHANGED <<input, home, path, memory, status>>
           /\ place \in Phases => todo' \in Seq(Sendable(place)) /\ todo' = ListOf(place)
           /\ pc' \in Driven
<1>1. /\ pc' = place /\ UNCHANGED <<input, home, path, memory, status>>
      /\ place \in Phases => todo' = ListOf(place)
  BY DEF Go
<1> QED
  BY <1>1 DEF ServerInv, QuotesInv, Driven

LEMMA PhaseEndsIs ==
    ASSUME PhaseEnds
    PROVE  /\ pc \in Phases /\ todo = <<>> /\ UNCHANGED server
           /\ \/ pc = "quote" /\ ftp /\ Go("cwd")
              \/ pc = "quote" /\ sftp /\ Go("transfer")
              \/ pc = "prequote" /\ Go("transfer")
              \/ pc = "postquote" /\ End(OK)
<1>1. pc \in Phases /\ todo = <<>> /\ UNCHANGED server
  BY Zenon DEF PhaseEnds
<1>2. CASE pc = "quote"
  <2>1. Go(IF ftp THEN "cwd" ELSE "transfer")
    BY <1>2, Zenon DEF PhaseEnds
  <2> QED
    BY <1>1, <1>2, <2>1, Zenon DEF ftp
<1>3. CASE pc = "prequote"
  BY <1>1, <1>3, Zenon DEF PhaseEnds
<1>4. CASE pc = "postquote"
  BY <1>1, <1>4, Zenon DEF PhaseEnds
<1> QED
  BY <1>1, <1>2, <1>3, <1>4 DEF Phases

\* The steps of libcurl and the server.
Working == Start \/ SendQuote \/ PhaseEnds \/ ChangeDir \/ Transfer \/ Break

LEMMA WorkingIs ==
    ASSUME Working
    PROVE  pc \in Driven /\ pc' \in Driven /\ UNCHANGED <<input, home, path, memory>>
BY PhaseEndsIs DEF Working, Start, SendQuote, ChangeDir, Transfer, Break, Go, End,
                   Driven, Sending, Phases

LEMMA WorkingKeeps == ServerInv /\ Working => ServerInv'
<1> SUFFICES ASSUME ServerInv, Working PROVE ServerInv'
  OBVIOUS
<1>1. /\ pc \in Driven /\ pc' \in Driven /\ UNCHANGED <<input, home, path, memory>>
      /\ UNCHANGED <<input, home, path, slists, opt>>
  BY WorkingIs DEF memory
<1>2. input' \in Inputs /\ home' \in Homes /\ PathInv' /\ QuotesInv'
  BY <1>1, DataKept
<1>3. /\ (sftp' <=> sftp) /\ (ftp' <=> ftp) /\ UrlDirs' = UrlDirs /\ Named' = Named
      /\ \A p \in Phases : Sendable(p)' = Sendable(p)
      /\ home' = home /\ (Listing' <=> Listing)
  BY <1>1, SameData
<1>4. /\ pc \in {"init", "options", "command", "start", "quote", "cwd"} => cwd = home
      /\ pc \in Driven /\ sftp => cwd = home
      /\ ftp /\ After(pc) => cwd = home \o UrlDirs
      /\ from \in {<<>>, Named}
      /\ pc \in {"cwd", "prequote"} => ftp
      /\ pc = "prequote" => ~Listing
      /\ pc \in Phases => todo \in Seq(Sendable(pc))
  BY DEF ServerInv, PlaceInv
<1>5. PlaceInv'
  <2>1. CASE Start
    <3>1. CASE Go("quote") /\ UNCHANGED server
      <4>1. pc' = "quote" /\ todo' \in Seq(Sendable("quote")) /\ cwd' = cwd /\ from' = from
        BY <1>1, <3>1, GoSends DEF Sending, Phases, server
      <4> QED
        BY <1>3, <1>4, <2>1, <4>1 DEF PlaceInv, After, Phases, Start
    <3>2. CASE End(Other) /\ UNCHANGED server
      BY <1>3, <1>4, <2>1, <3>2 DEF PlaceInv, After, Phases, Start, End, server, Driven
    <3> QED
      BY <2>1, <3>1, <3>2 DEF Start
  <2>2. CASE SendQuote
    <3>1. CASE End(QuoteError) /\ UNCHANGED server
      BY <1>1, <1>3, <1>4, <3>1 DEF PlaceInv, After, Phases, End, server
    <3>2. CASE /\ Does(Head(todo)) /\ todo' = Tail(todo) /\ pc' = pc /\ cwd' = cwd
      <4>1. pc \in Phases /\ todo # <<>>
        BY <2>2 DEF SendQuote
      <4>2. from' \in {<<>>, Named}
        <5>1. CASE from' = from
          BY <1>4, <5>1
        <5>2. CASE Granted(Head(todo))
          BY <1>4, <5>2 DEF Granted
        <5> QED
          BY <3>2, <4>1, <5>1, <5>2, SentIs
      <4>3. todo' \in Seq(Sendable(pc))
        BY <1>4, <3>2, <4>1, HeadTailProperties
      <4> QED
        BY <1>1, <1>3, <1>4, <3>2, <4>1, <4>2, <4>3 DEF PlaceInv
    <3> QED
      BY <2>2, <3>1, <3>2 DEF SendQuote
  <2>3. CASE PhaseEnds
    <3>1. cwd' = cwd /\ from' = from /\ pc \in Phases
      BY <2>3, PhaseEndsIs DEF server
    <3>2. CASE pc = "quote" /\ ftp /\ Go("cwd")
      BY <1>3, <1>4, <3>1, <3>2 DEF PlaceInv, Go, After, Phases, ftp
    <3>3. CASE pc = "quote" /\ sftp /\ Go("transfer")
      BY <1>3, <1>4, <3>1, <3>3 DEF PlaceInv, Go, After, Phases, ftp
    <3>4. CASE pc = "prequote" /\ Go("transfer")
      BY <1>1, <1>3, <1>4, <3>1, <3>4 DEF PlaceInv, Go, After, Phases
    <3>5. CASE pc = "postquote" /\ End(OK)
      BY <1>1, <1>3, <1>4, <3>1, <3>5 DEF PlaceInv, End, After, Phases
    <3> QED
      BY <2>3, <3>2, <3>3, <3>4, <3>5, PhaseEndsIs
  <2>4. CASE ChangeDir
    <3>1. CASE End(Denied) /\ UNCHANGED server
      BY <1>1, <1>3, <1>4, <3>1 DEF PlaceInv, After, Phases, End, server
    <3>2. CASE ~(End(Denied) /\ UNCHANGED server)
      <4>1. PICK next \in {"transfer", "prequote"} : Go(next) /\ (next = "prequote" => ~Listing)
        BY <2>4, <3>2 DEF ChangeDir, Listing
      <4>2. cwd' = home \o UrlDirs /\ from' = from
        BY <2>4, <3>2 DEF ChangeDir
      <4>3. pc' = next /\ (next = "prequote" => todo' \in Seq(Sendable("prequote")))
        BY <1>1, <4>1, GoSends DEF Sending, Phases
      <4>4. ftp
        BY <1>4, <2>4 DEF ChangeDir
      <4> QED
        BY <1>3, <4>1, <1>4, <4>2, <4>3, <4>4 DEF PlaceInv, After, Phases, ftp
    <3> QED
      BY <3>1, <3>2
  <2>5. CASE Transfer
    <3>1. pc = "transfer" /\ Go("postquote") /\ cwd' = cwd /\ from' = from
      BY <2>5 DEF Transfer
    <3>2. pc' = "postquote" /\ todo' \in Seq(Sendable("postquote"))
      BY <1>1, <3>1, GoSends DEF Sending, Phases
    <3> QED
      BY <1>1, <1>3, <1>4, <3>1, <3>2 DEF PlaceInv, After, Phases
  <2>6. CASE Break
    BY <1>1, <1>3, <1>4, <2>6 DEF PlaceInv, After, Phases, Break, End, server
  <2> QED
    BY <2>1, <2>2, <2>3, <2>4, <2>5, <2>6 DEF Working
<1> QED
  BY <1>1, <1>2, <1>5 DEF ServerInv

LEMMA LateKeeps == ServerInv /\ (Results \/ Cleanup \/ Finished \/ UNCHANGED vars) => ServerInv'
<1> SUFFICES ASSUME ServerInv, Results \/ Cleanup \/ Finished \/ UNCHANGED vars
             PROVE  ServerInv'
  OBVIOUS
<1>1. UNCHANGED <<input, home, path, slists, opt, lost, todo, cwd, from>>
  BY DEF Results, Cleanup, Finished, vars, server
<1>2. CASE Results \/ Cleanup
  <2>1. pc' \in {"cleanup", "returned"}
    BY <1>2 DEF Results, Cleanup
  <2>2. PathInv' /\ QuotesInv'
    BY <2>1 DEF PathInv, QuotesInv, Driven, Sending
  <2>3. PlaceInv'
    BY <1>1, <2>1, SameData DEF ServerInv, PlaceInv, Driven, Sending, After, Phases
  <2> QED
    BY <1>1, <2>1, <2>2, <2>3 DEF ServerInv
<1>3. CASE Finished \/ UNCHANGED vars
  <2>1. pc' = pc
    BY <1>3 DEF Finished, vars
  <2>2. PathInv' /\ QuotesInv'
    BY <1>1, <2>1, SameData DEF ServerInv, PathInv, QuotesInv
  <2>3. PlaceInv'
    BY <1>1, <2>1, SameData DEF ServerInv, PlaceInv, After
  <2> QED
    BY <1>1, <2>1, <2>2, <2>3 DEF ServerInv
<1> QED
  BY <1>2, <1>3

LEMMA ServerStep == ServerInv /\ [Next]_vars => ServerInv'
BY EarlyKeeps, BuildKeeps, WorkingKeeps, LateKeeps DEF Next, Working

\* Whatever command the server grants, whatever is refused or breaks, and whether or
\* not an allocation fails, it changes only what the command is about
\* (4DPlugin-cURL.cpp:2690-2804, with the paths of lines 2282-2383).
THEOREM OnlyTarget == Spec => TouchesOnlyTarget
<1> DEFINE Change == (tree \ tree') \cup (tree' \ tree) \subseteq
                        Concerned \cup (IF input.create_missing THEN {home \o UrlDirs} ELSE {})
<1>1. ServerInv /\ [Next]_vars => [Change]_vars
  <2> SUFFICES ASSUME ServerInv, [Next]_vars PROVE Change \/ UNCHANGED vars
    OBVIOUS
  <2>1. CASE SendQuote
    <3>1. CASE tree' = tree
      BY <3>1
    <3>2. CASE tree' # tree
      <4>1. pc \in Phases /\ todo # <<>> /\ Does(Head(todo))
        BY <2>1, <3>2 DEF SendQuote, server
      <4>2. Granted(Head(todo))
        BY <3>2, <4>1, SentIs
      <4> QED
        BY <3>2, <4>2 DEF Granted, Concerned
    <3> QED
      BY <3>1, <3>2
  <2>2. CASE ChangeDir
    BY <2>2 DEF ChangeDir, server
  <2>3. CASE Transfer
    BY <2>3 DEF Transfer, Concerned, Base
  <2>4. CASE ~(SendQuote \/ ChangeDir \/ Transfer)
    <3>1. tree' = tree
      BY <2>4, PhaseEndsIs DEF Next, EasyInit, SetOptions, BuildCommand, Start, Break, Results,
                               Cleanup, Finished, server, vars
    <3> QED
      BY <3>1
  <2> QED
    BY <2>1, <2>2, <2>3, <2>4
<1> QED
  BY <1>1, ServerInit, ServerStep, PTL DEF Spec, TouchesOnlyTarget

-----------------------------------------------------------------------------
(* What has been done, and what is still to be sent. *)

LEMMA OneMoved ==
    ASSUME NEW S, NEW d \in Seq(S), NEW t \in Seq(S), t # <<>>
    PROVE  Append(d, Head(t)) \o Tail(t) = d \o t
<1>1. Head(t) \in S /\ Tail(t) \in Seq(S) /\ <<Head(t)>> \in Seq(S)
  BY HeadTailProperties
<1>2. Len(t) \in Nat \ {0} /\ Head(t) = t[1]
  BY EmptySeq
<1>3. t = <<Head(t)>> \o Tail(t)
  <2>1. SubSeq(t, 1, Len(t)) = <<t[1]>> \o SubSeq(t, 2, Len(t))
    BY <1>2, SubSeqRecursiveFirst
  <2>2. SubSeq(t, 1, Len(t)) = t
    BY SubSeqFull
  <2>3. Tail(t) = SubSeq(t, 2, Len(t))
    BY TailIsSubSeq
  <2> QED
    BY <1>2, <2>1, <2>2, <2>3
<1>4. Append(d, Head(t)) = d \o <<Head(t)>>
  BY <1>1, AppendIsConcat
<1>5. (d \o <<Head(t)>>) \o Tail(t) = d \o (<<Head(t)>> \o Tail(t))
  BY <1>1, ConcatAssociative
<1> QED
  BY ONLY <1>3, <1>4, <1>5, Zenon

LEMMA ExpectedTyped ==
    ASSUME input.command \in AllCommands, NEW p \in Phases
    PROVE  /\ Expected(p) \in Seq(Sendable(p))
           /\ Expected(p) \in Seq(AnySent)
           /\ <<>> \o Expected(p) = Expected(p) /\ Expected(p) \o <<>> = Expected(p)
<1>1. Expected(p) \in Seq(Sendable(p))
  <2>1. CASE Quoting /\ PhaseOf(input.command) = p
    <3>1. Quotes(path) \in Seq(Own)
      BY <2>1, QuotesTyped DEF Own
    <3>2. Own \subseteq Sendable(p)
      BY <2>1 DEF Sendable
    <3>3. Quotes(path) \in Seq(Sendable(p))
      BY <3>1, <3>2, SeqMonotonic
    <3> QED
      BY <2>1, <3>3, ExpectedIs
  <2>2. CASE ~(Quoting /\ PhaseOf(input.command) = p)
    <3>1. <<>> \in Seq(Sendable(p)) /\ <<Caller(p)>> \in Seq(Sendable(p))
      BY DEF Sendable
    <3> QED
      BY <2>2, <3>1, ExpectedIs
  <2> QED
    BY <2>1, <2>2
<1>2. Sendable(p) \subseteq AnySent
  BY DEF AnySent
<1> QED
  BY <1>1, <1>2, SeqMonotonic, ConcatEmptySeq

LEMMA SameOrder ==
    ASSUME UNCHANGED <<input, home, path, slists, opt>>
    PROVE  /\ AnySent' = AnySent /\ Prequotes' = Prequotes
           /\ \A place : Before(place)' = Before(place)
           /\ \A p \in Phases : ListOf(p)' = ListOf(p) /\ Expected(p)' = Expected(p)
<1>1. /\ \A p \in Phases : /\ ListOf(p)' = ListOf(p) /\ Sendable(p)' = Sendable(p)
                           /\ Expected(p)' = Expected(p)
      /\ (sftp' <=> sftp) /\ (Listing' <=> Listing)
  BY SameData
<1>2. Prequotes' = Prequotes
  BY <1>1 DEF Prequotes, Phases
<1>3. \A place : Before(place)' = Before(place)
  BY <1>1, <1>2 DEF Before, Phases
<1>4. AnySent' = AnySent
  BY <1>1 DEF AnySent
<1> QED
  BY <1>1, <1>2, <1>3, <1>4

LEMMA OrderWorking == ServerInv /\ OrderInv /\ Working => OrderInv'
<1> SUFFICES ASSUME ServerInv, OrderInv, Working PROVE OrderInv'
  OBVIOUS
<1>1. /\ pc \in Driven /\ pc' \in Driven /\ UNCHANGED <<input, home, path, memory>>
      /\ UNCHANGED <<input, home, path, slists, opt>> /\ lost' = lost
  BY WorkingIs DEF memory
<1>2. /\ AnySent' = AnySent /\ \A place : Before(place)' = Before(place)
      /\ \A p \in Phases : Expected(p)' = Expected(p)
  BY <1>1, SameOrder
<1>3. \A p \in Phases : /\ Expected(p) \in Seq(AnySent)
                        /\ <<>> \o Expected(p) = Expected(p) /\ Expected(p) \o <<>> = Expected(p)
  BY CommandsAssumption, ExpectedTyped DEF ServerInv, Inputs
<1>4. /\ done \in Seq(AnySent) /\ done \o <<>> = done
      /\ ~lost => \A p \in Phases : ListOf(p) = Expected(p)
      /\ pc \in {"cwd", "prequote"} => ftp
      /\ pc = "prequote" => ~Listing
  BY <1>1, ConcatEmptySeq DEF OrderInv, ServerInv, QuotesInv, PlaceInv
<1>5. /\ Before("quote") = <<>> /\ Before("prequote") = Expected("quote")
      /\ Before("transfer") = Expected("quote") \o Prequotes
      /\ Before("postquote") = Before("transfer")
  BY DEF Before
<1>6. "quote" \in Phases /\ "prequote" \in Phases /\ "postquote" \in Phases
  BY DEF Phases
<1>7. ASSUME NEW s, End(s), s # OK, UNCHANGED server
      PROVE  OrderInv'
  <2>1. pc' = "results" /\ status' = s /\ done' = done
    BY <1>7 DEF End, server
  <2> QED
    BY <1>1, <1>2, <1>4, <1>7, <2>1 DEF OrderInv, Phases
<1>8. Other # OK /\ QuoteError # OK /\ Denied # OK
  BY DEF Other, QuoteError, Denied, OK
<1>9. CASE Start
  <2>1. CASE Go("quote") /\ UNCHANGED server
    <3>1. pc' = "quote" /\ todo' = ListOf("quote") /\ status' = status /\ done' = <<>>
      BY <1>1, <1>9, <2>1, GoSends DEF Start, OrderInv, Sending, Phases, server
    <3>2. ~lost => done' \o todo' = Before("quote") \o Expected("quote")
      BY <1>4, <1>5, <1>6, <3>1
    <3>3. status' # OK
      BY <1>9, <3>1 DEF OrderInv, Start
    <3> QED
      BY <1>1, <1>2, <1>6, <3>1, <3>2, <3>3 DEF OrderInv
  <2> QED
    BY <1>7, <1>8, <1>9, <2>1 DEF Start
<1>10. CASE SendQuote
  <2>1. CASE End(QuoteError) /\ UNCHANGED server
    BY <1>7, <1>8, <2>1
  <2>2. CASE ~(End(QuoteError) /\ UNCHANGED server)
    <3>1. /\ pc \in Phases /\ todo # <<>> /\ pc' = pc /\ status' = status
          /\ done' = Append(done, Head(todo)) /\ todo' = Tail(todo)
      BY <1>10, <2>2 DEF SendQuote
    <3>2. todo \in Seq(AnySent)
      <4>1. todo \in Seq(Sendable(pc)) /\ Sendable(pc) \subseteq AnySent
        BY <3>1 DEF ServerInv, PlaceInv, AnySent
      <4> QED
        BY <4>1, SeqMonotonic
    <3>3. done' \o todo' = done \o todo
      BY <1>4, <3>1, <3>2, OneMoved
    <3>4. done' \in Seq(AnySent)
      <4>1. Head(todo) \in AnySent
        BY <3>1, <3>2, HeadTailProperties
      <4> QED
        BY <1>4, <3>1, <4>1, AppendProperties
    <3> QED
      BY <1>1, <1>2, <3>1, <3>3, <3>4 DEF OrderInv, Phases
  <2> QED
    BY <2>1, <2>2
<1>11. CASE PhaseEnds
  <2>1. pc \in Phases /\ todo = <<>> /\ done' = done
    BY <1>11, PhaseEndsIs DEF server
  <2>2. ~lost => done = Before(pc) \o Expected(pc)
    BY <1>4, <2>1 DEF OrderInv
  <2>3. status # OK
    BY <2>1 DEF OrderInv, Phases
  <2>4. CASE pc = "quote" /\ ftp /\ Go("cwd")
    <3>1. pc' = "cwd" /\ status' = status
      BY <2>4 DEF Go
    <3>2. ~lost => done = Expected("quote")
      BY <1>3, <1>5, <1>6, <2>2, <2>4
    <3> QED
      BY <1>1, <1>2, <1>4, <1>6, <2>1, <2>3, <3>1, <3>2 DEF OrderInv, Phases
  <2>5. CASE pc = "quote" /\ sftp /\ Go("transfer")
    <3>1. pc' = "transfer" /\ status' = status
      BY <2>5 DEF Go
    <3>2. ~lost => done = Before("transfer")
      <4>1. Prequotes = <<>>
        BY <2>5 DEF Prequotes
      <4> QED
        BY <1>3, <1>5, <1>6, <2>2, <2>5, <4>1
    <3> QED
      BY <1>1, <1>2, <1>4, <1>6, <2>1, <2>3, <3>1, <3>2 DEF OrderInv, Phases
  <2>6. CASE pc = "prequote" /\ Go("transfer")
    <3>1. pc' = "transfer" /\ status' = status
      BY <2>6 DEF Go
    <3>2. ~lost => done = Before("transfer")
      <4>1. Prequotes = Expected("prequote")
        BY <1>4, <2>6 DEF Prequotes, ftp
      <4> QED
        BY <1>5, <2>2, <2>6, <4>1
    <3> QED
      BY <1>1, <1>2, <1>4, <1>6, <2>1, <2>3, <3>1, <3>2 DEF OrderInv, Phases
  <2>7. CASE pc = "postquote" /\ End(OK)
    <3>1. pc' = "results" /\ status' = OK
      BY <2>7 DEF End
    <3> QED
      BY <1>1, <1>2, <1>4, <1>6, <2>1, <2>2, <2>7, <3>1 DEF OrderInv, Phases
  <2> QED
    BY <1>11, <2>4, <2>5, <2>6, <2>7, PhaseEndsIs
<1>12. CASE ChangeDir
  <2>1. CASE End(Denied) /\ UNCHANGED server
    BY <1>7, <1>8, <2>1
  <2>2. CASE ~(End(Denied) /\ UNCHANGED server)
    <3>1. PICK next \in {"transfer", "prequote"} :
            Go(next) /\ (next = "transfer" <=> Listing) /\ done' = done /\ pc = "cwd"
      BY <1>12, <2>2 DEF ChangeDir, Listing
    <3>2. /\ pc' = next /\ status' = status
          /\ next = "prequote" => todo' = ListOf("prequote")
      BY <1>1, <3>1, GoSends DEF Sending, Phases
    <3>3. ~lost => done = Expected("quote")
      BY <3>1 DEF OrderInv
    <3>4. next = "transfer" /\ ~lost => done = Before("transfer")
      <4>1. next = "transfer" => Prequotes = <<>>
        BY <3>1 DEF Prequotes
      <4> QED
        BY <1>3, <1>5, <1>6, <3>3, <4>1
    <3>5. next = "prequote" /\ ~lost => done \o todo' = Before("prequote") \o Expected("prequote")
      BY <1>4, <1>5, <1>6, <3>2, <3>3
    <3>6. status # OK
      BY <3>1 DEF OrderInv
    <3> QED
      BY <1>1, <1>2, <1>4, <1>6, <3>1, <3>2, <3>4, <3>5, <3>6 DEF OrderInv, Phases
  <2> QED
    BY <2>1, <2>2
<1>13. CASE Transfer
  <2>1. pc = "transfer" /\ Go("postquote") /\ done' = done
    BY <1>13 DEF Transfer
  <2>2. pc' = "postquote" /\ todo' = ListOf("postquote") /\ status' = status
    BY <1>1, <2>1, GoSends DEF Sending, Phases
  <2>3. ~lost => done \o todo' = Before("postquote") \o Expected("postquote")
    BY <1>4, <1>5, <1>6, <2>1, <2>2 DEF OrderInv
  <2>4. status # OK
    BY <2>1 DEF OrderInv
  <2> QED
    BY <1>1, <1>2, <1>4, <1>6, <2>1, <2>2, <2>3, <2>4 DEF OrderInv, Phases
<1>14. CASE Break
  BY <1>7, <1>8, <1>14 DEF Break
<1> QED
  BY <1>9, <1>10, <1>11, <1>12, <1>13, <1>14 DEF Working

LEMMA OrderInit == Init => OrderInv
BY DEF Init, OrderInv, Driven, Sending, Phases, Running, OK

LEMMA OrderStep == ServerInv /\ OrderInv /\ [Next]_vars => OrderInv'
<1> SUFFICES ASSUME ServerInv, OrderInv, [Next]_vars PROVE OrderInv'
  OBVIOUS
<1>1. CASE Working
  BY <1>1, OrderWorking
<1>2. CASE EasyInit \/ SetOptions
  <2>1. /\ pc \in {"init", "options"} /\ pc' \in {"options", "command", "returned"}
        /\ done' = done /\ done = <<>> /\ status # OK
        /\ status' \in {status, FailedInit}
    BY <1>2 DEF EasyInit, SetOptions, server, OrderInv
  <2> QED
    BY <2>1 DEF OrderInv, Driven, Sending, Phases, FailedInit, OK
<1>3. CASE BuildCommand
  <2>1. pc = "command" /\ pc' = "start" /\ done' = done /\ status' = status
    BY <1>3 DEF BuildCommand, server
  <2>2. done' = <<>> /\ done' \in Seq(AnySent') /\ status' # OK
    BY <2>1 DEF OrderInv
  <2> QED
    BY <2>1, <2>2 DEF OrderInv, Phases
<1>4. CASE Results \/ Cleanup \/ Finished \/ UNCHANGED vars
  <2>1. /\ UNCHANGED <<input, home, path, slists, opt>>
        /\ UNCHANGED <<lost, todo, done, status>>
    BY <1>4 DEF Results, Cleanup, Finished, vars, server
  <2>2. /\ AnySent' = AnySent /\ \A place : Before(place)' = Before(place)
        /\ \A p \in Phases : Expected(p)' = Expected(p)
    BY <2>1, SameOrder
  <2>3. CASE Results \/ Cleanup
    <3>1. pc \in {"results", "cleanup"} /\ pc' \in {"cleanup", "returned"}
      BY <2>3 DEF Results, Cleanup
    <3> QED
      BY <2>1, <2>2, <3>1 DEF OrderInv, Driven, Sending, Phases
  <2>4. CASE Finished \/ UNCHANGED vars
    <3>1. pc' = pc
      BY <2>4 DEF Finished, vars
    <3> QED
      BY <2>1, <2>2, <3>1 DEF OrderInv, Phases
  <2> QED
    BY <1>4, <2>3, <2>4
<1> QED
  BY <1>1, <1>2, <1>3, <1>4 DEF Next, Working

\* Under status 0 the server has done the caller's commands and the plug-in's, in the
\* order of QUOTE, PREQUOTE and POSTQUOTE, all of them and nothing else
\* (4DPlugin-cURL.cpp:2690-2804).
THEOREM InOrder == Spec => []CommandsInOrder
<1>1. OrderInv => CommandsInOrder
  BY DEF OrderInv, CommandsInOrder, Before, Prequotes
<1> QED
  BY <1>1, ServerInit, ServerStep, OrderInit, OrderStep, PTL DEF Spec

-----------------------------------------------------------------------------
(* The effect of a command. *)

LEMMA EffectInit == Init => EffectInv
BY OwnPhaseIs, CommandsAssumption DEF Init, EffectInv, Phases, Running, OK, Inputs

\* The effect is one on the server's files.
LEMMA EffectOf ==
    ASSUME UNCHANGED <<input, home, path, slists, opt>>, tree' = tree
    PROVE  Effect' <=> Effect
<1>1. /\ (ftp' <=> ftp) /\ UrlNames' = UrlNames /\ Named' = Named /\ NewPlace' = NewPlace
      /\ Base' = Base
  BY SameData
<1> QED
  BY <1>1 DEF Effect

\* The last command of the plug-in has its effect.
LEMMA EffectOfOwn ==
    ASSUME ServerInv, pc \in Phases, Quoting, PhaseOf(input.command) = pc, Pending, todo # <<>>,
           Granted(Head(todo)), UNCHANGED <<input, home, path, slists, opt>>,
           todo' = Tail(todo)
    PROVE  Pending'
<1>1. /\ (ftp' <=> ftp) /\ UrlNames' = UrlNames /\ Named' = Named /\ NewPlace' = NewPlace
      /\ Base' = Base /\ Quotes(path)' = Quotes(path)
  BY SameData
<1>2. input.command \in AllCommands /\ input' = input /\ home' = home
  BY CommandsAssumption DEF ServerInv, Inputs
<1>3. CASE input.command \in {"MakeDir", "RemoveDir", "Delete", "System"}
  <2>1. \E x : Quotes(path) = <<x>>
    BY <1>3, QuotesIs
  <2>2. todo = Quotes(path) /\ todo' = <<>>
    BY <2>1 DEF Pending
  <2>3. Effect'
    BY <1>1, <1>2, <1>3 DEF Granted, Effect
  <2> QED
    BY <2>2, <2>3 DEF Pending
<1>4. CASE input.command = "Rename"
  <2>1. Effect' <=> Named \notin tree' /\ NewPlace \in tree'
    BY <1>1, <1>2, <1>4 DEF Effect
  <2>2. NewPlace # Named
    BY <1>4, NewPlaceIs DEF ServerInv
  <2>3. CASE sftp
    <3>1. \E x : Quotes(path) = <<x>>
      BY <1>4, <2>3, QuotesIs
    <3>2. todo' = <<>>
      BY <3>1 DEF Pending
    <3>3. Effect'
      BY <1>4, <2>1, <2>2, <2>3 DEF Granted, ftp
    <3> QED
      BY <3>2, <3>3 DEF Pending
  <2>4. CASE ftp
    <3> DEFINE a == Send1("RNFR", Abs(path))
               b == Send1("RNTO", rename_to)
    <3>1. Quotes(path) = <<a, b>> /\ a # b
      BY <1>4, <2>4, QuotesIs DEF Send1
    <3> HIDE DEF a, b
    <3>2. CASE todo = <<a, b>>
      <4>1. Head(todo) = a /\ todo' = <<b>> /\ Tail(Quotes(path)) = <<b>>
        BY <3>1, <3>2
      <4>2. from' = Named
        BY <1>4, <2>4, <3>1, <4>1 DEF Granted, a, b, ftp
      <4>3. Tail(Quotes(path))' = <<b>> /\ <<b>> # <<>>
        BY <1>1, <4>1
      <4>4. from' = Named' /\ todo' = Tail(Quotes(path))' /\ todo' # <<>>
        BY <1>1, <4>1, <4>2, <4>3
      <4> QED
        BY <4>4, Zenon DEF Pending
    <3>3. CASE todo = Tail(<<a, b>>)
      <4>1. Head(todo) = b /\ todo' = <<>>
        BY <3>3
      <4>2. tree' = (tree \ {Named}) \cup {NewPlace}
        BY <1>4, <2>4, <3>1, <4>1 DEF Granted, a, b, ftp
      <4> QED
        BY <2>1, <2>2, <4>1, <4>2 DEF Pending
    <3> QED
      BY <3>1, <3>2, <3>3 DEF Pending
  <2> QED
    BY <2>3, <2>4 DEF ftp
<1> QED
  BY <1>2, <1>3, <1>4 DEF Quoting, PathCommands

LEMMA EffectWorking == ServerInv /\ OrderInv /\ EffectInv /\ Working => EffectInv'
<1> SUFFICES ASSUME ServerInv, OrderInv, EffectInv, Working, ~lost' PROVE EffectInv'
  BY DEF EffectInv
<1>1. /\ pc \in Driven /\ pc' \in Driven /\ UNCHANGED <<input, home, path, memory>>
      /\ UNCHANGED <<input, home, path, slists, opt>> /\ ~lost /\ input' = input
  BY WorkingIs DEF memory
<1>2. /\ (Quoting' <=> Quoting) /\ Quotes(path)' = Quotes(path) /\ Base' = Base
      /\ UrlNames' = UrlNames /\ Named' = Named
      /\ PhaseOf(input.command)' = PhaseOf(input.command)
  BY <1>1, SameData DEF PhaseOf
<1>3. /\ input.command \in AllCommands
      /\ Quoting => PhaseOf(input.command) \in Phases
      /\ input.command \in {"MakeDir", "RemoveDir"} => Quoting /\ PhaseOf(input.command) = "quote"
  BY CommandsAssumption, OwnPhaseIs DEF ServerInv, Inputs, PhaseOf, Quoting, PathCommands
<1>4. /\ Quoting /\ pc = PhaseOf(input.command) => Pending
      /\ input.command \in {"MakeDir", "RemoveDir"} /\ (pc = "cwd" \/ After(pc)) => Effect
      /\ input.command = "Send" /\ pc = "postquote" => Effect
      /\ status # OK
  BY <1>1 DEF EffectInv, OrderInv, After, Driven, Sending, Working, Start, SendQuote, PhaseEnds,
              ChangeDir, Transfer, Break, Phases
<1>5. ASSUME NEW p \in Phases, Quoting, PhaseOf(input.command) = p
      PROVE  ListOf(p) = Quotes(path) /\ Quotes(path) # <<>>
  <2>1. ListOf(p) = Expected(p)
    BY <1>1 DEF ServerInv, QuotesInv
  <2>2. Len(Quotes(path)) \in {1, 2}
    BY <1>3, <1>5, QuotesTyped
  <2> QED
    BY <1>3, <1>5, <2>1, <2>2, ExpectedIs
<1>6. ASSUME NEW s, End(s), s # OK
      PROVE  EffectInv'
  <2>1. pc' = "results" /\ status' = s
    BY <1>6 DEF End
  <2> QED
    BY <1>1, <1>2, <1>3, <1>6, <2>1 DEF EffectInv, Phases
<1>7. Other # OK /\ QuoteError # OK /\ Denied # OK
  BY DEF Other, QuoteError, Denied, OK
\* Entering a phase with its slist.
<1>8. ASSUME NEW p \in Phases, Go(p), tree' = tree,
             input.command \in {"MakeDir", "RemoveDir"} /\ p # "quote" => Effect,
             input.command = "Send" /\ p = "postquote" => Effect
      PROVE  EffectInv'
  <2>1. pc' = p /\ todo' = ListOf(p) /\ status' = status
    BY <1>8 DEF Go
  <2>2. Quoting /\ pc' = PhaseOf(input.command) => Pending'
    BY <1>2, <1>5, <2>1 DEF Pending
  <2>3. Effect' <=> Effect
    BY <1>1, <1>8, EffectOf
  <2> QED
    BY <1>1, <1>2, <1>4, <1>8, <2>1, <2>2, <2>3 DEF EffectInv
<1>9. CASE Start
  BY <1>6, <1>7, <1>8, <1>9 DEF Start, server, Phases
<1>10. CASE SendQuote
  <2>1. CASE End(QuoteError) /\ UNCHANGED server
    BY <1>6, <1>7, <2>1
  <2>2. CASE ~(End(QuoteError) /\ UNCHANGED server)
    <3>1. /\ pc \in Phases /\ todo # <<>> /\ pc' = pc /\ status' = status
          /\ Does(Head(todo)) /\ todo' = Tail(todo)
      BY <1>10, <2>2 DEF SendQuote
    <3>2. CASE tree' = tree /\ from' = from /\ Head(todo) = Caller(pc)
      <4>1. Effect' <=> Effect
        BY <1>1, <3>2, EffectOf
      <4>2. ~(Quoting /\ pc = PhaseOf(input.command))
        <5> SUFFICES ASSUME Quoting, pc = PhaseOf(input.command) PROVE FALSE
          OBVIOUS
        <5>1. /\ Quotes(path) \in Seq(Own) /\ Len(Quotes(path)) \in {1, 2}
          BY <1>3, QuotesTyped DEF Own
        <5>2. Head(todo) \in Own
          <6>1. todo = Quotes(path) \/ todo = Tail(Quotes(path))
            BY <1>4, <3>1 DEF Pending
          <6>2. todo \in Seq(Own)
            BY <5>1, <6>1, HeadTailProperties, EmptySeq, SMTT(60)
          <6> QED
            BY <3>1, <6>2, HeadTailProperties
        <5>3. Head(todo).verb # "caller"
          BY <5>2, QuotesIs DEF Own, OwnOf, Quoting, PathCommands, Send1, ftp
        <5> QED
          BY <3>2, <5>3 DEF Caller
      <4> QED
        BY <1>1, <1>2, <1>4, <3>1, <4>1, <4>2 DEF EffectInv, After
    <3>3. CASE Quoting /\ PhaseOf(input.command) = pc /\ Granted(Head(todo))
      <4>1. Pending'
        BY <1>1, <1>4, <3>1, <3>3, EffectOfOwn
      <4>2. input.command # "Send"
        BY <3>3 DEF Quoting, PathCommands
      <4> QED
        BY <1>1, <1>2, <1>3, <1>4, <3>1, <3>3, <4>1, <4>2 DEF EffectInv, After
    <3> QED
      BY <3>1, <3>2, <3>3, SentIs
  <2> QED
    BY <2>1, <2>2
<1>11. CASE PhaseEnds
  <2>1. pc \in Phases /\ todo = <<>> /\ tree' = tree
    BY <1>11, PhaseEndsIs DEF server
  <2>2. Quoting /\ pc = PhaseOf(input.command) => Effect
    <3> SUFFICES ASSUME Quoting, pc = PhaseOf(input.command) PROVE Effect
      OBVIOUS
    <3>1. Quotes(path) # <<>>
      BY <1>3, <1>5
    <3> QED
      BY <1>4, <2>1, <3>1 DEF Pending
  <2>3. Effect' <=> Effect
    BY <1>1, <2>1, EffectOf
  <2>4. CASE \E place \in {"cwd", "transfer"} : Go(place) /\ pc # "postquote"
    <3>1. PICK place \in {"cwd", "transfer"} : Go(place) /\ pc # "postquote"
      BY <2>4
    <3>2. pc' = place /\ status' = status
      BY <3>1 DEF Go
    <3>3. pc' \notin Phases /\ pc' # "postquote"
      BY <3>2 DEF Phases
    <3>4. input.command \in {"MakeDir", "RemoveDir"} => Effect
      BY <1>3, <1>4, <2>1, <2>2, <3>1 DEF Phases, After
    <3> QED
      BY <1>1, <1>2, <1>3, <1>4, <2>3, <3>2, <3>3, <3>4 DEF EffectInv
  <2>5. CASE pc = "postquote" /\ End(OK)
    <3>1. pc' = "results"
      BY <2>5 DEF End
    <3>2. Effect
      <4>1. CASE input.command \in {"MakeDir", "RemoveDir", "Send"}
        BY <1>4, <2>5, <4>1 DEF After
      <4>2. CASE input.command \in {"Rename", "Delete"}
        BY <2>2, <2>5, <4>2 DEF PhaseOf, Quoting, PathCommands
      <4>3. CASE input.command \notin {"MakeDir", "RemoveDir", "Send", "Rename", "Delete"}
        BY <4>3 DEF Effect
      <4> QED
        BY <4>1, <4>2, <4>3
    <3> QED
      BY <1>1, <1>2, <1>3, <2>3, <3>1, <3>2 DEF EffectInv, Phases
  <2> QED
    BY <1>11, <2>4, <2>5, PhaseEndsIs
<1>12. CASE ChangeDir
  <2>1. CASE End(Denied) /\ UNCHANGED server
    BY <1>6, <1>7, <2>1
  <2>2. CASE ~(End(Denied) /\ UNCHANGED server)
    <3>1. PICK next \in {"transfer", "prequote"} : Go(next) /\ pc = "cwd"
      BY <1>12, <2>2 DEF ChangeDir
    <3>2. /\ pc' = next /\ status' = status
          /\ next = "prequote" => todo' = ListOf("prequote")
      BY <1>1, <3>1, GoSends DEF Sending, Phases
    <3>3. /\ \/ tree' = tree
             \/ input.create_missing /\ tree' = tree \cup {home \o UrlDirs}
      BY <1>12, <2>2 DEF ChangeDir
    <3>4. input.command \in {"MakeDir", "RemoveDir"} => Effect'
      <4>1. input.command \in {"MakeDir", "RemoveDir"} => Effect
        BY <1>4, <3>1
      <4>2. CASE input.command = "MakeDir"
        BY <1>1, <1>2, <3>3, <4>1, <4>2 DEF Effect
      <4>3. CASE input.command = "RemoveDir"
        <5>1. Effect' <=> Named \notin tree' \/ (ftp /\ input.create_missing /\ home = <<>>)
          BY <1>1, <4>3, SameData DEF Effect
        <5>2. Named \notin tree \/ (ftp /\ input.create_missing /\ home = <<>>)
          BY <4>1, <4>3 DEF Effect
        <5>3. home # <<>> => home \o UrlDirs # Named
          <6>1. home # <<>> => home = <<HomeName>>
            BY NewPlaceIs DEF ServerInv
          <6>2. UrlDirs = <<D>> /\ Named = <<Coded(D)>>
            BY <4>3, UrlIs DEF DirCommands
          <6>3. <<HomeName>> \o <<D>> = <<HomeName, D>>
            BY Joined
          <6> QED
            BY <6>1, <6>2, <6>3
        <5>4. ftp
          BY <3>1 DEF ServerInv, PlaceInv
        <5> QED
          BY <3>3, <5>1, <5>2, <5>3, <5>4
      <4> QED
        BY <4>2, <4>3
    <3>5. Quoting /\ pc' = PhaseOf(input.command) => Pending'
      BY <1>2, <1>3, <1>5, <3>2 DEF Pending, Phases
    <3> QED
      BY <1>1, <1>2, <1>4, <3>2, <3>4, <3>5 DEF EffectInv
  <2> QED
    BY <2>1, <2>2
<1>13. CASE Transfer
  <2>1. pc = "transfer" /\ Go("postquote")
    BY <1>13 DEF Transfer
  <2>2. pc' = "postquote" /\ todo' = ListOf("postquote") /\ status' = status
    BY <1>1, <2>1, GoSends DEF Sending, Phases
  <2>3. tree' = IF input.command = "Send" THEN tree \cup {Base \o UrlNames} ELSE tree
    BY <1>13 DEF Transfer, Base
  <2>4. input.command = "Send" => Effect'
    BY <1>1, <1>2, <2>3 DEF Effect
  <2>5. input.command \in {"MakeDir", "RemoveDir"} => Effect'
    BY <1>1, <1>4, <2>1, <2>3, EffectOf DEF After
  <2>6. Quoting /\ pc' = PhaseOf(input.command) => Pending'
    BY <1>2, <1>5, <2>2 DEF Pending, Phases
  <2> QED
    BY <1>1, <1>2, <1>4, <2>2, <2>4, <2>5, <2>6 DEF EffectInv
<1>14. CASE Break
  BY <1>6, <1>7, <1>14 DEF Break
<1> QED
  BY <1>9, <1>10, <1>11, <1>12, <1>13, <1>14 DEF Working

LEMMA EffectStep == ServerInv /\ OrderInv /\ EffectInv /\ [Next]_vars => EffectInv'
<1> SUFFICES ASSUME ServerInv, OrderInv, EffectInv, [Next]_vars PROVE EffectInv'
  OBVIOUS
<1>1. CASE Working
  BY <1>1, EffectWorking
<1>2. CASE EasyInit \/ SetOptions \/ BuildCommand
  <2>1. /\ pc \in {"init", "options", "command"}
        /\ pc' \in {"options", "command", "start", "returned"}
        /\ status' \in {status, FailedInit} /\ status # OK /\ input' = input
    BY <1>2 DEF EasyInit, SetOptions, BuildCommand, OrderInv, Driven, Sending
  <2>2. status' # OK
    BY <2>1 DEF FailedInit, OK
  <2>3. Quoting' => PhaseOf(input.command)' \in Phases
    <3>1. input.command \in AllCommands
      BY CommandsAssumption DEF ServerInv, Inputs
    <3> QED
      BY <2>1, <3>1, OwnPhaseIs DEF Quoting, PhaseOf
  <2> QED
    BY <2>1, <2>2, <2>3 DEF EffectInv, Phases
<1>3. CASE Results \/ Cleanup
  <2>1. /\ UNCHANGED <<input, home, path, slists, opt>> /\ UNCHANGED <<tree, lost, status>>
        /\ pc' \in {"cleanup", "returned"}
    BY <1>3 DEF Results, Cleanup, server
  <2>2. Effect' <=> Effect
    BY <2>1, EffectOf
  <2>3. Quoting' => PhaseOf(input.command)' \in Phases
    <3>1. input.command \in AllCommands
      BY CommandsAssumption DEF ServerInv, Inputs
    <3> QED
      BY <2>1, <3>1, OwnPhaseIs DEF Quoting, PhaseOf
  <2> QED
    BY <2>1, <2>2, <2>3 DEF EffectInv, Phases
<1>4. CASE Finished \/ UNCHANGED vars
  <2>1. /\ UNCHANGED <<input, home, path, slists, opt>>
        /\ UNCHANGED <<tree, lost, status, pc, todo, from>>
    BY <1>4 DEF Finished, vars
  <2>2. Effect' <=> Effect
    BY <2>1, EffectOf
  <2>3. /\ Quotes(path)' = Quotes(path) /\ (Quoting' <=> Quoting) /\ Named' = Named
        /\ PhaseOf(input.command)' = PhaseOf(input.command) /\ input' = input
    BY <2>1, SameData DEF PhaseOf
  <2>4. Pending => Pending'
    <3>1. Tail(Quotes(path))' = Tail(Quotes(path))
      BY <2>3
    <3>2. todo' = todo /\ from' = from
      BY <2>1
    <3> QED
      BY <2>2, <2>3, <3>1, <3>2, Zenon DEF Pending
  <2> QED
    BY <2>1, <2>2, <2>3, <2>4 DEF EffectInv
<1> QED
  BY <1>1, <1>2, <1>3, <1>4 DEF Next, Working

\* A command that returns status 0 has had its effect on the server: the directory
\* made, the file or directory gone, the file sent, and the file renamed at the place
\* RENAME_TO names, where that is in no doubt (4DPlugin-cURL.cpp:2690-2804).
THEOREM Done == Spec => []SuccessIsDone
<1>1. EffectInv => SuccessIsDone
  <2>1. ASSUME Effect
        PROVE  CASE input.command = "MakeDir"   -> Base \o Named \in tree
                 [] input.command = "RemoveDir" ->
                       Named \notin tree \/ (ftp /\ input.create_missing /\ home = <<>>)
                 [] input.command = "Delete"    -> Named \notin tree
                 [] input.command = "Rename"    ->
                       /\ Named \notin tree
                       /\ input.rename_to = "full" \/ (ftp /\ home = <<>>) => NewPlace \in tree
                 [] input.command = "Send"      -> Base \o UrlNames \in tree
                 [] OTHER                       -> TRUE
    BY <2>1 DEF Effect
  <2> QED
    BY <2>1, Zenon DEF EffectInv, SuccessIsDone
<1> QED
  BY <1>1, ServerInit, ServerStep, OrderInit, OrderStep, EffectInit, EffectStep, PTL DEF Spec
=============================================================================
