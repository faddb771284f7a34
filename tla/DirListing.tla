----------------------------- MODULE DirListing -----------------------------
(***************************************************************************)
(* What cURL_FTP makes of the body of a directory listing: the loop over    *)
(* safeGetline, the parser of MLSD lines, and ftpparse: the formats EPLF,   *)
(* UNIX (with NetPresenz and NetWare), VMS (with MultiNet) and MSDOS.      *)
(*                                                                         *)
(* A body is a sequence of symbols.  A symbol is a character, or a word, a *)
(* run of characters without a space, of which the code only asks what     *)
(* kind of word it is.                                                     *)
(***************************************************************************)
EXTENDS Integers, SequencesExt

CONSTANTS
    MaxRaw,       \* length of a LIST body made of any symbols
    ListSymbols,  \* these symbols
    MlsdBodies,   \* MLSD bodies
    UnixNames, VmsNames, MsDosNames,   \* of the files of a server
    Targets,      \* of links
    Groups        \* of files, any number of words

LF == "LF"
CR == "CR"
TAB == "TAB"
SP == " "
COMMA == ","
SEMI == ";"

\* Words.  What a fact of EPLF starts with is in FactOf.
Perms   == {"dperm", "-perm", "lperm"}      \* "drwxr-xr-x", ...
Types   == {"d", "-"}                       \* of NetWare, a space after it
Months  == {"Jan", "Apr"}                   \* in any case
Numbers == {"2", "5", "7", "8", "531", "1994"}
Value   == [w \in {"00", "04", "09", "12", "27", "50", "1999"} |->   \* of VMS and MSDOS
              CASE w = "00" -> 0 [] w = "04" -> 4 [] w = "09" -> 9 [] w = "12" -> 12
                [] w = "27" -> 27 [] w = "50" -> 50 [] w = "1999" -> 1999]
Times   == {"7:10", "03:26"}
Short   == {"2", "5", "7", "8", "531", "Jan", "Apr"}  \* fewer than four characters
FactOf  == [w \in {"s5", "m8", "i7"} |->
              CASE w = "s5" -> <<"s", "5">>
                [] w = "m8" -> <<"m", "8">>
                [] w = "i7" -> <<"i", "7">>]

\* A LIST body of any symbols is EPLF, or nothing ftpparse knows.
ASSUME RawAssumption  == MaxRaw \in Nat
ASSUME ListAssumption ==
    ListSymbols \subseteq {LF, CR, TAB, SP, "+", COMMA, "/", "r", "x"} \cup DOMAIN FactOf
ASSUME MlsdAssumption == MlsdBodies \subseteq Seq({LF, CR, SP, SEMI, "=", "x", "y", "path"})

VARIABLES
    input,      \* the body, whether it is MLSD, and what it was made from
    pos,        \* place of the stream
    eofbit,     \* of the stream
    elements,   \* the collection `directories`
    pc

vars == <<input, pos, eofbit, elements, pc>>

body == input.body

-----------------------------------------------------------------------------
(* ftpparse: EPLF *)

Null == [found |-> FALSE]
Nothing == [found |-> TRUE, name |-> <<>>, trycwd |-> FALSE, tryretr |-> FALSE,
            size |-> "", mtime |-> <<>>, id |-> <<>>]

\* getlong, of a token that is one number; of anything else it makes some number.
GetLong(token) ==
    IF Len(token) = 1 /\ token[1] \in Numbers \cup DOMAIN Value THEN token[1] ELSE "garbage"

\* The facts with a value.
SetValue(e, letter, value) ==
    CASE letter = "s" -> [e EXCEPT !.size = GetLong(value)]
      [] letter = "m" -> [e EXCEPT !.mtime = <<"local", GetLong(value)>>]
      [] letter = "i" -> [e EXCEPT !.id = value]

\* The fact in f is put into entry e.
SetFact(e, f) ==
    CASE f = <<>>      -> e
      [] f # <<>> /\ Head(f) = "/" -> [e EXCEPT !.trycwd = TRUE]
      [] f # <<>> /\ Head(f) = "r" -> [e EXCEPT !.tryretr = TRUE]
      [] f # <<>> /\ Head(f) \in DOMAIN FactOf ->
           SetValue(e, FactOf[Head(f)][1], <<FactOf[Head(f)][2]>> \o Tail(f))
      [] OTHER -> e

\* Mutant: the start of the next fact is not moved on.
EplfStep_SameStart(line, a, j) ==
    IF a.found \/ j = 1 THEN a
    ELSE CASE line[j] = TAB -> [a EXCEPT !.found = TRUE,
                                          !.e.name = SubSeq(line, j + 1, Len(line))]
           [] line[j] = COMMA -> [a EXCEPT !.e = SetFact(a.e, SubSeq(line, a.i, j - 1))]
           [] OTHER -> a

\* One round of the loop over j; a.i is where the current fact starts.
EplfStep(line, a, j) ==
    IF a.found \/ j = 1 THEN a
    ELSE CASE line[j] = TAB -> [a EXCEPT !.found = TRUE,
                                          !.e.name = SubSeq(line, j + 1, Len(line))]
           [] line[j] = COMMA -> [a EXCEPT !.e = SetFact(a.e, SubSeq(line, a.i, j - 1)),
                                          !.i = j + 1]
           [] OTHER -> a

\* Where the loop stands after the round for each j.
EplfLoop(line) ==
    LET at[j \in 0 .. Len(line)] ==
            IF j = 0 THEN [i |-> 2, e |-> Nothing, found |-> FALSE]
            ELSE EplfStep(line, at[j - 1], j)
    IN at

Eplf(line) ==
    LET end == EplfLoop(line)[Len(line)] IN IF end.found THEN end.e ELSE Null

-----------------------------------------------------------------------------
(* ftpparse: UNIX *)

\* The word that ends before the space at j.
Token(line, j) ==
    LET spaces == {k \in 1 .. j - 1 : line[k] = SP}
    IN SubSeq(line, IF spaces = {} THEN 1 ELSE Max(spaces) + 1, j - 1)

\* Mutant: every line is taken to have a link count.
AfterPerm_NoFolder(token) == 3

\* NetPresenz says "folder" where others have the number of links and the owner.
AfterPerm(token) == IF token = <<"folder">> THEN 4 ELSE 3

When(a, token) ==
    CASE token[1] \in Times -> <<"minute", a.month, a.mday, token[1]>>
      [] OTHER              -> <<"day", GetLong(token), a.month, a.mday>>

\* One round of the loop; the states 1 to 8 are the code's, 0 is its return 0.
UnixStep(line, a, j) ==
    IF j = 1 \/ line[j] # SP \/ line[j - 1] = SP THEN a
    ELSE LET token == Token(line, j) IN
      CASE a.state = 1 -> [a EXCEPT !.state = 2]
        [] a.state = 2 -> [a EXCEPT !.state = AfterPerm(token)]
        [] a.state = 3 -> [a EXCEPT !.state = 4]
        [] a.state = 4 -> [a EXCEPT !.state = 5, !.size = GetLong(token)]
        [] a.state = 5 -> IF token[1] \in Months
                          THEN [a EXCEPT !.state = 6, !.month = token[1]]
                          ELSE [a EXCEPT !.size = GetLong(token)]
        [] a.state = 6 -> [a EXCEPT !.state = 7, !.mday = GetLong(token)]
        [] a.state = 7 -> IF token[1] \in Short
                          THEN [a EXCEPT !.state = 0]
                          ELSE [a EXCEPT !.state = 8, !.mtime = When(a, token),
                                         !.from = j + 1]
        [] OTHER -> a

\* A link is shown as "name -> target".
Linked(name) ==
    LET arrows == {i \in 1 .. Len(name) - 2 : SubSeq(name, i, i + 2) = <<SP, "->", SP>>}
    IN IF arrows = {} THEN name ELSE SubSeq(name, 1, Min(arrows) - 1)

\* NetWare puts four spaces before a name.
Unpadded(name) ==
    IF Len(name) > 3 /\ SubSeq(name, 1, 3) = <<SP, SP, SP>>
    THEN SubSeq(name, 4, Len(name)) ELSE name

UnixLoop(line) ==
    LET at[j \in 0 .. Len(line)] ==
            IF j = 0 THEN [state |-> 1, size |-> "", month |-> "", mday |-> "",
                           mtime |-> <<>>, from |-> 1]
            ELSE UnixStep(line, at[j - 1], j)
    IN at

Unix(line) ==
    LET end   == UnixLoop(line)[Len(line)]
        rest  == SubSeq(line, end.from, Len(line))
        name  == IF line[1] = "lperm" THEN Linked(rest) ELSE rest
    IN IF end.state # 8 THEN Null
       ELSE [found |-> TRUE,
             name |-> IF line[1] \in Types THEN Unpadded(name) ELSE name,
             trycwd |-> line[1] \in {"dperm", "lperm", "d"},
             tryretr |-> line[1] \in {"-perm", "lperm", "-"},
             size |-> end.size, mtime |-> end.mtime, id |-> <<>>]

-----------------------------------------------------------------------------
(* ftpparse: VMS and MSDOS.  Their loops leave ftpparse at the end of the line, here  *)
(* with the place 0.                                                       *)

\* while (buf[i] != stop) if (++i == len) return 0;
UpTo(line, i, stops) ==
    LET at == {j \in i .. Len(line) : line[j] \in stops}
    IN IF i = 0 \/ at = {} THEN 0 ELSE Min(at)

\* while (buf[i] == symbol) if (++i == len) return 0;
Past(line, i, symbol) ==
    LET at == {j \in i .. Len(line) : line[j] # symbol}
    IN IF i = 0 \/ at = {} THEN 0 ELSE Min(at)

\* if (buf[i] == symbol) if (++i == len) return 0;
PastOne(line, i, symbol) ==
    IF i = 0 \/ line[i] # symbol THEN i ELSE IF i = Len(line) THEN 0 ELSE i + 1

Number(line, i, j) == Value[GetLong(SubSeq(line, i, j - 1))]

\* "name;version blocks day-month-year hour:minute", where a directory is "name.DIR".
Vms(line) ==
    LET semi   == UpTo(line, 1, {SEMI})
        dir    == semi > 2 /\ line[semi - 1] = ".DIR"
        blocks == Past(line, UpTo(line, semi, {SP}), SP)
        mday   == Past(line, UpTo(line, blocks, {SP}), SP)
        dash1  == UpTo(line, mday, {"-"})
        month  == Past(line, dash1, "-")
        dash2  == UpTo(line, month, {"-"})
        year   == Past(line, dash2, "-")
        space  == UpTo(line, year, {SP})
        hour   == Past(line, space, SP)
        colon  == UpTo(line, hour, {":"})
        minute == Past(line, colon, ":")
        end    == UpTo(line, minute, {":", SP})
    IN IF end = 0 \/ line[month] \notin Months THEN Null
       ELSE [Nothing EXCEPT
               !.name = SubSeq(line, 1, IF dir THEN semi - 2 ELSE semi - 1),
               !.trycwd = dir, !.tryretr = ~dir,
               !.mtime = <<"minute", Number(line, year, space), line[month],
                           Number(line, mday, dash1), Number(line, hour, colon),
                           Number(line, minute, end)>>]

\* Mutant: years of two digits are all of the last century.
FullYear_1900(y) == IF y < 1000 THEN y + 1900 ELSE y

FullYear(y) == IF y < 50 THEN y + 2000 ELSE IF y < 1000 THEN y + 1900 ELSE y

\* Mutant: 12 is not the first hour of the half day.
Hour_Twelve(h, pm) == h + IF pm THEN 12 ELSE 0

Hour(h, pm) == (IF h = 12 THEN 0 ELSE h) + IF pm THEN 12 ELSE 0

\* "month-day-year hour:minuteAM <DIR> name", where a file has its size for <DIR>.
MsDos(line) ==
    LET dash1  == UpTo(line, 1, {"-"})
        mday   == Past(line, dash1, "-")
        dash2  == UpTo(line, mday, {"-"})
        year   == Past(line, dash2, "-")
        space  == UpTo(line, year, {SP})
        hour   == Past(line, space, SP)
        colon  == UpTo(line, hour, {":"})
        minute == Past(line, colon, ":")
        half   == UpTo(line, minute, {"A", "P"})
        afterA == PastOne(line, half, "A")
        pm     == afterA > 0 /\ line[afterA] = "P"
        size   == Past(line, PastOne(line, PastOne(line, afterA, "P"), "M"), SP)
        end    == UpTo(line, size, {SP})
        name   == Past(line, end, SP)
        dir    == line[size] = "<DIR>"
    IN IF name = 0 THEN Null
       ELSE [Nothing EXCEPT
               !.name = SubSeq(line, name, Len(line)),
               !.trycwd = dir, !.tryretr = ~dir,
               !.size = IF dir THEN "" ELSE GetLong(SubSeq(line, size, end - 1)),
               !.mtime = <<"minute", FullYear(Number(line, year, space)),
                           Number(line, 1, dash1) - 1, Number(line, mday, dash2),
                           Hour(Number(line, hour, colon), pm), Number(line, minute, half)>>]

-----------------------------------------------------------------------------
(* ftpparse *)

\* Words that start with a letter of a UNIX file type, or with a digit.
TypeLetters == Perms \cup Types \cup {"s5"}
Digits == Numbers \cup DOMAIN Value \cup {"00readme"}

\* Mutant: digits are looked at before semicolons.
Other_DigitsFirst(line) ==
    IF line[1] \in Digits THEN MsDos(line)
    ELSE IF Contains(line, SEMI) THEN Vms(line) ELSE Null

\* What comes after the switch.
Other(line) ==
    IF Contains(line, SEMI) THEN Vms(line)
    ELSE IF line[1] \in Digits THEN MsDos(line) ELSE Null

FtpParse(line) ==
    IF Len(line) < 2 THEN Null
    ELSE CASE line[1] = "+"            -> Eplf(line)
           [] line[1] \in TypeLetters  -> Unix(line)
           [] OTHER                    -> Other(line)

-----------------------------------------------------------------------------
(* MLSD *)

\* Mutant: a property that an object has already keeps its value.
Put_First(object, key, value) ==
    [k \in DOMAIN object \cup {key} |-> IF k \in DOMAIN object THEN object[k] ELSE value]

\* ob_set_s: a property that an object has already gets another value.
Put(object, key, value) ==
    [k \in DOMAIN object \cup {key} |-> IF k = key THEN value ELSE object[k]]

\* A fact is a key, "=", and a value; without a "=" it is nothing.
PutFact(object, kvp) ==
    LET at == {i \in DOMAIN kvp : kvp[i] = "="}
    IN IF at = {} THEN object
       ELSE Put(object, SubSeq(kvp, 1, Min(at) - 1), SubSeq(kvp, Min(at) + 1, Len(kvp)))

\* Mutant: the search goes on at the semicolon just found.
MlsdStep_SamePlace(line, a, j) ==
    IF line[j] # SEMI THEN a
    ELSE [found |-> j, object |-> PutFact(a.object, SubSeq(line, a.found, j - 1))]

\* One round of the loop over the semicolons; a.found is where the next fact starts.
MlsdStep(line, a, j) ==
    IF line[j] # SEMI THEN a
    ELSE [found |-> j + 1, object |-> PutFact(a.object, SubSeq(line, a.found, j - 1))]

MlsdLoop(line) ==
    LET at[j \in 0 .. Len(line)] ==
            IF j = 0 THEN [found |-> 1, object |-> [k \in {} |-> <<>>]]
            ELSE MlsdStep(line, at[j - 1], j)
    IN at

\* The path, and the object with the facts and the path.
Path(line) == SubSeq(line, MlsdLoop(line)[Len(line)].found, Len(line))
PathKey == <<"path">>
Mlsd(line) == Put(MlsdLoop(line)[Len(line)].object, PathKey, Path(line))

-----------------------------------------------------------------------------
(* The loop *)

\* Mutant: the date is stored whatever it is.
Stored_Always(e) == e

\* The entry as an element: a date before 1970, and what kind of date it is, are left
\* out (mtime < 0).  A "garbage" date may be any, and be left out, too.
NoDate == <<"none">>
Before1970(mtime) == Len(mtime) = 6 /\ mtime[2] < 1970
Stored(e) == IF e.found /\ Before1970(e.mtime) THEN [e EXCEPT !.mtime = NoDate] ELSE e

\* Mutant: a line that is not understood is left out.
Append1_Dropped(line) ==
    elements \o (IF ~input.mlsd THEN IF FtpParse(line).found THEN <<Stored(FtpParse(line))>> ELSE <<>>
                 ELSE IF Path(line) = <<>> THEN <<>> ELSE <<Mlsd(line)>>)

\* The collection gets an element for a LIST line, and for an MLSD line with a path.
Append1(line) ==
    elements \o (IF ~input.mlsd THEN <<Stored(FtpParse(line))>>
                 ELSE IF Path(line) = <<>> THEN <<>> ELSE <<Mlsd(line)>>)

\* safeGetline: the first line end from the place of the stream on.
LineEnd ==
    LET ends == {j \in pos .. Len(body) : body[j] \in {LF, CR}}
    IN IF ends = {} THEN Len(body) + 1 ELSE Min(ends)

\* Mutant: LF is taken to follow every CR.
After_Pair(e) ==
    IF e > Len(body) THEN e ELSE IF body[e] = CR THEN e + 2 ELSE e + 1

\* ... and the place after it, where CR LF is one line end.
After(e) ==
    IF e > Len(body) THEN e
    ELSE IF body[e] = CR /\ e < Len(body) /\ body[e + 1] = LF THEN e + 2
    ELSE e + 1

\* Only where there is nothing before the end of the body.
SetsEof(line, e) == e > Len(body) /\ line = <<>>

\* eofbit does not make the stream false, so that an empty line follows the last.
ReadLine ==
    /\ pc = "loop" /\ ~eofbit
    /\ LET line == SubSeq(body, pos, LineEnd - 1)
       IN /\ elements' = Append1(line)
          /\ eofbit' = SetsEof(line, LineEnd)
    /\ pos' = After(LineEnd)
    /\ UNCHANGED <<input, pc>>

\* The sentry of a stream with eofbit sets failbit, which ends the loop.
Stop ==
    /\ pc = "loop" /\ eofbit
    /\ pc' = "done"
    /\ UNCHANGED <<input, pos, eofbit, elements>>

Finished ==
    /\ pc = "done"
    /\ UNCHANGED vars

-----------------------------------------------------------------------------
(* Bodies: any symbols, and listings made from what they are to say. *)

\* The words of a line with gaps between them, then one space, then the name.
Spaced(words, gap) ==
    LET width == Len(gap) + 1
    IN [k \in 1 .. (Len(words) - 1) * width + 2 |->
          IF k % width = 1 THEN words[k \div width + 1] ELSE SP]

Gaps  == {<<SP>>, <<SP, SP>>}
Owners == {<<"2", "root">> \o g : g \in Groups} \cup {<<"folder">>}

\* VMS names are upper case; the other two could not be told from VMS, or from their gap.
ASSUME NamesAssumption ==
    /\ \A n \in UnixNames \cup VmsNames \cup MsDosNames \cup Targets :
          n # <<>> /\ n \in Seq(ToSet(n) \ {LF, CR})
    /\ \A n \in VmsNames : n[1] \notin TypeLetters \cup {"+"} /\ ~Contains(n, SP) /\ ~Contains(n, SEMI)
    /\ \A n \in MsDosNames : n[1] # SP /\ ~Contains(n, SEMI)

\* A month among the words of a group would be taken for that of the date.
ASSUME GroupsAssumption ==
    \A g \in Groups : g \in Seq(ToSet(g) \ {LF, CR, SP}) /\ \A i \in 2 .. Len(g) : g[i] \notin Months

UnixFiles ==
    [format : {"unix"}, type : {"dperm", "-perm"}, owner : Owners, when : {"1994", "03:26", "7:10"},
     name : UnixNames, link : {<<>>}, gap : Gaps]
    \cup [format : {"unix"}, type : {"lperm"}, owner : Owners, when : {"1994", "03:26", "7:10"},
          name : {n \in UnixNames : ~Contains(n, "->")},
          link : {<<>>} \cup {<<SP, "->", SP>> \o target : target \in Targets}, gap : Gaps]
    \cup [format : {"unix"}, type : Types, owner : {<<"[perm]", "root">>}, when : {"1994", "03:26"},
          name : UnixNames, link : {<<>>}, gap : Gaps]
VmsFiles ==
    [format : {"vms"}, dir : BOOLEAN, seconds : BOOLEAN, gap : Gaps, name : VmsNames]
MsDosFiles ==
    [format : {"msdos"}, dir : BOOLEAN, name : MsDosNames,
     gap : Gaps, year : {1950, 1999, 2000}, hour : {0, 9, 12, 21}]

\* How a server writes a file.
Padding(f) == IF f.format = "unix" /\ f.type \in Types THEN <<SP, SP, SP>> ELSE <<>>
UnixLine(f) ==
    Spaced(<<f.type>> \o f.owner \o <<"531", "Apr", "8", f.when>>, f.gap) \o Padding(f) \o f.name \o f.link
VmsLine(f) ==
    f.name \o (IF f.dir THEN <<".DIR">> ELSE <<>>) \o <<SEMI, "2">> \o f.gap \o <<"213/216">> \o f.gap
    \o <<"27", "-", "Jan", "-", "1999", SP, "12", ":", "09">>
    \o (IF f.seconds THEN <<":", "04">> ELSE <<>>) \o f.gap \o <<"[system]">>
MsDosLine(f) ==
    <<"04", "-", "27", "-", CASE f.year = 1950 -> "50" [] f.year = 1999 -> "1999" [] f.year = 2000 -> "00">>
    \o f.gap \o <<IF f.hour \in {0, 12} THEN "12" ELSE "09", ":", "04",
                  IF f.hour < 12 THEN "A" ELSE "P", "M">>
    \o f.gap \o <<IF f.dir THEN "<DIR>" ELSE "531">> \o f.gap \o f.name
LineOf(f) ==
    CASE f.format = "unix" -> UnixLine(f) [] f.format = "vms" -> VmsLine(f) [] f.format = "msdos" -> MsDosLine(f)

Total == <<"total", SP, "531">>
Ends == {<<LF>>, <<CR, LF>>, <<CR>>}
Files == UnixFiles \cup VmsFiles \cup MsDosFiles

\* A listing of one file, whole, or cut short after n symbols of its line.
WholeListings ==
    {[body |-> Total \o e \o LineOf(f) \o l, mlsd |-> FALSE, file |-> <<f>>, cut |-> FALSE] :
        e \in Ends, l \in Ends \cup {<<>>}, f \in Files}
CutListings ==
    UNION {{[body |-> Total \o <<LF>> \o SubSeq(LineOf(f), 1, n), mlsd |-> FALSE,
             file |-> <<f>>, cut |-> TRUE] : n \in 1 .. Len(LineOf(f)) - 1} : f \in Files}

Inputs ==
    [body : BoundedSeq(ListSymbols, MaxRaw), mlsd : {FALSE}, file : {<<>>}, cut : {FALSE}]
    \cup [body : MlsdBodies, mlsd : {TRUE}, file : {<<>>}, cut : {FALSE}]
    \cup WholeListings \cup CutListings

Init ==
    /\ input \in Inputs
    /\ pos = 1
    /\ eofbit = FALSE
    /\ elements = <<>>
    /\ pc = "loop"

Next == ReadLine \/ Stop \/ Finished

Spec == Init /\ [][Next]_vars

-----------------------------------------------------------------------------
(* What a listing says, by definition and not by a loop. *)

\* Where line ends are: LF, and CR, but not the CR of a CR LF, whose LF counts.
EndsOf(s) ==
    {j \in DOMAIN s : s[j] = LF \/ (s[j] = CR /\ ~(j < Len(s) /\ s[j + 1] = LF))}

\* Where lines start: first and after every line end, but not where the text ends.
StartsOf(s) == ({1} \cup {j + 1 : j \in EndsOf(s)}) \ {Len(s) + 1}

\* The line that starts there; the CR of a CR LF is not in it.
LineAt(s, start) ==
    LET end == Min({j \in EndsOf(s) : j >= start} \cup {Len(s) + 1})
    IN SubSeq(s, start, IF start < end /\ s[end - 1] = CR THEN end - 2 ELSE end - 1)

\* The number of a line among those that start in `starts`.
NumberIn(starts, start) == Cardinality({p \in starts : p <= start})

\* EPLF: facts, each ended by a comma, then TAB and the name.
IsEplf(l) == Len(l) >= 2 /\ l[1] = "+" /\ \E i \in DOMAIN l : l[i] = TAB
\* A fact from after i to the comma at j.
IsEplfFact(l, i, j) ==
    /\ i < j /\ (i = 1 \/ l[i] = COMMA) /\ l[j] = COMMA
    /\ \A k \in i + 1 .. j - 1 : l[k] # COMMA
    /\ \A k \in 1 .. j : l[k] # TAB

\* ... that starts with this symbol.
HasFact(l, symbol) ==
    \E i, j \in DOMAIN l : IsEplfFact(l, i, j) /\ i + 1 < j /\ l[i + 1] = symbol

\* ... that has nothing else.
HasOnly(l, symbol) == \E i, j \in DOMAIN l : IsEplfFact(l, i, j) /\ i + 2 = j /\ l[i + 1] = symbol

\* The entry says what the line does.
EplfAgrees(l, e) ==
    IF ~IsEplf(l) THEN e = Null
    ELSE /\ e.found
         /\ e.name = SubSeq(l, Min({i \in DOMAIN l : l[i] = TAB}) + 1, Len(l))
         /\ e.trycwd = HasFact(l, "/")
         /\ e.tryretr = HasFact(l, "r")
         /\ HasOnly(l, "s5") => e.size \in {"5", "garbage"}
         /\ e.size = "5" => HasOnly(l, "s5")

\* MLSD: only what comes after the last fact is a path.
HasPath(l) == l # <<>> /\ l[Len(l)] # SEMI

\* A fact from i to the semicolon at j, whose first "=" is at k.
IsMlsdFact(l, i, k, j) ==
    /\ i <= k /\ k < j
    /\ i = 1 \/ l[i - 1] = SEMI
    /\ l[k] = "=" /\ \A m \in i .. k - 1 : l[m] # "="
    /\ l[j] = SEMI /\ \A m \in i .. j - 1 : l[m] # SEMI

\* It is the last one with its key.
IsLastFact(l, i, k, j) ==
    /\ IsMlsdFact(l, i, k, j)
    /\ \A b, c, d \in DOMAIN l :
          IsMlsdFact(l, b, c, d) /\ SubSeq(l, b, c - 1) = SubSeq(l, i, k - 1) => d <= j

\* The facts end at q.
FactsEnd(l, q) == (q = 0 \/ l[q] = SEMI) /\ \A m \in q + 1 .. Len(l) : l[m] # SEMI

\* Each key has the value of the last fact with it, no other keys are there, and the path
\* is what comes after the facts, with the space before it or without.
MlsdAgrees(l, e) ==
    /\ \A key \in DOMAIN e \ {PathKey} : \E i, k, j \in DOMAIN l :
          IsMlsdFact(l, i, k, j) /\ key = SubSeq(l, i, k - 1)
    /\ \A i, k, j \in DOMAIN l : IsLastFact(l, i, k, j) /\ SubSeq(l, i, k - 1) # PathKey =>
          /\ SubSeq(l, i, k - 1) \in DOMAIN e
          /\ e[SubSeq(l, i, k - 1)] = SubSeq(l, k + 1, j - 1)
    /\ PathKey \in DOMAIN e
    /\ \E q \in 0 .. Len(l) :
          /\ FactsEnd(l, q)
          /\ \/ e[PathKey] = SubSeq(l, q + 1, Len(l))
             \/ q < Len(l) /\ l[q + 1] = SP /\ e[PathKey] = SubSeq(l, q + 2, Len(l))

\* A line of which it is in no doubt what it is to give: its facts have keys and no
\* spaces, and its name has no semicolon and does not end with a space.
IsPlain(l) ==
    /\ \A i, j \in DOMAIN l : l[i] = SP /\ l[j] = SEMI => j < i
    /\ \A i \in DOMAIN l : l[i] = "=" => i > 1 /\ l[i - 1] # SEMI
    /\ l # <<>> => l[Len(l)] # SP

\* Every line of a LIST body, whatever its line end, has the element that ftpparse makes
\* of it, at its place; what the collection may hold beyond them is Null
\* (4DPlugin-cURL.cpp:2866-2949).
OneElementPerLine ==
    pc = "done" /\ ~input.mlsd =>
        LET starts == StartsOf(body) IN
        /\ Len(elements) >= Cardinality(starts)
        /\ \A p \in starts : elements[NumberIn(starts, p)] = Stored(FtpParse(LineAt(body, p)))
        /\ \A i \in Cardinality(starts) + 1 .. Len(elements) : elements[i] = Null

\* Each element of a line says what its line does, if the line is EPLF: the name after
\* the first TAB and the facts before it that a comma ends, and no others
\* (ftpparse.c:180-207).
EplfLinesUnderstood ==
    pc = "done" /\ ~input.mlsd /\ input.file = <<>> =>
        \A p \in StartsOf(body) :
            EplfAgrees(LineAt(body, p), elements[NumberIn(StartsOf(body), p)])

\* An MLSD body of such lines gives one element for each line with a path, in order, an
\* object with the facts and the path of that line, also where a key comes twice or is
\* "path" (4DPlugin-cURL.cpp:2830-2864).
MlsdLinesKept ==
    pc = "done" /\ input.mlsd /\ (\A p \in StartsOf(body) : IsPlain(LineAt(body, p))) =>
        LET named == {p \in StartsOf(body) : HasPath(LineAt(body, p))} IN
        /\ Len(elements) = Cardinality(named)
        /\ \A p \in named : MlsdAgrees(LineAt(body, p), elements[NumberIn(named, p)])

\* What a file's entry is to say.
UnixEntry(f) ==
    [found |-> TRUE, id |-> <<>>, size |-> "531",
     name |-> f.name,
     trycwd |-> f.type \in {"dperm", "lperm", "d"}, tryretr |-> f.type \in {"-perm", "lperm", "-"},
     mtime |-> IF f.when = "1994" THEN <<"day", "1994", "Apr", "8">> ELSE <<"minute", "Apr", "8", f.when>>]
VmsEntry(f) ==
    LET dir == f.dir \/ (Len(f.name) > 1 /\ Last(f.name) = ".DIR") IN
    [found |-> TRUE, id |-> <<>>, size |-> "", trycwd |-> dir, tryretr |-> ~dir,
     name |-> IF dir /\ ~f.dir THEN Front(f.name) ELSE f.name,
     mtime |-> <<"minute", 1999, "Jan", 27, 12, 9>>]
MsDosEntry(f) ==
    [found |-> TRUE, id |-> <<>>, size |-> IF f.dir THEN "" ELSE "531", name |-> f.name,
     trycwd |-> f.dir, tryretr |-> ~f.dir, mtime |-> <<"minute", f.year, 3, 27, f.hour, 4>>]
EntryOf(f) ==
    CASE f.format = "unix" -> UnixEntry(f) [] f.format = "vms" -> VmsEntry(f) [] f.format = "msdos" -> MsDosEntry(f)

\* What its element is to say: no date for a file older than 1970.
Expected(f) ==
    IF f.format = "msdos" /\ f.year < 1970 THEN [EntryOf(f) EXCEPT !.mtime = NoDate] ELSE EntryOf(f)

\* What a server shows for the name of a file.
Shown(f) == IF f.format = "unix" THEN f.name \o f.link ELSE f.name

\* A line in one of the documented formats is understood: name, size, kind and date are
\* those of the file, whatever names, owners and groups are called, no date stands for
\* one before 1970, and a link is named without its target.  A line that is cut short,
\* as by an aborted transfer, whose body is parsed all the same, gives nothing, or the
\* same entry with a part of the name
\* (ftpparse.c:210-445, 4DPlugin-cURL.cpp:2913).
FormatsUnderstood ==
    pc = "done" /\ input.file # <<>> =>
        LET f == input.file[1]
            e == elements[2]
        IN IF ~input.cut THEN e = Expected(f)
           ELSE \/ e = Null
                \/ /\ e = [Expected(f) EXCEPT !.name = e.name]
                   /\ IsPrefix(e.name, Shown(f)) \/ IsPrefix(e.name, Padding(f) \o Shown(f))
=============================================================================
