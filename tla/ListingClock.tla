----------------------------- MODULE ListingClock -----------------------------
(***************************************************************************)
(* The year of a file in an FTP listing.  A UNIX listing names the day and *)
(* the month of a recent file but not its year, so ftpparse guesses it     *)
(* from the clock and from the year it was at the first listing.  Both are *)
(* kept in static variables, which the listings of all the processes share *)
(* without a lock.  A time is counted in days: hours and minutes are added *)
(* to the guess afterwards.                                                *)
(***************************************************************************)
EXTENDS Integers, Sequences, FiniteSets, FiniteSetsExt

CONSTANTS
    Calls,        \* processes that list directories
    Starts,       \* days the program may start on, counted from 1 January 1970
    Ages,         \* ages of the files in days, negative when in the future
    Pauses,       \* days that may pass while nothing is listed
    MaxListings,  \* bound: listings of all the calls together
    MaxDays,      \* bound: days the pauses take together
    MaxMidnights  \* bound: midnights while a listing is parsed

\* No file is older than 1970.
ASSUME DaysAssumption ==
    /\ Starts \subseteq Nat /\ Pauses \subseteq Nat /\ Ages \subseteq Int
    /\ \A s \in Starts, a \in Ages : a <= s
    /\ MaxListings \in Nat /\ MaxDays \in Nat /\ MaxMidnights \in Nat

\* A server leaves out the year of a file of the last 350 days, and of one
\* whose clock is ahead by less than what is left of a year.
ASSUME RecentAssumption ==
    \A a \in Ages : a + MaxMidnights < 350 /\ MaxMidnights - a <= 15

\* The host is restarted within 99 years.
ASSUME RestartAssumption == MaxDays + MaxMidnights + 15 <= 99 * 365

VARIABLES
    start,        \* the day the program started (history)
    today,        \* the host's clock
    now, flagneedcurrentyear, currentyear,  \* the static variables
    pc,           \* where each call is
    file,         \* the day of the file it lists (history)
    line,         \* <<month, day of the month>>, all that the listing says of it
    time,         \* the clock as it has read it
    first,        \* the year it is about to store, or to start guessing from
    half,         \* it has met an initialisation that was half done (history)
    listed,       \* the day it has found
    listings, midnights  \* counts for the bounds

statics == <<now, flagneedcurrentyear, currentyear>>
locals == <<pc, file, line, time, first, half, listed>>
clock == <<today, midnights>>
vars == <<start, clock, statics, locals, listings>>

\* Two values that are not days of a file.
NotListed == -1
Undefined == -2     \* guesstai ends without a return

-----------------------------------------------------------------------------
(* The calendar: months are counted from 0, days of a month from 1. *)

IsLeap(y) == y % 4 = 0 /\ (y % 100 # 0 \/ y % 400 = 0)
LeapsBefore(y) == (y - 1) \div 4 - (y - 1) \div 100 + (y - 1) \div 400
DaysBefore == <<0, 31, 59, 90, 120, 151, 181, 212, 243, 273, 304, 334>>

DayOf(y, m, d) ==
    365 * (y - 1970) + LeapsBefore(y) - LeapsBefore(1970)
        + DaysBefore[m + 1] + (IF m > 1 /\ IsLeap(y) THEN 1 ELSE 0) + d - 1

YearOf(day) ==
    CHOOSE y \in 1970 + day \div 366 .. 1970 + day \div 365 :
        DayOf(y, 0, 1) <= day /\ day < DayOf(y + 1, 0, 1)

\* What a line says of a file of that day: <<month, day of the month>>.
LineOf(day) ==
    LET y == YearOf(day)
        m == CHOOSE m \in 0 .. 11 : /\ DayOf(y, m, 1) <= day
                                    /\ m < 11 => day < DayOf(y, m + 1, 1)
    IN  <<m, day - DayOf(y, m, 1) + 1>>

-----------------------------------------------------------------------------
(* ftpparse's arithmetic, with years that begin in March.  Where C divides  *)
(* and then corrects a negative remainder, \div and % need no correction.   *)

\* Mutant: the day the fourth year of four gains is given to the next year.
totai_NoLeapDay(year, month, mday) ==
    LET y == IF month >= 2 THEN year ELSE year - 1
        m == IF month >= 2 THEN month - 2 ELSE month + 10
    IN  ((mday - 1) * 10 + 5 + 306 * m) \div 10 + 365 * (y % 4) + 1460 * ((y \div 4) % 25)
        + 36524 * ((y \div 100) % 4) + 146097 * (y \div 400 - 5) + 11017

\* The day number of a date.
totai(year, month, mday) ==
    LET y == IF month >= 2 THEN year ELSE year - 1
        m == IF month >= 2 THEN month - 2 ELSE month + 10
        inYear == ((mday - 1) * 10 + 5 + 306 * m) \div 10
        leap == inYear = 365
        in4 == IF leap THEN 1460 ELSE inYear + 365 * (y % 4)
        y4 == (IF leap THEN y - 3 ELSE y) \div 4
        in100 == in4 + 1461 * (y4 % 25)
        y100 == y4 \div 25
        century == in100 = 36524
        in400 == IF century THEN 146096 ELSE in100 + 36524 * (y100 % 4)
        y400 == (IF century THEN y100 - 3 ELSE y100) \div 4
    IN  in400 + 146097 * (y400 - 5) + 11017

\* Mutant: January and February belong to the year that began in March.
YearAt_March(n) ==
    LET day == n - 11017
        d400 == day % 146097
        d100 == IF d400 = 146096 THEN 36524 ELSE d400 % 36524
        y100 == IF d400 = 146096 THEN 3 ELSE d400 \div 36524
        d4 == d100 % 1461
        y1 == IF d4 = 1460 THEN 3 ELSE d4 \div 365
    IN  (((5 + day \div 146097) * 4 + y100) * 25 + d100 \div 1461) * 4 + y1

\* The year of day n, as initnow works it out.
YearAt(n) ==
    LET day == n - 11017
        d400 == day % 146097
        d100 == IF d400 = 146096 THEN 36524 ELSE d400 % 36524
        y100 == IF d400 = 146096 THEN 3 ELSE d400 \div 36524
        d4 == d100 % 1461
        y1 == IF d4 = 1460 THEN 3 ELSE d4 \div 365
        d1 == IF d4 = 1460 THEN 365 ELSE d4 % 365
        y == (((5 + day \div 146097) * 4 + y100) * 25 + d100 \div 1461) * 4 + y1
    IN  IF (10 * d1 + 5) \div 306 >= 10 THEN y + 1 ELSE y

-----------------------------------------------------------------------------
Init ==
    /\ start \in Starts /\ today = start
    /\ now = 0 /\ flagneedcurrentyear = 1 /\ currentyear = 0
    /\ pc = [c \in Calls |-> "idle"]
    /\ file = [c \in Calls |-> 0]
    /\ line = [c \in Calls |-> <<0, 0>>]
    /\ time = [c \in Calls |-> 0]
    /\ first = [c \in Calls |-> 0]
    /\ half = [c \in Calls |-> FALSE]
    /\ listed = [c \in Calls |-> NotListed]
    /\ listings = 0 /\ midnights = 0

Goto(c, place) == pc' = [pc EXCEPT ![c] = place]

\* The host's clock goes on: by a day while a listing is parsed, ...
Midnight ==
    /\ midnights < MaxMidnights
    /\ \E c \in Calls : pc[c] # "idle"
    /\ today' = today + 1 /\ midnights' = midnights + 1
    /\ UNCHANGED <<start, statics, locals, listings>>

\* ... and for longer between two listings.
Pause ==
    /\ \A c \in Calls : pc[c] = "idle"
    /\ \E days \in Pauses :
          /\ today + days <= start + MaxDays + midnights
          /\ today' = today + days
    /\ UNCHANGED <<start, midnights, statics, locals, listings>>

\* A line with a month, a day and a time is met: guesstai is called.
Meet(c) ==
    /\ pc[c] = "idle" /\ listings < MaxListings
    /\ \E age \in Ages : /\ file' = [file EXCEPT ![c] = today - age]
                         /\ line' = [line EXCEPT ![c] = LineOf(today - age)]
    /\ listings' = listings + 1
    /\ half' = [half EXCEPT ![c] = FALSE]
    /\ listed' = [listed EXCEPT ![c] = NotListed]
    /\ Goto(c, "clock")
    /\ UNCHANGED <<start, clock, statics, time, first>>

\* now = time(0) - base: the clock is read, ...
ReadClock(c) ==
    /\ pc[c] = "clock"
    /\ time' = [time EXCEPT ![c] = today]
    /\ Goto(c, "now")
    /\ UNCHANGED <<start, clock, statics, file, line, first, half, listed, listings>>

\* ... and stored for all the calls.
StoreNow(c) ==
    /\ pc[c] = "now"
    /\ now' = time[c]
    /\ Goto(c, "flag")
    /\ UNCHANGED <<start, clock, flagneedcurrentyear, currentyear, file, line, time, first,
                   half, listed, listings>>

\* if (flagneedcurrentyear): the year is worked out from what `now` holds.
TestFlag(c) ==
    /\ pc[c] = "flag"
    /\ IF flagneedcurrentyear = 1
       THEN /\ first' = [first EXCEPT ![c] = YearAt(now)]
            /\ Goto(c, "both")
            /\ UNCHANGED half
       ELSE /\ Goto(c, "loop")
            /\ half' = [half EXCEPT ![c] = currentyear = 0]
            /\ UNCHANGED first
    /\ UNCHANGED <<start, clock, statics, file, line, time, listed, listings>>

\* Mutant: the call that clears the flag has stored no year.
AfterClear_Only(place) == "loop"

\* Where a call that clears the flag goes on.
AfterClear(place) == IF place = "both" THEN "year" ELSE "loop"

\* Mutant: the flag is counted down.
FlagAfter_Less(flag) == flag - 1

FlagAfter(flag) == 0

\* currentyear = year; flagneedcurrentyear = 0: two plain stores, which the
\* compiler and the processor may make in either order.
StoreYear(c) ==
    /\ pc[c] \in {"both", "year"}
    /\ currentyear' = first[c]
    /\ Goto(c, IF pc[c] = "both" THEN "clear" ELSE "loop")
    /\ UNCHANGED <<start, clock, now, flagneedcurrentyear, file, line, time, first, half, listed,
                   listings>>

ClearFlag(c) ==
    /\ pc[c] \in {"both", "clear"}
    /\ flagneedcurrentyear' = FlagAfter(flagneedcurrentyear)
    /\ Goto(c, AfterClear(pc[c]))
    /\ UNCHANGED <<start, clock, now, currentyear, file, line, time, first, half, listed, listings>>

\* Mutant: the guess starts at the current year.
FirstGuess_ThisYear(year) == year

\* year = currentyear - 1
FirstGuess(year) == year - 1

StartLoop(c) ==
    /\ pc[c] = "loop"
    /\ first' = [first EXCEPT ![c] = FirstGuess(currentyear)]
    /\ Goto(c, "guess")
    /\ UNCHANGED <<start, clock, statics, file, line, time, half, listed, listings>>

\* now - t < 350 * 86400
Recent(n, t) == n - t < 350

\* The loop up to currentyear + 100, which is read again in each turn or has
\* been kept in a register since the first.  (No year before `near` fits, and
\* of the years after the last one here none is the year of the file, which
\* fits.)
Guess(c) ==
    /\ pc[c] = "guess"
    /\ \E limit \in {currentyear + 100, first[c] + 101} :
          LET day(y) == totai(y, line[c][1], line[c][2])
              near == IF first[c] > now \div 366 + 1968 THEN first[c]
                      ELSE now \div 366 + 1968
              fits == {y \in near .. now \div 365 + 1971 : y < limit /\ Recent(now, day(y))}
          IN  listed' = [listed EXCEPT ![c] =
                            IF fits = {} THEN Undefined ELSE day(Min(fits))]
    /\ first' = [first EXCEPT ![c] = 0]
    /\ time' = [time EXCEPT ![c] = 0]
    /\ Goto(c, "idle")
    /\ UNCHANGED <<start, clock, statics, file, line, half, listings>>

Step(c) ==
    \/ Meet(c) \/ ReadClock(c) \/ StoreNow(c) \/ TestFlag(c)
    \/ StoreYear(c) \/ ClearFlag(c) \/ StartLoop(c) \/ Guess(c)

Next == Midnight \/ Pause \/ \E c \in Calls : Step(c)

Spec == Init /\ [][Next]_vars

-----------------------------------------------------------------------------
(* Properties. *)

\* The statics and the locals of every call hold values of their types.
TypeOK ==
    /\ start \in Starts /\ today \in Nat /\ now \in Nat
    /\ flagneedcurrentyear \in {0, 1} /\ currentyear \in Nat
    /\ pc \in [Calls -> {"idle", "clock", "now", "flag", "both", "year", "clear", "loop",
                         "guess"}]
    /\ \A c \in Calls : /\ file[c] \in Int /\ line[c] \in (0 .. 11) \X (0 .. 31)
                        /\ time[c] \in Nat /\ first[c] \in Int
                        /\ half[c] \in BOOLEAN
                        /\ listed[c] \in Int
    /\ listings \in 0 .. MaxListings
    /\ midnights \in 0 .. MaxMidnights

\* A listing gives a file the day it really has, in whichever year that was,
\* although the year the guess starts from is never refreshed and another
\* call may store an older or a newer `now` meanwhile (guesstai, initnow).
\* Two kinds of files are left out: those of a call that finds the flag cleared
\* before the year has been stored, and, by RecentAssumption, those of 350 days
\* and more, the twelve months of NetWare among them, or more than 15 days ahead,
\* where the guess may be a year off (ftpparse.c:99-100).
DayIsRight ==
    \A c \in Calls : listed[c] # NotListed /\ ~half[c] => listed[c] = file[c]

\* The year kept for the rest of the program is a year it has run in,
\* whichever of the calls that raced for it came last (initnow).
YearIsOneOfOurs ==
    currentyear # 0 => currentyear \in YearOf(start) .. YearOf(today)
=============================================================================
