--------------------------- MODULE ListingClockProofs ---------------------------
(***************************************************************************)
(* Theorems about ListingClock, for any number of calls, starts, ages and  *)
(* pauses: its types, the year that is kept, and the day a listing gives a *)
(* file.                                                                   *)
(*                                                                         *)
(* First the calendar: ftpparse's two conversions agree with it, and a day *)
(* and what a listing says of it determine each other once the year is     *)
(* known.  The dates ftpparse gets wrong are the 29th of February of years *)
(* that have none: they come out too early, which the guess can bear.      *)
(* Then the clock: whoever is in a listing, no time that anybody holds is  *)
(* older than the midnights there have been.                               *)
(***************************************************************************)
EXTENDS ListingClock, WellFoundedInduction, TLAPS

Places == {"idle", "clock", "now", "flag", "both", "year", "clear", "loop", "guess"}

\* A day of the last midnights.
JustNow(day) == day \in today - midnights .. today

\* The years the program has run in.
Ours == YearOf(start) .. YearOf(today)

Types ==
    /\ start \in Starts /\ today \in Nat /\ now \in Nat
    /\ flagneedcurrentyear \in {0, 1} /\ currentyear \in Nat
    /\ pc \in [Calls -> Places]
    /\ file \in [Calls -> Nat]
    /\ line \in [Calls -> (0 .. 11) \X (0 .. 31)]
    /\ time \in [Calls -> Nat] /\ first \in [Calls -> Int]
    /\ half \in [Calls -> BOOLEAN] /\ listed \in [Calls -> Int]
    /\ listings \in 0 .. MaxListings /\ midnights \in 0 .. MaxMidnights

\* The clock has not been set back, and the host has not run for too long.
ClockInv == start + midnights <= today /\ today <= start + MaxDays + midnights

\* A call in a listing has met its file just now, ...
MetInv ==
    \A c \in Calls : pc[c] # "idle" =>
        /\ line[c] = LineOf(file[c])
        /\ \E a \in Ages : JustNow(file[c] + a)

\* ... has read the clock just now, and found or left the time there.
NowInv ==
    \A c \in Calls :
        /\ pc[c] = "now" => JustNow(time[c])
        /\ pc[c] \in {"flag", "both", "year", "clear", "loop", "guess"} => JustNow(now)

\* The year that is kept, and those that the calls are about to keep or guess from.
YearInv ==
    /\ currentyear # 0 => currentyear \in Ours
    /\ \A c \in Calls :
          /\ pc[c] \in {"both", "year"} => first[c] \in Ours
          /\ pc[c] \in {"clear", "loop", "guess"} /\ ~half[c] => currentyear # 0
          /\ pc[c] = "guess" /\ ~half[c] => first[c] + 1 \in Ours

\* A call has a day when it is done, and the day is right.
DayInv ==
    \A c \in Calls :
        /\ pc[c] # "idle" => listed[c] = NotListed
        /\ listed[c] # NotListed /\ ~half[c] => listed[c] = file[c]

IInv == Types /\ ClockInv /\ MetInv /\ NowInv /\ YearInv /\ DayInv

-----------------------------------------------------------------------------
(* The calendar *)

Leap(y) == IF IsLeap(y) THEN 1 ELSE 0

\* One number more may make one quotient more.
LEMMA NextQuotient ==
    ASSUME NEW y \in Int
    PROVE  /\ y \div 4 = (y - 1) \div 4 + (IF y % 4 = 0 THEN 1 ELSE 0)
           /\ y \div 100 = (y - 1) \div 100 + (IF y % 100 = 0 THEN 1 ELSE 0)
           /\ y \div 400 = (y - 1) \div 400 + (IF y % 400 = 0 THEN 1 ELSE 0)
<1>1. y \div 4 = (y - 1) \div 4 + (IF y % 4 = 0 THEN 1 ELSE 0)
  OBVIOUS
<1>2. y \div 100 = (y - 1) \div 100 + (IF y % 100 = 0 THEN 1 ELSE 0)
  OBVIOUS
<1>3. y \div 400 = (y - 1) \div 400 + (IF y % 400 = 0 THEN 1 ELSE 0)
  OBVIOUS
<1> QED
  BY <1>1, <1>2, <1>3

\* What 4 divides of the numbers 100 and 400 do.
LEMMA Divides ==
    ASSUME NEW y \in Int
    PROVE  /\ y % 100 = 0 => y % 4 = 0
           /\ y % 400 = 0 => y % 100 = 0
<1>1. y % 100 = 0 => y % 4 = 0
  OBVIOUS
<1>2. y % 400 = 0 => y % 100 = 0
  OBVIOUS
<1> QED
  BY <1>1, <1>2

LEMMA LeapsAre ==
    ASSUME NEW y \in Int
    PROVE  /\ LeapsBefore(y) \in Int
           /\ LeapsBefore(y) + Leap(y) = y \div 4 - y \div 100 + y \div 400
           /\ LeapsBefore(y + 1) = y \div 4 - y \div 100 + y \div 400
<1>1. LeapsBefore(y + 1) = y \div 4 - y \div 100 + y \div 400
  BY DEF LeapsBefore
<1>2. LeapsBefore(y) = (y - 1) \div 4 - (y - 1) \div 100 + (y - 1) \div 400
  BY DEF LeapsBefore
<1>3. Leap(y) = IF y % 4 = 0 /\ (y % 100 # 0 \/ y % 400 = 0) THEN 1 ELSE 0
  BY DEF Leap, IsLeap
<1> QED
  BY <1>1, <1>2, <1>3, NextQuotient, Divides

LEMMA MonthsAre ==
    ASSUME NEW m \in 0 .. 11
    PROVE  DaysBefore[m + 1] \in Nat /\ DaysBefore[m + 1] <= 334
  BY DEF DaysBefore

\* The days of a year.
LEMMA YearIs ==
    ASSUME NEW y \in Int
    PROVE  /\ DayOf(y, 0, 1) = 365 * (y - 1970) + LeapsBefore(y) - 477
           /\ DayOf(y, 0, 1) \in Int
           /\ DayOf(y + 1, 0, 1) = DayOf(y, 0, 1) + 365 + Leap(y)
           /\ Leap(y) \in {0, 1}
<1>1. DaysBefore[1] = 0 /\ LeapsBefore(1970) = 477
  BY DEF DaysBefore, LeapsBefore
<1>2. DayOf(y, 0, 1) = 365 * (y - 1970) + LeapsBefore(y) - 477
  <2>1. LeapsBefore(y) \in Int
    BY LeapsAre
  <2> QED
    BY <1>1, <2>1 DEF DayOf
<1>3. DayOf(y + 1, 0, 1) = 365 * (y + 1 - 1970) + LeapsBefore(y + 1) - 477
  <2>1. LeapsBefore(y + 1) \in Int
    BY LeapsAre
  <2> QED
    BY <1>1, <2>1 DEF DayOf
<1>4. Leap(y) \in {0, 1}
  BY DEF Leap
<1>5. LeapsBefore(y) \in Int /\ LeapsBefore(y + 1) = LeapsBefore(y) + Leap(y)
  BY <1>4, LeapsAre
<1> QED
  BY <1>2, <1>3, <1>4, <1>5

\* A quotient by 100 or 400, in steps.
LEMMA Nested ==
    ASSUME NEW y \in Int
    PROVE  y \div 100 = (y \div 4) \div 25 /\ y \div 400 = (y \div 100) \div 4
<1>1. y \div 100 = (y \div 4) \div 25
  OBVIOUS
<1>2. y \div 400 = (y \div 100) \div 4
  OBVIOUS
<1> QED
  BY <1>1, <1>2

\* Years have 365 days or 366.
LEMMA YearsApart ==
    ASSUME NEW y \in Int, NEW z \in Int, y <= z
    PROVE  /\ DayOf(z, 0, 1) - DayOf(y, 0, 1) >= 365 * (z - y)
           /\ DayOf(z, 0, 1) - DayOf(y, 0, 1) <= 366 * (z - y)
<1> DEFINE q(n) == (n - 1) \div 4
           L(a) == a - a \div 25 + (a \div 25) \div 4
<1>1. ASSUME NEW n \in Int
      PROVE  LeapsBefore(n) = L(q(n)) /\ q(n) \in Int
  <2>1. n - 1 \in Int
    OBVIOUS
  <2>2. /\ (n - 1) \div 100 = ((n - 1) \div 4) \div 25
        /\ (n - 1) \div 400 = ((n - 1) \div 100) \div 4
    BY <2>1, Nested
  <2> QED
    BY <2>1, <2>2 DEF LeapsBefore
<1>2. q(y) <= q(z) /\ q(z) - q(y) <= z - y
  OBVIOUS
<1>3. ASSUME NEW a \in Int, NEW b \in Int, a <= b
      PROVE  L(b) - L(a) >= 0 /\ L(b) - L(a) <= b - a
  <2>1. PICK k \in Int : a \div 25 = k /\ 25 * k <= a /\ a <= 25 * k + 24
    OBVIOUS
  <2>2. PICK l \in Int : b \div 25 = l /\ 25 * l <= b /\ b <= 25 * l + 24
    OBVIOUS
  <2>3. k <= l /\ (l - k <= b - a)
    BY <1>3, <2>1, <2>2
  <2>4. k \div 4 <= l \div 4 /\ l \div 4 - k \div 4 <= l - k
    BY <2>3
  <2> QED
    BY <1>3, <2>1, <2>2, <2>3, <2>4
<1>4. LeapsBefore(z) - LeapsBefore(y) >= 0 /\ LeapsBefore(z) - LeapsBefore(y) <= z - y
  <2> HIDE DEF q, L
  <2>1. L(q(z)) - L(q(y)) >= 0 /\ L(q(z)) - L(q(y)) <= q(z) - q(y)
    BY <1>1, <1>2, <1>3
  <2> QED
    BY <1>1, <1>2, <2>1, LeapsAre
<1> QED
  <2>1. /\ DayOf(y, 0, 1) = 365 * (y - 1970) + LeapsBefore(y) - 477
        /\ DayOf(z, 0, 1) = 365 * (z - 1970) + LeapsBefore(z) - 477
        /\ LeapsBefore(y) \in Int /\ LeapsBefore(z) \in Int
    BY YearIs, LeapsAre
  <2> QED
    BY <1>4, <2>1

\* initnow's year has the day in it.
LEMMA YearAtIs ==
    ASSUME NEW n \in Int
    PROVE  /\ YearAt(n) \in Int
           /\ DayOf(YearAt(n), 0, 1) <= n
           /\ n < DayOf(YearAt(n) + 1, 0, 1)
<1> DEFINE day == n - 11017
           d400 == day % 146097
           d100 == IF d400 = 146096 THEN 36524 ELSE d400 % 36524
           y100 == IF d400 = 146096 THEN 3 ELSE d400 \div 36524
           d4 == d100 % 1461
           y4 == d100 \div 1461
           y1 == IF d4 = 1460 THEN 3 ELSE d4 \div 365
           d1 == IF d4 = 1460 THEN 365 ELSE d4 % 365
           q == day \div 146097
           y == (((5 + q) * 4 + y100) * 25 + y4) * 4 + y1
<1>1. q \in Int /\ d400 \in Int /\ 0 <= d400 /\ d400 <= 146096 /\ day = 146097 * q + d400
  <2>1. day \in Int
    OBVIOUS
  <2> HIDE DEF day
  <2> QED
    BY <2>1, SMT
<1>2. y100 \in 0 .. 3 /\ d100 \in Int /\ 0 <= d100 /\ d100 <= 36524 /\ d400 = 36524 * y100 + d100
      /\ (d100 = 36524 => y100 = 3)
  <2> HIDE DEF d400
  <2> QED
    BY <1>1, SMT
<1>3. y4 \in 0 .. 24 /\ d4 \in Int /\ 0 <= d4 /\ d4 <= 1460 /\ d100 = 1461 * y4 + d4
  BY <1>2
<1>4. /\ y1 \in 0 .. 3 /\ d1 \in Int /\ 0 <= d1 /\ d1 <= 365 /\ d4 = 365 * y1 + d1
      /\ d1 = 365 => y1 = 3 /\ d4 = 1460
  BY <1>3
<1>5. d4 = 1460 /\ y4 = 24 => y100 = 3
  BY <1>2, <1>3
<1> HIDE DEF q, d400, d100, y100, y4, d4, y1, d1
<1>6. y \in Int /\ y = 4 * (((5 + q) * 4 + y100) * 25 + y4) + y1
  BY <1>1, <1>2, <1>3, <1>4, SMT
<1>7. /\ y \div 4 = ((5 + q) * 4 + y100) * 25 + y4
      /\ y \div 100 = (5 + q) * 4 + y100
      /\ y \div 400 = 5 + q
  <2> HIDE DEF y
  <2>1. y \div 4 = ((5 + q) * 4 + y100) * 25 + y4
    BY <1>1, <1>2, <1>3, <1>4, <1>6, SMT
  <2>2. y \div 100 = (y \div 4) \div 25 /\ y \div 400 = (y \div 100) \div 4
    BY <1>6, Nested
  <2>3. y \div 100 = (5 + q) * 4 + y100
    BY <1>1, <1>2, <1>3, <2>1, <2>2, SMT
  <2>4. y \div 400 = 5 + q
    BY <1>1, <1>2, <2>2, <2>3, SMT
  <2> QED
    BY <2>1, <2>3, <2>4
<1>8. DayOf(y + 1, 0, 1) = n - d1 + 306
  <2>1. DayOf(y + 1, 0, 1) = 365 * (y + 1 - 1970) + LeapsBefore(y + 1) - 477
    BY <1>6, YearIs
  <2>2. LeapsBefore(y + 1) = y \div 4 - y \div 100 + y \div 400
    BY <1>6, LeapsAre
  <2> HIDE DEF y
  <2>3. n = 11017 + 146097 * q + 36524 * y100 + 1461 * y4 + 365 * y1 + d1
    BY <1>1, <1>2, <1>3, <1>4, SMT
  <2> QED
    BY <1>1, <1>2, <1>3, <1>4, <1>6, <1>7, <2>1, <2>2, <2>3, SMT
<1>9. YearAt(n) = IF (10 * d1 + 5) \div 306 >= 10 THEN y + 1 ELSE y
  BY DEF YearAt, q, d400, d100, y100, y4, d4, y1, d1
<1>10. (10 * d1 + 5) \div 306 >= 10 <=> d1 >= 306
  BY <1>4
<1> HIDE DEF y
<1>11. ASSUME NEW z \in Int
       PROVE  /\ DayOf(z + 1, 0, 1) = DayOf(z, 0, 1) + 365 + Leap(z)
              /\ DayOf(z, 0, 1) \in Int /\ Leap(z) \in {0, 1}
  BY <1>11, YearIs
<1>12. /\ DayOf(y + 1, 0, 1) = DayOf(y, 0, 1) + 365 + Leap(y)
       /\ DayOf(y, 0, 1) \in Int /\ Leap(y) \in {0, 1}
  BY <1>6, <1>11
<1>13. /\ DayOf((y + 1) + 1, 0, 1) = DayOf(y + 1, 0, 1) + 365 + Leap(y + 1)
       /\ Leap(y + 1) \in {0, 1}
  BY <1>6, <1>11
<1> QED
  BY <1>4, <1>6, <1>8, <1>9, <1>10, <1>12, <1>13, SMT

\* A day is in one year only.
LEMMA OneYear ==
    ASSUME NEW n \in Int, NEW y \in Int, NEW z \in Int,
           DayOf(y, 0, 1) <= n, n < DayOf(z + 1, 0, 1)
    PROVE  y <= z
<1> SUFFICES ASSUME z + 1 <= y PROVE FALSE
  OBVIOUS
<1>1. DayOf(y, 0, 1) - DayOf(z + 1, 0, 1) >= 365 * (y - (z + 1))
  BY YearsApart
<1>2. DayOf(y, 0, 1) \in Int /\ DayOf(z + 1, 0, 1) \in Int
  BY YearIs
<1> QED
  BY <1>1, <1>2

\* initnow's year is the year of the day.
LEMMA YearOfIs ==
    ASSUME NEW n \in Nat
    PROVE  /\ YearOf(n) = YearAt(n)
           /\ YearOf(n) \in Nat /\ YearOf(n) >= 1970
           /\ YearOf(n) <= 1970 + n \div 365
           /\ DayOf(YearOf(n), 0, 1) <= n
           /\ n < DayOf(YearOf(n) + 1, 0, 1)
<1> DEFINE z == YearAt(n)
           In(y) == DayOf(y, 0, 1) <= n /\ n < DayOf(y + 1, 0, 1)
<1>1. z \in Int /\ In(z)
  BY YearAtIs
<1>2. z \in 1970 + n \div 366 .. 1970 + n \div 365
  <2> HIDE DEF z
  <2>1. DayOf(1970, 0, 1) = 0
    <3>1. DaysBefore[1] = 0 /\ LeapsBefore(1970) = 477
      BY DEF DaysBefore, LeapsBefore
    <3> QED
      BY <3>1 DEF DayOf
  <2>2. z >= 1970
    BY <1>1, <2>1, OneYear
  <2>3. DayOf(z, 0, 1) >= 365 * (z - 1970) /\ DayOf(z + 1, 0, 1) <= 366 * (z + 1 - 1970)
    <3>1. DayOf(z, 0, 1) \in Int /\ DayOf(z + 1, 0, 1) \in Int
      BY <1>1, YearIs
    <3>2. DayOf(z, 0, 1) - DayOf(1970, 0, 1) >= 365 * (z - 1970)
      BY <1>1, <2>2, YearsApart
    <3>3. DayOf(z + 1, 0, 1) - DayOf(1970, 0, 1) <= 366 * (z + 1 - 1970)
      BY <1>1, <2>2, YearsApart
    <3> QED
      BY <2>1, <3>1, <3>2, <3>3
  <2>4. DayOf(z, 0, 1) \in Int /\ DayOf(z + 1, 0, 1) \in Int
    BY <1>1, YearIs
  <2>5. 365 * (z - 1970) <= n /\ n < 366 * (z + 1 - 1970)
    BY <1>1, <2>3, <2>4
  <2>6. z - 1970 <= n \div 365
    BY <1>1, <2>5
  <2>7. n \div 366 <= z - 1970
    BY <1>1, <2>5
  <2> QED
    BY <1>1, <2>6, <2>7
<1>3. \A y \in Int : In(y) => y = z
  <2> HIDE DEF z
  <2> SUFFICES ASSUME NEW y \in Int, In(y) PROVE y = z
    OBVIOUS
  <2>1. y <= z
    BY <1>1, OneYear
  <2>2. z <= y
    BY <1>1, OneYear
  <2> QED
    BY <1>1, <2>1, <2>2
<1>4. YearOf(n) = z
  <2> DEFINE Span == 1970 + n \div 366 .. 1970 + n \div 365
  <2>1. Span \subseteq Int
    OBVIOUS
  <2>2. YearOf(n) = CHOOSE y \in Span : In(y)
    BY DEF YearOf
  <2>3. \E y \in Span : In(y)
    BY <1>1, <1>2
  <2>4. YearOf(n) \in Span /\ In(YearOf(n))
    <3> HIDE DEF z, In, Span
    <3> QED
      BY <2>2, <2>3, Zenon
  <2> HIDE DEF z, In, Span
  <2> QED
    BY <1>3, <2>1, <2>4
<1>5. z \in Nat /\ z >= 1970 /\ z <= 1970 + n \div 365
  <2> HIDE DEF z
  <2>1. n \div 366 \in Nat /\ n \div 365 \in Nat
    OBVIOUS
  <2> QED
    BY <1>1, <1>2, <2>1
<1> QED
  BY <1>1, <1>4, <1>5

LEMMA YearsGrow ==
    ASSUME NEW m \in Nat, NEW n \in Nat, m <= n
    PROVE  YearOf(m) <= YearOf(n)
<1>1. /\ YearOf(m) \in Int /\ DayOf(YearOf(m), 0, 1) <= m
      /\ YearOf(n) \in Int /\ n < DayOf(YearOf(n) + 1, 0, 1)
  BY YearOfIs
<1>2. DayOf(YearOf(m), 0, 1) \in Int
  BY <1>1, YearIs
<1>3. DayOf(YearOf(m), 0, 1) <= n
  BY <1>1, <1>2
<1> QED
  BY <1>1, <1>3, OneYear

\* The day before which a month's days are counted: the turn of the year, as if
\* that year had no leap day before March.
Base(y, m) == IF m > 1 THEN DayOf(y + 1, 0, 1) - 365 ELSE DayOf(y, 0, 1)

LEMMA MonthIs ==
    ASSUME NEW y \in Int, NEW m \in 0 .. 11
    PROVE  /\ Base(y, m) \in Int
           /\ DayOf(y, m, 1) \in Int
           /\ DayOf(y, m, 1) = Base(y, m) + DaysBefore[m + 1]
<1>1. /\ DayOf(y, 0, 1) = 365 * (y - 1970) + LeapsBefore(y) - 477
      /\ DayOf(y + 1, 0, 1) = DayOf(y, 0, 1) + 365 + Leap(y)
      /\ Leap(y) \in {0, 1} /\ LeapsBefore(y) \in Int
  BY YearIs, LeapsAre
<1>2. LeapsBefore(1970) = 477
  BY DEF LeapsBefore
<1>3. DaysBefore[m + 1] \in Nat
  BY MonthsAre
<1>4. CASE m > 1
  <2>1. DayOf(y, m, 1) = 365 * (y - 1970) + LeapsBefore(y) - 477 + DaysBefore[m + 1]
                             + Leap(y) + 1 - 1
    BY <1>2, <1>4 DEF DayOf, Leap
  <2> QED
    BY <1>1, <1>3, <1>4, <2>1 DEF Base
<1>5. CASE ~(m > 1)
  <2>1. DayOf(y, m, 1) = 365 * (y - 1970) + LeapsBefore(y) - 477 + DaysBefore[m + 1] + 0 + 1 - 1
    BY <1>2, <1>5 DEF DayOf
  <2> QED
    BY <1>1, <1>3, <1>5, <2>1 DEF Base
<1> QED
  BY <1>4, <1>5

\* A date, from the first of its month.
LEMMA DateIs ==
    ASSUME NEW y \in Int, NEW m \in 0 .. 11, NEW d \in Int
    PROVE  DayOf(y, m, d) \in Int /\ DayOf(y, m, d) = DayOf(y, m, 1) + d - 1
<1>1. LeapsBefore(y) \in Int /\ DaysBefore[m + 1] \in Nat
  BY LeapsAre, MonthsAre, ZenonT(60)
<1>2. LeapsBefore(1970) = 477
  BY DEF LeapsBefore
<1> QED
  BY <1>1, <1>2 DEF DayOf

\* The same date of two years.
LEMMA DatesApart ==
    ASSUME NEW y \in Int, NEW z \in Int, y <= z, NEW m \in 0 .. 11, NEW d \in Int
    PROVE  /\ DayOf(z, m, d) - DayOf(y, m, d) >= 365 * (z - y)
           /\ DayOf(z, m, d) - DayOf(y, m, d) <= 366 * (z - y)
<1>1. /\ DayOf(z, 0, 1) - DayOf(y, 0, 1) >= 365 * (z - y)
      /\ DayOf(z, 0, 1) - DayOf(y, 0, 1) <= 366 * (z - y)
  BY YearsApart
<1>2. /\ DayOf(z + 1, 0, 1) - DayOf(y + 1, 0, 1) >= 365 * (z - y)
      /\ DayOf(z + 1, 0, 1) - DayOf(y + 1, 0, 1) <= 366 * (z - y)
  <2>1. y + 1 \in Int /\ z + 1 \in Int /\ y + 1 <= z + 1 /\ (z + 1) - (y + 1) = z - y
    OBVIOUS
  <2> QED
    BY <2>1, YearsApart
<1>3. /\ DayOf(y, 0, 1) \in Int /\ DayOf(y + 1, 0, 1) \in Int
      /\ DayOf(z, 0, 1) \in Int /\ DayOf(z + 1, 0, 1) \in Int
  BY YearIs
<1>4. Base(z, m) - Base(y, m) >= 365 * (z - y) /\ Base(z, m) - Base(y, m) <= 366 * (z - y)
  BY <1>1, <1>2, <1>3 DEF Base
<1>5. /\ Base(y, m) \in Int /\ DayOf(y, m, 1) = Base(y, m) + DaysBefore[m + 1]
      /\ Base(z, m) \in Int /\ DayOf(z, m, 1) = Base(z, m) + DaysBefore[m + 1]
  BY MonthIs
<1>6. DayOf(y, m, d) = DayOf(y, m, 1) + d - 1 /\ DayOf(z, m, d) = DayOf(z, m, 1) + d - 1
  BY DateIs
<1>7. DaysBefore[m + 1] \in Nat
  BY MonthsAre
<1> QED
  BY <1>4, <1>5, <1>6, <1>7

LEMMA MonthsOf ==
    ASSUME NEW y \in Int
    PROVE  LET J == DayOf(y, 0, 1)
           IN  /\ DayOf(y, 1, 1) = J + 31
               /\ DayOf(y, 2, 1) = J + 59 + Leap(y)
               /\ DayOf(y, 3, 1) = J + 90 + Leap(y)
               /\ DayOf(y, 4, 1) = J + 120 + Leap(y)
               /\ DayOf(y, 5, 1) = J + 151 + Leap(y)
               /\ DayOf(y, 6, 1) = J + 181 + Leap(y)
               /\ DayOf(y, 7, 1) = J + 212 + Leap(y)
               /\ DayOf(y, 8, 1) = J + 243 + Leap(y)
               /\ DayOf(y, 9, 1) = J + 273 + Leap(y)
               /\ DayOf(y, 10, 1) = J + 304 + Leap(y)
               /\ DayOf(y, 11, 1) = J + 334 + Leap(y)
               /\ DayOf(y + 1, 0, 1) = J + 365 + Leap(y)
<1>1. /\ DayOf(y, 0, 1) \in Int /\ Leap(y) \in {0, 1}
      /\ DayOf(y + 1, 0, 1) = DayOf(y, 0, 1) + 365 + Leap(y)
  BY YearIs
<1>2. \A m \in 0 .. 11 : DayOf(y, m, 1) = Base(y, m) + DaysBefore[m + 1]
  BY MonthIs
<1>3. DaysBefore = <<0, 31, 59, 90, 120, 151, 181, 212, 243, 273, 304, 334>>
  BY DEF DaysBefore
<1>4. /\ DaysBefore[2] = 31 /\ DaysBefore[3] = 59 /\ DaysBefore[4] = 90 /\ DaysBefore[5] = 120
      /\ DaysBefore[6] = 151 /\ DaysBefore[7] = 181 /\ DaysBefore[8] = 212
      /\ DaysBefore[9] = 243 /\ DaysBefore[10] = 273 /\ DaysBefore[11] = 304
      /\ DaysBefore[12] = 334
  BY <1>3
<1>5. ASSUME NEW m \in 2 .. 11
      PROVE  DayOf(y, m, 1) = DayOf(y, 0, 1) + Leap(y) + DaysBefore[m + 1]
  <2>1. m \in 0 .. 11 /\ m > 1
    OBVIOUS
  <2>2. DayOf(y, m, 1) = DayOf(y + 1, 0, 1) - 365 + DaysBefore[m + 1]
    BY <1>2, <2>1 DEF Base
  <2>3. DaysBefore[m + 1] \in Nat
    BY <2>1, MonthsAre
  <2> QED
    BY <1>1, <2>2, <2>3
<1>6. DayOf(y, 1, 1) = DayOf(y, 0, 1) + 31
  BY <1>1, <1>2, <1>4 DEF Base
<1> QED
  BY <1>1, <1>4, <1>5, <1>6

\* What a listing says of a day gives the day again, once the year is known.
LEMMA LineIs ==
    ASSUME NEW n \in Nat
    PROVE  \E m \in 0 .. 11, d \in 1 .. 31 :
              /\ LineOf(n) = <<m, d>>
              /\ DayOf(YearOf(n), m, d) = n
              /\ m = 1 => d <= 28 + Leap(YearOf(n))
<1> DEFINE y == YearOf(n)
           J == DayOf(y, 0, 1)
           In(m) == DayOf(y, m, 1) <= n /\ (m < 11 => n < DayOf(y, m + 1, 1))
           month == CHOOSE m \in 0 .. 11 : In(m)
           day == n - DayOf(y, month, 1) + 1
<1>1. y \in Int /\ J <= n /\ n < DayOf(y + 1, 0, 1)
  BY YearOfIs
<1> HIDE DEF y
<1>2. J \in Int /\ Leap(y) \in {0, 1}
  BY <1>1, YearIs
<1>3. /\ DayOf(y, 1, 1) = J + 31 /\ DayOf(y, 2, 1) = J + 59 + Leap(y)
      /\ DayOf(y, 3, 1) = J + 90 + Leap(y) /\ DayOf(y, 4, 1) = J + 120 + Leap(y)
      /\ DayOf(y, 5, 1) = J + 151 + Leap(y) /\ DayOf(y, 6, 1) = J + 181 + Leap(y)
      /\ DayOf(y, 7, 1) = J + 212 + Leap(y) /\ DayOf(y, 8, 1) = J + 243 + Leap(y)
      /\ DayOf(y, 9, 1) = J + 273 + Leap(y) /\ DayOf(y, 10, 1) = J + 304 + Leap(y)
      /\ DayOf(y, 11, 1) = J + 334 + Leap(y) /\ DayOf(y + 1, 0, 1) = J + 365 + Leap(y)
  BY <1>1, MonthsOf
<1>4. \E m \in 0 .. 11 : In(m)
  <2>1. CASE n < DayOf(y, 6, 1)
    <3>1. In(0) \/ In(1) \/ In(2) \/ In(3) \/ In(4) \/ In(5)
      BY <1>1, <1>2, <1>3, <2>1
    <3> QED
      BY <3>1
  <2>2. CASE ~(n < DayOf(y, 6, 1))
    <3>1. In(6) \/ In(7) \/ In(8) \/ In(9) \/ In(10) \/ In(11)
      BY <1>1, <1>2, <1>3, <2>2
    <3> QED
      BY <3>1
  <2> QED
    BY <2>1, <2>2
<1>5. month \in 0 .. 11 /\ In(month)
  <2> HIDE DEF In
  <2> QED
    BY <1>4, Zenon
<1>6. LineOf(n) = <<month, day>>
  BY DEF LineOf, y
<1> HIDE DEF month
<1>7. DayOf(y, month, 1) \in Int
  BY <1>1, <1>5, MonthIs
<1>8. day \in 1 .. 31 /\ (month = 1 => day <= 28 + Leap(y))
  <2>1. day \in Int /\ day >= 1
    BY <1>5, <1>7
  <2>2. \/ month = 0 \/ month = 1 \/ month = 2 \/ month = 3 \/ month = 4 \/ month = 5
        \/ month = 6 \/ month = 7 \/ month = 8 \/ month = 9 \/ month = 10 \/ month = 11
    BY <1>5
  <2>3. day <= 31 /\ (month = 1 => day <= 28 + Leap(y))
    BY <1>1, <1>2, <1>3, <1>5, <2>2
  <2> QED
    BY <2>1, <2>3
<1> HIDE DEF day
<1>9. DayOf(y, month, day) = n
  <2>1. DayOf(y, month, day) = DayOf(y, month, 1) + day - 1
    <3>1. day \in Int
      BY <1>8
    <3> QED
      BY <1>1, <1>5, <3>1, DateIs
  <2> QED
    BY <1>7, <2>1 DEF day
<1> QED
  BY <1>5, <1>6, <1>8, <1>9 DEF y

\* ftpparse's day of a date is the day of the date, but for the 29th of
\* February of a year that has none, which it takes for an earlier one.
LEMMA TotaiIs ==
    ASSUME NEW y \in Int, NEW m \in 0 .. 11, NEW d \in 1 .. 31, m = 1 => d <= 29
    PROVE  /\ totai(y, m, d) \in Int
           /\ totai(y, m, d) <= DayOf(y, m, d)
           /\ (m = 1 => d <= 28 + Leap(y)) => totai(y, m, d) = DayOf(y, m, d)
<1> DEFINE v == IF m >= 2 THEN y ELSE y - 1
           w == IF m >= 2 THEN m - 2 ELSE m + 10
           inYear == ((d - 1) * 10 + 5 + 306 * w) \div 10
           leap == inYear = 365
           in4 == IF leap THEN 1460 ELSE inYear + 365 * (v % 4)
           y4 == (IF leap THEN v - 3 ELSE v) \div 4
           in100 == in4 + 1461 * (y4 % 25)
           y100 == y4 \div 25
           century == in100 = 36524
           in400 == IF century THEN 146096 ELSE in100 + 36524 * (y100 % 4)
           y400 == (IF century THEN y100 - 3 ELSE y100) \div 4
           March == DayOf(v + 1, 0, 1) - 306
<1>1. totai(y, m, d) = in400 + 146097 * (y400 - 5) + 11017
  BY DEF totai
<1>2. v \in Int /\ w \in 0 .. 11
  OBVIOUS
<1>3. /\ inYear \in Nat /\ inYear <= 365 /\ (inYear = 365 <=> m = 1 /\ d = 29)
      /\ DayOf(y, m, d) = March + inYear
  <2>1. /\ DayOf(y, m, d) = DayOf(y, m, 1) + d - 1
        /\ DayOf(y, m, 1) = Base(y, m) + DaysBefore[m + 1]
        /\ Base(y, m) \in Int
    <3>1. d \in Int
      OBVIOUS
    <3>2. DayOf(y, m, d) = DayOf(y, m, 1) + d - 1
      BY <3>1, DateIs
    <3>3. DayOf(y, m, 1) = Base(y, m) + DaysBefore[m + 1] /\ Base(y, m) \in Int
      BY MonthIs
    <3> QED
      BY <3>2, <3>3
  <2>2. inYear = d - 1 + (5 + 306 * w) \div 10
    BY <1>2
  <2>3. DayOf(y + 1, 0, 1) \in Int /\ DayOf(y, 0, 1) \in Int
    BY YearIs
  <2>4. CASE m >= 2
    <3>1. /\ m = 2 => DaysBefore[m + 1] = 59 /\ (5 + 306 * w) \div 10 = 0
          /\ m = 3 => DaysBefore[m + 1] = 90 /\ (5 + 306 * w) \div 10 = 31
          /\ m = 4 => DaysBefore[m + 1] = 120 /\ (5 + 306 * w) \div 10 = 61
          /\ m = 5 => DaysBefore[m + 1] = 151 /\ (5 + 306 * w) \div 10 = 92
          /\ m = 6 => DaysBefore[m + 1] = 181 /\ (5 + 306 * w) \div 10 = 122
          /\ m = 7 => DaysBefore[m + 1] = 212 /\ (5 + 306 * w) \div 10 = 153
          /\ m = 8 => DaysBefore[m + 1] = 243 /\ (5 + 306 * w) \div 10 = 184
          /\ m = 9 => DaysBefore[m + 1] = 273 /\ (5 + 306 * w) \div 10 = 214
          /\ m = 10 => DaysBefore[m + 1] = 304 /\ (5 + 306 * w) \div 10 = 245
          /\ m = 11 => DaysBefore[m + 1] = 334 /\ (5 + 306 * w) \div 10 = 275
      BY <2>4 DEF DaysBefore
    <3>2. /\ (5 + 306 * w) \div 10 \in Nat /\ (5 + 306 * w) \div 10 <= 275
          /\ DaysBefore[m + 1] = 59 + (5 + 306 * w) \div 10
      BY <2>4, <3>1
    <3>3. v = y /\ Base(y, m) = DayOf(y + 1, 0, 1) - 365
      BY <2>4 DEF Base
    <3> HIDE DEF w, v
    <3> QED
      BY <2>1, <2>2, <2>3, <2>4, <3>2, <3>3
  <2>5. CASE ~(m >= 2)
    <3>1. v + 1 = y /\ Base(y, m) = DayOf(y, 0, 1)
      BY <2>5 DEF Base
    <3>2. /\ m = 0 => DaysBefore[m + 1] = 0 /\ (5 + 306 * w) \div 10 = 306
          /\ m = 1 => DaysBefore[m + 1] = 31 /\ (5 + 306 * w) \div 10 = 337
      BY <2>5 DEF DaysBefore
    <3> HIDE DEF w, v
    <3> QED
      BY <2>1, <2>2, <2>3, <2>5, <3>1, <3>2
  <2> QED
    BY <2>4, <2>5
<1>4. March = 365 * (v + 1 - 1970) + v \div 4 - v \div 100 + v \div 400 - 477 - 306
  <2> HIDE DEF v
  <2>1. PICK z \in Int : z = v + 1
    BY <1>2
  <2>2. DayOf(v + 1, 0, 1) = 365 * (v + 1 - 1970) + LeapsBefore(v + 1) - 477
    <3>1. DayOf(z, 0, 1) = 365 * (z - 1970) + LeapsBefore(z) - 477
      BY YearIs
    <3> QED
      BY <1>2, <2>1, <3>1
  <2>3. LeapsBefore(v + 1) = v \div 4 - v \div 100 + v \div 400
    BY <1>2, LeapsAre, ZenonT(60)
  <2>4. v \div 4 \in Int /\ v \div 100 \in Int /\ v \div 400 \in Int
    BY <1>2
  <2> QED
    BY <1>2, <2>2, <2>3, <2>4
<1>5. ASSUME NEW a \in Int
      PROVE  /\ a % 25 \in 0 .. 24 /\ a = 25 * (a \div 25) + (a % 25)
             /\ a % 4 \in 0 .. 3 /\ a = 4 * (a \div 4) + (a % 4)
             /\ a \div 25 \in Int /\ a \div 4 \in Int
  OBVIOUS
<1>6. /\ v \div 100 = (v \div 4) \div 25
      /\ v \div 400 = ((v \div 4) \div 25) \div 4
  <2> HIDE DEF v
  <2> QED
    BY <1>2, Nested
<1> HIDE DEF v, w, inYear
<1>7. CASE ~leap
  <2> DEFINE A == v \div 4
             B == A \div 25
  <2>1. /\ v = 4 * A + (v % 4) /\ A = 25 * B + (A % 25) /\ B = 4 * (B \div 4) + (B % 4)
        /\ v % 4 \in 0 .. 3 /\ A % 25 \in 0 .. 24 /\ B % 4 \in 0 .. 3
        /\ A \in Int /\ B \in Int /\ B \div 4 \in Int
    BY <1>2, <1>5
  <2>2. y4 = A /\ y100 = B /\ in4 = inYear + 365 * (v % 4)
    BY <1>7
  <2>3. in100 = inYear + 365 * (v % 4) + 1461 * (A % 25)
    BY <2>2
  <2>4. ~century
    <3> HIDE DEF in100, A, leap
    <3>1. inYear <= 364
      BY <1>3, <1>7 DEF leap
    <3> QED
      BY <1>3, <2>1, <2>3, <3>1
  <2>5. totai(y, m, d) = inYear + 365 * (v % 4) + 1461 * (A % 25) + 36524 * (B % 4)
                             + 146097 * (B \div 4 - 5) + 11017
    BY <1>1, <2>2, <2>3, <2>4
  <2>6. March = 365 * (v + 1 - 1970) + A - B + B \div 4 - 477 - 306
    BY <1>4, <1>6
  <2> HIDE DEF A, B, March
  <2>7. PICK r \in Int, s \in Int, t \in Int, C \in Int :
               r = v % 4 /\ s = A % 25 /\ t = B % 4 /\ C = B \div 4
    BY <2>1
  <2>8. v = 4 * A + r /\ A = 25 * B + s /\ B = 4 * C + t
    BY <2>1, <2>7
  <2>9. totai(y, m, d) = inYear + 365 * r + 1461 * s + 36524 * t + 146097 * (C - 5) + 11017
    BY <2>5, <2>7
  <2>10. March = 365 * (v + 1 - 1970) + A - B + C - 477 - 306
    BY <2>6, <2>7
  <2>11. totai(y, m, d) = March + inYear
    <3>1. March = 365 * r + 1461 * s + 36524 * t + 146097 * C - 719468
      BY <1>2, <2>1, <2>8, <2>10, SMT
    <3>2. totai(y, m, d) = inYear + 365 * r + 1461 * s + 36524 * t + 146097 * C - 719468
      BY <1>3, <2>9, SMT
    <3> QED
      BY <1>3, <3>1, <3>2, SMT
  <2>12. March + inYear \in Int
    BY <1>2, <1>3, <2>1, <2>7, <2>10
  <2>13. totai(y, m, d) = DayOf(y, m, d)
    BY <1>3, <2>11
  <2>14. totai(y, m, d) \in Int
    BY <2>11, <2>12
  <2> QED
    BY <2>13, <2>14
<1>8. CASE leap
  <2> DEFINE A == v \div 4
             B == A \div 25
             C == B \div 4
             a == y4
             b == y100
             c == b \div 4
             T == 1460 + 1461 * a - b + c - 719468
  <2>1. m = 1 /\ d = 29 /\ v + 1 = y /\ inYear = 365
    BY <1>3, <1>8 DEF v
  <2>2. a = (v - 3) \div 4 /\ b = a \div 25 /\ in100 = 1460 + 1461 * (a % 25)
    BY <1>8
  <2>3. /\ a \in Int /\ b \in Int /\ c \in Int /\ A \in Int /\ B \in Int /\ C \in Int
        /\ v = 4 * A + (v % 4) /\ v % 4 \in 0 .. 3
    BY <1>2, <1>5, <2>2
  <2>4. a = IF v % 4 = 3 THEN A ELSE A - 1
    BY <1>2, <2>2
  <2>5. /\ a = 25 * b + (a % 25) /\ b = 4 * c + (b % 4)
        /\ a % 25 \in 0 .. 24 /\ b % 4 \in 0 .. 3
    <3>1. b = a \div 25
      BY <2>2
    <3> HIDE DEF a, b
    <3> QED
      BY <1>5, <2>3, <3>1
  <2>6. March = 365 * (v + 1 - 1970) + A - B + C - 477 - 306
    BY <1>4, <1>6
  <2> HIDE DEF March
  <2>7. T <= March + 365 /\ (v % 4 = 3 => T = March + 365)
    <3>1. CASE v % 4 = 3
      <4>1. a = A /\ b = B /\ c = C
        BY <2>2, <2>4, <3>1
      <4> HIDE DEF a, b, c, A, B, C
      <4> QED
        BY <1>2, <2>3, <2>6, <3>1, <4>1, SMT
    <3>2. CASE v % 4 # 3
      <4>1. a = A - 1
        BY <2>4, <3>2
      <4>2. b = (A - 1) \div 25 /\ c = ((A - 1) \div 25) \div 4
        BY <2>2, <4>1
      <4>3. B - b \in {0, 1}
        <5> HIDE DEF A, b
        <5> QED
          BY <2>3, <4>2
      <4>4. C - c \in {0, 1}
        <5> HIDE DEF A, B, b
        <5> QED
          BY <2>3, <4>3
      <4> HIDE DEF a, b, c, A, B, C
      <4> QED
        BY <1>2, <2>3, <2>6, <3>2, <4>1, <4>3, <4>4, SMT
    <3> QED
      BY <3>1, <3>2
  <2>8. century <=> a % 25 = 24
    <3> HIDE DEF in100, a, b
    <3> QED
      BY <2>2, <2>5
  <2>9. ASSUME a % 25 # 24 PROVE totai(y, m, d) = T
    <3>1. in400 = 1460 + 1461 * (a % 25) + 36524 * (b % 4) /\ y400 = c
      BY <2>2, <2>8, <2>9
    <3> HIDE DEF in400, y400, a, b, c
    <3> QED
      BY <1>1, <2>3, <2>5, <3>1, SMT
  <2>10. ASSUME a % 25 = 24 
         PROVE  /\ totai(y, m, d) \in Int /\ totai(y, m, d) <= T
                /\ b % 4 = 3 => totai(y, m, d) = T
    <3>1. in400 = 146096 /\ y400 = (b - 3) \div 4
      BY <2>8, <2>10
    <3>2. (b - 3) \div 4 = IF b % 4 = 3 THEN c ELSE c - 1
      <4> HIDE DEF b
      <4> QED
        BY <2>3
    <3> HIDE DEF in400, y400, a, b, c
    <3> QED
      BY <1>1, <2>3, <2>5, <2>10, <3>1, <3>2, SMT
  <2>11. Leap(y) = 1 => v % 4 = 3 /\ (a % 25 # 24 \/ b % 4 = 3)
    <3>1. SUFFICES ASSUME y % 4 = 0, y % 100 # 0 \/ y % 400 = 0
                   PROVE  v % 4 = 3 /\ (a % 25 # 24 \/ b % 4 = 3)
      BY DEF Leap, IsLeap
    <3>2. v = y - 1
      BY <1>2, <2>1
    <3>3. v % 4 = 3 /\ a = A
      BY <2>4, <3>1, <3>2
    <3>4. y = 4 * (a + 1)
      <4> HIDE DEF a, A
      <4> QED
        BY <2>3, <3>2, <3>3
    <3>5. a % 25 = 24 /\ b % 4 # 3 => y % 100 = 0 /\ y % 400 # 0
      <4> HIDE DEF a, b, c, A
      <4> QED
        BY <2>3, <2>5, <3>4
    <3> QED
      BY <3>1, <3>3, <3>5
  <2>12. T \in Int /\ March \in Int /\ Leap(y) \in {0, 1}
    <3> HIDE DEF a, b, c, A, B, C
    <3> QED
      BY <1>2, <2>3, <2>6, SMT DEF Leap
  <2> HIDE DEF T, a, b
  <2>13. totai(y, m, d) \in Int /\ totai(y, m, d) <= T
    BY <2>9, <2>10, <2>12
  <2>14. DayOf(y, m, d) = March + 365
    BY <1>3, <2>1
  <2>15. Leap(y) = 1 => totai(y, m, d) = DayOf(y, m, d)
    BY <2>7, <2>9, <2>10, <2>11, <2>14
  <2> QED
    BY <2>1, <2>7, <2>12, <2>13, <2>14, <2>15
<1> QED
  BY <1>7, <1>8

-----------------------------------------------------------------------------
(* The guess *)

\* A set of numbers has a least one.
LEMMA MinIs ==
    ASSUME NEW S \in SUBSET Nat, S # {}
    PROVE  Min(S) \in S /\ \A x \in S : Min(S) <= x
<1> DEFINE R == {p \in Nat \X Nat : p[1] < p[2]}
<1>1. OpToRel(<, Nat) = R
  BY Zenon DEF OpToRel
<1>2. \A x \in Nat, y \in Nat : y < x => <<y, x>> \in R
  OBVIOUS
<1> HIDE DEF R
<1>3. \E x \in S : \A y \in S : ~(<<y, x>> \in R)
  <2>1. IsWellFoundedOn(R, Nat)
    BY <1>1, NatLessThanWellFounded, Zenon
  <2> QED
    BY <2>1, WFMin, Zenon
<1>4. PICK x \in S : \A y \in S : x <= y
  <2>1. PICK x \in S : \A y \in S : ~(<<y, x>> \in R)
    BY <1>3
  <2>2. ASSUME NEW y \in S PROVE x <= y
    <3>1. x \in Nat /\ y \in Nat
      OBVIOUS
    <3>2. ~(y < x)
      BY <1>2, <2>1, <3>1, Zenon
    <3> QED
      BY <3>1, <3>2
  <2> QED
    BY <2>2
<1> QED
  BY <1>4 DEF Min

\* The day of a line is a number, whatever the year.
LEMMA LineDays ==
    ASSUME NEW f \in Nat
    PROVE  /\ LineOf(f) \in (0 .. 11) \X (0 .. 31)
           /\ \A y \in Int : totai(y, LineOf(f)[1], LineOf(f)[2]) \in Int
<1>1. PICK m \in 0 .. 11, d \in 1 .. 31 :
           LineOf(f) = <<m, d>> /\ (m = 1 => d <= 28 + Leap(YearOf(f)))
  BY LineIs
<1>2. m = 1 => d <= 29
  BY <1>1 DEF Leap
<1>3. \A y \in Int : totai(y, m, d) \in Int
  BY <1>2, TotaiIs
<1> QED
  BY <1>1, <1>3

\* The years ftpparse tries that fit.
Fits(n, from, limit, l) ==
    LET near == IF from > n \div 366 + 1968 THEN from ELSE n \div 366 + 1968
    IN  {y \in near .. n \div 365 + 1971 : y < limit /\ Recent(n, totai(y, l[1], l[2]))}

\* They are numbers, and so is the least of them.
LEMMA FitsTyped ==
    ASSUME NEW n \in Nat, NEW from \in Int, NEW limit \in Int, NEW l
    PROVE  /\ Fits(n, from, limit, l) \in SUBSET Nat
           /\ Fits(n, from, limit, l) # {} => Min(Fits(n, from, limit, l)) \in Nat
<1>1. n \div 366 \in Nat /\ n \div 365 \in Nat
  OBVIOUS
<1>2. Fits(n, from, limit, l) \in SUBSET Nat
  BY <1>1 DEF Fits
<1> QED
  BY <1>2, MinIs

\* If the clock and the file are less than a year apart, and the guess starts
\* and ends where it should, the first year that fits is that of the file.
LEMMA GuessIs ==
    ASSUME NEW n \in Nat, NEW f \in Nat, n - f < 350, f - n <= 15,
           NEW from \in Int, from <= YearOf(f), NEW limit \in Int, YearOf(f) < limit
    PROVE  LET fits == Fits(n, from, limit, LineOf(f))
           IN  /\ fits # {}
               /\ totai(Min(fits), LineOf(f)[1], LineOf(f)[2]) = f
<1> DEFINE Y == YearOf(f)
           fits == Fits(n, from, limit, LineOf(f))
<1>1. PICK m \in 0 .. 11, d \in 1 .. 31 :
           /\ LineOf(f) = <<m, d>> /\ DayOf(Y, m, d) = f
           /\ m = 1 => d <= 28 + Leap(Y)
  BY LineIs
<1>2. /\ Y \in Nat /\ Y >= 1970 /\ Y <= 1970 + f \div 365
      /\ f < DayOf(Y + 1, 0, 1)
  BY YearOfIs
<1> HIDE DEF Y
<1>3. m = 1 => d <= 29
  BY <1>1 DEF Leap
<1>4. totai(Y, m, d) = f
  <2>1. Y \in Int
    BY <1>2
  <2>2. (m = 1 => d <= 28 + Leap(Y)) => totai(Y, m, d) = DayOf(Y, m, d)
    BY <1>3, <2>1, TotaiIs
  <2> QED
    BY <1>1, <2>2
<1>5. f < 366 * (Y - 1969)
  <2>1. DayOf(1970, 0, 1) = 0
    <3>1. DaysBefore[1] = 0 /\ LeapsBefore(1970) = 477
      BY DEF DaysBefore, LeapsBefore
    <3> QED
      BY <3>1 DEF DayOf
  <2>2. PICK z \in Int : z = Y + 1
    BY <1>2
  <2>3. DayOf(z, 0, 1) - DayOf(1970, 0, 1) <= 366 * (z - 1970) /\ DayOf(z, 0, 1) \in Int
    BY <1>2, <2>2, YearsApart, YearIs
  <2> QED
    BY <1>2, <2>1, <2>2, <2>3
<1>6. n \div 366 + 1968 <= Y
  BY <1>2, <1>5
<1>7. Y <= n \div 365 + 1971
  BY <1>2
<1>8. Y \in fits
  BY <1>1, <1>2, <1>4, <1>6, <1>7 DEF Fits, Recent, Y
<1>9. ASSUME NEW y \in Int, y < Y
      PROVE  ~Recent(n, totai(y, m, d))
  <2>1. DayOf(Y, m, d) - DayOf(y, m, d) >= 365 * (Y - y)
    <3>1. y <= Y /\ Y \in Int /\ d \in Int
      BY <1>2, <1>9
    <3> QED
      BY <3>1, DatesApart, ZenonT(60)
  <2>2. totai(y, m, d) \in Int /\ totai(y, m, d) <= DayOf(y, m, d)
    BY <1>3, TotaiIs
  <2>3. DayOf(y, m, d) \in Int
    <3>1. d \in Int
      OBVIOUS
    <3> QED
      BY <3>1, DateIs
  <2>4. n - totai(y, m, d) >= 350
    BY <1>1, <1>2, <1>9, <2>1, <2>2, <2>3
  <2> QED
    BY <2>2, <2>4 DEF Recent
<1>10. fits \in SUBSET Nat /\ \A y \in fits : Recent(n, totai(y, m, d))
  <2>1. fits \in SUBSET Nat
    BY FitsTyped
  <2>2. \A y \in fits : Recent(n, totai(y, LineOf(f)[1], LineOf(f)[2]))
    BY DEF Fits
  <2> HIDE DEF fits
  <2> QED
    BY <1>1, <2>1, <2>2
<1> HIDE DEF fits
<1>11. \A y \in fits : Y <= y
  BY <1>2, <1>9, <1>10
<1>12. Min(fits) = Y
  <2>1. Min(fits) \in fits /\ \A y \in fits : Min(fits) <= y
    BY <1>8, <1>10, MinIs
  <2>2. Min(fits) \in Nat /\ Min(fits) <= Y /\ Y <= Min(fits)
    BY <1>8, <1>10, <1>11, <2>1
  <2> QED
    BY <1>2, <2>2
<1> QED
  BY <1>1, <1>4, <1>8, <1>12 DEF fits

-----------------------------------------------------------------------------
(* The invariant *)

\* The years the program has run in only become more.
LEMMA OursGrow ==
    ASSUME start \in Nat, today \in Nat, today' \in Nat, today <= today', start' = start,
           start <= today
    PROVE  Ours \subseteq Ours'
<1>1. YearOf(start) \in Nat /\ YearOf(today) \in Nat /\ YearOf(today') \in Nat
  BY YearOfIs
<1>2. YearOf(today) <= YearOf(today')
  <2> DEFINE t == today
             u == today'
  <2>1. t \in Nat /\ u \in Nat /\ t <= u
    OBVIOUS
  <2>2. \A i \in Nat, j \in Nat : i <= j => YearOf(i) <= YearOf(j)
    BY YearsGrow
  <2> QED
    BY <2>1, <2>2
<1> QED
  BY <1>1, <1>2 DEF Ours

\* The year of a time between the start and today is one of ours.
LEMMA OneOfOurs ==
    ASSUME start \in Nat, today \in Nat, NEW n \in Nat, start <= n, n <= today
    PROVE  YearAt(n) \in Ours /\ YearAt(n) >= 1970
<1>1. /\ YearOf(n) = YearAt(n) /\ YearOf(n) \in Nat /\ YearOf(n) >= 1970
      /\ YearOf(start) \in Nat /\ YearOf(today) \in Nat
  BY YearOfIs
<1>2. YearOf(start) <= YearOf(n) /\ YearOf(n) <= YearOf(today)
  BY YearsGrow
<1> QED
  BY <1>1, <1>2 DEF Ours

LEMMA OursAre ==
    ASSUME start \in Nat, today \in Nat, NEW y \in Ours
    PROVE  y \in Nat /\ y >= 1970
<1>1. YearOf(start) \in Nat /\ YearOf(start) >= 1970 /\ YearOf(today) \in Nat
  BY YearOfIs
<1> QED
  BY <1>1 DEF Ours

LEMMA InitOK == Init => IInv
<1> SUFFICES ASSUME Init PROVE IInv
  OBVIOUS
<1>1. Types
  <2>1. \A c \in Calls : line[c] \in (0 .. 11) \X (0 .. 31)
    BY DEF Init
  <2>2. line \in [Calls -> (0 .. 11) \X (0 .. 31)]
    BY <2>1 DEF Init
  <2> QED
    BY <2>2, DaysAssumption DEF Init, Types, Places, NotListed
<1>2. ClockInv
  BY DaysAssumption DEF Init, ClockInv
<1>3. MetInv /\ NowInv /\ YearInv /\ DayInv
  BY DEF Init, MetInv, NowInv, YearInv, DayInv
<1> QED
  BY <1>1, <1>2, <1>3 DEF IInv

\* What follows from the invariant about the clock.
LEMMA Clocks ==
    ASSUME Types, ClockInv
    PROVE  /\ start \in Nat /\ start <= today
           /\ \A day \in Int : JustNow(day) => start <= day /\ day <= today /\ day \in Nat
  BY DaysAssumption DEF Types, ClockInv, JustNow

\* The clock goes on while a file is listed, or when none is.
LEMMA ClockKeeps == IInv /\ (Midnight \/ Pause) => IInv'
<1> SUFFICES ASSUME IInv, Midnight \/ Pause PROVE IInv'
  OBVIOUS
<1>0. Types /\ ClockInv /\ MetInv /\ NowInv /\ YearInv /\ DayInv
  BY DEF IInv
<1>1. UNCHANGED <<start, statics, locals, listings>>
  BY DEF Midnight, Pause
<1>2. /\ today' \in Nat /\ today <= today' /\ ClockInv'
      /\ midnights' \in 0 .. MaxMidnights
  BY <1>0, <1>1, DaysAssumption DEF Midnight, Pause, Types, ClockInv
<1>3. Types'
  BY <1>0, <1>1, <1>2 DEF Types, statics, locals
<1>4. ASSUME NEW c \in Calls, pc[c] # "idle", NEW day \in Int, JustNow(day)
      PROVE  JustNow(day)'
  BY <1>0, <1>4 DEF Midnight, Pause, JustNow, Types
<1>5. MetInv'
  <2> SUFFICES ASSUME NEW c \in Calls, pc[c] # "idle"
               PROVE  line[c] = LineOf(file[c]) /\ \E a \in Ages : JustNow(file[c] + a)'
    BY <1>1 DEF MetInv, locals
  <2>1. PICK a \in Ages : JustNow(file[c] + a)
    BY <1>0 DEF MetInv
  <2>2. file[c] + a \in Int
    BY <1>0, DaysAssumption DEF Types
  <2>3. JustNow(file[c] + a)'
    BY <1>1, <1>2, <1>4, <2>1, <2>2 DEF locals, JustNow
  <2> QED
    BY <1>0, <2>3 DEF MetInv
<1>6. NowInv'
  <2>1. \A c \in Calls : time[c] \in Int
    BY <1>0 DEF Types
  <2>2. now \in Int
    BY <1>0 DEF Types
  <2>3. ASSUME NEW c \in Calls, pc[c] = "now" PROVE JustNow(time[c])'
    <3>1. JustNow(time[c])
      BY <1>0, <2>3 DEF NowInv
    <3>2. time'[c] = time[c]
      BY <1>1 DEF locals
    <3>3. PICK t \in Int : t = time[c]
      BY <2>1
    <3> QED
      BY <1>4, <2>3, <3>1, <3>2, <3>3 DEF JustNow
  <2>4. ASSUME NEW c \in Calls, pc[c] \in {"flag", "both", "year", "clear", "loop", "guess"}
        PROVE  JustNow(now)'
    BY <1>0, <1>1, <1>4, <2>2, <2>4 DEF NowInv, JustNow, statics
  <2> QED
    BY <1>1, <2>3, <2>4 DEF NowInv, locals
<1>7. YearInv'
  <2>1. Ours \subseteq Ours'
    BY <1>0, <1>1, <1>2, Clocks, OursGrow DEF Types
  <2> QED
    BY <1>0, <1>1, <2>1 DEF YearInv, statics, locals
<1>8. DayInv'
  BY <1>0, <1>1 DEF DayInv, locals
<1> QED
  BY <1>2, <1>3, <1>5, <1>6, <1>7, <1>8 DEF IInv

\* A line is met: the file and the day it was met go together.
LEMMA MeetKeeps == ASSUME IInv, NEW c \in Calls, Meet(c) PROVE IInv'
<1>0. Types /\ ClockInv /\ MetInv /\ NowInv /\ YearInv /\ DayInv
  BY DEF IInv
<1>1. PICK a \in Ages : /\ file' = [file EXCEPT ![c] = today - a]
                        /\ line' = [line EXCEPT ![c] = LineOf(today - a)]
  BY DEF Meet
<1>2. /\ UNCHANGED <<start, clock, statics, time, first>>
      /\ pc' = [pc EXCEPT ![c] = "clock"] /\ half' = [half EXCEPT ![c] = FALSE]
      /\ listed' = [listed EXCEPT ![c] = NotListed]
      /\ listings' \in 0 .. MaxListings
  BY <1>0, DaysAssumption DEF Meet, Goto, Types
<1>3. /\ today - a \in Nat /\ LineOf(today - a) \in (0 .. 11) \X (0 .. 31)
      /\ JustNow((today - a) + a)
  <2>1. today - a \in Nat
    BY <1>0, DaysAssumption DEF Types, ClockInv
  <2>2. JustNow((today - a) + a)
    BY <1>0, DaysAssumption DEF Types, JustNow
  <2> QED
    BY <2>1, <2>2, LineDays
<1>4. Types'
  BY <1>0, <1>1, <1>2, <1>3 DEF Types, Places, NotListed, clock, statics
<1>5. ClockInv' /\ (\A day : JustNow(day)' <=> JustNow(day)) /\ Ours' = Ours
  BY <1>0, <1>2 DEF ClockInv, clock, JustNow, Ours
<1>6. MetInv'
  <2> SUFFICES ASSUME NEW e \in Calls, pc'[e] # "idle"
               PROVE  line'[e] = LineOf(file'[e]) /\ \E b \in Ages : JustNow(file[e] + b)'
    BY DEF MetInv
  <2>1. CASE e = c
    <3>1. file'[e] = today - a /\ line'[e] = LineOf(today - a)
      BY <1>0, <1>1, <2>1 DEF Types
    <3>2. JustNow(file[e] + a)'
      BY <1>2, <1>3, <3>1 DEF JustNow, clock
    <3> QED
      BY <3>1, <3>2
  <2>2. CASE e # c
    <3>1. file'[e] = file[e] /\ line'[e] = line[e] /\ pc'[e] = pc[e]
      BY <1>0, <1>1, <1>2, <2>2 DEF Types
    <3>2. PICK b \in Ages : line[e] = LineOf(file[e]) /\ JustNow(file[e] + b)
      BY <1>0, <3>1 DEF MetInv
    <3>3. JustNow(file[e] + b)'
      BY <1>2, <3>1, <3>2 DEF JustNow, clock
    <3> QED
      BY <3>1, <3>2, <3>3
  <2> QED
    BY <2>1, <2>2
<1>7. NowInv'
  BY <1>0, <1>2, <1>5 DEF Types, NowInv, statics
<1>8. YearInv'
  BY <1>0, <1>2, <1>5 DEF Types, YearInv, statics
<1>9. DayInv'
  BY <1>0, <1>1, <1>2 DEF Types, DayInv
<1> QED
  BY <1>4, <1>5, <1>6, <1>7, <1>8, <1>9 DEF IInv

\* In the steps of a listing the clock, the files and their days stay.
LEMMA Stays ==
    ASSUME Types, ClockInv, MetInv, NEW c \in Calls, pc[c] # "idle",
           UNCHANGED <<start, clock, file, line, listings>>,
           NEW p \in Places, pc' = [pc EXCEPT ![c] = p]
    PROVE  /\ ClockInv' /\ MetInv' /\ Ours' = Ours
           /\ pc'[c] = p /\ \A e \in Calls \ {c} : pc'[e] = pc[e]
<1>1. pc'[c] = p /\ \A e \in Calls \ {c} : pc'[e] = pc[e]
  BY DEF Types
<1>2. ClockInv' /\ Ours' = Ours
  BY DEF ClockInv, Ours, clock
<1>3. MetInv'
  <2> SUFFICES ASSUME NEW e \in Calls, pc'[e] # "idle"
               PROVE  line[e] = LineOf(file[e]) /\ \E b \in Ages : JustNow(file[e] + b)'
    BY DEF MetInv
  <2>1. pc[e] # "idle"
    BY <1>1
  <2>2. PICK b \in Ages : line[e] = LineOf(file[e]) /\ JustNow(file[e] + b)
    BY <2>1 DEF MetInv
  <2>3. JustNow(file[e] + b)'
    BY <2>2 DEF JustNow, clock
  <2> QED
    BY <2>2, <2>3
<1> QED
  BY <1>1, <1>2, <1>3

\* The clock is read, and stored for all.
LEMMA NowKeeps == ASSUME IInv, NEW c \in Calls, ReadClock(c) \/ StoreNow(c) PROVE IInv'
<1>0. Types /\ ClockInv /\ MetInv /\ NowInv /\ YearInv /\ DayInv
  BY DEF IInv
<1>1. PICK p \in {"now", "flag"} :
           /\ pc' = [pc EXCEPT ![c] = p] /\ pc[c] \in {"clock", "now"}
           /\ UNCHANGED <<start, clock, file, line, first, half, listed, listings>>
           /\ UNCHANGED <<flagneedcurrentyear, currentyear>>
  BY DEF ReadClock, StoreNow, Goto, statics
<1>2. p \in Places /\ pc[c] # "idle"
  BY <1>1 DEF Places
<1>3. /\ ClockInv' /\ MetInv' /\ Ours' = Ours
      /\ pc'[c] = p /\ \A e \in Calls \ {c} : pc'[e] = pc[e]
  BY <1>0, <1>1, <1>2, Stays
<1>4. time[c] \in Nat /\ today \in Nat
  BY <1>0 DEF Types
<1>5. Types'
  BY <1>0, <1>1, <1>2, <1>4 DEF Types, ReadClock, StoreNow, clock, statics
<1>6. NowInv'
  <2> SUFFICES ASSUME NEW e \in Calls
               PROVE  /\ pc'[e] = "now" => JustNow(time[e])'
                      /\ pc'[e] \in {"flag", "both", "year", "clear", "loop", "guess"}
                             => JustNow(now)'
    BY DEF NowInv
  <2>1. CASE ReadClock(c)
    <3>1. time' = [time EXCEPT ![c] = today] /\ now' = now /\ p = "now"
      BY <1>0, <1>3, <2>1 DEF ReadClock, Goto, statics, Types
    <3>2. time'[c] = today /\ \A d \in Calls \ {c} : time'[d] = time[d]
      BY <1>0, <3>1 DEF Types
    <3>3. today \in today - midnights .. today
      BY <1>0, DaysAssumption DEF Types
    <3> QED
      BY <1>0, <1>1, <1>3, <3>1, <3>2, <3>3 DEF NowInv, JustNow, clock
  <2>2. CASE StoreNow(c)
    <3>1. time' = time /\ now' = time[c] /\ p = "flag" /\ pc[c] = "now"
      BY <1>0, <1>3, <2>2 DEF StoreNow, Goto, Types
    <3> QED
      BY <1>0, <1>1, <1>3, <3>1 DEF NowInv, JustNow, clock
  <2> QED
    BY <2>1, <2>2
<1>7. YearInv'
  BY <1>0, <1>1, <1>3 DEF YearInv
<1>8. DayInv'
  BY <1>0, <1>1, <1>3 DEF DayInv
<1> QED
  BY <1>3, <1>5, <1>6, <1>7, <1>8 DEF IInv

\* The flag is tested, and the year worked out or left to another call.
LEMMA FlagKeeps == ASSUME IInv, NEW c \in Calls, TestFlag(c) PROVE IInv'
<1>0. Types /\ ClockInv /\ MetInv /\ NowInv /\ YearInv /\ DayInv
  BY DEF IInv
<1>1. PICK p \in {"both", "loop"} :
           /\ pc' = [pc EXCEPT ![c] = p] /\ pc[c] = "flag"
           /\ UNCHANGED <<start, clock, statics, file, line, time, listed, listings>>
           /\ IF p = "both"
              THEN first' = [first EXCEPT ![c] = YearAt(now)] /\ half' = half
              ELSE first' = first /\ half' = [half EXCEPT ![c] = currentyear = 0]
  BY DEF TestFlag, Goto
<1>2. p \in Places /\ pc[c] # "idle"
  BY <1>1 DEF Places
<1>3. /\ ClockInv' /\ MetInv' /\ Ours' = Ours
      /\ pc'[c] = p /\ \A e \in Calls \ {c} : pc'[e] = pc[e]
  BY <1>0, <1>1, <1>2, Stays
<1>4. YearAt(now) \in Ours /\ YearAt(now) \in Int
  <2>1. JustNow(now)
    BY <1>0, <1>1 DEF NowInv
  <2>2. now \in Nat /\ start \in Nat /\ today \in Nat /\ start <= now /\ now <= today
    BY <1>0, <2>1, Clocks DEF Types
  <2> QED
    BY <2>2, OneOfOurs, YearAtIs
<1>5. Types'
  BY <1>0, <1>1, <1>2, <1>4 DEF Types, clock, statics
<1>6. NowInv'
  BY <1>0, <1>1, <1>3 DEF NowInv, JustNow, clock, statics
<1>7. YearInv'
  <2>1. ASSUME NEW e \in Calls
        PROVE  /\ pc'[e] \in {"both", "year"} => first'[e] \in Ours
               /\ pc'[e] \in {"clear", "loop", "guess"} /\ ~half'[e] => currentyear # 0
               /\ pc'[e] = "guess" /\ ~half'[e] => first'[e] + 1 \in Ours
    <3>1. CASE e # c
      <4>1. pc'[e] = pc[e] /\ first'[e] = first[e] /\ half'[e] = half[e]
        BY <1>0, <1>1, <1>3, <3>1 DEF Types
      <4> QED
        BY <1>0, <4>1 DEF YearInv
    <3>2. CASE e = c /\ p = "both"
      BY <1>0, <1>1, <1>3, <1>4, <3>2 DEF Types
    <3>3. CASE e = c /\ p = "loop"
      BY <1>0, <1>1, <1>3, <3>3 DEF Types
    <3> QED
      BY <1>1, <3>1, <3>2, <3>3
  <2> QED
    BY <1>0, <1>1, <1>3, <2>1 DEF YearInv, statics
<1>8. DayInv'
  <2>1. listed[c] = NotListed
    BY <1>0, <1>1 DEF DayInv
  <2> QED
    BY <1>0, <1>1, <1>3, <2>1 DEF DayInv, Types
<1> QED
  BY <1>3, <1>5, <1>6, <1>7, <1>8 DEF IInv

\* The year and the flag are stored, in either order; the guess begins.
LEMMA YearKeeps ==
    ASSUME IInv, NEW c \in Calls, StoreYear(c) \/ ClearFlag(c) \/ StartLoop(c)
    PROVE  IInv'
<1>0. Types /\ ClockInv /\ MetInv /\ NowInv /\ YearInv /\ DayInv
  BY DEF IInv
<1>1. PICK p \in {"clear", "year", "loop", "guess"} :
           /\ pc' = [pc EXCEPT ![c] = p] /\ pc[c] \in {"both", "year", "clear", "loop"}
           /\ UNCHANGED <<start, clock, now, file, line, time, half, listed, listings>>
           /\ \/ /\ p \in {"clear", "loop"} /\ pc[c] \in {"both", "year"}
                 /\ currentyear' = first[c] /\ first' = first
                 /\ flagneedcurrentyear' = flagneedcurrentyear
              \/ /\ (pc[c] = "both" /\ p = "year") \/ (pc[c] = "clear" /\ p = "loop")
                 /\ currentyear' = currentyear /\ first' = first
                 /\ flagneedcurrentyear' = 0
              \/ /\ pc[c] = "loop" /\ p = "guess"
                 /\ currentyear' = currentyear /\ first' = [first EXCEPT ![c] = currentyear - 1]
                 /\ flagneedcurrentyear' = flagneedcurrentyear
  <2>1. CASE StoreYear(c)
    BY <2>1 DEF StoreYear, Goto
  <2>2. CASE ClearFlag(c)
    BY <2>2 DEF ClearFlag, Goto, AfterClear, FlagAfter
  <2>3. CASE StartLoop(c)
    BY <2>3 DEF StartLoop, Goto, FirstGuess, statics
  <2> QED
    BY <2>1, <2>2, <2>3
<1>2. p \in Places /\ pc[c] # "idle"
  BY <1>1 DEF Places
<1>3. /\ ClockInv' /\ MetInv' /\ Ours' = Ours
      /\ pc'[c] = p /\ \A e \in Calls \ {c} : pc'[e] = pc[e]
  BY <1>0, <1>1, <1>2, Stays
<1>4. pc[c] \in {"both", "year"} => first[c] \in Ours /\ first[c] \in Nat /\ first[c] # 0
  <2>1. \A y \in Ours : y \in Nat /\ y >= 1970
    BY <1>0, Clocks, OursAre DEF Types
  <2> QED
    BY <1>0, <2>1 DEF YearInv
<1>5. Types'
  <2>1. currentyear' \in Nat /\ first' \in [Calls -> Int]
    BY <1>0, <1>1, <1>4 DEF Types
  <2>2. flagneedcurrentyear' \in {0, 1}
    BY <1>0, <1>1 DEF Types
  <2> QED
    BY <1>0, <1>1, <1>2, <2>1, <2>2 DEF Types, clock
<1>6. NowInv'
  BY <1>0, <1>1, <1>3 DEF NowInv, JustNow, clock
<1>7. YearInv'
  <2>1. /\ currentyear' # 0 => currentyear' \in Ours
        /\ currentyear # 0 => currentyear' # 0
        /\ pc[c] \in {"both", "year"} /\ p \in {"clear", "loop"} => currentyear' # 0
    BY <1>0, <1>1, <1>4 DEF YearInv
  <2>2. ASSUME NEW e \in Calls, e # c
        PROVE  /\ pc'[e] \in {"both", "year"} => first'[e] \in Ours
               /\ pc'[e] \in {"clear", "loop", "guess"} /\ ~half'[e] => currentyear' # 0
               /\ pc'[e] = "guess" /\ ~half'[e] => first'[e] + 1 \in Ours
    <3>1. pc'[e] = pc[e] /\ first'[e] = first[e] /\ half'[e] = half[e]
      BY <1>0, <1>1, <1>3, <2>2 DEF Types
    <3> QED
      BY <1>0, <2>1, <3>1 DEF YearInv
  <2>3. /\ p = "year" => first'[c] \in Ours
        /\ p \in {"clear", "loop", "guess"} /\ ~half'[c] => currentyear' # 0
        /\ p = "guess" /\ ~half'[c] => first'[c] + 1 \in Ours
    <3>1. CASE pc[c] \in {"both", "year"} /\ first' = first
      BY <1>1, <1>4, <2>1, <3>1
    <3>2. CASE pc[c] = "clear"
      BY <1>0, <1>1, <2>1, <3>2 DEF YearInv
    <3>3. CASE pc[c] = "loop"
      <4>1. ~half[c] => currentyear # 0 /\ currentyear \in Ours
        BY <1>0, <3>3 DEF YearInv
      <4>2. /\ p = "guess" /\ first'[c] = currentyear - 1
            /\ half'[c] = half[c] /\ currentyear' = currentyear
        BY <1>0, <1>1, <3>3 DEF Types
      <4>3. currentyear \in Nat /\ (currentyear - 1) + 1 = currentyear
        BY <1>0 DEF Types
      <4> QED
        BY <4>1, <4>2, <4>3
    <3> QED
      BY <1>1, <3>1, <3>2, <3>3
  <2> QED
    BY <1>3, <2>1, <2>2, <2>3 DEF YearInv
<1>8. DayInv'
  BY <1>0, <1>1, <1>3 DEF DayInv
<1> QED
  BY <1>3, <1>5, <1>6, <1>7, <1>8 DEF IInv

\* What the clock and the years allow the guess to take for granted.
LEMMA GuessMay ==
    ASSUME IInv, NEW c \in Calls, pc[c] = "guess", ~half[c]
    PROVE  /\ now - file[c] < 350 /\ file[c] - now <= 15
           /\ first[c] <= YearOf(file[c])
           /\ YearOf(file[c]) < currentyear + 100
           /\ YearOf(file[c]) < first[c] + 101
<1>0. Types /\ ClockInv /\ MetInv /\ NowInv /\ YearInv
  BY DEF IInv
<1>1. PICK a \in Ages : JustNow(file[c] + a)
  BY <1>0 DEF MetInv
<1>2. JustNow(now) /\ currentyear \in Ours /\ first[c] + 1 \in Ours
  BY <1>0 DEF NowInv, YearInv
<1>3. /\ file[c] \in Nat /\ today \in Nat /\ now \in Nat /\ first[c] \in Int
      /\ midnights \in Nat /\ midnights <= MaxMidnights /\ currentyear \in Nat
      /\ a \in Int /\ MaxMidnights \in Nat /\ MaxDays \in Nat
  BY <1>0, DaysAssumption DEF Types
<1>4. a + MaxMidnights < 350 /\ MaxMidnights - a <= 15
  BY RecentAssumption
<1>5. start \in Nat /\ start <= today /\ today <= start + MaxDays + MaxMidnights
  BY <1>0, <1>3, Clocks DEF ClockInv
<1>6. /\ file[c] + a <= today /\ today <= file[c] + a + MaxMidnights
      /\ now <= today /\ today <= now + MaxMidnights
  BY <1>1, <1>2, <1>3 DEF JustNow
<1>7. now - file[c] < 350 /\ file[c] - now <= 15 /\ today - file[c] < 350
      /\ file[c] - today <= 15
  BY <1>3, <1>4, <1>6
<1> DEFINE f == file[c]
           Y == YearOf(f)
           T == YearOf(today)
           S == YearOf(start)
<1>8. /\ Y \in Nat /\ DayOf(Y, 0, 1) <= f /\ f < DayOf(Y + 1, 0, 1)
      /\ T \in Nat /\ DayOf(T, 0, 1) <= today
      /\ S \in Nat /\ start < DayOf(S + 1, 0, 1)
  BY <1>3, <1>5, YearOfIs
<1>9. currentyear <= T /\ first[c] + 1 <= T /\ S <= currentyear /\ S <= first[c] + 1
  BY <1>2, <1>3, <1>8 DEF Ours
<1> HIDE DEF Y, T, S
\* A file of the last 350 days is of this year or the one before.
<1>10. T - 1 <= Y
  <2> SUFFICES ASSUME Y + 1 <= T - 1 PROVE FALSE
    BY <1>8
  <2>1. PICK z \in Int : z = Y + 1
    BY <1>8
  <2>2. DayOf(T, 0, 1) - DayOf(z, 0, 1) >= 365 * (T - z) /\ DayOf(z, 0, 1) \in Int
        /\ DayOf(T, 0, 1) \in Int
    BY <1>8, <2>1, YearsApart, YearIs
  <2>3. f < DayOf(z, 0, 1)
    BY <1>8, <2>1
  <2> QED
    BY <1>3, <1>7, <1>8, <2>1, <2>2, <2>3
\* The host has not run for more years than the loop tries.
<1>11. Y <= S + 99
  <2> SUFFICES ASSUME S + 100 <= Y PROVE FALSE
    BY <1>8
  <2>1. PICK z \in Int : z = S + 1 /\ z <= Y
    BY <1>8
  <2>2. DayOf(Y, 0, 1) - DayOf(z, 0, 1) >= 365 * (Y - z) /\ DayOf(z, 0, 1) \in Int
        /\ DayOf(Y, 0, 1) \in Int
    <3>1. Y \in Int /\ z \in Int /\ z <= Y
      BY <1>8, <2>1
    <3>2. DayOf(Y, 0, 1) - DayOf(z, 0, 1) >= 365 * (Y - z)
      BY <3>1, YearsApart
    <3>3. DayOf(z, 0, 1) \in Int /\ DayOf(Y, 0, 1) \in Int
      BY <3>1, YearIs
    <3> QED
      BY <3>2, <3>3
  <2>3. start < DayOf(z, 0, 1)
    BY <1>8, <2>1
  <2>4. f <= start + 99 * 365
    BY <1>3, <1>5, <1>7, RestartAssumption
  <2> QED
    BY <1>3, <1>5, <1>8, <2>1, <2>2, <2>3, <2>4
<1>12. first[c] <= Y /\ Y < currentyear + 100 /\ Y < first[c] + 101
  BY <1>3, <1>8, <1>9, <1>10, <1>11
<1> QED
  BY <1>7, <1>12 DEF Y

\* The guess is made, and the call is done.
LEMMA GuessKeeps == ASSUME IInv, NEW c \in Calls, Guess(c) PROVE IInv'
<1>0. Types /\ ClockInv /\ MetInv /\ NowInv /\ YearInv /\ DayInv
  BY DEF IInv
<1>a. PICK limit \in {currentyear + 100, first[c] + 101} :
          LET day(y) == totai(y, line[c][1], line[c][2])
              near == IF first[c] > now \div 366 + 1968 THEN first[c]
                      ELSE now \div 366 + 1968
              fits == {y \in near .. now \div 365 + 1971 : y < limit /\ Recent(now, day(y))}
          IN  listed' = [listed EXCEPT ![c] =
                            IF fits = {} THEN Undefined ELSE day(Min(fits))]
  BY ZenonT(40) DEF Guess
<1>1. LET fits == Fits(now, first[c], limit, line[c])
      IN  listed' = [listed EXCEPT ![c] =
                        IF fits = {} THEN Undefined
                        ELSE totai(Min(fits), line[c][1], line[c][2])]
  BY ONLY <1>a, ZenonT(40) DEF Fits
<1>2. /\ pc[c] = "guess" /\ pc' = [pc EXCEPT ![c] = "idle"]
      /\ first' = [first EXCEPT ![c] = 0] /\ time' = [time EXCEPT ![c] = 0]
      /\ UNCHANGED <<start, clock, statics, file, line, half, listings>>
  BY DEF Guess, Goto
<1>3. /\ ClockInv' /\ MetInv' /\ Ours' = Ours
      /\ pc'[c] = "idle" /\ \A e \in Calls \ {c} : pc'[e] = pc[e]
  BY <1>0, <1>2, Stays DEF Places
<1> DEFINE fits == Fits(now, first[c], limit, line[c])
           day == IF fits = {} THEN Undefined ELSE totai(Min(fits), line[c][1], line[c][2])
<1>4. now \in Nat /\ file[c] \in Nat /\ first[c] \in Int /\ limit \in Int /\ currentyear \in Nat
  BY <1>0, <1>1 DEF Types
<1>5. line[c] = LineOf(file[c])
  BY <1>0, <1>2 DEF MetInv
<1>6. day \in Int
  <2>1. fits # {} => Min(fits) \in Nat
    BY <1>4, FitsTyped
  <2>2. \A y \in Int : totai(y, line[c][1], line[c][2]) \in Int
    BY <1>4, <1>5, LineDays
  <2> HIDE DEF fits
  <2> QED
    BY <2>1, <2>2 DEF Undefined
<1>7. ~half[c] => day = file[c]
  <2> SUFFICES ASSUME ~half[c] PROVE day = file[c]
    OBVIOUS
  <2>1. /\ now - file[c] < 350 /\ file[c] - now <= 15 /\ first[c] <= YearOf(file[c])
        /\ YearOf(file[c]) < limit
    BY <1>1, <1>2, GuessMay
  <2>2. fits # {} /\ totai(Min(fits), line[c][1], line[c][2]) = file[c]
    BY <1>4, <1>5, <2>1, GuessIs
  <2> QED
    BY <2>2
<1>8. listed' = [listed EXCEPT ![c] = day]
  BY <1>1
<1> HIDE DEF day, fits
<1>9. Types'
  BY <1>0, <1>2, <1>6, <1>8 DEF Types, Places, clock, statics
<1>10. NowInv'
  BY <1>0, <1>2, <1>3 DEF NowInv, JustNow, clock, statics, Types
<1>11. YearInv'
  BY <1>0, <1>2, <1>3 DEF YearInv, statics, Types
<1>12. DayInv'
  BY <1>0, <1>2, <1>3, <1>7, <1>8 DEF DayInv, Types
<1> QED
  BY <1>3, <1>9, <1>10, <1>11, <1>12 DEF IInv

LEMMA StepOK == IInv /\ [Next]_vars => IInv'
<1> SUFFICES ASSUME IInv, [Next]_vars PROVE IInv'
  OBVIOUS
<1>1. CASE Midnight \/ Pause
  BY <1>1, ClockKeeps
<1>2. ASSUME NEW c \in Calls, Step(c) PROVE IInv'
  <2>1. CASE Meet(c)
    BY <2>1, MeetKeeps
  <2>2. CASE ReadClock(c) \/ StoreNow(c)
    BY <2>2, NowKeeps
  <2>3. CASE TestFlag(c)
    BY <2>3, FlagKeeps
  <2>4. CASE StoreYear(c) \/ ClearFlag(c) \/ StartLoop(c)
    BY <2>4, YearKeeps
  <2>5. CASE Guess(c)
    BY <2>5, GuessKeeps
  <2> QED
    BY <1>2, <2>1, <2>2, <2>3, <2>4, <2>5 DEF Step
<1>3. CASE UNCHANGED vars
  BY <1>3 DEF vars, clock, statics, locals, IInv, Types, ClockInv, MetInv, NowInv, YearInv, DayInv,
              JustNow, Ours
<1> QED
  BY <1>1, <1>2, <1>3 DEF Next

-----------------------------------------------------------------------------
(* The theorems *)

\* In every reachable state the types, the clock, the years and the days of
\* the listings are as above (guesstai, initnow).
THEOREM Invariance == Spec => []IInv
<1>1. Init => IInv
  BY InitOK
<1>2. IInv /\ [Next]_vars => IInv'
  BY StepOK
<1> QED
  BY <1>1, <1>2, PTL DEF Spec

\* The statics and the locals of every call have their types and bounds.
THEOREM Typed == Spec => []TypeOK
<1>1. IInv => TypeOK
  BY DEF IInv, Types, TypeOK, Places
<1> QED
  BY <1>1, Invariance, PTL

\* The year that is kept is one the program has run in, however many calls
\* raced to store it and in whichever order the two stores are made (initnow).
THEOREM OwnYear == Spec => []YearIsOneOfOurs
<1>1. IInv => YearIsOneOfOurs
  BY DEF IInv, YearInv, YearIsOneOfOurs, Ours
<1> QED
  BY <1>1, Invariance, PTL

\* A listing finds the day of every file that is less than 350 days old and at
\* most 15 days ahead (RecentAssumption), until the host has run for 99 years
\* (RestartAssumption), although the year is never refreshed and `now` may be
\* another call's; a call that met the flag without the year may not (guesstai).
THEOREM RightDay == Spec => []DayIsRight
<1>1. IInv => DayIsRight
  BY DEF IInv, DayInv, DayIsRight
<1> QED
  BY <1>1, Invariance, PTL
=============================================================================
