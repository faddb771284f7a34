---------------------------- MODULE DirListingProofs ----------------------------
(***************************************************************************)
(* What the loop over a directory listing and the parsers it calls return, *)
(* for bodies of every length.                                             *)
(*                                                                         *)
(* The parsers are loops, written in DirListing as recursive functions; an *)
(* induction over the place in the line shows for each what it has read    *)
(* (EplfInv, MlsdInv, UnixInv).  Induction is LeastIs: the least place at  *)
(* which a claim fails is the one after a place at which it holds.  The    *)
(* outcome is EplfIs, ListLine and MlsdIs: the entry of a line says what   *)
(* the definitions EplfAgrees and MlsdAgrees, which know no loop, find in  *)
(* the line.                                                               *)
(*                                                                         *)
(* LineIs is the same for safeGetline: from the start of a line it reads   *)
(* that line, and goes on at the start of the next one or at the end.  So  *)
(* the loop visits every line once; IInv, the inductive invariant, says    *)
(* that the collection holds, in order, the elements of the lines before   *)
(* the place of the stream.                                                *)
(*                                                                         *)
(* The documented formats have a layout each, which says what is at which  *)
(* place (UnixLayout, VmsLayout, MsDosLayout).  The line a server writes   *)
(* has it, and so has every beginning of that line; from the layout alone  *)
(* it follows where the loops stop, and what they return (UnixIs, VmsIs,   *)
(* MsDosIs).  LineSaid is both together, for names of any length, and      *)
(* BodyOfTwo and SecondLine show that the line is read as one.             *)
(***************************************************************************)
EXTENDS DirListing, FiniteSetTheorems, WellFoundedInduction, TLAPS

\* A set of numbers that is not empty has a least one.
LEMMA LeastIs ==
    ASSUME NEW T \in SUBSET Nat, T # {}
    PROVE  \E x \in T : \A y \in T : x <= y
<1> DEFINE R == {p \in Nat \X Nat : p[1] < p[2]}
<1>1. OpToRel(<, Nat) = R
  BY Zenon DEF OpToRel
<1>2. \A x \in Nat, y \in Nat : y < x => <<y, x>> \in R
  OBVIOUS
<1> HIDE DEF R
<1>3. \E x \in T : \A y \in T : ~(<<y, x>> \in R)
  <2>1. IsWellFoundedOn(R, Nat)
    BY <1>1, NatLessThanWellFounded, Zenon
  <2> QED
    BY <2>1, WFMin, Zenon
<1>4. PICK x \in T : \A y \in T : ~(<<y, x>> \in R)
  BY <1>3
<1>5. ASSUME NEW y \in T PROVE x <= y
  <2>1. x \in Nat /\ y \in Nat
    OBVIOUS
  <2>2. ~(y < x)
    BY <1>2, <1>4, <2>1, Zenon
  <2> QED
    BY <2>1, <2>2
<1> QED
  BY <1>5

\* Induction: what holds at 0 and goes from each number to the next holds for all.
LEMMA Induction ==
    ASSUME NEW n \in Nat, NEW S, 0 \in S,
           \A j \in 1 .. n : j - 1 \in S => j \in S
    PROVE  \A j \in 0 .. n : j \in S
<1> DEFINE T == {j \in 0 .. n : j \notin S}
<1> SUFFICES ASSUME T # {} PROVE FALSE
  OBVIOUS
<1>1. PICK x \in T : \A y \in T : x <= y
  <2>1. T \in SUBSET Nat
    OBVIOUS
  <2> HIDE DEF T
  <2> QED
    BY <2>1, LeastIs
<1>2. x \in 1 .. n /\ x \notin S
  BY <1>1
<1>3. x - 1 \in S
  BY <1>1, <1>2
<1> QED
  BY <1>2, <1>3

\* The recursive definition of the EPLF loop has a solution: the loop makes the
\* rounds of ftpparse.c:177-206, one after the other, from the state before the first.
LEMMA EplfLoopIs ==
    ASSUME NEW line, Len(line) \in Nat
    PROVE  /\ EplfLoop(line)[0] = [i |-> 2, e |-> Nothing, found |-> FALSE]
           /\ \A j \in 1 .. Len(line) :
                 EplfLoop(line)[j] = EplfStep(line, EplfLoop(line)[j - 1], j)
<1> DEFINE n == Len(line)
           At(f, j) == IF j = 0 THEN [i |-> 2, e |-> Nothing, found |-> FALSE]
                       ELSE EplfStep(line, f[j - 1], j)
           M == {m \in 0 .. n : \E f : f = [j \in 0 .. m |-> At(f, j)]}
<1>1. EplfLoop(line) = CHOOSE f : f = [j \in 0 .. n |-> At(f, j)]
  BY Zenon DEF EplfLoop
<1>2. 0 \in M
  <2> DEFINE g == [j \in 0 .. 0 |-> [i |-> 2, e |-> Nothing, found |-> FALSE]]
  <2>1. g = [j \in 0 .. 0 |-> At(g, j)]
    <3>1. \A j \in 0 .. 0 : j = 0
      OBVIOUS
    <3> QED
      BY <3>1, Zenon
  <2>2. \E f : f = [j \in 0 .. 0 |-> At(f, j)]
    BY <2>1, Zenon
  <2>3. 0 \in 0 .. n
    OBVIOUS
  <2> QED
    BY <2>2, <2>3, Zenon
<1>3. ASSUME NEW m \in 1 .. n, m - 1 \in M PROVE m \in M
  <2>1. PICK f : f = [j \in 0 .. m - 1 |-> At(f, j)]
    BY <1>3
  <2> DEFINE g == [j \in 0 .. m |-> IF j = m THEN EplfStep(line, f[m - 1], m) ELSE f[j]]
  <2>2. \A j \in 0 .. m - 1 : g[j] = f[j]
    OBVIOUS
  <2>3. ASSUME NEW j \in 0 .. m PROVE g[j] = At(g, j)
    <3>1. CASE j = m
      <4>1. j # 0 /\ g[m - 1] = f[m - 1]
        BY <2>2, <3>1
      <4>2. g[j] = EplfStep(line, f[m - 1], m)
        BY <3>1
      <4> QED
        BY <4>1, <4>2, <3>1
    <3>2. CASE j # m
      <4>1. j \in 0 .. m - 1
        BY <3>2
      <4>2. g[j] = f[j]
        BY <4>1, <2>2
      <4>3. f[j] = At(f, j)
        BY <2>1, <4>1
      <4>4. j # 0 => g[j - 1] = f[j - 1]
        BY <4>1, <2>2
      <4> HIDE DEF g
      <4> QED
        BY <4>2, <4>3, <4>4
    <3> QED
      BY <3>1, <3>2
  <2>4. g = [j \in 0 .. m |-> At(g, j)]
    <3>1. g = [j \in 0 .. m |-> g[j]]
      OBVIOUS
    <3> HIDE DEF g, At
    <3> QED
      BY <3>1, <2>3, Zenon
  <2>5. \E f2 : f2 = [j \in 0 .. m |-> At(f2, j)]
    BY <2>4, Zenon
  <2>6. m \in 0 .. n
    OBVIOUS
  <2> QED
    BY <2>5, <2>6, Zenon
<1>4. n \in M
  <2>1. n \in Nat
    OBVIOUS
  <2> HIDE DEF M, n
  <2>2. \A j \in 0 .. n : j \in M
    BY <1>2, <1>3, <2>1, Induction
  <2> QED
    BY <2>1, <2>2
<1>5. \E f : f = [j \in 0 .. n |-> At(f, j)]
  BY <1>4
<1> HIDE DEF At, n
<1>6. EplfLoop(line) = [j \in 0 .. n |-> At(EplfLoop(line), j)]
  BY <1>1, <1>5, Zenon
<1>7. \A j \in 0 .. n : EplfLoop(line)[j] = At(EplfLoop(line), j)
  BY <1>6, Zenon
<1>8. 0 \in 0 .. n /\ \A j \in 1 .. n : j \in 0 .. n /\ j # 0
  BY DEF n
<1> QED
  BY <1>7, <1>8, Zenon DEF At, n

\* So has that of the UNIX loop (ftpparse.c:239-300).
LEMMA UnixLoopIs ==
    ASSUME NEW line, Len(line) \in Nat
    PROVE  /\ UnixLoop(line)[0] = [state |-> 1, size |-> "", month |-> "", mday |-> "", mtime |-> <<>>, from |-> 1]
           /\ \A j \in 1 .. Len(line) :
                 UnixLoop(line)[j] = UnixStep(line, UnixLoop(line)[j - 1], j)
<1> DEFINE n == Len(line)
           At(f, j) == IF j = 0 THEN [state |-> 1, size |-> "", month |-> "", mday |-> "", mtime |-> <<>>, from |-> 1]
                       ELSE UnixStep(line, f[j - 1], j)
           M == {m \in 0 .. n : \E f : f = [j \in 0 .. m |-> At(f, j)]}
<1>1. UnixLoop(line) = CHOOSE f : f = [j \in 0 .. n |-> At(f, j)]
  BY Zenon DEF UnixLoop
<1>2. 0 \in M
  <2> DEFINE g == [j \in 0 .. 0 |-> [state |-> 1, size |-> "", month |-> "", mday |-> "", mtime |-> <<>>, from |-> 1]]
  <2>1. g = [j \in 0 .. 0 |-> At(g, j)]
    <3>1. \A j \in 0 .. 0 : j = 0
      OBVIOUS
    <3> QED
      BY <3>1, Zenon
  <2>2. \E f : f = [j \in 0 .. 0 |-> At(f, j)]
    BY <2>1, Zenon
  <2>3. 0 \in 0 .. n
    OBVIOUS
  <2> QED
    BY <2>2, <2>3, Zenon
<1>3. ASSUME NEW m \in 1 .. n, m - 1 \in M PROVE m \in M
  <2>1. PICK f : f = [j \in 0 .. m - 1 |-> At(f, j)]
    BY <1>3
  <2> DEFINE g == [j \in 0 .. m |-> IF j = m THEN UnixStep(line, f[m - 1], m) ELSE f[j]]
  <2>2. \A j \in 0 .. m - 1 : g[j] = f[j]
    OBVIOUS
  <2>3. ASSUME NEW j \in 0 .. m PROVE g[j] = At(g, j)
    <3>1. CASE j = m
      <4>1. j # 0 /\ g[m - 1] = f[m - 1]
        BY <2>2, <3>1
      <4>2. g[j] = UnixStep(line, f[m - 1], m)
        BY <3>1
      <4> QED
        BY <4>1, <4>2, <3>1
    <3>2. CASE j # m
      <4>1. j \in 0 .. m - 1
        BY <3>2
      <4>2. g[j] = f[j]
        BY <4>1, <2>2
      <4>3. f[j] = At(f, j)
        BY <2>1, <4>1
      <4>4. j # 0 => g[j - 1] = f[j - 1]
        BY <4>1, <2>2
      <4> HIDE DEF g
      <4> QED
        BY <4>2, <4>3, <4>4
    <3> QED
      BY <3>1, <3>2
  <2>4. g = [j \in 0 .. m |-> At(g, j)]
    <3>1. g = [j \in 0 .. m |-> g[j]]
      OBVIOUS
    <3> HIDE DEF g, At
    <3> QED
      BY <3>1, <2>3, Zenon
  <2>5. \E f2 : f2 = [j \in 0 .. m |-> At(f2, j)]
    BY <2>4, Zenon
  <2>6. m \in 0 .. n
    OBVIOUS
  <2> QED
    BY <2>5, <2>6, Zenon
<1>4. n \in M
  <2>1. n \in Nat
    OBVIOUS
  <2> HIDE DEF M, n
  <2>2. \A j \in 0 .. n : j \in M
    BY <1>2, <1>3, <2>1, Induction
  <2> QED
    BY <2>1, <2>2
<1>5. \E f : f = [j \in 0 .. n |-> At(f, j)]
  BY <1>4
<1> HIDE DEF At, n
<1>6. UnixLoop(line) = [j \in 0 .. n |-> At(UnixLoop(line), j)]
  BY <1>1, <1>5, Zenon
<1>7. \A j \in 0 .. n : UnixLoop(line)[j] = At(UnixLoop(line), j)
  BY <1>6, Zenon
<1>8. 0 \in 0 .. n /\ \A j \in 1 .. n : j \in 0 .. n /\ j # 0
  BY DEF n
<1> QED
  BY <1>7, <1>8, Zenon DEF At, n

\* Before the first round of the loop over the semicolons.
AtFirst == [found |-> 1, object |-> [k \in {} |-> <<>>]]

\* That loop has one value, too (4DPlugin-cURL.cpp:2838-2849).
LEMMA MlsdLoopIs ==
    ASSUME NEW line, Len(line) \in Nat
    PROVE  /\ MlsdLoop(line)[0] = AtFirst
           /\ \A j \in 1 .. Len(line) :
                 MlsdLoop(line)[j] = MlsdStep(line, MlsdLoop(line)[j - 1], j)
<1> DEFINE n == Len(line)
           At(f, j) == IF j = 0 THEN AtFirst
                       ELSE MlsdStep(line, f[j - 1], j)
           M == {m \in 0 .. n : \E f : f = [j \in 0 .. m |-> At(f, j)]}
<1>1. MlsdLoop(line) = CHOOSE f : f = [j \in 0 .. n |-> At(f, j)]
  BY Zenon DEF MlsdLoop, AtFirst
<1>2. 0 \in M
  <2> DEFINE g == [j \in 0 .. 0 |-> AtFirst]
  <2>1. g = [j \in 0 .. 0 |-> At(g, j)]
    <3>1. \A j \in 0 .. 0 : j = 0
      OBVIOUS
    <3> QED
      BY <3>1, Zenon
  <2>2. \E f : f = [j \in 0 .. 0 |-> At(f, j)]
    BY <2>1, Zenon
  <2>3. 0 \in 0 .. n
    OBVIOUS
  <2> QED
    BY <2>2, <2>3, Zenon
<1>3. ASSUME NEW m \in 1 .. n, m - 1 \in M PROVE m \in M
  <2>1. PICK f : f = [j \in 0 .. m - 1 |-> At(f, j)]
    BY <1>3
  <2> DEFINE g == [j \in 0 .. m |-> IF j = m THEN MlsdStep(line, f[m - 1], m) ELSE f[j]]
  <2>2. \A j \in 0 .. m - 1 : g[j] = f[j]
    OBVIOUS
  <2>3. ASSUME NEW j \in 0 .. m PROVE g[j] = At(g, j)
    <3>1. CASE j = m
      <4>1. j # 0 /\ g[m - 1] = f[m - 1]
        BY <2>2, <3>1
      <4>2. g[j] = MlsdStep(line, f[m - 1], m)
        BY <3>1
      <4> QED
        BY <4>1, <4>2, <3>1
    <3>2. CASE j # m
      <4>1. j \in 0 .. m - 1
        BY <3>2
      <4>2. g[j] = f[j]
        BY <4>1, <2>2
      <4>3. f[j] = At(f, j)
        BY <2>1, <4>1
      <4>4. j # 0 => g[j - 1] = f[j - 1]
        BY <4>1, <2>2
      <4> HIDE DEF g
      <4> QED
        BY <4>2, <4>3, <4>4
    <3> QED
      BY <3>1, <3>2
  <2>4. g = [j \in 0 .. m |-> At(g, j)]
    <3>1. g = [j \in 0 .. m |-> g[j]]
      OBVIOUS
    <3> HIDE DEF g, At
    <3> QED
      BY <3>1, <2>3, Zenon
  <2>5. \E f2 : f2 = [j \in 0 .. m |-> At(f2, j)]
    BY <2>4, Zenon
  <2>6. m \in 0 .. n
    OBVIOUS
  <2> QED
    BY <2>5, <2>6, Zenon
<1>4. n \in M
  <2>1. n \in Nat
    OBVIOUS
  <2> HIDE DEF M, n
  <2>2. \A j \in 0 .. n : j \in M
    BY <1>2, <1>3, <2>1, Induction
  <2> QED
    BY <2>1, <2>2
<1>5. \E f : f = [j \in 0 .. n |-> At(f, j)]
  BY <1>4
<1> HIDE DEF At, n
<1>6. MlsdLoop(line) = [j \in 0 .. n |-> At(MlsdLoop(line), j)]
  BY <1>1, <1>5, Zenon
<1>7. \A j \in 0 .. n : MlsdLoop(line)[j] = At(MlsdLoop(line), j)
  BY <1>6, Zenon
<1>8. 0 \in 0 .. n /\ \A j \in 1 .. n : j \in 0 .. n /\ j # 0
  BY DEF n
<1> QED
  BY <1>7, <1>8, Zenon DEF At, n

-----------------------------------------------------------------------------
(* EPLF *)

\* The least number of a set.
LEMMA MinIs ==
    ASSUME NEW T \in SUBSET Nat, T # {}
    PROVE  Min(T) \in T /\ \A y \in T : Min(T) <= y
  BY LeastIs, Zenon DEF Min

\* An entry of ftpparse.
IsEntry(e) ==
    e = [found |-> e.found, name |-> e.name, trycwd |-> e.trycwd, tryretr |-> e.tryretr,
         size |-> e.size, mtime |-> e.mtime, id |-> e.id]

\* What a fact f changes in an entry.
LEMMA SetFactIs ==
    ASSUME NEW e, IsEntry(e), NEW S, NEW f \in Seq(S)
    PROVE  /\ IsEntry(SetFact(e, f))
           /\ SetFact(e, f).found = e.found /\ SetFact(e, f).name = e.name
           /\ f = <<>> => SetFact(e, f) = e
           /\ f # <<>> =>
                /\ SetFact(e, f).trycwd = IF Head(f) = "/" THEN TRUE ELSE e.trycwd
                /\ SetFact(e, f).tryretr = IF Head(f) = "r" THEN TRUE ELSE e.tryretr
                /\ SetFact(e, f).size = IF Head(f) # "s5" THEN e.size
                                        ELSE IF Len(f) = 1 THEN "5" ELSE "garbage"
<1> DEFINE g == SetFact(e, f)
<1>1. CASE f = <<>>
  BY <1>1, Zenon DEF SetFact
<1>2. CASE f # <<>> /\ Head(f) = "/"
  <2>1. g = [e EXCEPT !.trycwd = TRUE]
    BY <1>2 DEF SetFact, FactOf
  <2> QED
    BY <1>2, <2>1 DEF IsEntry
<1>3. CASE f # <<>> /\ Head(f) = "r"
  <2>1. g = [e EXCEPT !.tryretr = TRUE]
    BY <1>3 DEF SetFact, FactOf
  <2> QED
    BY <1>3, <2>1 DEF IsEntry
<1>4. CASE f # <<>> /\ Head(f) = "s5"
  <2> DEFINE v == <<"5">> \o Tail(f)
  <2>1. FactOf["s5"] = <<"s", "5">>
    BY DEF FactOf
  <2>2. g = [e EXCEPT !.size = GetLong(v)]
    <3>1. g = SetValue(e, FactOf[Head(f)][1], <<FactOf[Head(f)][2]>> \o Tail(f))
      BY <1>4 DEF SetFact, FactOf
    <3>2. g = SetValue(e, "s", v)
      BY <2>1, <3>1, <1>4
    <3> QED
      BY <3>2, Zenon DEF SetValue
  <2>3. Len(v) = Len(f) /\ v[1] = "5"
    <3>1. Tail(f) \in Seq(S \cup {"5"}) /\ Len(Tail(f)) = Len(f) - 1
      BY <1>4
    <3>2. <<"5">> \in Seq(S \cup {"5"}) /\ Len(<<"5">>) = 1
      OBVIOUS
    <3> QED
      BY <3>1, <3>2
  <2>4. GetLong(v) = IF Len(f) = 1 THEN "5" ELSE "garbage"
    BY <2>3 DEF GetLong, Numbers
  <2> QED
    BY <1>4, <2>2, <2>4 DEF IsEntry
<1>5. CASE f # <<>> /\ Head(f) \in {"m8", "i7"}
  <2>1. g \in {[e EXCEPT !.mtime = g.mtime], [e EXCEPT !.id = g.id]}
    <3> DEFINE v == <<FactOf[Head(f)][2]>> \o Tail(f)
    <3>1. g = SetValue(e, FactOf[Head(f)][1], v)
      BY <1>5 DEF SetFact, FactOf
    <3>2. FactOf["m8"][1] = "m" /\ FactOf["i7"][1] = "i"
      BY DEF FactOf
    <3> HIDE DEF v, g
    <3>3. g = SetValue(e, "m", v) \/ g = SetValue(e, "i", v)
      BY <3>1, <3>2, <1>5, Zenon
    <3>4. g = [e EXCEPT !.mtime = <<"local", GetLong(v)>>] \/ g = [e EXCEPT !.id = v]
      BY <3>3, Zenon DEF SetValue
    <3> QED
      BY <3>4 DEF IsEntry
  <2> QED
    BY <1>5, <2>1 DEF IsEntry
<1>6. CASE f # <<>> /\ Head(f) \notin {"/", "r", "s5", "m8", "i7"}
  <2>1. g = e
    BY <1>6 DEF SetFact, FactOf
  <2> QED
    BY <1>6, <2>1
<1> QED
  BY <1>1, <1>2, <1>3, <1>4, <1>5, <1>6

\* There is no TAB up to the place j.
NoTab(l, j) == \A k \in 1 .. j : l[k] # TAB

\* Some fact that ends by the place j starts with this symbol, or is nothing else.
FactBy(l, j, symbol) ==
    \E i, k \in DOMAIN l : k <= j /\ IsEplfFact(l, i, k) /\ i + 1 < k /\ l[i + 1] = symbol
OnlyBy(l, j, symbol) ==
    \E i, k \in DOMAIN l : k <= j /\ IsEplfFact(l, i, k) /\ i + 2 = k /\ l[i + 1] = symbol

\* The entry says what the facts that end by j say.
SaysFacts(l, j, e) ==
    /\ e.trycwd \in BOOLEAN /\ (e.trycwd <=> FactBy(l, j, "/"))
    /\ e.tryretr \in BOOLEAN /\ (e.tryretr <=> FactBy(l, j, "r"))
    /\ OnlyBy(l, j, "s5") => e.size \in {"5", "garbage"}
    /\ e.size = "5" => OnlyBy(l, j, "s5")

\* The loop after the round for j.
EplfInv(l, j, a) ==
    /\ a = [i |-> a.i, e |-> a.e, found |-> a.found]
    /\ IsEntry(a.e) /\ a.e.found = TRUE
    /\ a.found \in BOOLEAN /\ (a.found <=> ~NoTab(l, j))
    /\ ~a.found => /\ a.i \in Nat /\ 2 <= a.i /\ (a.i = 2 \/ a.i <= j + 1)
                   /\ a.i = 2 \/ l[a.i - 1] = COMMA
                   /\ \A k \in a.i .. j : l[k] # COMMA
    /\ a.found => a.e.name = SubSeq(l, Min({i \in DOMAIN l : l[i] = TAB}) + 1, Len(l))
    /\ SaysFacts(l, j, a.e)

\* A place that ends no fact adds none.
LEMMA NoFactEnds ==
    ASSUME NEW S, NEW l \in Seq(S), NEW j \in 1 .. Len(l), l[j] # COMMA \/ ~NoTab(l, j) \/ j = 1,
           NEW e, SaysFacts(l, j - 1, e)
    PROVE  SaysFacts(l, j, e)
<1>1. \A i, k \in DOMAIN l : IsEplfFact(l, i, k) => k # j
  BY DEF IsEplfFact, NoTab
<1>2. \A i, k \in DOMAIN l : IsEplfFact(l, i, k) => (k <= j <=> k <= j - 1)
  BY <1>1
<1>3. \A s : FactBy(l, j, s) <=> FactBy(l, j - 1, s)
  BY <1>2, Zenon DEF FactBy
<1>4. \A s : OnlyBy(l, j, s) <=> OnlyBy(l, j - 1, s)
  BY <1>2, Zenon DEF OnlyBy
<1> QED
  BY <1>3, <1>4, Zenon DEF SaysFacts

\* A comma ends one fact, which starts after the last comma.
LEMMA OneFactEnds ==
    ASSUME NEW S, NEW l \in Seq(S), NEW j \in 2 .. Len(l), l[j] = COMMA, NoTab(l, j),
           NEW b \in 1 .. j - 1, b = 1 \/ l[b] = COMMA, \A k \in b + 1 .. j - 1 : l[k] # COMMA
    PROVE  /\ \A s : FactBy(l, j, s) <=> FactBy(l, j - 1, s) \/ (b + 1 < j /\ l[b + 1] = s)
           /\ \A s : OnlyBy(l, j, s) <=> OnlyBy(l, j - 1, s) \/ (b + 2 = j /\ l[b + 1] = s)
<1>1. \A i \in DOMAIN l : IsEplfFact(l, i, j) <=> i = b
  <2>1. ASSUME NEW i \in DOMAIN l, IsEplfFact(l, i, j) PROVE i = b
    <3>1. CASE i < b
      <4>1. b \in i + 1 .. j - 1 /\ b # 1
        BY <3>1
      <4> QED
        BY <4>1, <2>1 DEF IsEplfFact
    <3>2. CASE b < i
      <4>1. i \in b + 1 .. j - 1 /\ i # 1
        BY <3>2, <2>1 DEF IsEplfFact
      <4> QED
        BY <4>1, <2>1 DEF IsEplfFact
    <3> QED
      BY <3>1, <3>2
  <2>2. IsEplfFact(l, b, j)
    BY DEF IsEplfFact, NoTab
  <2> QED
    BY <2>1, <2>2
<1>2. \A k \in DOMAIN l : k <= j <=> k <= j - 1 \/ k = j
  OBVIOUS
<1>3. j \in DOMAIN l /\ b \in DOMAIN l /\ j <= j
  OBVIOUS
<1>4. \A s : FactBy(l, j, s) <=> FactBy(l, j - 1, s) \/ (b + 1 < j /\ l[b + 1] = s)
  BY <1>1, <1>2, <1>3, Zenon DEF FactBy
<1>5. \A s : OnlyBy(l, j, s) <=> OnlyBy(l, j - 1, s) \/ (b + 2 = j /\ l[b + 1] = s)
  BY <1>1, <1>2, <1>3, Zenon DEF OnlyBy
<1> QED
  BY <1>4, <1>5

\* The entry after it says what that fact says, too.
LEMMA FactSaid ==
    ASSUME NEW S, NEW l \in Seq(S), NEW j \in 2 .. Len(l), l[j] = COMMA, NoTab(l, j),
           NEW b \in 1 .. j - 1, b = 1 \/ l[b] = COMMA, \A k \in b + 1 .. j - 1 : l[k] # COMMA,
           NEW e, IsEntry(e), e.found = TRUE, SaysFacts(l, j - 1, e)
    PROVE  LET g == SetFact(e, SubSeq(l, b + 1, j - 1))
           IN IsEntry(g) /\ g.found = TRUE /\ SaysFacts(l, j, g)
<1> DEFINE f == SubSeq(l, b + 1, j - 1)
           g == SetFact(e, f)
<1>1. f \in Seq(S) /\ Len(f) = j - 1 - b
  OBVIOUS
<1>2. (f = <<>> <=> ~(b + 1 < j)) /\ (f # <<>> => Head(f) = l[b + 1]) /\ (Len(f) = 1 <=> b + 2 = j)
  BY <1>1
<1>3. /\ \A s : FactBy(l, j, s) <=> FactBy(l, j - 1, s) \/ (b + 1 < j /\ l[b + 1] = s)
      /\ \A s : OnlyBy(l, j, s) <=> OnlyBy(l, j - 1, s) \/ (b + 2 = j /\ l[b + 1] = s)
  BY OneFactEnds
<1> HIDE DEF f
<1>4. /\ IsEntry(g) /\ g.found = e.found
      /\ f = <<>> => g = e
      /\ f # <<>> => /\ g.trycwd = IF Head(f) = "/" THEN TRUE ELSE e.trycwd
                     /\ g.tryretr = IF Head(f) = "r" THEN TRUE ELSE e.tryretr
                     /\ g.size = IF Head(f) # "s5" THEN e.size
                                 ELSE IF Len(f) = 1 THEN "5" ELSE "garbage"
  BY <1>1, SetFactIs
<1> HIDE DEF g
<1>5. b + 2 = j => b + 1 < j
  OBVIOUS
<1>6. CASE f = <<>>
  <2>1. g = e /\ \A s : /\ FactBy(l, j, s) <=> FactBy(l, j - 1, s)
                        /\ OnlyBy(l, j, s) <=> OnlyBy(l, j - 1, s)
    BY <1>2, <1>3, <1>4, <1>5, <1>6, Zenon
  <2>2. SaysFacts(l, j, g)
    BY <2>1, Zenon DEF SaysFacts
  <2> QED
    BY <1>4, <2>2 DEF g, f
<1>7. CASE f # <<>>
  <2>1. g.trycwd \in BOOLEAN /\ (g.trycwd <=> FactBy(l, j, "/"))
    BY <1>2, <1>3, <1>4, <1>7, Zenon DEF SaysFacts
  <2>2. g.tryretr \in BOOLEAN /\ (g.tryretr <=> FactBy(l, j, "r"))
    BY <1>2, <1>3, <1>4, <1>7, Zenon DEF SaysFacts
  <2>3. /\ OnlyBy(l, j, "s5") => g.size \in {"5", "garbage"}
        /\ g.size = "5" => OnlyBy(l, j, "s5")
    <3>1. /\ OnlyBy(l, j - 1, "s5") => e.size \in {"5", "garbage"}
          /\ e.size = "5" => OnlyBy(l, j - 1, "s5")
      BY DEF SaysFacts
    <3>2. OnlyBy(l, j, "s5") <=> OnlyBy(l, j - 1, "s5") \/ (b + 2 = j /\ l[b + 1] = "s5")
      BY <1>3, Zenon
    <3> QED
      BY <1>2, <1>4, <1>7, <3>1, <3>2
  <2>4. IsEntry(g) /\ g.found = TRUE /\ SaysFacts(l, j, g)
    BY <1>4, <2>1, <2>2, <2>3, Zenon DEF SaysFacts
  <2> QED
    BY <2>4 DEF g, f
<1> QED
  BY <1>6, <1>7

\* Before the first round there is nothing.
LEMMA NothingIs ==
    /\ IsEntry(Nothing) /\ Nothing.found = TRUE
    /\ Nothing.trycwd = FALSE /\ Nothing.tryretr = FALSE
    /\ Nothing.size \notin {"5", "garbage"}
<1>1. "" \notin {"5", "garbage"}
  BY Zenon
<1>2. \A s : LET n == [found |-> TRUE, name |-> <<>>, trycwd |-> FALSE, tryretr |-> FALSE,
                      size |-> s, mtime |-> <<>>, id |-> <<>>]
             IN IsEntry(n) /\ n.found = TRUE /\ n.trycwd = FALSE /\ n.tryretr = FALSE /\ n.size = s
  BY DEF IsEntry
<1> QED
  BY <1>1, <1>2, Zenon DEF Nothing

\* EplfInv holds before the first round ...
LEMMA EplfStarts ==
    ASSUME NEW S, NEW l \in Seq(S)
    PROVE  EplfInv(l, 0, [i |-> 2, e |-> Nothing, found |-> FALSE])
<1> DEFINE a == [i |-> 2, e |-> Nothing, found |-> FALSE]
<1>1. a.i = 2 /\ a.e = Nothing /\ a.found = FALSE /\ a = [i |-> a.i, e |-> a.e, found |-> a.found]
  OBVIOUS
<1> HIDE DEF a
<1>2. NoTab(l, 0)
  BY DEF NoTab
<1>3. (\A k \in 2 .. 0 : l[k] # COMMA) /\ 2 \in Nat /\ 2 <= 2
  OBVIOUS
<1>4. \A i, k \in DOMAIN l : k <= 0 => ~IsEplfFact(l, i, k)
  BY DEF IsEplfFact
<1>5. SaysFacts(l, 0, Nothing)
  BY <1>4, NothingIs, Zenon DEF SaysFacts, FactBy, OnlyBy
<1>6. EplfInv(l, 0, a)
  BY <1>1, <1>2, <1>3, <1>5, NothingIs, Zenon DEF EplfInv
<1> QED
  BY <1>6 DEF a

\* ... and every round keeps it: a TAB ends the loop with the name, a comma ends the
\* fact that starts after the last comma, any other symbol changes nothing.
LEMMA EplfStepKeeps ==
    ASSUME NEW S, NEW l \in Seq(S), l[1] = "+", NEW j \in 1 .. Len(l),
           NEW a, EplfInv(l, j - 1, a)
    PROVE  EplfInv(l, j, EplfStep(l, a, j))
<1> DEFINE b == EplfStep(l, a, j)
<1>0. NoTab(l, j) <=> NoTab(l, j - 1) /\ l[j] # TAB
  BY DEF NoTab
<1>1. CASE a.found
  <2>1. b = a
    BY <1>1, Zenon DEF EplfStep
  <2>2. ~NoTab(l, j)
    BY <1>0, <1>1 DEF EplfInv
  <2>3. SaysFacts(l, j, a.e)
    BY <2>2, NoFactEnds DEF EplfInv
  <2> QED
    BY <1>1, <2>1, <2>2, <2>3, Zenon DEF EplfInv
<1>2. CASE ~a.found /\ j = 1
  <2>1. b = a
    BY <1>2, Zenon DEF EplfStep
  <2>2. NoTab(l, j)
    BY <1>0, <1>2 DEF EplfInv, TAB
  <2>3. SaysFacts(l, j, a.e)
    BY <1>2, NoFactEnds DEF EplfInv
  <2>4. a.i = 2 /\ 2 \in Nat /\ 2 <= 2 /\ \A k \in 2 .. j : l[k] # COMMA
    BY <1>2 DEF EplfInv
  <2> QED
    BY <1>2, <2>1, <2>2, <2>3, <2>4, Zenon DEF EplfInv
<1>3. CASE ~a.found /\ j # 1 /\ l[j] = TAB
  <2> DEFINE name == SubSeq(l, j + 1, Len(l))
  <2>1. b = [a EXCEPT !.found = TRUE, !.e.name = name]
    <3>1. TAB # COMMA
      BY Zenon DEF TAB, COMMA
    <3> QED
      BY <1>3, <3>1 DEF EplfStep
  <2>2. ~NoTab(l, j)
    BY <1>0, <1>3 DEF EplfInv
  <2>3. SaysFacts(l, j, a.e)
    BY <2>2, NoFactEnds DEF EplfInv
  <2>4. Min({i \in DOMAIN l : l[i] = TAB}) = j
    <3> DEFINE T == {i \in DOMAIN l : l[i] = TAB}
    <3>1. T \in SUBSET Nat /\ j \in T
      BY <1>3
    <3>2. \A i \in T : j <= i
      <4>1. NoTab(l, j - 1)
        BY <1>3 DEF EplfInv
      <4> QED
        BY <4>1 DEF NoTab
    <3> HIDE DEF T
    <3>3. Min(T) \in T /\ Min(T) <= j
      BY <3>1, MinIs
    <3> QED
      BY <3>1, <3>2, <3>3 DEF T
  <2> HIDE DEF name, b
  <2>5. /\ b = [i |-> b.i, e |-> b.e, found |-> b.found] /\ b.found = TRUE
        /\ b.e = [a.e EXCEPT !.name = name]
    BY <2>1 DEF EplfInv
  <2>6. /\ IsEntry(b.e) /\ b.e.found = TRUE /\ b.e.name = name
        /\ b.e.trycwd = a.e.trycwd /\ b.e.tryretr = a.e.tryretr /\ b.e.size = a.e.size
    <3>1. IsEntry(a.e) /\ a.e.found = TRUE
      BY DEF EplfInv
    <3> QED
      BY <2>5, <3>1 DEF IsEntry
  <2>7. SaysFacts(l, j, b.e)
    BY <2>3, <2>6, Zenon DEF SaysFacts
  <2>8. EplfInv(l, j, b)
    BY <2>2, <2>4, <2>5, <2>6, <2>7, Zenon DEF EplfInv, name
  <2> QED
    BY <2>8 DEF b
<1>4. CASE ~a.found /\ j # 1 /\ l[j] = COMMA
  <2>1. l[j] # TAB
    BY <1>4, Zenon DEF TAB, COMMA
  <2>2. b = [a EXCEPT !.e = SetFact(a.e, SubSeq(l, a.i, j - 1)), !.i = j + 1]
    BY <1>4, <2>1 DEF EplfStep
  <2>3. NoTab(l, j)
    BY <1>0, <1>4, <2>1 DEF EplfInv
  <2>4. /\ a.i - 1 \in 1 .. j - 1 /\ (a.i - 1 = 1 \/ l[a.i - 1] = COMMA)
        /\ \A k \in (a.i - 1) + 1 .. j - 1 : l[k] # COMMA
        /\ (a.i - 1) + 1 = a.i /\ j \in 2 .. Len(l)
    BY <1>4 DEF EplfInv
  <2>5. IsEntry(a.e) /\ a.e.found = TRUE /\ SaysFacts(l, j - 1, a.e)
    BY DEF EplfInv
  <2> DEFINE g == SetFact(a.e, SubSeq(l, a.i, j - 1))
  <2>6. IsEntry(g) /\ g.found = TRUE /\ SaysFacts(l, j, g)
    BY <1>4, <2>3, <2>4, <2>5, FactSaid
  <2> HIDE DEF g, b
  <2>7. b = [i |-> j + 1, e |-> g, found |-> a.found]
    BY <2>2 DEF EplfInv, g
  <2>8. b = [i |-> b.i, e |-> b.e, found |-> b.found] /\ b.i = j + 1 /\ b.e = g /\ b.found = a.found
    BY <2>7
  <2>9. a.found = FALSE
    BY <1>4, Zenon DEF EplfInv
  <2>10. /\ j + 1 \in Nat /\ 2 <= j + 1 /\ j + 1 <= j + 1 /\ (j + 1) - 1 = j
         /\ \A k \in j + 1 .. j : l[k] # COMMA
    OBVIOUS
  <2>11. EplfInv(l, j, b)
    BY <1>4, <2>3, <2>6, <2>8, <2>9, <2>10, Zenon DEF EplfInv
  <2> QED
    BY <2>11 DEF b
<1>5. CASE ~a.found /\ j # 1 /\ l[j] # COMMA /\ l[j] # TAB
  <2>1. b = a
    BY <1>5, Zenon DEF EplfStep
  <2>2. NoTab(l, j)
    BY <1>0, <1>5, Zenon DEF EplfInv
  <2>3. SaysFacts(l, j, a.e)
    BY <1>5, NoFactEnds DEF EplfInv
  <2>4. /\ a.i \in Nat /\ 2 <= a.i /\ (a.i = 2 \/ a.i <= j + 1) /\ (a.i = 2 \/ l[a.i - 1] = COMMA)
        /\ \A k \in a.i .. j : l[k] # COMMA
    BY <1>5 DEF EplfInv
  <2> QED
    BY <1>5, <2>1, <2>2, <2>3, <2>4, Zenon DEF EplfInv
<1> QED
  BY <1>1, <1>2, <1>3, <1>4, <1>5

\* What EPLF lines are understood to say, and that other lines that start with "+"
\* are not understood (ftpparse.c:180-207).
LEMMA EplfIs ==
    ASSUME NEW S, NEW l \in Seq(S), Len(l) >= 2, l[1] = "+"
    PROVE  EplfAgrees(l, Eplf(l)) /\ (Eplf(l) = Null \/ IsEntry(Eplf(l)))
<1> DEFINE n == Len(l)
           M == {j \in 0 .. n : EplfInv(l, j, EplfLoop(l)[j])}
<1>1. n \in Nat /\ l[1] = "+"
  OBVIOUS
<1>2. 0 \in M
  <2>1. EplfLoop(l)[0] = [i |-> 2, e |-> Nothing, found |-> FALSE]
    BY <1>1, EplfLoopIs, Zenon
  <2>2. EplfInv(l, 0, [i |-> 2, e |-> Nothing, found |-> FALSE])
    BY EplfStarts, Zenon
  <2>3. 0 \in 0 .. n
    BY <1>1
  <2> QED
    BY <2>1, <2>2, <2>3, Zenon
<1>3. ASSUME NEW j \in 1 .. n, j - 1 \in M PROVE j \in M
  <2>1. EplfLoop(l)[j] = EplfStep(l, EplfLoop(l)[j - 1], j)
    BY <1>1, EplfLoopIs
  <2>2. EplfInv(l, j, EplfStep(l, EplfLoop(l)[j - 1], j))
    BY <1>3, EplfStepKeeps
  <2> QED
    BY <2>1, <2>2
<1>4. EplfInv(l, n, EplfLoop(l)[n])
  <2> HIDE DEF M, n
  <2>1. \A j \in 0 .. n : j \in M
    BY <1>1, <1>2, <1>3, Induction
  <2>2. n \in 0 .. n
    BY <1>1
  <2> QED
    BY <2>1, <2>2, Zenon DEF M
<1> DEFINE a == EplfLoop(l)[n]
<1> HIDE DEF a
<1>5. EplfInv(l, n, a) /\ Eplf(l) = IF a.found THEN a.e ELSE Null
  BY <1>4, Zenon DEF a, Eplf
<1>6. NoTab(l, n) <=> ~IsEplf(l)
  BY DEF NoTab, IsEplf
<1>7. ASSUME ~a.found PROVE EplfAgrees(l, Eplf(l))
  BY <1>5, <1>6, <1>7, Zenon DEF EplfInv, EplfAgrees
<1>8. ASSUME a.found PROVE EplfAgrees(l, Eplf(l))
  <2>1. \A s : (FactBy(l, n, s) <=> HasFact(l, s)) /\ (OnlyBy(l, n, s) <=> HasOnly(l, s))
    <3>1. \A k \in DOMAIN l : k <= n
      OBVIOUS
    <3> QED
      BY <3>1, Zenon DEF FactBy, OnlyBy, HasFact, HasOnly
  <2>2. a.e.trycwd = HasFact(l, "/") /\ a.e.tryretr = HasFact(l, "r")
    <3>1. HasFact(l, "/") \in BOOLEAN /\ HasFact(l, "r") \in BOOLEAN
      BY Zenon DEF HasFact
    <3> QED
      BY <1>5, <2>1, <3>1, Zenon DEF EplfInv, SaysFacts
  <2>3. /\ HasOnly(l, "s5") => a.e.size \in {"5", "garbage"}
        /\ a.e.size = "5" => HasOnly(l, "s5")
    BY <1>5, <2>1, Zenon DEF EplfInv, SaysFacts
  <2>4. IsEplf(l) /\ a.e.found /\ Eplf(l) = a.e
        /\ a.e.name = SubSeq(l, Min({i \in DOMAIN l : l[i] = TAB}) + 1, Len(l))
    BY <1>5, <1>6, <1>8, Zenon DEF EplfInv
  <2> QED
    BY <2>2, <2>3, <2>4, Zenon DEF EplfAgrees
<1>9. Eplf(l) = Null \/ IsEntry(Eplf(l))
  BY <1>5, Zenon DEF EplfInv
<1> QED
  BY <1>7, <1>8, <1>9

-----------------------------------------------------------------------------
(* A LIST body of any symbols *)

\* The largest of some of the numbers up to n.
LEMMA MaxIs ==
    ASSUME NEW n \in Nat, NEW T \in SUBSET (1 .. n), T # {}
    PROVE  Max(T) \in T /\ \A y \in T : y <= Max(T)
<1> DEFINE U == {n - x : x \in T}
<1>1. U \in SUBSET Nat /\ U # {}
  <2>1. \A x \in T : n - x \in Nat
    OBVIOUS
  <2> QED
    BY <2>1
<1>2. PICK u \in U : \A y \in U : u <= y
  BY <1>1, LeastIs
<1>3. PICK x \in T : u = n - x
  BY <1>2
<1>4. \A y \in T : x >= y
  <2>1. \A y \in T : u <= n - y
    BY <1>2
  <2> QED
    BY <2>1, <1>3
<1>5. Max(T) \in T /\ \A y \in T : Max(T) >= y
  BY <1>4, Zenon DEF Max
<1> QED
  BY <1>5

\* A word is not empty and starts with a symbol of the line.
LEMMA TokenIs ==
    ASSUME NEW S, NEW l \in Seq(S), NEW j \in 2 .. Len(l), l[j - 1] # SP
    PROVE  Token(l, j)[1] \in S
<1> DEFINE T == {k \in 1 .. j - 1 : l[k] = SP}
           i == IF T = {} THEN 1 ELSE Max(T) + 1
<1>1. i \in 1 .. j - 1
  <2>1. CASE T = {}
    BY <2>1
  <2>2. CASE T # {}
    <3>1. j - 1 \in Nat /\ T \in SUBSET (1 .. j - 1)
      OBVIOUS
    <3>2. Max(T) \in T
      <4> HIDE DEF T
      <4> QED
        BY <3>1, <2>2, MaxIs
    <3>3. Max(T) \in 1 .. j - 1 /\ Max(T) # j - 1
      BY <3>2
    <3> HIDE DEF T
    <3> QED
      BY <2>2, <3>3
  <2> QED
    BY <2>1, <2>2
<1>2. Token(l, j) = SubSeq(l, i, j - 1)
  BY Zenon DEF Token
<1> HIDE DEF i
<1>3. SubSeq(l, i, j - 1)[1] = l[i] /\ l[i] \in S
  BY <1>1
<1> QED
  BY <1>2, <1>3, Zenon

\* Without the name of a month the loop does not get beyond the size.
UnixInv(a) ==
    a = [field \in DOMAIN a |-> a[field]] /\ "state" \in DOMAIN a /\ a.state \in 1 .. 5

\* A step that stays within the states 1 to 5 keeps UnixInv.
LEMMA UnixInvKept ==
    ASSUME NEW a, UnixInv(a), NEW z \in 1 .. 5, NEW size
    PROVE  /\ UnixInv([a EXCEPT !.state = z]) /\ UnixInv([a EXCEPT !.size = size])
           /\ UnixInv([a EXCEPT !.state = z, !.size = size])
<1>1. UnixInv([a EXCEPT !.state = z])
  BY DEF UnixInv
<1>2. ASSUME NEW x, UnixInv(x) PROVE UnixInv([x EXCEPT !.size = size])
  BY <1>2 DEF UnixInv
<1>3. [a EXCEPT !.state = z, !.size = size] = [[a EXCEPT !.state = z] EXCEPT !.size = size]
  OBVIOUS
<1> QED
  BY <1>1, <1>2, <1>3, Zenon

\* A line without the name of a month is nothing the UNIX loop understands.
LEMMA NoMonth ==
    ASSUME NEW S, S \cap Months = {}, NEW l \in Seq(S)
    PROVE  Unix(l) = Null
<1> DEFINE n == Len(l)
           start == [state |-> 1, size |-> "", month |-> "", mday |-> "", mtime |-> <<>>, from |-> 1]
           M == {j \in 0 .. n : UnixInv(UnixLoop(l)[j])}
<1>1. n \in Nat
  OBVIOUS
<1>2. 0 \in M
  <2>1. UnixLoop(l)[0] = start
    BY <1>1, UnixLoopIs, Zenon
  <2>2. \A s : UnixInv([state |-> 1, size |-> s, month |-> s, mday |-> s, mtime |-> <<>>, from |-> 1])
    BY DEF UnixInv
  <2>3. UnixInv(start)
    BY <2>2, Zenon
  <2>4. 0 \in 0 .. n
    BY <1>1
  <2> QED
    BY <2>1, <2>3, <2>4, Zenon
<1>3. ASSUME NEW j \in 1 .. n, j - 1 \in M PROVE j \in M
  <2> DEFINE a == UnixLoop(l)[j - 1]
             b == UnixStep(l, a, j)
             token == Token(l, j)
  <2>1. UnixLoop(l)[j] = b
    BY <1>1, UnixLoopIs
  <2>2. UnixInv(a)
    BY <1>3
  <2> HIDE DEF a, token
  <2>3. CASE j = 1 \/ l[j] # SP \/ l[j - 1] = SP
    <3>1. b = a
      BY <2>3, Zenon DEF UnixStep
    <3> QED
      BY <2>1, <2>2, <3>1
  <2>4. CASE j # 1 /\ l[j] = SP /\ l[j - 1] # SP
    <3>1. token[1] \notin Months
      <4>1. j \in 2 .. Len(l)
        BY <2>4
      <4> QED
        BY <4>1, <2>4, TokenIs DEF token
    <3>2. AfterPerm(token) \in 1 .. 5
      BY DEF AfterPerm
    <3>3. b = CASE a.state = 1 -> [a EXCEPT !.state = 2]
                [] a.state = 2 -> [a EXCEPT !.state = AfterPerm(token)]
                [] a.state = 3 -> [a EXCEPT !.state = 4]
                [] a.state = 4 -> [a EXCEPT !.state = 5, !.size = GetLong(token)]
                [] a.state = 5 -> [a EXCEPT !.size = GetLong(token)]
      BY <2>2, <2>4, <3>1 DEF UnixStep, UnixInv, token
    <3> HIDE DEF b, start, M
    <3>4. \/ b = [a EXCEPT !.state = 2] \/ b = [a EXCEPT !.state = AfterPerm(token)]
          \/ b = [a EXCEPT !.state = 4] \/ b = [a EXCEPT !.state = 5, !.size = GetLong(token)]
          \/ b = [a EXCEPT !.size = GetLong(token)]
      BY <2>2, <3>3 DEF UnixInv
    <3>5. UnixInv(b)
      <4>1. 2 \in 1 .. 5 /\ 4 \in 1 .. 5 /\ 5 \in 1 .. 5
        OBVIOUS
      <4>2. UnixInv([a EXCEPT !.state = 2]) /\ UnixInv([a EXCEPT !.state = 4])
            /\ UnixInv([a EXCEPT !.state = AfterPerm(token)])
        BY <2>2, <3>2, <4>1, UnixInvKept
      <4>3. UnixInv([a EXCEPT !.size = GetLong(token)])
            /\ UnixInv([a EXCEPT !.state = 5, !.size = GetLong(token)])
        BY <2>2, <4>1, UnixInvKept
      <4> QED
        BY <3>4, <4>2, <4>3, Zenon
    <3>6. j \in 0 .. n
      OBVIOUS
    <3> QED
      BY <2>1, <3>5, <3>6, Zenon DEF b, M
  <2> QED
    BY <2>3, <2>4
<1>4. UnixInv(UnixLoop(l)[n])
  <2> HIDE DEF M, n
  <2>1. \A j \in 0 .. n : j \in M
    BY <1>1, <1>2, <1>3, Induction
  <2>2. n \in 0 .. n
    BY <1>1
  <2> QED
    BY <2>1, <2>2, Zenon DEF M
<1>5. UnixLoop(l)[Len(l)].state # 8
  BY <1>4 DEF UnixInv
<1> QED
  BY <1>5, Zenon DEF Unix

\* What any line of a LIST body over ListSymbols is understood to say: without a month,
\* a semicolon or a digit, a line that is not EPLF is understood by no other loop.
LEMMA ListLine ==
    ASSUME NEW l \in Seq(ListSymbols)
    PROVE  EplfAgrees(l, FtpParse(l)) /\ (FtpParse(l) = Null \/ IsEntry(FtpParse(l)))
<1> DEFINE Known == {LF, CR, TAB, SP, "+", COMMA, "/", "r", "x", "s5", "m8", "i7"}
<1>0. ListSymbols \subseteq Known
  <2>1. DOMAIN FactOf = {"s5", "m8", "i7"}
    BY Zenon DEF FactOf
  <2> QED
    BY <2>1, ListAssumption
<1>1. CASE Len(l) < 2
  <2>1. ~(Len(l) >= 2)
    BY <1>1
  <2> QED
    BY <1>1, <2>1, Zenon DEF EplfAgrees, IsEplf, FtpParse
<1>2. CASE ~(Len(l) < 2)
  <2>1. l[1] \in Known /\ Len(l) >= 2
    BY <1>0, <1>2
  <2>2. CASE l[1] = "+"
    <3>1. "+" \notin TypeLetters
      BY Zenon DEF TypeLetters, Perms, Types
    <3>2. FtpParse(l) = Eplf(l)
      BY <1>2, <2>2, <3>1 DEF FtpParse
    <3> QED
      BY <2>1, <2>2, <3>2, EplfIs
  <2>3. CASE l[1] = "s5"
    <3>1. "s5" # "+" /\ "s5" \in TypeLetters
      BY Zenon DEF TypeLetters
    <3>2. FtpParse(l) = Unix(l)
      BY <1>2, <2>3, <3>1, Zenon DEF FtpParse
    <3>3. ListSymbols \cap Months = {}
      BY <1>0, Zenon DEF Months, LF, CR, TAB, SP, COMMA
    <3>4. FtpParse(l) = Null
      BY <3>2, <3>3, NoMonth
    <3> QED
      BY <2>3, <3>1, <3>4, Zenon DEF EplfAgrees, IsEplf
  <2>4. CASE l[1] \notin {"+", "s5"}
    <3>1. l[1] \notin TypeLetters
      BY <2>1, <2>4, Zenon DEF TypeLetters, Perms, Types, LF, CR, TAB, SP, COMMA
    <3>2. FtpParse(l) = Other(l)
      BY <1>2, <2>4, <3>1, Zenon DEF FtpParse
    <3>3. SEMI \notin Known
      BY Zenon DEF SEMI, LF, CR, TAB, SP, COMMA
    <3>4. ~Contains(l, SEMI)
      BY <1>0, <3>3 DEF Contains
    <3>5. l[1] \notin Digits
      <4>1. Digits = {"2", "5", "7", "8", "531", "1994", "00", "04", "09", "12", "27", "50", "1999", "00readme"}
        BY DEF Digits, Numbers, Value
      <4> QED
        BY <2>1, <4>1, Zenon DEF LF, CR, TAB, SP, COMMA
    <3>6. FtpParse(l) = Null
      BY <3>2, <3>4, <3>5, Zenon DEF Other
    <3> QED
      BY <2>4, <3>6, Zenon DEF EplfAgrees, IsEplf
  <2> QED
    BY <2>2, <2>3, <2>4
<1> QED
  BY <1>1, <1>2

\* An entry as it is stored says of EPLF what it said before: only its date may be gone.
LEMMA StoredAgrees ==
    ASSUME NEW l, NEW e, e = Null \/ IsEntry(e), EplfAgrees(l, e)
    PROVE  EplfAgrees(l, Stored(e))
<1>1. CASE e = Null
  <2>1. Stored(e) = e
    BY <1>1 DEF Stored, Null
  <2> QED
    BY <2>1
<1>2. CASE IsEntry(e)
  <2> DEFINE g == Stored(e)
  <2>1. g = e \/ g = [e EXCEPT !.mtime = NoDate]
    BY Zenon DEF Stored
  <2> HIDE DEF g
  <2>2. /\ g.found = e.found /\ g.name = e.name /\ g.trycwd = e.trycwd
        /\ g.tryretr = e.tryretr /\ g.size = e.size
    BY <1>2, <2>1 DEF IsEntry
  <2>3. e # Null
    BY <1>2 DEF IsEntry, Null
  <2> QED
    BY <2>2, <2>3, Zenon DEF EplfAgrees, g
<1> QED
  BY <1>1, <1>2

-----------------------------------------------------------------------------
(* MLSD *)

\* What a concatenation and a part of a text hold.
LEMMA JoinedIs ==
    ASSUME NEW S, NEW s \in Seq(S), NEW t \in Seq(S)
    PROVE  s \o t \in Seq(S) /\ ToSet(s \o t) = ToSet(s) \cup ToSet(t)
<1>1. s \o t \in Seq(S) /\ Len(s \o t) = Len(s) + Len(t)
  OBVIOUS
<1>2. /\ \A i \in 1 .. Len(s) : (s \o t)[i] = s[i]
      /\ \A i \in Len(s) + 1 .. Len(s) + Len(t) : (s \o t)[i] = t[i - Len(s)]
  OBVIOUS
<1>3. \A i \in 1 .. Len(t) : i + Len(s) \in Len(s) + 1 .. Len(s) + Len(t) /\ (i + Len(s)) - Len(s) = i
  OBVIOUS
<1>4. ASSUME NEW x \in ToSet(s) PROVE x \in ToSet(s \o t)
  <2>1. PICK i \in 1 .. Len(s) : x = s[i]
    BY DEF ToSet
  <2>2. i \in DOMAIN (s \o t) /\ (s \o t)[i] = x
    BY <1>1, <1>2, <2>1
  <2> QED
    BY <2>2, Zenon DEF ToSet
<1>5. ASSUME NEW x \in ToSet(t) PROVE x \in ToSet(s \o t)
  <2>1. PICK i \in 1 .. Len(t) : x = t[i]
    BY DEF ToSet
  <2>2. i + Len(s) \in DOMAIN (s \o t) /\ (s \o t)[i + Len(s)] = x
    BY <1>1, <1>2, <1>3, <2>1
  <2> QED
    BY <2>2, Zenon DEF ToSet
<1>6. ASSUME NEW x \in ToSet(s \o t) PROVE x \in ToSet(s) \cup ToSet(t)
  <2>1. PICK i \in 1 .. Len(s) + Len(t) : x = (s \o t)[i]
    BY <1>1 DEF ToSet
  <2>2. CASE i <= Len(s)
    <3>1. i \in DOMAIN s /\ s[i] = x
      BY <1>2, <2>1, <2>2
    <3> QED
      BY <3>1, Zenon DEF ToSet
  <2>3. CASE i > Len(s)
    <3>1. i - Len(s) \in DOMAIN t /\ t[i - Len(s)] = x
      BY <1>2, <2>1, <2>3
    <3> QED
      BY <3>1, Zenon DEF ToSet
  <2> QED
    BY <2>2, <2>3
<1> QED
  BY <1>1, <1>4, <1>5, <1>6, Zenon

\* Sequences of one length with the same elements are one.
LEMMA SameSeq ==
    ASSUME NEW S, NEW s \in Seq(S), NEW t \in Seq(S), Len(s) = Len(t),
           \A i \in 1 .. Len(s) : s[i] = t[i]
    PROVE  s = t
  OBVIOUS

\* A part of a part of a line is a part of the line.
LEMMA PartOfPart ==
    ASSUME NEW S, NEW l \in Seq(S), NEW b \in 1 .. Len(l) + 1, NEW e \in b - 1 .. Len(l),
           NEW p \in 1 .. e - b + 2, NEW q \in p - 1 .. e - b + 1
    PROVE  SubSeq(SubSeq(l, b, e), p, q) = SubSeq(l, b + p - 1, b + q - 1)
<1> DEFINE s == SubSeq(l, b, e)
<1>1. s \in Seq(S) /\ Len(s) = e - b + 1 /\ \A i \in 1 .. Len(s) : s[i] = l[b + i - 1]
  OBVIOUS
<1> HIDE DEF s
<1>2. SubSeq(s, p, q) \in Seq(S) /\ Len(SubSeq(s, p, q)) = q - p + 1
      /\ \A i \in 1 .. q - p + 1 : SubSeq(s, p, q)[i] = s[p + i - 1]
  BY <1>1
<1>3. SubSeq(l, b + p - 1, b + q - 1) \in Seq(S) /\ Len(SubSeq(l, b + p - 1, b + q - 1)) = q - p + 1
      /\ \A i \in 1 .. q - p + 1 : SubSeq(l, b + p - 1, b + q - 1)[i] = l[(b + p - 1) + i - 1]
  OBVIOUS
<1>4. \A i \in 1 .. q - p + 1 : p + i - 1 \in 1 .. Len(s) /\ b + (p + i - 1) - 1 = (b + p - 1) + i - 1
  BY <1>1
<1>5. \A i \in 1 .. q - p + 1 : SubSeq(s, p, q)[i] = SubSeq(l, b + p - 1, b + q - 1)[i]
  BY <1>1, <1>2, <1>3, <1>4
<1>6. SubSeq(s, p, q) = SubSeq(l, b + p - 1, b + q - 1)
  <2> DEFINE u == SubSeq(s, p, q)
             v == SubSeq(l, b + p - 1, b + q - 1)
  <2>1. /\ u \in Seq(S) /\ v \in Seq(S) /\ Len(u) = Len(v)
        /\ \A i \in 1 .. Len(u) : u[i] = v[i]
    BY <1>2, <1>3, <1>5
  <2> HIDE DEF u, v
  <2>2. u = v
    BY <2>1, SameSeq
  <2> QED
    BY <2>2 DEF u, v
<1> QED
  BY <1>6 DEF s

\* A fact with this key ends by the place j.
HasKeyBy(l, j, key) ==
    \E i, k, m \in DOMAIN l : m <= j /\ IsMlsdFact(l, i, k, m) /\ key = SubSeq(l, i, k - 1)

\* Of the facts that end by the place j, this one is the last with its key.
LastBy(l, j, i, k, m) ==
    /\ IsMlsdFact(l, i, k, m) /\ m <= j
    /\ \A b, c, d \in DOMAIN l :
          IsMlsdFact(l, b, c, d) /\ d <= j /\ SubSeq(l, b, c - 1) = SubSeq(l, i, k - 1) => d <= m

\* The object has the keys of the facts that end by the place j, with the last value of each.
SaysKeys(l, j, object) ==
    /\ \A key \in DOMAIN object : HasKeyBy(l, j, key)
    /\ \A i, k, m \in DOMAIN l : LastBy(l, j, i, k, m) =>
          /\ SubSeq(l, i, k - 1) \in DOMAIN object
          /\ object[SubSeq(l, i, k - 1)] = SubSeq(l, k + 1, m - 1)

\* The loop after the round for j.
MlsdInv(l, j, a) ==
    /\ a.found \in 1 .. j + 1
    /\ a.found = 1 \/ l[a.found - 1] = SEMI
    /\ \A k \in a.found .. j : l[k] # SEMI
    /\ SaysKeys(l, j, a.object)

\* p is the object o in which ob_set_s has put the value under the key.
IsPut(p, o, key, value) ==
    /\ DOMAIN p = DOMAIN o \cup {key}
    /\ p[key] = value
    /\ \A k \in DOMAIN o : k # key => p[k] = o[k]

\* An object after ob_set_s.
LEMMA PutIs == \A o, key, value : IsPut(Put(o, key, value), o, key, value)
<1> SUFFICES ASSUME NEW o, NEW key, NEW value, NEW p, p = Put(o, key, value)
             PROVE  IsPut(p, o, key, value)
  BY Zenon
<1>1. p = [k \in DOMAIN o \cup {key} |-> IF k = key THEN value ELSE o[k]]
  BY Zenon DEF Put
<1>2. DOMAIN p = DOMAIN o \cup {key} /\ p[key] = value
  BY <1>1
<1>3. \A k \in DOMAIN o : k # key => p[k] = o[k]
  BY <1>1
<1> QED
  BY <1>2, <1>3, Zenon DEF IsPut

\* A semicolon ends one fact, which is put into the object, or none without a "=".
LEMMA PutFactIs ==
    ASSUME NEW S, NEW l \in Seq(S), NEW j \in 1 .. Len(l), l[j] = SEMI,
           NEW b \in 1 .. j, b = 1 \/ l[b - 1] = SEMI, \A k \in b .. j - 1 : l[k] # SEMI,
           NEW o
    PROVE  LET p == PutFact(o, SubSeq(l, b, j - 1)) IN
           \/ p = o /\ \A i, k \in DOMAIN l : ~IsMlsdFact(l, i, k, j)
           \/ \E c \in DOMAIN l :
                 /\ b \in DOMAIN l /\ IsMlsdFact(l, b, c, j)
                 /\ \A i, k \in DOMAIN l : IsMlsdFact(l, i, k, j) => i = b /\ k = c
                 /\ p = Put(o, SubSeq(l, b, c - 1), SubSeq(l, c + 1, j - 1))
<1> DEFINE s == SubSeq(l, b, j - 1)
           T == {i \in DOMAIN s : s[i] = "="}
           p == PutFact(o, s)
<1>1. s \in Seq(S) /\ Len(s) = j - b /\ \A i \in 1 .. j - b : s[i] = l[b + i - 1]
  OBVIOUS
<1>2. \A i, k \in DOMAIN l : IsMlsdFact(l, i, k, j) => i = b
  <2> SUFFICES ASSUME NEW i \in DOMAIN l, NEW k \in DOMAIN l, IsMlsdFact(l, i, k, j) PROVE i = b
    OBVIOUS
  <2>1. CASE i < b
    <3>1. b - 1 \in i .. j - 1 /\ b # 1
      BY <2>1
    <3> QED
      BY <3>1 DEF IsMlsdFact
  <2>2. CASE b < i
    <3>1. i - 1 \in b .. j - 1 /\ i # 1
      BY <2>2 DEF IsMlsdFact
    <3> QED
      BY <3>1 DEF IsMlsdFact
  <2> QED
    BY <2>1, <2>2
<1>3. CASE T = {}
  <2>1. p = o
    BY <1>3, Zenon DEF PutFact
  <2>2. \A k \in b .. j - 1 : l[k] # "="
    <3> SUFFICES ASSUME NEW k \in b .. j - 1, l[k] = "=" PROVE FALSE
      OBVIOUS
    <3>1. k - b + 1 \in 1 .. j - b /\ b + (k - b + 1) - 1 = k
      OBVIOUS
    <3>2. k - b + 1 \in T
      BY <1>1, <3>1
    <3> QED
      BY <1>3, <3>2
  <2>3. \A i, k \in DOMAIN l : ~IsMlsdFact(l, i, k, j)
    BY <1>2, <2>2 DEF IsMlsdFact
  <2> QED
    BY <2>1, <2>3, Zenon
<1>4. CASE T # {}
  <2> DEFINE c == Min(T)
             k0 == b + c - 1
  <2>1. c \in 1 .. j - b /\ s[c] = "=" /\ \A i \in 1 .. j - b : i < c => s[i] # "="
    <3>1. T \in SUBSET Nat /\ T \subseteq 1 .. j - b
      BY <1>1
    <3>2. c \in T /\ \A i \in T : c <= i
      <4> HIDE DEF T
      <4> QED
        BY <1>4, <3>1, MinIs
    <3>3. \A i \in 1 .. j - b : i \in T <=> s[i] = "="
      BY <1>1
    <3>4. j - b \in Nat
      OBVIOUS
    <3> HIDE DEF c, T
    <3>5. \A i \in 1 .. j - b : i < c => i \notin T
      BY <3>1, <3>2, <3>4
    <3> QED
      BY <3>1, <3>2, <3>3, <3>5, Zenon
  <2> HIDE DEF c
  <2>2. k0 \in b .. j - 1 /\ l[k0] = "=" /\ \A m \in b .. k0 - 1 : l[m] # "="
    <3>1. k0 \in b .. j - 1 /\ l[k0] = "="
      BY <1>1, <2>1
    <3>2. ASSUME NEW m \in b .. k0 - 1 PROVE l[m] # "="
      <4>1. m - b + 1 \in 1 .. j - b /\ m - b + 1 < c /\ b + (m - b + 1) - 1 = m
        BY <2>1
      <4> QED
        BY <1>1, <2>1, <4>1
    <3> QED
      BY <3>1, <3>2
  <2>3. p = Put(o, SubSeq(l, b, k0 - 1), SubSeq(l, k0 + 1, j - 1))
    <3>1. p = Put(o, SubSeq(s, 1, c - 1), SubSeq(s, c + 1, Len(s)))
      BY <1>4, Zenon DEF PutFact, c
    <3>2. SubSeq(s, 1, c - 1) = SubSeq(l, b + 1 - 1, b + (c - 1) - 1)
      BY <2>1, PartOfPart
    <3>3. SubSeq(s, c + 1, j - b) = SubSeq(l, b + (c + 1) - 1, b + (j - b) - 1)
      BY <2>1, PartOfPart
    <3>4. b + 1 - 1 = b /\ b + (c - 1) - 1 = k0 - 1 /\ b + (c + 1) - 1 = k0 + 1
          /\ b + (j - b) - 1 = j - 1 /\ Len(s) = j - b
      BY <1>1, <2>1
    <3> QED
      BY <3>1, <3>2, <3>3, <3>4, Zenon
  <2>4. IsMlsdFact(l, b, k0, j) /\ b \in DOMAIN l /\ k0 \in DOMAIN l
    BY <2>2 DEF IsMlsdFact
  <2>5. ASSUME NEW i \in DOMAIN l, NEW k \in DOMAIN l, IsMlsdFact(l, i, k, j)
        PROVE  i = b /\ k = k0
    <3>1. i = b
      BY <1>2, <2>5
    <3>2. k \in b .. j - 1 /\ l[k] = "=" /\ \A m \in b .. k - 1 : l[m] # "="
      BY <2>5, <3>1 DEF IsMlsdFact
    <3>3. ~(k < k0) /\ ~(k0 < k)
      BY <2>2, <3>2
    <3> QED
      BY <2>2, <3>1, <3>2, <3>3
  <2> HIDE DEF k0, s, p
  <2> QED
    BY <2>3, <2>4, <2>5, Zenon DEF p, s
<1> QED
  BY <1>3, <1>4

\* A round that ends no fact leaves the last ones as they are; one that ends a fact makes
\* it the last with its key.
LEMMA LastIs ==
    ASSUME NEW S, NEW l \in Seq(S), NEW j \in 1 .. Len(l)
    PROVE  /\ \A i, k \in DOMAIN l : ~IsMlsdFact(l, i, k, j)
                => \A m \in DOMAIN l : LastBy(l, j, i, k, m) => m <= j - 1
           /\ \A i, k, m \in DOMAIN l : LastBy(l, j, i, k, m) /\ m <= j - 1 => LastBy(l, j - 1, i, k, m)
           /\ \A key : HasKeyBy(l, j - 1, key) => HasKeyBy(l, j, key)
<1>1. \A m \in DOMAIN l : /\ m <= j <=> m <= j - 1 \/ m = j
                          /\ m <= j - 1 => m <= j
  OBVIOUS
<1>2. ASSUME NEW i \in DOMAIN l, NEW k \in DOMAIN l, ~IsMlsdFact(l, i, k, j),
             NEW m \in DOMAIN l, LastBy(l, j, i, k, m)
      PROVE  m <= j - 1
  BY <1>1, <1>2, Zenon DEF LastBy
<1>3. ASSUME NEW i \in DOMAIN l, NEW k \in DOMAIN l, NEW m \in DOMAIN l,
             LastBy(l, j, i, k, m), m <= j - 1
      PROVE  LastBy(l, j - 1, i, k, m)
  BY <1>1, <1>3, Zenon DEF LastBy
<1>4. \A key : HasKeyBy(l, j - 1, key) => HasKeyBy(l, j, key)
  BY <1>1, Zenon DEF HasKeyBy
<1> QED
  BY <1>2, <1>3, <1>4, Zenon

\* MlsdInv holds before the first round ...
LEMMA MlsdStarts ==
    ASSUME NEW S, NEW l \in Seq(S)
    PROVE  MlsdInv(l, 0, AtFirst)
<1>1. AtFirst.found = 1 /\ DOMAIN AtFirst.object = {}
  BY DEF AtFirst
<1>2. 1 \in 1 .. 0 + 1 /\ (\A k \in 1 .. 0 : l[k] # SEMI) /\ \A m \in DOMAIN l : ~(m <= 0)
  OBVIOUS
<1>3. SaysKeys(l, 0, AtFirst.object)
  BY <1>1, <1>2, Zenon DEF SaysKeys, LastBy
<1> QED
  BY <1>1, <1>2, <1>3, Zenon DEF MlsdInv

\* ... and every round keeps it.
LEMMA MlsdStepKeeps ==
    ASSUME NEW S, NEW l \in Seq(S), NEW j \in 1 .. Len(l), NEW a, MlsdInv(l, j - 1, a)
    PROVE  MlsdInv(l, j, MlsdStep(l, a, j))
<1>1. SaysKeys(l, j - 1, a.object)
  BY Zenon DEF MlsdInv
<1>2. ASSUME \A i, k \in DOMAIN l : ~IsMlsdFact(l, i, k, j)
      PROVE  SaysKeys(l, j, a.object)
  <2>1. \A i, k, m \in DOMAIN l : LastBy(l, j, i, k, m) => LastBy(l, j - 1, i, k, m)
    BY <1>2, LastIs, Zenon
  <2>2. \A key : HasKeyBy(l, j - 1, key) => HasKeyBy(l, j, key)
    BY LastIs, Zenon
  <2> QED
    BY <1>1, <2>1, <2>2, ZenonT(60) DEF SaysKeys
<1>3. CASE l[j] # SEMI
  <2>1. MlsdStep(l, a, j) = a
    BY <1>3, Zenon DEF MlsdStep
  <2>2. SaysKeys(l, j, a.object)
    BY <1>2, <1>3, Zenon DEF IsMlsdFact
  <2>3. /\ a.found \in 1 .. j + 1 /\ (a.found = 1 \/ l[a.found - 1] = SEMI)
        /\ \A k \in a.found .. j : l[k] # SEMI
    BY <1>3 DEF MlsdInv
  <2> QED
    BY <2>1, <2>2, <2>3, Zenon DEF MlsdInv
<1>4. CASE l[j] = SEMI
  <2> DEFINE s == SubSeq(l, a.found, j - 1)
             o == PutFact(a.object, s)
             b == MlsdStep(l, a, j)
  <2>1. b = [found |-> j + 1, object |-> o]
    BY <1>4, Zenon DEF MlsdStep
  <2>2. /\ a.found \in 1 .. j /\ (a.found = 1 \/ l[a.found - 1] = SEMI)
        /\ \A k \in a.found .. j - 1 : l[k] # SEMI
    BY DEF MlsdInv
  <2>3. \/ o = a.object /\ \A i, k \in DOMAIN l : ~IsMlsdFact(l, i, k, j)
        \/ \E c \in DOMAIN l :
              /\ a.found \in DOMAIN l /\ IsMlsdFact(l, a.found, c, j)
              /\ \A i, k \in DOMAIN l : IsMlsdFact(l, i, k, j) => i = a.found /\ k = c
              /\ o = Put(a.object, SubSeq(l, a.found, c - 1), SubSeq(l, c + 1, j - 1))
    BY <1>4, <2>2, PutFactIs
  <2> HIDE DEF b, o, s
  <2>4. SaysKeys(l, j, o)
    <3>1. CASE o = a.object /\ \A i, k \in DOMAIN l : ~IsMlsdFact(l, i, k, j)
      BY <1>2, <3>1, Zenon
    <3>2. ASSUME NEW c \in DOMAIN l, a.found \in DOMAIN l, IsMlsdFact(l, a.found, c, j),
                 \A i, k \in DOMAIN l : IsMlsdFact(l, i, k, j) => i = a.found /\ k = c,
                 o = Put(a.object, SubSeq(l, a.found, c - 1), SubSeq(l, c + 1, j - 1))
          PROVE  SaysKeys(l, j, o)
      <4> DEFINE key == SubSeq(l, a.found, c - 1)
                 value == SubSeq(l, c + 1, j - 1)
      <4>0. o = Put(a.object, key, value)
        BY <3>2, Zenon
      <4> HIDE DEF key, value
      <4>1. /\ DOMAIN o = DOMAIN a.object \cup {key} /\ o[key] = value
            /\ \A x \in DOMAIN a.object : x # key => o[x] = a.object[x]
        <5>1. IsPut(o, a.object, key, value)
          BY <4>0, PutIs, Zenon
        <5> QED
          BY <5>1, Zenon DEF IsPut
      <4>2. j \in DOMAIN l /\ j <= j /\ ~(j <= j - 1) /\ \A m \in DOMAIN l : m <= j - 1 => ~(j <= m)
        OBVIOUS
      <4>3. ASSUME NEW x \in DOMAIN o PROVE HasKeyBy(l, j, x)
        <5>1. HasKeyBy(l, j, key)
          BY <3>2, <4>2, Zenon DEF HasKeyBy, key
        <5>2. x \in DOMAIN a.object => HasKeyBy(l, j, x)
          BY <1>1, LastIs, Zenon DEF SaysKeys
        <5> QED
          BY <4>1, <5>1, <5>2, Zenon
      <4>4. ASSUME NEW i \in DOMAIN l, NEW k \in DOMAIN l, NEW m \in DOMAIN l, LastBy(l, j, i, k, m)
            PROVE  SubSeq(l, i, k - 1) \in DOMAIN o /\ o[SubSeq(l, i, k - 1)] = SubSeq(l, k + 1, m - 1)
        <5>1. m = j \/ m <= j - 1
          BY <4>4 DEF LastBy
        <5>2. CASE m = j
          <6>1. i = a.found /\ k = c
            BY <3>2, <4>4, <5>2, Zenon DEF LastBy
          <6> QED
            BY <4>1, <5>2, <6>1, Zenon DEF key, value
        <5>3. CASE m <= j - 1
          <6>1. LastBy(l, j - 1, i, k, m)
            BY <4>4, <5>3, LastIs, Zenon
          <6>2. SubSeq(l, i, k - 1) # key
            BY <3>2, <4>2, <4>4, <5>3, Zenon DEF LastBy, key
          <6>3. /\ SubSeq(l, i, k - 1) \in DOMAIN a.object
                /\ a.object[SubSeq(l, i, k - 1)] = SubSeq(l, k + 1, m - 1)
            BY <1>1, <6>1, Zenon DEF SaysKeys
          <6> QED
            BY <4>1, <6>2, <6>3, Zenon
        <5> QED
          BY <5>1, <5>2, <5>3
      <4> QED
        BY <4>3, <4>4, Zenon DEF SaysKeys
    <3> QED
      BY <2>3, <3>1, <3>2, Zenon
  <2>5. b.found = j + 1 /\ b.object = o
    BY <2>1
  <2>6. /\ j + 1 \in 1 .. j + 1 /\ (j + 1) - 1 = j /\ \A k \in j + 1 .. j : l[k] # SEMI
    OBVIOUS
  <2>7. MlsdInv(l, j, b)
    BY <1>4, <2>4, <2>5, <2>6, Zenon DEF MlsdInv
  <2> QED
    BY <2>7 DEF b
<1> QED
  BY <1>3, <1>4

\* What an MLSD line is understood to say.
LEMMA MlsdIs ==
    ASSUME NEW S, NEW l \in Seq(S)
    PROVE  MlsdAgrees(l, Mlsd(l)) /\ (HasPath(l) <=> Path(l) # <<>>)
<1> DEFINE n == Len(l)
           M == {j \in 0 .. n : MlsdInv(l, j, MlsdLoop(l)[j])}
<1>1. n \in Nat
  OBVIOUS
<1>2. 0 \in M
  <2>1. MlsdLoop(l)[0] = AtFirst
    BY <1>1, MlsdLoopIs, Zenon
  <2>2. MlsdInv(l, 0, AtFirst)
    BY MlsdStarts, Zenon
  <2>3. 0 \in 0 .. n
    BY <1>1
  <2> QED
    BY <2>1, <2>2, <2>3, Zenon
<1>3. ASSUME NEW j \in 1 .. n, j - 1 \in M PROVE j \in M
  <2>1. MlsdLoop(l)[j] = MlsdStep(l, MlsdLoop(l)[j - 1], j)
    BY <1>1, MlsdLoopIs
  <2>2. MlsdInv(l, j, MlsdStep(l, MlsdLoop(l)[j - 1], j))
    BY <1>3, MlsdStepKeeps
  <2> QED
    BY <2>1, <2>2
<1> DEFINE a == MlsdLoop(l)[n]
<1>4. MlsdInv(l, n, a)
  <2> HIDE DEF M, n, a
  <2>1. \A j \in 0 .. n : j \in M
    BY <1>1, <1>2, <1>3, Induction
  <2>2. n \in 0 .. n
    BY <1>1
  <2> QED
    BY <2>1, <2>2, Zenon DEF M, a
<1> DEFINE e == Mlsd(l)
           path == Path(l)
<1> HIDE DEF a
<1>5. e = Put(a.object, PathKey, path) /\ path = SubSeq(l, a.found, n)
  BY Zenon DEF Mlsd, Path, a
<1> HIDE DEF e, path
<1>6. /\ DOMAIN e = DOMAIN a.object \cup {PathKey} /\ e[PathKey] = path
      /\ \A key \in DOMAIN a.object : key # PathKey => e[key] = a.object[key]
  <2>1. IsPut(e, a.object, PathKey, path)
    BY <1>5, PutIs, Zenon
  <2> QED
    BY <2>1, Zenon DEF IsPut
<1>7. /\ a.found \in 1 .. n + 1 /\ (a.found = 1 \/ l[a.found - 1] = SEMI)
      /\ \A k \in a.found .. n : l[k] # SEMI
  BY <1>4 DEF MlsdInv
<1>8. SaysKeys(l, n, a.object) /\ \A j \in DOMAIN l : j <= n
  BY <1>4 DEF MlsdInv
<1>9. ASSUME NEW key \in DOMAIN e \ {PathKey}
      PROVE  \E i, k, j \in DOMAIN l : IsMlsdFact(l, i, k, j) /\ key = SubSeq(l, i, k - 1)
  <2>1. key \in DOMAIN a.object
    BY <1>6
  <2>2. HasKeyBy(l, n, key)
    BY <1>8, <2>1, Zenon DEF SaysKeys
  <2> QED
    BY <2>2, Zenon DEF HasKeyBy
<1>10. ASSUME NEW i \in DOMAIN l, NEW k \in DOMAIN l, NEW j \in DOMAIN l, IsLastFact(l, i, k, j),
              SubSeq(l, i, k - 1) # PathKey
       PROVE  SubSeq(l, i, k - 1) \in DOMAIN e /\ e[SubSeq(l, i, k - 1)] = SubSeq(l, k + 1, j - 1)
  <2>1. LastBy(l, n, i, k, j)
    BY <1>8, <1>10, Zenon DEF LastBy, IsLastFact
  <2> QED
    BY <1>6, <1>8, <1>10, <2>1, Zenon DEF SaysKeys
<1>11. \E q \in 0 .. Len(l) : FactsEnd(l, q) /\ e[PathKey] = SubSeq(l, q + 1, Len(l))
  <2> DEFINE q == a.found - 1
  <2>1. /\ q \in 0 .. n /\ q + 1 = a.found /\ (q = 0 \/ l[q] = SEMI)
        /\ \A m \in q + 1 .. n : l[m] # SEMI
    BY <1>7
  <2> HIDE DEF q
  <2>2. FactsEnd(l, q)
    BY <2>1, Zenon DEF FactsEnd
  <2> QED
    BY <1>5, <1>6, <2>1, <2>2
<1>12. MlsdAgrees(l, e)
  <2>1. PathKey \in DOMAIN e
    BY <1>6, SMT
  <2>2. \E q \in 0 .. Len(l) :
           /\ FactsEnd(l, q)
           /\ \/ e[PathKey] = SubSeq(l, q + 1, Len(l))
              \/ q < Len(l) /\ l[q + 1] = SP /\ e[PathKey] = SubSeq(l, q + 2, Len(l))
    BY <1>11, Zenon
  <2>3. \A key \in DOMAIN e \ {PathKey} : \E i, k, j \in DOMAIN l :
           IsMlsdFact(l, i, k, j) /\ key = SubSeq(l, i, k - 1)
    BY <1>9, Zenon
  <2>4. \A i, k, j \in DOMAIN l : IsLastFact(l, i, k, j) /\ SubSeq(l, i, k - 1) # PathKey =>
           /\ SubSeq(l, i, k - 1) \in DOMAIN e
           /\ e[SubSeq(l, i, k - 1)] = SubSeq(l, k + 1, j - 1)
    BY <1>10, Zenon
  <2> QED
    BY <2>1, <2>2, <2>3, <2>4, Zenon DEF MlsdAgrees
<1>13. HasPath(l) <=> path # <<>>
  <2>1. path \in Seq(S) /\ Len(path) = n + 1 - a.found
    BY <1>5, <1>7
  <2>2. path # <<>> <=> a.found <= n
    BY <1>7, <2>1
  <2>3. HasPath(l) <=> n > 0 /\ l[n] # SEMI
    BY DEF HasPath
  <2> QED
    BY <1>7, <2>2, <2>3
<1> QED
  BY <1>12, <1>13 DEF e, path

-----------------------------------------------------------------------------
(* Bodies are sequences of symbols. *)

\* A text: a sequence of whatever symbols.
IsText(s) == \E S : s \in Seq(S)

\* A text after a text is a text ...
LEMMA TextsJoin ==
    ASSUME NEW s, IsText(s), NEW t, IsText(t)
    PROVE  IsText(s \o t)
<1>1. PICK A : s \in Seq(A)
  BY DEF IsText
<1>2. PICK B : t \in Seq(B)
  BY DEF IsText
<1>3. s \in Seq(A \cup B) /\ t \in Seq(A \cup B)
  BY <1>1, <1>2
<1>4. s \o t \in Seq(A \cup B)
  BY <1>3, JoinedIs
<1> QED
  BY <1>4, Zenon DEF IsText

\* ... and so is the beginning of one.
LEMMA TextsCut ==
    ASSUME NEW s, IsText(s), NEW n \in 0 .. Len(s)
    PROVE  IsText(SubSeq(s, 1, n))
<1>1. PICK A : s \in Seq(A)
  BY DEF IsText
<1>2. SubSeq(s, 1, n) \in Seq(A)
  BY <1>1
<1> QED
  BY <1>2, Zenon DEF IsText

\* Short texts.
LEMMA ShortTexts ==
    /\ IsText(<<>>)
    /\ \A a : IsText(<<a>>)
    /\ \A a, b : IsText(<<a, b>>)
    /\ \A a, b, c : IsText(<<a, b, c>>)
    /\ \A a, b, c, d : IsText(<<a, b, c, d>>)
<1>1. \A S : <<>> \in Seq(S)
  OBVIOUS
<1>2. \A S : \A a \in S : <<a>> \in Seq(S)
  OBVIOUS
<1>3. \A a : IsText(<<a>>)
  <2> TAKE a
  <2>1. <<a>> \in Seq({a})
    BY <1>2
  <2> QED
    BY <2>1, Zenon DEF IsText
<1>4. \A a, b : IsText(<<a, b>>)
  <2> TAKE a, b
  <2>1. <<a, b>> \in Seq({a, b})
    OBVIOUS
  <2> QED
    BY <2>1, Zenon DEF IsText
<1>5. \A a, b, c : IsText(<<a, b, c>>)
  <2> TAKE a, b, c
  <2>1. <<a, b, c>> \in Seq({a, b, c})
    OBVIOUS
  <2> QED
    BY <2>1, Zenon DEF IsText
<1>6. \A a, b, c, d : IsText(<<a, b, c, d>>)
  <2> TAKE a, b, c, d
  <2>1. <<a, b, c, d>> \in Seq({a, b, c, d})
    OBVIOUS
  <2> QED
    BY <2>1, Zenon DEF IsText
<1> QED
  BY <1>1, <1>3, <1>4, <1>5, <1>6, Zenon DEF IsText

\* Texts of five, seven and nine symbols.
LEMMA LongTexts ==
    /\ \A a, b, c, d, e : IsText(<<a, b, c, d, e>>)
    /\ \A a, b, c, d, e, f, g : IsText(<<a, b, c, d, e, f, g>>)
    /\ \A a, b, c, d, e, f, g, h, i : IsText(<<a, b, c, d, e, f, g, h, i>>)
<1>1. \A a, b, c, d, e : IsText(<<a, b, c, d, e>>)
  <2> TAKE a, b, c, d, e
  <2>1. <<a, b, c, d, e>> \in Seq({a, b, c, d, e})
    OBVIOUS
  <2> QED
    BY <2>1, Zenon DEF IsText
<1>2. \A a, b, c, d, e, f, g : IsText(<<a, b, c, d, e, f, g>>)
  <2> TAKE a, b, c, d, e, f, g
  <2>1. <<a, b, c, d, e, f, g>> \in Seq({a, b, c, d, e, f, g})
    OBVIOUS
  <2> QED
    BY <2>1, Zenon DEF IsText
<1>3. \A a, b, c, d, e, f, g, h, i : IsText(<<a, b, c, d, e, f, g, h, i>>)
  <2> TAKE a, b, c, d, e, f, g, h, i
  <2>1. <<a, b, c, d, e, f, g, h, i>> \in Seq({a, b, c, d, e, f, g, h, i})
    OBVIOUS
  <2> QED
    BY <2>1, Zenon DEF IsText
<1> QED
  BY <1>1, <1>2, <1>3

\* The words of a line, with gaps, are a text.
LEMMA SpacedIsText ==
    ASSUME NEW words, IsText(words), words # <<>>, NEW gap \in Gaps
    PROVE  IsText(Spaced(words, gap))
<1> DEFINE n == Len(words)
           w == Len(gap) + 1
           m == (n - 1) * w + 2
<1>0. PICK A : words \in Seq(A)
  BY DEF IsText
<1>1. w \in {2, 3} /\ n \in Nat /\ n >= 1
  <2>1. \A a : Len(<<a>>) = 1 /\ Len(<<a, a>>) = 2
    OBVIOUS
  <2>2. Len(gap) = 1 \/ Len(gap) = 2
    BY <2>1, Zenon DEF Gaps
  <2>3. Len(words) \in Nat /\ Len(words) >= 1
    BY <1>0
  <2> DEFINE g == Len(gap)
  <2>4. g = 1 \/ g = 2
    BY <2>2
  <2> HIDE DEF g
  <2>5. g + 1 \in {2, 3}
    BY <2>4
  <2> QED
    BY <2>3, <2>5 DEF g
<1>2. Spaced(words, gap) = [k \in 1 .. m |-> IF k % w = 1 THEN words[k \div w + 1] ELSE SP]
  BY Zenon DEF Spaced
<1>5. \A i \in 1 .. n : words[i] \in A
  BY <1>0
<1> HIDE DEF n, w
<1>3. m \in Nat
  <2>1. (n - 1) * 2 + 2 \in Nat /\ (n - 1) * 3 + 2 \in Nat
    BY <1>1
  <2>2. w = 2 \/ w = 3
    BY <1>1
  <2> QED
    BY <2>1, <2>2, Zenon
<1>4. ASSUME NEW k \in 1 .. m, k % w = 1 PROVE k \div w + 1 \in 1 .. n
  <2>1. CASE w = 2
    <3>1. k % 2 = 1 /\ k <= (n - 1) * 2 + 2
      BY <1>4, <2>1
    <3>2. k \div 2 + 1 \in 1 .. n
      BY <1>1, <3>1
    <3> QED
      BY <2>1, <3>2
  <2>2. CASE w = 3
    <3>1. k % 3 = 1 /\ k <= (n - 1) * 3 + 2
      BY <1>4, <2>2
    <3>2. k \div 3 + 1 \in 1 .. n
      BY <1>1, <3>1
    <3> QED
      BY <2>2, <3>2
  <2> QED
    BY <1>1, <2>1, <2>2
<1> HIDE DEF m
<1> DEFINE B == A \cup {SP}
<1>7. [k \in 1 .. m |-> IF k % w = 1 THEN words[k \div w + 1] ELSE SP] \in [1 .. m -> B]
  BY <1>4, <1>5
<1>8. [1 .. m -> B] \subseteq Seq(B)
  BY <1>3
<1>9. Spaced(words, gap) \in Seq(B)
  BY <1>2, <1>7, <1>8, Zenon
<1> QED
  BY <1>9, Zenon DEF IsText

\* What a line of a listing is made from.
LEMMA PartsAreTexts ==
    /\ \A s \in UnixNames \cup VmsNames \cup MsDosNames \cup Targets : IsText(s)
    /\ \A s \in Gaps \cup Owners \cup Ends \cup {Total} : IsText(s)
    /\ \A f : IsText(Padding(f))
<1>1. \A s \in UnixNames \cup VmsNames \cup MsDosNames \cup Targets : IsText(s)
  BY NamesAssumption, Zenon DEF IsText
<1>2. \A s \in Gaps : IsText(s)
  BY ShortTexts, Zenon DEF Gaps
<1>3. \A s \in Owners : IsText(s)
  <2>1. \A g \in Groups : IsText(g)
    BY GroupsAssumption, Zenon DEF IsText
  <2> QED
    BY <2>1, ShortTexts, TextsJoin, Zenon DEF Owners
<1>4. \A s \in Ends : IsText(s)
  BY ShortTexts, Zenon DEF Ends
<1>5. IsText(Total)
  BY ShortTexts, Zenon DEF Total
<1>6. \A f : IsText(Padding(f))
  BY ShortTexts, Zenon DEF Padding
<1> QED
  BY <1>1, <1>2, <1>3, <1>4, <1>5, <1>6, Zenon

\* The line a server writes for a file is a text.
LEMMA LinesAreTexts ==
    ASSUME NEW f \in Files
    PROVE  IsText(LineOf(f))
<1>1. CASE f \in UnixFiles
  <2>1. f.format = "unix" /\ f.name \in UnixNames /\ f.gap \in Gaps
    BY <1>1, SMT DEF UnixFiles
  <2>8. IsText(f.link)
    <3>1. f.link \in {<<>>} \cup {<<SP, "->", SP>> \o target : target \in Targets}
      BY <1>1, SMT DEF UnixFiles
    <3>2. f.link = <<>> \/ \E target \in Targets : f.link = <<SP, "->", SP>> \o target
      BY <3>1, Zenon
    <3> QED
      BY <3>2, PartsAreTexts, ShortTexts, TextsJoin, Zenon
  <2>2. IsText(f.owner)
    <3>1. f.owner \in Owners \/ f.owner \in {<<"[perm]", "root">>}
      BY <1>1, SMT DEF UnixFiles
    <3> QED
      BY <3>1, PartsAreTexts, ShortTexts, Zenon
  <2> DEFINE words == <<f.type>> \o f.owner \o <<"531", "Apr", "8", f.when>>
  <2>3. IsText(words)
    BY <2>2, ShortTexts, TextsJoin, Zenon
  <2>4. words # <<>>
    <3>1. PICK A : f.owner \in Seq(A)
      BY <2>2 DEF IsText
    <3> DEFINE B == A \cup {f.type, f.when, "531", "Apr", "8"}
    <3>2. <<f.type>> \in Seq(B) /\ f.owner \in Seq(B) /\ <<"531", "Apr", "8", f.when>> \in Seq(B)
      BY <3>1
    <3>3. Len(words) = Len(<<f.type>>) + Len(f.owner) + Len(<<"531", "Apr", "8", f.when>>)
      BY <3>2
    <3>4. Len(words) > 0
      BY <3>1, <3>3
    <3> QED
      BY <3>4
  <2> HIDE DEF words
  <2>5. IsText(Spaced(words, f.gap))
    BY <2>1, <2>3, <2>4, SpacedIsText
  <2>6. UnixLine(f) = Spaced(words, f.gap) \o Padding(f) \o f.name \o f.link
    BY Zenon DEF UnixLine, words
  <2>7. IsText(UnixLine(f))
    BY <2>1, <2>5, <2>6, <2>8, PartsAreTexts, TextsJoin, Zenon
  <2> QED
    BY <2>1, <2>7, Zenon DEF LineOf
<1>2. CASE f \in VmsFiles
  <2>1. f.format = "vms" /\ f.gap \in Gaps /\ f.name \in VmsNames
    BY <1>2, SMT DEF VmsFiles
  <2>2. IsText(f.name) /\ IsText(f.gap)
    BY <2>1, ShortTexts, PartsAreTexts, Zenon
  <2>3. IsText(IF f.dir THEN <<".DIR">> ELSE <<>>) /\ IsText(IF f.seconds THEN <<":", "04">> ELSE <<>>)
    BY ShortTexts, Zenon
  <2>4. IsText(VmsLine(f))
    <3> DEFINE a == f.name \o (IF f.dir THEN <<".DIR">> ELSE <<>>) \o <<SEMI, "2">> \o f.gap
                    \o <<"213/216">> \o f.gap
               b == a \o <<"27", "-", "Jan", "-", "1999", SP, "12", ":", "09">>
               c == b \o (IF f.seconds THEN <<":", "04">> ELSE <<>>) \o f.gap \o <<"[system]">>
    <3>1. IsText(a)
      BY <2>2, <2>3, ShortTexts, TextsJoin, Zenon
    <3> HIDE DEF a
    <3>2. IsText(b)
      BY <3>1, LongTexts, TextsJoin, Zenon
    <3> HIDE DEF b
    <3>3. IsText(c)
      BY <3>2, <2>2, <2>3, ShortTexts, TextsJoin, Zenon
    <3>4. VmsLine(f) = c
      BY Zenon DEF VmsLine, a, b, c
    <3> QED
      BY <3>3, <3>4, Zenon
  <2> QED
    BY <2>1, <2>4, Zenon DEF LineOf
<1>3. CASE f \in MsDosFiles
  <2>1. f.format = "msdos" /\ f.gap \in Gaps /\ f.name \in MsDosNames
    BY <1>3, SMT DEF MsDosFiles
  <2>2. IsText(f.name) /\ IsText(f.gap)
    BY <2>1, ShortTexts, PartsAreTexts, Zenon
  <2>3. IsText(MsDosLine(f))
    <3> DEFINE year == CASE f.year = 1950 -> "50" [] f.year = 1999 -> "1999" [] f.year = 2000 -> "00"
               last == <<IF f.dir THEN "<DIR>" ELSE "531">>
               date == <<"04", "-", "27", "-", year>>
               time == <<IF f.hour \in {0, 12} THEN "12" ELSE "09", ":", "04",
                         IF f.hour < 12 THEN "A" ELSE "P", "M">>
    <3>0. MsDosLine(f) = date \o f.gap \o time \o f.gap \o last \o f.gap \o f.name
      BY Zenon DEF MsDosLine
    <3> HIDE DEF year
    <3>1. IsText(date)
      BY LongTexts, Zenon
    <3>2. IsText(time)
      BY LongTexts, Zenon
    <3>3. IsText(last)
      BY ShortTexts, Zenon
    <3> HIDE DEF date, time, last
    <3> QED
      BY <2>2, <3>0, <3>1, <3>2, <3>3, TextsJoin, Zenon
  <2> QED
    BY <2>1, <2>3, Zenon DEF LineOf
<1> QED
  BY <1>1, <1>2, <1>3 DEF Files

\* A bounded sequence is a sequence.
LEMMA BoundedIsSeq ==
    ASSUME NEW S, NEW n \in Nat, NEW s \in BoundedSeq(S, n)
    PROVE  s \in Seq(S)
<1>1. PICK m \in 0 .. n : s \in [1 .. m -> S]
  BY DEF BoundedSeq, SeqOf
<1> QED
  BY <1>1

\* The inputs of the program.
LEMMA InputIs ==
    ASSUME NEW i \in Inputs
    PROVE  /\ i.mlsd \in BOOLEAN /\ IsText(i.body)
           /\ ~i.mlsd /\ i.file = <<>> => i.body \in Seq(ListSymbols)
<1>0. \A A, B, D, E : \A r \in [body : A, mlsd : B, file : D, cut : E] : r.body \in A /\ r.mlsd \in B
  OBVIOUS
<1>1. CASE i \in [body : BoundedSeq(ListSymbols, MaxRaw), mlsd : {FALSE}, file : {<<>>}, cut : {FALSE}]
  <2>1. i.body \in BoundedSeq(ListSymbols, MaxRaw) /\ i.mlsd = FALSE
    BY <1>0, <1>1, Zenon
  <2>2. i.body \in Seq(ListSymbols)
    BY <2>1, BoundedIsSeq, RawAssumption
  <2> QED
    BY <2>1, <2>2, Zenon DEF IsText
<1>2. CASE i \in [body : MlsdBodies, mlsd : {TRUE}, file : {<<>>}, cut : {FALSE}]
  <2>1. i.body \in MlsdBodies /\ i.mlsd = TRUE
    BY <1>0, <1>2, Zenon
  <2>2. i.body \in Seq({LF, CR, SP, SEMI, "=", "x", "y", "path"})
    BY <2>1, MlsdAssumption, Zenon
  <2> QED
    BY <2>1, <2>2, Zenon DEF IsText
<1>3. \A a : <<a>> # <<>>
  OBVIOUS
<1>4. CASE i \in WholeListings
  <2>1. PICK e \in Ends, l \in Ends \cup {<<>>}, f \in Files :
           i = [body |-> Total \o e \o LineOf(f) \o l, mlsd |-> FALSE, file |-> <<f>>, cut |-> FALSE]
    BY <1>4, SMTT(60) DEF WholeListings
  <2>2. IsText(Total) /\ IsText(e) /\ IsText(LineOf(f)) /\ IsText(l)
    BY PartsAreTexts, LinesAreTexts, ShortTexts, Zenon
  <2>3. IsText(Total \o e \o LineOf(f) \o l)
    BY <2>2, TextsJoin, Zenon
  <2> QED
    BY <1>3, <2>1, <2>3, Zenon
<1>5. CASE i \in CutListings
  <2>0. \E f \in Files : \E n \in 1 .. Len(LineOf(f)) - 1 :
           i = [body |-> Total \o <<LF>> \o SubSeq(LineOf(f), 1, n), mlsd |-> FALSE,
                file |-> <<f>>, cut |-> TRUE]
    BY <1>5, Zenon DEF CutListings
  <2> PICK f \in Files : \E n \in 1 .. Len(LineOf(f)) - 1 :
           i = [body |-> Total \o <<LF>> \o SubSeq(LineOf(f), 1, n), mlsd |-> FALSE,
                file |-> <<f>>, cut |-> TRUE]
    BY <2>0
  <2>1. PICK n \in 1 .. Len(LineOf(f)) - 1 :
           i = [body |-> Total \o <<LF>> \o SubSeq(LineOf(f), 1, n), mlsd |-> FALSE,
                file |-> <<f>>, cut |-> TRUE]
    OBVIOUS
  <2>2. IsText(Total) /\ IsText(<<LF>>) /\ IsText(LineOf(f))
    BY PartsAreTexts, LinesAreTexts, ShortTexts, Zenon
  <2>3. IsText(SubSeq(LineOf(f), 1, n))
    <3>1. PICK A : LineOf(f) \in Seq(A)
      BY <2>2 DEF IsText
    <3>2. n \in 0 .. Len(LineOf(f))
      BY <3>1
    <3> QED
      BY <2>2, <3>2, TextsCut
  <2>4. IsText(Total \o <<LF>> \o SubSeq(LineOf(f), 1, n))
    BY <2>2, <2>3, TextsJoin, Zenon
  <2> QED
    BY <1>3, <2>1, <2>4, Zenon
<1> QED
  BY <1>1, <1>2, <1>4, <1>5, Zenon DEF Inputs

-----------------------------------------------------------------------------
(* safeGetline reads the lines of a body one after the other. *)

\* LineEnd and After as functions of the body and the place of the stream.
EndFrom(s, p) ==
    LET ends == {j \in p .. Len(s) : s[j] \in {LF, CR}}
    IN IF ends = {} THEN Len(s) + 1 ELSE Min(ends)
NextFrom(s, e) ==
    IF e > Len(s) THEN e
    ELSE IF s[e] = CR /\ e < Len(s) /\ s[e + 1] = LF THEN e + 2
    ELSE e + 1

\* Lines start first, or after a line end; where no line starts the body ends.
LEMMA StartsAre ==
    ASSUME NEW S, NEW s \in Seq(S)
    PROVE  /\ StartsOf(s) \subseteq 1 .. Len(s)
           /\ \A q \in StartsOf(s) : q = 1 \/ q - 1 \in EndsOf(s)
           /\ \A j \in EndsOf(s) : j + 1 \in StartsOf(s) \cup {Len(s) + 1}
           /\ 1 \in StartsOf(s) \cup {Len(s) + 1}
           /\ EndsOf(s) \subseteq 1 .. Len(s)
<1>1. EndsOf(s) \subseteq 1 .. Len(s)
  BY DEF EndsOf
<1>2. Len(s) \in Nat
  OBVIOUS
<1>3. \A q : q \in StartsOf(s) <=> q # Len(s) + 1 /\ (q = 1 \/ \E j \in EndsOf(s) : q = j + 1)
  BY Zenon DEF StartsOf
<1>4. StartsOf(s) \subseteq 1 .. Len(s)
  BY <1>1, <1>2, <1>3
<1>5. \A j \in EndsOf(s) : (j + 1) - 1 = j
  BY <1>1
<1> QED
  BY <1>1, <1>3, <1>4, <1>5

\* The next line: what is read is the line that starts there, the next place is
\* the next start or the end of the body, and the end of the body gives no line.
LEMMA LineIs ==
    ASSUME NEW S, NEW s \in Seq(S), NEW p \in StartsOf(s)
    PROVE  /\ SubSeq(s, p, EndFrom(s, p) - 1) = LineAt(s, p)
           /\ LineAt(s, p) \in Seq(S)
           /\ NextFrom(s, EndFrom(s, p)) \in StartsOf(s) \cup {Len(s) + 1}
           /\ \A q \in StartsOf(s) : q < NextFrom(s, EndFrom(s, p)) <=> q <= p
           /\ ~(EndFrom(s, p) > Len(s) /\ LineAt(s, p) = <<>>)
<1> DEFINE n == Len(s)
           T == {j \in p .. n : s[j] \in {LF, CR}}
           U == {j \in EndsOf(s) : j >= p} \cup {n + 1}
           e == EndFrom(s, p)
           a == NextFrom(s, e)
           E == Min(U)
<1>1. p \in 1 .. n /\ n \in Nat
  BY StartsAre
<1>2. EndsOf(s) \subseteq 1 .. n
  BY StartsAre
<1>3. E \in U /\ \A k \in U : E <= k
  <2>1. U \in SUBSET Nat /\ U # {}
    BY <1>1, <1>2
  <2> HIDE DEF U
  <2> QED
    BY <2>1, MinIs
<1>4. LF # CR
  BY Zenon DEF LF, CR
<1>5. \A k \in EndsOf(s) : k >= p => k \in T
  BY <1>1, <1>2 DEF EndsOf
<1>6. LineAt(s, p) = SubSeq(s, p, IF p < E /\ s[E - 1] = CR THEN E - 2 ELSE E - 1)
  BY Zenon DEF LineAt
<1>8. E \in Nat /\ E >= p
  <2>1. \A k \in U : k \in Nat /\ k >= p
    BY <1>1, <1>2
  <2> HIDE DEF U, E
  <2> QED
    BY <2>1, <1>3
<1> HIDE DEF E
<1>7. a \in {E, E + 1} /\ (a = E => E = n + 1 /\ e = n + 1)
      /\ e \in p .. n + 1 /\ (e = n + 1 => E = n + 1 /\ s[n] # CR)
      /\ SubSeq(s, p, e - 1) = LineAt(s, p)
      /\ (a # E => E <= n)
  <2>1. CASE T = {}
    <3>1. e = n + 1
      BY <2>1, Zenon DEF EndFrom
    <3>2. a = n + 1
      BY <1>1, <3>1 DEF NextFrom
    <3>3. E = n + 1
      BY <1>3, <1>5, <2>1, Zenon
    <3>4. s[n] # CR
      BY <1>1, <2>1
    <3>5. ~(p < E /\ s[E - 1] = CR) /\ E - 1 = e - 1
      <4>1. E - 1 = n /\ e - 1 = n
        BY <3>1, <3>3, <1>1
      <4> QED
        BY <3>4, <4>1, Zenon
    <3>6. SubSeq(s, p, e - 1) = LineAt(s, p)
      BY <3>5, <1>6, Zenon
    <3>7. a = E /\ e \in p .. n + 1
      BY <3>1, <3>2, <3>3, <1>1
    <3> QED
      BY <3>1, <3>3, <3>4, <3>6, <3>7, Zenon
  <2>2. CASE T # {}
    <3>1. e = Min(T)
      BY <2>2, Zenon DEF EndFrom
    <3>2. e \in T /\ \A k \in T : e <= k
      <4>1. T \in SUBSET Nat
        BY <1>1
      <4> HIDE DEF T
      <4> QED
        BY <3>1, <4>1, <2>2, MinIs
    <3>3. e \in p .. n /\ s[e] \in {LF, CR} /\ e \in Nat
      BY <3>2, <1>1
    <3>4. p < e => s[e - 1] # CR
      <4>1. p < e => e - 1 \notin T
        BY <3>2, <3>3, <1>1
      <4> QED
        BY <4>1, <3>3, <1>1
    <3> HIDE DEF T
    <3>5. CASE s[e] = CR /\ e < n /\ s[e + 1] = LF
      <4>1. a = e + 2
        BY <3>3, <3>5, <1>1 DEF NextFrom
      <4>2. e + 1 \in U
        BY <3>3, <3>5, <1>1 DEF EndsOf
      <4>3. \A k \in U : k >= e + 1
        <5>1. e \notin EndsOf(s)
          BY <3>5, <1>4 DEF EndsOf
        <5>2. \A k \in EndsOf(s) : k >= p => e <= k /\ k # e /\ k \in Nat
          BY <5>1, <3>2, <1>5, <1>2
        <5> QED
          BY <5>2, <3>3, <1>1
      <4>4. E = e + 1
        <5>1. E >= e + 1 /\ E <= e + 1
          BY <4>2, <4>3, <1>3, Zenon
        <5> HIDE DEF e, U
        <5> QED
          BY <5>1, <3>3, <1>8
      <4>5. e # n + 1 /\ E <= n /\ a = E + 1
        BY <4>1, <4>4, <3>3, <3>5, <1>1
      <4>6. SubSeq(s, p, e - 1) = LineAt(s, p)
        <5>1. p < E /\ s[E - 1] = CR /\ E - 2 = e - 1
          BY <4>4, <3>3, <3>5, <1>1
        <5> HIDE DEF e, E
        <5> QED
          BY <5>1, <1>6, Zenon
      <4>7. a # E /\ a \in {E, E + 1} /\ e \in p .. n + 1
        BY <4>5, <3>3, <1>8, <1>1
      <4> HIDE DEF a, e
      <4> QED
        BY <4>5, <4>6, <4>7, Zenon
    <3>6. CASE ~(s[e] = CR /\ e < n /\ s[e + 1] = LF)
      <4>1. a = e + 1
        BY <3>3, <3>6, <1>1 DEF NextFrom
      <4>2. e \in U
        BY <3>3, <3>6, <1>1 DEF EndsOf
      <4>3. \A k \in U : k >= e
        BY <3>2, <3>3, <1>5, <1>1
      <4>4. E = e
        <5>1. E >= e /\ E <= e
          BY <4>2, <4>3, <1>3, Zenon
        <5> HIDE DEF e, U
        <5> QED
          BY <5>1, <3>3, <1>8
      <4>5. SubSeq(s, p, e - 1) = LineAt(s, p)
        BY <4>4, <1>6, <3>4, Zenon
      <4>6. a # E /\ a \in {E, E + 1} /\ e \in p .. n + 1 /\ e # n + 1 /\ E <= n
        BY <4>1, <4>4, <3>3, <1>8, <1>1
      <4> HIDE DEF a, e
      <4> QED
        BY <4>5, <4>6, Zenon
    <3> QED
      BY <3>5, <3>6
  <2> QED
    BY <2>1, <2>2
<1>9. a \in StartsOf(s) \cup {n + 1}
  <2>1. CASE a = E
    BY <1>7, <2>1
  <2>2. CASE a # E
    <3>1. a = E + 1 /\ E <= n
      BY <1>7, <2>2
    <3>2. E \in EndsOf(s)
      BY <1>3, <1>8, <1>1, <3>1
    <3> QED
      BY <3>1, <3>2, StartsAre
  <2> QED
    BY <2>1, <2>2
<1>10. ASSUME NEW q \in StartsOf(s) PROVE q < a <=> q <= p
  <2>1. q \in 1 .. n /\ (q = 1 \/ q - 1 \in EndsOf(s))
    BY StartsAre
  <2>2. q <= p => q < a
    BY <2>1, <1>7, <1>8, <1>1
  <2>3. ASSUME q > p PROVE ~(q < a)
    <3>1. q - 1 \in EndsOf(s) /\ q - 1 >= p
      BY <2>1, <2>3, <1>1
    <3>2. E <= q - 1
      BY <3>1, <1>3
    <3> QED
      BY <3>2, <2>1, <1>7, <1>8
  <2> QED
    BY <2>1, <2>2, <2>3, <1>1
<1>11. LineAt(s, p) \in Seq(S)
  <2>1. SubSeq(s, p, e - 1) \in Seq(S)
    <3>1. e - 1 \in p - 1 .. n
      BY <1>7, <1>1
    <3> HIDE DEF e, a
    <3> QED
      BY <3>1, <1>1
  <2> QED
    BY <2>1, <1>7
<1>12. ~(e > n /\ LineAt(s, p) = <<>>)
  <2>1. SUFFICES ASSUME e > n PROVE LineAt(s, p) # <<>>
    OBVIOUS
  <2>2. e = n + 1
    BY <2>1, <1>7, <1>1
  <2>3. LineAt(s, p) = SubSeq(s, p, n)
    <3>1. e - 1 = n
      BY <2>2, <1>1
    <3> HIDE DEF e, a
    <3> QED
      BY <3>1, <1>7
  <2>4. Len(SubSeq(s, p, n)) = n - p + 1
    BY <1>1
  <2>5. n - p + 1 # 0 /\ Len(<<>>) = 0
    BY <1>1
  <2> QED
    BY <2>3, <2>4, <2>5, Zenon
<1> QED
  BY <1>7, <1>9, <1>10, <1>11, <1>12

\* Where the body ends nothing is read.
LEMMA LastRead ==
    ASSUME NEW S, NEW s \in Seq(S)
    PROVE  /\ EndFrom(s, Len(s) + 1) = Len(s) + 1
           /\ NextFrom(s, Len(s) + 1) = Len(s) + 1
           /\ SubSeq(s, Len(s) + 1, Len(s)) = <<>>
<1>1. Len(s) \in Nat
  OBVIOUS
<1>2. {j \in Len(s) + 1 .. Len(s) : s[j] \in {LF, CR}} = {}
  BY <1>1
<1>3. EndFrom(s, Len(s) + 1) = Len(s) + 1
  BY <1>2, Zenon DEF EndFrom
<1>4. NextFrom(s, Len(s) + 1) = Len(s) + 1
  BY <1>1 DEF NextFrom
<1> QED
  BY <1>3, <1>4

-----------------------------------------------------------------------------
(* The number of a line. *)

\* The places of K before p.
Below(K, p) == {q \in K : q < p}

\* A place of K counts one; of a place that is none nothing is counted.
LEMMA CountsOne ==
    ASSUME NEW n \in Nat, NEW K \in SUBSET (1 .. n), NEW p \in Nat, NEW a \in Nat,
           \A q \in K : q < a <=> q <= p
    PROVE  /\ Cardinality(Below(K, p)) \in Nat
           /\ p \in K => /\ Cardinality(Below(K, a)) = Cardinality(Below(K, p)) + 1
                         /\ NumberIn(K, p) = Cardinality(Below(K, p)) + 1
           /\ p \notin K => Below(K, a) = Below(K, p)
<1>0. \A q \in K : q \in 1 .. n /\ (q <= p <=> q < p \/ q = p) /\ p <= p
  OBVIOUS
<1>1. IsFiniteSet(1 .. n)
  BY FS_Interval
<1>2. IsFiniteSet(Below(K, p))
  <2>1. Below(K, p) \in SUBSET (1 .. n)
    BY DEF Below
  <2> QED
    BY <1>1, <2>1, FS_Subset
<1>3. Cardinality(Below(K, p)) \in Nat
  BY <1>2, FS_CardinalityType
<1>4. ASSUME p \in K
      PROVE  /\ Cardinality(Below(K, a)) = Cardinality(Below(K, p)) + 1
             /\ NumberIn(K, p) = Cardinality(Below(K, p)) + 1
  <2>1. p \notin Below(K, p)
    BY DEF Below
  <2>2. {q \in K : q < a} = {q \in K : q < p} \cup {p}
    BY <1>0, <1>4, Zenon
  <2>3. {q \in K : q <= p} = {q \in K : q < p} \cup {p}
    BY <1>0, <1>4, Zenon
  <2>4. Cardinality(Below(K, p) \cup {p}) = Cardinality(Below(K, p)) + 1
    BY <1>2, <2>1, FS_AddElement
  <2> QED
    BY <2>2, <2>3, <2>4, Zenon DEF NumberIn, Below
<1>5. p \notin K => Below(K, a) = Below(K, p)
  BY <1>0, Zenon DEF Below
<1> QED
  BY <1>3, <1>4, <1>5

\* A line before a place has a number of those before the place.
LEMMA NumberIsBelow ==
    ASSUME NEW n \in Nat, NEW K \in SUBSET (1 .. n), NEW a \in Nat, NEW p \in Below(K, a)
    PROVE  NumberIn(K, p) \in 1 .. Cardinality(Below(K, a))
<1> DEFINE T == {q \in K : q <= p}
<1>1. IsFiniteSet(1 .. n)
  BY FS_Interval
<1>2. Below(K, a) \in SUBSET (1 .. n) /\ T \in SUBSET Below(K, a) /\ T # {}
  <2>1. p \in K /\ p < a /\ \A q \in K : q <= p => q < a
    BY DEF Below
  <2>2. p <= p
    BY <2>1
  <2> QED
    BY <2>1, <2>2, Zenon DEF Below
<1> HIDE DEF T
<1>3. IsFiniteSet(Below(K, a)) /\ IsFiniteSet(T)
  BY <1>1, <1>2, FS_Subset
<1>4. Cardinality(T) <= Cardinality(Below(K, a))
  BY <1>2, <1>3, FS_Subset
<1>5. Cardinality(T) \in Nat /\ Cardinality(T) # 0 /\ Cardinality(Below(K, a)) \in Nat
  BY <1>2, <1>3, FS_CardinalityType, FS_EmptySet
<1> QED
  BY <1>4, <1>5 DEF NumberIn, T

-----------------------------------------------------------------------------
(* The loop. *)

\* The lines that get an element, and the element.
Kept(i) == {p \in StartsOf(i.body) : i.mlsd => HasPath(LineAt(i.body, p))}
Element(i, line) == IF i.mlsd THEN Mlsd(line) ELSE Stored(FtpParse(line))

\* Before the place of the stream every line has its element; with eofbit a LIST
\* body has one Null more.
ElementsInv ==
    /\ \E S : elements \in Seq(S)
    /\ Len(elements) = Cardinality(Below(Kept(input), pos)) + (IF eofbit /\ ~input.mlsd THEN 1 ELSE 0)
    /\ eofbit /\ ~input.mlsd => elements[Len(elements)] = Null
    /\ \A p \in Below(Kept(input), pos) :
          elements[NumberIn(Kept(input), p)] = Element(input, LineAt(body, p))

\* The inductive invariant.
IInv ==
    /\ input \in Inputs
    /\ pc \in {"loop", "done"} /\ eofbit \in BOOLEAN
    /\ pos \in StartsOf(body) \cup {Len(body) + 1}
    /\ eofbit => pos = Len(body) + 1
    /\ pc = "done" => eofbit
    /\ ElementsInv

\* Elements that are added at the end leave the others where they are.
LEMMA AddedAtTheEnd ==
    ASSUME NEW s, \E S : s \in Seq(S)
    PROVE  /\ Len(s) \in Nat /\ s \o <<>> = s
           /\ \A x : /\ \E S : s \o <<x>> \in Seq(S)
                     /\ Len(s \o <<x>>) = Len(s) + 1
                     /\ (s \o <<x>>)[Len(s) + 1] = x
                     /\ \A i \in 1 .. Len(s) : (s \o <<x>>)[i] = s[i]
<1>1. PICK A : s \in Seq(A)
  OBVIOUS
<1>2. Len(s) \in Nat /\ s \o <<>> = s
  BY <1>1
<1>3. ASSUME NEW x
      PROVE  /\ \E S : s \o <<x>> \in Seq(S)
             /\ Len(s \o <<x>>) = Len(s) + 1
             /\ (s \o <<x>>)[Len(s) + 1] = x
             /\ \A i \in 1 .. Len(s) : (s \o <<x>>)[i] = s[i]
  <2>1. s \in Seq(A \cup {x}) /\ <<x>> \in Seq(A \cup {x}) /\ Len(<<x>>) = 1 /\ <<x>>[1] = x
    BY <1>1
  <2>2. s \o <<x>> \in Seq(A \cup {x})
    BY <2>1
  <2>3. Len(s \o <<x>>) = Len(s) + 1 /\ (s \o <<x>>)[Len(s) + 1] = x
    BY <2>1
  <2>4. \A i \in 1 .. Len(s) : (s \o <<x>>)[i] = s[i]
    BY <2>1
  <2> QED
    BY <2>2, <2>3, <2>4, Zenon
<1> QED
  BY <1>2, <1>3

\* The lines that get an element are lines of the body.
LEMMA KeptIs ==
    ASSUME NEW i \in Inputs
    PROVE  /\ Len(i.body) \in Nat /\ Kept(i) \in SUBSET (1 .. Len(i.body))
           /\ Kept(i) \in SUBSET StartsOf(i.body)
           /\ i.mlsd \in BOOLEAN
           /\ \E S : i.body \in Seq(S)
<1>1. PICK S : i.body \in Seq(S)
  BY InputIs, Zenon DEF IsText
<1>2. Kept(i) \in SUBSET StartsOf(i.body)
  BY DEF Kept
<1>3. Len(i.body) \in Nat
  BY <1>1
<1> QED
  BY <1>1, <1>2, <1>3, StartsAre, InputIs

\* The loop starts with no line read and no element.
LEMMA InitInv == Init => IInv
<1> SUFFICES ASSUME Init PROVE IInv
  OBVIOUS
<1>1. input \in Inputs /\ pos = 1 /\ eofbit = FALSE /\ elements = <<>> /\ pc = "loop"
  BY Zenon DEF Init
<1>2. PICK S : body \in Seq(S)
  BY <1>1, KeptIs, Zenon DEF body
<1>3. pos \in StartsOf(body) \cup {Len(body) + 1}
  BY <1>1, <1>2, StartsAre
<1>4. Below(Kept(input), pos) = {}
  <2>1. \A p \in Kept(input) : ~(p < 1)
    BY <1>1, KeptIs
  <2> QED
    BY <1>1, <2>1, Zenon DEF Below
<1>5. ElementsInv
  <2>1. <<>> \in Seq({}) /\ Len(<<>>) = 0 + 0
    OBVIOUS
  <2>2. Cardinality({}) = 0
    BY FS_EmptySet
  <2> QED
    BY <1>1, <1>4, <2>1, <2>2, Zenon DEF ElementsInv
<1>6. pc \in {"loop", "done"} /\ pc # "done" /\ eofbit \in BOOLEAN
  <2>1. "loop" # "done"
    OBVIOUS
  <2> QED
    BY <1>1, <2>1, Zenon
<1> QED
  BY <1>1, <1>3, <1>5, <1>6, Zenon DEF IInv

\* A round reads one line and gives it its element, or, at the end of the body, sets
\* eofbit and gives a LIST body one Null more.
LEMMA ReadLineInv == IInv /\ ReadLine => IInv'
<1> SUFFICES ASSUME IInv, ReadLine PROVE IInv'
  OBVIOUS
<1> DEFINE n == Len(body)
           K == Kept(input)
           e == EndFrom(body, pos)
           a == NextFrom(body, e)
           line == SubSeq(body, pos, e - 1)
<1>1. LineEnd = e /\ \A x : After(x) = NextFrom(body, x)
  BY Zenon DEF LineEnd, EndFrom, After, NextFrom
<1>2. /\ pc = "loop" /\ eofbit = FALSE /\ pc' = pc /\ input' = input
      /\ pos' = a /\ elements' = Append1(line) /\ eofbit' = SetsEof(line, e)
  <2>1. /\ pc = "loop" /\ ~eofbit /\ pc' = pc /\ input' = input
        /\ pos' = a /\ elements' = Append1(line) /\ eofbit' = SetsEof(line, e)
    BY <1>1, Zenon DEF ReadLine
  <2>2. eofbit \in BOOLEAN
    BY Zenon DEF IInv
  <2> QED
    BY <2>1, <2>2, Zenon
<1>3. input \in Inputs /\ body' = body
  BY <1>2, Zenon DEF IInv, body
<1>4. /\ n \in Nat /\ K \in SUBSET (1 .. n) /\ K \in SUBSET StartsOf(body) /\ input.mlsd \in BOOLEAN
      /\ \E S : body \in Seq(S)
  BY <1>3, KeptIs, Zenon DEF body
<1>5. PICK S : body \in Seq(S)
  BY <1>4
<1>6. pos \in StartsOf(body) \cup {n + 1}
  BY Zenon DEF IInv
<1>7. /\ \E T : elements \in Seq(T)
      /\ Len(elements) = Cardinality(Below(K, pos))
      /\ \A p \in Below(K, pos) : elements[NumberIn(K, p)] = Element(input, LineAt(body, p))
  <2>1. ElementsInv
    BY Zenon DEF IInv
  <2>2. Len(elements) = Cardinality(Below(K, pos)) + 0
    BY <1>2, <2>1, Zenon DEF ElementsInv
  <2>3. Len(elements) \in Nat /\ Cardinality(Below(K, pos)) \in Nat
    <3>1. Len(elements) \in Nat
      BY <2>1, AddedAtTheEnd, Zenon DEF ElementsInv
    <3>2. Below(K, pos) \in SUBSET (1 .. n)
      BY <1>4, Zenon DEF Below
    <3>3. IsFiniteSet(Below(K, pos))
      <4>1. IsFiniteSet(1 .. n)
        BY <1>4, FS_Interval
      <4> QED
        BY <3>2, <4>1, FS_Subset
    <3> QED
      BY <3>1, <3>3, FS_CardinalityType
  <2>4. Len(elements) = Cardinality(Below(K, pos))
    BY <2>2, <2>3
  <2> QED
    BY <2>1, <2>4, Zenon DEF ElementsInv
<1> HIDE DEF n, K, e, a, line
<1>8. ASSUME pos' \in StartsOf(body) \cup {n + 1}, eofbit' \in BOOLEAN,
             eofbit' => pos' = n + 1, ElementsInv'
      PROVE  IInv'
  <2>1. pc' \in {"loop", "done"} /\ pc' # "done"
    BY <1>2, SMT
  <2> QED
    BY <1>2, <1>3, <1>8, <2>1, Zenon DEF IInv, n
<1>9. CASE pos = n + 1
  <2>1. e = n + 1 /\ a = n + 1 /\ line = <<>>
    <3>1. (n + 1) - 1 = n
      BY <1>4
    <3>2. e = n + 1 /\ a = n + 1
      BY <1>5, <1>9, LastRead, Zenon DEF n, e, a
    <3> QED
      BY <1>5, <1>9, <3>1, <3>2, LastRead, Zenon DEF n, line
  <2>2. eofbit' = TRUE
    <3>1. n + 1 > n
      BY <1>4
    <3> QED
      BY <1>2, <2>1, <3>1, Zenon DEF SetsEof, n
  <2>3. pos' = pos
    BY <1>2, <1>9, <2>1
  <2>4. ElementsInv'
    <3>1. CASE input.mlsd = TRUE
      <4>1. Path(<<>>) = <<>>
        <5>1. <<>> \in Seq(S)
          OBVIOUS
        <5>2. ~HasPath(<<>>)
          BY Zenon DEF HasPath
        <5> QED
          BY <5>1, <5>2, MlsdIs
      <4>2. elements' = elements \o <<>>
        BY <1>2, <2>1, <3>1, <4>1, Zenon DEF Append1
      <4>3. elements' = elements /\ Len(elements) = Len(elements) + 0
        BY <1>7, <4>2, AddedAtTheEnd
      <4> QED
        BY <1>2, <1>3, <1>7, <2>3, <3>1, <4>3, Zenon DEF ElementsInv, K
    <3>2. CASE input.mlsd = FALSE
      <4>1. Stored(FtpParse(<<>>)) = Null
        BY DEF FtpParse, Stored, Null
      <4>2. elements' = elements \o <<Null>>
        BY <1>2, <2>1, <3>2, <4>1, Zenon DEF Append1
      <4>3. /\ \E T : elements' \in Seq(T)
            /\ Len(elements') = Len(elements) + 1 /\ elements'[Len(elements) + 1] = Null
            /\ \A i \in 1 .. Len(elements) : elements'[i] = elements[i]
        BY <1>7, <4>2, AddedAtTheEnd
      <4>4. \A p \in Below(K, pos) : NumberIn(K, p) \in 1 .. Len(elements)
        <5>1. pos \in Nat
          BY <1>4, <1>9
        <5> QED
          BY <1>4, <1>7, <5>1, NumberIsBelow
      <4> QED
        BY <1>2, <1>3, <1>7, <2>2, <2>3, <3>2, <4>3, <4>4, Zenon DEF ElementsInv, K
    <3> QED
      BY <1>4, <3>1, <3>2
  <2> QED
    BY <1>2, <1>8, <1>9, <2>1, <2>2, <2>4, Zenon
<1>10. CASE pos \in StartsOf(body)
  <2>1. /\ line = LineAt(body, pos) /\ LineAt(body, pos) \in Seq(S)
        /\ a \in StartsOf(body) \cup {n + 1}
        /\ \A q \in StartsOf(body) : q < a <=> q <= pos
        /\ ~(e > n /\ line = <<>>)
    BY <1>5, <1>10, LineIs, Zenon DEF line, e, a, n
  <2>2. eofbit' = FALSE
    BY <1>2, <2>1, Zenon DEF SetsEof, n
  <2>3. pos \in Nat /\ a \in Nat
    <3>1. StartsOf(body) \subseteq 1 .. n
      BY <1>5, StartsAre DEF n
    <3> QED
      BY <1>4, <1>10, <2>1, <3>1
  <2>4. /\ pos \in K => /\ Cardinality(Below(K, a)) = Cardinality(Below(K, pos)) + 1
                        /\ NumberIn(K, pos) = Cardinality(Below(K, pos)) + 1
        /\ pos \notin K => Below(K, a) = Below(K, pos)
    <3>1. \A q \in K : q < a <=> q <= pos
      BY <1>4, <2>1, Zenon
    <3> QED
      BY <1>4, <2>3, <3>1, CountsOne
  <2>5. \A p \in Below(K, a) : p = pos \/ p \in Below(K, pos)
    <3>1. \A q \in K : q \in Nat /\ (q <= pos => q = pos \/ q < pos)
      BY <1>4, <2>3
    <3> QED
      BY <1>4, <2>1, <3>1, Zenon DEF Below
  <2>6. pos \in K <=> (input.mlsd => HasPath(LineAt(body, pos)))
    BY <1>10, Zenon DEF K, Kept, body
  <2>7. HasPath(LineAt(body, pos)) <=> Path(line) # <<>>
    BY <2>1, MlsdIs
  <2>8. ElementsInv'
    <3>1. CASE pos \in K
      <4>1. elements' = elements \o <<Element(input, line)>>
        BY <1>2, <1>4, <2>6, <2>7, <3>1, Zenon DEF Append1, Element
      <4>2. /\ \E T : elements' \in Seq(T)
            /\ Len(elements') = Len(elements) + 1
            /\ elements'[Len(elements) + 1] = Element(input, line)
            /\ \A i \in 1 .. Len(elements) : elements'[i] = elements[i]
            /\ Len(elements') \in Nat
        BY <1>7, <4>1, AddedAtTheEnd
      <4>3. Len(elements') = Cardinality(Below(K, a)) + 0
        BY <1>7, <2>4, <3>1, <4>2
      <4>4. \A p \in Below(K, pos) : NumberIn(K, p) \in 1 .. Len(elements)
        BY <1>4, <1>7, <2>3, NumberIsBelow
      <4>5. \A p \in Below(K, a) : elements'[NumberIn(K, p)] = Element(input, LineAt(body, p))
        <5>1. elements'[NumberIn(K, pos)] = Element(input, LineAt(body, pos))
          BY <1>7, <2>1, <2>4, <3>1, <4>2, Zenon
        <5>2. \A p \in Below(K, pos) : elements'[NumberIn(K, p)] = Element(input, LineAt(body, p))
          BY <1>7, <4>2, <4>4, Zenon
        <5> QED
          BY <2>5, <5>1, <5>2, Zenon
      <4> QED
        BY <1>2, <1>3, <2>2, <4>2, <4>3, <4>5, Zenon DEF ElementsInv, K
    <3>2. CASE pos \notin K
      <4>1. elements' = elements \o <<>>
        BY <1>2, <1>4, <2>6, <2>7, <3>2, Zenon DEF Append1
      <4>2. elements' = elements /\ Len(elements) = Len(elements) + 0
        BY <1>7, <4>1, AddedAtTheEnd
      <4>3. Below(K, a) = Below(K, pos)
        BY <2>4, <3>2
      <4> QED
        BY <1>2, <1>3, <1>7, <2>2, <4>2, <4>3, Zenon DEF ElementsInv, K
    <3> QED
      BY <3>1, <3>2
  <2> QED
    BY <1>2, <1>8, <2>1, <2>2, <2>8, Zenon
<1> QED
  BY <1>6, <1>9, <1>10

\* The other steps read nothing; the loop ends with eofbit only.
LEMMA OtherStepsInv == IInv /\ (Stop \/ UNCHANGED vars) => IInv'
<1>1. IInv /\ Stop => IInv'
  BY SMT DEF IInv, ElementsInv, Stop, body
<1>2. IInv /\ UNCHANGED vars => IInv'
  BY SMT DEF IInv, ElementsInv, vars, body
<1> QED
  BY <1>1, <1>2

\* The loop reads every line of the body once, in order, and the collection has the
\* elements of the lines read (4DPlugin-cURL.cpp:2830-2950), whatever the body.
THEOREM ReadsEveryLine == Spec => []IInv
<1>1. IInv /\ [Next]_vars => IInv'
  <2>1. Finished => UNCHANGED vars
    BY Zenon DEF Finished
  <2> QED
    BY <2>1, ReadLineInv, OtherStepsInv, Zenon DEF Next
<1> QED
  BY <1>1, InitInv, PTL DEF Spec

\* What holds where the loop ends: every line has its element.
LEMMA AtTheEnd ==
    ASSUME IInv, pc = "done"
    PROVE  /\ \E S : body \in Seq(S)
           /\ Below(Kept(input), pos) = Kept(input)
           /\ Cardinality(Kept(input)) \in Nat
           /\ Len(elements) = Cardinality(Kept(input)) + (IF input.mlsd THEN 0 ELSE 1)
           /\ ~input.mlsd => Kept(input) = StartsOf(body) /\ elements[Len(elements)] = Null
           /\ \A p \in Kept(input) :
                elements[NumberIn(Kept(input), p)] = Element(input, LineAt(body, p))
<1> DEFINE K == Kept(input)
           n == Len(body)
<1>1. input \in Inputs /\ eofbit /\ pos = n + 1 /\ ElementsInv
  BY Zenon DEF IInv
<1>2. n \in Nat /\ K \in SUBSET (1 .. n) /\ input.mlsd \in BOOLEAN /\ \E S : body \in Seq(S)
  BY <1>1, KeptIs, Zenon DEF body
<1>3. Below(K, pos) = K
  <2> HIDE DEF K, n
  <2>1. \A p \in K : p < pos
    BY <1>1, <1>2
  <2> QED
    BY <2>1, Zenon DEF Below
<1>4. Cardinality(K) \in Nat
  <2>1. IsFiniteSet(1 .. n)
    BY <1>2, FS_Interval
  <2> HIDE DEF K, n
  <2>2. IsFiniteSet(K)
    BY <1>2, <2>1, FS_Subset
  <2> QED
    BY <2>2, FS_CardinalityType
<1>5. ~input.mlsd => K = StartsOf(body)
  BY Zenon DEF Kept, body
<1>6. Len(elements) = Cardinality(K) + (IF eofbit /\ ~input.mlsd THEN 1 ELSE 0)
  BY <1>1, <1>3, Zenon DEF ElementsInv
<1>7. Len(elements) = Cardinality(K) + (IF input.mlsd THEN 0 ELSE 1)
  BY <1>1, <1>2, <1>6, Zenon
<1>8. ~input.mlsd => elements[Len(elements)] = Null
  BY <1>1, Zenon DEF ElementsInv
<1>9. \A p \in K : elements[NumberIn(K, p)] = Element(input, LineAt(body, p))
  BY <1>1, <1>3, Zenon DEF ElementsInv
<1> QED
  BY <1>2, <1>3, <1>4, <1>5, <1>7, <1>8, <1>9, Zenon

\* Every line of a LIST body, whatever its line end, has its element at its place, and
\* nothing but Null comes after them (4DPlugin-cURL.cpp:2866-2949), for bodies of every
\* length.
THEOREM ListingElementPerLine == Spec => []OneElementPerLine
<1>1. IInv => OneElementPerLine
  <2> SUFFICES ASSUME IInv, pc = "done", ~input.mlsd
               PROVE  LET starts == StartsOf(body) IN
                      /\ Len(elements) >= Cardinality(starts)
                      /\ \A p \in starts :
                            elements[NumberIn(starts, p)] = Stored(FtpParse(LineAt(body, p)))
                      /\ \A i \in Cardinality(starts) + 1 .. Len(elements) : elements[i] = Null
    BY Zenon DEF OneElementPerLine
  <2> DEFINE starts == StartsOf(body)
  <2>1. /\ Kept(input) = starts /\ Cardinality(starts) \in Nat
        /\ Len(elements) = Cardinality(starts) + 1 /\ elements[Len(elements)] = Null
    BY AtTheEnd, Zenon
  <2>2. \A p \in starts : elements[NumberIn(starts, p)] = Stored(FtpParse(LineAt(body, p)))
    BY <2>1, AtTheEnd, Zenon DEF Element
  <2> HIDE DEF starts
  <2>3. \A i \in Cardinality(starts) + 1 .. Len(elements) : i = Len(elements)
    BY <2>1
  <2> QED
    BY <2>1, <2>2, <2>3 DEF starts
<1> QED
  BY <1>1, ReadsEveryLine, PTL

\* Each element says what its line says, if the line is EPLF, and is Null if it is not
\* (ftpparse.c:175-208), for bodies of every length over every set of symbols without
\* a word of another format.
THEOREM ListingEplfUnderstood == Spec => []EplfLinesUnderstood
<1>1. IInv => EplfLinesUnderstood
  <2> SUFFICES ASSUME IInv, pc = "done", ~input.mlsd, input.file = <<>>, NEW p \in StartsOf(body)
               PROVE  EplfAgrees(LineAt(body, p), elements[NumberIn(StartsOf(body), p)])
    BY Zenon DEF EplfLinesUnderstood
  <2>1. elements[NumberIn(StartsOf(body), p)] = Stored(FtpParse(LineAt(body, p)))
    BY AtTheEnd, Zenon DEF Element
  <2>2. body \in Seq(ListSymbols)
    <3>1. input \in Inputs
      BY Zenon DEF IInv
    <3> QED
      BY <3>1, InputIs, Zenon DEF body
  <2>3. LineAt(body, p) \in Seq(ListSymbols)
    BY <2>2, LineIs, Zenon
  <2>4. EplfAgrees(LineAt(body, p), FtpParse(LineAt(body, p)))
    BY <2>3, ListLine, Zenon
  <2> QED
    BY <2>1, <2>3, <2>4, ListLine, StoredAgrees, Zenon
<1> QED
  BY <1>1, ReadsEveryLine, PTL

\* An MLSD body of lines that are in no doubt gives one element for each line with a
\* path, in order, with exactly the keys of its facts, each with its last value, and its
\* path (4DPlugin-cURL.cpp:2830-2864), for bodies of every length.
THEOREM ListingMlsdKept == Spec => []MlsdLinesKept
<1>1. IInv => MlsdLinesKept
  <2> SUFFICES ASSUME IInv, pc = "done", input.mlsd
               PROVE  /\ Len(elements) = Cardinality(Kept(input))
                      /\ \A p \in Kept(input) :
                           MlsdAgrees(LineAt(body, p), elements[NumberIn(Kept(input), p)])
    <3>1. input.mlsd => Kept(input) = {p \in StartsOf(body) : HasPath(LineAt(body, p))}
      BY Zenon DEF Kept, body
    <3> QED
      BY <3>1, Zenon DEF MlsdLinesKept
  <2>1. Len(elements) = Cardinality(Kept(input)) + 0 /\ Cardinality(Kept(input)) \in Nat
    BY AtTheEnd, Zenon
  <2>2. PICK S : body \in Seq(S)
    BY AtTheEnd, Zenon
  <2>3. ASSUME NEW p \in Kept(input)
        PROVE  MlsdAgrees(LineAt(body, p), elements[NumberIn(Kept(input), p)])
    <3>1. p \in StartsOf(body)
      BY Zenon DEF Kept, body
    <3>2. LineAt(body, p) \in Seq(S)
      BY <2>2, <3>1, LineIs, Zenon
    <3>3. elements[NumberIn(Kept(input), p)] = Mlsd(LineAt(body, p))
      BY AtTheEnd, Zenon DEF Element
    <3> QED
      BY <3>2, <3>3, MlsdIs, Zenon
  <2> QED
    BY <2>1, <2>3
<1> QED
  BY <1>1, ReadsEveryLine, PTL

-----------------------------------------------------------------------------
(* Texts, and the loops that look for symbols in them. *)

\* The symbols of a text, of two joined, and of the beginning of one.
LEMMA TextIs ==
    ASSUME NEW s, IsText(s)
    PROVE  Len(s) \in Nat /\ DOMAIN s = 1 .. Len(s)
<1>1. PICK A : s \in Seq(A)
  BY DEF IsText
<1> QED
  BY <1>1

Join(s, t) == s \o t
TextOf(s, n) == IsText(s) /\ n \in Nat /\ Len(s) = n

\* The text u stands in s after the place a.
Holds(s, a, u) ==
    /\ IsText(s) /\ IsText(u) /\ a \in Nat
    /\ a + Len(u) <= Len(s) /\ \A i \in 1 .. Len(u) : s[a + i] = u[i]

\* Where the symbols of two joined texts are.
LEMMA JoinIs ==
    ASSUME NEW s, NEW m, TextOf(s, m), NEW t, NEW n, TextOf(t, n)
    PROVE  TextOf(Join(s, t), m + n) /\ Holds(Join(s, t), 0, s) /\ Holds(Join(s, t), m, t)
<1>0. IsText(s) /\ IsText(t) /\ m \in Nat /\ n \in Nat /\ Len(s) = m /\ Len(t) = n
  BY DEF TextOf
<1>1. PICK A : s \in Seq(A)
  BY <1>0 DEF IsText
<1>2. PICK B : t \in Seq(B)
  BY <1>0 DEF IsText
<1>3. s \in Seq(A \cup B) /\ t \in Seq(A \cup B)
  BY <1>1, <1>2
<1> DEFINE u == s \o t
<1>4. /\ Len(u) = m + n
      /\ \A i \in 1 .. m : u[i] = s[i]
      /\ \A i \in 1 .. n : u[m + i] = t[i]
  BY <1>0, <1>3, SMT
<1>5. IsText(u)
  BY <1>0, TextsJoin
<1>6. Join(s, t) = u
  BY DEF Join
<1> HIDE DEF u
<1>7. TextOf(u, m + n)
  BY <1>0, <1>4, <1>5 DEF TextOf
<1>8. Holds(u, 0, s)
  BY <1>0, <1>4, <1>5 DEF Holds
<1>9. Holds(u, m, t)
  BY <1>0, <1>4, <1>5 DEF Holds
<1> QED
  BY <1>6, <1>7, <1>8, <1>9

\* What a text holds, it holds with another text after it.
LEMMA HoldsOn ==
    ASSUME NEW s, NEW a, NEW u, Holds(s, a, u), NEW t, IsText(t)
    PROVE  Holds(Join(s, t), a, u)
<1>0. IsText(s) /\ IsText(u) /\ a \in Nat /\ a + Len(u) <= Len(s) /\ \A i \in 1 .. Len(u) : s[a + i] = u[i]
  BY DEF Holds
<1>1. Len(s) \in Nat /\ Len(t) \in Nat /\ Len(u) \in Nat
  BY <1>0, TextIs
<1>2. TextOf(s, Len(s)) /\ TextOf(t, Len(t))
  BY <1>0, <1>1, Zenon DEF TextOf
<1>3. TextOf(Join(s, t), Len(s) + Len(t)) /\ Holds(Join(s, t), 0, s)
  BY <1>2, JoinIs, Zenon
<1> DEFINE v == Join(s, t)
<1>4. IsText(v) /\ Len(v) = Len(s) + Len(t) /\ \A i \in 1 .. Len(s) : v[0 + i] = s[i]
  BY <1>3, Zenon DEF TextOf, Holds
<1> HIDE DEF v
<1>5. \A i \in 1 .. Len(u) : a + i \in 1 .. Len(s) /\ 0 + (a + i) = a + i
  BY <1>0, <1>1
<1>6. \A i \in 1 .. Len(u) : v[a + i] = u[i]
  BY <1>0, <1>4, <1>5
<1>7. a + Len(u) <= Len(v)
  BY <1>0, <1>1, <1>4
<1>8. Holds(v, a, u)
  BY <1>0, <1>4, <1>6, <1>7, Zenon DEF Holds
<1> QED
  BY <1>8 DEF v

\* The beginning of a text, symbol by symbol.
LEMMA BeginIs ==
    ASSUME NEW s, IsText(s), NEW n \in 0 .. Len(s)
    PROVE  /\ IsText(SubSeq(s, 1, n)) /\ Len(SubSeq(s, 1, n)) = n
           /\ \A i \in 1 .. n : SubSeq(s, 1, n)[i] = s[i]
<1>1. PICK A : s \in Seq(A)
  BY DEF IsText
<1> QED
  BY <1>1, TextsCut, SMT

\* A beginning of a beginning, and the part of a beginning after another.
LEMMA BeginOfBegin ==
    ASSUME NEW s, IsText(s), NEW n \in 0 .. Len(s), NEW a \in 1 .. n + 1, NEW b \in a - 1 .. n
    PROVE  SubSeq(SubSeq(s, 1, n), a, b) = SubSeq(s, a, b)
<1>1. PICK A : s \in Seq(A)
  BY DEF IsText
<1>2. CASE n = 0
  <2>1. SubSeq(s, 1, 0) = <<>> /\ a = 1 /\ b = 0
    BY <1>1, <1>2
  <2> QED
    BY <1>2, <2>1
<1>3. CASE n > 0
  <2>1. SubSeq(SubSeq(s, 1, n), a, b) = SubSeq(s, 1 + a - 1, 1 + b - 1)
    BY <1>1, <1>3, PartOfPart
  <2> QED
    BY <1>1, <2>1
<1> QED
  BY <1>2, <1>3

\* A number that no other one in a set is less than is its least.
LEMMA LeastOf ==
    ASSUME NEW T \in SUBSET Nat, NEW p \in T, \A j \in T : p <= j
    PROVE  Min(T) = p
<1>1. Min(T) \in T /\ Min(T) <= p
  BY MinIs
<1> DEFINE m == Min(T)
<1>2. m \in Nat /\ m <= p /\ p <= m /\ p \in Nat
  BY <1>1
<1> QED
  BY <1>2

\* The place p, where it is in a text of this length.
At(p, n) == IF p <= n THEN p ELSE 0

\* What the loops of VMS and MSDOS find is the first place that has, or has not, a symbol.
LEMMA UpToIs ==
    ASSUME NEW s, IsText(s), NEW i \in Nat, NEW stops
    PROVE  /\ UpTo(s, i, stops) \in Nat
           /\ UpTo(s, i, stops) = 0 => i = 0 \/ \A j \in i .. Len(s) : s[j] \notin stops
           /\ UpTo(s, i, stops) # 0 =>
                 /\ i > 0 /\ UpTo(s, i, stops) \in i .. Len(s) /\ s[UpTo(s, i, stops)] \in stops
                 /\ \A j \in i .. UpTo(s, i, stops) - 1 : s[j] \notin stops
<1> DEFINE T == {j \in i .. Len(s) : s[j] \in stops}
           u == UpTo(s, i, stops)
<1>1. u = IF i = 0 \/ T = {} THEN 0 ELSE Min(T)
  BY Zenon DEF UpTo
<1>2. Len(s) \in Nat
  BY TextIs
<1>3. T \subseteq Nat /\ \A j : j \in T <=> j \in i .. Len(s) /\ s[j] \in stops
  BY <1>2
<1> HIDE DEF T, u
<1>4. CASE i = 0 \/ T = {}
  <2>1. u = 0
    BY <1>1, <1>4
  <2> QED
    BY <1>3, <1>4, <2>1 DEF u
<1>5. CASE i > 0 /\ T # {}
  <2>1. u = Min(T)
    BY <1>1, <1>5
  <2>2. u \in T /\ \A j \in T : u <= j
    BY <1>3, <1>5, <2>1, MinIs
  <2>3. u \in i .. Len(s) /\ s[u] \in stops /\ u \in Nat /\ u # 0
    BY <1>2, <1>3, <1>5, <2>2
  <2>4. ASSUME NEW j \in i .. u - 1 PROVE s[j] \notin stops
    <3>1. j \in i .. Len(s) /\ ~(u <= j)
      BY <1>2, <2>3
    <3> QED
      BY <1>3, <2>2, <3>1
  <2> QED
    BY <1>5, <2>3, <2>4 DEF u
<1> QED
  BY <1>4, <1>5

\* The place Past finds is the first with another symbol; with 0 there is none.
LEMMA PastIs ==
    ASSUME NEW s, IsText(s), NEW i \in Nat, NEW symbol
    PROVE  /\ Past(s, i, symbol) \in Nat
           /\ Past(s, i, symbol) = 0 => i = 0 \/ \A j \in i .. Len(s) : s[j] = symbol
           /\ Past(s, i, symbol) # 0 =>
                 /\ i > 0 /\ Past(s, i, symbol) \in i .. Len(s) /\ s[Past(s, i, symbol)] # symbol
                 /\ \A j \in i .. Past(s, i, symbol) - 1 : s[j] = symbol
<1> DEFINE T == {j \in i .. Len(s) : s[j] # symbol}
           u == Past(s, i, symbol)
<1>1. u = IF i = 0 \/ T = {} THEN 0 ELSE Min(T)
  BY Zenon DEF Past
<1>2. Len(s) \in Nat
  BY TextIs
<1>3. T \subseteq Nat /\ \A j : j \in T <=> j \in i .. Len(s) /\ s[j] # symbol
  BY <1>2
<1> HIDE DEF T, u
<1>4. CASE i = 0 \/ T = {}
  <2>1. u = 0
    BY <1>1, <1>4
  <2> QED
    BY <1>3, <1>4, <2>1 DEF u
<1>5. CASE i > 0 /\ T # {}
  <2>1. u = Min(T)
    BY <1>1, <1>5
  <2>2. u \in T /\ \A j \in T : u <= j
    BY <1>3, <1>5, <2>1, MinIs
  <2>3. u \in i .. Len(s) /\ s[u] # symbol /\ u \in Nat /\ u # 0
    BY <1>2, <1>3, <1>5, <2>2
  <2>4. ASSUME NEW j \in i .. u - 1 PROVE s[j] = symbol
    <3>1. j \in i .. Len(s) /\ ~(u <= j)
      BY <1>2, <2>3
    <3> QED
      BY <1>3, <2>2, <3>1
  <2> QED
    BY <1>5, <2>3, <2>4 DEF u
<1> QED
  BY <1>4, <1>5

\* ... in a text of which the symbols are known.
LEMMA UpToAt ==
    ASSUME NEW s, IsText(s), NEW i \in Nat, i > 0, NEW p \in Nat, i <= p, NEW stops,
           \A q \in i .. p - 1 : q <= Len(s) => s[q] \notin stops,
           p <= Len(s) => s[p] \in stops
    PROVE  UpTo(s, At(i, Len(s)), stops) = At(p, Len(s))
<1> DEFINE k == At(i, Len(s))
           u == UpTo(s, k, stops)
<1>1. Len(s) \in Nat
  BY TextIs
<1>2. k \in Nat /\ (i <= Len(s) => k = i) /\ (i > Len(s) => k = 0)
  BY <1>1 DEF At
<1> HIDE DEF k
<1>3. /\ u \in Nat
      /\ u = 0 => k = 0 \/ \A j \in k .. Len(s) : s[j] \notin stops
      /\ u # 0 => k > 0 /\ u \in k .. Len(s) /\ s[u] \in stops /\ \A j \in k .. u - 1 : s[j] \notin stops
  BY <1>2, UpToIs
<1> HIDE DEF u
<1>4. u = IF p <= Len(s) THEN p ELSE 0
  BY <1>1, <1>2, <1>3
<1> QED
  BY <1>4 DEF u, k, At

\* ... and Past, from a place that may be after the end, the place of the next symbol.
LEMMA PastAt ==
    ASSUME NEW s, IsText(s), NEW i \in Nat, i > 0, NEW p \in Nat, i <= p, NEW symbol,
           \A q \in i .. p - 1 : q <= Len(s) => s[q] = symbol,
           p <= Len(s) => s[p] # symbol
    PROVE  Past(s, At(i, Len(s)), symbol) = At(p, Len(s))
<1> DEFINE k == At(i, Len(s))
           u == Past(s, k, symbol)
<1>1. Len(s) \in Nat
  BY TextIs
<1>2. k \in Nat /\ (i <= Len(s) => k = i) /\ (i > Len(s) => k = 0)
  BY <1>1 DEF At
<1> HIDE DEF k
<1>3. /\ u \in Nat
      /\ u = 0 => k = 0 \/ \A j \in k .. Len(s) : s[j] = symbol
      /\ u # 0 => k > 0 /\ u \in k .. Len(s) /\ s[u] # symbol /\ \A j \in k .. u - 1 : s[j] = symbol
  BY <1>2, PastIs
<1> HIDE DEF u
<1>4. u = IF p <= Len(s) THEN p ELSE 0
  BY <1>1, <1>2, <1>3
<1> QED
  BY <1>4 DEF u, k, At

\* ... and PastOne goes on by one where the symbol is there, and stays where it is not.
LEMMA PastOneAt ==
    ASSUME NEW s, IsText(s), NEW i \in Nat, i > 0, NEW symbol
    PROVE  /\ (i <= Len(s) => s[i] = symbol) => PastOne(s, At(i, Len(s)), symbol) = At(i + 1, Len(s))
           /\ (i <= Len(s) => s[i] # symbol) => PastOne(s, At(i, Len(s)), symbol) = At(i, Len(s))
<1>1. Len(s) \in Nat
  BY TextIs
<1> QED
  BY <1>1, SMT DEF PastOne, At

\* The words of a line, two spaces that are not one, and the symbols that end words.
LEMMA Words ==
    /\ \A w \in {"-", ":", ".DIR", "2", "213/216", "27", "Jan", "1999", "12", "09", "04", "[system]",
                 "A", "P", "M", "<DIR>", "531", "50", "00", "1994", "03:26", "7:10", "folder",
                 "root", "[perm]", "Apr", "8", "->", "dperm", "-perm", "lperm", "d", "total"} :
          w # SP /\ w # SEMI /\ w # LF /\ w # CR /\ w # "+"
    /\ SP # SEMI /\ SP # LF /\ SP # CR /\ SEMI # LF /\ SEMI # CR /\ LF # CR
  BY Zenon DEF SP, SEMI, LF, CR

\* Texts with the same symbols have the same beginning.
LEMMA SameBegin ==
    ASSUME NEW s, IsText(s), NEW t, IsText(t), NEW k \in Nat, k <= Len(s), k <= Len(t),
           \A i \in 1 .. k : s[i] = t[i]
    PROVE  SubSeq(s, 1, k) = SubSeq(t, 1, k)
<1>1. PICK A : s \in Seq(A)
  BY DEF IsText
<1>2. PICK B : t \in Seq(B)
  BY DEF IsText
<1>3. SubSeq(s, 1, k) \in Seq(A \cup B) /\ SubSeq(t, 1, k) \in Seq(A \cup B)
  BY <1>1, <1>2
<1>4. Len(SubSeq(s, 1, k)) = k /\ Len(SubSeq(t, 1, k)) = k
  BY <1>1, <1>2
<1>5. \A i \in 1 .. k : SubSeq(s, 1, k)[i] = SubSeq(t, 1, k)[i]
  BY <1>1, <1>2
<1> QED
  BY <1>3, <1>4, <1>5, SameSeq

\* The whole of a text, and a symbol of it.
LEMMA WholeIs ==
    ASSUME NEW s, IsText(s)
    PROVE  /\ SubSeq(s, 1, Len(s)) = s
           /\ \A i \in 1 .. Len(s) : SubSeq(s, i, i) = <<s[i]>>
<1>1. PICK A : s \in Seq(A)
  BY DEF IsText
<1>2. SubSeq(s, 1, Len(s)) = s
  <2>1. Len(s) \in Nat
    BY <1>1
  <2>2. SubSeq(s, 1, Len(s)) \in Seq(A) /\ Len(SubSeq(s, 1, Len(s))) = Len(s)
    BY <1>1
  <2>3. \A i \in 1 .. Len(SubSeq(s, 1, Len(s))) : SubSeq(s, 1, Len(s))[i] = s[i]
    BY <1>1, <2>2
  <2> QED
    BY <1>1, <2>2, <2>3, SameSeq
<1>3. ASSUME NEW i \in 1 .. Len(s) PROVE SubSeq(s, i, i) = <<s[i]>>
  <2>1. SubSeq(s, i, i) \in Seq(A) /\ Len(SubSeq(s, i, i)) = 1
    BY <1>1
  <2>2. SubSeq(s, i, i)[1] = s[i]
    BY <1>1
  <2>3. \A a \in A : <<a>> \in Seq(A) /\ Len(<<a>>) = 1 /\ <<a>>[1] = a
    OBVIOUS
  <2> DEFINE t == <<s[i]>>
             u == SubSeq(s, i, i)
  <2>4. t \in Seq(A) /\ Len(t) = 1 /\ t[1] = s[i]
    BY <1>1, <2>3
  <2> HIDE DEF t, u
  <2>5. \A j \in 1 .. Len(u) : u[j] = t[j]
    BY <2>1, <2>2, <2>4 DEF u
  <2>6. u = t
    BY <2>1, <2>4, <2>5, SameSeq DEF u
  <2> QED
    BY <2>6 DEF t, u
<1> QED
  BY <1>2, <1>3

\* What numbers in a line are.
LEMMA NumberIs ==
    ASSUME NEW s, IsText(s), NEW i \in 1 .. Len(s), s[i] \in DOMAIN Value
    PROVE  Number(s, i, i + 1) = Value[s[i]]
<1>1. SubSeq(s, i, i + 1 - 1) = <<s[i]>>
  BY TextIs, WholeIs
<1>2. \A a : Len(<<a>>) = 1 /\ <<a>>[1] = a
  OBVIOUS
<1>3. GetLong(<<s[i]>>) = s[i]
  BY <1>2, Zenon DEF GetLong
<1>4. Number(s, i, i + 1) = Value[GetLong(SubSeq(s, i, i + 1 - 1))]
  BY DEF Number
<1> QED
  BY <1>1, <1>3, <1>4, Zenon

\* The numbers of the words that stand for one.
LEMMA ValuesAre ==
    /\ DOMAIN Value = {"00", "04", "09", "12", "27", "50", "1999"}
    /\ Value["00"] = 0 /\ Value["04"] = 4 /\ Value["09"] = 9 /\ Value["12"] = 12
    /\ Value["27"] = 27 /\ Value["50"] = 50 /\ Value["1999"] = 1999
<1>1. DOMAIN Value = {"00", "04", "09", "12", "27", "50", "1999"}
  BY DEF Value
<1>2. Value["00"] = 0 /\ Value["04"] = 4 /\ Value["09"] = 9 /\ Value["12"] = 12
  BY SMT DEF Value
<1>3. Value["27"] = 27 /\ Value["50"] = 50 /\ Value["1999"] = 1999
  BY SMT DEF Value
<1> QED
  BY <1>1, <1>2, <1>3

\* A gap is one or two spaces.
LEMMA GapIs ==
    ASSUME NEW gap \in Gaps
    PROVE  IsText(gap) /\ Len(gap) \in {1, 2} /\ \A i \in 1 .. Len(gap) : gap[i] = SP
<1>1. gap = <<SP>> \/ gap = <<SP, SP>>
  BY Zenon DEF Gaps
<1>2. Len(gap) \in {1, 2} /\ \A i \in 1 .. Len(gap) : gap[i] = SP
  BY <1>1, SMT
<1> QED
  BY <1>2, PartsAreTexts

-----------------------------------------------------------------------------
(* VMS *)

\* The symbols of a line s, or of its beginning, up to the one after the minute, where the
\* name has m symbols, a gap has g, and the date starts after c.
VmsLayout(m, g, c, s) ==
    /\ \A q \in 1 .. m : q <= Len(s) => s[q] # SP /\ s[q] # SEMI
    /\ m + 1 <= Len(s) => s[m + 1] = SEMI
    /\ m + 2 <= Len(s) => s[m + 2] = "2"
    /\ \A q \in m + 3 .. m + 2 + g : q <= Len(s) => s[q] = SP
    /\ m + 3 + g <= Len(s) => s[m + 3 + g] = "213/216"
    /\ \A q \in m + 4 + g .. c : q <= Len(s) => s[q] = SP
    /\ c + 1 <= Len(s) => s[c + 1] = "27"
    /\ c + 2 <= Len(s) => s[c + 2] = "-"
    /\ c + 3 <= Len(s) => s[c + 3] = "Jan"
    /\ c + 4 <= Len(s) => s[c + 4] = "-"
    /\ c + 5 <= Len(s) => s[c + 5] = "1999"
    /\ c + 6 <= Len(s) => s[c + 6] = SP
    /\ c + 7 <= Len(s) => s[c + 7] = "12"
    /\ c + 8 <= Len(s) => s[c + 8] = ":"
    /\ c + 9 <= Len(s) => s[c + 9] = "09"
    /\ c + 10 <= Len(s) => s[c + 10] \in {":", SP}

\* A VMS name is a text without a space or a semicolon.
LEMMA VmsNameIs ==
    ASSUME NEW f \in VmsFiles
    PROVE  /\ f.format = "vms" /\ f.gap \in Gaps /\ f.dir \in BOOLEAN /\ f.seconds \in BOOLEAN
           /\ IsText(f.name) /\ Len(f.name) \in Nat /\ Len(f.name) >= 1
           /\ \A q \in 1 .. Len(f.name) : f.name[q] # SP /\ f.name[q] # SEMI
           /\ f.name[1] \notin TypeLetters \cup {"+"}
<1>1. f.format = "vms" /\ f.gap \in Gaps /\ f.dir \in BOOLEAN /\ f.seconds \in BOOLEAN /\ f.name \in VmsNames
  BY SMT DEF VmsFiles
<1>2. IsText(f.name)
  BY <1>1, PartsAreTexts
<1>3. f.name # <<>>
  BY <1>1, NamesAssumption, Zenon
<1>4. Len(f.name) \in Nat /\ Len(f.name) >= 1
  <2>1. PICK A : f.name \in Seq(A)
    BY <1>2 DEF IsText
  <2> QED
    BY <1>3, <2>1
<1>5. ~Contains(f.name, SP) /\ ~Contains(f.name, SEMI) /\ f.name[1] \notin TypeLetters \cup {"+"}
  BY <1>1, NamesAssumption, Zenon
<1>6. \A q \in 1 .. Len(f.name) : f.name[q] # SP /\ f.name[q] # SEMI
  BY <1>5, Zenon DEF Contains
<1> QED
  BY <1>1, <1>2, <1>4, <1>5, <1>6

-----------------------------------------------------------------------------
(* VMS *)

\* The places that the loops of VMS find in a line, or 0 where it is cut short before.
VmsFound(m, g, c, s) ==
    /\ UpTo(s, At(1, Len(s)), {SEMI}) = At(m + 1, Len(s))
    /\ Past(s, UpTo(s, At(m + 1, Len(s)), {SP}), SP) = At(m + 3 + g, Len(s))
    /\ Past(s, UpTo(s, At(m + 3 + g, Len(s)), {SP}), SP) = At(c + 1, Len(s))
    /\ UpTo(s, At(c + 1, Len(s)), {"-"}) = At(c + 2, Len(s))
    /\ Past(s, At(c + 2, Len(s)), "-") = At(c + 3, Len(s))
    /\ UpTo(s, At(c + 3, Len(s)), {"-"}) = At(c + 4, Len(s))
    /\ Past(s, At(c + 4, Len(s)), "-") = At(c + 5, Len(s))
    /\ UpTo(s, At(c + 5, Len(s)), {SP}) = At(c + 6, Len(s))
    /\ Past(s, At(c + 6, Len(s)), SP) = At(c + 7, Len(s))
    /\ UpTo(s, At(c + 7, Len(s)), {":"}) = At(c + 8, Len(s))
    /\ Past(s, At(c + 8, Len(s)), ":") = At(c + 9, Len(s))
    /\ UpTo(s, At(c + 9, Len(s)), {":", SP}) = At(c + 10, Len(s))

\* The loops of VMS find the places where the parts of the line are.
LEMMA VmsPlaces ==
    ASSUME NEW m \in Nat, NEW g \in Nat, g >= 1, NEW c \in Nat, c = m + 3 + g + g,
           NEW s, IsText(s), VmsLayout(m, g, c, s)
    PROVE  VmsFound(m, g, c, s)
<1> DEFINE n == Len(s)
<1>1. n \in Nat
  BY TextIs
<1>3. /\ \A q \in 1 .. m : q <= n => s[q] # SP /\ s[q] # SEMI
      /\ m + 1 <= n => s[m + 1] = SEMI
      /\ m + 2 <= n => s[m + 2] = "2"
      /\ \A q \in m + 3 .. m + 2 + g : q <= n => s[q] = SP
      /\ m + 3 + g <= n => s[m + 3 + g] = "213/216"
      /\ \A q \in m + 4 + g .. c : q <= n => s[q] = SP
  BY Zenon DEF VmsLayout
<1>4. /\ c + 1 <= n => s[c + 1] = "27"
      /\ c + 2 <= n => s[c + 2] = "-"
      /\ c + 3 <= n => s[c + 3] = "Jan"
      /\ c + 4 <= n => s[c + 4] = "-"
      /\ c + 5 <= n => s[c + 5] = "1999"
      /\ c + 6 <= n => s[c + 6] = SP
      /\ c + 7 <= n => s[c + 7] = "12"
      /\ c + 8 <= n => s[c + 8] = ":"
      /\ c + 9 <= n => s[c + 9] = "09"
      /\ c + 10 <= n => s[c + 10] \in {":", SP}
  BY Zenon DEF VmsLayout
<1>5. SP # SEMI /\ SP # "2" /\ SP # "213/216" /\ SP # "27" /\ SP # "1999" /\ SP # "12" /\ SP # "09"
  BY Words, Zenon
<1>a. UpTo(s, At(1, n), {SEMI}) = At(m + 1, n)
  <2>1. \A q \in 1 .. m + 1 - 1 : q <= n => s[q] \notin {SEMI}
    BY <1>1, <1>3
  <2> QED
    BY <1>1, <1>3, <2>1, UpToAt
<1>b. Past(s, UpTo(s, At(m + 1, n), {SP}), SP) = At(m + 3 + g, n)
  <2>1. UpTo(s, At(m + 1, n), {SP}) = At(m + 3, n)
    <3>1. \A q \in m + 1 .. m + 3 - 1 : q <= n => s[q] \notin {SP}
      BY <1>1, <1>3, <1>5
    <3>2. m + 3 <= n => s[m + 3] \in {SP}
      BY <1>1, <1>3
    <3> QED
      BY <1>1, <3>1, <3>2, UpToAt
  <2>2. \A q \in m + 3 .. m + 3 + g - 1 : q <= n => s[q] = SP
    BY <1>1, <1>3
  <2>3. m + 3 + g <= n => s[m + 3 + g] # SP
    BY <1>3, <1>5
  <2>4. Past(s, At(m + 3, n), SP) = At(m + 3 + g, n)
    BY <1>1, <2>2, <2>3, PastAt
  <2> QED
    BY <2>1, <2>4
<1>c. Past(s, UpTo(s, At(m + 3 + g, n), {SP}), SP) = At(c + 1, n)
  <2>1. UpTo(s, At(m + 3 + g, n), {SP}) = At(m + 4 + g, n)
    <3>1. \A q \in m + 3 + g .. m + 4 + g - 1 : q <= n => s[q] \notin {SP}
      BY <1>1, <1>3, <1>5
    <3>2. m + 4 + g <= n => s[m + 4 + g] \in {SP}
      BY <1>1, <1>3
    <3> QED
      BY <1>1, <3>1, <3>2, UpToAt
  <2>2. \A q \in m + 4 + g .. c + 1 - 1 : q <= n => s[q] = SP
    BY <1>1, <1>3
  <2>3. c + 1 <= n => s[c + 1] # SP
    BY <1>4, <1>5
  <2>4. Past(s, At(m + 4 + g, n), SP) = At(c + 1, n)
    BY <1>1, <2>2, <2>3, PastAt
  <2> QED
    BY <2>1, <2>4
<1>7. c \in Nat
  BY <1>1
<1>8. ASSUME NEW d \in Nat, d > 0, NEW e \in Nat, e = d + 1, NEW stops,
             d <= n => s[d] \notin stops, e <= n => s[e] \in stops
      PROVE  UpTo(s, At(d, n), stops) = At(e, n)
  <2>1. (\A q \in d .. e - 1 : q <= n => s[q] \notin stops) /\ d <= e
    BY <1>8
  <2> QED
    BY <1>8, <2>1, UpToAt
<1>9. ASSUME NEW d \in Nat, d > 0, NEW e \in Nat, e = d + 1, NEW symbol,
             d <= n => s[d] = symbol, e <= n => s[e] # symbol
      PROVE  Past(s, At(d, n), symbol) = At(e, n)
  <2>1. (\A q \in d .. e - 1 : q <= n => s[q] = symbol) /\ d <= e
    BY <1>9
  <2> QED
    BY <1>9, <2>1, PastAt
<1> HIDE DEF n
<1>d. UpTo(s, At(c + 1, n), {"-"}) = At(c + 2, n)
  <2>1. c + 1 \in Nat /\ c + 1 > 0 /\ c + 2 \in Nat /\ c + 2 = c + 1 + 1
    BY <1>7
  <2>2. c + 1 <= n => s[c + 1] \notin {"-"}
    BY <1>4, <1>5
  <2>3. c + 2 <= n => s[c + 2] \in {"-"}
    BY <1>4, <1>5
  <2> QED
    BY <2>1, <2>2, <2>3, <1>8
<1>e. Past(s, At(c + 2, n), "-") = At(c + 3, n)
  <2>1. c + 2 \in Nat /\ c + 2 > 0 /\ c + 3 \in Nat /\ c + 3 = c + 2 + 1
    BY <1>7
  <2>2. c + 2 <= n => s[c + 2] = "-"
    BY <1>4, <1>5
  <2>3. c + 3 <= n => s[c + 3] # "-"
    BY <1>4, <1>5
  <2> QED
    BY <2>1, <2>2, <2>3, <1>9
<1>f. UpTo(s, At(c + 3, n), {"-"}) = At(c + 4, n)
  <2>1. c + 3 \in Nat /\ c + 3 > 0 /\ c + 4 \in Nat /\ c + 4 = c + 3 + 1
    BY <1>7
  <2>2. c + 3 <= n => s[c + 3] \notin {"-"}
    BY <1>4, <1>5
  <2>3. c + 4 <= n => s[c + 4] \in {"-"}
    BY <1>4, <1>5
  <2> QED
    BY <2>1, <2>2, <2>3, <1>8
<1>g. Past(s, At(c + 4, n), "-") = At(c + 5, n)
  <2>1. c + 4 \in Nat /\ c + 4 > 0 /\ c + 5 \in Nat /\ c + 5 = c + 4 + 1
    BY <1>7
  <2>2. c + 4 <= n => s[c + 4] = "-"
    BY <1>4, <1>5
  <2>3. c + 5 <= n => s[c + 5] # "-"
    BY <1>4, <1>5
  <2> QED
    BY <2>1, <2>2, <2>3, <1>9
<1>h. UpTo(s, At(c + 5, n), {SP}) = At(c + 6, n)
  <2>1. c + 5 \in Nat /\ c + 5 > 0 /\ c + 6 \in Nat /\ c + 6 = c + 5 + 1
    BY <1>7
  <2>2. c + 5 <= n => s[c + 5] \notin {SP}
    BY <1>4, <1>5
  <2>3. c + 6 <= n => s[c + 6] \in {SP}
    BY <1>4, <1>5
  <2> QED
    BY <2>1, <2>2, <2>3, <1>8
<1>i. Past(s, At(c + 6, n), SP) = At(c + 7, n)
  <2>1. c + 6 \in Nat /\ c + 6 > 0 /\ c + 7 \in Nat /\ c + 7 = c + 6 + 1
    BY <1>7
  <2>2. c + 6 <= n => s[c + 6] = SP
    BY <1>4, <1>5
  <2>3. c + 7 <= n => s[c + 7] # SP
    BY <1>4, <1>5
  <2> QED
    BY <2>1, <2>2, <2>3, <1>9
<1>j. UpTo(s, At(c + 7, n), {":"}) = At(c + 8, n)
  <2>1. c + 7 \in Nat /\ c + 7 > 0 /\ c + 8 \in Nat /\ c + 8 = c + 7 + 1
    BY <1>7
  <2>2. c + 7 <= n => s[c + 7] \notin {":"}
    BY <1>4, <1>5
  <2>3. c + 8 <= n => s[c + 8] \in {":"}
    BY <1>4, <1>5
  <2> QED
    BY <2>1, <2>2, <2>3, <1>8
<1>k. Past(s, At(c + 8, n), ":") = At(c + 9, n)
  <2>1. c + 8 \in Nat /\ c + 8 > 0 /\ c + 9 \in Nat /\ c + 9 = c + 8 + 1
    BY <1>7
  <2>2. c + 8 <= n => s[c + 8] = ":"
    BY <1>4, <1>5
  <2>3. c + 9 <= n => s[c + 9] # ":"
    BY <1>4, <1>5
  <2> QED
    BY <2>1, <2>2, <2>3, <1>9
<1>l. UpTo(s, At(c + 9, n), {":", SP}) = At(c + 10, n)
  <2>1. c + 9 \in Nat /\ c + 9 > 0 /\ c + 10 \in Nat /\ c + 10 = c + 9 + 1
    BY <1>7
  <2>2. c + 9 <= n => s[c + 9] \notin {":", SP}
    BY <1>4, <1>5
  <2>3. c + 10 <= n => s[c + 10] \in {":", SP}
    BY <1>4, <1>5
  <2> QED
    BY <2>1, <2>2, <2>3, <1>8
<1> QED
  BY <1>a, <1>b, <1>c, <1>d, <1>e, <1>f, <1>g, <1>h, <1>i, <1>j, <1>k, <1>l, Zenon DEF n, VmsFound

\* An entry of these fields, and what is put into one of which nothing is known.
Fields(found, name, trycwd, tryretr, size, mtime, id) ==
    [found |-> found, name |-> name, trycwd |-> trycwd, tryretr |-> tryretr, size |-> size,
     mtime |-> mtime, id |-> id]
Yes == TRUE
No == FALSE
NoSize == ""
EntryWith(name, trycwd, tryretr, size, mtime) == Fields(Yes, name, trycwd, tryretr, size, mtime, <<>>)

Put4(e, name, trycwd, tryretr, mtime) ==
    [e EXCEPT !.name = name, !.trycwd = trycwd, !.tryretr = tryretr, !.mtime = mtime]
Put5(e, name, trycwd, tryretr, size, mtime) ==
    [e EXCEPT !.name = name, !.trycwd = trycwd, !.tryretr = tryretr, !.size = size, !.mtime = mtime]

\* Entries, field by field.
LEMMA EntryIs ==
    /\ \A a, b, c, d : Put4(Nothing, a, b, c, d) = EntryWith(a, b, c, NoSize, d)
    /\ \A a, b, c, d, z : Put5(Nothing, a, b, c, z, d) = EntryWith(a, b, c, z, d)
    /\ \A a, b, c, d, z :
          [found |-> TRUE, id |-> <<>>, size |-> z, trycwd |-> b, tryretr |-> c, name |-> a, mtime |-> d] =
          EntryWith(a, b, c, z, d)
    /\ \A a, b, c, d, z, n : [EntryWith(a, b, c, z, d) EXCEPT !.name = n] = EntryWith(n, b, c, z, d)
    /\ \A a, b, c, d, z : EntryWith(a, b, c, z, d).name = a
<1> DEFINE PutName(e, v) == [e EXCEPT !.name = v]
           PutCwd(e, v) == [e EXCEPT !.trycwd = v]
           PutRetr(e, v) == [e EXCEPT !.tryretr = v]
           PutSize(e, v) == [e EXCEPT !.size = v]
           PutTime(e, v) == [e EXCEPT !.mtime = v]
<1>1. Nothing = Fields(Yes, <<>>, No, No, NoSize, <<>>, <<>>)
  BY Zenon DEF Nothing, Fields, Yes, No, NoSize
<1>2. \A f, n, b, c, z, d, i, v : PutName(Fields(f, n, b, c, z, d, i), v) = Fields(f, v, b, c, z, d, i)
  BY SMT DEF Fields
<1>3. \A f, n, b, c, z, d, i, v : PutCwd(Fields(f, n, b, c, z, d, i), v) = Fields(f, n, v, c, z, d, i)
  BY SMT DEF Fields
<1>4. \A f, n, b, c, z, d, i, v : PutRetr(Fields(f, n, b, c, z, d, i), v) = Fields(f, n, b, v, z, d, i)
  BY SMT DEF Fields
<1>5. \A f, n, b, c, z, d, i, v : PutSize(Fields(f, n, b, c, z, d, i), v) = Fields(f, n, b, c, v, d, i)
  BY SMT DEF Fields
<1>6. \A f, n, b, c, z, d, i, v : PutTime(Fields(f, n, b, c, z, d, i), v) = Fields(f, n, b, c, z, v, i)
  BY SMT DEF Fields
<1>7. \A r, a, b, c, d : Put4(r, a, b, c, d) = PutTime(PutRetr(PutCwd(PutName(r, a), b), c), d)
  BY DEF Put4
<1>8. \A r, a, b, c, z, d :
          Put5(r, a, b, c, z, d) = PutTime(PutSize(PutRetr(PutCwd(PutName(r, a), b), c), z), d)
  BY DEF Put5
<1>9. \A f, n, b, c, z, d, i :
          [found |-> f, id |-> i, size |-> z, trycwd |-> b, tryretr |-> c, name |-> n, mtime |-> d] =
          Fields(f, n, b, c, z, d, i)
  BY SMT DEF Fields
<1>10. \A f, n, b, c, z, d, i : Fields(f, n, b, c, z, d, i).name = n
  BY SMT DEF Fields
<1>13. \A a, b, c, d, z, n : [EntryWith(a, b, c, z, d) EXCEPT !.name = n] = EntryWith(n, b, c, z, d)
  BY <1>2, SMT DEF EntryWith
<1>14. \A a, b, c, d, z : EntryWith(a, b, c, z, d).name = a
  BY <1>10, SMT DEF EntryWith
<1>15. \A a, b, c, d, z :
          [found |-> TRUE, id |-> <<>>, size |-> z, trycwd |-> b, tryretr |-> c, name |-> a, mtime |-> d] =
          EntryWith(a, b, c, z, d)
  BY <1>9, Zenon DEF EntryWith, Yes
<1> HIDE DEF PutName, PutCwd, PutRetr, PutSize, PutTime
<1>11. \A a, b, c, d : Put4(Nothing, a, b, c, d) = EntryWith(a, b, c, NoSize, d)
  BY <1>1, <1>2, <1>3, <1>4, <1>6, <1>7, SMT DEF EntryWith
<1>12. \A a, b, c, d, z : Put5(Nothing, a, b, c, z, d) = EntryWith(a, b, c, z, d)
  BY <1>1, <1>2, <1>3, <1>4, <1>5, <1>6, <1>8, SMT DEF EntryWith
<1> QED
  BY <1>11, <1>12, <1>13, <1>14, <1>15

\* Places of a line with all of them.
LEMMA AtWhole ==
    ASSUME NEW c \in Nat, NEW n \in Nat, n >= c + 10, NEW i \in 1 .. 10
    PROVE  At(c + i, n) = c + i
  BY DEF At

\* The places before the one after a number.
LEMMA Before ==
    ASSUME NEW k \in Nat, NEW e, e = k + 1
    PROVE  e - 1 = k /\ e - 2 = k - 1 /\ (e > 2 <=> k > 1)
  OBVIOUS

\* What VMS lines, whole or cut, are understood to say.
VmsLaid(f, k, m, g, c, s) ==
    /\ VmsLayout(m, g, c, s)
    /\ \A q \in 1 .. k : s[q] = f.name[q]
    /\ f.dir => s[m] = ".DIR"

VmsSays(f, c, s) == Vms(s) = IF Len(s) < c + 10 THEN Null ELSE VmsEntry(f)

\* What VMS lines, whole or cut, are understood to say.
LEMMA VmsIs ==
    ASSUME NEW f \in VmsFiles, NEW g \in Nat, g >= 1, NEW k \in Nat, TextOf(f.name, k),
           NEW m \in Nat, m = IF f.dir THEN k + 1 ELSE k, NEW c \in Nat, c = m + 3 + g + g,
           NEW s, IsText(s), m + 1 <= Len(s), VmsLaid(f, k, m, g, c, s)
    PROVE  VmsSays(f, c, s)
<1> DEFINE n == Len(s)
           semi   == UpTo(s, 1, {SEMI})
           dir    == semi > 2 /\ s[semi - 1] = ".DIR"
           blocks == Past(s, UpTo(s, semi, {SP}), SP)
           mday   == Past(s, UpTo(s, blocks, {SP}), SP)
           dash1  == UpTo(s, mday, {"-"})
           month  == Past(s, dash1, "-")
           dash2  == UpTo(s, month, {"-"})
           year   == Past(s, dash2, "-")
           space  == UpTo(s, year, {SP})
           hour   == Past(s, space, SP)
           colon  == UpTo(s, hour, {":"})
           minute == Past(s, colon, ":")
           end    == UpTo(s, minute, {":", SP})
           name   == SubSeq(s, 1, IF dir THEN semi - 2 ELSE semi - 1)
           time   == <<"minute", Number(s, year, space), s[month],
                       Number(s, mday, dash1), Number(s, hour, colon), Number(s, minute, end)>>
<1> SUFFICES Vms(s) = IF n < c + 10 THEN Null ELSE VmsEntry(f)
  BY Zenon DEF VmsSays
<1>1. Vms(s) = IF end = 0 \/ s[month] \notin Months THEN Null
               ELSE Put4(Nothing, name, dir, ~dir, time)
  BY Zenon DEF Vms, Put4
<1>a. VmsLayout(m, g, c, s) /\ (\A q \in 1 .. k : s[q] = f.name[q]) /\ (f.dir => s[m] = ".DIR")
  BY Zenon DEF VmsLaid
<1>b. k = Len(f.name)
  BY DEF TextOf
<1>2. n \in Nat /\ k >= 1 /\ IsText(f.name) /\ f.dir \in BOOLEAN
  BY <1>b, TextIs, VmsNameIs
<1>3. At(1, n) = 1 /\ At(m + 1, n) = m + 1
  BY <1>2 DEF At
<1>0. /\ UpTo(s, At(1, n), {SEMI}) = At(m + 1, n)
      /\ Past(s, UpTo(s, At(m + 1, n), {SP}), SP) = At(m + 3 + g, n)
      /\ Past(s, UpTo(s, At(m + 3 + g, n), {SP}), SP) = At(c + 1, n)
      /\ UpTo(s, At(c + 1, n), {"-"}) = At(c + 2, n)
      /\ Past(s, At(c + 2, n), "-") = At(c + 3, n)
      /\ UpTo(s, At(c + 3, n), {"-"}) = At(c + 4, n)
      /\ Past(s, At(c + 4, n), "-") = At(c + 5, n)
      /\ UpTo(s, At(c + 5, n), {SP}) = At(c + 6, n)
      /\ Past(s, At(c + 6, n), SP) = At(c + 7, n)
      /\ UpTo(s, At(c + 7, n), {":"}) = At(c + 8, n)
      /\ Past(s, At(c + 8, n), ":") = At(c + 9, n)
      /\ UpTo(s, At(c + 9, n), {":", SP}) = At(c + 10, n)
  <2>1. VmsFound(m, g, c, s)
    BY <1>a, VmsPlaces
  <2> QED
    BY <2>1, Zenon DEF VmsFound
<1>4. /\ semi = m + 1 /\ mday = At(c + 1, n) /\ dash1 = At(c + 2, n) /\ month = At(c + 3, n)
      /\ year = At(c + 5, n) /\ space = At(c + 6, n) /\ hour = At(c + 7, n)
      /\ colon = At(c + 8, n) /\ minute = At(c + 9, n) /\ end = At(c + 10, n)
  <2> HIDE DEF n
  <2>1. semi = m + 1
    BY <1>0, <1>3, Zenon
  <2> HIDE DEF semi
  <2>2. blocks = At(m + 3 + g, n)
    BY <1>0, <1>3, <2>1, Zenon
  <2> HIDE DEF blocks
  <2>3. mday = At(c + 1, n)
    BY <1>0, <2>2, Zenon
  <2> HIDE DEF mday
  <2>4. dash1 = At(c + 2, n)
    BY <1>0, <2>3, Zenon
  <2> HIDE DEF dash1
  <2>5. month = At(c + 3, n)
    BY <1>0, <2>4, Zenon
  <2> HIDE DEF month
  <2>6. dash2 = At(c + 4, n)
    BY <1>0, <2>5, Zenon
  <2> HIDE DEF dash2
  <2>7. year = At(c + 5, n)
    BY <1>0, <2>6, Zenon
  <2> HIDE DEF year
  <2>8. space = At(c + 6, n)
    BY <1>0, <2>7, Zenon
  <2> HIDE DEF space
  <2>9. hour = At(c + 7, n)
    BY <1>0, <2>8, Zenon
  <2> HIDE DEF hour
  <2>10. colon = At(c + 8, n)
    BY <1>0, <2>9, Zenon
  <2> HIDE DEF colon
  <2>11. minute = At(c + 9, n)
    BY <1>0, <2>10, Zenon
  <2> HIDE DEF minute
  <2>12. end = At(c + 10, n)
    BY <1>0, <2>11, Zenon
  <2> QED
    BY <2>1, <2>3, <2>4, <2>5, <2>7, <2>8, <2>9, <2>10, <2>11, <2>12, Zenon
<1> HIDE DEF semi, blocks, mday, dash1, month, dash2, year, space, hour, colon, minute, end
<1>5. CASE n < c + 10
  <2>1. end = 0
    BY <1>2, <1>4, <1>5 DEF At
  <2> QED
    BY <1>1, <1>5, <2>1
<1>6. CASE n >= c + 10
  <2>1. mday = c + 1 /\ dash1 = c + 2 /\ month = c + 3 /\ year = c + 5 /\ space = c + 6 /\ hour = c + 7
        /\ colon = c + 8 /\ minute = c + 9 /\ end = c + 10
    <3>1. \A i \in 1 .. 10 : At(c + i, n) = c + i
      BY <1>2, <1>6, AtWhole
    <3>2. /\ At(c + 1, n) = c + 1 /\ At(c + 2, n) = c + 2 /\ At(c + 3, n) = c + 3 /\ At(c + 5, n) = c + 5
          /\ At(c + 6, n) = c + 6 /\ At(c + 7, n) = c + 7 /\ At(c + 8, n) = c + 8 /\ At(c + 9, n) = c + 9
          /\ At(c + 10, n) = c + 10
      BY <3>1
    <3> QED
      BY <1>4, <3>2, Zenon
  <2>2. s[c + 1] = "27" /\ s[c + 3] = "Jan" /\ s[c + 5] = "1999" /\ s[c + 7] = "12" /\ s[c + 9] = "09"
    <3>1. c + 1 <= n /\ c + 3 <= n /\ c + 5 <= n /\ c + 7 <= n /\ c + 9 <= n
      BY <1>2, <1>6
    <3> QED
      BY <1>a, <3>1, Zenon DEF VmsLayout
  <2>5. "27" \in DOMAIN Value /\ "1999" \in DOMAIN Value /\ "12" \in DOMAIN Value /\ "09" \in DOMAIN Value
    BY ValuesAre, SMT
  <2>a. Number(s, c + 1, c + 2) = Value["27"]
    <3>1. c + 1 \in 1 .. Len(s) /\ c + 1 + 1 = c + 2
      BY <1>2, <1>6
    <3>3. s[c + 1] \in DOMAIN Value
      BY <2>2, <2>5, Zenon
    <3>2. Number(s, c + 1, c + 1 + 1) = Value[s[c + 1]]
      BY <3>1, <3>3, NumberIs, Zenon
    <3> QED
      BY <2>2, <3>1, <3>2, Zenon
  <2>b. Number(s, c + 5, c + 6) = Value["1999"]
    <3>1. c + 5 \in 1 .. Len(s) /\ c + 5 + 1 = c + 6
      BY <1>2, <1>6
    <3>3. s[c + 5] \in DOMAIN Value
      BY <2>2, <2>5, Zenon
    <3>2. Number(s, c + 5, c + 5 + 1) = Value[s[c + 5]]
      BY <3>1, <3>3, NumberIs, Zenon
    <3> QED
      BY <2>2, <3>1, <3>2, Zenon
  <2>c. Number(s, c + 7, c + 8) = Value["12"]
    <3>1. c + 7 \in 1 .. Len(s) /\ c + 7 + 1 = c + 8
      BY <1>2, <1>6
    <3>3. s[c + 7] \in DOMAIN Value
      BY <2>2, <2>5, Zenon
    <3>2. Number(s, c + 7, c + 7 + 1) = Value[s[c + 7]]
      BY <3>1, <3>3, NumberIs, Zenon
    <3> QED
      BY <2>2, <3>1, <3>2, Zenon
  <2>d. Number(s, c + 9, c + 10) = Value["09"]
    <3>1. c + 9 \in 1 .. Len(s) /\ c + 9 + 1 = c + 10
      BY <1>2, <1>6
    <3>3. s[c + 9] \in DOMAIN Value
      BY <2>2, <2>5, Zenon
    <3>2. Number(s, c + 9, c + 9 + 1) = Value[s[c + 9]]
      BY <3>1, <3>3, NumberIs, Zenon
    <3> QED
      BY <2>2, <3>1, <3>2, Zenon
  <2>6. Number(s, c + 1, c + 2) = 27 /\ Number(s, c + 5, c + 6) = 1999
    BY <2>a, <2>b, <2>c, <2>d, ValuesAre, SMT
  <2>7. Number(s, c + 7, c + 8) = 12 /\ Number(s, c + 9, c + 10) = 9
    BY <2>a, <2>b, <2>c, <2>d, ValuesAre, SMT
  <2>8. time = <<"minute", 1999, "Jan", 27, 12, 9>>
    <3>1. time = <<"minute", Number(s, c + 5, c + 6), s[c + 3], Number(s, c + 1, c + 2), Number(s, c + 7, c + 8),
                   Number(s, c + 9, c + 10)>>
      BY <2>1, Zenon
    <3> QED
      BY <2>2, <2>6, <2>7, <3>1
  <2>9. end # 0 /\ s[month] \in Months
    <3>1. end # 0
      BY <2>1
    <3>2. s[month] = "Jan"
      BY <2>1, <2>2, Zenon
    <3> QED
      BY <3>1, <3>2, Zenon DEF Months
  <2> DEFINE isdir == f.dir \/ (Len(f.name) > 1 /\ Last(f.name) = ".DIR")
             shown == IF isdir /\ ~f.dir THEN Front(f.name) ELSE f.name
  <2>10. (dir = isdir) /\ name = shown
    <3>1. CASE f.dir
      <4>1. m = k + 1
        BY <3>1
      <4>2. semi - 1 = m /\ semi > 2 /\ semi - 2 = k
        BY <1>2, <1>4, <4>1
      <4>3. dir
        BY <1>a, <1>b, <3>1, <4>2
      <4>4. SubSeq(s, 1, k) = SubSeq(f.name, 1, k)
        BY <1>a, <1>b, <1>2, <4>1, SameBegin
      <4>5. SubSeq(f.name, 1, k) = f.name
        BY <1>a, <1>b, <1>2, WholeIs
      <4>6. name = SubSeq(s, 1, k)
        BY <4>2, <4>3, Zenon
      <4> QED
        BY <3>1, <4>3, <4>4, <4>5, <4>6, Zenon
    <3>2. CASE ~f.dir
      <4>1. m = k
        BY <3>2
      <4>2. semi - 1 = k /\ semi - 2 = k - 1 /\ (semi > 2 <=> k > 1)
        <5>1. semi = k + 1
          BY <1>4, <4>1, Zenon
        <5> QED
          BY <5>1, Before
      <4>3. s[semi - 1] = Last(f.name)
        BY <1>a, <1>b, <1>2, <4>2 DEF Last
      <4>4. dir = isdir
        BY <1>a, <1>b, <3>2, <4>2, <4>3, Zenon
      <4>5. SubSeq(s, 1, k) = SubSeq(f.name, 1, k) /\ SubSeq(s, 1, k - 1) = SubSeq(f.name, 1, k - 1)
        <5>1. k - 1 \in Nat /\ k <= Len(s) /\ k - 1 <= Len(s) /\ k - 1 <= k /\ \A q \in 1 .. k - 1 : s[q] = f.name[q]
          BY <1>a, <1>b, <1>2, <4>1
        <5> QED
          BY <1>a, <1>b, <1>2, <5>1, SameBegin
      <4>6. SubSeq(f.name, 1, k) = f.name /\ Front(f.name) = SubSeq(f.name, 1, k - 1)
        BY <1>a, <1>b, <1>2, WholeIs, Zenon DEF Front
      <4>7. name = IF dir THEN SubSeq(s, 1, k - 1) ELSE SubSeq(s, 1, k)
        BY <4>2, Zenon
      <4> QED
        BY <3>2, <4>4, <4>5, <4>6, <4>7, Zenon
    <3> QED
      BY <1>2, <3>1, <3>2
  <2> HIDE DEF time, dir, name
  <2>11. Vms(s) = EntryWith(name, dir, ~dir, NoSize, time)
    <3>1. Vms(s) = Put4(Nothing, name, dir, ~dir, time)
      BY <1>1, <2>9, Zenon
    <3>2. \A a, b, d, e : Put4(Nothing, a, b, d, e) = EntryWith(a, b, d, NoSize, e)
      BY EntryIs
    <3> QED
      BY <3>1, <3>2, Zenon
  <2>12. VmsEntry(f) = EntryWith(shown, isdir, ~isdir, NoSize, <<"minute", 1999, "Jan", 27, 12, 9>>)
    BY EntryIs, Zenon DEF VmsEntry, NoSize
  <2>14. Vms(s) = VmsEntry(f)
    <3> HIDE DEF isdir, shown
    <3>1. EntryWith(name, dir, ~dir, NoSize, time) = EntryWith(shown, isdir, ~isdir, NoSize, time)
      BY <2>10, Zenon
    <3> DEFINE when == <<"minute", 1999, "Jan", 27, 12, 9>>
    <3>2. time = when /\ VmsEntry(f) = EntryWith(shown, isdir, ~isdir, NoSize, when)
      BY <2>8, <2>12
    <3> HIDE DEF when
    <3> QED
      BY <2>11, <3>1, <3>2, Zenon
  <2> QED
    BY <1>2, <1>6, <2>14
<1> QED
  BY <1>2, <1>5, <1>6

-----------------------------------------------------------------------------
(* MSDOS *)

\* The symbols of a line, or of its beginning: the hour is at h, the size at z, the name at b.
MsDosLayout(g, h, z, b, w, s) ==
    /\ 1 <= Len(s) => s[1] = "04"
    /\ 2 <= Len(s) => s[2] = "-"
    /\ 3 <= Len(s) => s[3] = "27"
    /\ 4 <= Len(s) => s[4] = "-"
    /\ 5 <= Len(s) => s[5] = w.year
    /\ \A q \in 6 .. h - 1 : q <= Len(s) => s[q] = SP
    /\ h <= Len(s) => s[h] = w.hour
    /\ h + 1 <= Len(s) => s[h + 1] = ":"
    /\ h + 2 <= Len(s) => s[h + 2] = "04"
    /\ h + 3 <= Len(s) => s[h + 3] = w.half
    /\ h + 4 <= Len(s) => s[h + 4] = "M"
    /\ \A q \in h + 5 .. z - 1 : q <= Len(s) => s[q] = SP
    /\ z <= Len(s) => s[z] = w.size
    /\ \A q \in z + 1 .. b - 1 : q <= Len(s) => s[q] = SP
    /\ b <= Len(s) => s[b] # SP

\* The words of a line that differ.
MsDosWords == [year : {"50", "1999", "00"}, hour : {"12", "09"}, half : {"A", "P"}, size : {"<DIR>", "531"}]

\* The places that the loops of MSDOS find in a line, or 0 where it is cut short before.
MsDosFound(h, z, b, w, s) ==
    /\ UpTo(s, At(1, Len(s)), {"-"}) = At(2, Len(s))
    /\ Past(s, At(2, Len(s)), "-") = At(3, Len(s))
    /\ UpTo(s, At(3, Len(s)), {"-"}) = At(4, Len(s))
    /\ Past(s, At(4, Len(s)), "-") = At(5, Len(s))
    /\ UpTo(s, At(5, Len(s)), {SP}) = At(6, Len(s))
    /\ Past(s, At(6, Len(s)), SP) = At(h, Len(s))
    /\ UpTo(s, At(h, Len(s)), {":"}) = At(h + 1, Len(s))
    /\ Past(s, At(h + 1, Len(s)), ":") = At(h + 2, Len(s))
    /\ UpTo(s, At(h + 2, Len(s)), {"A", "P"}) = At(h + 3, Len(s))
    /\ w.half = "A" => /\ PastOne(s, At(h + 3, Len(s)), "A") = At(h + 4, Len(s))
                       /\ PastOne(s, At(h + 4, Len(s)), "P") = At(h + 4, Len(s))
    /\ w.half = "P" => /\ PastOne(s, At(h + 3, Len(s)), "A") = At(h + 3, Len(s))
                       /\ PastOne(s, At(h + 3, Len(s)), "P") = At(h + 4, Len(s))
    /\ PastOne(s, At(h + 4, Len(s)), "M") = At(h + 5, Len(s))
    /\ Past(s, At(h + 5, Len(s)), SP) = At(z, Len(s))
    /\ UpTo(s, At(z, Len(s)), {SP}) = At(z + 1, Len(s))
    /\ Past(s, At(z + 1, Len(s)), SP) = At(b, Len(s))

\* The loops of MSDOS find the places where the parts of the line are.
LEMMA MsDosPlaces ==
    ASSUME NEW g \in Nat, g >= 1, NEW h \in Nat, h = 6 + g, NEW z \in Nat, z = h + 5 + g,
           NEW b \in Nat, b = z + 1 + g, NEW w \in MsDosWords, NEW s, IsText(s), MsDosLayout(g, h, z, b, w, s)
    PROVE  MsDosFound(h, z, b, w, s)
<1> DEFINE n == Len(s)
<1>1. n \in Nat
  BY TextIs
<1>2. w.year \in {"50", "1999", "00"} /\ w.hour \in {"12", "09"} /\ w.half \in {"A", "P"} /\ w.size \in {"<DIR>", "531"}
  BY DEF MsDosWords
<1>3. /\ 1 <= n => s[1] = "04"
      /\ 2 <= n => s[2] = "-"
      /\ 3 <= n => s[3] = "27"
      /\ 4 <= n => s[4] = "-"
      /\ 5 <= n => s[5] = w.year
      /\ \A q \in 6 .. h - 1 : q <= n => s[q] = SP
      /\ h <= n => s[h] = w.hour
      /\ h + 1 <= n => s[h + 1] = ":"
      /\ h + 2 <= n => s[h + 2] = "04"
      /\ h + 3 <= n => s[h + 3] = w.half
      /\ h + 4 <= n => s[h + 4] = "M"
      /\ \A q \in h + 5 .. z - 1 : q <= n => s[q] = SP
      /\ z <= n => s[z] = w.size
      /\ \A q \in z + 1 .. b - 1 : q <= n => s[q] = SP
      /\ b <= n => s[b] # SP
  BY Zenon DEF MsDosLayout
<1>4. /\ SP \notin {"50", "1999", "00", "12", "09", "<DIR>", "531"}
      /\ SP # "-" /\ SP # ":" /\ SP # "M"
  BY Words, Zenon
<1>5. SP # w.year /\ SP # w.hour /\ SP # w.size
  BY <1>2, <1>4
<1>6. (6 <= n => s[6] = SP) /\ (h + 5 <= n => s[h + 5] = SP) /\ (z + 1 <= n => s[z + 1] = SP)
  BY <1>1, <1>3
<1>8. ASSUME NEW d \in Nat, d > 0, NEW e \in Nat, e = d + 1, NEW stops,
             d <= n => s[d] \notin stops, e <= n => s[e] \in stops
      PROVE  UpTo(s, At(d, n), stops) = At(e, n)
  <2>1. (\A q \in d .. e - 1 : q <= n => s[q] \notin stops) /\ d <= e
    BY <1>8
  <2> QED
    BY <1>8, <2>1, UpToAt
<1>9. ASSUME NEW d \in Nat, d > 0, NEW e \in Nat, d <= e, NEW symbol,
             \A q \in d .. e - 1 : q <= n => s[q] = symbol, e <= n => s[e] # symbol
      PROVE  Past(s, At(d, n), symbol) = At(e, n)
  BY <1>9, PastAt
<1>10. ASSUME NEW d \in Nat, d > 0, NEW e \in Nat, e = d + 1, NEW symbol
       PROVE  /\ (d <= n => s[d] = symbol) => PastOne(s, At(d, n), symbol) = At(e, n)
              /\ (d <= n => s[d] # symbol) => PastOne(s, At(d, n), symbol) = At(d, n)
  BY <1>10, PastOneAt
<1>a. UpTo(s, At(1, n), {"-"}) = At(2, n)
  <2>1. 1 \in Nat /\ 1 > 0 /\ 2 \in Nat /\ 2 = 1 + 1
    BY <1>1
  <2>2. 1 <= n => s[1] \notin {"-"}
    BY <1>2, <1>3, <1>4, <1>5
  <2>3. 2 <= n => s[2] \in {"-"}
    BY <1>2, <1>3, <1>6
  <2> HIDE DEF n
  <2> QED
    BY <2>1, <2>2, <2>3, <1>8
<1>b. Past(s, At(2, n), "-") = At(3, n)
  <2>1. 2 \in Nat /\ 2 > 0 /\ 3 \in Nat /\ 2 <= 3
    BY <1>1
  <2>2. \A q \in 2 .. 3 - 1 : q <= n => s[q] = "-"
    BY <1>1, <1>3
  <2>3. 3 <= n => s[3] # "-"
    BY <1>2, <1>3, <1>4, <1>5
  <2> HIDE DEF n
  <2> QED
    BY <2>1, <2>2, <2>3, <1>9
<1>c. UpTo(s, At(3, n), {"-"}) = At(4, n)
  <2>1. 3 \in Nat /\ 3 > 0 /\ 4 \in Nat /\ 4 = 3 + 1
    BY <1>1
  <2>2. 3 <= n => s[3] \notin {"-"}
    BY <1>2, <1>3, <1>4, <1>5
  <2>3. 4 <= n => s[4] \in {"-"}
    BY <1>2, <1>3, <1>6
  <2> HIDE DEF n
  <2> QED
    BY <2>1, <2>2, <2>3, <1>8
<1>d. Past(s, At(4, n), "-") = At(5, n)
  <2>1. 4 \in Nat /\ 4 > 0 /\ 5 \in Nat /\ 4 <= 5
    BY <1>1
  <2>2. \A q \in 4 .. 5 - 1 : q <= n => s[q] = "-"
    BY <1>1, <1>3
  <2>3. 5 <= n => s[5] # "-"
    BY <1>2, <1>3, <1>4, <1>5
  <2> HIDE DEF n
  <2> QED
    BY <2>1, <2>2, <2>3, <1>9
<1>e. UpTo(s, At(5, n), {SP}) = At(6, n)
  <2>1. 5 \in Nat /\ 5 > 0 /\ 6 \in Nat /\ 6 = 5 + 1
    BY <1>1
  <2>2. 5 <= n => s[5] \notin {SP}
    BY <1>2, <1>3, <1>4, <1>5
  <2>3. 6 <= n => s[6] \in {SP}
    BY <1>2, <1>3, <1>6
  <2> HIDE DEF n
  <2> QED
    BY <2>1, <2>2, <2>3, <1>8
<1>f. Past(s, At(6, n), SP) = At(h, n)
  <2>1. 6 \in Nat /\ 6 > 0 /\ h \in Nat /\ 6 <= h
    BY <1>1
  <2>2. \A q \in 6 .. h - 1 : q <= n => s[q] = SP
    BY <1>1, <1>3
  <2>3. h <= n => s[h] # SP
    BY <1>2, <1>3, <1>4, <1>5
  <2> HIDE DEF n
  <2> QED
    BY <2>1, <2>2, <2>3, <1>9
<1>g. UpTo(s, At(h, n), {":"}) = At(h + 1, n)
  <2>1. h \in Nat /\ h > 0 /\ h + 1 \in Nat /\ h + 1 = h + 1
    BY <1>1
  <2>2. h <= n => s[h] \notin {":"}
    BY <1>2, <1>3, <1>4, <1>5
  <2>3. h + 1 <= n => s[h + 1] \in {":"}
    BY <1>2, <1>3, <1>6
  <2> HIDE DEF n
  <2> QED
    BY <2>1, <2>2, <2>3, <1>8
<1>h. Past(s, At(h + 1, n), ":") = At(h + 2, n)
  <2>1. h + 1 \in Nat /\ h + 1 > 0 /\ h + 2 \in Nat /\ h + 1 <= h + 2
    BY <1>1
  <2>2. \A q \in h + 1 .. h + 2 - 1 : q <= n => s[q] = ":"
    BY <1>1, <1>3
  <2>3. h + 2 <= n => s[h + 2] # ":"
    BY <1>2, <1>3, <1>4, <1>5
  <2> HIDE DEF n
  <2> QED
    BY <2>1, <2>2, <2>3, <1>9
<1>i. UpTo(s, At(h + 2, n), {"A", "P"}) = At(h + 3, n)
  <2>1. h + 2 \in Nat /\ h + 2 > 0 /\ h + 3 \in Nat /\ h + 3 = h + 2 + 1
    BY <1>1
  <2>2. h + 2 <= n => s[h + 2] \notin {"A", "P"}
    BY <1>2, <1>3, <1>4, <1>5
  <2>3. h + 3 <= n => s[h + 3] \in {"A", "P"}
    BY <1>2, <1>3, <1>6
  <2> HIDE DEF n
  <2> QED
    BY <2>1, <2>2, <2>3, <1>8
<1>j. w.half = "A" => PastOne(s, At(h + 3, n), "A") = At(h + 4, n)
  <2>1. h + 3 \in Nat /\ h + 3 > 0 /\ h + 4 \in Nat /\ h + 4 = h + 3 + 1
    BY <1>1
  <2>2. w.half = "A" => (h + 3 <= n => s[h + 3] = "A")
    BY <1>2, <1>3
  <2> HIDE DEF n
  <2> QED
    BY <2>1, <2>2, <1>10
<1>k. w.half = "A" => PastOne(s, At(h + 4, n), "P") = At(h + 4, n)
  <2>1. h + 4 \in Nat /\ h + 4 > 0 /\ h + 5 \in Nat /\ h + 5 = h + 4 + 1
    BY <1>1
  <2>2. w.half = "A" => (h + 4 <= n => s[h + 4] # "P")
    BY <1>2, <1>3
  <2> HIDE DEF n
  <2> QED
    BY <2>1, <2>2, <1>10
<1>l. w.half = "P" => PastOne(s, At(h + 3, n), "A") = At(h + 3, n)
  <2>1. h + 3 \in Nat /\ h + 3 > 0 /\ h + 4 \in Nat /\ h + 4 = h + 3 + 1
    BY <1>1
  <2>2. w.half = "P" => (h + 3 <= n => s[h + 3] # "A")
    BY <1>2, <1>3
  <2> HIDE DEF n
  <2> QED
    BY <2>1, <2>2, <1>10
<1>m. w.half = "P" => PastOne(s, At(h + 3, n), "P") = At(h + 4, n)
  <2>1. h + 3 \in Nat /\ h + 3 > 0 /\ h + 4 \in Nat /\ h + 4 = h + 3 + 1
    BY <1>1
  <2>2. w.half = "P" => (h + 3 <= n => s[h + 3] = "P")
    BY <1>2, <1>3
  <2> HIDE DEF n
  <2> QED
    BY <2>1, <2>2, <1>10
<1>n. PastOne(s, At(h + 4, n), "M") = At(h + 5, n)
  <2>1. h + 4 \in Nat /\ h + 4 > 0 /\ h + 5 \in Nat /\ h + 5 = h + 4 + 1
    BY <1>1
  <2>2. (h + 4 <= n => s[h + 4] = "M")
    BY <1>2, <1>3
  <2> HIDE DEF n
  <2> QED
    BY <2>1, <2>2, <1>10
<1>o. Past(s, At(h + 5, n), SP) = At(z, n)
  <2>1. h + 5 \in Nat /\ h + 5 > 0 /\ z \in Nat /\ h + 5 <= z
    BY <1>1
  <2>2. \A q \in h + 5 .. z - 1 : q <= n => s[q] = SP
    BY <1>1, <1>3
  <2>3. z <= n => s[z] # SP
    BY <1>2, <1>3, <1>4, <1>5
  <2> HIDE DEF n
  <2> QED
    BY <2>1, <2>2, <2>3, <1>9
<1>p. UpTo(s, At(z, n), {SP}) = At(z + 1, n)
  <2>1. z \in Nat /\ z > 0 /\ z + 1 \in Nat /\ z + 1 = z + 1
    BY <1>1
  <2>2. z <= n => s[z] \notin {SP}
    BY <1>2, <1>3, <1>4, <1>5
  <2>3. z + 1 <= n => s[z + 1] \in {SP}
    BY <1>2, <1>3, <1>6
  <2> HIDE DEF n
  <2> QED
    BY <2>1, <2>2, <2>3, <1>8
<1>q. Past(s, At(z + 1, n), SP) = At(b, n)
  <2>1. z + 1 \in Nat /\ z + 1 > 0 /\ b \in Nat /\ z + 1 <= b
    BY <1>1
  <2>2. \A q \in z + 1 .. b - 1 : q <= n => s[q] = SP
    BY <1>1, <1>3
  <2>3. b <= n => s[b] # SP
    BY <1>2, <1>3, <1>4, <1>5
  <2> HIDE DEF n
  <2> QED
    BY <2>1, <2>2, <2>3, <1>9
<1> QED
  BY <1>a, <1>b, <1>c, <1>d, <1>e, <1>f, <1>g, <1>h, <1>i, <1>j, <1>k, <1>l, <1>m, <1>n, <1>o, <1>p, <1>q, Zenon
  DEF n, MsDosFound

\* The words that the line of a file has.
MsDosWordsOf(f) ==
    [year |-> CASE f.year = 1950 -> "50" [] f.year = 1999 -> "1999" [] f.year = 2000 -> "00",
     hour |-> IF f.hour \in {0, 12} THEN "12" ELSE "09",
     half |-> IF f.hour < 12 THEN "A" ELSE "P",
     size |-> IF f.dir THEN "<DIR>" ELSE "531"]

\* What is known of a file of an MSDOS server.
LEMMA MsDosNameIs ==
    ASSUME NEW f \in MsDosFiles
    PROVE  /\ f.format = "msdos" /\ f.gap \in Gaps /\ f.dir \in BOOLEAN
           /\ f.year \in {1950, 1999, 2000} /\ f.hour \in {0, 9, 12, 21}
           /\ IsText(f.name) /\ Len(f.name) \in Nat /\ Len(f.name) >= 1
           /\ \A q \in 1 .. Len(f.name) : f.name[q] # SEMI
           /\ f.name[1] # SP
<1>1. /\ f.format = "msdos" /\ f.gap \in Gaps /\ f.dir \in BOOLEAN /\ f.name \in MsDosNames
      /\ f.year \in {1950, 1999, 2000} /\ f.hour \in {0, 9, 12, 21}
  BY SMT DEF MsDosFiles
<1>2. IsText(f.name)
  BY <1>1, PartsAreTexts
<1>3. f.name # <<>>
  <2>1. f.name \in UnixNames \cup VmsNames \cup MsDosNames \cup Targets
    BY <1>1
  <2> QED
    BY <2>1, NamesAssumption, Zenon
<1>4. Len(f.name) \in Nat /\ Len(f.name) >= 1
  <2>1. PICK A : f.name \in Seq(A)
    BY <1>2 DEF IsText
  <2> QED
    BY <1>3, <2>1
<1>5. ~Contains(f.name, SEMI) /\ f.name[1] # SP
  <2>1. \A n \in MsDosNames : n[1] # SP /\ ~Contains(n, SEMI)
    BY NamesAssumption
  <2> QED
    BY <1>1, <2>1
<1>6. \A q \in 1 .. Len(f.name) : f.name[q] # SEMI
  BY <1>5, Zenon DEF Contains
<1> QED
  BY <1>1, <1>2, <1>4, <1>5, <1>6

\* What these words stand for.
LEMMA MsDosWordsAre ==
    ASSUME NEW f \in MsDosFiles, NEW w, w = MsDosWordsOf(f)
    PROVE  /\ w \in MsDosWords
           /\ FullYear(Value[w.year]) = f.year
           /\ Hour(Value[w.hour], w.half = "P") = f.hour
           /\ f.dir <=> w.size = "<DIR>"
           /\ ~f.dir => w.size = "531"
<1>1. f.year \in {1950, 1999, 2000} /\ f.hour \in {0, 9, 12, 21} /\ f.dir \in BOOLEAN
  BY MsDosNameIs
<1>2. /\ w.year = CASE f.year = 1950 -> "50" [] f.year = 1999 -> "1999" [] f.year = 2000 -> "00"
      /\ w.hour = IF f.hour \in {0, 12} THEN "12" ELSE "09"
      /\ w.half = IF f.hour < 12 THEN "A" ELSE "P"
      /\ w.size = IF f.dir THEN "<DIR>" ELSE "531"
  BY DEF MsDosWordsOf
<1>3. /\ f.year = 1950 => w.year = "50"
      /\ f.year = 1999 => w.year = "1999"
      /\ f.year = 2000 => w.year = "00"
  <2>1. CASE f.year = 1950
    BY <1>2, <2>1
  <2>2. CASE f.year = 1999
    BY <1>2, <2>2
  <2>3. CASE f.year = 2000
    BY <1>2, <2>3
  <2> QED
    BY <1>1, <2>1, <2>2, <2>3
<1>4. w.year \in {"50", "1999", "00"} /\ FullYear(Value[w.year]) = f.year
  <2>1. FullYear(50) = 1950 /\ FullYear(1999) = 1999 /\ FullYear(0) = 2000
    BY DEF FullYear
  <2> QED
    BY <1>1, <1>3, <2>1, ValuesAre
<1>5. /\ f.hour \in {0, 12} => w.hour = "12"
      /\ f.hour \in {9, 21} => w.hour = "09"
      /\ f.hour \in {0, 9} => w.half = "A"
      /\ f.hour \in {12, 21} => w.half = "P"
  BY <1>2
<1>6. w.hour \in {"12", "09"} /\ w.half \in {"A", "P"}
  BY <1>1, <1>5
<1>7. Hour(Value[w.hour], w.half = "P") = f.hour
  <2>1. Hour(12, FALSE) = 0 /\ Hour(9, FALSE) = 9 /\ Hour(12, TRUE) = 12 /\ Hour(9, TRUE) = 21
    BY DEF Hour
  <2>2. ("P" = "P") = TRUE /\ ("A" = "P") = FALSE
    OBVIOUS
  <2>3. CASE f.hour = 0
    <3>1. Value[w.hour] = 12 /\ (w.half = "P") = FALSE
      BY <1>5, <2>3, ValuesAre
    <3> QED
      BY <2>1, <2>3, <3>1
  <2>4. CASE f.hour = 9
    <3>1. Value[w.hour] = 9 /\ (w.half = "P") = FALSE
      BY <1>5, <2>4, ValuesAre
    <3> QED
      BY <2>1, <2>4, <3>1
  <2>5. CASE f.hour = 12
    <3>1. Value[w.hour] = 12 /\ (w.half = "P") = TRUE
      BY <1>5, <2>5, ValuesAre
    <3> QED
      BY <2>1, <2>5, <3>1
  <2>6. CASE f.hour = 21
    <3>1. Value[w.hour] = 9 /\ (w.half = "P") = TRUE
      BY <1>5, <2>6, ValuesAre
    <3> QED
      BY <2>1, <2>6, <3>1
  <2> QED
    BY <1>1, <2>3, <2>4, <2>5, <2>6
<1>8. (f.dir <=> w.size = "<DIR>") /\ (~f.dir => w.size = "531") /\ w.size \in {"<DIR>", "531"}
  BY <1>1, <1>2
<1>9. w \in MsDosWords
  <2>1. \A a \in {"50", "1999", "00"}, b \in {"12", "09"}, c \in {"A", "P"}, d \in {"<DIR>", "531"} :
           [year |-> a, hour |-> b, half |-> c, size |-> d] \in MsDosWords
    BY SMT DEF MsDosWords
  <2>2. \A a, b, c, d :
           w = [year |-> a, hour |-> b, half |-> c, size |-> d] =>
           w.year = a /\ w.hour = b /\ w.half = c /\ w.size = d
    OBVIOUS
  <2> DEFINE year == CASE f.year = 1950 -> "50" [] f.year = 1999 -> "1999" [] f.year = 2000 -> "00"
             hour == IF f.hour \in {0, 12} THEN "12" ELSE "09"
             half == IF f.hour < 12 THEN "A" ELSE "P"
             size == IF f.dir THEN "<DIR>" ELSE "531"
  <2>3. w = [year |-> year, hour |-> hour, half |-> half, size |-> size]
    BY DEF MsDosWordsOf
  <2> HIDE DEF year, hour, half, size
  <2>4. w = [year |-> w.year, hour |-> w.hour, half |-> w.half, size |-> w.size]
    BY <2>2, <2>3, Zenon
  <2>5. [year |-> w.year, hour |-> w.hour, half |-> w.half, size |-> w.size] \in MsDosWords
    BY <1>4, <1>6, <1>8, <2>1, Zenon
  <2> QED
    BY <2>4, <2>5, Zenon
<1> QED
  BY <1>4, <1>7, <1>8, <1>9

\* What an MSDOS line says when it ends after this much of the name.
MsDosNamed(f, name) == [MsDosEntry(f) EXCEPT !.name = name]

\* The name of such an entry; with the name of the file it is the entry of the file.
LEMMA MsDosNamedIs ==
    ASSUME NEW f
    PROVE  /\ MsDosNamed(f, f.name) = MsDosEntry(f)
           /\ \A o : MsDosNamed(f, o).name = o
<1> DEFINE when == <<"minute", f.year, 3, 27, f.hour, 4>>
           count == IF f.dir THEN NoSize ELSE "531"
<1>1. MsDosEntry(f) = EntryWith(f.name, f.dir, ~f.dir, count, when)
  BY EntryIs, Zenon DEF MsDosEntry, NoSize
<1> HIDE DEF when, count
<1>2. \A o : MsDosNamed(f, o) = EntryWith(o, f.dir, ~f.dir, count, when)
  <2>1. \A a, c, d, x, e, o : [EntryWith(a, c, d, x, e) EXCEPT !.name = o] = EntryWith(o, c, d, x, e)
    BY EntryIs
  <2>2. \A o : [EntryWith(f.name, f.dir, ~f.dir, count, when) EXCEPT !.name = o] =
                EntryWith(o, f.dir, ~f.dir, count, when)
    BY <2>1
  <2> QED
    BY <1>1, <2>2, Zenon DEF MsDosNamed
<1>3. \A a, c, d, x, e : EntryWith(a, c, d, x, e).name = a
  BY EntryIs
<1> QED
  BY <1>1, <1>2, <1>3

\* What the beginning s of an MSDOS line, whose name begins at b, is understood to say.
MsDosSays(f, b, s) == MsDos(s) = IF Len(s) < b THEN Null ELSE MsDosNamed(f, SubSeq(s, b, Len(s)))

\* What MSDOS lines, whole or cut, are understood to say.
LEMMA MsDosIs ==
    ASSUME NEW f \in MsDosFiles, NEW g \in Nat, g >= 1, NEW h \in Nat, h = 6 + g,
           NEW z \in Nat, z = h + 5 + g, NEW b \in Nat, b = z + 1 + g,
           NEW w, w = MsDosWordsOf(f),
           NEW s, IsText(s), 1 <= Len(s), MsDosLayout(g, h, z, b, w, s)
    PROVE  MsDosSays(f, b, s)
<1> DEFINE n == Len(s)
           dash1 == UpTo(s, 1, {"-"})
           mday == Past(s, dash1, "-")
           dash2 == UpTo(s, mday, {"-"})
           year == Past(s, dash2, "-")
           space == UpTo(s, year, {SP})
           hour == Past(s, space, SP)
           colon == UpTo(s, hour, {":"})
           minute == Past(s, colon, ":")
           half == UpTo(s, minute, {"A", "P"})
           afterA == PastOne(s, half, "A")
           afterP == PastOne(s, afterA, "P")
           afterM == PastOne(s, afterP, "M")
           size == Past(s, afterM, SP)
           end == UpTo(s, size, {SP})
           name == Past(s, end, SP)
           pm == afterA > 0 /\ s[afterA] = "P"
           dir == s[size] = "<DIR>"
           rest == SubSeq(s, name, n)
           bytes == IF dir THEN "" ELSE GetLong(SubSeq(s, size, end - 1))
           time == <<"minute", FullYear(Number(s, year, space)), Number(s, 1, dash1) - 1,
                     Number(s, mday, dash2), Hour(Number(s, hour, colon), pm), Number(s, minute, half)>>
<1> SUFFICES MsDos(s) = IF n < b THEN Null ELSE [MsDosEntry(f) EXCEPT !.name = SubSeq(s, b, n)]
  BY Zenon DEF MsDosSays, MsDosNamed
<1>1. MsDos(s) = IF name = 0 THEN Null ELSE Put5(Nothing, rest, dir, ~dir, bytes, time)
  BY Zenon DEF MsDos, Put5
<1>2. n \in Nat /\ f.dir \in BOOLEAN /\ w \in MsDosWords
  BY TextIs, MsDosNameIs, MsDosWordsAre
<1>3. At(1, n) = 1 /\ w.half \in {"A", "P"}
  BY <1>2 DEF At, MsDosWords
<1>0. MsDosFound(h, z, b, w, s)
  BY <1>2, MsDosPlaces
<1>4.
      /\ dash1 = At(2, n)
      /\ mday = At(3, n)
      /\ dash2 = At(4, n)
      /\ year = At(5, n)
      /\ space = At(6, n)
      /\ hour = At(h, n)
      /\ colon = At(h + 1, n)
      /\ minute = At(h + 2, n)
      /\ half = At(h + 3, n)
      /\ afterA = IF w.half = "A" THEN At(h + 4, n) ELSE At(h + 3, n)
      /\ afterP = At(h + 4, n)
      /\ afterM = At(h + 5, n)
      /\ size = At(z, n)
      /\ end = At(z + 1, n)
      /\ name = At(b, n)
  <2> HIDE DEF n
  <2>1. dash1 = At(2, n)
    BY <1>0, <1>3, Zenon DEF MsDosFound, n
  <2> HIDE DEF dash1
  <2>2. mday = At(3, n)
    BY <1>0, <2>1, Zenon DEF MsDosFound, n
  <2> HIDE DEF mday
  <2>3. dash2 = At(4, n)
    BY <1>0, <2>2, Zenon DEF MsDosFound, n
  <2> HIDE DEF dash2
  <2>4. year = At(5, n)
    BY <1>0, <2>3, Zenon DEF MsDosFound, n
  <2> HIDE DEF year
  <2>5. space = At(6, n)
    BY <1>0, <2>4, Zenon DEF MsDosFound, n
  <2> HIDE DEF space
  <2>6. hour = At(h, n)
    BY <1>0, <2>5, Zenon DEF MsDosFound, n
  <2> HIDE DEF hour
  <2>7. colon = At(h + 1, n)
    BY <1>0, <2>6, Zenon DEF MsDosFound, n
  <2> HIDE DEF colon
  <2>8. minute = At(h + 2, n)
    BY <1>0, <2>7, Zenon DEF MsDosFound, n
  <2> HIDE DEF minute
  <2>9. half = At(h + 3, n)
    BY <1>0, <2>8, Zenon DEF MsDosFound, n
  <2> HIDE DEF half
  <2>10. afterA = IF w.half = "A" THEN At(h + 4, n) ELSE At(h + 3, n)
    <3>1. CASE w.half = "A"
      BY <1>0, <1>3, <3>1, <2>9, Zenon DEF MsDosFound, n
    <3>2. CASE w.half = "P"
      <4>1. w.half # "A"
        BY <3>2
      <4> QED
        BY <1>0, <1>3, <3>2, <4>1, <2>9, Zenon DEF MsDosFound, n
    <3> QED
      BY <1>3, <3>1, <3>2
  <2> HIDE DEF afterA
  <2>11. afterP = At(h + 4, n)
    <3>1. CASE w.half = "A"
      BY <1>0, <1>3, <3>1, <2>10, Zenon DEF MsDosFound, n
    <3>2. CASE w.half = "P"
      <4>1. w.half # "A"
        BY <3>2
      <4> QED
        BY <1>0, <1>3, <3>2, <4>1, <2>10, Zenon DEF MsDosFound, n
    <3> QED
      BY <1>3, <3>1, <3>2
  <2> HIDE DEF afterP
  <2>12. afterM = At(h + 5, n)
    BY <1>0, <2>11, Zenon DEF MsDosFound, n
  <2> HIDE DEF afterM
  <2>13. size = At(z, n)
    BY <1>0, <2>12, Zenon DEF MsDosFound, n
  <2> HIDE DEF size
  <2>14. end = At(z + 1, n)
    BY <1>0, <2>13, Zenon DEF MsDosFound, n
  <2> HIDE DEF end
  <2>15. name = At(b, n)
    BY <1>0, <2>14, Zenon DEF MsDosFound, n
  <2> HIDE DEF name
  <2> QED
    BY <2>1, <2>2, <2>3, <2>4, <2>5, <2>6, <2>7, <2>8, <2>9, <2>10, <2>11, <2>12, <2>13, <2>14, <2>15, Zenon
<1> HIDE DEF dash1, mday, dash2, year, space, hour, colon, minute, half, afterA, afterP, afterM, size, end, name
<1>7. FullYear(Value[w.year]) = f.year /\ Hour(Value[w.hour], w.half = "P") = f.hour
  BY MsDosWordsAre
<1>8. n < b \/ n >= b
  BY <1>2
<1>5. CASE n < b
  <2>1. name = 0
    BY <1>2, <1>4, <1>5 DEF At
  <2> QED
    BY <1>1, <1>5, <2>1
<1>6. CASE n >= b
  <2>1. /\ dash1 = 2 /\ mday = 3 /\ dash2 = 4 /\ year = 5 /\ space = 6 /\ hour = h /\ colon = h + 1
        /\ minute = h + 2 /\ half = h + 3 /\ size = z /\ end = z + 1 /\ name = b
        /\ afterA = IF w.half = "A" THEN h + 4 ELSE h + 3
    <3>1. \A i \in 1 .. b : At(i, n) = i
      BY <1>2, <1>6 DEF At
    <3>2. {2, 3, 4, 5, 6, h, h + 1, h + 2, h + 3, h + 4, z, z + 1, b} \subseteq 1 .. b
      OBVIOUS
    <3>3. \A i \in {2, 3, 4, 5, 6, h, h + 1, h + 2, h + 3, h + 4, z, z + 1, b} : At(i, n) = i
      BY <3>1, <3>2, Zenon
    <3>4. /\ At(2, n) = 2 /\ At(3, n) = 3 /\ At(4, n) = 4 /\ At(5, n) = 5 /\ At(6, n) = 6
          /\ At(h, n) = h /\ At(h + 1, n) = h + 1 /\ At(h + 2, n) = h + 2 /\ At(h + 3, n) = h + 3
          /\ At(h + 4, n) = h + 4 /\ At(z, n) = z /\ At(z + 1, n) = z + 1 /\ At(b, n) = b
      BY <3>3, Zenon
    <3> QED
      BY <1>4, <3>4, Zenon
  <2>2. /\ s[1] = "04" /\ s[3] = "27" /\ s[5] = w.year /\ s[h] = w.hour /\ s[h + 2] = "04"
        /\ s[h + 3] = w.half /\ s[h + 4] = "M" /\ s[z] = w.size
    BY <1>2, <1>6 DEF MsDosLayout
  <2>3. w.year \in DOMAIN Value /\ w.hour \in DOMAIN Value /\ w.size \in {"<DIR>", "531"}
    <3>1. w.year \in {"50", "1999", "00"} /\ w.hour \in {"12", "09"} /\ w.size \in {"<DIR>", "531"}
      BY <1>2 DEF MsDosWords
    <3> QED
      BY <3>1, ValuesAre
  <2>4. "04" \in DOMAIN Value /\ "27" \in DOMAIN Value
    BY ValuesAre, SMT
  <2>a. Number(s, 1, 2) = Value["04"]
    <3>1. 1 \in 1 .. Len(s) /\ 1 + 1 = 2
      BY <1>2, <1>6
    <3>2. s[1] \in DOMAIN Value
      BY <2>2, <2>3, <2>4, Zenon
    <3>3. Number(s, 1, 1 + 1) = Value[s[1]]
      BY <3>1, <3>2, NumberIs, Zenon
    <3> QED
      BY <2>2, <3>1, <3>3, Zenon
  <2>b. Number(s, 3, 4) = Value["27"]
    <3>1. 3 \in 1 .. Len(s) /\ 3 + 1 = 4
      BY <1>2, <1>6
    <3>2. s[3] \in DOMAIN Value
      BY <2>2, <2>3, <2>4, Zenon
    <3>3. Number(s, 3, 3 + 1) = Value[s[3]]
      BY <3>1, <3>2, NumberIs, Zenon
    <3> QED
      BY <2>2, <3>1, <3>3, Zenon
  <2>c. Number(s, 5, 6) = Value[w.year]
    <3>1. 5 \in 1 .. Len(s) /\ 5 + 1 = 6
      BY <1>2, <1>6
    <3>2. s[5] \in DOMAIN Value
      BY <2>2, <2>3, <2>4, Zenon
    <3>3. Number(s, 5, 5 + 1) = Value[s[5]]
      BY <3>1, <3>2, NumberIs, Zenon
    <3> QED
      BY <2>2, <3>1, <3>3, Zenon
  <2>d. Number(s, h, h + 1) = Value[w.hour]
    <3>1. h \in 1 .. Len(s) /\ h + 1 = h + 1
      BY <1>2, <1>6
    <3>2. s[h] \in DOMAIN Value
      BY <2>2, <2>3, <2>4, Zenon
    <3>3. Number(s, h, h + 1) = Value[s[h]]
      BY <3>1, <3>2, NumberIs, Zenon
    <3> QED
      BY <2>2, <3>1, <3>3, Zenon
  <2>e. Number(s, h + 2, h + 3) = Value["04"]
    <3>1. h + 2 \in 1 .. Len(s) /\ h + 2 + 1 = h + 3
      BY <1>2, <1>6
    <3>2. s[h + 2] \in DOMAIN Value
      BY <2>2, <2>3, <2>4, Zenon
    <3>3. Number(s, h + 2, h + 2 + 1) = Value[s[h + 2]]
      BY <3>1, <3>2, NumberIs, Zenon
    <3> QED
      BY <2>2, <3>1, <3>3, Zenon
  <2>5. pm <=> w.half = "P"
    <3>1. afterA > 0
      BY <2>1
    <3>2. w.half = "A" => s[afterA] = "M"
      BY <2>1, <2>2
    <3>3. w.half = "P" => s[afterA] = "P"
      BY <2>1, <2>2
    <3> QED
      BY <1>3, <3>1, <3>2, <3>3
  <2>6. dir <=> f.dir
    BY <2>1, <2>2, MsDosWordsAre, Zenon
  <2>7. bytes = IF f.dir THEN NoSize ELSE "531"
    <3>1. CASE f.dir
      BY <2>6, <3>1, Zenon DEF NoSize
    <3>2. CASE ~f.dir
      <4>1. s[z] = "531"
        BY <2>2, <3>2, MsDosWordsAre, Zenon
      <4>2. size = z /\ end - 1 = z /\ z \in 1 .. Len(s)
        BY <1>2, <1>6, <2>1
      <4>3. SubSeq(s, z, z) = <<s[z]>>
        BY <4>2, WholeIs
      <4>4. \A a : Len(<<a>>) = 1 /\ <<a>>[1] = a
        OBVIOUS
      <4>5. GetLong(<<"531">>) = "531"
        BY <4>4, Zenon DEF GetLong, Numbers
      <4> QED
        BY <2>6, <3>2, <4>1, <4>2, <4>3, <4>5, Zenon
    <3> QED
      BY <3>1, <3>2
  <2>8. time = <<"minute", f.year, 3, 27, f.hour, 4>>
    <3>1. Number(s, year, space) = Value[w.year] /\ Number(s, 1, dash1) = 4 /\ Number(s, mday, dash2) = 27
          /\ Number(s, hour, colon) = Value[w.hour] /\ Number(s, minute, half) = 4
      <4>1. Value["04"] = 4 /\ Value["27"] = 27
        BY ValuesAre
      <4> HIDE DEF n
      <4> QED
        BY <2>1, <2>a, <2>b, <2>c, <2>d, <2>e, <4>1, Zenon
    <3>2. FullYear(Number(s, year, space)) = f.year
      BY <1>7, <3>1, Zenon
    <3>3. Hour(Number(s, hour, colon), pm) = f.hour
      <4>1. pm = (w.half = "P")
        BY <2>5
      <4> QED
        BY <1>7, <3>1, <4>1, Zenon
    <3>4. Number(s, 1, dash1) - 1 = 3
      BY <3>1
    <3> HIDE DEF pm
    <3> QED
      BY <3>1, <3>2, <3>3, <3>4
  <2> HIDE DEF time, bytes, dir, rest
  <2> DEFINE when == <<"minute", f.year, 3, 27, f.hour, 4>>
             count == IF f.dir THEN NoSize ELSE "531"
             tail == SubSeq(s, b, n)
  <2>9. MsDos(s) = EntryWith(rest, dir, ~dir, bytes, time)
    <3>1. name # 0
      BY <2>1
    <3>2. \A a, c, d, x, e : Put5(Nothing, a, c, d, x, e) = EntryWith(a, c, d, x, e)
      BY EntryIs
    <3> QED
      BY <1>1, <3>1, <3>2, ZenonT(60)
  <2>10. rest = tail /\ dir = f.dir
    BY <1>2, <2>1, <2>6 DEF rest, dir
  <2>11. MsDosEntry(f) = EntryWith(f.name, f.dir, ~f.dir, count, when)
    BY EntryIs, Zenon DEF MsDosEntry, NoSize
  <2> HIDE DEF when, count, tail
  <2>12. [MsDosEntry(f) EXCEPT !.name = tail] = EntryWith(tail, f.dir, ~f.dir, count, when)
    <3>1. \A a, c, d, x, e, o : [EntryWith(a, c, d, x, e) EXCEPT !.name = o] = EntryWith(o, c, d, x, e)
      BY EntryIs, SMTT(60)
    <3>2. [EntryWith(f.name, f.dir, ~f.dir, count, when) EXCEPT !.name = tail] =
          EntryWith(tail, f.dir, ~f.dir, count, when)
      BY <3>1, SMTT(60)
    <3> QED
      BY <2>11, <3>2, Zenon
  <2>13. time = when /\ bytes = count
    BY <2>7, <2>8, Zenon DEF when, count
  <2>14. MsDos(s) = [MsDosEntry(f) EXCEPT !.name = tail]
    BY <2>9, <2>10, <2>12, <2>13, Zenon
  <2> QED
    BY <1>2, <1>6, <2>14 DEF tail
<1> QED
  BY <1>5, <1>6, <1>8, Zenon

\* What the loops find is a place; from no place on, or without a stop, nothing.
LEMMA UpToFinds ==
    ASSUME NEW s, IsText(s), NEW p \in Nat, NEW ends
    PROVE  /\ UpTo(s, p, ends) \in Nat
           /\ p = 0 \/ (\A q \in 1 .. Len(s) : s[q] \notin ends) => UpTo(s, p, ends) = 0
<1> DEFINE u == UpTo(s, p, ends)
<1>1. u \in Nat /\ (u # 0 => p > 0 /\ u \in p .. Len(s) /\ s[u] \in ends)
  BY UpToIs
<1>2. Len(s) \in Nat
  BY TextIs
<1> HIDE DEF u
<1>3. p = 0 \/ (\A q \in 1 .. Len(s) : s[q] \notin ends) => u = 0
  BY <1>1, <1>2
<1> QED
  BY <1>1, <1>3 DEF u

\* The same of Past.
LEMMA PastFinds ==
    ASSUME NEW s, IsText(s), NEW p \in Nat, NEW symbol
    PROVE  Past(s, p, symbol) \in Nat /\ (p = 0 => Past(s, p, symbol) = 0)
<1> DEFINE u == Past(s, p, symbol)
<1>1. u \in Nat /\ (u # 0 => p > 0)
  BY PastIs
<1> HIDE DEF u
<1>2. p = 0 => u = 0
  BY <1>1
<1> QED
  BY <1>1, <1>2 DEF u

\* A line without a space is nothing the MSDOS loops understand.
LEMMA NoSpace ==
    ASSUME NEW s, IsText(s), \A q \in 1 .. Len(s) : s[q] # SP
    PROVE  MsDos(s) = Null
<1> DEFINE dash1  == UpTo(s, 1, {"-"})
           mday   == Past(s, dash1, "-")
           dash2  == UpTo(s, mday, {"-"})
           year   == Past(s, dash2, "-")
           space  == UpTo(s, year, {SP})
           hour   == Past(s, space, SP)
           colon  == UpTo(s, hour, {":"})
           minute == Past(s, colon, ":")
           half   == UpTo(s, minute, {"A", "P"})
           afterA == PastOne(s, half, "A")
           pm     == afterA > 0 /\ s[afterA] = "P"
           size   == Past(s, PastOne(s, PastOne(s, afterA, "P"), "M"), SP)
           end    == UpTo(s, size, {SP})
           name   == Past(s, end, SP)
<1>1. \A stops : UpTo(s, 0, stops) = 0
  BY UpToFinds
<1>2. \A symbol : Past(s, 0, symbol) = 0
  BY PastFinds
<1>3. \A symbol : PastOne(s, 0, symbol) = 0
  BY Zenon DEF PastOne
<1>4. space = 0
  <2>1. dash1 \in Nat
    BY UpToFinds, PastFinds
  <2> HIDE DEF dash1
  <2>2. mday \in Nat
    BY <2>1, UpToFinds, PastFinds
  <2> HIDE DEF mday
  <2>3. dash2 \in Nat
    BY <2>2, UpToFinds, PastFinds
  <2> HIDE DEF dash2
  <2>4. year \in Nat
    BY <2>3, UpToFinds, PastFinds
  <2> HIDE DEF year
  <2>5. \A q \in 1 .. Len(s) : s[q] \notin {SP}
    OBVIOUS
  <2> QED
    BY <2>4, <2>5, UpToFinds, PastFinds
<1> HIDE DEF space
<1>5. hour = 0
  BY <1>2, <1>4, Zenon
<1> HIDE DEF hour
<1>6. colon = 0
  BY <1>1, <1>5, Zenon
<1> HIDE DEF colon
<1>7. minute = 0
  BY <1>2, <1>6, Zenon
<1> HIDE DEF minute
<1>8. half = 0
  BY <1>1, <1>7, Zenon
<1> HIDE DEF half
<1>9. afterA = 0
  BY <1>3, <1>8, Zenon
<1> HIDE DEF afterA
<1>10. size = 0
  BY <1>2, <1>3, <1>9, Zenon
<1> HIDE DEF size
<1>11. end = 0
  BY <1>1, <1>10, Zenon
<1> HIDE DEF end
<1>12. name = 0
  BY <1>2, <1>11, Zenon
<1> USE DEF space, hour, colon, minute, half, afterA, size, end
<1> QED
  BY <1>12, Zenon DEF MsDos

-----------------------------------------------------------------------------
(* UNIX *)

\* What the loop does at the space after a word.
Advance(a, token, j) ==
    CASE a.state = 1 -> [a EXCEPT !.state = 2]
      [] a.state = 2 -> [a EXCEPT !.state = AfterPerm(token)]
      [] a.state = 3 -> [a EXCEPT !.state = 4]
      [] a.state = 4 -> [a EXCEPT !.state = 5, !.size = GetLong(token)]
      [] a.state = 5 -> IF token[1] \in Months
                        THEN [a EXCEPT !.state = 6, !.month = token[1]]
                        ELSE [a EXCEPT !.size = GetLong(token)]
      [] a.state = 6 -> [a EXCEPT !.state = 7, !.mday = GetLong(token)]
      [] a.state = 7 -> IF token[1] \in Short
                        THEN [a EXCEPT !.state = 0]
                        ELSE [a EXCEPT !.state = 8, !.mtime = When(a, token),
                                       !.from = j + 1]
      [] OTHER -> a

\* A round of the loop: nothing, or at the space after a word what Advance does.
LEMMA UnixStepIs ==
    ASSUME NEW line, NEW a, NEW j
    PROVE  UnixStep(line, a, j) =
           IF j = 1 \/ line[j] # SP \/ line[j - 1] = SP THEN a ELSE Advance(a, Token(line, j), j)
  BY Zenon DEF UnixStep, Advance

\* Where the loop stands, in these fields.
Stand(state, size, month, mday, mtime, from) ==
    [state |-> state, size |-> size, month |-> month, mday |-> mday, mtime |-> mtime, from |-> from]

\* The fields of where the loop stands.
LEMMA StandIs ==
    ASSUME NEW s, NEW z, NEW o, NEW d, NEW t, NEW f
    PROVE  /\ Stand(s, z, o, d, t, f).state = s /\ Stand(s, z, o, d, t, f).size = z
           /\ Stand(s, z, o, d, t, f).month = o /\ Stand(s, z, o, d, t, f).mday = d
           /\ Stand(s, z, o, d, t, f).mtime = t /\ Stand(s, z, o, d, t, f).from = f
  BY DEF Stand

\* A round at the space after a word, in each of the states.
LEMMA AdvanceIs ==
    ASSUME NEW z, NEW o, NEW d, NEW t, NEW f, NEW token, NEW j
    PROVE  /\ Advance(Stand(1, z, o, d, t, f), token, j) = Stand(2, z, o, d, t, f)
           /\ Advance(Stand(2, z, o, d, t, f), token, j) = Stand(AfterPerm(token), z, o, d, t, f)
           /\ Advance(Stand(3, z, o, d, t, f), token, j) = Stand(4, z, o, d, t, f)
           /\ Advance(Stand(4, z, o, d, t, f), token, j) = Stand(5, GetLong(token), o, d, t, f)
           /\ token[1] \in Months =>
                 Advance(Stand(5, z, o, d, t, f), token, j) = Stand(6, z, token[1], d, t, f)
           /\ token[1] \notin Months =>
                 Advance(Stand(5, z, o, d, t, f), token, j) = Stand(5, GetLong(token), o, d, t, f)
           /\ Advance(Stand(6, z, o, d, t, f), token, j) = Stand(7, z, o, GetLong(token), t, f)
           /\ token[1] \notin Short =>
                 Advance(Stand(7, z, o, d, t, f), token, j) =
                 Stand(8, z, o, d, When(Stand(7, z, o, d, t, f), token), j + 1)
           /\ Advance(Stand(8, z, o, d, t, f), token, j) = Stand(8, z, o, d, t, f)
<1> DEFINE PutState(a, v) == [a EXCEPT !.state = v]
           PutSize(a, v)  == [a EXCEPT !.size = v]
           PutMonth(a, v) == [a EXCEPT !.month = v]
           PutDay(a, v)   == [a EXCEPT !.mday = v]
           PutTime(a, v)  == [a EXCEPT !.mtime = v]
           PutFrom(a, v)  == [a EXCEPT !.from = v]
<1>a. \A s, x, v : PutState(Stand(s, x, o, d, t, f), v) = Stand(v, x, o, d, t, f)
  BY SMT DEF Stand
<1>b. \A s, v : PutSize(Stand(s, z, o, d, t, f), v) = Stand(s, v, o, d, t, f)
  BY SMT DEF Stand
<1>c. \A s, v : PutMonth(Stand(s, z, o, d, t, f), v) = Stand(s, z, v, d, t, f)
  BY SMT DEF Stand
<1>d. \A s, v : PutDay(Stand(s, z, o, d, t, f), v) = Stand(s, z, o, v, t, f)
  BY SMT DEF Stand
<1>e. \A s, v : PutTime(Stand(s, z, o, d, t, f), v) = Stand(s, z, o, d, v, f)
  BY SMT DEF Stand
<1>f. \A s, u, v : PutFrom(Stand(s, z, o, d, u, f), v) = Stand(s, z, o, d, u, v)
  BY SMT DEF Stand
<1>g. \A s : Stand(s, z, o, d, t, f).state = s
  BY StandIs
<1>h. \A a : Advance(a, token, j) =
        CASE a.state = 1 -> PutState(a, 2)
          [] a.state = 2 -> PutState(a, AfterPerm(token))
          [] a.state = 3 -> PutState(a, 4)
          [] a.state = 4 -> PutSize(PutState(a, 5), GetLong(token))
          [] a.state = 5 -> IF token[1] \in Months
                            THEN PutMonth(PutState(a, 6), token[1])
                            ELSE PutSize(a, GetLong(token))
          [] a.state = 6 -> PutDay(PutState(a, 7), GetLong(token))
          [] a.state = 7 -> IF token[1] \in Short
                            THEN PutState(a, 0)
                            ELSE PutFrom(PutTime(PutState(a, 8), When(a, token)), j + 1)
          [] OTHER -> a
  BY DEF Advance
<1> HIDE DEF PutState, PutSize, PutMonth, PutDay, PutTime, PutFrom
<1>1. Advance(Stand(1, z, o, d, t, f), token, j) = Stand(2, z, o, d, t, f)
  BY <1>a, <1>b, <1>c, <1>d, <1>g, <1>h
<1>2. Advance(Stand(2, z, o, d, t, f), token, j) = Stand(AfterPerm(token), z, o, d, t, f)
  BY <1>a, <1>b, <1>c, <1>d, <1>g, <1>h
<1>3. Advance(Stand(3, z, o, d, t, f), token, j) = Stand(4, z, o, d, t, f)
  BY <1>a, <1>b, <1>c, <1>d, <1>g, <1>h
<1>4. Advance(Stand(4, z, o, d, t, f), token, j) = Stand(5, GetLong(token), o, d, t, f)
  BY <1>a, <1>b, <1>c, <1>d, <1>g, <1>h
<1>5. ASSUME token[1] \in Months
      PROVE  Advance(Stand(5, z, o, d, t, f), token, j) = Stand(6, z, token[1], d, t, f)
  BY <1>5, <1>a, <1>c, <1>g, <1>h
<1>6. ASSUME token[1] \notin Months
      PROVE  Advance(Stand(5, z, o, d, t, f), token, j) = Stand(5, GetLong(token), o, d, t, f)
  BY <1>6, <1>b, <1>g, <1>h
<1>7. Advance(Stand(6, z, o, d, t, f), token, j) = Stand(7, z, o, GetLong(token), t, f)
  BY <1>a, <1>b, <1>c, <1>d, <1>g, <1>h
<1>8. ASSUME token[1] \notin Short
      PROVE  Advance(Stand(7, z, o, d, t, f), token, j) =
             Stand(8, z, o, d, When(Stand(7, z, o, d, t, f), token), j + 1)
  BY <1>8, <1>a, <1>e, <1>f, <1>g, <1>h
<1>9. Advance(Stand(8, z, o, d, t, f), token, j) = Stand(8, z, o, d, t, f)
  BY <1>a, <1>b, <1>c, <1>d, <1>g, <1>h
<1> QED
  BY <1>1, <1>2, <1>3, <1>4, <1>5, <1>6, <1>7, <1>8, <1>9

\* A word of one symbol, between the start of the line or a space and a space.
LEMMA TokenAt ==
    ASSUME NEW s, IsText(s), NEW j \in 2 .. Len(s), s[j - 1] # SP, j = 2 \/ s[j - 2] = SP
    PROVE  Token(s, j) = <<s[j - 1]>>
<1> DEFINE T == {k \in 1 .. j - 1 : s[k] = SP}
           i == IF T = {} THEN 1 ELSE Max(T) + 1
           m == Max(T)
<1>1. Token(s, j) = SubSeq(s, i, j - 1)
  BY Zenon DEF Token
<1>2. Len(s) \in Nat
  BY TextIs
<1>3. T \in SUBSET (1 .. j - 1) /\ j - 1 \notin T /\ (j = 2 \/ j - 2 \in T)
  BY <1>2
<1> HIDE DEF T
<1>4. CASE T = {}
  BY <1>1, <1>2, <1>3, <1>4, WholeIs
<1>5. CASE T # {}
  <2>1. m \in T /\ \A y \in T : y <= m
    <3>1. j - 1 \in Nat
      BY <1>2
    <3> QED
      BY <1>3, <1>5, <3>1, MaxIs, ZenonT(40)
  <2> HIDE DEF m
  <2>2. m = j - 2
    BY <1>3, <2>1
  <2>3. i = j - 1
    BY <1>5, <2>2 DEF m
  <2>4. j - 1 \in 1 .. Len(s)
    BY <1>2
  <2> HIDE DEF i
  <2> QED
    BY <1>1, <2>3, <2>4, WholeIs
<1> QED
  BY <1>4, <1>5

\* The loop goes on at the first of the spaces after a word, and only there.
LEMMA WordRead ==
    ASSUME NEW s, IsText(s), NEW p \in 1 .. Len(s), s[p] # SP, p = 1 \/ s[p - 1] = SP,
           NEW e \in p .. Len(s), \A q \in p + 1 .. e : s[q] = SP
    PROVE  /\ UnixLoop(s)[p] = UnixLoop(s)[p - 1]
           /\ \A j \in p + 1 .. e : UnixLoop(s)[j] = Advance(UnixLoop(s)[p], <<s[p]>>, p + 1)
<1> DEFINE n == Len(s)
           L == UnixLoop(s)
           b == Advance(L[p], <<s[p]>>, p + 1)
<1>1. n \in Nat
  BY TextIs
<1>2. \A j \in 1 .. n : L[j] = UnixStep(s, L[j - 1], j)
  BY <1>1, UnixLoopIs
<1> HIDE DEF L
<1>3. \A j \in 1 .. n : (j = 1 \/ s[j] # SP \/ s[j - 1] = SP) => L[j] = L[j - 1]
  BY <1>2, UnixStepIs, Zenon
<1>4. L[p] = L[p - 1]
  BY <1>3
<1>5. ASSUME p + 1 <= e PROVE L[p + 1] = b
  <2>1. Token(s, p + 1) = <<s[p]>>
    <3> DEFINE j == p + 1
    <3>1. j \in 2 .. Len(s) /\ j - 1 = p /\ (p = 1 <=> j = 2) /\ j - 2 = p - 1
      BY <1>1, <1>5
    <3> HIDE DEF j
    <3>2. Token(s, j) = <<s[j - 1]>>
      BY <3>1, TokenAt
    <3> QED
      BY <3>1, <3>2 DEF j
  <2>2. p + 1 \in 1 .. n /\ p + 1 # 1 /\ s[p + 1] = SP /\ p + 1 - 1 = p
    BY <1>1, <1>5
  <2>3. L[p + 1] = UnixStep(s, L[p], p + 1)
    BY <1>2, <2>2
  <2>4. UnixStep(s, L[p], p + 1) = Advance(L[p], Token(s, p + 1), p + 1)
    BY <2>2, UnixStepIs
  <2> QED
    BY <2>1, <2>3, <2>4, Zenon
<1> DEFINE S == {k \in Nat : p + 1 + k <= e => L[p + 1 + k] = b}
<1>6. 0 \in S
  BY <1>5
<1>7. ASSUME NEW k \in 1 .. n, k - 1 \in S PROVE k \in S
  <2> SUFFICES ASSUME p + 1 + k <= e PROVE L[p + 1 + k] = b
    OBVIOUS
  <2> HIDE DEF b
  <2>1. p + 1 + k \in 1 .. n /\ s[p + 1 + k - 1] = SP /\ p + 1 + k - 1 = p + 1 + (k - 1)
    BY <1>1
  <2>2. L[p + 1 + k] = L[p + 1 + k - 1]
    BY <1>3, <2>1
  <2>3. L[p + 1 + (k - 1)] = b
    BY <1>7
  <2> QED
    BY <2>1, <2>2, <2>3
<1> HIDE DEF S
<1>8. \A k \in 0 .. n : k \in S
  BY <1>1, <1>6, <1>7, Induction
<1>9. ASSUME NEW j \in p + 1 .. e PROVE L[j] = b
  <2>1. j - p - 1 \in 0 .. n /\ p + 1 + (j - p - 1) = j /\ j <= e
    BY <1>1
  <2>2. j - p - 1 \in S
    BY <1>8, <2>1
  <2> HIDE DEF b
  <2> QED
    BY <2>1, <2>2 DEF S
<1> QED
  BY <1>4, <1>9 DEF L, b

\* Where the words of a line are that has gaps of w - 1 spaces.
Place(i, w) == (i - 1) * w + 1

\* Places are numbers, and one gap and one word apart.
LEMMA PlaceIs ==
    ASSUME NEW w \in {2, 3}, NEW i \in Nat, i >= 1
    PROVE  Place(i, w) \in Nat /\ Place(i, w) >= i /\ Place(i + 1, w) = Place(i, w) + w
<1>1. CASE w = 2
  BY <1>1 DEF Place
<1>2. CASE w = 3
  BY <1>2 DEF Place
<1> QED
  BY <1>1, <1>2

\* The first word is at the beginning.
LEMMA FirstPlace ==
    ASSUME NEW w \in {2, 3}
    PROVE  Place(1, w) = 1
<1>1. CASE w = 2
  BY <1>1 DEF Place
<1>2. CASE w = 3
  BY <1>2 DEF Place
<1> QED
  BY <1>1, <1>2

\* The symbols of a line s, or of its beginning, up to the space after the last word.
UnixLayout(words, w, s) ==
    /\ \A i \in 1 .. Len(words) : Place(i, w) <= Len(s) => s[Place(i, w)] = words[i]
    /\ \A i \in 1 .. Len(words) - 1 : \A q \in Place(i, w) + 1 .. Place(i, w) + w - 1 : q <= Len(s) => s[q] = SP
    /\ Place(Len(words), w) + 1 <= Len(s) => s[Place(Len(words), w) + 1] = SP

\* The words of a line, with an owner of m words.
UnixWords(words, m, when) ==
    /\ Len(words) = m + 5
    /\ (m = 1 /\ words[2] = "folder") \/ (m >= 2 /\ words[2] # "folder")
    /\ \A i \in 5 .. m + 1 : words[i] \notin Months
    /\ words[m + 2] = "531" /\ words[m + 3] = "Apr" /\ words[m + 4] = "8" /\ words[m + 5] = when
    /\ when \in {"1994", "03:26", "7:10"}
    /\ \A i \in 1 .. Len(words) : words[i] # SP

\* Where the loop stands before the word i: it is in state 4 at the first word after the
\* owner and in state 5 at the others, up to the size, with any of these words for a size.
Reached(m, i, a) ==
    LET first == IF m = 1 THEN 3 ELSE 4 IN
    /\ i = 1 => a = Stand(1, NoSize, NoSize, NoSize, <<>>, 1)
    /\ i = 2 => a = Stand(2, NoSize, NoSize, NoSize, <<>>, 1)
    /\ i = 3 /\ m > 1 => a = Stand(3, NoSize, NoSize, NoSize, <<>>, 1)
    /\ i \in first .. m + 2 => \E z : a = Stand(IF i = first THEN 4 ELSE 5, z, NoSize, NoSize, <<>>, 1)
    /\ i = m + 3 => a = Stand(5, "531", NoSize, NoSize, <<>>, 1)
    /\ i = m + 4 => a = Stand(6, "531", "Apr", NoSize, <<>>, 1)
    /\ i = m + 5 => a = Stand(7, "531", "Apr", "8", <<>>, 1)

\* What the code asks of the words of a UNIX line.
LEMMA OneWord ==
    /\ \A x : <<x>>[1] = x
    /\ \A x : AfterPerm(<<x>>) = IF x = "folder" THEN 4 ELSE 3
    /\ GetLong(<<"531">>) = "531" /\ GetLong(<<"8">>) = "8" /\ GetLong(<<"1994">>) = "1994"
    /\ "531" \notin Months /\ "Apr" \in Months
    /\ "1994" \notin Short /\ "03:26" \notin Short /\ "7:10" \notin Short
<1>1. \A x : <<x>>[1] = x /\ Len(<<x>>) = 1
  OBVIOUS
<1>2. \A x, y : <<x>> = <<y>> <=> x = y
  OBVIOUS
<1>3. \A x : AfterPerm(<<x>>) = IF x = "folder" THEN 4 ELSE 3
  BY <1>2, Zenon DEF AfterPerm
<1>4. "531" \in Numbers /\ "8" \in Numbers /\ "1994" \in Numbers
  BY Zenon DEF Numbers
<1>5. GetLong(<<"531">>) = "531" /\ GetLong(<<"8">>) = "8" /\ GetLong(<<"1994">>) = "1994"
  BY <1>1, <1>4, Zenon DEF GetLong
<1>6. "531" \notin Months /\ "Apr" \in Months
  BY Zenon DEF Months
<1>7. "1994" \notin Short /\ "03:26" \notin Short /\ "7:10" \notin Short
  BY Zenon DEF Short
<1> QED
  BY <1>1, <1>3, <1>5, <1>6, <1>7

\* From one word to the next.
LEMMA NextReached ==
    ASSUME NEW m \in Nat, NEW words, NEW when, UnixWords(words, m, when),
           NEW i \in 1 .. m + 4, NEW a, Reached(m, i, a), NEW j
    PROVE  Reached(m, i + 1, Advance(a, <<words[i]>>, j))
<1> DEFINE b == Advance(a, <<words[i]>>, j)
           first == IF m = 1 THEN 3 ELSE 4
<1>0. ((m = 1 /\ words[2] = "folder") \/ (m >= 2 /\ words[2] # "folder")) /\ words[m + 2] = "531"
      /\ words[m + 3] = "Apr" /\ words[m + 4] = "8" /\ \A k \in 5 .. m + 1 : words[k] \notin Months
  BY DEF UnixWords
<1>1. CASE i = 1
  <2>1. a = Stand(1, NoSize, NoSize, NoSize, <<>>, 1)
    BY <1>1 DEF Reached
  <2>2. b = Stand(2, NoSize, NoSize, NoSize, <<>>, 1)
    BY <2>1, AdvanceIs
  <2>3. i + 1 = 2 /\ i + 1 < first /\ i + 1 < m + 3
    BY <1>0, <1>1
  <2> QED
    BY <2>2, <2>3 DEF Reached
<1>2. CASE i = 2
  <2>1. a = Stand(2, NoSize, NoSize, NoSize, <<>>, 1)
    BY <1>2 DEF Reached
  <2>2. b = Stand(AfterPerm(<<words[i]>>), NoSize, NoSize, NoSize, <<>>, 1)
    BY <2>1, AdvanceIs
  <2>3. AfterPerm(<<words[i]>>) = IF m = 1 THEN 4 ELSE 3
    BY <1>0, <1>2, OneWord
  <2>4. i + 1 = 3 /\ i + 1 < m + 3 /\ (m = 1 <=> i + 1 = first) /\ (m > 1 => i + 1 < first)
    BY <1>0, <1>2
  <2> QED
    BY <2>2, <2>3, <2>4 DEF Reached
<1>3. CASE i = 3 /\ m > 1
  <2>1. a = Stand(3, NoSize, NoSize, NoSize, <<>>, 1)
    BY <1>3 DEF Reached
  <2>2. b = Stand(4, NoSize, NoSize, NoSize, <<>>, 1)
    BY <2>1, AdvanceIs
  <2>3. i + 1 = 4 /\ i + 1 < m + 3 /\ i + 1 = first
    BY <1>0, <1>3
  <2> QED
    BY <2>2, <2>3 DEF Reached
<1>4. CASE i \in first .. m + 2
  <2>1. PICK z : a = Stand(IF i = first THEN 4 ELSE 5, z, NoSize, NoSize, <<>>, 1)
    BY <1>4 DEF Reached
  <2>2. i > first => words[i] \notin Months
    <3>1. CASE i = m + 2
      BY <1>0, <3>1, OneWord
    <3>2. CASE i # m + 2
      BY <1>0, <1>4, <3>2
    <3> QED
      BY <3>1, <3>2
  <2>3. b = Stand(5, GetLong(<<words[i]>>), NoSize, NoSize, <<>>, 1)
    <3>1. CASE i = first
      BY <2>1, <3>1, AdvanceIs
    <3>2. CASE i # first
      <4>1. <<words[i]>>[1] \notin Months
        BY <1>4, <2>2, <3>2, OneWord
      <4> QED
        BY <2>1, <3>2, <4>1, AdvanceIs
    <3> QED
      BY <3>1, <3>2
  <2>4. i = m + 2 => GetLong(<<words[i]>>) = "531"
    BY <1>0, OneWord
  <2>5. /\ i + 1 > first /\ i + 1 > 3 /\ i + 1 < m + 4 /\ (i + 1 = m + 3 <=> i = m + 2)
         /\ (i + 1 \in first .. m + 2 => i # m + 2)
    BY <1>4
  <2> HIDE DEF b
  <2> QED
    BY <2>3, <2>4, <2>5 DEF Reached, b
<1>5. CASE i = m + 3
  <2>1. a = Stand(5, "531", NoSize, NoSize, <<>>, 1)
    BY <1>5 DEF Reached
  <2>2. <<words[i]>>[1] = "Apr" /\ "Apr" \in Months
    BY <1>0, <1>5, OneWord
  <2>3. b = Stand(6, "531", "Apr", NoSize, <<>>, 1)
    BY <2>1, <2>2, AdvanceIs
  <2>4. i + 1 = m + 4 /\ i + 1 > 3
    BY <1>0, <1>5
  <2> QED
    BY <2>3, <2>4 DEF Reached
<1>6. CASE i = m + 4
  <2>1. a = Stand(6, "531", "Apr", NoSize, <<>>, 1)
    BY <1>6 DEF Reached
  <2>2. GetLong(<<words[i]>>) = "8"
    BY <1>0, <1>6, OneWord
  <2>3. b = Stand(7, "531", "Apr", "8", <<>>, 1)
    BY <2>1, <2>2, AdvanceIs
  <2>4. i + 1 = m + 5 /\ i + 1 > 3
    BY <1>0, <1>6
  <2> QED
    BY <2>3, <2>4 DEF Reached
<1>7. i = 1 \/ i = 2 \/ (i = 3 /\ m > 1) \/ i \in first .. m + 2 \/ i = m + 3 \/ i = m + 4
  BY <1>0
<1> QED
  BY <1>1, <1>2, <1>3, <1>4, <1>5, <1>6, <1>7

\* The loop does not get to state 8 before the last word.
LEMMA ReachedState ==
    ASSUME NEW m \in Nat, NEW i \in 1 .. m + 5, NEW a, Reached(m, i, a), m >= 1
    PROVE  a.state # 8
<1> DEFINE first == IF m = 1 THEN 3 ELSE 4
<1>1. i = 1 \/ i = 2 \/ (i = 3 /\ m > 1) \/ i \in first .. m + 2 \/ i = m + 3 \/ i = m + 4 \/ i = m + 5
  OBVIOUS
<1>2. \E s \in 1 .. 7 : \E z, o, d : a = Stand(s, z, o, d, <<>>, 1)
  BY <1>1 DEF Reached
<1> QED
  BY <1>2, StandIs

\* The word i of the line starts at the place p, and gaps are around it.
HasWord(words, m, w, s, i, p) ==
    /\ p \in 1 .. Len(s) /\ s[p] = words[i] /\ s[p] # SP /\ (p = 1 \/ s[p - 1] = SP)
    /\ i < m + 5 => Place(i + 1, w) = p + w /\ \A q \in p + 1 .. p + w - 1 : q <= Len(s) => s[q] = SP
    /\ i = m + 5 /\ p + 1 <= Len(s) => s[p + 1] = SP

\* A word of the line is at its place.
LEMMA WordAt ==
    ASSUME NEW m \in Nat, NEW words, NEW when, UnixWords(words, m, when), NEW w \in {2, 3},
           NEW s, IsText(s), UnixLayout(words, w, s),
           NEW i \in 1 .. m + 5, NEW p \in Nat, p = Place(i, w), p <= Len(s)
    PROVE  HasWord(words, m, w, s, i, p)
<1> DEFINE n == Len(s)
<1>1. n \in Nat /\ Len(words) = m + 5 /\ words[i] # SP
  BY TextIs DEF UnixWords
<1>2. p >= 1 /\ Place(i + 1, w) = p + w /\ Place(1, w) = 1
  <2>1. i \in Nat /\ i >= 1
    OBVIOUS
  <2>2. Place(i, w) >= i /\ Place(i + 1, w) = Place(i, w) + w
    BY <2>1, PlaceIs
  <2>3. Place(1, w) = 1
    BY FirstPlace
  <2> QED
    BY <2>1, <2>2, <2>3
<1>3. s[p] = words[i]
  BY <1>1 DEF UnixLayout
<1>4. ASSUME NEW k \in 1 .. m + 4, NEW r \in Nat, r = Place(k, w)
      PROVE  \A q \in r + 1 .. r + w - 1 : q <= n => s[q] = SP
  <2>1. k \in 1 .. Len(words) - 1
    BY <1>1
  <2> QED
    BY <1>4, <2>1 DEF UnixLayout
<1>5. p = 1 \/ s[p - 1] = SP
  <2>1. CASE i = 1
    BY <1>2, <2>1
  <2>2. CASE i > 1
    <3> DEFINE k == i - 1
               r == Place(k, w)
    <3>1. k \in 1 .. m + 4 /\ k + 1 = i /\ k \in Nat /\ k >= 1
      BY <2>2
    <3> HIDE DEF k
    <3>2. r \in Nat /\ p = r + w
      BY <3>1, PlaceIs
    <3>3. \A q \in r + 1 .. r + w - 1 : q <= n => s[q] = SP
      BY <1>4, <3>1, <3>2
    <3> HIDE DEF r
    <3> QED
      BY <1>1, <3>2, <3>3
  <2> QED
    BY <2>1, <2>2
<1>6. i < m + 5 => \A q \in p + 1 .. p + w - 1 : q <= n => s[q] = SP
  BY <1>4
<1>7. i = m + 5 /\ p + 1 <= n => s[p + 1] = SP
  BY <1>1 DEF UnixLayout
<1> QED
  BY <1>1, <1>2, <1>3, <1>5, <1>6, <1>7 DEF HasWord

\* Where the loop stands at each of the words.
LEMMA UnixReads ==
    ASSUME NEW m \in Nat, NEW words, NEW when, UnixWords(words, m, when), NEW w \in {2, 3},
           NEW s, IsText(s), UnixLayout(words, w, s)
    PROVE  \A i \in 1 .. m + 5 : Place(i, w) <= Len(s) => Reached(m, i, UnixLoop(s)[Place(i, w)])
<1> DEFINE n == Len(s)
           L == UnixLoop(s)
           Is(i) == Place(i, w) <= n => Reached(m, i, L[Place(i, w)])
           S == {k \in Nat : Is(k + 1)}
<1>1. n \in Nat /\ m >= 1
  BY TextIs DEF UnixWords
<1>2. 0 \in S
  <2> SUFFICES ASSUME 1 <= n PROVE Reached(m, 1, L[1])
    BY FirstPlace
  <2>1. L[1] = L[0]
    <3>1. 1 = Place(1, w) /\ 1 \in 1 .. m + 5
      BY <1>1, FirstPlace
    <3>2. s[1] # SP
      <4>1. HasWord(words, m, w, s, 1, 1)
        BY <1>1, <3>1, WordAt
      <4> QED
        BY <4>1 DEF HasWord
    <3>3. 1 \in 1 .. Len(s) /\ \A q \in 1 + 1 .. 1 : s[q] = SP
      BY <1>1
    <3> HIDE DEF L
    <3>4. UnixLoop(s)[1] = UnixLoop(s)[1 - 1]
      BY <3>2, <3>3, WordRead
    <3> QED
      BY <3>4 DEF L
  <2>2. L[0] = [state |-> 1, size |-> "", month |-> "", mday |-> "", mtime |-> <<>>, from |-> 1]
    BY <1>1, UnixLoopIs, Zenon
  <2> HIDE DEF L
  <2>3. L[1] = Stand(1, NoSize, NoSize, NoSize, <<>>, 1)
    BY <2>1, <2>2, Zenon DEF Stand, NoSize
  <2>4. 1 < m + 3 /\ 1 < 3
    BY <1>1
  <2> QED
    BY <2>3, <2>4 DEF Reached
<1>3. ASSUME NEW k \in 1 .. m + 4, k - 1 \in S PROVE k \in S
  <2> DEFINE p == Place(k, w)
             r == Place(k + 1, w)
  <2> SUFFICES ASSUME r <= n PROVE Reached(m, k + 1, L[r])
    OBVIOUS
  <2>1. p \in Nat /\ r = p + w
    <3>1. k \in Nat /\ k >= 1
      OBVIOUS
    <3> QED
      BY <3>1, PlaceIs
  <2>2. k \in 1 .. m + 5 /\ k < m + 5 /\ k + 1 \in 1 .. m + 5 /\ r \in Nat /\ p <= n /\ k - 1 + 1 = k
    BY <1>1, <2>1
  <2>3. Reached(m, k, L[p])
    BY <1>3, <2>2
  <2>a. p = Place(k, w) /\ r = Place(k + 1, w)
    OBVIOUS
  <2> HIDE DEF p, r, L
  <2>b. p <= Len(s) /\ r <= Len(s)
    BY <2>2
  <2>c. HasWord(words, m, w, s, k, p)
    BY <2>1, <2>2, <2>a, <2>b, WordAt
  <2>d. HasWord(words, m, w, s, k + 1, r)
    BY <2>2, <2>a, <2>b, WordAt
  <2>4. p \in 1 .. n /\ s[p] = words[k] /\ s[p] # SP /\ (p = 1 \/ s[p - 1] = SP)
        /\ \A q \in p + 1 .. p + w - 1 : q <= n => s[q] = SP
    BY <2>1, <2>2, <2>c DEF HasWord
  <2>6. r \in 1 .. n /\ s[r] # SP /\ (r = 1 \/ s[r - 1] = SP)
    BY <2>d DEF HasWord
  <2>5. L[r - 1] = Advance(L[p], <<words[k]>>, p + 1)
    <3> DEFINE e == r - 1
    <3>1. e \in p .. n /\ e \in p + 1 .. e /\ \A q \in p + 1 .. e : s[q] = SP
      BY <1>1, <2>1, <2>2, <2>4, <2>6
    <3> HIDE DEF e
    <3>2. \A j \in p + 1 .. e : UnixLoop(s)[j] = Advance(UnixLoop(s)[p], <<s[p]>>, p + 1)
      BY <2>4, <3>1, WordRead
    <3> QED
      BY <2>4, <3>1, <3>2 DEF e, L
  <2>8. L[r] = L[r - 1]
    <3>1. r \in r .. n /\ \A q \in r + 1 .. r : s[q] = SP
      BY <1>1, <2>6
    <3> QED
      BY <2>6, <3>1, WordRead DEF L
  <2>7. Reached(m, k + 1, Advance(L[p], <<words[k]>>, p + 1))
    BY <2>3, NextReached
  <2> QED
    BY <2>5, <2>7, <2>8
<1>4. m + 4 \in Nat
  OBVIOUS
<1> HIDE DEF S
<1>5. \A k \in 0 .. m + 4 : k \in S
  BY <1>2, <1>3, <1>4, Induction
<1>6. ASSUME NEW i \in 1 .. m + 5 PROVE Is(i)
  <2>1. i - 1 \in 0 .. m + 4 /\ i - 1 + 1 = i
    OBVIOUS
  <2>2. i - 1 \in S
    BY <1>5, <2>1
  <2>3. Is(i - 1 + 1)
    BY <2>2 DEF S
  <2> QED
    BY <2>1, <2>3
<1> QED
  BY <1>6

\* A line that ends before the space after its last word does not get to state 8.
LEMMA UnixCut ==
    ASSUME NEW m \in Nat, NEW words, NEW when, UnixWords(words, m, when), NEW w \in {2, 3},
           NEW s, IsText(s), UnixLayout(words, w, s), 1 <= Len(s), Len(s) <= Place(m + 5, w)
    PROVE  UnixLoop(s)[Len(s)].state # 8
<1> DEFINE n == Len(s)
           L == UnixLoop(s)
           S == {k \in Nat : \A j \in 1 .. n : j <= Place(k + 1, w) => L[j].state # 8}
<1>1. n \in Nat /\ m >= 1
  BY TextIs DEF UnixWords
<1>2. \A i \in 1 .. m + 5 : Place(i, w) <= n => Reached(m, i, L[Place(i, w)])
  BY UnixReads
<1> HIDE DEF L
<1>3. \A i \in 1 .. m + 5 : \A a : Reached(m, i, a) => a.state # 8
  BY <1>1, ReachedState
<1>4. 0 \in S
  <2>1. Place(1, w) = 1 /\ 1 \in 1 .. m + 5 /\ 1 <= n
    BY FirstPlace
  <2>2. Reached(m, 1, L[1])
    BY <1>2, <2>1
  <2>3. L[1].state # 8
    BY <1>3, <2>1, <2>2
  <2> QED
    BY <1>1, <2>1, <2>3
<1>5. ASSUME NEW k \in 1 .. m + 4, k - 1 \in S PROVE k \in S
  <2> DEFINE p == Place(k, w)
             r == Place(k + 1, w)
  <2> SUFFICES ASSUME NEW j \in 1 .. n, j <= r PROVE L[j].state # 8
    OBVIOUS
  <2>1. p \in Nat /\ r = p + w
    <3>1. k \in Nat /\ k >= 1
      OBVIOUS
    <3> QED
      BY <3>1, PlaceIs
  <2>2. k \in 1 .. m + 5 /\ k < m + 5 /\ k + 1 \in 1 .. m + 5 /\ r \in Nat /\ k - 1 + 1 = k
    BY <2>1
  <2>3. j <= p => L[j].state # 8
    BY <1>5, <2>2
  <2>4. CASE j = r
    <3>1. Reached(m, k + 1, L[j])
      BY <1>2, <2>2, <2>4
    <3> QED
      BY <1>3, <2>2, <3>1
  <2>5. CASE p < j /\ j < r
    <3>0. p <= n
      BY <1>1, <2>1, <2>5
    <3>1. Reached(m, k, L[p])
      BY <1>2, <2>2, <3>0
    <3>a. p = Place(k, w)
      OBVIOUS
    <3> HIDE DEF p, r
    <3>b. k \in 1 .. m + 5 /\ k < m + 5 /\ p \in Nat /\ p <= Len(s)
      BY <2>1, <2>2, <3>0
    <3>c. HasWord(words, m, w, s, k, p)
      BY <3>a, <3>b, WordAt
    <3>2. /\ p \in 1 .. n /\ s[p] = words[k] /\ s[p] # SP /\ (p = 1 \/ s[p - 1] = SP)
          /\ \A q \in p + 1 .. p + w - 1 : q <= n => s[q] = SP
      BY <3>b, <3>c DEF HasWord
    <3>3. j \in p .. n /\ j \in p + 1 .. j /\ \A q \in p + 1 .. j : s[q] = SP
      BY <1>1, <2>1, <2>5, <3>2
    <3>4. \A q \in p + 1 .. j : UnixLoop(s)[q] = Advance(UnixLoop(s)[p], <<s[p]>>, p + 1)
      BY <3>2, <3>3, WordRead
    <3>5. L[j] = Advance(L[p], <<words[k]>>, p + 1)
      BY <3>2, <3>3, <3>4 DEF L
    <3>6. Reached(m, k + 1, Advance(L[p], <<words[k]>>, p + 1))
      BY <3>1, NextReached
    <3> QED
      BY <1>3, <2>2, <3>5, <3>6
  <2> HIDE DEF p, r
  <2> QED
    BY <2>1, <2>2, <2>3, <2>4, <2>5
<1>a. m + 4 \in Nat
  OBVIOUS
<1> HIDE DEF S
<1>6. \A k \in 0 .. m + 4 : k \in S
  BY <1>4, <1>5, <1>a, Induction
<1>7. m + 4 \in S
  BY <1>6
<1>8. \A j \in 1 .. n : j <= Place(m + 4 + 1, w) => L[j].state # 8
  BY <1>7 DEF S
<1>9. n \in 1 .. n /\ m + 4 + 1 = m + 5
  BY <1>1
<1> QED
  BY <1>8, <1>9 DEF L

\* One that has this space is in state 8 from there on.
LEMMA UnixWhole ==
    ASSUME NEW m \in Nat, NEW words, NEW when, UnixWords(words, m, when), NEW w \in {2, 3},
           NEW s, IsText(s), UnixLayout(words, w, s),
           NEW p \in Nat, p = Place(m + 5, w), p + 1 <= Len(s)
    PROVE  UnixLoop(s)[Len(s)] =
           Stand(8, "531", "Apr", "8", When(Stand(7, "531", "Apr", "8", <<>>, 1), <<when>>), p + 2)
<1> DEFINE n == Len(s)
           L == UnixLoop(s)
           b == Stand(8, "531", "Apr", "8", When(Stand(7, "531", "Apr", "8", <<>>, 1), <<when>>), p + 2)
           S == {k \in Nat : p + 1 + k <= n => L[p + 1 + k] = b}
<1>1. n \in Nat /\ m >= 1 /\ words[m + 5] = when /\ when \in {"1994", "03:26", "7:10"}
  BY TextIs DEF UnixWords
<1>2. m + 5 \in 1 .. m + 5 /\ p <= n
  BY <1>1
<1>3. Reached(m, m + 5, L[p])
  BY <1>2, UnixReads
<1>4. L[p] = Stand(7, "531", "Apr", "8", <<>>, 1)
  BY <1>3, Zenon DEF Reached
<1>5. p \in 1 .. n /\ s[p] = words[m + 5] /\ s[p] # SP /\ (p = 1 \/ s[p - 1] = SP) /\ s[p + 1] = SP
  <2>1. HasWord(words, m, w, s, m + 5, p)
    BY <1>2, WordAt
  <2>2. p + 1 <= Len(s)
    BY <1>1
  <2> QED
    BY <2>1, <2>2 DEF HasWord
<1>6. L[p + 1] = Advance(L[p], <<when>>, p + 1)
  <2> DEFINE e == p + 1
  <2>1. e \in p .. n /\ e \in p + 1 .. e /\ \A q \in p + 1 .. e : s[q] = SP
    BY <1>1, <1>5
  <2> HIDE DEF e
  <2>2. \A j \in p + 1 .. e : UnixLoop(s)[j] = Advance(UnixLoop(s)[p], <<s[p]>>, p + 1)
    BY <1>5, <2>1, WordRead
  <2> QED
    BY <1>1, <1>5, <2>1, <2>2 DEF e
<1> HIDE DEF L
<1>7. L[p + 1] = b
  <2>1. <<when>>[1] \notin Short
    BY <1>1, OneWord
  <2>2. p + 1 + 1 = p + 2
    OBVIOUS
  <2> QED
    BY <1>4, <1>6, <2>1, <2>2, AdvanceIs
<1>8. \A token, j : Advance(b, token, j) = b
  BY AdvanceIs
<1> HIDE DEF b
<1>9. 0 \in S
  BY <1>7
<1>10. ASSUME NEW k \in 1 .. n, k - 1 \in S PROVE k \in S
  <2> DEFINE j == p + 1 + k
  <2> SUFFICES ASSUME j <= n PROVE L[j] = b
    OBVIOUS
  <2>1. j \in 1 .. n /\ j - 1 = p + 1 + (k - 1) /\ k - 1 \in Nat
    BY <1>1
  <2>2. L[j - 1] = b
    BY <1>10, <2>1
  <2> HIDE DEF j
  <2>3. L[j] = UnixStep(s, L[j - 1], j)
    BY <1>1, <2>1, UnixLoopIs DEF L
  <2>4. UnixStep(s, b, j) = b
    BY <1>8, UnixStepIs
  <2> QED
    BY <2>2, <2>3, <2>4
<1> HIDE DEF S
<1>11. \A k \in 0 .. n : k \in S
  BY <1>1, <1>9, <1>10, Induction
<1> DEFINE k == n - p - 1
<1>12. k \in 0 .. n /\ p + 1 + k = n
  BY <1>1, SMTT(60)
<1> HIDE DEF k
<1>13. k \in S
  BY <1>11, <1>12
<1>14. L[n] = b
  BY <1>12, <1>13 DEF S
<1> QED
  BY <1>14 DEF L, b

\* What is known of a file of a UNIX server.
LEMMA UnixFileIs ==
    ASSUME NEW f \in UnixFiles
    PROVE  /\ f.format = "unix" /\ f.name \in UnixNames /\ f.gap \in Gaps
           /\ f.when \in {"1994", "03:26", "7:10"}
           /\ f.type \in {"dperm", "-perm", "lperm", "d", "-"}
           /\ f.owner \in Owners \/ f.owner = <<"[perm]", "root">>
           /\ f.type # "lperm" => f.link = <<>>
           /\ f.type = "lperm" =>
                 /\ ~Contains(f.name, "->")
                 /\ f.link = <<>> \/ \E target \in Targets : f.link = <<SP, "->", SP>> \o target
<1>1. f.format = "unix" /\ f.name \in UnixNames /\ f.gap \in Gaps
  BY SMT DEF UnixFiles
<1>2. f.when \in {"1994", "03:26", "7:10"}
  BY SMT DEF UnixFiles
<1>3. f.type \in {"dperm", "-perm", "lperm", "d", "-"}
  BY SMT DEF UnixFiles, Types
<1>4. f.owner \in Owners \/ f.owner = <<"[perm]", "root">>
  <2>1. f.owner \in Owners \/ f.owner \in {<<"[perm]", "root">>}
    BY SMT DEF UnixFiles
  <2> QED
    BY <2>1, Zenon
<1>5. f.type # "lperm" => f.link = <<>>
  BY SMT DEF UnixFiles
<1>6. ASSUME f.type = "lperm"
      PROVE  /\ ~Contains(f.name, "->")
             /\ f.link = <<>> \/ \E target \in Targets : f.link = <<SP, "->", SP>> \o target
  <2>1. f.name \in {n \in UnixNames : ~Contains(n, "->")}
    BY <1>6, SMTT(60) DEF UnixFiles, Types
  <2>2. f.link \in {<<>>} \cup {<<SP, "->", SP>> \o target : target \in Targets}
    BY <1>6, SMTT(60) DEF UnixFiles, Types
  <2> QED
    BY <2>1, <2>2, Zenon
<1> QED
  BY <1>1, <1>2, <1>3, <1>4, <1>5, <1>6

\* The words of the owner.
LEMMA OwnerIs ==
    ASSUME NEW f \in UnixFiles
    PROVE  /\ IsText(f.owner) /\ Len(f.owner) \in Nat
           /\ (Len(f.owner) = 1 /\ f.owner[1] = "folder") \/ (Len(f.owner) >= 2 /\ f.owner[1] # "folder")
           /\ \A i \in 1 .. Len(f.owner) : f.owner[i] \notin {SP, LF, CR}
           /\ \A i \in 4 .. Len(f.owner) : f.owner[i] \notin Months
<1> DEFINE o == f.owner
<1>0. \A w \in {"folder", "2", "root", "[perm]"} : w # SP /\ w # LF /\ w # CR
  BY Words, Zenon
<1>1. CASE o = <<"folder">>
  <2>1. \A w : IsText(<<w>>) /\ Len(<<w>>) = 1 /\ <<w>>[1] = w
    BY ShortTexts
  <2> DEFINE t == <<"folder">>
  <2>2. IsText(t) /\ Len(t) = 1 /\ t[1] = "folder"
    BY <2>1
  <2>3. o = t
    BY <1>1
  <2> HIDE DEF t, o
  <2>4. Len(o) = 1 /\ o[1] = "folder" /\ IsText(o)
    BY <2>2, <2>3, Zenon
  <2> QED
    BY <1>0, <2>4 DEF o
<1>2. \A a, b : IsText(<<a, b>>) /\ Len(<<a, b>>) = 2 /\ <<a, b>>[1] = a /\ <<a, b>>[2] = b
  BY ShortTexts
<1>3. CASE o = <<"[perm]", "root">>
  <2> DEFINE t == <<"[perm]", "root">>
  <2>2. IsText(t) /\ Len(t) = 2 /\ t[1] = "[perm]" /\ t[2] = "root"
    BY <1>2
  <2>3. o = t
    BY <1>3
  <2> HIDE DEF t, o
  <2>4. IsText(o) /\ Len(o) = 2 /\ o[1] = "[perm]" /\ o[2] = "root"
    BY <2>2, <2>3, Zenon
  <2>5. \A i \in 1 .. Len(o) : i = 1 \/ i = 2
    BY <2>4
  <2> QED
    BY <1>0, <2>4, <2>5 DEF o
<1>4. ASSUME NEW g \in Groups, o = <<"2", "root">> \o g
      PROVE  /\ IsText(o) /\ Len(o) \in Nat /\ Len(o) >= 2 /\ o[1] = "2"
             /\ \A i \in 1 .. Len(o) : o[i] \notin {SP, LF, CR}
             /\ \A i \in 4 .. Len(o) : o[i] \notin Months
  <2> DEFINE t == <<"2", "root">>
  <2>1. IsText(t) /\ Len(t) = 2 /\ t[1] = "2" /\ t[2] = "root"
    BY <1>2
  <2>2. o = t \o g
    BY <1>4
  <2>3. g \in Seq(ToSet(g) \ {LF, CR, SP}) /\ \A i \in 2 .. Len(g) : g[i] \notin Months
    BY GroupsAssumption
  <2>4. IsText(g)
    BY <2>3, Zenon DEF IsText
  <2>5. Len(g) \in Nat /\ \A i \in 1 .. Len(g) : g[i] \notin {SP, LF, CR}
    BY <2>3
  <2> HIDE DEF t, o
  <2>6. /\ IsText(o) /\ Len(o) = 2 + Len(g)
        /\ \A i \in 1 .. 2 : o[i] = t[i]
        /\ \A i \in 1 .. Len(g) : o[2 + i] = g[i]
    <3>1. o = Join(t, g)
      BY <2>2 DEF Join
    <3>2. TextOf(t, 2) /\ TextOf(g, Len(g))
      BY <2>1, <2>4, <2>5 DEF TextOf
    <3>3. TextOf(o, 2 + Len(g)) /\ Holds(o, 0, t) /\ Holds(o, 2, g)
      BY <3>1, <3>2, JoinIs
    <3>4. \A i \in 1 .. 2 : o[0 + i] = t[i] /\ 0 + i = i
      BY <2>1, <3>3 DEF Holds
    <3> QED
      BY <3>3, <3>4, Zenon DEF TextOf, Holds
  <2>7. \A i \in 3 .. Len(o) : i - 2 \in 1 .. Len(g) /\ 2 + (i - 2) = i
    BY <2>5, <2>6
  <2>8. \A i \in 3 .. Len(o) : o[i] = g[i - 2]
    BY <2>6, <2>7
  <2>9. o[1] = "2" /\ o[2] = "root"
    BY <2>1, <2>6
  <2>10. \A i \in 1 .. Len(o) : o[i] \notin {SP, LF, CR}
    <3> TAKE i \in 1 .. Len(o)
    <3>1. i = 1 \/ i = 2 \/ i \in 3 .. Len(o)
      BY <2>5, <2>6
    <3> QED
      BY <1>0, <2>5, <2>7, <2>8, <2>9, <3>1
  <2>11. \A i \in 4 .. Len(o) : o[i] \notin Months
    <3> TAKE i \in 4 .. Len(o)
    <3>1. i \in 3 .. Len(o) /\ i - 2 \in 2 .. Len(g)
      BY <2>5, <2>6
    <3> QED
      BY <2>3, <2>8, <3>1
  <2> QED
    BY <2>5, <2>6, <2>9, <2>10, <2>11
<1>5. f.owner \in Owners \/ f.owner = <<"[perm]", "root">>
  BY UnixFileIs
<1>6. o = <<"folder">> \/ o = <<"[perm]", "root">> \/ \E g \in Groups : o = <<"2", "root">> \o g
  BY <1>5, Zenon DEF Owners
<1>7. ASSUME NEW g \in Groups, o = <<"2", "root">> \o g
      PROVE  /\ IsText(o) /\ Len(o) \in Nat /\ Len(o) >= 2 /\ o[1] # "folder"
             /\ \A i \in 1 .. Len(o) : o[i] \notin {SP, LF, CR}
             /\ \A i \in 4 .. Len(o) : o[i] \notin Months
  <2>1. "2" # "folder"
    OBVIOUS
  <2> QED
    BY <1>4, <1>7, <2>1
<1> HIDE DEF o
<1> QED
  BY <1>1, <1>3, <1>6, <1>7 DEF o

\* The words of a UNIX line.
WordsOf(f) == <<f.type>> \o f.owner \o <<"531", "Apr", "8", f.when>>

\* The words of a UNIX line are those the loop expects.
LEMMA WordsAre ==
    ASSUME NEW f \in UnixFiles, NEW m \in Nat, m = Len(f.owner)
    PROVE  /\ TextOf(WordsOf(f), m + 5) /\ UnixWords(WordsOf(f), m, f.when)
           /\ WordsOf(f)[1] = f.type
           /\ \A i \in 1 .. m + 5 : WordsOf(f)[i] \notin {LF, CR}
<1> DEFINE o == f.owner
           a == <<f.type>>
           z == <<"531", "Apr", "8", f.when>>
           words == WordsOf(f)
           type == f.type
           when == f.when
<1>1. \A x : IsText(<<x>>) /\ Len(<<x>>) = 1 /\ <<x>>[1] = x
  BY ShortTexts
<1>2. \A b, c, d, e : /\ IsText(<<b, c, d, e>>) /\ Len(<<b, c, d, e>>) = 4
                      /\ <<b, c, d, e>>[1] = b /\ <<b, c, d, e>>[2] = c
                      /\ <<b, c, d, e>>[3] = d /\ <<b, c, d, e>>[4] = e
  BY ShortTexts
<1>3. TextOf(a, 1) /\ a[1] = type /\ Len(a) = 1
  BY <1>1 DEF TextOf
<1>4. TextOf(z, 4) /\ Len(z) = 4
  BY <1>2 DEF TextOf
<1>5. z[1] = "531" /\ z[2] = "Apr" /\ z[3] = "8" /\ z[4] = when
  BY <1>2
<1>6. /\ IsText(o)
      /\ (m = 1 /\ o[1] = "folder") \/ (m >= 2 /\ o[1] # "folder")
      /\ \A i \in 1 .. m : o[i] \notin {SP, LF, CR}
      /\ \A i \in 4 .. m : o[i] \notin Months
  BY OwnerIs
<1>7. TextOf(o, m) /\ Len(o) = m /\ IsText(z) /\ IsText(o)
  BY <1>4, OwnerIs DEF TextOf
<1>8. words = Join(Join(a, o), z)
  BY Zenon DEF WordsOf, Join
<1>9. type \in {"dperm", "-perm", "lperm", "d", "-"} /\ when \in {"1994", "03:26", "7:10"}
  BY UnixFileIs
<1>10. \A w \in {"dperm", "-perm", "lperm", "d", "-", "1994", "03:26", "7:10", "531", "Apr", "8"} :
          w # SP /\ w # LF /\ w # CR
  BY Words, Zenon
<1> HIDE DEF a, o, z, words, type, when
<1>11. TextOf(Join(a, o), 1 + m) /\ Holds(Join(a, o), 0, a) /\ Holds(Join(a, o), 1, o)
  BY <1>3, <1>7, JoinIs
<1>12. TextOf(words, (1 + m) + 4) /\ Holds(words, 1 + m, z)
  BY <1>4, <1>8, <1>11, JoinIs
<1>13. Holds(words, 0, a) /\ Holds(words, 1, o)
  BY <1>7, <1>8, <1>11, HoldsOn
<1>14. TextOf(words, m + 5) /\ Len(words) = m + 5
  <2>1. (1 + m) + 4 = m + 5
    OBVIOUS
  <2>2. TextOf(words, m + 5)
    BY <1>12, <2>1
  <2> QED
    BY <2>2, Zenon DEF TextOf
<1>15. words[1] = type
  <2>1. words[0 + 1] = a[1] /\ 0 + 1 = 1
    BY <1>3, <1>13 DEF Holds
  <2> QED
    BY <1>3, <2>1
<1>16. \A i \in 1 .. m : words[1 + i] = o[i]
  BY <1>7, <1>13, Zenon DEF Holds
<1>17. words[m + 2] = "531" /\ words[m + 3] = "Apr" /\ words[m + 4] = "8" /\ words[m + 5] = when
  <2>1. \A i \in 1 .. 4 : words[1 + m + i] = z[i]
    BY <1>4, <1>12, Zenon DEF Holds
  <2>2. 1 + m + 1 = m + 2 /\ 1 + m + 2 = m + 3 /\ 1 + m + 3 = m + 4 /\ 1 + m + 4 = m + 5
    OBVIOUS
  <2>3. words[1 + m + 1] = z[1] /\ words[1 + m + 2] = z[2] /\ words[1 + m + 3] = z[3] /\ words[1 + m + 4] = z[4]
    BY <2>1
  <2> QED
    BY <1>5, <2>2, <2>3, Zenon
<1>18. \A i \in 2 .. m + 1 : i - 1 \in 1 .. m /\ words[i] = o[i - 1]
  <2> TAKE i \in 2 .. m + 1
  <2>1. i - 1 \in 1 .. m /\ 1 + (i - 1) = i
    OBVIOUS
  <2>2. words[1 + (i - 1)] = o[i - 1]
    BY <1>16, <2>1
  <2> QED
    BY <2>1, <2>2
<1>19. (m = 1 /\ words[2] = "folder") \/ (m >= 2 /\ words[2] # "folder")
  <2>1. m >= 1 => words[2] = o[1]
    BY <1>18
  <2> QED
    BY <1>6, <2>1
<1>20. \A i \in 1 .. m + 5 : words[i] \notin {SP, LF, CR}
  <2> TAKE i \in 1 .. m + 5
  <2>1. i = 1 \/ i \in 2 .. m + 1 \/ i = m + 2 \/ i = m + 3 \/ i = m + 4 \/ i = m + 5
    OBVIOUS
  <2>2. i \in 2 .. m + 1 => words[i] \notin {SP, LF, CR}
    BY <1>6, <1>18
  <2>3. words[1] \notin {SP, LF, CR}
    BY <1>9, <1>10, <1>15
  <2>4. /\ words[m + 2] \notin {SP, LF, CR} /\ words[m + 3] \notin {SP, LF, CR}
        /\ words[m + 4] \notin {SP, LF, CR} /\ words[m + 5] \notin {SP, LF, CR}
    BY <1>9, <1>10, <1>17
  <2> QED
    BY <2>1, <2>2, <2>3, <2>4
<1>21. \A i \in 5 .. m + 1 : words[i] \notin Months
  <2> TAKE i \in 5 .. m + 1
  <2>1. i \in 2 .. m + 1 /\ i - 1 \in 4 .. m
    OBVIOUS
  <2> QED
    BY <1>6, <1>18, <2>1
<1>22. UnixWords(words, m, when)
  <2>1. \A i \in 1 .. Len(words) : words[i] # SP
    BY <1>14, <1>20
  <2> QED
    BY <1>9, <1>14, <1>17, <1>19, <1>21, <2>1 DEF UnixWords
<1>23. \A i \in 1 .. m + 5 : words[i] \notin {LF, CR}
  BY <1>20
<1> QED
  BY <1>14, <1>15, <1>22, <1>23 DEF words, type, when

\* What the loop makes of the time of a file.
LEMMA WhenIs ==
    ASSUME NEW when \in {"1994", "03:26", "7:10"}
    PROVE  When(Stand(7, "531", "Apr", "8", <<>>, 1), <<when>>) =
           IF when = "1994" THEN <<"day", "1994", "Apr", "8">> ELSE <<"minute", "Apr", "8", when>>
<1> DEFINE a == Stand(7, "531", "Apr", "8", <<>>, 1)
           token == <<when>>
<1>1. a.month = "Apr" /\ a.mday = "8"
  BY StandIs
<1>2. token[1] = when
  OBVIOUS
<1>3. CASE when = "1994"
  <2>1. token[1] \notin Times
    BY <1>2, <1>3, Zenon DEF Times
  <2>2. GetLong(token) = "1994"
    BY <1>3, OneWord, Zenon
  <2> HIDE DEF a, token
  <2>3. When(a, token) = <<"day", GetLong(token), a.month, a.mday>>
    BY <2>1 DEF When
  <2>4. When(a, token) = <<"day", "1994", "Apr", "8">>
    BY <1>1, <2>2, <2>3
  <2> QED
    BY <1>3, <2>4 DEF a, token
<1>4. CASE when # "1994"
  <2>1. token[1] \in Times
    BY <1>2, <1>4, Zenon DEF Times
  <2> HIDE DEF a, token
  <2>3. When(a, token) = <<"minute", a.month, a.mday, token[1]>>
    BY <2>1 DEF When
  <2>4. When(a, token) = <<"minute", "Apr", "8", when>>
    BY <1>1, <1>2, <2>3
  <2> QED
    BY <1>4, <2>4 DEF a, token
<1> QED
  BY <1>3, <1>4

\* The name in what follows the words.
NameRead(type, rest) ==
    LET name == IF type = "lperm" THEN Linked(rest) ELSE rest
    IN IF type \in Types THEN Unpadded(name) ELSE name

\* The entry of a file, with a name.
UnixNamed(f, name) == [UnixEntry(f) EXCEPT !.name = name]

\* The fields of such an entry, and its name; with the name of the file it is the entry of the file.
LEMMA UnixEntryIs ==
    ASSUME NEW f, NEW n
    PROVE  /\ UnixNamed(f, n) =
              EntryWith(n, f.type \in {"dperm", "lperm", "d"}, f.type \in {"-perm", "lperm", "-"}, "531",
                        IF f.when = "1994" THEN <<"day", "1994", "Apr", "8">> ELSE <<"minute", "Apr", "8", f.when>>)
           /\ UnixNamed(f, f.name) = UnixEntry(f)
           /\ UnixNamed(f, n).name = n
<1> DEFINE c == f.type \in {"dperm", "lperm", "d"}
           r == f.type \in {"-perm", "lperm", "-"}
           t == IF f.when = "1994" THEN <<"day", "1994", "Apr", "8">> ELSE <<"minute", "Apr", "8", f.when>>
<1>1. \A x, a, b, z, d, i, k :
          [found |-> x, id |-> i, size |-> z, name |-> k, trycwd |-> a, tryretr |-> b, mtime |-> d] =
          Fields(x, k, a, b, z, d, i)
  BY SMT DEF Fields
<1>2. UnixEntry(f) = Fields(Yes, f.name, c, r, "531", t, <<>>)
  BY <1>1, Zenon DEF UnixEntry, Yes
<1>3. UnixEntry(f) = EntryWith(f.name, c, r, "531", t)
  BY <1>2, Zenon DEF EntryWith
<1> HIDE DEF c, r, t
<1> DEFINE Named(e, v) == [e EXCEPT !.name = v]
           entry == UnixEntry(f)
<1>4. \A a, b, d, e, z, v : Named(EntryWith(a, b, d, z, e), v) = EntryWith(v, b, d, z, e)
  BY EntryIs
<1>a. \A v : UnixNamed(f, v) = Named(entry, v)
  BY DEF UnixNamed
<1>b. entry = EntryWith(f.name, c, r, "531", t)
  BY <1>3
<1> HIDE DEF Named, entry
<1>5. \A k : UnixNamed(f, k) = EntryWith(k, c, r, "531", t)
  BY <1>4, <1>a, <1>b
<1>6. UnixNamed(f, n).name = n
  BY <1>5, EntryIs
<1> QED
  BY <1>3, <1>5, <1>6, Zenon DEF c, r, t

\* What UNIX lines, whole or cut, are understood to say.
UnixSays(f, p, s) ==
    /\ s[1] = f.type
    /\ Unix(s) = IF Len(s) <= p THEN Null ELSE UnixNamed(f, NameRead(f.type, SubSeq(s, p + 2, Len(s))))

\* What UNIX lines, whole or cut, are understood to say.
LEMMA UnixIs ==
    ASSUME NEW f \in UnixFiles, NEW m \in Nat, m = Len(f.owner), NEW w \in {2, 3},
           NEW p \in Nat, p = Place(m + 5, w),
           NEW s, IsText(s), 1 <= Len(s), UnixLayout(WordsOf(f), w, s)
    PROVE  UnixSays(f, p, s)
<1> DEFINE words == WordsOf(f)
           end == UnixLoop(s)[Len(s)]
           rest == SubSeq(s, end.from, Len(s))
           name == IF s[1] = "lperm" THEN Linked(rest) ELSE rest
           n == Len(s)
           when == f.when
<1> SUFFICES s[1] = f.type /\ Unix(s) = IF n <= p THEN Null ELSE UnixNamed(f, NameRead(f.type, SubSeq(s, p + 2, n)))
  BY Zenon DEF UnixSays
<1>0. n \in Nat /\ m + 5 \in Nat
  BY TextIs
<1>1. UnixWords(words, m, when) /\ words[1] = f.type /\ Len(words) = m + 5
  BY WordsAre DEF TextOf
<1>2. s[1] = f.type
  <2>1. \A i \in 1 .. Len(words) : Place(i, w) <= Len(s) => s[Place(i, w)] = words[i]
    BY Zenon DEF UnixLayout
  <2>2. Place(1, w) = 1
    BY FirstPlace
  <2> HIDE DEF words
  <2>3. 1 \in 1 .. Len(words)
    BY <1>1
  <2> QED
    BY <1>1, <2>1, <2>2, <2>3
<1>3. Unix(s) = IF end.state # 8 THEN Null
                ELSE [found |-> TRUE, name |-> IF s[1] \in Types THEN Unpadded(name) ELSE name,
                      trycwd |-> s[1] \in {"dperm", "lperm", "d"}, tryretr |-> s[1] \in {"-perm", "lperm", "-"},
                      size |-> end.size, mtime |-> end.mtime, id |-> <<>>]
  BY Zenon DEF Unix
<1>4. CASE n <= p
  <2>1. end.state # 8
    <3> HIDE DEF words
    <3> QED
      BY <1>1, <1>4, UnixCut DEF words
  <2> QED
    BY <1>2, <1>3, <1>4, <2>1
<1>5. CASE p < n
  <2>1. end = Stand(8, "531", "Apr", "8", When(Stand(7, "531", "Apr", "8", <<>>, 1), <<when>>), p + 2)
    <3>1. p + 1 <= Len(s)
      BY <1>0, <1>5
    <3> HIDE DEF words
    <3> QED
      BY <1>1, <3>1, UnixWhole DEF words
  <2>2. end.state = 8 /\ end.size = "531" /\ end.from = p + 2
    <3> DEFINE t == When(Stand(7, "531", "Apr", "8", <<>>, 1), <<when>>)
    <3> HIDE DEF t, end
    <3> QED
      BY <2>1, StandIs DEF t
  <2>3. end.mtime = IF when = "1994" THEN <<"day", "1994", "Apr", "8">> ELSE <<"minute", "Apr", "8", when>>
    <3> DEFINE t == When(Stand(7, "531", "Apr", "8", <<>>, 1), <<when>>)
    <3>1. t = IF when = "1994" THEN <<"day", "1994", "Apr", "8">> ELSE <<"minute", "Apr", "8", when>>
      BY UnixFileIs, WhenIs
    <3> HIDE DEF t, end
    <3>2. end.mtime = t
      BY <2>1, StandIs DEF t
    <3> QED
      BY <3>1, <3>2
  <2> HIDE DEF end
  <2>4. (IF s[1] \in Types THEN Unpadded(name) ELSE name) = NameRead(f.type, SubSeq(s, p + 2, n))
    BY <1>2, <2>2, Zenon DEF NameRead
  <2> HIDE DEF name
  <2> DEFINE k == NameRead(f.type, SubSeq(s, p + 2, n))
             c == f.type \in {"dperm", "lperm", "d"}
             r == f.type \in {"-perm", "lperm", "-"}
             t == IF when = "1994" THEN <<"day", "1994", "Apr", "8">> ELSE <<"minute", "Apr", "8", when>>
  <2>5. Unix(s) = [found |-> TRUE, name |-> k, trycwd |-> c, tryretr |-> r, size |-> "531", mtime |-> t, id |-> <<>>]
    BY <1>2, <1>3, <2>2, <2>3, <2>4, Zenon
  <2>6. UnixNamed(f, k) = EntryWith(k, c, r, "531", t)
    BY UnixEntryIs
  <2> HIDE DEF k, c, r, t
  <2>7. \A x, a, b, z, d, i, q :
            [found |-> x, name |-> q, trycwd |-> a, tryretr |-> b, size |-> z, mtime |-> d, id |-> i] =
            Fields(x, q, a, b, z, d, i)
    BY SMT DEF Fields
  <2>8. Unix(s) = EntryWith(k, c, r, "531", t)
    BY <2>5, <2>7, Zenon DEF EntryWith, Yes
  <2>9. ~(n <= p)
    BY <1>0, <1>5
  <2> QED
    BY <1>2, <2>6, <2>8, <2>9 DEF k
<1> QED
  BY <1>0, <1>4, <1>5

-----------------------------------------------------------------------------
(* Lines as servers write them. *)

\* Joining is associative, and a text and the next one can be taken out again.
LEMMA JoinedTexts ==
    ASSUME NEW a, IsText(a), NEW b, IsText(b), NEW d, IsText(d)
    PROVE  Join(Join(a, b), d) = Join(a, Join(b, d))
<1>1. PICK A : a \in Seq(A)
  BY DEF IsText
<1>2. PICK B : b \in Seq(B)
  BY DEF IsText
<1>3. PICK D : d \in Seq(D)
  BY DEF IsText
<1> DEFINE S == A \cup B \cup D
<1>4. a \in Seq(S) /\ b \in Seq(S) /\ d \in Seq(S)
  BY <1>1, <1>2, <1>3
<1> HIDE DEF S
<1>5. (a \o b) \o d = a \o (b \o d)
  BY <1>4
<1> QED
  BY <1>5 DEF Join

\* The first m symbols of a text, and the n symbols after the first m.
StartsWith(s, m, t) == SubSeq(s, 1, m) = t
GoesOn(s, m, n, t) == SubSeq(s, m + 1, m + n) = t

\* Both texts can be cut out of the joined one.
LEMMA PartsOfJoin ==
    ASSUME NEW a, NEW m, TextOf(a, m), NEW t, NEW n, TextOf(t, n)
    PROVE  StartsWith(Join(a, t), m, a) /\ GoesOn(Join(a, t), m, n, t)
<1> DEFINE u == Join(a, t)
<1>1. IsText(a) /\ IsText(t) /\ m \in Nat /\ n \in Nat /\ Len(a) = m /\ Len(t) = n
  BY DEF TextOf
<1>0. TextOf(u, m + n) /\ Holds(u, 0, a) /\ Holds(u, m, t)
  BY JoinIs
<1> HIDE DEF u
<1>2. IsText(u) /\ Len(u) = m + n /\ (\A i \in 1 .. m : u[0 + i] = a[i]) /\ (\A i \in 1 .. n : u[m + i] = t[i])
  BY <1>0, <1>1 DEF Holds, TextOf
<1>3. PICK A : a \in Seq(A)
  BY <1>1 DEF IsText
<1>4. PICK B : t \in Seq(B)
  BY <1>1 DEF IsText
<1>5. PICK C : u \in Seq(C)
  BY <1>2 DEF IsText
<1> DEFINE S == A \cup B \cup C
<1>6. a \in Seq(S) /\ t \in Seq(S) /\ u \in Seq(S)
  BY <1>3, <1>4, <1>5
<1> HIDE DEF S
<1>7. SubSeq(u, 1, m) = a
  <2>1. SubSeq(u, 1, m) \in Seq(S) /\ Len(SubSeq(u, 1, m)) = m /\ \A i \in 1 .. m : SubSeq(u, 1, m)[i] = u[i]
    BY <1>1, <1>2, <1>6
  <2>2. \A i \in 1 .. m : 0 + i = i
    OBVIOUS
  <2>3. \A i \in 1 .. m : SubSeq(u, 1, m)[i] = a[i]
    BY <1>2, <2>1, <2>2
  <2> QED
    BY <1>1, <1>6, <2>1, <2>3, SameSeq
<1>8. SubSeq(u, m + 1, m + n) = t
  <2> DEFINE v == SubSeq(u, m + 1, m + n)
  <2>1. v \in Seq(S) /\ Len(v) = n /\ \A i \in 1 .. n : v[i] = u[m + i]
    BY <1>1, <1>2, <1>6
  <2> HIDE DEF v
  <2>2. \A i \in 1 .. n : v[i] = t[i]
    BY <1>2, <2>1
  <2>3. v = t
    BY <1>1, <1>6, <2>1, <2>2, SameSeq
  <2> QED
    BY <2>3 DEF v
<1> QED
  BY <1>7, <1>8, Zenon DEF u, StartsWith, GoesOn

\* A text with nothing after or before it.
LEMMA NothingJoined ==
    ASSUME NEW s, IsText(s)
    PROVE  Join(s, <<>>) = s /\ Join(<<>>, s) = s
<1>1. PICK A : s \in Seq(A)
  BY DEF IsText
<1> QED
  BY <1>1 DEF Join

\* What is cut out of a text from a place on.
LEMMA PartIs ==
    ASSUME NEW s, IsText(s), NEW a \in 1 .. Len(s) + 1, NEW b \in a - 1 .. Len(s)
    PROVE  /\ IsText(SubSeq(s, a, b)) /\ Len(SubSeq(s, a, b)) = b - a + 1
           /\ \A i \in 1 .. b - a + 1 : SubSeq(s, a, b)[i] = s[a + i - 1]
           /\ \A p \in 1 .. b - a + 2 : \A q \in p - 1 .. b - a + 1 :
                 SubSeq(SubSeq(s, a, b), p, q) = SubSeq(s, a + p - 1, a + q - 1)
<1>1. PICK A : s \in Seq(A)
  BY DEF IsText
<1>2. Len(s) \in Nat
  BY <1>1
<1>3. SubSeq(s, a, b) \in Seq(A) /\ Len(SubSeq(s, a, b)) = b - a + 1
  BY <1>1, <1>2
<1>4. \A i \in 1 .. b - a + 1 : SubSeq(s, a, b)[i] = s[a + i - 1]
  BY <1>1, <1>2
<1>5. IsText(SubSeq(s, a, b))
  BY <1>3, Zenon DEF IsText
<1>6. \A p \in 1 .. b - a + 2 : \A q \in p - 1 .. b - a + 1 :
         SubSeq(SubSeq(s, a, b), p, q) = SubSeq(s, a + p - 1, a + q - 1)
  BY <1>1, PartOfPart
<1> QED
  BY <1>3, <1>4, <1>5, <1>6

\* A beginning of a text, or of one that is the beginning.
LEMMA BeginIsPrefix ==
    ASSUME NEW s, IsText(s), NEW k \in 0 .. Len(s)
    PROVE  IsPrefix(SubSeq(s, 1, k), s)
<1> DEFINE t == SubSeq(s, 1, k)
<1>1. Len(s) \in Nat
  BY TextIs
<1>2. IsText(t) /\ Len(t) = k
  BY BeginIs
<1>3. SubSeq(t, 1, Len(t)) = t
  BY <1>2, WholeIs
<1>4. SubSeq(t, 1, Len(t)) = SubSeq(s, 1, Len(t))
  BY <1>2, <1>3
<1>5. Len(t) <= Len(s)
  BY <1>1, <1>2
<1> HIDE DEF t
<1>6. IsPrefix(t, s)
  BY <1>4, <1>5 DEF IsPrefix
<1> QED
  BY <1>6 DEF t

\* What comes after the words of a UNIX line and their space.
RestOf(f) == Join(Padding(f), Shown(f))

\* What comes after the words, part by part.
LEMMA ShownIs ==
    ASSUME NEW f \in UnixFiles, NEW k, k = Len(f.name)
    PROVE  /\ TextOf(f.name, k) /\ k >= 1 /\ TextOf(f.link, Len(f.link))
           /\ Shown(f) = Join(f.name, f.link) /\ IsText(Shown(f)) /\ IsText(RestOf(f))
           /\ f.link = <<>> => Shown(f) = f.name
           /\ f.type \in Types => Padding(f) = <<SP, SP, SP>> /\ Shown(f) = f.name
           /\ f.type \notin Types => Padding(f) = <<>> /\ RestOf(f) = Shown(f)
<1>1. /\ f.format = "unix" /\ f.name \in UnixNames /\ (f.type # "lperm" => f.link = <<>>)
      /\ f.link = <<>> \/ \E target \in Targets : f.link = <<SP, "->", SP>> \o target
  BY UnixFileIs, Zenon
<1>2. IsText(f.name)
  BY <1>1, PartsAreTexts
<1>3. f.name # <<>>
  BY <1>1, NamesAssumption, Zenon
<1>4. TextOf(f.name, k) /\ k >= 1
  <2>1. PICK A : f.name \in Seq(A)
    BY <1>2 DEF IsText
  <2>2. k \in Nat /\ k >= 1
    BY <1>3, <2>1
  <2> QED
    BY <1>2, <2>2 DEF TextOf
<1>5. IsText(f.link)
  <2>1. \A target \in Targets : IsText(target)
    BY PartsAreTexts, Zenon
  <2> QED
    BY <1>1, <2>1, ShortTexts, TextsJoin, Zenon
<1>6. TextOf(f.link, Len(f.link))
  BY <1>5, TextIs, Zenon DEF TextOf
<1>7. Shown(f) = Join(f.name, f.link)
  BY <1>1, Zenon DEF Shown, Join
<1>8. IsText(Shown(f))
  BY <1>2, <1>5, <1>7, TextsJoin, Zenon DEF Join
<1>9. IsText(RestOf(f))
  <2>1. IsText(Padding(f))
    BY PartsAreTexts, Zenon
  <2> QED
    BY <1>8, <2>1, TextsJoin, Zenon DEF RestOf, Join
<1>10. f.link = <<>> => Shown(f) = f.name
  BY <1>2, <1>7, NothingJoined, Zenon
<1>11. f.type \in Types => Padding(f) = <<SP, SP, SP>> /\ Shown(f) = f.name
  <2>1. "lperm" \notin Types
    BY DEF Types
  <2>2. f.type \in Types => f.link = <<>>
    BY <1>1, <2>1, Zenon
  <2> QED
    BY <1>1, <1>10, <2>2, Zenon DEF Padding
<1>12. f.type \notin Types => Padding(f) = <<>> /\ RestOf(f) = Shown(f)
  BY <1>8, NothingJoined, Zenon DEF Padding, RestOf
<1> QED
  BY <1>4, <1>6, <1>7, <1>8, <1>9, <1>10, <1>11, <1>12

\* What is before the first arrow, or a text without one.
LEMMA LinkedIs ==
    ASSUME NEW s, IsText(s)
    PROVE  /\ (\A i \in 1 .. Len(s) - 2 : SubSeq(s, i, i + 2) # <<SP, "->", SP>>) => Linked(s) = s
           /\ \A p \in 1 .. Len(s) - 2 :
                 SubSeq(s, p, p + 2) = <<SP, "->", SP>> /\ (\A i \in 2 .. p : s[i] # "->") =>
                 Linked(s) = SubSeq(s, 1, p - 1)
           /\ \E n \in 0 .. Len(s) : Linked(s) = SubSeq(s, 1, n)
<1> DEFINE T == {i \in 1 .. Len(s) - 2 : SubSeq(s, i, i + 2) = <<SP, "->", SP>>}
           arrow == <<SP, "->", SP>>
<1>0. Len(s) \in Nat
  BY TextIs
<1>1. Linked(s) = IF T = {} THEN s ELSE SubSeq(s, 1, Min(T) - 1)
  BY Zenon DEF Linked
<1>2. T \subseteq Nat /\ \A i : i \in T <=> i \in 1 .. Len(s) - 2 /\ SubSeq(s, i, i + 2) = arrow
  BY <1>0
<1>3. arrow[2] = "->"
  OBVIOUS
<1>4. \A i \in 1 .. Len(s) - 2 : SubSeq(s, i, i + 2)[2] = s[i + 1]
  <2>1. PICK A : s \in Seq(A)
    BY DEF IsText
  <2> QED
    BY <1>0, <2>1
<1>5. SubSeq(s, 1, Len(s)) = s
  BY WholeIs
<1> HIDE DEF T, arrow
<1>6. (\A i \in 1 .. Len(s) - 2 : SubSeq(s, i, i + 2) # arrow) => Linked(s) = s
  BY <1>1, <1>2
<1>7. ASSUME NEW p \in 1 .. Len(s) - 2, SubSeq(s, p, p + 2) = arrow, \A i \in 2 .. p : s[i] # "->"
      PROVE  Linked(s) = SubSeq(s, 1, p - 1)
  <2>1. p \in T
    BY <1>2, <1>7
  <2>2. ASSUME NEW j \in T PROVE p <= j
    <3>1. j \in 1 .. Len(s) - 2 /\ s[j + 1] = "->"
      BY <1>2, <1>3, <1>4
    <3> QED
      BY <1>0, <1>7, <3>1
  <2>3. Min(T) = p
    BY <1>2, <2>1, <2>2, LeastOf
  <2> QED
    BY <1>1, <2>1, <2>3
<1>8. \E n \in 0 .. Len(s) : Linked(s) = SubSeq(s, 1, n)
  <2>1. CASE T = {}
    <3>1. Len(s) \in 0 .. Len(s) /\ Linked(s) = SubSeq(s, 1, Len(s))
      BY <1>0, <1>1, <1>5, <2>1
    <3> QED
      BY <3>1, Zenon
  <2>2. CASE T # {}
    <3>1. Min(T) \in T
      BY <1>2, <2>2, MinIs
    <3>2. Min(T) - 1 \in 0 .. Len(s)
      BY <1>0, <1>2, <3>1
    <3> QED
      BY <1>1, <2>2, <3>2
  <2> QED
    BY <2>1, <2>2
<1> QED
  BY <1>6, <1>7, <1>8 DEF arrow

\* The name of a link.
LEMMA LinkNamed ==
    ASSUME NEW f \in UnixFiles, f.type = "lperm"
    PROVE  Linked(Shown(f)) = f.name
<1> DEFINE k == Len(f.name)
           s == Shown(f)
<1>1. TextOf(f.name, k) /\ k >= 1 /\ s = Join(f.name, f.link) /\ IsText(s) /\ (f.link = <<>> => s = f.name)
  BY ShownIs
<1>2. /\ ~Contains(f.name, "->")
      /\ f.link = <<>> \/ \E target \in Targets : f.link = <<SP, "->", SP>> \o target
  BY UnixFileIs, Zenon
<1>3. k \in Nat /\ IsText(f.name) /\ \A i \in 1 .. k : f.name[i] # "->"
  BY <1>1, <1>2, Zenon DEF TextOf, Contains
<1> HIDE DEF k, s
<1>4. CASE f.link = <<>>
  <2>1. s = f.name
    BY <1>1, <1>4
  <2>2. Len(f.name) = k
    BY DEF k
  <2>3. \A i \in 1 .. k - 2 : SubSeq(f.name, i, i + 2) # <<SP, "->", SP>>
    <3> TAKE i \in 1 .. k - 2
    <3>1. SubSeq(f.name, i, i + 2)[2] = f.name[i + 1]
      <4>1. PICK A : f.name \in Seq(A)
        BY <1>3 DEF IsText
      <4> QED
        BY <1>3, <2>2, <4>1
    <3>2. i + 1 \in 1 .. k
      BY <1>3
    <3>3. <<SP, "->", SP>>[2] = "->"
      OBVIOUS
    <3> QED
      BY <1>3, <3>1, <3>2, <3>3
  <2>4. Linked(f.name) = f.name
    BY <1>3, <2>2, <2>3, LinkedIs
  <2> QED
    BY <2>1, <2>4 DEF s
<1>5. ASSUME NEW target \in Targets, f.link = <<SP, "->", SP>> \o target
      PROVE  Linked(s) = f.name
  <2> DEFINE arrow == <<SP, "->", SP>>
  <2>1. IsText(arrow) /\ Len(arrow) = 3 /\ arrow[1] = SP
    BY ShortTexts
  <2>2. IsText(target) /\ Len(target) \in Nat
    BY PartsAreTexts, TextIs, Zenon
  <2> DEFINE n == Len(target)
  <2>3. f.link = Join(arrow, target)
    BY <1>5 DEF Join
  <2> HIDE DEF arrow, n
  <2>4. TextOf(arrow, 3) /\ TextOf(target, n)
    BY <2>1, <2>2 DEF TextOf, n
  <2>5. TextOf(Join(arrow, target), 3 + n) /\ Holds(Join(arrow, target), 0, arrow)
    BY <2>4, JoinIs
  <2>a. TextOf(f.link, 3 + n) /\ Holds(f.link, 0, arrow)
    BY <2>3, <2>5
  <2>6. /\ f.link[1] = SP /\ SubSeq(f.link, 1, 3) = arrow /\ n \in Nat
    <3>1. SubSeq(Join(arrow, target), 1, 3) = arrow
      BY <2>4, PartsOfJoin DEF StartsWith
    <3>2. f.link[0 + 1] = arrow[1]
      BY <2>1, <2>a, SMT DEF Holds
    <3> QED
      BY <2>1, <2>2, <2>3, <3>1, <3>2 DEF n
  <2>7. TextOf(s, k + (3 + n)) /\ Holds(s, 0, f.name) /\ Holds(s, k, f.link)
    BY <1>1, <2>a, JoinIs
  <2>8. /\ Len(s) = k + 3 + n /\ Len(f.link) = 3 + n
        /\ \A i \in 1 .. k : s[i] = f.name[i]
        /\ s[k + 1] = SP
    <3>1. Len(s) = k + (3 + n) /\ Len(f.link) = 3 + n /\ Len(f.name) = k
      BY <2>7, <2>a DEF TextOf, k
    <3>2. \A i \in 1 .. k : s[0 + i] = f.name[i]
      BY <2>7, <3>1 DEF Holds
    <3>3. s[k + 1] = f.link[1]
      BY <2>6, <2>7, <3>1 DEF Holds
    <3> QED
      BY <1>3, <2>6, <3>1, <3>2, <3>3
  <2>9. SubSeq(s, k + 1, k + 1 + 2) = arrow
    <3>a. GoesOn(s, k, 3 + n, f.link)
      BY <1>1, <2>a, PartsOfJoin
    <3>1. SubSeq(s, k + 1, k + (3 + n)) = f.link
      BY <3>a DEF GoesOn
    <3>2. SubSeq(SubSeq(s, k + 1, k + (3 + n)), 1, 3) = SubSeq(s, k + 1 + 1 - 1, k + 1 + 3 - 1)
      <4> DEFINE x == k + 1
                 y == k + (3 + n)
      <4>1. x \in 1 .. Len(s) + 1 /\ y \in x - 1 .. Len(s) /\ y - x = 2 + n
        BY <1>3, <2>6, <2>8
      <4> HIDE DEF x, y
      <4>2. 1 \in 1 .. y - x + 2 /\ 3 \in 1 - 1 .. y - x + 1
        BY <2>6, <4>1
      <4>3. SubSeq(SubSeq(s, x, y), 1, 3) = SubSeq(s, x + 1 - 1, x + 3 - 1)
        BY <1>1, <4>1, <4>2, PartIs
      <4> QED
        BY <4>3 DEF x, y
    <3>3. k + 1 + 1 - 1 = k + 1 /\ k + 1 + 3 - 1 = k + 1 + 2
      BY <1>3
    <3> QED
      BY <2>6, <3>1, <3>2, <3>3
  <2>10. k + 1 \in 1 .. Len(s) - 2
    BY <1>3, <2>6, <2>8
  <2>11. \A i \in 2 .. k + 1 : s[i] # "->"
    <3>1. SP # "->"
      BY Words, Zenon
    <3> QED
      BY <1>3, <2>8, <3>1
  <2>12. Linked(s) = SubSeq(s, 1, k)
    <3> DEFINE p == k + 1
    <3>0. p - 1 = k
      BY <1>3
    <3>1. p \in 1 .. Len(s) - 2 /\ SubSeq(s, p, p + 2) = arrow /\ \A i \in 2 .. p : s[i] # "->"
      BY <2>9, <2>10, <2>11
    <3> HIDE DEF p
    <3>2. \A q \in 1 .. Len(s) - 2 :
             SubSeq(s, q, q + 2) = arrow /\ (\A i \in 2 .. q : s[i] # "->") => Linked(s) = SubSeq(s, 1, q - 1)
      BY <1>1, LinkedIs, Zenon DEF arrow
    <3>3. Linked(s) = SubSeq(s, 1, p - 1)
      BY <3>1, <3>2, Zenon
    <3> QED
      BY <3>0, <3>3
  <2>13. SubSeq(s, 1, k) = f.name
    BY <1>1, <2>a, PartsOfJoin DEF StartsWith
  <2> QED
    BY <2>12, <2>13
<1> QED
  BY <1>2, <1>4, <1>5 DEF s

\* The name is read as it is.
LEMMA NameWhole ==
    ASSUME NEW f \in UnixFiles
    PROVE  NameRead(f.type, RestOf(f)) = f.name
<1>1. CASE f.type \in Types
  <2> DEFINE k == Len(f.name)
             gap == <<SP, SP, SP>>
             s == Join(gap, f.name)
  <2>1. TextOf(f.name, k) /\ k >= 1 /\ RestOf(f) = s
    BY <1>1, ShownIs, Zenon DEF RestOf
  <2>2. TextOf(gap, 3)
    BY ShortTexts DEF TextOf
  <2>3. f.type # "lperm"
    BY <1>1 DEF Types
  <2>4. NameRead(f.type, s) = Unpadded(s)
    BY <1>1, <2>3, Zenon DEF NameRead
  <2> HIDE DEF gap
  <2>5. TextOf(s, 3 + k) /\ SubSeq(s, 1, 3) = gap /\ SubSeq(s, 3 + 1, 3 + k) = f.name
    <3>1. TextOf(s, 3 + k)
      BY <2>1, <2>2, JoinIs, Zenon
    <3>a. StartsWith(Join(gap, f.name), 3, gap) /\ GoesOn(Join(gap, f.name), 3, k, f.name)
      BY <2>1, <2>2, PartsOfJoin
    <3>2. SubSeq(s, 1, 3) = gap /\ SubSeq(s, 3 + 1, 3 + k) = f.name
      BY <3>a, Zenon DEF StartsWith, GoesOn
    <3> QED
      BY <3>1, <3>2
  <2> HIDE DEF s
  <2>6. Len(s) = 3 + k /\ k \in Nat
    BY <2>1, <2>5 DEF TextOf
  <2> HIDE DEF k
  <2>7. Len(s) > 3 /\ SubSeq(s, 4, Len(s)) = f.name
    BY <2>1, <2>5, <2>6
  <2>8. Unpadded(s) = f.name
    BY <2>5, <2>7, Zenon DEF Unpadded, gap
  <2> QED
    BY <2>1, <2>4, <2>8
<1>2. CASE f.type \notin Types
  <2>1. RestOf(f) = Shown(f)
    BY <1>2, ShownIs, Zenon
  <2>2. CASE f.type = "lperm"
    BY <1>2, <2>1, <2>2, LinkNamed, Zenon DEF NameRead
  <2>3. CASE f.type # "lperm"
    <3>1. f.link = <<>>
      BY <2>3, UnixFileIs, Zenon
    <3>2. Shown(f) = f.name
      BY <3>1, ShownIs, Zenon
    <3> QED
      BY <1>2, <2>1, <2>3, <3>2, Zenon DEF NameRead
  <2> QED
    BY <2>2, <2>3
<1> QED
  BY <1>1, <1>2

\* Of a name that is cut short, a part is read.
LEMMA NameCut ==
    ASSUME NEW f \in UnixFiles, NEW n \in 0 .. Len(RestOf(f)), NEW r, r = SubSeq(RestOf(f), 1, n)
    PROVE  IsPrefix(NameRead(f.type, r), Shown(f)) \/ IsPrefix(NameRead(f.type, r), RestOf(f))
<1> DEFINE rest == RestOf(f)
<1>1. IsText(rest) /\ IsText(Shown(f))
  BY ShownIs, Zenon
<1>2. Len(rest) \in Nat
  BY <1>1, TextIs
<1>3. IsText(r) /\ Len(r) = n /\ IsPrefix(r, rest)
  BY <1>1, BeginIs, BeginIsPrefix
<1>4. CASE f.type \in Types
  <2> DEFINE k == Len(f.name)
             gap == <<SP, SP, SP>>
  <2>1. TextOf(f.name, k) /\ k >= 1 /\ rest = Join(gap, f.name) /\ Shown(f) = f.name
    BY <1>4, ShownIs, Zenon DEF RestOf
  <2>2. TextOf(gap, 3)
    BY ShortTexts DEF TextOf
  <2> HIDE DEF gap, rest
  <2>3. TextOf(rest, 3 + k) /\ SubSeq(rest, 3 + 1, 3 + k) = f.name
    <3>1. TextOf(Join(gap, f.name), 3 + k)
      BY <2>1, <2>2, JoinIs, Zenon
    <3>a. GoesOn(Join(gap, f.name), 3, k, f.name)
      BY <2>1, <2>2, PartsOfJoin
    <3>2. SubSeq(Join(gap, f.name), 3 + 1, 3 + k) = f.name
      BY <3>a, Zenon DEF GoesOn
    <3> QED
      BY <2>1, <3>1, <3>2, Zenon
  <2>4. f.type # "lperm"
    BY <1>4 DEF Types
  <2>5. NameRead(f.type, r) = Unpadded(r)
    BY <1>4, <2>4, Zenon DEF NameRead
  <2>6. Unpadded(r) = r \/ (Len(r) > 3 /\ Unpadded(r) = SubSeq(r, 4, Len(r)))
    BY Zenon DEF Unpadded
  <2>7. CASE Unpadded(r) = r
    BY <1>3, <2>5, <2>7 DEF rest
  <2>8. CASE Len(r) > 3 /\ Unpadded(r) = SubSeq(r, 4, Len(r))
    <3>1. Len(rest) = 3 + k /\ k \in Nat
      BY <2>1, <2>3 DEF TextOf
    <3> HIDE DEF k
    <3>2. n > 3 /\ n <= 3 + k /\ n \in Nat
      BY <1>3, <2>8, <3>1 DEF rest
    <3>3. SubSeq(r, 4, n) = SubSeq(rest, 4, n)
      <4>1. n \in 0 .. Len(rest) /\ 4 \in 1 .. n + 1 /\ n \in 4 - 1 .. n
        BY <3>1, <3>2
      <4> QED
        BY <1>1, <4>1, BeginOfBegin DEF rest
    <3>4. SubSeq(SubSeq(rest, 4, 3 + k), 1, n - 3) = SubSeq(rest, 4 + 1 - 1, 4 + (n - 3) - 1)
      <4> DEFINE b == 3 + k
                 q == n - 3
      <4>1. 4 \in 1 .. Len(rest) + 1 /\ b \in 4 - 1 .. Len(rest)
        BY <3>1, <3>2
      <4>2. 1 \in 1 .. b - 4 + 2 /\ q \in 1 - 1 .. b - 4 + 1
        BY <3>1, <3>2
      <4> HIDE DEF b, q
      <4>3. SubSeq(SubSeq(rest, 4, b), 1, q) = SubSeq(rest, 4 + 1 - 1, 4 + q - 1)
        BY <1>1, <4>1, <4>2, PartIs
      <4> QED
        BY <4>3 DEF b, q
    <3>5. SubSeq(rest, 4, 3 + k) = f.name
      BY <2>3, <3>1
    <3>6. 4 + (n - 3) - 1 = n /\ 4 + 1 - 1 = 4 /\ n - 3 \in 0 .. k
      BY <3>1, <3>2
    <3>7. SubSeq(r, 4, n) = SubSeq(f.name, 1, n - 3)
      BY <3>3, <3>4, <3>5, <3>6
    <3>8. IsPrefix(SubSeq(f.name, 1, n - 3), f.name)
      <4>1. IsText(f.name) /\ Len(f.name) = k
        BY <2>1 DEF TextOf, k
      <4> QED
        BY <3>6, <4>1, BeginIsPrefix
    <3>9. NameRead(f.type, r) = SubSeq(f.name, 1, n - 3)
      BY <1>3, <2>5, <2>8, <3>7
    <3> QED
      BY <2>1, <3>8, <3>9
  <2> QED
    BY <2>6, <2>7, <2>8
<1>5. CASE f.type \notin Types
  <2>1. CASE f.type = "lperm"
    <3>1. NameRead(f.type, r) = Linked(r)
      BY <1>5, <2>1, Zenon DEF NameRead
    <3>2. PICK q \in 0 .. Len(r) : Linked(r) = SubSeq(r, 1, q)
      BY <1>3, LinkedIs
    <3>3. SubSeq(r, 1, q) = SubSeq(rest, 1, q)
      <4>1. 1 \in 1 .. n + 1 /\ q \in 1 - 1 .. n
        BY <1>2, <1>3
      <4> QED
        BY <1>1, <4>1, BeginOfBegin
    <3>4. q \in 0 .. Len(rest)
      BY <1>2, <1>3
    <3>5. IsPrefix(SubSeq(rest, 1, q), rest)
      BY <1>1, <3>4, BeginIsPrefix
    <3> QED
      BY <3>1, <3>2, <3>3, <3>5
  <2>2. CASE f.type # "lperm"
    <3>1. NameRead(f.type, r) = r
      BY <1>5, <2>2, Zenon DEF NameRead
    <3> QED
      BY <1>3, <3>1
  <2> QED
    BY <2>1, <2>2
<1> QED
  BY <1>4, <1>5

\* Where the words of a line are, and the spaces after each.
SpacedAt(words, n, w, p, s) ==
    /\ w \in {2, 3} /\ p \in Nat /\ TextOf(s, p + 1)
    /\ \A i \in 1 .. n : Place(i, w) \in 1 .. p + 1 /\ s[Place(i, w)] = words[i]
    /\ \A i \in 1 .. n : \A q \in Place(i, w) + 1 .. Place(i, w) + w - 1 : q <= p + 1 => s[q] = SP

\* The words of Spaced are at their places, and spaces are between them.
LEMMA SpacedIs ==
    ASSUME NEW words, NEW n, TextOf(words, n), n >= 1, NEW gap \in Gaps, NEW w, w = Len(gap) + 1,
           NEW p, p = Place(n, w)
    PROVE  SpacedAt(words, n, w, p, Spaced(words, gap))
<1> DEFINE s == Spaced(words, gap)
           m == (n - 1) * w + 2
<1>0. n \in Nat /\ n >= 1 /\ Len(words) = n /\ IsText(words)
  BY DEF TextOf
<1>1. w \in {2, 3}
  BY GapIs
<1>2. m = p + 1 /\ p \in Nat
  <2>1. CASE w = 2
    BY <1>0, <2>1 DEF Place
  <2>2. CASE w = 3
    BY <1>0, <2>2 DEF Place
  <2> QED
    BY <1>1, <2>1, <2>2
<1>3. s = [k \in 1 .. m |-> IF k % w = 1 THEN words[k \div w + 1] ELSE SP]
  BY <1>0, Zenon DEF Spaced
<1> HIDE DEF m
<1>4. \A k \in 1 .. m : s[k] = IF k % w = 1 THEN words[k \div w + 1] ELSE SP
  BY <1>3, Zenon
<1>5. DOMAIN s = 1 .. m
  BY <1>3, Zenon
<1>6. IsText(s)
  <2>1. words # <<>>
    BY <1>0
  <2> QED
    BY <1>0, <2>1, SpacedIsText
<1>7. TextOf(s, p + 1)
  <2>1. Len(s) = p + 1
    <3>1. Len(s) \in Nat /\ DOMAIN s = 1 .. Len(s)
      BY <1>6, TextIs
    <3> HIDE DEF s
    <3>2. m \in Nat
      BY <1>2
    <3> QED
      BY <1>2, <1>5, <3>1, <3>2
  <2> QED
    BY <1>2, <1>6, <2>1 DEF TextOf
<1> HIDE DEF s
<1>8. ASSUME NEW i \in 1 .. n
      PROVE  Place(i, w) \in 1 .. m /\ Place(i, w) % w = 1 /\ Place(i, w) \div w + 1 = i
  <2>1. CASE w = 2
    <3>1. (i - 1) * 2 + 1 \in 1 .. (n - 1) * 2 + 2 /\ ((i - 1) * 2 + 1) % 2 = 1 /\ ((i - 1) * 2 + 1) \div 2 + 1 = i
      BY <1>0
    <3> QED
      BY <2>1, <3>1 DEF Place, m
  <2>2. CASE w = 3
    <3>1. (i - 1) * 3 + 1 \in 1 .. (n - 1) * 3 + 2 /\ ((i - 1) * 3 + 1) % 3 = 1 /\ ((i - 1) * 3 + 1) \div 3 + 1 = i
      BY <1>0
    <3> QED
      BY <2>2, <3>1 DEF Place, m
  <2> QED
    BY <1>1, <2>1, <2>2
<1>9. \A i \in 1 .. n : Place(i, w) \in 1 .. p + 1 /\ s[Place(i, w)] = words[i]
  <2> TAKE i \in 1 .. n
  <2> DEFINE k == Place(i, w)
  <2>1. k \in 1 .. m /\ k % w = 1 /\ k \div w + 1 = i
    BY <1>8
  <2> HIDE DEF k
  <2>2. k \in 1 .. p + 1 /\ s[k] = words[i]
    BY <1>2, <1>4, <2>1
  <2> QED
    BY <2>2 DEF k
<1>10. ASSUME NEW i \in 1 .. n, NEW q \in Place(i, w) + 1 .. Place(i, w) + w - 1, q <= p + 1
       PROVE  s[q] = SP
  <2> DEFINE k == Place(i, w)
  <2>1. k \in 1 .. m /\ k % w = 1
    BY <1>8
  <2>2. q \in k + 1 .. k + w - 1
    OBVIOUS
  <2> HIDE DEF k
  <2>3. q \in 1 .. m
    BY <1>1, <1>2, <1>10, <2>1, <2>2
  <2>4. q % w # 1
    <3>1. CASE w = 2
      <4>1. k % 2 = 1 /\ q = k + 1
        BY <1>1, <2>1, <2>2, <3>1
      <4>2. q % 2 # 1
        BY <2>1, <4>1
      <4> QED
        BY <3>1, <4>2
    <3>2. CASE w = 3
      <4>1. k % 3 = 1 /\ (q = k + 1 \/ q = k + 2)
        BY <1>1, <2>1, <2>2, <3>2
      <4>2. q % 3 # 1
        BY <2>1, <4>1
      <4> QED
        BY <3>2, <4>2
    <3> QED
      BY <1>1, <3>1, <3>2
  <2> QED
    BY <1>4, <2>3, <2>4
<1> QED
  BY <1>1, <1>2, <1>7, <1>9, <1>10 DEF s, SpacedAt

\* A line of a UNIX server: its words, then the rest.
LEMMA UnixLineIs ==
    ASSUME NEW f \in UnixFiles
    PROVE  LineOf(f) = Join(Spaced(WordsOf(f), f.gap), RestOf(f))
<1>1. f.format = "unix" /\ f.gap \in Gaps
  BY UnixFileIs, Zenon
<1>2. IsText(f.owner) /\ Len(f.owner) \in Nat
  BY OwnerIs, Zenon
<1> DEFINE S == Spaced(WordsOf(f), f.gap)
<1>3. IsText(S)
  <2>1. TextOf(WordsOf(f), Len(f.owner) + 5)
    BY <1>2, WordsAre
  <2>2. IsText(WordsOf(f)) /\ WordsOf(f) # <<>>
    BY <1>2, <2>1 DEF TextOf
  <2> QED
    BY <1>1, <2>2, SpacedIsText
<1>4. IsText(Padding(f)) /\ IsText(f.name) /\ IsText(f.link)
  BY PartsAreTexts, ShownIs, Zenon DEF TextOf
<1>5. UnixLine(f) = Join(Join(Join(S, Padding(f)), f.name), f.link)
  BY Zenon DEF UnixLine, Join, WordsOf
<1> HIDE DEF S
<1>6. Join(Join(Join(S, Padding(f)), f.name), f.link) = Join(Join(S, Padding(f)), Join(f.name, f.link))
  <2>1. IsText(Join(S, Padding(f)))
    BY <1>3, <1>4, TextsJoin, Zenon DEF Join
  <2> QED
    BY <1>4, <2>1, JoinedTexts
<1>7. Shown(f) = Join(f.name, f.link) /\ IsText(Shown(f))
  BY ShownIs, Zenon
<1>8. Join(Join(S, Padding(f)), Shown(f)) = Join(S, Join(Padding(f), Shown(f)))
  BY <1>3, <1>4, <1>7, JoinedTexts
<1>9. LineOf(f) = UnixLine(f)
  BY <1>1, Zenon DEF LineOf
<1> QED
  BY <1>5, <1>6, <1>7, <1>8, <1>9, Zenon DEF RestOf, S

\* ... which are where they are expected.
UnixLaid(f, m, w, p, line, rest, r) ==
    /\ m \in Nat /\ w \in {2, 3} /\ p \in Nat /\ r \in Nat /\ IsText(rest)
    /\ IsText(line) /\ Len(line) = p + 1 + r /\ SubSeq(line, p + 2, p + 1 + r) = rest
    /\ UnixLayout(WordsOf(f), w, line)

\* A UNIX line has this layout.
LEMMA UnixLineLayout ==
    ASSUME NEW f \in UnixFiles, NEW m, m = Len(f.owner), NEW w, w = Len(f.gap) + 1, NEW p, p = Place(m + 5, w),
           NEW line, line = LineOf(f), NEW rest, rest = RestOf(f), NEW r, r = Len(rest)
    PROVE  UnixLaid(f, m, w, p, line, rest, r)
<1> DEFINE words == WordsOf(f)
           S == Spaced(words, f.gap)
           n == m + 5
<1>1. m \in Nat /\ f.gap \in Gaps
  BY OwnerIs, UnixFileIs, Zenon
<1>a. TextOf(words, n)
  BY <1>1, WordsAre
<1>b. n \in Nat /\ n >= 1 /\ p = Place(n, w)
  BY <1>1
<1>3. IsText(rest) /\ r \in Nat /\ TextOf(rest, r)
  BY ShownIs, TextIs, Zenon DEF TextOf
<1>4. line = Join(S, rest)
  BY UnixLineIs
<1> HIDE DEF words, n
<1>d. SpacedAt(words, n, w, p, S)
  BY <1>1, <1>a, <1>b, SpacedIs
<1> HIDE DEF S
<1>2. /\ w \in {2, 3} /\ p \in Nat /\ TextOf(S, p + 1)
      /\ \A i \in 1 .. n : Place(i, w) \in 1 .. p + 1 /\ S[Place(i, w)] = words[i]
      /\ \A i \in 1 .. n : \A q \in Place(i, w) + 1 .. Place(i, w) + w - 1 : q <= p + 1 => S[q] = SP
  BY <1>d, Zenon DEF SpacedAt
<1>c. TextOf(line, p + 1 + r) /\ Holds(line, 0, S)
  BY <1>2, <1>3, <1>4, JoinIs
<1>5. GoesOn(line, p + 1, r, rest)
  BY <1>2, <1>3, <1>4, PartsOfJoin
<1>6. /\ IsText(line) /\ Len(line) = p + 1 + r /\ \A q \in 1 .. p + 1 : line[q] = S[q]
  <2>1. Len(S) = p + 1
    BY <1>2 DEF TextOf
  <2>2. IsText(line) /\ Len(line) = p + 1 + r
    BY <1>c DEF TextOf
  <2>3. \A q \in 1 .. p + 1 : line[0 + q] = S[q]
    BY <1>c, <2>1 DEF Holds
  <2>4. \A q \in 1 .. p + 1 : 0 + q = q
    OBVIOUS
  <2> QED
    BY <2>2, <2>3, <2>4
<1>7. SubSeq(line, p + 2, p + 1 + r) = rest
  <2>1. p + 1 + 1 = p + 2
    BY <1>2
  <2> QED
    BY <1>5, <2>1 DEF GoesOn
<1>8. \A i \in 1 .. n : line[Place(i, w)] = words[i]
  BY <1>2, <1>6
<1>9. ASSUME NEW i \in 1 .. n - 1, NEW q \in Place(i, w) + 1 .. Place(i, w) + w - 1
      PROVE  line[q] = SP
  <2> DEFINE k == Place(i, w)
  <2>1. i \in Nat /\ i >= 1 /\ i \in 1 .. n /\ i + 1 \in 1 .. n
    BY <1>b
  <2>2. k \in Nat /\ Place(i + 1, w) = k + w /\ Place(i + 1, w) \in 1 .. p + 1
    BY <1>2, <2>1, PlaceIs
  <2>3. q \in k + 1 .. k + w - 1
    OBVIOUS
  <2> HIDE DEF k
  <2>4. q <= p + 1 /\ q \in 1 .. p + 1
    BY <1>2, <2>2, <2>3
  <2>5. S[q] = SP
    BY <1>2, <1>9, <2>1, <2>4
  <2> QED
    BY <1>6, <2>4, <2>5
<1>10. line[p + 1] = SP
  <2>1. n \in 1 .. n /\ p + 1 \in p + 1 .. p + w - 1 /\ p + 1 <= p + 1 /\ p + 1 \in 1 .. p + 1
    BY <1>b, <1>2
  <2>2. S[p + 1] = SP
    <3> DEFINE q == p + 1
    <3>1. q \in Place(n, w) + 1 .. Place(n, w) + w - 1
      BY <1>b, <2>1
    <3> HIDE DEF q
    <3>2. q <= p + 1 => S[q] = SP
      BY <1>2, <2>1, <3>1
    <3> QED
      BY <2>1, <3>2 DEF q
  <2> QED
    BY <1>6, <2>1, <2>2
<1>11. Len(words) = n
  BY <1>a DEF TextOf
<1>12. UnixLayout(words, w, line)
  <2>1. \A i \in 1 .. Len(words) - 1 : \A q \in Place(i, w) + 1 .. Place(i, w) + w - 1 : line[q] = SP
    BY <1>9, <1>11
  <2>2. \A i \in 1 .. Len(words) : line[Place(i, w)] = words[i]
    BY <1>8, <1>11
  <2>3. line[Place(Len(words), w) + 1] = SP
    BY <1>10, <1>11, <1>b
  <2> QED
    BY <2>1, <2>2, <2>3, Zenon DEF UnixLayout
<1> QED
  BY <1>1, <1>2, <1>3, <1>6, <1>7, <1>12, Zenon DEF words, UnixLaid

\* ... in the beginning of the line, too.
LEMMA UnixLayoutCut ==
    ASSUME NEW words, NEW m, TextOf(words, m), m >= 1, NEW w \in {2, 3},
           NEW line, IsText(line), UnixLayout(words, w, line),
           NEW n \in 1 .. Len(line)
    PROVE  UnixLayout(words, w, SubSeq(line, 1, n))
<1> DEFINE s == SubSeq(line, 1, n)
<1>0. Len(line) \in Nat /\ Len(words) = m /\ m \in Nat
  BY TextIs DEF TextOf
<1>1. IsText(s) /\ Len(s) = n /\ \A q \in 1 .. n : s[q] = line[q]
  <2>1. n \in 0 .. Len(line)
    BY <1>0
  <2> QED
    BY <2>1, BeginIs
<1> HIDE DEF s
<1>2. \A q : q \in Nat /\ q >= 1 /\ q <= Len(s) => q <= Len(line) /\ s[q] = line[q]
  BY <1>0, <1>1
<1>3. \A i \in 1 .. m : Place(i, w) \in Nat /\ Place(i, w) >= 1
  <2> TAKE i \in 1 .. m
  <2>1. i \in Nat /\ i >= 1
    BY <1>0
  <2>2. Place(i, w) \in Nat /\ Place(i, w) >= i
    BY <2>1, PlaceIs
  <2> DEFINE k == Place(i, w)
  <2> HIDE DEF k
  <2>3. k \in Nat /\ k >= 1
    BY <2>1, <2>2 DEF k
  <2> QED
    BY <2>3 DEF k
<1>4. ASSUME NEW i \in 1 .. m, Place(i, w) <= Len(s) PROVE s[Place(i, w)] = words[i]
  <2>1. Place(i, w) <= Len(line) /\ s[Place(i, w)] = line[Place(i, w)]
    BY <1>2, <1>3, <1>4, Zenon
  <2> QED
    BY <1>0, <2>1, Zenon DEF UnixLayout
<1>5. ASSUME NEW i \in 1 .. m - 1, NEW q \in Place(i, w) + 1 .. Place(i, w) + w - 1, q <= Len(s)
      PROVE  s[q] = SP
  <2>1. i \in 1 .. m
    BY <1>0
  <2>2. q \in Nat /\ q >= 1
    <3> DEFINE k == Place(i, w)
    <3>1. k \in Nat /\ q \in k + 1 .. k + w - 1
      BY <1>3, <2>1
    <3> HIDE DEF k
    <3> QED
      BY <3>1
  <2>3. q <= Len(line) /\ s[q] = line[q]
    BY <1>2, <1>5, <2>2, Zenon
  <2> QED
    BY <1>0, <2>3, Zenon DEF UnixLayout
<1>6. ASSUME Place(m, w) + 1 <= Len(s) PROVE s[Place(m, w) + 1] = SP
  <2> DEFINE q == Place(m, w) + 1
  <2>1. q \in Nat /\ q >= 1 /\ q <= Len(s)
    <3> DEFINE k == Place(m, w)
    <3>1. k \in Nat /\ q = k + 1
      BY <1>0, <1>3
    <3> HIDE DEF k
    <3> QED
      BY <1>6, <3>1
  <2> HIDE DEF q
  <2>2. q <= Len(line) /\ s[q] = line[q]
    BY <1>2, <2>1, Zenon
  <2>3. q <= Len(line) => line[q] = SP
    BY <1>0, Zenon DEF UnixLayout, q
  <2>4. s[q] = SP
    BY <2>2, <2>3
  <2> QED
    BY <2>4 DEF q
<1> QED
  BY <1>0, <1>4, <1>5, <1>6, Zenon DEF UnixLayout, s

\* What is read of a UNIX line, or of its beginning, after whose words comes `rest`.
UnixIsRead(f, rest, s) ==
    /\ s[1] = f.type
    /\ Unix(s) = Null \/ \E k \in 0 .. Len(rest) : Unix(s) = UnixNamed(f, NameRead(f.type, SubSeq(rest, 1, k)))

\* What a UNIX line, or its beginning, is understood to say.
LEMMA UnixUnderstood ==
    ASSUME NEW f \in UnixFiles, NEW line, line = LineOf(f), NEW rest, rest = RestOf(f),
           NEW n \in 1 .. Len(line), NEW s, s = SubSeq(line, 1, n)
    PROVE  /\ UnixIsRead(f, rest, s)
           /\ n = Len(line) => Unix(s) = UnixNamed(f, NameRead(f.type, rest))
<1> DEFINE words == WordsOf(f)
           m == Len(f.owner)
           w == Len(f.gap) + 1
           p == Place(m + 5, w)
           r == Len(rest)
           name(t) == UnixNamed(f, NameRead(f.type, t))
<1>1. /\ m \in Nat /\ w \in {2, 3} /\ p \in Nat /\ r \in Nat /\ IsText(rest)
      /\ IsText(line) /\ Len(line) = p + 1 + r /\ SubSeq(line, p + 2, p + 1 + r) = rest
      /\ UnixLayout(words, w, line)
  <2>1. UnixLaid(f, m, w, p, line, rest, r)
    <3>1. \A a, b, d, e : a = Len(f.owner) /\ b = Len(f.gap) + 1 /\ d = Place(a + 5, b) /\ e = Len(rest) =>
             UnixLaid(f, a, b, d, line, rest, e)
      BY UnixLineLayout
    <3> QED
      BY <3>1, Zenon
  <2> QED
    BY <2>1, Zenon DEF UnixLaid
<1>a. m = Len(f.owner) /\ p = Place(m + 5, w)
  OBVIOUS
<1> HIDE DEF m
<1>2. TextOf(words, m + 5) /\ m + 5 >= 1
  <2>1. TextOf(WordsOf(f), m + 5)
    BY <1>1, <1>a, WordsAre, Zenon
  <2> QED
    BY <1>1, <2>1
<1> HIDE DEF words, w, p, r
<1>3. IsText(s) /\ Len(s) = n /\ n \in Nat /\ n >= 1 /\ n <= p + 1 + r
  <2>1. n \in 0 .. Len(line) /\ n \in Nat /\ n >= 1 /\ n <= p + 1 + r
    BY <1>1
  <2>2. IsText(s) /\ Len(s) = n
    BY <1>1, <2>1, BeginIs
  <2> QED
    BY <2>1, <2>2
<1>4. UnixLayout(words, w, s)
  <2> DEFINE k == m + 5
  <2>1. TextOf(words, k) /\ k >= 1
    BY <1>2
  <2> HIDE DEF k
  <2> QED
    BY <1>1, <2>1, UnixLayoutCut
<1>5. /\ s[1] = f.type
      /\ Unix(s) = IF n <= p THEN Null ELSE name(SubSeq(s, p + 2, n))
  <2>1. 1 <= Len(s) /\ UnixLayout(WordsOf(f), w, s)
    BY <1>3, <1>4 DEF words
  <2>2. UnixSays(f, p, s)
    BY <1>1, <1>a, <1>3, <2>1, UnixIs
  <2>3. s[1] = f.type /\ Unix(s) = IF Len(s) <= p THEN Null
                                   ELSE UnixNamed(f, NameRead(f.type, SubSeq(s, p + 2, Len(s))))
    BY <2>2, Zenon DEF UnixSays
  <2> QED
    BY <1>3, <2>3
<1> HIDE DEF name
<1>6. ASSUME n > p PROVE SubSeq(s, p + 2, n) = SubSeq(rest, 1, n - p - 1) /\ n - p - 1 \in 0 .. r
  <2> DEFINE a == p + 2
             b == p + 1 + r
             q == n - p - 1
  <2>0. n \in 0 .. Len(line)
    BY <1>1, <1>3
  <2>1. a \in 1 .. n + 1 /\ n \in a - 1 .. n /\ b = Len(line) /\ a \in 1 .. Len(line) + 1 /\ b \in a - 1 .. Len(line)
    BY <1>1, <1>3, <1>6
  <2>2. 1 \in 1 .. b - a + 2 /\ q \in 1 - 1 .. b - a + 1 /\ q \in 0 .. r
    BY <1>1, <1>3, <1>6
  <2>3. a + 1 - 1 = a /\ a + q - 1 = n
    BY <1>1, <1>3
  <2>4. SubSeq(line, a, b) = rest
    BY <1>1
  <2> HIDE DEF a, b, q
  <2>5. SubSeq(SubSeq(line, 1, n), a, n) = SubSeq(line, a, n)
    BY <1>1, <2>0, <2>1, BeginOfBegin
  <2>6. SubSeq(SubSeq(line, a, b), 1, q) = SubSeq(line, a + 1 - 1, a + q - 1)
    BY <1>1, <2>1, <2>2, PartIs
  <2>7. SubSeq(s, a, n) = SubSeq(rest, 1, q)
    BY <2>3, <2>4, <2>5, <2>6
  <2> QED
    BY <2>2, <2>7 DEF a, q
<1>7. Unix(s) = Null \/ \E k \in 0 .. r : Unix(s) = name(SubSeq(rest, 1, k))
  <2>1. CASE n <= p
    BY <1>5, <2>1
  <2>2. CASE n > p
    <3>1. ~(n <= p)
      BY <1>1, <1>3, <2>2
    <3>2. Unix(s) = name(SubSeq(s, p + 2, n))
      BY <1>5, <3>1
    <3> DEFINE q == n - p - 1
    <3>3. q \in 0 .. r /\ SubSeq(s, p + 2, n) = SubSeq(rest, 1, q)
      BY <1>6, <2>2
    <3> HIDE DEF q
    <3> QED
      BY <3>2, <3>3
  <2> QED
    BY <1>1, <1>3, <2>1, <2>2
<1>8. ASSUME n = Len(line) PROVE Unix(s) = name(rest)
  <2>1. ~(n <= p) /\ n > p /\ n - p - 1 = r
    BY <1>1, <1>3, <1>8
  <2>2. SubSeq(rest, 1, r) = rest
    BY <1>1, WholeIs DEF r
  <2> QED
    BY <1>5, <1>6, <2>1, <2>2
<1>9. UnixIsRead(f, rest, s)
  BY <1>5, <1>7, Zenon DEF UnixIsRead, r, name
<1> QED
  BY <1>8, <1>9, Zenon DEF name

\* A text to which another is added holds this one after it, and what it held.
LEMMA Adds ==
    ASSUME NEW s, NEW m, TextOf(s, m), NEW t, NEW n, TextOf(t, n)
    PROVE  /\ TextOf(Join(s, t), m + n) /\ Holds(Join(s, t), m, t)
           /\ \A a, u : Holds(s, a, u) => Holds(Join(s, t), a, u)
<1>1. IsText(t)
  BY DEF TextOf
<1>2. \A a, u : Holds(s, a, u) => Holds(Join(s, t), a, u)
  BY <1>1, HoldsOn
<1> QED
  BY <1>2, JoinIs

\* A text without these symbols.
Free(s, symbols) == IsText(s) /\ \A i \in 1 .. Len(s) : s[i] \notin symbols

\* Two texts without these symbols joined have none of them.
LEMMA FreeJoin ==
    ASSUME NEW X, NEW s, Free(s, X), NEW t, Free(t, X)
    PROVE  Free(Join(s, t), X)
<1> DEFINE m == Len(s)
           n == Len(t)
           u == Join(s, t)
<1>1. IsText(s) /\ IsText(t) /\ m \in Nat /\ n \in Nat
  BY TextIs, Zenon DEF Free
<1>2. TextOf(s, m) /\ TextOf(t, n)
  BY <1>1, Zenon DEF TextOf
<1> HIDE DEF m, n
<1>3. TextOf(u, m + n) /\ Holds(u, 0, s) /\ Holds(u, m, t)
  BY <1>2, JoinIs
<1> HIDE DEF u
<1>4. IsText(u) /\ Len(u) = m + n
  BY <1>3 DEF TextOf
<1>5. \A i \in 1 .. m : u[0 + i] = s[i]
  BY <1>3, Zenon DEF Holds, m
<1>6. \A i \in 1 .. n : u[m + i] = t[i]
  BY <1>3, Zenon DEF Holds, n
<1>7. \A i \in 1 .. m : s[i] \notin X
  BY Zenon DEF Free, m
<1>8. \A i \in 1 .. n : t[i] \notin X
  BY Zenon DEF Free, n
<1>9. ASSUME NEW i \in 1 .. Len(u) PROVE u[i] \notin X
  <2>1. CASE i <= m
    <3>1. i \in 1 .. m /\ 0 + i = i
      BY <1>1, <1>4, <2>1 DEF m, n
    <3> QED
      BY <1>5, <1>7, <3>1
  <2>2. CASE i > m
    <3> DEFINE j == i - m
    <3>1. j \in 1 .. n /\ m + j = i
      BY <1>1, <1>4, <2>2 DEF m, n
    <3> HIDE DEF j
    <3> QED
      BY <1>6, <1>8, <3>1
  <2> QED
    BY <1>1, <1>4, <2>1, <2>2 DEF m, n
<1> QED
  BY <1>4, <1>9, Zenon DEF Free, u

\* A text with symbols at its end is not empty.
LEMMA JoinNotEmpty ==
    ASSUME NEW X, NEW s, Free(s, X), NEW t, Free(t, X), Len(t) >= 1
    PROVE  Len(Join(s, t)) \in Nat /\ Len(Join(s, t)) >= 1
<1> DEFINE m == Len(s)
           n == Len(t)
<1>1. IsText(s) /\ IsText(t) /\ m \in Nat /\ n \in Nat /\ n >= 1
  BY TextIs DEF Free
<1>2. TextOf(s, m) /\ TextOf(t, n)
  BY <1>1, Zenon DEF TextOf
<1> HIDE DEF m, n
<1>3. TextOf(Join(s, t), m + n)
  BY <1>2, JoinIs
<1> QED
  BY <1>1, <1>3 DEF TextOf

\* Neither have texts of a few other symbols.
LEMMA ShortFree ==
    ASSUME NEW X
    PROVE  /\ Free(<<>>, X)
           /\ \A a : a \notin X => Free(<<a>>, X)
           /\ \A a, b : a \notin X /\ b \notin X => Free(<<a, b>>, X)
           /\ \A a, b, c : a \notin X /\ b \notin X /\ c \notin X => Free(<<a, b, c>>, X)
           /\ \A a, b, c, d, e : a \notin X /\ b \notin X /\ c \notin X /\ d \notin X /\ e \notin X =>
                 Free(<<a, b, c, d, e>>, X)
<1>0. Free(<<>>, X)
  BY ShortTexts DEF Free
<1>1. \A a : a \notin X => Free(<<a>>, X)
  BY ShortTexts DEF Free
<1>2. \A a, b : a \notin X /\ b \notin X => Free(<<a, b>>, X)
  BY ShortTexts DEF Free
<1>3. \A a, b, c : a \notin X /\ b \notin X /\ c \notin X => Free(<<a, b, c>>, X)
  BY ShortTexts DEF Free
<1>5. \A a, b, c, d, e : a \notin X /\ b \notin X /\ c \notin X /\ d \notin X /\ e \notin X =>
         Free(<<a, b, c, d, e>>, X)
  BY LongTexts DEF Free
<1> QED
  BY <1>0, <1>1, <1>2, <1>3, <1>5, Zenon

\* A text without the symbols that end lines, and one without semicolons, too.
Breaks == {LF, CR}
BreaksAndSemi == {LF, CR, SEMI}

\* Names, targets and gaps are lines.
LEMMA NamesAreLines ==
    /\ \A s \in UnixNames \cup VmsNames \cup MsDosNames \cup Targets : Free(s, Breaks)
    /\ \A s \in MsDosNames : Free(s, BreaksAndSemi)
    /\ \A s \in Gaps : Free(s, Breaks) /\ Free(s, BreaksAndSemi)
    /\ SP \notin Breaks /\ SEMI \notin Breaks /\ SP \notin BreaksAndSemi
    /\ \A s : Free(s, BreaksAndSemi) => Free(s, Breaks)
<1>1. SP \notin Breaks /\ SEMI \notin Breaks /\ SP \notin BreaksAndSemi
  BY Words, Zenon DEF Breaks, BreaksAndSemi
<1>2. ASSUME NEW s \in UnixNames \cup VmsNames \cup MsDosNames \cup Targets PROVE Free(s, Breaks)
  <2>1. s \in Seq(ToSet(s) \ Breaks) /\ IsText(s)
    BY NamesAssumption, PartsAreTexts, Zenon DEF Breaks
  <2>2. \A i \in 1 .. Len(s) : s[i] \in ToSet(s) \ Breaks
    BY <2>1
  <2> QED
    BY <2>1, <2>2, Zenon DEF Free
<1>3. \A s \in Gaps : Free(s, Breaks) /\ Free(s, BreaksAndSemi)
  BY <1>1, ShortFree, Zenon DEF Gaps
<1>4. ASSUME NEW s \in MsDosNames PROVE Free(s, BreaksAndSemi)
  <2>1. Free(s, Breaks) /\ ~Contains(s, SEMI)
    <3>1. s \in UnixNames \cup VmsNames \cup MsDosNames \cup Targets
      OBVIOUS
    <3> QED
      BY <1>2, <3>1, NamesAssumption, Zenon
  <2>2. \A i \in 1 .. Len(s) : s[i] \notin Breaks /\ s[i] # SEMI
    BY <2>1, Zenon DEF Free, Contains
  <2>3. \A x : x \notin Breaks /\ x # SEMI => x \notin BreaksAndSemi
    BY Zenon DEF Breaks, BreaksAndSemi
  <2> QED
    BY <2>1, <2>2, <2>3, Zenon DEF Free
<1>5. \A s : Free(s, BreaksAndSemi) => Free(s, Breaks)
  BY Zenon DEF Free, Breaks, BreaksAndSemi
<1> QED
  BY <1>1, <1>2, <1>3, <1>4, <1>5, Zenon

-----------------------------------------------------------------------------
(* Lines of VMS. *)

\* The date of a VMS line, and what is after it.
VmsDate == <<"27", "-", "Jan", "-", "1999", SP, "12", ":", "09">>
VmsStem(f) == Join(f.name, IF f.dir THEN <<".DIR">> ELSE <<>>)
VmsHead(f) ==
    Join(Join(Join(Join(Join(VmsStem(f), <<SEMI, "2">>), f.gap), <<"213/216">>), f.gap), VmsDate)
VmsTail(f, s) == Join(Join(Join(s, IF f.seconds THEN <<":", "04">> ELSE <<>>), f.gap), <<"[system]">>)

\* The date of a VMS line, symbol by symbol.
LEMMA VmsDateIs ==
    /\ TextOf(VmsDate, 9) /\ Free(VmsDate, Breaks)
    /\ VmsDate[1] = "27" /\ VmsDate[2] = "-" /\ VmsDate[3] = "Jan" /\ VmsDate[4] = "-" /\ VmsDate[5] = "1999"
    /\ VmsDate[6] = SP /\ VmsDate[7] = "12" /\ VmsDate[8] = ":" /\ VmsDate[9] = "09"
<1>1. IsText(VmsDate)
  BY LongTexts, Zenon DEF VmsDate
<1>2. Len(VmsDate) = 9
  BY SMT DEF VmsDate
<1>3. VmsDate[1] = "27" /\ VmsDate[2] = "-" /\ VmsDate[3] = "Jan" /\ VmsDate[4] = "-" /\ VmsDate[5] = "1999"
  BY SMT DEF VmsDate
<1>4. VmsDate[6] = SP /\ VmsDate[7] = "12" /\ VmsDate[8] = ":" /\ VmsDate[9] = "09"
  BY SMT DEF VmsDate
<1>5. TextOf(VmsDate, 9)
  BY <1>1, <1>2 DEF TextOf
<1> DEFINE set == {"27", "-", "Jan", "1999", SP, "12", ":", "09"}
<1>6. \A x \in set : x \notin Breaks
  BY Words, Zenon DEF Breaks
<1>7. \A i \in 1 .. 9 : VmsDate[i] \in set
  BY <1>3, <1>4, SMT
<1> HIDE DEF set
<1>8. Free(VmsDate, Breaks)
  BY <1>1, <1>2, <1>6, <1>7 DEF Free
<1> QED
  BY <1>3, <1>4, <1>5, <1>8

\* A VMS line is these parts.
LEMMA VmsLineIs ==
    ASSUME NEW f \in VmsFiles
    PROVE  LineOf(f) = VmsTail(f, VmsHead(f))
<1>1. f.format = "vms"
  BY VmsNameIs
<1>2. LineOf(f) = VmsLine(f)
  BY <1>1, Zenon DEF LineOf
<1>3. VmsLine(f) = VmsTail(f, VmsHead(f))
  BY Zenon DEF VmsLine, VmsTail, VmsHead, VmsStem, VmsDate, Join
<1> QED
  BY <1>2, <1>3

\* A VMS line is one line, and not empty.
LEMMA VmsLineIsLine ==
    ASSUME NEW f \in VmsFiles
    PROVE  Free(LineOf(f), Breaks) /\ Len(LineOf(f)) \in Nat /\ Len(LineOf(f)) >= 1
<1>1. Free(f.name, Breaks) /\ Free(f.gap, Breaks)
  <2>1. f.name \in VmsNames /\ f.gap \in Gaps
    BY SMT DEF VmsFiles
  <2> QED
    BY <2>1, NamesAreLines, Zenon
<1>2. /\ ".DIR" \notin Breaks /\ "2" \notin Breaks /\ "213/216" \notin Breaks /\ ":" \notin Breaks
      /\ "04" \notin Breaks /\ "[system]" \notin Breaks /\ SEMI \notin Breaks
  BY Words, Zenon DEF Breaks
<1>3. Free(IF f.dir THEN <<".DIR">> ELSE <<>>, Breaks) /\ Free(IF f.seconds THEN <<":", "04">> ELSE <<>>, Breaks)
  BY <1>2, ShortFree, Zenon
<1>4. Free(<<SEMI, "2">>, Breaks) /\ Free(<<"213/216">>, Breaks) /\ Free(<<"[system]">>, Breaks)
  BY <1>2, ShortFree, Zenon
<1>5. Free(VmsHead(f), Breaks)
  BY <1>1, <1>3, <1>4, VmsDateIs, FreeJoin, Zenon DEF VmsHead, VmsStem
<1> DEFINE s == Join(Join(VmsHead(f), IF f.seconds THEN <<":", "04">> ELSE <<>>), f.gap)
<1>6. Free(s, Breaks)
  BY <1>1, <1>3, <1>5, FreeJoin, Zenon
<1>7. LineOf(f) = Join(s, <<"[system]">>)
  BY VmsLineIs, Zenon DEF VmsTail
<1> HIDE DEF s
<1>8. Free(LineOf(f), Breaks)
  BY <1>4, <1>6, <1>7, FreeJoin, Zenon
<1>9. Len(<<"[system]">>) >= 1
  OBVIOUS
<1>10. Len(LineOf(f)) \in Nat /\ Len(LineOf(f)) >= 1
  BY <1>4, <1>6, <1>7, <1>9, JoinNotEmpty
<1> QED
  BY <1>8, <1>10

\* What a VMS line holds, up to the symbol after the minute.
VmsHolds(f, k, m, g, c, s) ==
    /\ Holds(s, 0, f.name) /\ (f.dir => Holds(s, k, <<".DIR">>))
    /\ Holds(s, m, <<SEMI, "2">>) /\ Holds(s, m + 2, f.gap) /\ Holds(s, m + 3 + g, f.gap) /\ Holds(s, c, VmsDate)
    /\ Holds(s, m + 2 + g, <<"213/216">>)

\* The parts of a VMS line are at their places.
LEMMA VmsHeadHolds ==
    ASSUME NEW f \in VmsFiles, NEW k \in Nat, TextOf(f.name, k), NEW m \in Nat, m = IF f.dir THEN k + 1 ELSE k,
           NEW g \in Nat, TextOf(f.gap, g), NEW c \in Nat, c = m + 3 + g + g
    PROVE  TextOf(VmsHead(f), c + 9) /\ VmsHolds(f, k, m, g, c, VmsHead(f))
<1> DEFINE dir == IF f.dir THEN <<".DIR">> ELSE <<>>
           a1 == VmsStem(f)
           a2 == Join(a1, <<SEMI, "2">>)
           a3 == Join(a2, f.gap)
           a4 == Join(a3, <<"213/216">>)
           a5 == Join(a4, f.gap)
           a6 == Join(a5, VmsDate)
<1>1. TextOf(f.name, k) /\ TextOf(f.gap, g) /\ k \in Nat /\ g \in Nat /\ f.dir \in BOOLEAN
  BY VmsNameIs
<1>2. TextOf(<<SEMI, "2">>, 2) /\ TextOf(<<"213/216">>, 1) /\ TextOf(<<".DIR">>, 1) /\ TextOf(<<>>, 0)
  BY ShortTexts DEF TextOf
<1>3. TextOf(a1, m) /\ m \in Nat /\ Holds(a1, 0, f.name) /\ (f.dir => Holds(a1, k, <<".DIR">>))
  <2>1. CASE f.dir
    <3>1. a1 = Join(f.name, <<".DIR">>) /\ m = k + 1
      BY <2>1, Zenon DEF VmsStem
    <3> HIDE DEF a1
    <3>2. TextOf(Join(f.name, <<".DIR">>), k + 1) /\ Holds(Join(f.name, <<".DIR">>), 0, f.name)
          /\ Holds(Join(f.name, <<".DIR">>), k, <<".DIR">>)
      BY <1>1, <1>2, JoinIs
    <3> QED
      BY <1>1, <3>1, <3>2
  <2>2. CASE ~f.dir
    <3>1. a1 = Join(f.name, <<>>) /\ m = k
      BY <2>2, Zenon DEF VmsStem
    <3> HIDE DEF a1
    <3>2. TextOf(Join(f.name, <<>>), k + 0) /\ Holds(Join(f.name, <<>>), 0, f.name)
      BY <1>1, <1>2, JoinIs
    <3> QED
      BY <1>1, <2>2, <3>1, <3>2
  <2> QED
    BY <1>1, <2>1, <2>2
<1> HIDE DEF a1
<1>4. TextOf(a2, m + 2) /\ Holds(a2, m, <<SEMI, "2">>) /\ \A a, u : Holds(a1, a, u) => Holds(a2, a, u)
  BY <1>2, <1>3, Adds
<1> HIDE DEF a2
<1>5. TextOf(a3, m + 2 + g) /\ Holds(a3, m + 2, f.gap) /\ \A a, u : Holds(a2, a, u) => Holds(a3, a, u)
  BY <1>1, <1>4, Adds
<1> HIDE DEF a3
<1>6. TextOf(a4, m + 2 + g + 1) /\ Holds(a4, m + 2 + g, <<"213/216">>) /\ \A a, u : Holds(a3, a, u) => Holds(a4, a, u)
  BY <1>2, <1>5, Adds
<1>7. m + 2 + g + 1 = m + 3 + g /\ m + 3 + g + g = c
  <2>1. m \in Nat /\ g \in Nat
    BY <1>1, <1>3
  <2> QED
    BY <2>1
<1> HIDE DEF a4
<1>8. TextOf(a5, c) /\ Holds(a5, m + 3 + g, f.gap) /\ \A a, u : Holds(a4, a, u) => Holds(a5, a, u)
  <2>1. TextOf(a4, m + 3 + g)
    BY <1>6, <1>7
  <2> QED
    BY <1>1, <1>7, <2>1, Adds
<1> HIDE DEF a5
<1>9. TextOf(a6, c + 9) /\ Holds(a6, c, VmsDate) /\ \A a, u : Holds(a5, a, u) => Holds(a6, a, u)
  BY <1>8, VmsDateIs, Adds
<1>10. a6 = VmsHead(f)
  BY Zenon DEF a1, a2, a3, a4, a5, VmsHead
<1> HIDE DEF a6
<1>11. \A a, u : Holds(a1, a, u) => Holds(a6, a, u)
  BY <1>4, <1>5, <1>6, <1>8, <1>9, Zenon
<1>12. \A a, u : Holds(a3, a, u) => Holds(a6, a, u)
  BY <1>6, <1>8, <1>9, Zenon
<1>13. VmsHolds(f, k, m, g, c, a6)
  BY <1>3, <1>4, <1>5, <1>6, <1>8, <1>9, <1>11, <1>12 DEF VmsHolds
<1> QED
  BY <1>9, <1>10, <1>13

\* ... and with what is after the minute.

\* ... and what the line holds after the minute.
LEMMA VmsTailHolds ==
    ASSUME NEW f \in VmsFiles, NEW s, NEW n, TextOf(s, n)
    PROVE  /\ IsText(VmsTail(f, s)) /\ Len(VmsTail(f, s)) \in Nat /\ Len(VmsTail(f, s)) >= n + 1
           /\ VmsTail(f, s)[n + 1] \in {":", SP}
           /\ \A a, u : Holds(s, a, u) => Holds(VmsTail(f, s), a, u)
<1> DEFINE sec == IF f.seconds THEN <<":", "04">> ELSE <<>>
           g == Len(f.gap)
           b1 == Join(s, sec)
           b2 == Join(b1, f.gap)
           b3 == Join(b2, <<"[system]">>)
<1>1. TextOf(f.gap, g) /\ g \in Nat /\ g >= 1 /\ f.gap[1] = SP /\ f.seconds \in BOOLEAN
  BY VmsNameIs, GapIs DEF TextOf
<1>2. TextOf(<<":", "04">>, 2) /\ TextOf(<<>>, 0) /\ TextOf(<<"[system]">>, 1) /\ <<":", "04">>[1] = ":"
  BY ShortTexts DEF TextOf
<1>3. n \in Nat
  BY DEF TextOf
<1>4. b3 = VmsTail(f, s)
  BY Zenon DEF VmsTail
<1> HIDE DEF g
<1>5. CASE f.seconds
  <2> DEFINE sc == <<":", "04">>
  <2>1. sec = sc
    BY <1>5
  <2> HIDE DEF sec, sc
  <2>2. TextOf(b1, n + 2) /\ Holds(b1, n, sc) /\ \A a, u : Holds(s, a, u) => Holds(b1, a, u)
    BY <1>2, <2>1, Adds DEF sc
  <2> HIDE DEF b1
  <2>3. TextOf(b2, n + 2 + g) /\ \A a, u : Holds(b1, a, u) => Holds(b2, a, u)
    BY <1>1, <2>2, Adds
  <2> HIDE DEF b2
  <2>4. TextOf(b3, n + 2 + g + 1) /\ \A a, u : Holds(b2, a, u) => Holds(b3, a, u)
    BY <1>2, <2>3, Adds
  <2> HIDE DEF b3
  <2>5. Holds(b3, n, sc) /\ \A a, u : Holds(s, a, u) => Holds(b3, a, u)
    BY <2>2, <2>3, <2>4, Zenon
  <2>6. b3[n + 1] = ":"
    <3>1. \A i \in 1 .. 2 : b3[n + i] = sc[i]
      <4>1. Len(sc) = 2
        BY <1>2 DEF TextOf, sc
      <4> QED
        BY <2>5, <4>1 DEF Holds
    <3> QED
      BY <1>2, <3>1 DEF sc
  <2>7. IsText(b3) /\ Len(b3) \in Nat /\ Len(b3) >= n + 1
    BY <1>1, <1>3, <2>4 DEF TextOf
  <2> QED
    BY <1>4, <2>5, <2>6, <2>7
<1>6. CASE ~f.seconds
  <2>1. sec = <<>>
    BY <1>6
  <2> HIDE DEF sec
  <2>2. TextOf(b1, n) /\ \A a, u : Holds(s, a, u) => Holds(b1, a, u)
    <3>1. TextOf(b1, n + 0) /\ \A a, u : Holds(s, a, u) => Holds(b1, a, u)
      BY <1>2, <2>1, Adds
    <3> QED
      BY <1>3, <3>1
  <2> HIDE DEF b1
  <2>3. TextOf(b2, n + g) /\ Holds(b2, n, f.gap) /\ \A a, u : Holds(b1, a, u) => Holds(b2, a, u)
    BY <1>1, <2>2, Adds
  <2> HIDE DEF b2
  <2>4. TextOf(b3, n + g + 1) /\ \A a, u : Holds(b2, a, u) => Holds(b3, a, u)
    BY <1>2, <2>3, Adds
  <2> HIDE DEF b3
  <2>5. Holds(b3, n, f.gap) /\ \A a, u : Holds(s, a, u) => Holds(b3, a, u)
    BY <2>2, <2>3, <2>4, Zenon
  <2>6. b3[n + 1] = SP
    BY <1>1, <2>5 DEF Holds, g
  <2>7. IsText(b3) /\ Len(b3) \in Nat /\ Len(b3) >= n + 1
    BY <1>1, <1>3, <2>4 DEF TextOf
  <2> QED
    BY <1>4, <2>5, <2>6, <2>7
<1> QED
  BY <1>1, <1>5, <1>6

\* The layout of a line that holds this.
LEMMA VmsLayoutOf ==
    ASSUME NEW f \in VmsFiles, NEW k \in Nat, TextOf(f.name, k), NEW m \in Nat, m = IF f.dir THEN k + 1 ELSE k,
           NEW g \in Nat, TextOf(f.gap, g), NEW c \in Nat, c = m + 3 + g + g,
           NEW s, VmsHolds(f, k, m, g, c, s), s[c + 10] \in {":", SP}
    PROVE  VmsLaid(f, k, m, g, c, s)
<1>1. /\ k \in Nat /\ k >= 1 /\ f.dir \in BOOLEAN
      /\ \A q \in 1 .. k : f.name[q] # SP /\ f.name[q] # SEMI
  BY VmsNameIs DEF TextOf
<1>a. Len(f.name) = k /\ Len(f.gap) = g
  BY DEF TextOf
<1>2. g \in Nat /\ g >= 1 /\ \A i \in 1 .. g : f.gap[i] = SP
  <2>1. f.gap \in Gaps
    BY VmsNameIs
  <2>2. Len(f.gap) \in {1, 2} /\ \A i \in 1 .. Len(f.gap) : f.gap[i] = SP
    BY <2>1, GapIs
  <2> DEFINE gap == f.gap
  <2>3. Len(gap) \in {1, 2} /\ Len(gap) = g /\ \A i \in 1 .. Len(gap) : gap[i] = SP
    BY <1>a, <2>2
  <2> HIDE DEF gap
  <2>4. g >= 1 /\ \A i \in 1 .. g : gap[i] = SP
    BY <2>3
  <2> QED
    BY <2>4 DEF gap
<1>3. m \in Nat /\ c \in Nat /\ (f.dir => m = k + 1) /\ (~f.dir => m = k)
  BY <1>1, <1>2
<1>4. ".DIR" # SP /\ ".DIR" # SEMI
  BY Words, Zenon
<1>5. \A q \in 1 .. k : s[q] = f.name[q]
  <2>1. \A q \in 1 .. k : s[0 + q] = f.name[q]
    BY <1>a, Zenon DEF VmsHolds, Holds
  <2>2. \A q \in 1 .. k : 0 + q = q
    OBVIOUS
  <2> QED
    BY <2>1, <2>2
<1>6. f.dir => s[m] = ".DIR"
  <2>1. f.dir => \A i \in 1 .. Len(<<".DIR">>) : s[k + i] = <<".DIR">>[i]
    BY Zenon DEF VmsHolds, Holds
  <2>2. Len(<<".DIR">>) = 1 /\ <<".DIR">>[1] = ".DIR"
    OBVIOUS
  <2> QED
    BY <1>3, <2>1, <2>2
<1>7. s[m + 1] = SEMI /\ s[m + 2] = "2"
  <2> DEFINE t == <<SEMI, "2">>
  <2>1. \A i \in 1 .. Len(t) : s[m + i] = t[i]
    BY Zenon DEF VmsHolds, Holds
  <2>2. Len(t) = 2 /\ t[1] = SEMI /\ t[2] = "2"
    OBVIOUS
  <2> HIDE DEF t
  <2> QED
    BY <2>1, <2>2
<1>8. s[m + 3 + g] = "213/216"
  <2> DEFINE t == <<"213/216">>
             a == m + 2 + g
  <2>1. \A i \in 1 .. Len(t) : s[a + i] = t[i]
    BY Zenon DEF VmsHolds, Holds
  <2>2. Len(t) = 1 /\ t[1] = "213/216"
    OBVIOUS
  <2>3. a + 1 = m + 3 + g
    BY <1>2, <1>3
  <2> HIDE DEF t, a
  <2>4. s[a + 1] = "213/216"
    BY <2>1, <2>2
  <2> QED
    BY <2>3, <2>4
<1>9. \A q \in m + 3 .. m + 2 + g : s[q] = SP
  <2>1. \A i \in 1 .. g : s[m + 2 + i] = f.gap[i]
    BY <1>a, Zenon DEF VmsHolds, Holds
  <2> TAKE q \in m + 3 .. m + 2 + g
  <2> DEFINE i == q - m - 2
  <2>2. i \in 1 .. g /\ m + 2 + i = q
    BY <1>2, <1>3
  <2> HIDE DEF i
  <2>3. s[m + 2 + i] = SP
    BY <1>2, <2>1, <2>2
  <2> QED
    BY <2>2, <2>3
<1>10. \A q \in m + 4 + g .. c : s[q] = SP
  <2> DEFINE a == m + 3 + g
  <2>1. \A i \in 1 .. g : s[a + i] = f.gap[i]
    BY <1>a, Zenon DEF VmsHolds, Holds
  <2> TAKE q \in m + 4 + g .. c
  <2> DEFINE i == q - a
  <2>2. i \in 1 .. g /\ a + i = q
    BY <1>2, <1>3
  <2> HIDE DEF i, a
  <2>3. s[a + i] = SP
    BY <1>2, <2>1, <2>2
  <2> QED
    BY <2>2, <2>3
<1>11. /\ s[c + 1] = "27" /\ s[c + 2] = "-" /\ s[c + 3] = "Jan" /\ s[c + 4] = "-" /\ s[c + 5] = "1999"
       /\ s[c + 6] = SP /\ s[c + 7] = "12" /\ s[c + 8] = ":" /\ s[c + 9] = "09"
  <2>1. \A i \in 1 .. Len(VmsDate) : s[c + i] = VmsDate[i]
    BY Zenon DEF VmsHolds, Holds
  <2>2. Len(VmsDate) = 9
    BY VmsDateIs DEF TextOf
  <2>3. \A i \in 1 .. 9 : s[c + i] = VmsDate[i]
    BY <2>1, <2>2
  <2>4. /\ s[c + 1] = VmsDate[1] /\ s[c + 2] = VmsDate[2] /\ s[c + 3] = VmsDate[3] /\ s[c + 4] = VmsDate[4]
        /\ s[c + 5] = VmsDate[5] /\ s[c + 6] = VmsDate[6] /\ s[c + 7] = VmsDate[7] /\ s[c + 8] = VmsDate[8]
        /\ s[c + 9] = VmsDate[9]
    BY <2>3
  <2> QED
    BY <2>4, VmsDateIs, ZenonT(60)
<1>12. \A q \in 1 .. m : s[q] # SP /\ s[q] # SEMI
  <2> TAKE q \in 1 .. m
  <2>1. CASE q <= k
    BY <1>1, <1>3, <1>5, <2>1
  <2>2. CASE q > k
    <3>1. f.dir /\ q = m
      BY <1>1, <1>3, <2>2
    <3> QED
      BY <1>4, <1>6, <3>1
  <2> QED
    BY <1>1, <1>3, <2>1, <2>2
<1>13. VmsLayout(m, g, c, s)
  BY <1>7, <1>8, <1>9, <1>10, <1>11, <1>12, Zenon DEF VmsLayout
<1> QED
  BY <1>5, <1>6, <1>13, Zenon DEF VmsLaid

\* The layout of the beginning of a line.
LEMMA VmsLayoutCut ==
    ASSUME NEW m \in Nat, NEW g \in Nat, NEW c \in Nat, NEW line, VmsLayout(m, g, c, line),
           NEW s, NEW n \in Nat, NEW l \in Nat, n <= l, Len(s) = n, Len(line) = l,
           \A q \in 1 .. n : s[q] = line[q]
    PROVE  VmsLayout(m, g, c, s)
<1>1. /\ \A q \in 1 .. m : q <= l => line[q] # SP /\ line[q] # SEMI
      /\ m + 1 <= l => line[m + 1] = SEMI
      /\ m + 2 <= l => line[m + 2] = "2"
      /\ \A q \in m + 3 .. m + 2 + g : q <= l => line[q] = SP
      /\ m + 3 + g <= l => line[m + 3 + g] = "213/216"
      /\ \A q \in m + 4 + g .. c : q <= l => line[q] = SP
  BY Zenon DEF VmsLayout
<1>2. /\ c + 1 <= l => line[c + 1] = "27"
      /\ c + 2 <= l => line[c + 2] = "-"
      /\ c + 3 <= l => line[c + 3] = "Jan"
      /\ c + 4 <= l => line[c + 4] = "-"
      /\ c + 5 <= l => line[c + 5] = "1999"
      /\ c + 6 <= l => line[c + 6] = SP
      /\ c + 7 <= l => line[c + 7] = "12"
      /\ c + 8 <= l => line[c + 8] = ":"
      /\ c + 9 <= l => line[c + 9] = "09"
      /\ c + 10 <= l => line[c + 10] \in {":", SP}
  BY ZenonT(60) DEF VmsLayout
<1>3. \A q \in Nat : q >= 1 /\ q <= Len(s) => q <= l /\ s[q] = line[q]
  OBVIOUS
<1>4. /\ \A q \in 1 .. m : q <= Len(s) => s[q] # SP /\ s[q] # SEMI
      /\ m + 1 <= Len(s) => s[m + 1] = SEMI
      /\ m + 2 <= Len(s) => s[m + 2] = "2"
  BY <1>1, <1>3
<1>5. /\ \A q \in m + 3 .. m + 2 + g : q <= Len(s) => s[q] = SP
      /\ m + 3 + g <= Len(s) => s[m + 3 + g] = "213/216"
  BY <1>1, <1>3
<1>6. \A q \in m + 4 + g .. c : q <= Len(s) => s[q] = SP
  BY <1>1, <1>3
<1>7. /\ c + 1 <= Len(s) => s[c + 1] = "27"
      /\ c + 2 <= Len(s) => s[c + 2] = "-"
      /\ c + 3 <= Len(s) => s[c + 3] = "Jan"
      /\ c + 4 <= Len(s) => s[c + 4] = "-"
      /\ c + 5 <= Len(s) => s[c + 5] = "1999"
  BY <1>2, <1>3
<1>8. /\ c + 6 <= Len(s) => s[c + 6] = SP
      /\ c + 7 <= Len(s) => s[c + 7] = "12"
      /\ c + 8 <= Len(s) => s[c + 8] = ":"
      /\ c + 9 <= Len(s) => s[c + 9] = "09"
      /\ c + 10 <= Len(s) => s[c + 10] \in {":", SP}
  BY <1>2, <1>3
<1> QED
  BY <1>4, <1>5, <1>6, <1>7, <1>8, Zenon DEF VmsLayout

\* What a VMS line, or its beginning, is understood to say.
LEMMA VmsUnderstood ==
    ASSUME NEW f \in VmsFiles, NEW line, line = LineOf(f), NEW n \in 1 .. Len(line), NEW s, s = SubSeq(line, 1, n)
    PROVE  /\ FtpParse(s) = Null \/ FtpParse(s) = VmsEntry(f)
           /\ n = Len(line) => FtpParse(s) = VmsEntry(f)
<1> DEFINE k == Len(f.name)
           g == Len(f.gap)
           m == IF f.dir THEN k + 1 ELSE k
           c == m + 3 + g + g
           l == Len(line)
<1>1. /\ TextOf(f.name, k) /\ k \in Nat /\ k >= 1 /\ f.dir \in BOOLEAN /\ f.gap \in Gaps
      /\ \A q \in 1 .. k : f.name[q] # SP /\ f.name[q] # SEMI
      /\ f.name[1] \notin TypeLetters \cup {"+"}
  BY VmsNameIs DEF TextOf
<1>2. TextOf(f.gap, g) /\ g \in Nat /\ g >= 1
  <2>1. IsText(f.gap) /\ Len(f.gap) \in {1, 2}
    BY <1>1, GapIs
  <2> DEFINE gap == f.gap
  <2>2. IsText(gap) /\ Len(gap) \in {1, 2} /\ g = Len(gap)
    BY <2>1
  <2> HIDE DEF gap, g
  <2>3. TextOf(gap, g) /\ g \in Nat /\ g >= 1
    BY <2>2 DEF TextOf
  <2> QED
    BY <2>3 DEF gap, g
<1> HIDE DEF k, g
<1>3. m \in Nat /\ (f.dir => m = k + 1) /\ (~f.dir => m = k)
  BY <1>1
<1>a. m = IF f.dir THEN k + 1 ELSE k
  OBVIOUS
<1> HIDE DEF m
<1>4. c \in Nat /\ c = m + 3 + g + g
  BY <1>2, <1>3
<1> HIDE DEF c, l
<1>5. line = VmsTail(f, VmsHead(f))
  BY VmsLineIs, Zenon
<1>6. TextOf(VmsHead(f), c + 9) /\ VmsHolds(f, k, m, g, c, VmsHead(f))
  BY <1>1, <1>2, <1>3, <1>a, <1>4, VmsHeadHolds
<1>7. /\ IsText(line) /\ Len(line) \in Nat /\ Len(line) >= c + 9 + 1 /\ line[c + 9 + 1] \in {":", SP}
      /\ \A a, u : Holds(VmsHead(f), a, u) => Holds(line, a, u)
  BY <1>5, <1>6, VmsTailHolds
<1>8. VmsHolds(f, k, m, g, c, line)
  BY <1>6, <1>7, Zenon DEF VmsHolds
<1>9. l \in Nat /\ l >= c + 10 /\ line[c + 10] \in {":", SP} /\ IsText(line)
  <2>1. c + 9 + 1 = c + 10
    BY <1>4
  <2> QED
    BY <1>7, <2>1 DEF l
<1>10. VmsLayout(m, g, c, line) /\ (\A q \in 1 .. k : line[q] = f.name[q]) /\ (f.dir => line[m] = ".DIR")
  <2>1. VmsLaid(f, k, m, g, c, line)
    BY <1>1, <1>2, <1>3, <1>a, <1>4, <1>8, <1>9, VmsLayoutOf
  <2> QED
    BY <2>1, Zenon DEF VmsLaid
<1>11. n \in Nat /\ n >= 1 /\ n <= l /\ n \in 0 .. l
  <2>1. n \in 1 .. l
    BY DEF l
  <2> QED
    BY <1>9, <2>1
<1>12. IsText(s) /\ Len(s) = n /\ \A q \in 1 .. n : s[q] = line[q]
  BY <1>9, <1>11, BeginIs DEF l
<1>13. VmsLayout(m, g, c, s)
  <2>1. Len(line) = l
    BY DEF l
  <2>2. m \in Nat /\ g \in Nat /\ c \in Nat /\ n \in Nat /\ l \in Nat /\ n <= l
    BY <1>2, <1>3, <1>4, <1>9, <1>11
  <2>3. VmsLayout(m, g, c, line) /\ Len(s) = n /\ \A q \in 1 .. n : s[q] = line[q]
    BY <1>10, <1>12
  <2> QED
    BY <2>1, <2>2, <2>3, VmsLayoutCut
<1>14. s[1] \notin TypeLetters /\ s[1] # "+"
  <2>1. s[1] = f.name[1]
    BY <1>1, <1>10, <1>11, <1>12
  <2> QED
    BY <1>1, <2>1, Zenon
<1>15. FtpParse(s) = IF n < 2 THEN Null ELSE Other(s)
  BY <1>12, <1>14, Zenon DEF FtpParse
<1>16. ASSUME n <= m PROVE Other(s) = Null
  <2>1. \A q \in 1 .. n : s[q] # SP /\ s[q] # SEMI
    <3>1. \A q \in 1 .. m : q <= n => s[q] # SP /\ s[q] # SEMI
      BY <1>12, <1>13, Zenon DEF VmsLayout
    <3> QED
      BY <1>3, <1>11, <1>16, <3>1
  <2>2. MsDos(s) = Null
    BY <1>12, <2>1, NoSpace
  <2>3. ~Contains(s, SEMI)
    BY <1>12, <2>1, Zenon DEF Contains
  <2> QED
    BY <2>2, <2>3, Zenon DEF Other
<1>17. ASSUME n > m PROVE Other(s) = IF n < c + 10 THEN Null ELSE VmsEntry(f)
  <2>1. m + 1 <= n /\ m + 1 \in 1 .. n /\ 1 \in 1 .. n /\ m <= n
    BY <1>3, <1>11, <1>17
  <2>2. s[m + 1] = SEMI
    BY <1>12, <1>13, <2>1, Zenon DEF VmsLayout
  <2>3. Contains(s, SEMI)
    BY <1>12, <2>1, <2>2, Zenon DEF Contains
  <2>4. \A q \in 1 .. k : s[q] = f.name[q]
    <3>1. \A q \in 1 .. k : q \in 1 .. n
      BY <1>1, <1>3, <1>11, <2>1
    <3> QED
      BY <1>10, <1>12, <3>1
  <2>5. f.dir => s[m] = ".DIR"
    <3>1. m \in 1 .. n
      BY <1>1, <1>3, <1>11, <2>1
    <3> QED
      BY <1>10, <1>12, <3>1
  <2>6. Vms(s) = IF Len(s) < c + 10 THEN Null ELSE VmsEntry(f)
    <3>1. VmsLaid(f, k, m, g, c, s)
      BY <1>13, <2>4, <2>5, Zenon DEF VmsLaid
    <3>3. f \in VmsFiles /\ g \in Nat /\ g >= 1 /\ k \in Nat /\ TextOf(f.name, k) /\ m \in Nat /\ c \in Nat
      BY <1>1, <1>2, <1>3, <1>4
    <3>4. IsText(s) /\ m + 1 <= Len(s)
      BY <1>12, <2>1
    <3>2. VmsSays(f, c, s)
      BY <1>a, <1>4, <3>1, <3>3, <3>4, VmsIs
    <3> QED
      BY <3>2, Zenon DEF VmsSays
  <2> QED
    BY <1>12, <2>3, <2>6, Zenon DEF Other
<1>18. n <= m \/ n > m
  BY <1>3, <1>11
<1>19. FtpParse(s) = Null \/ FtpParse(s) = VmsEntry(f)
  BY <1>15, <1>16, <1>17, <1>18
<1>20. n = l => FtpParse(s) = VmsEntry(f)
  <2>1. n = l => n > m /\ ~(n < c + 10) /\ ~(n < 2)
    <3>1. l > m /\ ~(l < c + 10) /\ ~(l < 2)
      BY <1>2, <1>3, <1>4, <1>9
    <3> QED
      BY <3>1, Zenon
  <2> QED
    BY <1>15, <1>17, <2>1
<1> QED
  BY <1>19, <1>20 DEF l

-----------------------------------------------------------------------------
(* Lines of MSDOS. *)

\* The date and the time of an MSDOS line of these words, and the line before the name.
MsDosDate(w) == <<"04", "-", "27", "-", w.year>>
MsDosTime(w) == <<w.hour, ":", "04", w.half, "M">>
MsDosHead(gap, w) ==
    Join(Join(Join(Join(Join(MsDosDate(w), gap), MsDosTime(w)), gap), <<w.size>>), gap)

\* An MSDOS line is these parts.
LEMMA MsDosLineIs ==
    ASSUME NEW f \in MsDosFiles, NEW w, w = MsDosWordsOf(f)
    PROVE  LineOf(f) = Join(MsDosHead(f.gap, w), f.name)
<1>1. f.format = "msdos"
  BY MsDosNameIs
<1>2. LineOf(f) = MsDosLine(f)
  BY <1>1, Zenon DEF LineOf
<1>3. /\ w.year = CASE f.year = 1950 -> "50" [] f.year = 1999 -> "1999" [] f.year = 2000 -> "00"
      /\ w.hour = IF f.hour \in {0, 12} THEN "12" ELSE "09"
      /\ w.half = IF f.hour < 12 THEN "A" ELSE "P"
      /\ w.size = IF f.dir THEN "<DIR>" ELSE "531"
  BY DEF MsDosWordsOf
<1>4. MsDosLine(f) = MsDosDate(w) \o f.gap \o MsDosTime(w) \o f.gap \o <<w.size>> \o f.gap \o f.name
  BY <1>3, Zenon DEF MsDosLine, MsDosDate, MsDosTime
<1> QED
  BY <1>2, <1>4, Zenon DEF MsDosHead, Join

\* The parts of an MSDOS line, symbol by symbol.
LEMMA MsDosPartsAre ==
    ASSUME NEW w \in MsDosWords
    PROVE  /\ TextOf(MsDosDate(w), 5) /\ Free(MsDosDate(w), BreaksAndSemi)
           /\ TextOf(MsDosTime(w), 5) /\ Free(MsDosTime(w), BreaksAndSemi)
           /\ TextOf(<<w.size>>, 1) /\ Free(<<w.size>>, BreaksAndSemi)
           /\ MsDosDate(w)[1] = "04" /\ MsDosDate(w)[2] = "-" /\ MsDosDate(w)[3] = "27" /\ MsDosDate(w)[4] = "-"
           /\ MsDosDate(w)[5] = w.year
           /\ MsDosTime(w)[1] = w.hour /\ MsDosTime(w)[2] = ":" /\ MsDosTime(w)[3] = "04" /\ MsDosTime(w)[4] = w.half
           /\ MsDosTime(w)[5] = "M"
<1> DEFINE y == w.year
           h == w.hour
           p == w.half
           z == w.size
<1>1. y \in {"50", "1999", "00"} /\ h \in {"12", "09"} /\ p \in {"A", "P"} /\ z \in {"<DIR>", "531"}
  BY DEF MsDosWords
<1>2. MsDosDate(w) = <<"04", "-", "27", "-", y>> /\ MsDosTime(w) = <<h, ":", "04", p, "M">>
  BY DEF MsDosDate, MsDosTime
<1> HIDE DEF y, h, p, z
<1>3. /\ "04" \notin BreaksAndSemi /\ "-" \notin BreaksAndSemi /\ "27" \notin BreaksAndSemi
      /\ ":" \notin BreaksAndSemi /\ "M" \notin BreaksAndSemi
  BY Words, Zenon DEF BreaksAndSemi
<1>4. y \notin BreaksAndSemi /\ h \notin BreaksAndSemi /\ p \notin BreaksAndSemi /\ z \notin BreaksAndSemi
  BY <1>1, Words, Zenon DEF BreaksAndSemi
<1>5. \A a, b, c, d, e : <<a, b, c, d, e>>[1] = a /\ <<a, b, c, d, e>>[2] = b /\ <<a, b, c, d, e>>[3] = c
                         /\ <<a, b, c, d, e>>[4] = d /\ <<a, b, c, d, e>>[5] = e /\ Len(<<a, b, c, d, e>>) = 5
  BY SMT
<1>6. \A a, b, c, d, e : TextOf(<<a, b, c, d, e>>, 5)
  <2>1. \A s : IsText(s) /\ Len(s) = 5 => TextOf(s, 5)
    BY DEF TextOf
  <2> QED
    BY <1>5, <2>1, LongTexts, Zenon
<1>7. TextOf(<<z>>, 1)
  BY ShortTexts DEF TextOf
<1>8. Free(<<"04", "-", "27", "-", y>>, BreaksAndSemi) /\ Free(<<h, ":", "04", p, "M">>, BreaksAndSemi)
      /\ Free(<<z>>, BreaksAndSemi)
  BY <1>3, <1>4, ShortFree, Zenon
<1> DEFINE date == <<"04", "-", "27", "-", y>>
           time == <<h, ":", "04", p, "M">>
<1>9. date[1] = "04" /\ date[2] = "-" /\ date[3] = "27" /\ date[4] = "-" /\ date[5] = y
  BY <1>5, Zenon
<1>10. time[1] = h /\ time[2] = ":" /\ time[3] = "04" /\ time[4] = p /\ time[5] = "M"
  BY <1>5, Zenon
<1> QED
  BY <1>2, <1>6, <1>7, <1>8, <1>9, <1>10, Zenon DEF y, h, p, z

\* What an MSDOS line holds, and where: the time at h, the size at z and the name at b.
MsDosHolds(gap, w, h, z, s) ==
    /\ Holds(s, 0, MsDosDate(w)) /\ Holds(s, 5, gap) /\ Holds(s, h - 1, MsDosTime(w)) /\ Holds(s, h + 4, gap)
    /\ Holds(s, z - 1, <<w.size>>) /\ Holds(s, z, gap)

\* The parts of an MSDOS line are at their places.
LEMMA MsDosHeadHolds ==
    ASSUME NEW gap, NEW g \in Nat, TextOf(gap, g), NEW w \in MsDosWords, NEW h \in Nat, h = 6 + g,
           NEW z \in Nat, z = h + 5 + g, NEW b \in Nat, b = z + 1 + g
    PROVE  TextOf(MsDosHead(gap, w), b - 1) /\ MsDosHolds(gap, w, h, z, MsDosHead(gap, w))
<1> DEFINE a1 == MsDosDate(w)
           a2 == Join(a1, gap)
           a3 == Join(a2, MsDosTime(w))
           a4 == Join(a3, gap)
           a5 == Join(a4, <<w.size>>)
           a6 == Join(a5, gap)
<1>1. TextOf(a1, 5) /\ TextOf(MsDosTime(w), 5) /\ TextOf(<<w.size>>, 1)
  BY MsDosPartsAre
<1>2. 5 + g = h - 1 /\ h - 1 + 5 = h + 4 /\ h + 4 + g = z - 1 /\ z - 1 + 1 = z /\ z + g = b - 1
  OBVIOUS
<1>a. a6 = MsDosHead(gap, w)
  BY Zenon DEF MsDosHead
<1> HIDE DEF a1
<1>3. TextOf(a2, h - 1) /\ Holds(a2, 0, a1) /\ Holds(a2, 5, gap)
  <2>1. TextOf(a2, 5 + g) /\ Holds(a2, 0, a1) /\ Holds(a2, 5, gap)
    BY <1>1, JoinIs
  <2> QED
    BY <1>2, <2>1
<1> HIDE DEF a2
<1>4. TextOf(a3, h + 4) /\ Holds(a3, h - 1, MsDosTime(w)) /\ \A a, u : Holds(a2, a, u) => Holds(a3, a, u)
  <2>1. TextOf(a3, h - 1 + 5) /\ Holds(a3, h - 1, MsDosTime(w)) /\ \A a, u : Holds(a2, a, u) => Holds(a3, a, u)
    BY <1>1, <1>3, Adds
  <2> QED
    BY <1>2, <2>1
<1> HIDE DEF a3
<1>5. TextOf(a4, z - 1) /\ Holds(a4, h + 4, gap) /\ \A a, u : Holds(a3, a, u) => Holds(a4, a, u)
  <2>1. TextOf(a4, h + 4 + g) /\ Holds(a4, h + 4, gap) /\ \A a, u : Holds(a3, a, u) => Holds(a4, a, u)
    BY <1>4, Adds
  <2> QED
    BY <1>2, <2>1
<1> HIDE DEF a4
<1>6. TextOf(a5, z) /\ Holds(a5, z - 1, <<w.size>>) /\ \A a, u : Holds(a4, a, u) => Holds(a5, a, u)
  <2>1. TextOf(a5, z - 1 + 1) /\ Holds(a5, z - 1, <<w.size>>) /\ \A a, u : Holds(a4, a, u) => Holds(a5, a, u)
    BY <1>1, <1>5, Adds
  <2> QED
    BY <1>2, <2>1
<1> HIDE DEF a5
<1>7. TextOf(a6, b - 1) /\ Holds(a6, z, gap) /\ \A a, u : Holds(a5, a, u) => Holds(a6, a, u)
  <2>1. TextOf(a6, z + g) /\ Holds(a6, z, gap) /\ \A a, u : Holds(a5, a, u) => Holds(a6, a, u)
    BY <1>6, Adds
  <2> QED
    BY <1>2, <2>1
<1> HIDE DEF a6
<1>8. Holds(a6, 0, a1) /\ Holds(a6, 5, gap)
  BY <1>3, <1>4, <1>5, <1>6, <1>7, Zenon
<1>9. Holds(a6, h - 1, MsDosTime(w)) /\ Holds(a6, h + 4, gap) /\ Holds(a6, z - 1, <<w.size>>)
  BY <1>4, <1>5, <1>6, <1>7, Zenon
<1>10. MsDosHolds(gap, w, h, z, a6)
  BY <1>7, <1>8, <1>9, Zenon DEF MsDosHolds, a1
<1> QED
  BY <1>7, <1>10, <1>a

\* The layout of a line that holds this.
LEMMA MsDosLayoutOf ==
    ASSUME NEW gap \in Gaps, NEW g \in Nat, TextOf(gap, g), NEW w \in MsDosWords, NEW h \in Nat, h = 6 + g,
           NEW z \in Nat, z = h + 5 + g, NEW b \in Nat, b = z + 1 + g,
           NEW s, MsDosHolds(gap, w, h, z, s), s[b] # SP
    PROVE  MsDosLayout(g, h, z, b, w, s)
<1> DEFINE date == MsDosDate(w)
           time == MsDosTime(w)
           size == <<w.size>>
<1>1. Len(gap) = g /\ (\A i \in 1 .. g : gap[i] = SP) /\ Len(date) = 5 /\ Len(time) = 5 /\ Len(size) = 1
  <2>1. Len(gap) = g
    BY DEF TextOf
  <2>2. \A i \in 1 .. Len(gap) : gap[i] = SP
    BY GapIs
  <2>3. Len(date) = 5 /\ Len(time) = 5 /\ Len(size) = 1
    BY MsDosPartsAre DEF TextOf
  <2> QED
    BY <2>1, <2>2, <2>3
<1>2. /\ date[1] = "04" /\ date[2] = "-" /\ date[3] = "27" /\ date[4] = "-" /\ date[5] = w.year
      /\ time[1] = w.hour /\ time[2] = ":" /\ time[3] = "04" /\ time[4] = w.half /\ time[5] = "M"
  BY MsDosPartsAre
<1>3. size[1] = w.size
  OBVIOUS
<1> HIDE DEF date, time, size
<1>4. \A i \in 1 .. 5 : s[0 + i] = date[i]
  BY <1>1, Zenon DEF MsDosHolds, Holds, date
<1>5. \A i \in 1 .. g : s[5 + i] = gap[i]
  BY <1>1, Zenon DEF MsDosHolds, Holds
<1>6. \A i \in 1 .. 5 : s[h - 1 + i] = time[i]
  BY <1>1, Zenon DEF MsDosHolds, Holds, time
<1>7. \A i \in 1 .. g : s[h + 4 + i] = gap[i]
  BY <1>1, Zenon DEF MsDosHolds, Holds
<1>8. \A i \in 1 .. 1 : s[z - 1 + i] = size[i]
  BY <1>1, Zenon DEF MsDosHolds, Holds, size
<1>9. \A i \in 1 .. g : s[z + i] = gap[i]
  BY <1>1, Zenon DEF MsDosHolds, Holds
<1>10. s[1] = "04" /\ s[2] = "-" /\ s[3] = "27" /\ s[4] = "-" /\ s[5] = w.year
  <2>1. s[1] = date[1] /\ s[2] = date[2] /\ s[3] = date[3] /\ s[4] = date[4] /\ s[5] = date[5]
    BY <1>4
  <2> QED
    BY <1>2, <2>1
<1>11. s[h] = w.hour /\ s[h + 1] = ":" /\ s[h + 2] = "04" /\ s[h + 3] = w.half /\ s[h + 4] = "M"
  <2>1. h - 1 + 1 = h /\ h - 1 + 2 = h + 1 /\ h - 1 + 3 = h + 2 /\ h - 1 + 4 = h + 3 /\ h - 1 + 5 = h + 4
    OBVIOUS
  <2>2. /\ s[h - 1 + 1] = time[1] /\ s[h - 1 + 2] = time[2] /\ s[h - 1 + 3] = time[3] /\ s[h - 1 + 4] = time[4]
        /\ s[h - 1 + 5] = time[5]
    BY <1>6
  <2> QED
    BY <1>2, <2>1, <2>2, Zenon
<1>12. s[z] = w.size
  <2>1. z - 1 + 1 = z
    OBVIOUS
  <2>2. s[z - 1 + 1] = size[1]
    BY <1>8
  <2> QED
    BY <1>3, <2>1, <2>2, Zenon
<1>13. \A q \in 6 .. h - 1 : s[q] = SP
  <2> TAKE q \in 6 .. h - 1
  <2> DEFINE i == q - 5
  <2>1. i \in 1 .. g /\ 5 + i = q
    OBVIOUS
  <2> HIDE DEF i
  <2>2. s[5 + i] = gap[i]
    BY <1>5, <2>1, Zenon
  <2>3. gap[i] = SP
    BY <1>1, <2>1
  <2> QED
    BY <2>1, <2>2, <2>3
<1>14. \A q \in h + 5 .. z - 1 : s[q] = SP
  <2> TAKE q \in h + 5 .. z - 1
  <2> DEFINE i == q - h - 4
  <2>1. i \in 1 .. g /\ h + 4 + i = q
    OBVIOUS
  <2> HIDE DEF i
  <2>2. s[h + 4 + i] = SP
    BY <1>1, <1>7, <2>1
  <2> QED
    BY <2>1, <2>2
<1>15. \A q \in z + 1 .. b - 1 : s[q] = SP
  <2> TAKE q \in z + 1 .. b - 1
  <2> DEFINE i == q - z
  <2>1. i \in 1 .. g /\ z + i = q
    OBVIOUS
  <2> HIDE DEF i
  <2>2. s[z + i] = gap[i]
    BY <1>9, <2>1, Zenon
  <2>3. gap[i] = SP
    BY <1>1, <2>1
  <2> QED
    BY <2>1, <2>2, <2>3
<1> QED
  BY <1>10, <1>11, <1>12, <1>13, <1>14, <1>15, Zenon DEF MsDosLayout

\* The layout of the beginning of a line.
LEMMA MsDosLayoutCut ==
    ASSUME NEW g \in Nat, NEW h \in Nat, h >= 1, NEW z \in Nat, z >= 1, NEW b \in Nat, b >= 1, NEW w, NEW line,
           MsDosLayout(g, h, z, b, w, line), NEW s, NEW n \in Nat, NEW l \in Nat, n <= l,
           Len(s) = n, Len(line) = l, \A q \in 1 .. n : s[q] = line[q]
    PROVE  MsDosLayout(g, h, z, b, w, s)
<1> DEFINE Same(q) == q <= Len(s) => q <= Len(line) /\ s[q] = line[q]
<1>1. \A q \in Nat : q >= 1 => Same(q)
  OBVIOUS
<1>2. Same(1) /\ Same(2) /\ Same(3) /\ Same(4) /\ Same(5)
  OBVIOUS
<1>3. Same(h) /\ Same(h + 1) /\ Same(h + 2) /\ Same(h + 3) /\ Same(h + 4) /\ Same(z) /\ Same(b)
  OBVIOUS
<1>4. \A q \in 6 .. h - 1 : Same(q)
  OBVIOUS
<1>5. \A q \in h + 5 .. z - 1 : Same(q)
  OBVIOUS
<1>6. \A q \in z + 1 .. b - 1 : Same(q)
  OBVIOUS
<1>7. /\ 1 <= Len(s) => s[1] = "04"
      /\ 2 <= Len(s) => s[2] = "-"
      /\ 3 <= Len(s) => s[3] = "27"
      /\ 4 <= Len(s) => s[4] = "-"
      /\ 5 <= Len(s) => s[5] = w.year
  BY <1>2, Zenon DEF MsDosLayout
<1>8. /\ h <= Len(s) => s[h] = w.hour
      /\ h + 1 <= Len(s) => s[h + 1] = ":"
      /\ h + 2 <= Len(s) => s[h + 2] = "04"
      /\ h + 3 <= Len(s) => s[h + 3] = w.half
      /\ h + 4 <= Len(s) => s[h + 4] = "M"
      /\ z <= Len(s) => s[z] = w.size
      /\ b <= Len(s) => s[b] # SP
  BY <1>3, Zenon DEF MsDosLayout
<1>9. \A q \in 6 .. h - 1 : q <= Len(s) => s[q] = SP
  BY <1>4, Zenon DEF MsDosLayout
<1>10. \A q \in h + 5 .. z - 1 : q <= Len(s) => s[q] = SP
  BY <1>5, Zenon DEF MsDosLayout
<1>11. \A q \in z + 1 .. b - 1 : q <= Len(s) => s[q] = SP
  BY <1>6, Zenon DEF MsDosLayout
<1> QED
  BY <1>7, <1>8, <1>9, <1>10, <1>11, Zenon DEF MsDosLayout

\* What the beginning of a line has of its last part.
LEMMA CutOfLast ==
    ASSUME NEW line, IsText(line), NEW l, l = Len(line), NEW a \in 1 .. l + 1, NEW t, SubSeq(line, a, l) = t,
           NEW n \in a - 1 .. l, NEW q, q = n - a + 1
    PROVE  SubSeq(SubSeq(line, 1, n), a, n) = SubSeq(t, 1, q) /\ q \in 0 .. Len(t)
<1>1. l \in Nat
  BY TextIs
<1>2. /\ n \in 0 .. Len(line) /\ a \in 1 .. n + 1 /\ n \in a - 1 .. n /\ a \in 1 .. Len(line) + 1
       /\ l \in a - 1 .. Len(line)
  BY <1>1
<1>3. 1 \in 1 .. l - a + 2 /\ q \in 1 - 1 .. l - a + 1 /\ a + 1 - 1 = a /\ a + q - 1 = n
  BY <1>1
<1>4. SubSeq(SubSeq(line, 1, n), a, n) = SubSeq(line, a, n)
  BY <1>2, BeginOfBegin
<1>5. /\ SubSeq(SubSeq(line, a, l), 1, q) = SubSeq(line, a + 1 - 1, a + q - 1)
      /\ Len(SubSeq(line, a, l)) = l - a + 1
  <2>1. /\ Len(SubSeq(line, a, l)) = l - a + 1
        /\ \A x \in 1 .. l - a + 2 : \A y \in x - 1 .. l - a + 1 :
              SubSeq(SubSeq(line, a, l), x, y) = SubSeq(line, a + x - 1, a + y - 1)
    <3> DEFINE u == SubSeq(line, a, l)
    <3>1. /\ Len(u) = l - a + 1
          /\ \A x \in 1 .. l - a + 2 : \A y \in x - 1 .. l - a + 1 :
                SubSeq(u, x, y) = SubSeq(line, a + x - 1, a + y - 1)
      <4>1. a \in 1 .. Len(line) + 1 /\ l \in a - 1 .. Len(line) /\ IsText(line)
        BY <1>2
      <4> QED
        BY <4>1, PartIs
    <3> QED
      BY <3>1, Zenon
  <2> QED
    BY <1>3, <2>1, Zenon
<1>6. q \in 0 .. l - a + 1
  BY <1>3
<1> QED
  BY <1>3, <1>4, <1>5, <1>6, Zenon

\* An MSDOS line is one line without a semicolon, and not empty.
LEMMA MsDosLineIsLine ==
    ASSUME NEW f \in MsDosFiles
    PROVE  /\ Free(LineOf(f), BreaksAndSemi) /\ Free(LineOf(f), Breaks)
           /\ Len(LineOf(f)) \in Nat /\ Len(LineOf(f)) >= 1
<1> DEFINE w == MsDosWordsOf(f)
<1>1. Free(f.name, BreaksAndSemi) /\ Free(f.gap, BreaksAndSemi)
  <2>1. f.name \in MsDosNames /\ f.gap \in Gaps
    BY SMT DEF MsDosFiles
  <2> QED
    BY <2>1, NamesAreLines, Zenon
<1>2. w \in MsDosWords
  BY MsDosWordsAre
<1>4. LineOf(f) = Join(MsDosHead(f.gap, w), f.name)
  BY MsDosLineIs
<1> HIDE DEF w
<1>3. Free(MsDosDate(w), BreaksAndSemi) /\ Free(MsDosTime(w), BreaksAndSemi) /\ Free(<<w.size>>, BreaksAndSemi)
  BY <1>2, MsDosPartsAre
<1>5. Free(MsDosHead(f.gap, w), BreaksAndSemi)
  BY <1>1, <1>3, FreeJoin, Zenon DEF MsDosHead
<1>6. Free(LineOf(f), BreaksAndSemi)
  BY <1>1, <1>4, <1>5, FreeJoin, Zenon
<1>7. Len(f.name) >= 1
  BY MsDosNameIs
<1>8. Len(LineOf(f)) \in Nat /\ Len(LineOf(f)) >= 1
  BY <1>1, <1>4, <1>5, <1>7, JoinNotEmpty
<1> QED
  BY <1>6, <1>8, NamesAreLines, Zenon

\* An MSDOS line, where its parts are.
MsDosLaid(f, g, h, z, b, k, w, line) ==
    /\ IsText(line) /\ Len(line) = b - 1 + k /\ SubSeq(line, b, b - 1 + k) = f.name
    /\ MsDosLayout(g, h, z, b, w, line)

\* An MSDOS line has this layout.
LEMMA MsDosLineLayout ==
    ASSUME NEW f \in MsDosFiles, NEW g \in Nat, TextOf(f.gap, g), NEW h \in Nat, h = 6 + g,
           NEW z \in Nat, z = h + 5 + g, NEW b \in Nat, b = z + 1 + g,
           NEW k \in Nat, TextOf(f.name, k), k >= 1, NEW w, w = MsDosWordsOf(f)
    PROVE  MsDosLaid(f, g, h, z, b, k, w, LineOf(f))
<1> DEFINE line == LineOf(f)
           head == MsDosHead(f.gap, w)
<1>1. w \in MsDosWords /\ f.gap \in Gaps /\ f.name[1] # SP
  BY MsDosWordsAre, MsDosNameIs
<1>2. line = Join(head, f.name)
  BY MsDosLineIs
<1>3. TextOf(head, b - 1) /\ MsDosHolds(f.gap, w, h, z, head)
  BY <1>1, MsDosHeadHolds
<1> HIDE DEF line, head
<1>4. /\ TextOf(line, b - 1 + k) /\ Holds(line, b - 1, f.name)
      /\ \A a, u : Holds(head, a, u) => Holds(line, a, u)
  BY <1>2, <1>3, Adds
<1>5. MsDosHolds(f.gap, w, h, z, line)
  BY <1>3, <1>4, Zenon DEF MsDosHolds
<1>6. line[b] # SP
  <2>1. line[b - 1 + 1] = f.name[1]
    BY <1>4 DEF Holds, TextOf
  <2>2. b - 1 + 1 = b
    OBVIOUS
  <2> QED
    BY <1>1, <2>1, <2>2
<1>7. MsDosLayout(g, h, z, b, w, line)
  BY <1>1, <1>5, <1>6, MsDosLayoutOf
<1>8. SubSeq(line, b, b - 1 + k) = f.name
  <2>1. GoesOn(line, b - 1, k, f.name)
    BY <1>2, <1>3, PartsOfJoin
  <2>2. b - 1 + 1 = b
    OBVIOUS
  <2> QED
    BY <2>1, <2>2, Zenon DEF GoesOn
<1>9. MsDosLaid(f, g, h, z, b, k, w, line)
  BY <1>4, <1>7, <1>8, Zenon DEF MsDosLaid, TextOf
<1> QED
  BY <1>9, Zenon DEF line

\* What an MSDOS line, or its beginning, is understood to say.
LEMMA MsDosUnderstood ==
    ASSUME NEW f \in MsDosFiles, NEW line, line = LineOf(f), NEW n \in 1 .. Len(line), NEW s, s = SubSeq(line, 1, n)
    PROVE  /\ FtpParse(s) = Null \/ \E q \in 0 .. Len(f.name) : FtpParse(s) = MsDosNamed(f, SubSeq(f.name, 1, q))
           /\ n = Len(line) => FtpParse(s) = MsDosNamed(f, f.name)
<1> DEFINE g == Len(f.gap)
           h == 6 + g
           z == h + 5 + g
           b == z + 1 + g
           k == Len(f.name)
           w == MsDosWordsOf(f)
           l == Len(line)
<1>1. TextOf(f.name, k) /\ k \in Nat /\ k >= 1 /\ f.gap \in Gaps
  BY MsDosNameIs DEF TextOf
<1>2. TextOf(f.gap, g) /\ g \in Nat /\ g >= 1
  <2>1. IsText(f.gap) /\ Len(f.gap) \in {1, 2}
    BY <1>1, GapIs
  <2> DEFINE gap == f.gap
  <2>2. IsText(gap) /\ Len(gap) \in {1, 2} /\ g = Len(gap)
    BY <2>1
  <2> HIDE DEF gap, g
  <2>3. TextOf(gap, g) /\ g \in Nat /\ g >= 1
    BY <2>2 DEF TextOf
  <2> QED
    BY <2>3 DEF gap, g
<1>3. w \in MsDosWords /\ w = MsDosWordsOf(f)
  BY MsDosWordsAre
<1> HIDE DEF g, k, w, l
<1>4. h = 6 + g /\ h \in Nat /\ h >= 1
  BY <1>2
<1> HIDE DEF h
<1>5. z = h + 5 + g /\ z \in Nat /\ z >= 1
  BY <1>2, <1>4
<1> HIDE DEF z
<1>6. b = z + 1 + g /\ b \in Nat /\ b >= 2
  BY <1>2, <1>5
<1> HIDE DEF b
<1>7. MsDosLaid(f, g, h, z, b, k, w, line)
  BY <1>1, <1>2, <1>3, <1>4, <1>5, <1>6, MsDosLineLayout
<1>8. IsText(line) /\ l = b - 1 + k /\ SubSeq(line, b, l) = f.name /\ MsDosLayout(g, h, z, b, w, line)
  BY <1>7, Zenon DEF MsDosLaid, l
<1>a. b \in Nat /\ b >= 2 /\ k \in Nat /\ k >= 1
  BY <1>1, <1>6
<1>b. l = b - 1 + k
  BY <1>8
<1>c. l \in Nat
  BY <1>a, <1>b
<1>d. n \in 1 .. l
  BY DEF l
<1>9. n \in Nat /\ n >= 1 /\ n <= l /\ n \in 0 .. l
  BY <1>c, <1>d
<1>10. IsText(s) /\ Len(s) = n /\ \A i \in 1 .. n : s[i] = line[i]
  BY <1>8, <1>9, BeginIs DEF l
<1>11. MsDosLayout(g, h, z, b, w, s)
  <2>1. g \in Nat /\ h \in Nat /\ h >= 1 /\ z \in Nat /\ z >= 1 /\ b \in Nat /\ b >= 1
    BY <1>a, <1>2, <1>4, <1>5
  <2>2. n \in Nat /\ l \in Nat /\ n <= l /\ Len(line) = l /\ Len(s) = n
    BY <1>c, <1>9, <1>10 DEF l
  <2>3. MsDosLayout(g, h, z, b, w, line) /\ \A q \in 1 .. n : s[q] = line[q]
    BY <1>8, <1>10
  <2> QED
    BY <2>1, <2>2, <2>3, MsDosLayoutCut
<1>12. s[1] = "04" /\ s[1] \in Digits /\ s[1] \notin TypeLetters /\ s[1] # "+"
  <2>1. s[1] = "04"
    BY <1>9, <1>10, <1>11 DEF MsDosLayout
  <2>2. "04" \in Digits
    <3>1. "04" \in DOMAIN Value
      BY ValuesAre, SMT
    <3> QED
      BY <3>1, Zenon DEF Digits
  <2>3. "04" \notin TypeLetters /\ "04" # "+"
    BY Zenon DEF TypeLetters, Perms, Types
  <2> QED
    BY <2>1, <2>2, <2>3, Zenon
<1>13. ~Contains(s, SEMI)
  <2>1. Free(line, BreaksAndSemi) /\ SEMI \in BreaksAndSemi
    BY MsDosLineIsLine, Zenon DEF BreaksAndSemi
  <2>2. \A i \in 1 .. l : line[i] # SEMI
    BY <2>1, Zenon DEF Free, l
  <2>3. \A i \in 1 .. n : s[i] # SEMI
    <3>1. \A i \in 1 .. n : i \in 1 .. l
      BY <1>c, <1>d
    <3>2. \A i \in 1 .. n : s[i] = line[i]
      BY <1>10
    <3> QED
      BY <2>2, <3>1, <3>2, Zenon
  <2> QED
    BY <1>10, <2>3, Zenon DEF Contains
<1>14. MsDos(s) = IF n < b THEN Null ELSE MsDosNamed(f, SubSeq(s, b, n))
  <2>1. 1 <= Len(s)
    BY <1>9, <1>10
  <2>2. MsDosSays(f, b, s)
    BY <1>2, <1>3, <1>4, <1>5, <1>6, <1>10, <1>11, <2>1, MsDosIs
  <2> QED
    BY <1>10, <2>2, Zenon DEF MsDosSays
<1>15. FtpParse(s) = IF n < 2 \/ n < b THEN Null ELSE MsDosNamed(f, SubSeq(s, b, n))
  <2>1. FtpParse(s) = IF n < 2 THEN Null ELSE Other(s)
    BY <1>10, <1>12, Zenon DEF FtpParse
  <2>2. Other(s) = MsDos(s)
    BY <1>12, <1>13, Zenon DEF Other
  <2> QED
    BY <1>14, <2>1, <2>2, Zenon
<1>16. ASSUME ~(n < b) PROVE SubSeq(s, b, n) = SubSeq(f.name, 1, n - b + 1) /\ n - b + 1 \in 0 .. k
  <2> DEFINE q == n - b + 1
  <2>1. b \in 1 .. l + 1 /\ n \in b - 1 .. l /\ q = n - b + 1
    BY <1>a, <1>b, <1>c, <1>d, <1>16
  <2>2. l = Len(line)
    BY DEF l
  <2> HIDE DEF q
  <2>3. SubSeq(SubSeq(line, 1, n), b, n) = SubSeq(f.name, 1, q) /\ q \in 0 .. Len(f.name)
    BY <1>8, <2>1, <2>2, CutOfLast
  <2> QED
    BY <2>1, <2>3 DEF k
<1>17. FtpParse(s) = Null \/ \E q \in 0 .. k : FtpParse(s) = MsDosNamed(f, SubSeq(f.name, 1, q))
  <2>1. CASE n < b
    BY <1>15, <2>1
  <2>2. CASE ~(n < b)
    <3> DEFINE q == n - b + 1
    <3>1. q \in 0 .. k /\ SubSeq(s, b, n) = SubSeq(f.name, 1, q)
      BY <1>16, <2>2
    <3> HIDE DEF q
    <3>2. CASE n < 2
      BY <1>15, <3>2
    <3>3. CASE ~(n < 2)
      BY <1>15, <2>2, <3>1, <3>3, Zenon
    <3> QED
      BY <3>2, <3>3
  <2> QED
    BY <2>1, <2>2
<1>18. n = l => FtpParse(s) = MsDosNamed(f, f.name)
  <2>1. HAVE n = l
  <2>2. ~(n < 2) /\ ~(n < b) /\ n - b + 1 = k
    BY <1>a, <1>b, <1>c, <1>d, <2>1
  <2>3. SubSeq(s, b, n) = SubSeq(f.name, 1, k) /\ SubSeq(f.name, 1, k) = f.name
    <3>1. IsText(f.name) /\ k = Len(f.name)
      BY <1>1 DEF TextOf
    <3>2. SubSeq(f.name, 1, Len(f.name)) = f.name
      BY <3>1, WholeIs
    <3> QED
      BY <1>16, <2>2, <3>1, <3>2
  <2> QED
    BY <1>15, <2>2, <2>3, Zenon
<1> QED
  BY <1>17, <1>18 DEF k, l

-----------------------------------------------------------------------------
(* The documented formats. *)

\* Words without these symbols have none of them with gaps between them.
LEMMA SpacedFree ==
    ASSUME NEW words, NEW n, TextOf(words, n), n >= 1, NEW X, Free(words, X), SP \notin X, NEW gap \in Gaps
    PROVE  Free(Spaced(words, gap), X)
<1> DEFINE w == Len(gap) + 1
           s == Spaced(words, gap)
           m == (n - 1) * w + 2
<1>0. n \in Nat /\ Len(words) = n
  BY DEF TextOf
<1>1. w \in {2, 3}
  BY GapIs
<1>2. s = [k \in 1 .. m |-> IF k % w = 1 THEN words[k \div w + 1] ELSE SP]
  BY <1>0, Zenon DEF Spaced
<1>3. IsText(s)
  <2>1. IsText(words) /\ words # <<>>
    BY <1>0 DEF TextOf
  <2> QED
    BY <2>1, SpacedIsText
<1> HIDE DEF w, s
<1>4. ASSUME NEW k \in 1 .. m, k % w = 1 PROVE k \div w + 1 \in 1 .. n
  <2>1. CASE w = 2
    BY <1>0, <1>4, <2>1
  <2>2. CASE w = 3
    BY <1>0, <1>4, <2>2
  <2> QED
    BY <1>1, <2>1, <2>2
<1> HIDE DEF m
<1>5. DOMAIN s = 1 .. m /\ \A k \in 1 .. m : s[k] = IF k % w = 1 THEN words[k \div w + 1] ELSE SP
  BY <1>2, Zenon
<1>6. \A i \in 1 .. n : words[i] \notin X
  BY <1>0, Zenon DEF Free
<1>7. \A k \in 1 .. m : s[k] \notin X
  BY <1>4, <1>5, <1>6, Zenon
<1>8. DOMAIN s = 1 .. Len(s)
  BY <1>3, TextIs
<1> QED
  BY <1>3, <1>5, <1>7, <1>8, Zenon DEF Free, s

\* A UNIX line is one line, of two symbols at least.
LEMMA UnixLineIsLine ==
    ASSUME NEW f \in UnixFiles
    PROVE  Free(LineOf(f), Breaks) /\ Len(LineOf(f)) >= 2
<1> DEFINE m == Len(f.owner)
           n == m + 5
           words == WordsOf(f)
           heads == Spaced(words, f.gap)
<1>1. m \in Nat /\ f.gap \in Gaps /\ f.name \in UnixNames
  BY OwnerIs, UnixFileIs
<1>2. TextOf(words, n) /\ \A i \in 1 .. n : words[i] \notin Breaks
  BY <1>1, WordsAre DEF Breaks
<1>3. n \in Nat /\ n >= 1
  BY <1>1
<1>4. LineOf(f) = Join(heads, RestOf(f))
  BY UnixLineIs
<1> HIDE DEF n, words
<1>5. Free(words, Breaks)
  BY <1>2, Zenon DEF Free, TextOf
<1>6. Free(heads, Breaks)
  BY <1>1, <1>2, <1>3, <1>5, NamesAreLines, SpacedFree
<1>7. Free(f.name, Breaks)
  BY <1>1, NamesAreLines, Zenon
<1>8. SP \notin Breaks /\ "->" \notin Breaks
  BY Words, NamesAreLines, Zenon DEF Breaks
<1>9. Free(f.link, Breaks)
  <2>1. f.link = <<>> \/ \E target \in Targets : f.link = Join(<<SP, "->", SP>>, target)
    BY UnixFileIs, Zenon DEF Join
  <2>2. Free(<<>>, Breaks) /\ Free(<<SP, "->", SP>>, Breaks)
    BY <1>8, ShortFree, Zenon
  <2>3. \A target \in Targets : Free(target, Breaks)
    BY NamesAreLines, Zenon
  <2> QED
    BY <2>1, <2>2, <2>3, FreeJoin, Zenon
<1>10. Free(Padding(f), Breaks)
  BY <1>8, ShortFree, Zenon DEF Padding
<1>11. Shown(f) = Join(f.name, f.link)
  BY ShownIs
<1>12. Free(RestOf(f), Breaks)
  BY <1>7, <1>9, <1>10, <1>11, FreeJoin, Zenon DEF RestOf
<1>13. Free(LineOf(f), Breaks)
  BY <1>4, <1>6, <1>12, FreeJoin, Zenon
<1>14. Len(LineOf(f)) >= 2
  <2> DEFINE w == Len(f.gap) + 1
             p == Place(n, w)
             r == Len(RestOf(f))
  <2>1. SpacedAt(words, n, w, p, heads)
    BY <1>1, <1>2, <1>3, SpacedIs
  <2>2. p \in Nat /\ TextOf(heads, p + 1) /\ w \in {2, 3}
    BY <2>1, Zenon DEF SpacedAt
  <2>3. TextOf(RestOf(f), r) /\ r >= 1
    <3>1. IsText(RestOf(f)) /\ IsText(Padding(f)) /\ IsText(Shown(f)) /\ TextOf(f.name, Len(f.name))
          /\ Len(f.name) >= 1 /\ TextOf(f.link, Len(f.link))
      BY <1>10, ShownIs, Zenon DEF Free
    <3>2. TextOf(Shown(f), Len(f.name) + Len(f.link))
      BY <1>11, <3>1, JoinIs
    <3>3. TextOf(Padding(f), Len(Padding(f))) /\ Len(Padding(f)) \in Nat
      BY <3>1, TextIs DEF TextOf
    <3>4. TextOf(RestOf(f), Len(Padding(f)) + (Len(f.name) + Len(f.link)))
      BY <3>2, <3>3, JoinIs DEF RestOf
    <3>5. Len(f.name) \in Nat /\ Len(f.link) \in Nat
      BY <3>1 DEF TextOf
    <3>6. r = Len(Padding(f)) + (Len(f.name) + Len(f.link))
      BY <3>4 DEF TextOf
    <3> DEFINE x == Len(Padding(f))
               y == Len(f.name)
               z == Len(f.link)
    <3>7. x \in Nat /\ y \in Nat /\ z \in Nat /\ y >= 1 /\ r = x + (y + z)
      BY <3>1, <3>3, <3>5, <3>6
    <3> HIDE DEF x, y, z, r
    <3>8. r \in Nat /\ r >= 1
      BY <3>7
    <3> QED
      BY <3>1, <3>8 DEF TextOf, r
  <2> HIDE DEF p, r, w, heads
  <2>4. TextOf(LineOf(f), p + 1 + r)
    BY <1>4, <2>2, <2>3, JoinIs
  <2>5. r \in Nat
    BY <2>3 DEF TextOf
  <2>6. p + 1 + r >= 2
    BY <2>2, <2>3, <2>5
  <2> QED
    BY <2>4, <2>6 DEF TextOf
<1> QED
  BY <1>13, <1>14

\* What a UNIX line, or its beginning, is understood to say.
LEMMA UnixParsed ==
    ASSUME NEW f \in UnixFiles, NEW line, line = LineOf(f), NEW n \in 1 .. Len(line), NEW s, s = SubSeq(line, 1, n)
    PROVE  /\ \/ FtpParse(s) = Null
              \/ \E name : /\ FtpParse(s) = UnixNamed(f, name)
                           /\ IsPrefix(name, Shown(f)) \/ IsPrefix(name, RestOf(f))
           /\ n = Len(line) => FtpParse(s) = UnixNamed(f, f.name)
<1> DEFINE rest == RestOf(f)
           Cut(k) == NameRead(f.type, SubSeq(rest, 1, k))
<1>1. /\ s[1] = f.type
      /\ Unix(s) = Null \/ \E k \in 0 .. Len(rest) : Unix(s) = UnixNamed(f, Cut(k))
      /\ n = Len(line) => Unix(s) = UnixNamed(f, NameRead(f.type, rest))
  <2>1. UnixIsRead(f, rest, s) /\ (n = Len(line) => Unix(s) = UnixNamed(f, NameRead(f.type, rest)))
    BY UnixUnderstood
  <2> QED
    BY <2>1, Zenon DEF UnixIsRead
<1>2. \A k \in 0 .. Len(rest) : IsPrefix(Cut(k), Shown(f)) \/ IsPrefix(Cut(k), rest)
  BY NameCut
<1>3. NameRead(f.type, rest) = f.name
  BY NameWhole
<1>4. Len(s) = n /\ n \in Nat /\ Len(line) >= 2 /\ Len(line) \in Nat
  <2>1. IsText(line) /\ Len(line) >= 2
    BY UnixLineIsLine DEF Free
  <2>2. Len(line) \in Nat
    BY <2>1, TextIs
  <2>3. n \in 0 .. Len(line) /\ n \in Nat
    BY <2>2
  <2> QED
    BY <2>1, <2>2, <2>3, BeginIs
<1>5. FtpParse(s) = IF n < 2 THEN Null ELSE Unix(s)
  <2>1. f.type \in TypeLetters /\ f.type # "+"
    <3>1. f.type \in {"dperm", "-perm", "lperm", "d", "-"}
      BY UnixFileIs
    <3> QED
      BY <3>1, Zenon DEF TypeLetters, Perms, Types
  <2> QED
    BY <1>1, <1>4, <2>1, Zenon DEF FtpParse
<1> HIDE DEF rest, Cut
<1>6. \/ FtpParse(s) = Null
      \/ \E name : /\ FtpParse(s) = UnixNamed(f, name)
                   /\ IsPrefix(name, Shown(f)) \/ IsPrefix(name, rest)
  BY <1>1, <1>2, <1>5, Zenon
<1>7. n = Len(line) => ~(n < 2)
  BY <1>4
<1>8. n = Len(line) => FtpParse(s) = UnixNamed(f, f.name)
  BY <1>1, <1>3, <1>5, <1>7, Zenon
<1> QED
  BY <1>6, <1>8, Zenon DEF rest

\* What is to be read from the line of a file, or from one that is cut short.
Says(f, cut, e) ==
    IF ~cut THEN e = EntryOf(f)
    ELSE \/ e = Null
         \/ /\ e = [EntryOf(f) EXCEPT !.name = e.name]
            /\ IsPrefix(e.name, Shown(f)) \/ IsPrefix(e.name, Padding(f) \o Shown(f))

\* The beginning of a text is a prefix of it, and so is the text.
LEMMA PrefixesOf ==
    ASSUME NEW s, NEW k, TextOf(s, k), k >= 1
    PROVE  IsPrefix(s, s) /\ IsPrefix(Front(s), s)
<1>1. IsText(s) /\ k \in Nat /\ Len(s) = k
  BY DEF TextOf
<1>2. \A j \in 0 .. Len(s) : IsPrefix(SubSeq(s, 1, j), s)
  BY <1>1, BeginIsPrefix
<1>3. SubSeq(s, 1, Len(s)) = s
  BY <1>1, WholeIs
<1>4. Len(s) \in 0 .. Len(s) /\ Len(s) - 1 \in 0 .. Len(s)
  BY <1>1
<1>5. Front(s) = SubSeq(s, 1, Len(s) - 1)
  BY Zenon DEF Front
<1> QED
  BY <1>2, <1>3, <1>4, <1>5, Zenon

\* A line of a UNIX file, and every beginning of it, says what it is to say.
LEMMA UnixSaid ==
    ASSUME NEW f \in UnixFiles, NEW n \in 1 .. Len(LineOf(f)), NEW s, s = SubSeq(LineOf(f), 1, n)
    PROVE  Says(f, TRUE, FtpParse(s)) /\ (n = Len(LineOf(f)) => Says(f, FALSE, FtpParse(s)))
<1>1. EntryOf(f) = UnixEntry(f)
  BY UnixFileIs, Zenon DEF EntryOf
<1>2. /\ \/ FtpParse(s) = Null
         \/ \E name : /\ FtpParse(s) = UnixNamed(f, name)
                      /\ IsPrefix(name, Shown(f)) \/ IsPrefix(name, RestOf(f))
      /\ n = Len(LineOf(f)) => FtpParse(s) = UnixNamed(f, f.name)
  BY UnixParsed
<1>3. /\ UnixNamed(f, f.name) = UnixEntry(f) /\ RestOf(f) = Padding(f) \o Shown(f)
      /\ \A name : UnixNamed(f, name).name = name /\ UnixNamed(f, name) = [UnixEntry(f) EXCEPT !.name = name]
  BY UnixEntryIs, Zenon DEF RestOf, Join, UnixNamed
<1> QED
  BY <1>1, <1>2, <1>3, Zenon DEF Says

\* So does one of an MSDOS file.
LEMMA MsDosSaid ==
    ASSUME NEW f \in MsDosFiles, NEW n \in 1 .. Len(LineOf(f)), NEW s, s = SubSeq(LineOf(f), 1, n)
    PROVE  Says(f, TRUE, FtpParse(s)) /\ (n = Len(LineOf(f)) => Says(f, FALSE, FtpParse(s)))
<1>1. EntryOf(f) = MsDosEntry(f) /\ Shown(f) = f.name /\ IsText(f.name)
  <2>1. f.format = "msdos" /\ IsText(f.name)
    BY MsDosNameIs
  <2>2. "msdos" # "unix" /\ "msdos" # "vms"
    OBVIOUS
  <2> QED
    BY <2>1, <2>2, Zenon DEF EntryOf, Shown
<1>2. /\ FtpParse(s) = Null \/ \E q \in 0 .. Len(f.name) : FtpParse(s) = MsDosNamed(f, SubSeq(f.name, 1, q))
      /\ n = Len(LineOf(f)) => FtpParse(s) = MsDosNamed(f, f.name)
  BY MsDosUnderstood
<1>3. /\ MsDosNamed(f, f.name) = MsDosEntry(f)
      /\ \A name : MsDosNamed(f, name).name = name /\ MsDosNamed(f, name) = [MsDosEntry(f) EXCEPT !.name = name]
  BY MsDosNamedIs, Zenon DEF MsDosNamed
<1>4. \A q \in 0 .. Len(f.name) : IsPrefix(SubSeq(f.name, 1, q), Shown(f))
  BY <1>1, BeginIsPrefix
<1> QED
  BY <1>1, <1>2, <1>3, <1>4, Zenon DEF Says

\* So does one of a VMS file.
LEMMA VmsSaid ==
    ASSUME NEW f \in VmsFiles, NEW n \in 1 .. Len(LineOf(f)), NEW s, s = SubSeq(LineOf(f), 1, n)
    PROVE  Says(f, TRUE, FtpParse(s)) /\ (n = Len(LineOf(f)) => Says(f, FALSE, FtpParse(s)))
<1>1. EntryOf(f) = VmsEntry(f) /\ Shown(f) = f.name /\ TextOf(f.name, Len(f.name)) /\ Len(f.name) >= 1
  <2>1. f.format = "vms" /\ TextOf(f.name, Len(f.name)) /\ Len(f.name) >= 1
    BY VmsNameIs DEF TextOf
  <2>2. "vms" # "unix" /\ "vms" # "msdos"
    OBVIOUS
  <2> QED
    BY <2>1, <2>2, Zenon DEF EntryOf, Shown
<1>2. /\ FtpParse(s) = Null \/ FtpParse(s) = VmsEntry(f)
      /\ n = Len(LineOf(f)) => FtpParse(s) = VmsEntry(f)
  BY VmsUnderstood
<1> DEFINE dir == f.dir \/ (Len(f.name) > 1 /\ Last(f.name) = ".DIR")
           name == IF dir /\ ~f.dir THEN Front(f.name) ELSE f.name
           when == <<"minute", 1999, "Jan", 27, 12, 9>>
<1>3. VmsEntry(f) = EntryWith(name, dir, ~dir, NoSize, when)
  BY EntryIs, Zenon DEF VmsEntry, NoSize
<1>4. IsPrefix(name, Shown(f))
  BY <1>1, PrefixesOf, Zenon
<1> HIDE DEF name, dir, when
<1>5. /\ VmsEntry(f).name = name
      /\ [VmsEntry(f) EXCEPT !.name = name] = VmsEntry(f)
  <2>1. \A a, c, d, x, e, o : [EntryWith(a, c, d, x, e) EXCEPT !.name = o] = EntryWith(o, c, d, x, e)
    BY EntryIs
  <2>2. \A a, c, d, x, e : EntryWith(a, c, d, x, e).name = a
    BY EntryIs
  <2>3. [EntryWith(name, dir, ~dir, NoSize, when) EXCEPT !.name = name] = EntryWith(name, dir, ~dir, NoSize, when)
    BY <2>1
  <2> DEFINE e == EntryWith(name, dir, ~dir, NoSize, when)
  <2>4. e.name = name /\ [e EXCEPT !.name = name] = e /\ VmsEntry(f) = e
    BY <1>3, <2>2, <2>3
  <2> HIDE DEF e
  <2> QED
    BY <2>4
<1> QED
  BY <1>1, <1>2, <1>4, <1>5, Zenon DEF Says

\* Every line of a file, and every beginning of it, says what it is to say.
LEMMA LineSaid ==
    ASSUME NEW f \in Files
    PROVE  /\ Free(LineOf(f), Breaks)
           /\ \A n \in 1 .. Len(LineOf(f)) : Says(f, TRUE, FtpParse(SubSeq(LineOf(f), 1, n)))
           /\ Len(LineOf(f)) >= 1 => Says(f, FALSE, FtpParse(LineOf(f)))
<1>1. f \in UnixFiles \/ f \in VmsFiles \/ f \in MsDosFiles
  BY DEF Files
<1>2. Free(LineOf(f), Breaks)
  BY <1>1, UnixLineIsLine, VmsLineIsLine, MsDosLineIsLine
<1>3. IsText(LineOf(f)) /\ Len(LineOf(f)) \in Nat /\ SubSeq(LineOf(f), 1, Len(LineOf(f))) = LineOf(f)
  BY <1>2, TextIs, WholeIs DEF Free
<1>4. \A n \in 1 .. Len(LineOf(f)) : Says(f, TRUE, FtpParse(SubSeq(LineOf(f), 1, n)))
  BY <1>1, UnixSaid, VmsSaid, MsDosSaid
<1>5. ASSUME Len(LineOf(f)) >= 1 PROVE Says(f, FALSE, FtpParse(LineOf(f)))
  <2>1. Len(LineOf(f)) \in 1 .. Len(LineOf(f))
    BY <1>3, <1>5
  <2>2. Says(f, FALSE, FtpParse(SubSeq(LineOf(f), 1, Len(LineOf(f)))))
    BY <1>1, <2>1, UnixSaid, VmsSaid, MsDosSaid
  <2> QED
    BY <1>3, <2>2
<1> QED
  BY <1>2, <1>4, <1>5

\* A text of two lines, the first of h symbols, the second from q + 1 to z, and of line ends.
LineEndIn(s, i, j) ==
    \/ j = i + 1 /\ s[j] \in Breaks
    \/ j = i + 2 /\ s[i + 1] = CR /\ s[j] = LF
TwoLines(s, n, h, q, z, line) ==
    /\ TextOf(s, n) /\ h \in Nat /\ q \in Nat /\ z \in Nat /\ h >= 1 /\ q < z
    /\ \A j \in 1 .. h : s[j] \notin Breaks
    /\ LineEndIn(s, h, q)
    /\ \A j \in q + 1 .. z : s[j] \notin Breaks
    /\ n = z \/ LineEndIn(s, z, n)
    /\ SubSeq(s, q + 1, z) = line

\* The second line starts after the end of the first, and has the number 2.
LEMMA SecondLine ==
    ASSUME NEW s, NEW n, NEW h, NEW q, NEW z, NEW line, TwoLines(s, n, h, q, z, line)
    PROVE  /\ q + 1 \in StartsOf(s) /\ NumberIn(StartsOf(s), q + 1) = 2 /\ LineAt(s, q + 1) = line
<1>1. /\ Len(s) = n /\ DOMAIN s = 1 .. n /\ n \in Nat /\ h \in Nat /\ q \in Nat /\ z \in Nat
      /\ h >= 1 /\ q < z
  BY TextIs, Zenon DEF TwoLines, TextOf
<1>2. LF \in Breaks /\ CR \in Breaks /\ LF # CR
  BY Zenon DEF Breaks, LF, CR
<1>3. q = h + 1 \/ (q = h + 2 /\ s[h + 1] = CR /\ s[h + 2] = LF)
  BY DEF TwoLines, LineEndIn
<1>4. n = z \/ (n = z + 1 /\ s[z + 1] \in Breaks) \/ (n = z + 2 /\ s[z + 1] = CR /\ s[z + 2] = LF)
  BY DEF TwoLines, LineEndIn
<1>5. s[q] \in Breaks
  BY <1>2, Zenon DEF TwoLines, LineEndIn
<1>6. (\A j \in 1 .. h : s[j] \notin Breaks) /\ (\A j \in q + 1 .. z : s[j] \notin Breaks) /\ SubSeq(s, q + 1, z) = line
  BY Zenon DEF TwoLines
<1>7. \A j : j \in EndsOf(s) <=> j \in 1 .. n /\ (s[j] = LF \/ (s[j] = CR /\ ~(j < n /\ s[j + 1] = LF)))
  BY <1>1, Zenon DEF EndsOf
<1>8. \A x : x \in Breaks => x = LF \/ x = CR
  BY Zenon DEF Breaks
<1>9. q \in EndsOf(s)
  <2>1. q \in 1 .. n /\ q + 1 \in q + 1 .. z
    BY <1>1, <1>3, <1>4
  <2>2. s[q + 1] # LF
    BY <1>2, <1>6, <2>1, Zenon
  <2> QED
    BY <1>5, <1>7, <1>8, <2>1, <2>2, Zenon
<1>10. ASSUME NEW j \in EndsOf(s), j <= z PROVE j = q
  <2>1. j \in 1 .. n /\ s[j] \in Breaks
    BY <1>2, <1>7, Zenon
  <2>2. j \notin 1 .. h /\ j \notin q + 1 .. z
    BY <1>6, <2>1, Zenon
  <2>3. j \in h + 1 .. q
    BY <1>1, <1>10, <2>1, <2>2
  <2>4. q = h + 2 => j # h + 1
    <3>1. q = h + 2 => h + 1 < n /\ s[h + 1] = CR /\ s[(h + 1) + 1] = LF
      BY <1>1, <1>3, <1>4
    <3> QED
      BY <1>2, <1>7, <3>1, Zenon
  <2> QED
    BY <1>1, <1>3, <2>3, <2>4
<1>11. \A p : p \in StartsOf(s) <=> p # n + 1 /\ (p = 1 \/ \E j \in EndsOf(s) : p = j + 1)
  BY <1>1, Zenon DEF StartsOf
<1>12. q + 1 \in StartsOf(s) /\ 1 \in StartsOf(s)
  <2>1. q + 1 # n + 1 /\ 1 # n + 1
    BY <1>1, <1>4
  <2> QED
    BY <1>9, <1>11, <2>1, Zenon
<1>13. NumberIn(StartsOf(s), q + 1) = 2
  <2> DEFINE T == {p \in StartsOf(s) : p <= q + 1}
  <2>1. ASSUME NEW p \in StartsOf(s), p <= q + 1 PROVE p = 1 \/ p = q + 1
    <3>1. CASE p = 1
      BY <3>1
    <3>2. CASE \E j \in EndsOf(s) : p = j + 1
      <4>1. PICK j \in EndsOf(s) : p = j + 1
        BY <3>2
      <4>2. j \in 1 .. n
        BY <1>7, Zenon
      <4>3. j <= z
        BY <1>1, <2>1, <4>1, <4>2
      <4>4. j = q
        BY <1>10, <4>3
      <4> QED
        BY <4>1, <4>4
    <3> QED
      BY <1>11, <3>1, <3>2, Zenon
  <2>2. 1 <= q + 1 /\ q + 1 <= q + 1 /\ 1 # q + 1
    BY <1>1, <1>3
  <2>3. T = {1, q + 1}
    BY <1>12, <2>1, <2>2
  <2>4. Cardinality({1, q + 1}) = 2
    <3>1. IsFiniteSet({1}) /\ Cardinality({1}) = 1
      BY FS_Singleton
    <3>2. q + 1 \notin {1}
      BY <2>2
    <3>3. Cardinality({1} \cup {q + 1}) = 1 + 1
      BY <3>1, <3>2, FS_AddElement
    <3>4. {1} \cup {q + 1} = {1, q + 1}
      OBVIOUS
    <3> QED
      BY <3>3, <3>4
  <2> QED
    BY <2>3, <2>4 DEF NumberIn
<1>14. LineAt(s, q + 1) = line
  <2> DEFINE p == q + 1
             U == {j \in EndsOf(s) : j >= p} \cup {n + 1}
             E == Min(U)
  <2>1. LineAt(s, p) = SubSeq(s, p, IF p < E /\ s[E - 1] = CR THEN E - 2 ELSE E - 1)
    BY <1>1, Zenon DEF LineAt
  <2>2. p \in Nat /\ p <= z
    BY <1>1
  <2>3. \A j \in EndsOf(s) : j \in 1 .. n /\ (j >= p => j > z)
    <3>1. \A j \in EndsOf(s) : j \in 1 .. n
      BY <1>7, Zenon
    <3>2. \A j \in EndsOf(s) : j <= z => j = q
      BY <1>10
    <3> QED
      BY <1>1, <3>1, <3>2
  <2>4. U \in SUBSET Nat
    BY <1>1, <2>3
  <2> HIDE DEF E, p
  <2>5. CASE n = z + 2
    <3>1. z + 1 \notin EndsOf(s) /\ z + 2 \in EndsOf(s)
      <4>1. z + 1 < n /\ s[z + 1] = CR /\ s[(z + 1) + 1] = LF /\ z + 2 \in 1 .. n /\ s[z + 2] = LF
        BY <1>1, <1>4, <2>5
      <4> QED
        BY <1>2, <1>7, <4>1, Zenon
    <3>2. z + 2 \in U
      BY <1>1, <2>2, <3>1
    <3>3. \A j \in U : z + 2 <= j
      BY <1>1, <2>3, <2>5, <3>1
    <3> HIDE DEF U
    <3>4. E = z + 2
      BY <2>4, <3>2, <3>3, LeastOf DEF E
    <3>5. p < E /\ s[E - 1] = CR /\ E - 2 = z
      BY <1>1, <1>4, <2>2, <2>5, <3>4
    <3> QED
      BY <1>6, <2>1, <3>5, Zenon DEF p
  <2>6. CASE n # z + 2
    <3>1. z + 1 \in U
      <4>1. CASE n = z
        BY <4>1
      <4>2. CASE n = z + 1 /\ s[z + 1] \in Breaks
        <5>1. z + 1 \in 1 .. n /\ ~(z + 1 < n)
          BY <1>1, <4>2
        <5>2. z + 1 \in EndsOf(s)
          BY <1>7, <1>8, <4>2, <5>1, Zenon
        <5> QED
          BY <1>1, <2>2, <5>2
      <4> QED
        BY <1>4, <2>6, <4>1, <4>2
    <3>2. \A j \in U : z + 1 <= j
      BY <1>1, <1>4, <2>3, <2>6
    <3> HIDE DEF U
    <3>3. E = z + 1
      BY <2>4, <3>1, <3>2, LeastOf DEF E
    <3>4. E - 1 = z /\ s[z] # CR
      <4>1. z \in q + 1 .. z /\ (z + 1) - 1 = z
        BY <1>1
      <4> QED
        BY <1>2, <1>6, <3>3, <4>1, Zenon
    <3> QED
      BY <1>6, <2>1, <3>4, Zenon DEF p
  <2> QED
    BY <2>5, <2>6 DEF p
<1> QED
  BY <1>12, <1>13, <1>14

\* A line end, where it is.
LEMMA EndIsThere ==
    ASSUME NEW e \in Ends, NEW s, NEW h \in Nat, Holds(s, h, e)
    PROVE  TextOf(e, Len(e)) /\ LineEndIn(s, h, h + Len(e))
<1>1. e = <<LF>> \/ e = <<CR, LF>> \/ e = <<CR>>
  BY Zenon DEF Ends
<1>2. IsText(e)
  BY <1>1, ShortTexts, Zenon
<1>3. TextOf(e, Len(e))
  BY <1>2, TextIs, Zenon DEF TextOf
<1>4. LF \in Breaks /\ CR \in Breaks
  BY Zenon DEF Breaks
<1>5. \A i \in 1 .. Len(e) : s[h + i] = e[i]
  BY Zenon DEF Holds
<1>6. \A a, c : /\ Len(<<a>>) = 1 /\ <<a>>[1] = a
               /\ Len(<<a, c>>) = 2 /\ <<a, c>>[1] = a /\ <<a, c>>[2] = c
  OBVIOUS
<1>7. CASE e = <<CR, LF>>
  <2>1. Len(e) = 2 /\ e[1] = CR /\ e[2] = LF
    BY <1>6, <1>7, Zenon
  <2>2. s[h + 1] = CR /\ s[h + 2] = LF
    BY <1>5, <2>1
  <2> QED
    BY <1>3, <2>1, <2>2, Zenon DEF LineEndIn
<1>8. CASE e = <<LF>> \/ e = <<CR>>
  <2>1. Len(e) = 1 /\ e[1] \in Breaks
    BY <1>4, <1>6, <1>8, Zenon
  <2>2. s[h + 1] \in Breaks
    BY <1>5, <2>1
  <2> QED
    BY <1>3, <2>1, <2>2, Zenon DEF LineEndIn
<1> QED
  BY <1>1, <1>7, <1>8

\* A body of a head and a line, where the line is.
LEMMA BodyOfTwo ==
    ASSUME NEW e \in Ends, NEW line, NEW k, TextOf(line, k), k >= 1, Free(line, Breaks), NEW l \in Ends \cup {<<>>}
    PROVE  \E n, h, q, z : TwoLines(Join(Join(Join(Total, e), line), l), n, h, q, z, line)
<1> DEFINE h == 3
           a == Join(Total, e)
           c == Join(a, line)
           s == Join(c, l)
           m == Len(e)
           q == h + m
           z == q + k
           r == Len(l)
           n == z + r
<1>1. TextOf(Total, 3) /\ Free(Total, Breaks)
  <2>1. "total" \notin Breaks /\ "531" \notin Breaks /\ SP \notin Breaks
    BY Words, NamesAreLines, Zenon DEF Breaks
  <2>2. Free(Total, Breaks)
    BY <2>1, ShortFree, Zenon DEF Total
  <2>3. Len(Total) = 3
    BY DEF Total
  <2> QED
    BY <2>2, <2>3 DEF TextOf, Free
<1>2. TextOf(e, m) /\ m \in Nat
  <2>1. IsText(e)
    BY ShortTexts, Zenon DEF Ends
  <2> QED
    BY <2>1, TextIs, Zenon DEF TextOf
<1>3. TextOf(l, r) /\ r \in Nat /\ (l = <<>> => r = 0)
  <2>1. IsText(l)
    BY ShortTexts, Zenon DEF Ends
  <2>2. TextOf(l, r)
    BY <2>1, TextIs, Zenon DEF TextOf
  <2> QED
    BY <2>2 DEF TextOf
<1>4. k \in Nat
  BY DEF TextOf
<1>5. h \in Nat /\ h >= 1 /\ h = 3
  OBVIOUS
<1>a. q = h + m /\ z = q + k /\ n = z + r
  OBVIOUS
<1> HIDE DEF h, m, r, q, z, n
<1>6. q \in Nat /\ z \in Nat /\ n \in Nat /\ q < z
  BY <1>2, <1>3, <1>4, <1>5, <1>a
<1>7. TextOf(a, q) /\ Holds(a, 0, Total) /\ Holds(a, h, e)
  <2>1. TextOf(a, 3 + m) /\ Holds(a, 0, Total) /\ Holds(a, 3, e)
    BY <1>1, <1>2, JoinIs
  <2> QED
    BY <1>5, <1>a, <2>1
<1> HIDE DEF a
<1>8. TextOf(c, z) /\ Holds(c, q, line) /\ \A x, u : Holds(a, x, u) => Holds(c, x, u)
  BY <1>7, <1>a, Adds
<1>9. SubSeq(c, q + 1, z) = line
  <2>1. GoesOn(c, q, k, line)
    BY <1>7, PartsOfJoin
  <2> QED
    BY <1>a, <2>1, Zenon DEF GoesOn
<1> HIDE DEF c
<1>10. TextOf(s, n) /\ Holds(s, z, l) /\ \A x, u : Holds(c, x, u) => Holds(s, x, u)
  BY <1>3, <1>8, <1>a, Adds
<1>11. SubSeq(s, q + 1, z) = line
  <2>1. StartsWith(s, z, c)
    BY <1>3, <1>8, PartsOfJoin
  <2>2. SubSeq(s, 1, z) = c
    BY <2>1, Zenon DEF StartsWith
  <2>3. IsText(s) /\ Len(s) = n
    BY <1>10, Zenon DEF TextOf
  <2>4. z \in 0 .. n /\ q + 1 \in 1 .. z + 1 /\ z \in (q + 1) - 1 .. z
    BY <1>3, <1>6, <1>a
  <2> HIDE DEF s
  <2>5. SubSeq(SubSeq(s, 1, z), q + 1, z) = SubSeq(s, q + 1, z)
    BY <2>3, <2>4, BeginOfBegin
  <2> QED
    BY <1>9, <2>2, <2>5
<1> HIDE DEF s
<1>12. Holds(s, 0, Total) /\ Holds(s, h, e) /\ Holds(s, q, line) /\ Holds(s, z, l)
  BY <1>7, <1>8, <1>10, Zenon
<1>13. \A j \in 1 .. h : s[j] \notin Breaks
  <2>1. \A i \in 1 .. Len(Total) : s[0 + i] = Total[i] /\ Total[i] \notin Breaks
    BY <1>1, <1>12, Zenon DEF Holds, Free
  <2>2. Len(Total) = 3
    BY <1>1, Zenon DEF TextOf
  <2>3. \A i \in 1 .. h : i \in 1 .. Len(Total) /\ 0 + i = i
    BY <1>5, <2>2
  <2> QED
    BY <2>1, <2>3, Zenon
<1>14. LineEndIn(s, h, q)
  BY <1>5, <1>12, <1>a, EndIsThere DEF m
<1>15. \A j \in q + 1 .. z : s[j] \notin Breaks
  <2>1. \A i \in 1 .. k : s[q + i] = line[i] /\ line[i] \notin Breaks
    BY <1>12, Zenon DEF Holds, Free, TextOf
  <2> TAKE j \in q + 1 .. z
  <2> DEFINE i == j - q
  <2>2. i \in 1 .. k /\ q + i = j
    BY <1>4, <1>6, <1>a
  <2> HIDE DEF i
  <2> QED
    BY <2>1, <2>2
<1>16. n = z \/ LineEndIn(s, z, n)
  <2>1. CASE l = <<>>
    BY <1>3, <1>6, <1>a, <2>1
  <2>2. CASE l \in Ends
    <3>1. LineEndIn(s, z, z + Len(l))
      BY <1>6, <1>12, <2>2, EndIsThere
    <3> QED
      BY <1>a, <3>1 DEF r
  <2> QED
    BY <2>1, <2>2
<1>17. TwoLines(s, n, h, q, z, line)
  BY <1>5, <1>6, <1>10, <1>11, <1>13, <1>14, <1>15, <1>16, Zenon DEF TwoLines
<1>18. \E n1, h1, q1, z1 : TwoLines(s, n1, h1, q1, z1, line)
  BY <1>17, Zenon
<1> QED
  BY <1>18, Zenon DEF s, c, a

\* The second line of a body of two.
LEMMA TwoAreRead ==
    ASSUME IInv, pc = "done", ~input.mlsd, NEW e \in Ends, NEW line, NEW k, TextOf(line, k), k >= 1,
           Free(line, Breaks), NEW l \in Ends \cup {<<>>}, body = Join(Join(Join(Total, e), line), l)
    PROVE  elements[2] = Stored(FtpParse(line))
<1>1. PICK n, h, q, z : TwoLines(body, n, h, q, z, line)
  BY BodyOfTwo
<1>2. q + 1 \in StartsOf(body) /\ NumberIn(StartsOf(body), q + 1) = 2 /\ LineAt(body, q + 1) = line
  BY <1>1, SecondLine
<1>3. Kept(input) = StartsOf(body) /\ elements[NumberIn(Kept(input), q + 1)] = Element(input, LineAt(body, q + 1))
  BY <1>2, AtTheEnd, Zenon
<1> QED
  BY <1>2, <1>3, Zenon DEF Element

\* What a listing of a file is made of: the line of the file, or the beginning of it.
FileBody(i, f, cut, line, e, l) ==
    /\ i.mlsd = FALSE /\ i.file[1] = f /\ i.cut = cut
    /\ Free(line, Breaks) /\ Len(line) >= 1 /\ Says(f, cut, FtpParse(line))
    /\ i.body = Join(Join(Join(Total, e), line), l)

\* The line of a file is not empty.
LEMMA LinesNotEmpty ==
    ASSUME NEW f \in Files
    PROVE  Len(LineOf(f)) \in Nat /\ Len(LineOf(f)) >= 1
<1>1. f \in UnixFiles \/ f \in VmsFiles \/ f \in MsDosFiles
  BY DEF Files
<1>2. IsText(LineOf(f))
  BY LineSaid, Zenon DEF Free
<1>3. Len(LineOf(f)) \in Nat
  BY <1>2, TextIs
<1>4. CASE f \in UnixFiles
  BY <1>3, <1>4, UnixLineIsLine
<1>5. CASE f \in VmsFiles
  BY <1>3, <1>5, VmsLineIsLine
<1>6. CASE f \in MsDosFiles
  BY <1>3, <1>6, MsDosLineIsLine
<1> QED
  BY <1>1, <1>3, <1>4, <1>5, <1>6

\* A listing of a file is made of this.
LEMMA ListingIs ==
    ASSUME NEW i \in Inputs, i.file # <<>>
    PROVE  \E f \in Files, cut \in BOOLEAN, e \in Ends, l \in Ends \cup {<<>>} :
              \E line : FileBody(i, f, cut, line, e, l)
<1>1. i \in WholeListings \/ i \in CutListings
  <2>1. \A A, B : \A r \in [body : A, mlsd : B, file : {<<>>}, cut : {FALSE}] : r.file = <<>>
    OBVIOUS
  <2> QED
    BY <2>1, Zenon DEF Inputs
<1>2. \A a : <<a>>[1] = a
  OBVIOUS
<1>3. CASE i \in WholeListings
  <2>1. PICK e \in Ends, l \in Ends \cup {<<>>}, f \in Files :
           i = [body |-> Total \o e \o LineOf(f) \o l, mlsd |-> FALSE, file |-> <<f>>, cut |-> FALSE]
    BY <1>3, SMTT(60) DEF WholeListings
  <2>2. i.body = Join(Join(Join(Total, e), LineOf(f)), l) /\ i.mlsd = FALSE /\ i.file[1] = f /\ i.cut = FALSE
    BY <1>2, <2>1, Zenon DEF Join
  <2>3. Free(LineOf(f), Breaks) /\ Len(LineOf(f)) >= 1 /\ Says(f, FALSE, FtpParse(LineOf(f)))
    BY LineSaid, LinesNotEmpty
  <2>4. FileBody(i, f, FALSE, LineOf(f), e, l)
    BY <2>2, <2>3, Zenon DEF FileBody
  <2>5. FALSE \in BOOLEAN
    OBVIOUS
  <2> QED
    BY <2>4, <2>5, Zenon
<1>4. CASE i \in CutListings
  <2>0. \E f \in Files : \E n \in 1 .. Len(LineOf(f)) - 1 :
           i = [body |-> Total \o <<LF>> \o SubSeq(LineOf(f), 1, n), mlsd |-> FALSE,
                file |-> <<f>>, cut |-> TRUE]
    BY <1>4, Zenon DEF CutListings
  <2> PICK f \in Files : \E n \in 1 .. Len(LineOf(f)) - 1 :
           i = [body |-> Total \o <<LF>> \o SubSeq(LineOf(f), 1, n), mlsd |-> FALSE,
                file |-> <<f>>, cut |-> TRUE]
    BY <2>0
  <2>1. PICK n \in 1 .. Len(LineOf(f)) - 1 :
           i = [body |-> Total \o <<LF>> \o SubSeq(LineOf(f), 1, n), mlsd |-> FALSE,
                file |-> <<f>>, cut |-> TRUE]
    OBVIOUS
  <2> DEFINE line == SubSeq(LineOf(f), 1, n)
             e == <<LF>>
  <2>2. /\ Free(LineOf(f), Breaks) /\ Len(LineOf(f)) \in Nat
        /\ \A j \in 1 .. Len(LineOf(f)) : Says(f, TRUE, FtpParse(SubSeq(LineOf(f), 1, j)))
    BY LineSaid, LinesNotEmpty
  <2>3. n \in 1 .. Len(LineOf(f)) /\ n \in 0 .. Len(LineOf(f)) /\ n >= 1
    BY <2>2
  <2>4. IsText(line) /\ Len(line) = n /\ \A j \in 1 .. n : line[j] = LineOf(f)[j]
    BY <2>2, <2>3, BeginIs DEF Free
  <2>5. \A j \in 1 .. n : j \in 1 .. Len(LineOf(f))
    BY <2>2, <2>3
  <2>6. Says(f, TRUE, FtpParse(line))
    BY <2>2, <2>3, Zenon
  <2> HIDE DEF line
  <2>7. Free(line, Breaks) /\ Len(line) >= 1
    <3>1. \A j \in 1 .. Len(line) : line[j] \notin Breaks
      BY <2>2, <2>4, <2>5, Zenon DEF Free
    <3> QED
      BY <2>3, <2>4, <3>1 DEF Free
  <2>8. i.body = Join(Join(Join(Total, e), line), <<>>)
    <3>1. i.body = Join(Join(Total, e), line)
      BY <2>1, Zenon DEF Join, line
    <3>2. IsText(i.body)
      BY InputIs
    <3> QED
      BY <3>1, <3>2, NothingJoined, Zenon
  <2>9. i.mlsd = FALSE /\ i.file[1] = f /\ i.cut = TRUE
    BY <1>2, <2>1, Zenon
  <2>10. e \in Ends
    BY Zenon DEF Ends
  <2>11. FileBody(i, f, TRUE, line, e, <<>>)
    BY <2>6, <2>7, <2>8, <2>9, Zenon DEF FileBody
  <2>12. <<>> \in Ends \cup {<<>>} /\ TRUE \in BOOLEAN
    OBVIOUS
  <2> HIDE DEF e
  <2> QED
    BY <2>10, <2>11, <2>12, Zenon
<1> QED
  BY <1>1, <1>3, <1>4

\* Entries with another date, and with another name.
Dated(e, t) == [e EXCEPT !.mtime = t]
Named(e, n) == [e EXCEPT !.name = n]

\* An entry of a line that is understood.
IsFull(e) == \E n, c, r, z, t : e = EntryWith(n, c, r, z, t)

\* It has other dates and other names, one after the other in any order.
LEMMA FullIs ==
    ASSUME NEW e, IsFull(e)
    PROVE  /\ \A n : Named(e, n).found = Yes /\ Named(e, n).mtime = e.mtime /\ Named(e, n).name = n
           /\ \A n, t : Dated(Named(e, n), t) = Named(Dated(e, t), n) /\ Named(Dated(e, t), n).name = n
           /\ e.found = Yes
<1>1. PICK m, c, r, z, d : e = EntryWith(m, c, r, z, d)
  BY Zenon DEF IsFull
<1>2. e = [found |-> Yes, name |-> m, trycwd |-> c, tryretr |-> r, size |-> z, mtime |-> d, id |-> <<>>]
  BY <1>1, Zenon DEF EntryWith, Fields
<1>3. \A n : Named(e, n) = [found |-> Yes, name |-> n, trycwd |-> c, tryretr |-> r, size |-> z,
                            mtime |-> d, id |-> <<>>]
  BY <1>2, SMT DEF Named
<1>4. \A t : Dated(e, t) = [found |-> Yes, name |-> m, trycwd |-> c, tryretr |-> r, size |-> z,
                            mtime |-> t, id |-> <<>>]
  BY <1>2, SMT DEF Dated
<1>5. \A n, t : /\ Dated(Named(e, n), t) = [found |-> Yes, name |-> n, trycwd |-> c, tryretr |-> r,
                                            size |-> z, mtime |-> t, id |-> <<>>]
                /\ Named(Dated(e, t), n) = [found |-> Yes, name |-> n, trycwd |-> c, tryretr |-> r,
                                            size |-> z, mtime |-> t, id |-> <<>>]
  <2> SUFFICES ASSUME NEW n, NEW t
               PROVE  /\ Dated(Named(e, n), t) = [found |-> Yes, name |-> n, trycwd |-> c, tryretr |-> r,
                                                  size |-> z, mtime |-> t, id |-> <<>>]
                      /\ Named(Dated(e, t), n) = [found |-> Yes, name |-> n, trycwd |-> c, tryretr |-> r,
                                                  size |-> z, mtime |-> t, id |-> <<>>]
    OBVIOUS
  <2> DEFINE x == Named(e, n)
             y == Dated(e, t)
  <2>1. /\ x = [found |-> Yes, name |-> n, trycwd |-> c, tryretr |-> r, size |-> z,
                mtime |-> d, id |-> <<>>]
        /\ y = [found |-> Yes, name |-> m, trycwd |-> c, tryretr |-> r, size |-> z,
                mtime |-> t, id |-> <<>>]
    BY <1>3, <1>4, Zenon
  <2> HIDE DEF x, y
  <2>2. Dated(x, t) = [found |-> Yes, name |-> n, trycwd |-> c, tryretr |-> r, size |-> z,
                       mtime |-> t, id |-> <<>>]
    BY <2>1, SMT DEF Dated
  <2>3. Named(y, n) = [found |-> Yes, name |-> n, trycwd |-> c, tryretr |-> r, size |-> z,
                       mtime |-> t, id |-> <<>>]
    BY <2>1, SMT DEF Named
  <2> QED
    BY <2>2, <2>3, Zenon DEF x, y
<1>6. \A n : Named(e, n).found = Yes /\ Named(e, n).mtime = e.mtime /\ Named(e, n).name = n
  <2>1. e.mtime = d
    BY <1>2, SMT
  <2>2. \A n : Named(e, n).found = Yes /\ Named(e, n).mtime = d /\ Named(e, n).name = n
    BY <1>3, SMT
  <2> QED
    BY <2>1, <2>2, SMT
<1>7. \A n, t : Dated(Named(e, n), t) = Named(Dated(e, t), n)
  BY <1>5, Zenon
<1>8. \A n, t : Named(Dated(e, t), n).name = n
  BY <1>5, SMT
<1>9. e.found = Yes
  BY <1>2, SMT
<1> QED
  BY <1>6, <1>7, <1>8, <1>9, Zenon

\* A file that is older than 1970.
Old(f) == f.format = "msdos" /\ f.year < 1970

\* The entries of the lines that are understood, and their dates.
LEMMA FullDate ==
    \A n, c, r, z, t : IsFull(EntryWith(n, c, r, z, t)) /\ EntryWith(n, c, r, z, t).mtime = t
<1>1. \A n, c, r, z, t : IsFull(EntryWith(n, c, r, z, t))
  BY Zenon DEF IsFull
<1>2. \A n, c, r, z, t : EntryWith(n, c, r, z, t).mtime = t
  BY SMT DEF EntryWith, Fields
<1> QED
  BY <1>1, <1>2

\* Of the files of a server only some of MSDOS are older than 1970.
LEMMA DatesOf ==
    ASSUME NEW f \in Files
    PROVE  IsFull(EntryOf(f)) /\ (Before1970(EntryOf(f).mtime) <=> Old(f))
<1>1. f \in UnixFiles \/ f \in VmsFiles \/ f \in MsDosFiles
  BY DEF Files
<1>2. "msdos" # "unix" /\ "msdos" # "vms" /\ "vms" # "unix"
  OBVIOUS
<1>3. ASSUME f \in UnixFiles PROVE IsFull(EntryOf(f)) /\ ~Before1970(EntryOf(f).mtime) /\ ~Old(f)
  <2> DEFINE t == IF f.when = "1994" THEN <<"day", "1994", "Apr", "8">> ELSE <<"minute", "Apr", "8", f.when>>
  <2>1. f.format = "unix" /\ EntryOf(f) = UnixEntry(f)
    BY <1>3, UnixFileIs, Zenon DEF EntryOf
  <2>2. UnixEntry(f) = EntryWith(f.name, f.type \in {"dperm", "lperm", "d"},
                                 f.type \in {"-perm", "lperm", "-"}, "531", t)
    BY UnixEntryIs, Zenon
  <2>3. ~Before1970(t)
    BY SMT DEF Before1970
  <2> HIDE DEF t
  <2>4. IsFull(EntryOf(f)) /\ EntryOf(f).mtime = t
    BY <2>1, <2>2, FullDate, SMT
  <2> QED
    BY <2>1, <2>3, <2>4, SMT DEF Old
<1>4. ASSUME f \in VmsFiles PROVE IsFull(EntryOf(f)) /\ ~Before1970(EntryOf(f).mtime) /\ ~Old(f)
  <2> DEFINE dir == f.dir \/ (Len(f.name) > 1 /\ Last(f.name) = ".DIR")
             t == <<"minute", 1999, "Jan", 27, 12, 9>>
             name == IF dir /\ ~f.dir THEN Front(f.name) ELSE f.name
  <2>1. f.format = "vms"
    BY <1>4, VmsNameIs
  <2>2. EntryOf(f) = VmsEntry(f)
    BY <1>2, <2>1, Zenon DEF EntryOf
  <2>3. VmsEntry(f) = EntryWith(name, dir, ~dir, NoSize, t)
    BY EntryIs, Zenon DEF VmsEntry, NoSize
  <2>4. ~Before1970(t)
    BY SMT DEF Before1970
  <2> HIDE DEF t, dir, name
  <2>5. IsFull(EntryOf(f)) /\ EntryOf(f).mtime = t
    BY <2>2, <2>3, FullDate, SMT
  <2> QED
    BY <2>1, <2>4, <2>5, SMT DEF Old
<1>5. ASSUME f \in MsDosFiles PROVE IsFull(EntryOf(f)) /\ (Before1970(EntryOf(f).mtime) <=> Old(f))
  <2> DEFINE t == <<"minute", f.year, 3, 27, f.hour, 4>>
             size == IF f.dir THEN NoSize ELSE "531"
  <2>1. f.format = "msdos"
    BY <1>5, MsDosNameIs
  <2>2. EntryOf(f) = MsDosEntry(f)
    BY <1>2, <2>1, Zenon DEF EntryOf
  <2>3. MsDosEntry(f) = EntryWith(f.name, f.dir, ~f.dir, size, t)
    BY EntryIs, Zenon DEF MsDosEntry, NoSize
  <2>4. Before1970(t) <=> f.year < 1970
    BY SMT DEF Before1970
  <2> HIDE DEF t, size
  <2>5. IsFull(EntryOf(f)) /\ EntryOf(f).mtime = t
    BY <2>2, <2>3, FullDate, SMT
  <2> QED
    BY <2>1, <2>4, <2>5, SMT DEF Old
<1> QED
  BY <1>1, <1>3, <1>4, <1>5, Zenon

\* What is read of a line is stored without a date before 1970.
LEMMA StoredSays ==
    ASSUME NEW f \in Files, NEW cut \in BOOLEAN, NEW e, Says(f, cut, e)
    PROVE  IF ~cut THEN Stored(e) = Expected(f)
           ELSE \/ Stored(e) = Null
                \/ /\ Stored(e) = [Expected(f) EXCEPT !.name = Stored(e).name]
                   /\ \/ IsPrefix(Stored(e).name, Shown(f))
                      \/ IsPrefix(Stored(e).name, Padding(f) \o Shown(f))
<1> DEFINE x == EntryOf(f)
<1>1. /\ IsFull(x) /\ (Before1970(x.mtime) <=> Old(f))
      /\ Expected(f) = IF Old(f) THEN Dated(x, NoDate) ELSE x
  <2>1. IsFull(x) /\ (Before1970(x.mtime) <=> Old(f))
    BY DatesOf
  <2>2. Expected(f) = IF Old(f) THEN Dated(x, NoDate) ELSE x
    BY Zenon DEF Expected, Old, Dated
  <2> QED
    BY <2>1, <2>2
<1>2. Says(f, cut, e) /\ x = EntryOf(f)
  OBVIOUS
<1> HIDE DEF x
<1>3. Stored(Null) = Null
  BY DEF Stored, Null
<1>4. CASE ~cut
  <2>1. e = x
    BY <1>2, <1>4, Zenon DEF Says
  <2>2. x.found
    BY <1>1, FullIs, Zenon DEF Yes
  <2>3. Stored(x) = IF Before1970(x.mtime) THEN Dated(x, NoDate) ELSE x
    BY <2>2, Zenon DEF Stored, Dated
  <2>4. Stored(e) = Expected(f)
    BY <1>1, <2>1, <2>3, Zenon
  <2> QED
    BY <1>4, <2>4, Zenon
<1>5. CASE cut /\ e = Null
  BY <1>3, <1>5, Zenon
<1>6. CASE cut /\ e # Null
  <2> DEFINE n == e.name
  <2>1. /\ e = Named(x, n)
        /\ IsPrefix(n, Shown(f)) \/ IsPrefix(n, Padding(f) \o Shown(f))
    BY <1>2, <1>6, Zenon DEF Says, Named
  <2> HIDE DEF n
  <2>2. /\ Named(x, n).found = Yes /\ Named(x, n).mtime = x.mtime /\ Named(x, n).name = n
        /\ Dated(Named(x, n), NoDate) = Named(Dated(x, NoDate), n)
        /\ Named(Dated(x, NoDate), n).name = n
    BY <1>1, FullIs
  <2>3. e.found /\ e.mtime = x.mtime
    BY <2>1, <2>2, Zenon DEF Yes
  <2>4. Stored(e) = IF Before1970(x.mtime) THEN Dated(e, NoDate) ELSE e
    BY <2>3, Zenon DEF Stored, Dated
  <2>5. Stored(e) = Named(Expected(f), n) /\ Stored(e).name = n
    <3>1. CASE Old(f)
      <4>1. Expected(f) = Dated(x, NoDate) /\ Stored(e) = Dated(e, NoDate)
        BY <1>1, <2>4, <3>1, Zenon
      <4> QED
        BY <2>1, <2>2, <4>1, Zenon
    <3>2. CASE ~Old(f)
      <4>1. Expected(f) = x /\ Stored(e) = e
        BY <1>1, <2>4, <3>2, Zenon
      <4> QED
        BY <2>1, <2>2, <4>1, Zenon
    <3> QED
      BY <3>1, <3>2
  <2>6. Stored(e) = Named(Expected(f), Stored(e).name)
        /\ (IsPrefix(Stored(e).name, Shown(f)) \/ IsPrefix(Stored(e).name, Padding(f) \o Shown(f)))
    BY <2>1, <2>5, Zenon
  <2> QED
    BY <1>6, <2>6, Zenon DEF Named
<1> QED
  BY <1>4, <1>5, <1>6

\* A line in one of the documented formats is understood, whole or cut short
\* (ftpparse.c:210-445), whatever the names of the files and the groups are, however
\* long the names, and wherever the line is cut; its element has no date before 1970
\* (4DPlugin-cURL.cpp:2913).
THEOREM ListingFormatsUnderstood == Spec => []FormatsUnderstood
<1>1. IInv => FormatsUnderstood
  <2> SUFFICES ASSUME IInv, pc = "done", input.file # <<>>
               PROVE  LET f == input.file[1]
                          e == elements[2]
                      IN IF ~input.cut THEN e = Expected(f)
                         ELSE \/ e = Null
                              \/ /\ e = [Expected(f) EXCEPT !.name = e.name]
                                 /\ IsPrefix(e.name, Shown(f)) \/ IsPrefix(e.name, Padding(f) \o Shown(f))
    BY Zenon DEF FormatsUnderstood
  <2>1. input \in Inputs
    BY Zenon DEF IInv
  <2> PICK f \in Files, cut \in BOOLEAN, e \in Ends, l \in Ends \cup {<<>>} :
           \E line : FileBody(input, f, cut, line, e, l)
    BY <2>1, ListingIs
  <2>2. PICK line : FileBody(input, f, cut, line, e, l)
    OBVIOUS
  <2>3. /\ ~input.mlsd /\ body = Join(Join(Join(Total, e), line), l)
        /\ Free(line, Breaks) /\ Len(line) >= 1
        /\ input.file[1] = f /\ input.cut = cut /\ Says(f, cut, FtpParse(line))
    BY <2>2, Zenon DEF FileBody, body
  <2>4. TextOf(line, Len(line))
    BY <2>3, TextIs, Zenon DEF TextOf, Free
  <2>5. elements[2] = Stored(FtpParse(line))
    BY <2>3, <2>4, TwoAreRead
  <2> QED
    BY <2>3, <2>5, StoredSays, ZenonT(60)
<1> QED
  BY <1>1, ReadsEveryLine, PTL
=============================================================================
