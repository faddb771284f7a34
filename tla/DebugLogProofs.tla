---------------------------- MODULE DebugLogProofs ----------------------------
(***************************************************************************)
(* Machine-checked proofs about DebugLog, for any number of calls, folders *)
(* and categories and every set of faults: what the log files hold (Apart, *)
(* Ordered), the types and bounds (Typed), and that a call with a folder   *)
(* of its own loses only the entries that could not be written, if fclose  *)
(* does not fail (LosesOnlyFailed).  The argument follows one call and one *)
(* category, a slot: its file, its buffer and its stream agree on what     *)
(* comes next, whatever other calls do to the file.  The last two proofs   *)
(* also count: size is what the file and the buffer hold.                  *)
(***************************************************************************)
EXTENDS DebugLog, TLAPS, FiniteSetTheorems

Positive == Nat \ {0}
U     == Calls \X Positive           \* entries
V     == U \cup {Hole, Old}     \* units of a file
Modes == {"none", "ab", "wb"}
InCall == {"enter", "write", "close", "reopen", "rewrite"}
PCs    == InCall \cup {"idle", "cleanup", "done"}

\* u is an entry of call c.
By(u, c) == u \in U /\ u[1] = c

\* The entries of c in s are in the order in which it made them.
Rising(s, c) ==
    \A i, j \in DOMAIN s : i < j /\ By(s[i], c) /\ By(s[j], c) => s[i][2] < s[j][2]

\* Those in d come before those in b.
Precedes(d, b, c) ==
    \A i \in DOMAIN d, j \in DOMAIN b : By(d[i], c) => d[i][2] < b[j][2]

\* Call c, whose entries so far are lg, and its category k: file d, buffer b, stream
\* mode h and position a.
SlotOK(c, k, lg, d, b, h, a) ==
    /\ \A i \in DOMAIN d : By(d[i], c) => d[i][2] \in DOMAIN lg /\ lg[d[i][2]] = k
    /\ \A i \in DOMAIN b : b[i][1] = c /\ b[i][2] \in DOMAIN lg /\ lg[b[i][2]] = k
    /\ Rising(d, c) /\ Rising(b, c) /\ Precedes(d, b, c)
    /\ h = "wb" => \A i \in DOMAIN d : By(d[i], c) => i <= a

\* An entry that has number n is newer than all that has been written.
Newest(c, n, d, b) ==
    /\ \A i \in DOMAIN d : By(d[i], c) => d[i][2] < n
    /\ \A i \in DOMAIN b : b[i][2] < n

Places ==
    /\ pc \in [Calls -> PCs]
    /\ hand \in [Calls -> InHand \cup {Nothing}]

Kinds ==
    /\ Places
    /\ folder \in [Calls -> Folders]
    /\ disk \in [Files -> Seq(V)]
    /\ log \in [Calls -> Seq(Categories)]
    /\ handle \in [Slots -> Modes]
    /\ at \in [Slots -> Nat]
    /\ buffer \in [Slots -> Seq(U)]

DataInv ==
    \A c \in Calls, k \in Categories :
        SlotOK(c, k, log[c], disk[<<folder[c], k>>], buffer[<<c, k>>], handle[<<c, k>>], at[<<c, k>>])

\* An entry is in the folder of its call.
HomeInv ==
    \A x \in Files : \A i \in DOMAIN disk[x] :
        disk[x][i] \in U => folder[disk[x][i][1]] = x[1]

\* The entry in hand is the last of the call, and not written yet.
HandOK(c, p, ha, lg) ==
    p \in InCall =>
        /\ ha \in InHand
        /\ ~ha.empty => /\ Len(lg) > 0 /\ lg[Len(lg)] = ha.of
                        /\ Newest(c, Len(lg), disk[<<folder[c], ha.of>>], buffer[<<c, ha.of>>])
HandInv == \A c \in Calls : HandOK(c, pc[c], hand[c], log[c])

\* A stream that is being written to, or given up, is open.
OpenInv ==
    \A c \in Calls : pc[c] \in {"write", "close", "rewrite"} => handle[<<c, Of(c)>>] # "none"

IInv == Kinds /\ DataInv /\ HomeInv /\ HandInv /\ OpenInv

-----------------------------------------------------------------------------
(* Lemmas about one file and one buffer *)

\* The larger of two numbers.
LEMMA MaxIs ==
    ASSUME NEW a \in Int, NEW b \in Int
    PROVE  Max({a, b}) = IF a >= b THEN a ELSE b
<1>1. PICK m \in {a, b} : \A y \in {a, b} : m >= y
  OBVIOUS
<1>2. /\ Max({a, b}) \in {a, b}
      /\ \A y \in {a, b} : Max({a, b}) >= y
  BY <1>1 DEF Max
<1> QED
  BY <1>2

\* What nobody wrote, and what was there before, is nobody's entry.
LEMMA NoEntry == Hole \notin U /\ Old \notin U
  BY DEF Hole, Old, U, Positive

\* What writing s over d makes of it.
LEMMA WriteAtIs ==
    ASSUME NEW d \in Seq(V), NEW s \in Seq(U), NEW p \in Nat
    PROVE  /\ WriteAt(d, p, s) \in Seq(V)
           /\ \A i \in DOMAIN WriteAt(d, p, s) :
                \/ i \in p + 1 .. p + Len(s) /\ WriteAt(d, p, s)[i] = s[i - p]
                \/ i \notin p + 1 .. p + Len(s) /\ i \in DOMAIN d /\ WriteAt(d, p, s)[i] = d[i]
                \/ WriteAt(d, p, s)[i] = Hole
<1> DEFINE m == Max({Len(d), p + Len(s)})
<1>1. m \in Nat /\ m >= Len(d) /\ m >= p + Len(s)
  BY MaxIs
<1>2. \A i \in 1 .. m : (IF i \in p + 1 .. p + Len(s) THEN s[i - p]
                         ELSE IF i <= Len(d) THEN d[i] ELSE Hole) \in V
  <2> TAKE i \in 1 .. m
  <2>1. CASE i \in p + 1 .. p + Len(s)
    <3>1. i - p \in 1 .. Len(s)
      BY <2>1, <1>1
    <3> QED
      BY <2>1, <3>1 DEF V
  <2>2. CASE i \notin p + 1 .. p + Len(s) /\ i <= Len(d)
    BY <1>1, <2>2
  <2>3. CASE i \notin p + 1 .. p + Len(s) /\ ~(i <= Len(d))
    BY <2>3 DEF V
  <2> QED
    BY <2>1, <2>2, <2>3
<1>3. WriteAt(d, p, s) = [i \in 1 .. m |-> IF i \in p + 1 .. p + Len(s) THEN s[i - p]
                                         ELSE IF i <= Len(d) THEN d[i] ELSE Hole]
  BY DEF WriteAt
<1> HIDE DEF m
<1> QED
  BY <1>1, <1>2, <1>3

\* The beginning and the rest of a buffer.
LEMMA PartsAre ==
    ASSUME NEW b \in Seq(U), NEW n \in 0 .. Len(b)
    PROVE  /\ SubSeq(b, 1, n) \in Seq(U) /\ Len(SubSeq(b, 1, n)) = n
           /\ \A i \in 1 .. n : SubSeq(b, 1, n)[i] = b[i]
           /\ SubSeq(b, n + 1, Len(b)) \in Seq(U)
           /\ \A i \in DOMAIN SubSeq(b, n + 1, Len(b)) :
                i + n \in DOMAIN b /\ SubSeq(b, n + 1, Len(b))[i] = b[i + n]
<1>1. /\ SubSeq(b, 1, n) \in Seq(U) /\ Len(SubSeq(b, 1, n)) = n
      /\ \A i \in 1 .. n : SubSeq(b, 1, n)[i] = b[i]
  OBVIOUS
<1>2. SubSeq(b, n + 1, Len(b)) \in Seq(U)
  OBVIOUS
<1>3. \A i \in DOMAIN SubSeq(b, n + 1, Len(b)) :
                i + n \in DOMAIN b /\ SubSeq(b, n + 1, Len(b))[i] = b[i + n]
  OBVIOUS
<1> QED
  BY <1>1, <1>2, <1>3

\* What an e-entry of D is, it is in d at the same place.
Kept(d, D, e) == \A i \in DOMAIN D : By(D[i], e) => i \in DOMAIN d /\ D[i] = d[i]

\* A stream writes out the beginning of its buffer: its slot stays in order, and
\* of the other calls nothing is added or moved.
LEMMA PartOut ==
    ASSUME NEW c \in Calls, NEW k \in Categories, NEW lg \in Seq(Categories),
           NEW d \in Seq(V), NEW b \in Seq(U), NEW n \in 0 .. Len(b),
           NEW h \in {"ab", "wb"}, NEW a \in Nat,
           SlotOK(c, k, lg, d, b, h, a),
           NEW D,
           D = IF n = 0 THEN d
               ELSE WriteAt(d, IF h = "ab" THEN Len(d) ELSE a, SubSeq(b, 1, n))
    PROVE  /\ D \in Seq(V)
           /\ SubSeq(b, n + 1, Len(b)) \in Seq(U)
           /\ SlotOK(c, k, lg, D, SubSeq(b, n + 1, Len(b)), h, IF h = "wb" THEN a + n ELSE a)
           /\ \A e \in Calls \ {c} : Kept(d, D, e)
           /\ \A m \in Nat : Newest(c, m, d, b) => Newest(c, m, D, SubSeq(b, n + 1, Len(b)))
<1> DEFINE p == IF h = "ab" THEN Len(d) ELSE a
           B == SubSeq(b, n + 1, Len(b))
<1>1. p \in Nat /\ \A i \in DOMAIN d : By(d[i], c) => i <= p
  BY DEF SlotOK
<1>2. /\ SubSeq(b, 1, n) \in Seq(U) /\ Len(SubSeq(b, 1, n)) = n
      /\ \A i \in 1 .. n : SubSeq(b, 1, n)[i] = b[i]
      /\ B \in Seq(U)
      /\ \A i \in DOMAIN B : i + n \in DOMAIN b /\ B[i] = b[i + n]
  BY PartsAre
<1>3. /\ D \in Seq(V)
      /\ \A i \in DOMAIN D :
           \/ i \in p + 1 .. p + n /\ i - p \in DOMAIN b /\ i - p <= n /\ D[i] = b[i - p]
           \/ i \notin p + 1 .. p + n /\ i \in DOMAIN d /\ D[i] = d[i]
           \/ D[i] = Hole
  <2>1. CASE n = 0
    BY <2>1, <1>1
  <2>2. CASE n # 0
    <3>1. D = WriteAt(d, p, SubSeq(b, 1, n))
      BY <2>2
    <3> HIDE DEF p
    <3> DEFINE s == SubSeq(b, 1, n)
    <3>4. s \in Seq(U) /\ Len(s) = n /\ D = WriteAt(d, p, s)
      BY <3>1, <1>2
    <3> HIDE DEF s
    <3>5. /\ D \in Seq(V)
          /\ \A i \in DOMAIN D :
               \/ i \in p + 1 .. p + n /\ D[i] = s[i - p]
               \/ i \notin p + 1 .. p + n /\ i \in DOMAIN d /\ D[i] = d[i]
               \/ D[i] = Hole
      <4>1. d \in Seq(V) /\ s \in Seq(U) /\ p \in Nat
        BY <3>4, <1>1
      <4>2. /\ WriteAt(d, p, s) \in Seq(V)
            /\ \A i \in DOMAIN WriteAt(d, p, s) :
                 \/ i \in p + 1 .. p + Len(s) /\ WriteAt(d, p, s)[i] = s[i - p]
                 \/ i \notin p + 1 .. p + Len(s) /\ i \in DOMAIN d /\ WriteAt(d, p, s)[i] = d[i]
                 \/ WriteAt(d, p, s)[i] = Hole
        BY <4>1, WriteAtIs
      <4> QED
        BY <3>4, <4>2
    <3>2. /\ D \in Seq(V)
          /\ \A i \in DOMAIN D :
               \/ i \in p + 1 .. p + n /\ D[i] = SubSeq(b, 1, n)[i - p]
               \/ i \notin p + 1 .. p + n /\ i \in DOMAIN d /\ D[i] = d[i]
               \/ D[i] = Hole
      BY <3>5 DEF s
    <3>3. \A i \in p + 1 .. p + n : i - p \in 1 .. n /\ i - p \in DOMAIN b
      BY <1>1
    <3> QED
      BY <3>2, <3>3, <1>2
  <2> QED
    BY <2>1, <2>2
<1> HIDE DEF p, B
<1>4. \A i \in DOMAIN b : By(b[i], c) /\ b[i][2] \in DOMAIN lg /\ lg[b[i][2]] = k
  BY DEF SlotOK, By
<1>5. \A i \in DOMAIN d : By(d[i], c) => d[i][2] \in DOMAIN lg /\ lg[d[i][2]] = k
  BY DEF SlotOK
<1>6. ~By(Hole, c)
  BY NoEntry DEF By
\* Every entry of c in the file afterwards.
<1>7. \A i \in DOMAIN D : By(D[i], c) =>
         \/ i \in p + 1 .. p + n /\ i - p \in DOMAIN b /\ i - p <= n /\ D[i] = b[i - p]
         \/ i \in DOMAIN d /\ i <= p /\ D[i] = d[i]
  BY <1>1, <1>3, <1>6
<1>8. \A i, j \in DOMAIN b : i < j => b[i][2] < b[j][2]
  BY <1>4 DEF SlotOK, Rising
<1>9. \A i \in DOMAIN d, j \in DOMAIN b : By(d[i], c) => d[i][2] < b[j][2]
  BY DEF SlotOK, Precedes
<1>10. Rising(D, c)
  <2> SUFFICES ASSUME NEW i \in DOMAIN D, NEW j \in DOMAIN D, i < j,
                      By(D[i], c), By(D[j], c)
               PROVE  D[i][2] < D[j][2]
    BY DEF Rising
  <2>0. i \in Nat /\ j \in Nat
    BY <1>3
  <2>1. CASE i \in DOMAIN d /\ i <= p /\ D[i] = d[i] /\ j \in DOMAIN d /\ D[j] = d[j]
    BY <2>1 DEF SlotOK, Rising
  <2>2. CASE i \in DOMAIN d /\ i <= p /\ D[i] = d[i] /\ j - p \in DOMAIN b /\ D[j] = b[j - p]
    BY <2>2, <1>9
  <2>3. CASE /\ i - p \in DOMAIN b /\ D[i] = b[i - p]
             /\ j - p \in DOMAIN b /\ D[j] = b[j - p]
    <3>1. i - p < j - p
      BY <2>0, <1>1
    <3> QED
      BY <2>3, <3>1, <1>8
  <2> QED
    BY <2>0, <2>1, <2>2, <2>3, <1>1, <1>7, SMTT(60)
<1>11. Rising(B, c)
  <2> SUFFICES ASSUME NEW i \in DOMAIN B, NEW j \in DOMAIN B, i < j
               PROVE  B[i][2] < B[j][2]
    BY DEF Rising
  <2>1. i + n < j + n /\ i + n \in DOMAIN b /\ j + n \in DOMAIN b
    BY <1>2
  <2> QED
    BY <2>1, <1>2, <1>8
<1>12. Precedes(D, B, c)
  <2> SUFFICES ASSUME NEW i \in DOMAIN D, NEW j \in DOMAIN B, By(D[i], c)
               PROVE  D[i][2] < B[j][2]
    BY DEF Precedes
  <2>1. j + n \in DOMAIN b /\ B[j] = b[j + n] /\ j \in Nat /\ j > 0
    BY <1>2
  <2>2. CASE i \in DOMAIN d /\ D[i] = d[i]
    BY <2>1, <2>2, <1>9
  <2>3. CASE i - p \in DOMAIN b /\ i - p <= n /\ D[i] = b[i - p]
    <3>1. i - p < j + n
      BY <2>1, <2>3
    <3> QED
      BY <2>1, <2>3, <3>1, <1>8
  <2> QED
    BY <2>2, <2>3, <1>7
<1>13. h = "wb" => \A i \in DOMAIN D : By(D[i], c) => i <= a + n
  BY <1>1, <1>3, <1>7 DEF p
<1>14. SlotOK(c, k, lg, D, B, h, IF h = "wb" THEN a + n ELSE a)
  <2>1. \A i \in DOMAIN D : By(D[i], c) => D[i][2] \in DOMAIN lg /\ lg[D[i][2]] = k
    BY <1>4, <1>5, <1>7
  <2>2. \A i \in DOMAIN B : B[i][1] = c /\ B[i][2] \in DOMAIN lg /\ lg[B[i][2]] = k
    BY <1>2, <1>4 DEF By
  <2> QED
    BY <2>1, <2>2, <1>10, <1>11, <1>12, <1>13 DEF SlotOK
<1>15. ASSUME NEW e \in Calls \ {c} PROVE Kept(d, D, e)
  <2>1. \A i \in DOMAIN b : ~By(b[i], e)
    BY <1>4 DEF By
  <2>2. ~By(Hole, e)
    BY NoEntry DEF By
  <2> QED
    BY <1>3, <2>1, <2>2 DEF Kept
<1>16. ASSUME NEW m \in Nat, Newest(c, m, d, b) PROVE Newest(c, m, D, B)
  BY <1>16, <1>2, <1>7 DEF Newest
<1> QED
  BY <1>2, <1>3, <1>14, <1>15, <1>16 DEF B

\* A buffer that is thrown away, and a stream closed, change nothing in the file.
LEMMA Dropped ==
    ASSUME NEW c, NEW k, NEW lg, NEW d, NEW b, NEW h, NEW a, NEW h2, NEW a2,
           SlotOK(c, k, lg, d, b, h, a), h2 # "wb"
    PROVE  SlotOK(c, k, lg, d, <<>>, h2, a2)
  BY DEF SlotOK, Rising, Precedes

\* A file that is truncated, or appended to from now on.
LEMMA Opened ==
    ASSUME NEW c, NEW k, NEW lg, NEW d, NEW b, NEW h, NEW a,
           SlotOK(c, k, lg, d, b, h, a)
    PROVE  /\ SlotOK(c, k, lg, d, b, "ab", a)
           /\ SlotOK(c, k, lg, <<>>, b, "wb", a)
  BY DEF SlotOK, Rising, Precedes

\* What is newer than file and buffer is newer than either without the other.
LEMMA NewestOfLess ==
    ASSUME NEW c, NEW n, NEW d, NEW b, Newest(c, n, d, b)
    PROVE  Newest(c, n, d, <<>>) /\ Newest(c, n, <<>>, b)
  BY DEF Newest

\* An entry is added to a buffer.
LEMMA Buffered ==
    ASSUME NEW c \in Calls, NEW k \in Categories, NEW lg \in Seq(Categories),
           NEW d \in Seq(V), NEW b \in Seq(U), NEW h, NEW a,
           SlotOK(c, k, lg, d, b, h, a),
           NEW n \in DOMAIN lg, lg[n] = k, Newest(c, n, d, b)
    PROVE  /\ b \o << <<c, n>> >> \in Seq(U)
           /\ SlotOK(c, k, lg, d, b \o << <<c, n>> >>, h, a)
<1> DEFINE u == <<c, n>>
           B == b \o <<u>>
<1>1. u \in U /\ By(u, c) /\ u[1] = c /\ u[2] = n
  BY DEF U, By, Positive
<1> HIDE DEF u
<1>2. /\ B \in Seq(U) /\ DOMAIN B = 1 .. Len(b) + 1
      /\ \A i \in DOMAIN b : B[i] = b[i]
      /\ B[Len(b) + 1] = u
      /\ \A i \in DOMAIN B : i \in DOMAIN b \/ i = Len(b) + 1
  BY <1>1
<1> HIDE DEF B
<1>3. \A i \in DOMAIN B : B[i][1] = c /\ B[i][2] \in DOMAIN lg /\ lg[B[i][2]] = k
  BY <1>1, <1>2 DEF SlotOK
<1>4. Rising(B, c)
  <2> SUFFICES ASSUME NEW i \in DOMAIN B, NEW j \in DOMAIN B, i < j
               PROVE  B[i][2] < B[j][2]
    BY DEF Rising
  <2>1. i \in DOMAIN b
    BY <1>2
  <2>2. CASE j = Len(b) + 1
    BY <2>1, <2>2, <1>1, <1>2 DEF Newest
  <2>3. CASE j \in DOMAIN b
    <3>1. By(b[i], c) /\ By(b[j], c)
      BY <2>1, <2>3 DEF SlotOK, By
    <3> QED
      BY <2>1, <2>3, <3>1, <1>2 DEF SlotOK, Rising
  <2> QED
    BY <2>2, <2>3, <1>2
<1>5. Precedes(d, B, c)
  BY <1>1, <1>2 DEF SlotOK, Precedes, Newest
<1>6. SlotOK(c, k, lg, d, B, h, a)
  BY <1>3, <1>4, <1>5 DEF SlotOK
<1> QED
  BY <1>2, <1>6 DEF B, u

\* The call has made one more entry; it is newer than everything written.
LEMMA Longer ==
    ASSUME NEW c, NEW k \in Categories, NEW lg \in Seq(Categories), NEW q \in Categories,
           NEW d \in Seq(V), NEW b \in Seq(U), NEW h, NEW a,
           SlotOK(c, k, lg, d, b, h, a)
    PROVE  /\ SlotOK(c, k, Append(lg, q), d, b, h, a)
           /\ Newest(c, Len(Append(lg, q)), d, b)
<1>1. /\ Append(lg, q) \in Seq(Categories) /\ Len(Append(lg, q)) = Len(lg) + 1
      /\ \A i \in DOMAIN lg : /\ i \in DOMAIN Append(lg, q) /\ Append(lg, q)[i] = lg[i]
                              /\ i < Len(lg) + 1
  OBVIOUS
<1> QED
  BY <1>1 DEF SlotOK, Newest

-----------------------------------------------------------------------------
(* Steps *)

\* Nothing but the slot of c and k is touched; c2 and the others keep their entries
\* where they are.
OneSlot(c, k) ==
    /\ folder' = folder /\ log' = log
    /\ disk' \in [Files -> Seq(V)] /\ buffer' \in [Slots -> Seq(U)]
    /\ handle' \in [Slots -> Modes] /\ at' \in [Slots -> Nat]
    /\ \A x \in Files : x # <<folder[c], k>> => disk'[x] = disk[x]
    /\ \A s \in Slots : s # <<c, k>> =>
         buffer'[s] = buffer[s] /\ handle'[s] = handle[s] /\ at'[s] = at[s]
    /\ \A e \in Calls \ {c} : Kept(disk[<<folder[c], k>>], disk'[<<folder[c], k>>], e)
    /\ SlotOK(c, k, log[c], disk'[<<folder[c], k>>], buffer'[<<c, k>>], handle'[<<c, k>>], at'[<<c, k>>])

\* What was newer than the slot still is.
StaysOld(c, k) ==
    \A n \in Nat : Newest(c, n, disk[<<folder[c], k>>], buffer[<<c, k>>]) =>
                   Newest(c, n, disk'[<<folder[c], k>>], buffer'[<<c, k>>])

\* Only c moves; it has an entry in hand afterwards only if it is the one it had.
OnlyCall(c) ==
    /\ \A e \in Calls \ {c} : pc'[e] = pc[e] /\ hand'[e] = hand[e]
    /\ pc'[c] \in InCall => pc[c] \in InCall /\ hand'[c] = hand[c]

LEMMA KeptIsEnough ==
    ASSUME NEW c, NEW k, NEW lg, NEW d \in Seq(V), NEW D, NEW b, NEW h, NEW a, Kept(d, D, c)
    PROVE  /\ SlotOK(c, k, lg, d, b, h, a) => SlotOK(c, k, lg, D, b, h, a)
           /\ \A n : Newest(c, n, d, b) => Newest(c, n, D, b)
  BY DEF Kept, SlotOK, Rising, Precedes, Newest

\* A step within one slot keeps every slot in order, and entries in their folder.
LEMMA SlotStep ==
    ASSUME Kinds, DataInv, HomeInv, NEW c \in Calls, NEW k \in Categories, OneSlot(c, k)
    PROVE  DataInv' /\ HomeInv'
<1> DEFINE f == <<folder[c], k>>
<1>0. f \in Files /\ <<c, k>> \in Slots
  BY DEF Kinds, Files, Slots
<1>1. ASSUME NEW e \in Calls, NEW q \in Categories
      PROVE  SlotOK(e, q, log[e], disk'[<<folder[e], q>>], buffer'[<<e, q>>],
                    handle'[<<e, q>>], at'[<<e, q>>])
  <2> DEFINE g == <<folder[e], q>>
  <2>0. g \in Files /\ <<e, q>> \in Slots /\ disk[g] \in Seq(V)
    BY DEF Kinds, Files, Slots
  <2>1. SlotOK(e, q, log[e], disk[g], buffer[<<e, q>>], handle[<<e, q>>], at[<<e, q>>])
    BY DEF DataInv
  <2>2. CASE <<e, q>> = <<c, k>>
    BY <2>2 DEF OneSlot
  <2>3. CASE <<e, q>> # <<c, k>> /\ g # f
    BY <2>0, <2>1, <2>3 DEF OneSlot
  <2>4. CASE <<e, q>> # <<c, k>> /\ g = f
    <3>1. e # c /\ q = k
      BY <2>4
    <3>2. Kept(disk[g], disk'[g], e)
      BY <3>1, <2>4 DEF OneSlot
    <3>3. /\ buffer'[<<e, q>>] = buffer[<<e, q>>] /\ handle'[<<e, q>>] = handle[<<e, q>>]
          /\ at'[<<e, q>>] = at[<<e, q>>]
      BY <2>0, <2>4 DEF OneSlot
    <3> HIDE DEF g
    <3>4. SlotOK(e, q, log[e], disk'[g], buffer[<<e, q>>], handle[<<e, q>>], at[<<e, q>>])
      BY <2>0, <2>1, <3>2, KeptIsEnough
    <3> QED
      BY <3>3, <3>4 DEF g
  <2> QED
    BY <2>2, <2>3, <2>4
<1>2. DataInv'
  BY <1>1 DEF OneSlot, DataInv
<1>3. ASSUME NEW x \in Files, NEW i \in DOMAIN disk'[x], disk'[x][i] \in U
      PROVE  folder[disk'[x][i][1]] = x[1]
  <2>1. CASE x # f
    <3>1. disk'[x] = disk[x]
      BY <2>1 DEF OneSlot
    <3>2. \A j \in DOMAIN disk[x] : disk[x][j] \in U => folder[disk[x][j][1]] = x[1]
      BY DEF HomeInv
    <3> QED
      BY <1>3, <3>1, <3>2
  <2>2. CASE x = f
    <3>1. CASE disk'[x][i][1] = c
      BY <2>2, <3>1
    <3>2. CASE disk'[x][i][1] # c
      <4> DEFINE e == disk'[x][i][1]
      <4>1. e \in Calls \ {c} /\ By(disk'[x][i], e)
        BY <1>3, <3>2 DEF U, By
      <4>2. i \in DOMAIN disk[x] /\ disk'[x][i] = disk[x][i]
        BY <4>1, <2>2 DEF OneSlot, Kept
      <4> QED
        BY <1>3, <4>2 DEF HomeInv
    <3> QED
      BY <3>1, <3>2
  <2> QED
    BY <2>1, <2>2
<1>4. HomeInv'
  BY <1>3 DEF HomeInv, OneSlot
<1> QED
  BY <1>2, <1>4

\* Such a step leaves every entry in hand the newest of its call.
LEMMA HandStep ==
    ASSUME Kinds, HandInv, NEW c \in Calls, NEW k \in Categories, OneSlot(c, k),
           OnlyCall(c), pc'[c] \in InCall => StaysOld(c, k)
    PROVE  HandInv'
<1>1. SUFFICES ASSUME NEW e \in Calls, pc'[e] \in InCall
               PROVE  HandOK(e, pc[e], hand[e], log[e])'
  BY DEF HandInv, HandOK
<1>2. pc[e] \in InCall /\ hand'[e] = hand[e] /\ log' = log /\ folder' = folder
  BY <1>1 DEF OnlyCall, OneSlot
<1>3. HandOK(e, pc[e], hand[e], log[e])
  BY DEF HandInv
<1>4. CASE hand[e].empty
  BY <1>2, <1>3, <1>4 DEF HandOK
<1>5. CASE ~hand[e].empty
  <2> DEFINE q == hand[e].of
             g == <<folder[e], q>>
             n == Len(log[e])
  <2>1. /\ hand[e] \in InHand /\ n > 0 /\ log[e][n] = q
        /\ Newest(e, n, disk[g], buffer[<<e, q>>])
    BY <1>2, <1>3, <1>5 DEF HandOK
  <2>2. q \in Categories /\ n \in Nat
    BY <2>1 DEF InHand, Kinds
  <2>3. g \in Files /\ <<e, q>> \in Slots /\ disk[g] \in Seq(V)
    BY <2>2 DEF Kinds, Files, Slots
  <2> HIDE DEF q, n
  <2>4. Newest(e, n, disk'[g], buffer'[<<e, q>>])
    <3>1. CASE e = c /\ q = k
      BY <1>1, <2>1, <2>2, <3>1 DEF StaysOld
    <3>2. CASE <<e, q>> # <<c, k>> /\ g # <<folder[c], k>>
      BY <2>1, <2>3, <3>2 DEF OneSlot
    <3>3. CASE <<e, q>> # <<c, k>> /\ g = <<folder[c], k>>
      <4>1. e # c /\ q = k
        BY <3>3
      <4>2. Kept(disk[g], disk'[g], e) /\ buffer'[<<e, q>>] = buffer[<<e, q>>]
        BY <4>1, <3>3, <2>3 DEF OneSlot
      <4> HIDE DEF g
      <4> QED
        BY <2>1, <2>3, <4>2, KeptIsEnough
    <3> QED
      BY <3>1, <3>2, <3>3
  <2> QED
    BY <1>2, <2>1, <2>4 DEF HandOK, q, n
<1> QED
  BY <1>4, <1>5

\* A step that touches no file, buffer or log.
Quiet == UNCHANGED <<folder, disk, log, handle, at, buffer>>

LEMMA QuietStep ==
    ASSUME Kinds, DataInv, HomeInv, HandInv, NEW c \in Calls, Quiet, OnlyCall(c)
    PROVE  DataInv' /\ HomeInv' /\ HandInv'
<1>1. DataInv'
  BY DEF Quiet, DataInv
<1>2. HomeInv'
  BY DEF Quiet, HomeInv
<1>3. ASSUME NEW e \in Calls, pc'[e] \in InCall
      PROVE  pc[e] \in InCall /\ hand'[e] = hand[e]
  BY <1>3 DEF OnlyCall
<1>4. HandInv'
  BY <1>3 DEF Quiet, HandInv, HandOK
<1> QED
  BY <1>1, <1>2, <1>4

\* What of a buffer has been written out stays in order.
LEMMA Written ==
    ASSUME Kinds, DataInv, NEW c \in Calls, NEW k \in Categories,
           NEW n \in 0 .. Len(buffer[<<c, k>>]), handle[<<c, k>>] # "none", WriteOut(c, k, n),
           NEW D, D = disk'[<<folder[c], k>>],
           NEW B, B = SubSeq(buffer[<<c, k>>], n + 1, Len(buffer[<<c, k>>]))
    PROVE  /\ disk' \in [Files -> Seq(V)]
           /\ \A x \in Files : x # <<folder[c], k>> => disk'[x] = disk[x]
           /\ B \in Seq(U)
           /\ SlotOK(c, k, log[c], D, B, handle[<<c, k>>],
                     IF handle[<<c, k>>] = "wb" THEN at[<<c, k>>] + n ELSE at[<<c, k>>])
           /\ \A e \in Calls \ {c} : Kept(disk[<<folder[c], k>>], D, e)
           /\ \A m \in Nat : Newest(c, m, disk[<<folder[c], k>>], buffer[<<c, k>>]) => Newest(c, m, D, B)
<1> DEFINE f == <<folder[c], k>>
           d == disk[f]
           b == buffer[<<c, k>>]
           h == handle[<<c, k>>]
           a == at[<<c, k>>]
           E == IF n = 0 THEN d
                ELSE WriteAt(d, IF h = "ab" THEN Len(d) ELSE a, SubSeq(b, 1, n))
<1>1. f \in Files /\ <<c, k>> \in Slots
  BY DEF Kinds, Files, Slots
<1>2. d \in Seq(V) /\ b \in Seq(U) /\ h \in {"ab", "wb"} /\ a \in Nat /\ log[c] \in Seq(Categories)
  BY <1>1 DEF Kinds, Modes
<1>3. SlotOK(c, k, log[c], d, b, h, a)
  BY DEF DataInv
<1>4. disk' = IF n = 0 THEN disk ELSE [disk EXCEPT ![f] = E]
  BY DEF WriteOut, FileOf, Label
<1>5. D = E
  BY <1>1, <1>4 DEF Kinds
<1> HIDE DEF d, b, h, a
<1>6. /\ E \in Seq(V)
      /\ SubSeq(b, n + 1, Len(b)) \in Seq(U)
      /\ SlotOK(c, k, log[c], E, SubSeq(b, n + 1, Len(b)), h, IF h = "wb" THEN a + n ELSE a)
      /\ \A e \in Calls \ {c} : Kept(d, E, e)
      /\ \A m \in Nat : Newest(c, m, d, b) => Newest(c, m, E, SubSeq(b, n + 1, Len(b)))
  <2>1. n \in 0 .. Len(b)
    BY DEF b
  <2> DEFINE G == E
  <2>2. G = E
    OBVIOUS
  <2> HIDE DEF G
  <2>3. /\ G \in Seq(V)
        /\ SubSeq(b, n + 1, Len(b)) \in Seq(U)
        /\ SlotOK(c, k, log[c], G, SubSeq(b, n + 1, Len(b)), h, IF h = "wb" THEN a + n ELSE a)
        /\ \A e \in Calls \ {c} : Kept(d, G, e)
        /\ \A m \in Nat : Newest(c, m, d, b) => Newest(c, m, G, SubSeq(b, n + 1, Len(b)))
    BY <1>2, <1>3, <2>1, <2>2, PartOut
  <2> QED
    BY <2>2, <2>3
<1> HIDE DEF E
<1>7. disk' \in [Files -> Seq(V)] /\ \A x \in Files : x # f => disk'[x] = disk[x]
  BY <1>1, <1>4, <1>6 DEF Kinds
<1> QED
  BY <1>5, <1>6, <1>7 DEF d, b, h, a

-----------------------------------------------------------------------------
(* The steps of a call *)

LEMMA FlushStep ==
    ASSUME Kinds, DataInv, HomeInv, HandInv, NEW c \in Calls, NEW k \in Categories, Flush(c, k)
    PROVE  Kinds' /\ DataInv' /\ HomeInv' /\ HandInv'
<1> DEFINE b == buffer[<<c, k>>]
<1>0. <<c, k>> \in Slots /\ b \in Seq(U) /\ at[<<c, k>>] \in Nat
  BY DEF Kinds, Slots
<1>1. PICK n \in 1 .. Len(b) :
        /\ WriteOut(c, k, n)
        /\ at' = [at EXCEPT ![<<c, k>>] = IF handle[<<c, k>>] = "wb" THEN @ + n ELSE @]
        /\ buffer' = [buffer EXCEPT ![<<c, k>>] = SubSeq(@, n + 1, Len(@))]
  BY DEF Flush
<1>2. n \in 0 .. Len(b) /\ handle[<<c, k>>] # "none"
  BY <1>0 DEF Flush
<1>3. buffer'[<<c, k>>] = SubSeq(b, n + 1, Len(b)) /\ at'[<<c, k>>] =
        (IF handle[<<c, k>>] = "wb" THEN at[<<c, k>>] + n ELSE at[<<c, k>>])
  BY <1>0, <1>1 DEF Kinds
<1>4. /\ disk' \in [Files -> Seq(V)]
      /\ \A x \in Files : x # <<folder[c], k>> => disk'[x] = disk[x]
      /\ buffer'[<<c, k>>] \in Seq(U)
      /\ SlotOK(c, k, log[c], disk'[<<folder[c], k>>], buffer'[<<c, k>>], handle[<<c, k>>], at'[<<c, k>>])
      /\ \A e \in Calls \ {c} : Kept(disk[<<folder[c], k>>], disk'[<<folder[c], k>>], e)
      /\ StaysOld(c, k)
  BY <1>1, <1>2, <1>3, Written DEF StaysOld
<1>5. UNCHANGED <<folder, pc, hand, log, handle>>
  BY DEF Flush, entry
<1>6. buffer' \in [Slots -> Seq(U)] /\ at' \in [Slots -> Nat]
  <2>1. SubSeq(b, n + 1, Len(b)) \in Seq(U)
    BY <1>3, <1>4
  <2>2. buffer' = [buffer EXCEPT ![<<c, k>>] = SubSeq(b, n + 1, Len(b))]
    BY <1>1
  <2>3. buffer' \in [Slots -> Seq(U)]
    <3> DEFINE B == SubSeq(b, n + 1, Len(b))
    <3> HIDE DEF B
    <3> QED
      BY <2>1, <2>2 DEF Kinds, B
  <2>4. at' \in [Slots -> Nat]
    BY <1>0, <1>1 DEF Kinds
  <2> QED
    BY <2>3, <2>4
<1>7. OneSlot(c, k)
  BY <1>0, <1>1, <1>4, <1>5, <1>6 DEF OneSlot, Kinds
<1>8. OnlyCall(c)
  BY <1>5 DEF OnlyCall, InCall
<1>9. Kinds'
  BY <1>4, <1>5, <1>6 DEF Kinds, Places
<1> QED
  BY <1>4, <1>7, <1>8, <1>9, SlotStep, HandStep

\* fclose writes out as much of the buffer as it can, and the stream is gone.
LEMMA FCloseStep ==
    ASSUME Kinds, DataInv, HomeInv, HandInv, NEW c \in Calls, NEW k \in Categories,
           FClose(c, k), handle[<<c, k>>] # "none",
           folder' = folder, log' = log, Places', OnlyCall(c)
    PROVE  Kinds' /\ DataInv' /\ HomeInv' /\ HandInv' /\ OneSlot(c, k)
<1> DEFINE b == buffer[<<c, k>>]
<1>0. <<c, k>> \in Slots /\ b \in Seq(U)
  BY DEF Kinds, Slots
<1>1. PICK n \in 0 .. Len(b) : WriteOut(c, k, n)
  BY <1>0 DEF FClose
<1>2. /\ buffer' \in [Slots -> Seq(U)] /\ handle' \in [Slots -> Modes] /\ at' \in [Slots -> Nat]
      /\ buffer'[<<c, k>>] = <<>> /\ handle'[<<c, k>>] = "none" /\ at'[<<c, k>>] = 0
      /\ \A s \in Slots : s # <<c, k>> =>
           buffer'[s] = buffer[s] /\ handle'[s] = handle[s] /\ at'[s] = at[s]
  BY <1>0 DEF FClose, Kinds, Modes
<1>3. /\ disk' \in [Files -> Seq(V)]
      /\ \A x \in Files : x # <<folder[c], k>> => disk'[x] = disk[x]
      /\ SlotOK(c, k, log[c], disk'[<<folder[c], k>>], SubSeq(b, n + 1, Len(b)), handle[<<c, k>>],
                IF handle[<<c, k>>] = "wb" THEN at[<<c, k>>] + n ELSE at[<<c, k>>])
      /\ \A e \in Calls \ {c} : Kept(disk[<<folder[c], k>>], disk'[<<folder[c], k>>], e)
      /\ \A m \in Nat : Newest(c, m, disk[<<folder[c], k>>], b) =>
                        Newest(c, m, disk'[<<folder[c], k>>], SubSeq(b, n + 1, Len(b)))
  BY <1>1, Written
<1>4. SlotOK(c, k, log[c], disk'[<<folder[c], k>>], <<>>, "none", 0)
  BY <1>3, Dropped
<1>5. StaysOld(c, k)
  BY <1>2, <1>3, NewestOfLess DEF StaysOld
<1>6. OneSlot(c, k)
  BY <1>2, <1>3, <1>4 DEF OneSlot
<1>7. Kinds'
  BY <1>2, <1>3 DEF Kinds
<1> QED
  BY <1>5, <1>6, <1>7, SlotStep, HandStep

\* fopen truncates the file, or has the stream write at its end.
LEMMA FOpenStep ==
    ASSUME Kinds, DataInv, HomeInv, HandInv, NEW c \in Calls, NEW k \in Categories,
           NEW mode \in {"ab", "wb"}, FOpen(c, k, mode),
           folder' = folder, log' = log, at' = at, buffer' = buffer,
           Places', OnlyCall(c)
    PROVE  Kinds' /\ DataInv' /\ HomeInv' /\ HandInv' /\ handle'[<<c, k>>] = mode
<1> DEFINE f == <<folder[c], k>>
<1>0. <<c, k>> \in Slots /\ f \in Files
  BY DEF Kinds, Slots, Files
<1>1. /\ handle' \in [Slots -> Modes] /\ handle'[<<c, k>>] = mode
      /\ \A s \in Slots : s # <<c, k>> => handle'[s] = handle[s]
  BY <1>0 DEF FOpen, Kinds, Modes
<1>2. /\ disk' \in [Files -> Seq(V)]
      /\ disk'[f] = IF mode = "wb" THEN <<>> ELSE disk[f]
      /\ \A x \in Files : x # f => disk'[x] = disk[x]
  BY <1>0 DEF FOpen, FileOf, Label, Kinds
<1>3. SlotOK(c, k, log[c], disk[f], buffer[<<c, k>>], handle[<<c, k>>], at[<<c, k>>])
  BY DEF DataInv
<1>4. SlotOK(c, k, log[c], disk'[f], buffer'[<<c, k>>], handle'[<<c, k>>], at'[<<c, k>>])
  BY <1>1, <1>2, <1>3, Opened
<1>5. \A e \in Calls \ {c} : Kept(disk[f], disk'[f], e)
  BY <1>2 DEF Kept
<1>6. StaysOld(c, k)
  BY <1>2, NewestOfLess DEF StaysOld
<1>7. OneSlot(c, k)
  BY <1>1, <1>2, <1>4, <1>5 DEF OneSlot, Kinds
<1>8. Kinds'
  BY <1>1, <1>2 DEF Kinds
<1> QED
  BY <1>1, <1>6, <1>7, <1>8, SlotStep, HandStep

\* fwrite takes the entry in hand, or nothing.
LEMMA FWriteStep ==
    ASSUME Kinds, DataInv, HomeInv, HandInv, NEW c \in Calls, NEW k \in Categories,
           k = Of(c), pc[c] \in InCall, NEW ok \in BOOLEAN, FWrite(c, k, ok),
           folder' = folder, log' = log, disk' = disk, handle' = handle, at' = at,
           Places', OnlyCall(c), pc'[c] \in InCall => ~ok
    PROVE  Kinds' /\ DataInv' /\ HomeInv' /\ HandInv'
<1>0. <<c, k>> \in Slots /\ <<folder[c], k>> \in Files /\ log[c] \in Seq(Categories)
  BY DEF Kinds, Slots, Files
<1>1. HandOK(c, pc[c], hand[c], log[c])
  BY DEF HandInv
<1>2. hand[c] \in InHand /\ hand[c].empty \in BOOLEAN
  BY <1>1 DEF HandOK, InHand
<1>3. CASE buffer' = buffer
  <2>1. Kinds' /\ Quiet
    BY <1>3 DEF Kinds, Quiet
  <2> QED
    BY <2>1, QuietStep
<1>4. CASE ok = ~hand[c].empty /\ buffer' = [buffer EXCEPT ![<<c, k>>] = @ \o Content(c)]
  <2>1. CASE hand[c].empty
    <3>1. buffer[<<c, k>>] \o <<>> = buffer[<<c, k>>]
      BY <1>0 DEF Kinds
    <3>2. buffer' = buffer
      BY <1>0, <1>4, <2>1, <3>1 DEF Content, Kinds
    <3> QED
      BY <3>2, <1>3
  <2>2. CASE ~hand[c].empty
    <3> DEFINE n == Len(log[c])
               B == buffer[<<c, k>>] \o << <<c, n>> >>
    <3>1. /\ n \in DOMAIN log[c] /\ log[c][n] = k
          /\ Newest(c, n, disk[<<folder[c], k>>], buffer[<<c, k>>])
      BY <1>0, <1>1, <2>2 DEF HandOK, Of
    <3>2. /\ disk[<<folder[c], k>>] \in Seq(V) /\ buffer[<<c, k>>] \in Seq(U)
          /\ SlotOK(c, k, log[c], disk[<<folder[c], k>>], buffer[<<c, k>>], handle[<<c, k>>], at[<<c, k>>])
      BY <1>0 DEF Kinds, DataInv
    <3>3. B \in Seq(U) /\ SlotOK(c, k, log[c], disk[<<folder[c], k>>], B, handle[<<c, k>>], at[<<c, k>>])
      <4> HIDE DEF n
      <4> QED
        BY <1>0, <3>1, <3>2, Buffered
    <3>4. buffer' = [buffer EXCEPT ![<<c, k>>] = B]
      BY <1>4, <2>2 DEF Content, Unit
    <3> HIDE DEF B
    <3>5. /\ buffer' \in [Slots -> Seq(U)] /\ buffer'[<<c, k>>] = B
          /\ \A s \in Slots : s # <<c, k>> => buffer'[s] = buffer[s]
      BY <1>0, <3>3, <3>4 DEF Kinds
    <3>6. \A e \in Calls \ {c} : Kept(disk[<<folder[c], k>>], disk'[<<folder[c], k>>], e)
      BY DEF Kept
    <3>7. OneSlot(c, k)
      BY <3>3, <3>5, <3>6 DEF OneSlot, Kinds
    <3>8. pc'[c] \notin InCall
      BY <1>2, <1>4, <2>2
    <3>9. Kinds'
      BY <3>5 DEF Kinds
    <3> QED
      BY <3>7, <3>8, <3>9, SlotStep, HandStep
  <2> QED
    BY <2>1, <2>2
<1> QED
  BY <1>3, <1>4 DEF FWrite

\* A new entry: it is newer than all that the call has written.
LEMMA DebugStep ==
    ASSUME Kinds, DataInv, HomeInv, HandInv, NEW c \in Calls, Debug(c)
    PROVE  Kinds' /\ DataInv' /\ HomeInv' /\ HandInv'
<1>1. PICK k \in Categories, e \in BOOLEAN :
        /\ hand' = [hand EXCEPT ![c] = [of |-> k, empty |-> e]]
        /\ log' = IF e THEN log ELSE [log EXCEPT ![c] = Append(@, k)]
  BY DEF Debug
<1>2. /\ UNCHANGED <<folder, disk, handle, at, buffer>>
      /\ pc' = [pc EXCEPT ![c] = "enter"]
  BY DEF Debug, streams
<1>3. /\ log[c] \in Seq(Categories) /\ Append(log[c], k) \in Seq(Categories)
      /\ Len(Append(log[c], k)) > 0 /\ Append(log[c], k)[Len(Append(log[c], k))] = k
  BY DEF Kinds
<1>4. /\ \A d \in Calls \ {c} : log'[d] = log[d]
      /\ log'[c] = IF e THEN log[c] ELSE Append(log[c], k)
      /\ log' \in [Calls -> Seq(Categories)]
  <2> DEFINE lg == Append(log[c], k)
  <2>1. lg \in Seq(Categories)
    BY <1>3
  <2>2. log' = IF e THEN log ELSE [log EXCEPT ![c] = lg]
    BY <1>1
  <2> HIDE DEF lg
  <2> QED
    BY <2>1, <2>2 DEF Kinds, lg
<1>5. Kinds'
  <2>1. Places'
    BY <1>1, <1>2 DEF Kinds, Places, PCs, InCall, InHand
  <2> QED
    BY <1>2, <1>4, <2>1 DEF Kinds
<1>6. \A q \in Categories :
        LET d == disk[<<folder[c], q>>]
            b == buffer[<<c, q>>]
        IN  /\ SlotOK(c, q, log[c], d, b, handle[<<c, q>>], at[<<c, q>>])
            /\ SlotOK(c, q, Append(log[c], k), d, b, handle[<<c, q>>], at[<<c, q>>])
            /\ Newest(c, Len(Append(log[c], k)), d, b)
  <2> TAKE q \in Categories
  <2> DEFINE d == disk[<<folder[c], q>>]
             b == buffer[<<c, q>>]
  <2>1. SlotOK(c, q, log[c], d, b, handle[<<c, q>>], at[<<c, q>>])
    BY DEF DataInv
  <2>2. d \in Seq(V) /\ b \in Seq(U)
    BY DEF Kinds, Files, Slots
  <2> HIDE DEF d, b
  <2>3. /\ SlotOK(c, q, Append(log[c], k), d, b, handle[<<c, q>>], at[<<c, q>>])
        /\ Newest(c, Len(Append(log[c], k)), d, b)
    BY <1>3, <2>1, <2>2, Longer
  <2> QED
    BY <2>1, <2>3 DEF d, b
<1>7. DataInv'
  <2> SUFFICES ASSUME NEW d \in Calls, NEW q \in Categories
               PROVE  SlotOK(d, q, log'[d], disk[<<folder[d], q>>], buffer[<<d, q>>],
                             handle[<<d, q>>], at[<<d, q>>])
    BY <1>2 DEF DataInv
  <2>1. CASE d = c
    BY <1>4, <1>6, <2>1
  <2>2. CASE d # c
    BY <1>4, <2>2 DEF DataInv
  <2> QED
    BY <2>1, <2>2
<1>8. HomeInv'
  BY <1>2 DEF HomeInv
<1>9. HandInv'
  <2> SUFFICES ASSUME NEW d \in Calls
               PROVE  HandOK(d, pc[d], hand[d], log[d])'
    BY DEF HandInv
  <2>1. CASE d # c
    <3>1. pc'[d] = pc[d] /\ log'[d] = log[d] /\ hand'[d] = hand[d]
      BY <1>1, <1>2, <1>4, <2>1 DEF Kinds, Places
    <3> QED
      BY <1>2, <3>1 DEF HandInv, HandOK
  <2>2. CASE d = c
    <3>1. hand'[c] = [of |-> k, empty |-> e]
      BY <1>1 DEF Kinds, Places
    <3>2. hand'[c] \in InHand /\ hand'[c].of = k /\ hand'[c].empty = e
      BY <3>1 DEF InHand
    <3> QED
      BY <1>2, <1>3, <1>4, <1>6, <2>2, <3>2 DEF HandOK
  <2> QED
    BY <2>1, <2>2
<1> QED
  BY <1>5, <1>7, <1>8, <1>9

\* A stream is open until the call that writes to it or gives it up moves on.
LEMMA OpenStep ==
    ASSUME NEW c \in Calls, OpenInv, OnlyCall(c), HandInv,
           \A s \in Slots : s[1] # c => handle'[s] = handle[s],
           pc'[c] \in {"write", "close", "rewrite"} => handle'[<<c, Of(c)>>] # "none"
    PROVE  OpenInv'
<1> SUFFICES ASSUME NEW e \in Calls, pc'[e] \in {"write", "close", "rewrite"}
             PROVE  handle'[<<e, Of(e)'>>] # "none"
  BY DEF OpenInv
<1>1. CASE e = c
  <2>1. hand'[c] = hand[c]
    BY <1>1 DEF OnlyCall, InCall
  <2> QED
    BY <1>1, <2>1 DEF Of
<1>2. CASE e # c
  <2>1. pc'[e] = pc[e] /\ hand'[e] = hand[e]
    BY <1>2 DEF OnlyCall
  <2>2. handle[<<e, Of(e)>>] # "none"
    BY <2>1 DEF OpenInv
  <2>3. <<e, hand[e].of>> \in Slots
    BY <1>2, <2>1 DEF HandInv, HandOK, InHand, InCall, Slots
  <2> QED
    BY <1>2, <2>1, <2>2, <2>3 DEF Of
<1> QED
  BY <1>1, <1>2

-----------------------------------------------------------------------------
(* The invariant *)

\* Initially nothing has been logged; a file holds an entry of an earlier call at most.
LEMMA InitOK == Init => IInv
<1> SUFFICES ASSUME Init PROVE IInv
  OBVIOUS
<1>1. \A x \in Files : disk[x] \in Seq(V) /\ \A i \in DOMAIN disk[x] : disk[x][i] \notin U
  <2> SUFFICES ASSUME NEW x \in Files
               PROVE  disk[x] \in Seq(V) /\ \A i \in DOMAIN disk[x] : disk[x][i] \notin U
    OBVIOUS
  <2>1. disk[x] = <<Old>> \/ disk[x] = <<>>
    BY DEF Init
  <2>2. Old \in V /\ Old \notin U
    BY NoEntry DEF V
  <2>3. CASE disk[x] = <<Old>>
    <3>1. DOMAIN <<Old>> = {1} /\ <<Old>>[1] = Old /\ <<Old>> \in Seq({Old})
      OBVIOUS
    <3>2. <<Old>> \in Seq(V)
      BY <2>2
    <3> QED
      BY <2>2, <2>3, <3>1, <3>2
  <2>4. CASE disk[x] = <<>>
    BY <2>4
  <2> QED
    BY <2>1, <2>3, <2>4
<1>2. Kinds
  <2>1. Places
    BY DEF Init, Places, PCs
  <2>2. disk \in [Files -> Seq(V)]
    BY <1>1 DEF Init
  <2>3. log \in [Calls -> Seq(Categories)]
    <3>1. <<>> \in Seq(Categories)
      OBVIOUS
    <3> QED
      BY <3>1 DEF Init
  <2>4. buffer \in [Slots -> Seq(U)]
    <3>1. <<>> \in Seq(U)
      OBVIOUS
    <3> QED
      BY <3>1 DEF Init
  <2>5. handle \in [Slots -> Modes] /\ at \in [Slots -> Nat] /\ folder \in [Calls -> Folders]
    BY DEF Init, Modes
  <2> QED
    BY <2>1, <2>2, <2>3, <2>4, <2>5 DEF Kinds
<1>3. DataInv
  <2> SUFFICES ASSUME NEW c \in Calls, NEW k \in Categories
               PROVE  SlotOK(c, k, log[c], disk[<<folder[c], k>>], buffer[<<c, k>>],
                             handle[<<c, k>>], at[<<c, k>>])
    BY DEF DataInv
  <2>1. <<folder[c], k>> \in Files /\ <<c, k>> \in Slots
    BY DEF Init, Files, Slots
  <2>2. \A i \in DOMAIN disk[<<folder[c], k>>] : ~By(disk[<<folder[c], k>>][i], c)
    BY <1>1, <2>1 DEF By
  <2>3. buffer[<<c, k>>] = <<>> /\ handle[<<c, k>>] = "none"
    BY <2>1 DEF Init
  <2> QED
    BY <2>2, <2>3 DEF SlotOK, Rising, Precedes
<1>4. HomeInv
  BY <1>1 DEF HomeInv
<1>5. HandInv /\ OpenInv
  BY DEF Init, HandInv, HandOK, OpenInv, InCall
<1> QED
  BY <1>2, <1>3, <1>4, <1>5 DEF IInv

\* Every step keeps the invariant.
LEMMA StepOK == IInv /\ [Next]_vars => IInv'
<1> SUFFICES ASSUME IInv, [Next]_vars PROVE IInv'
  OBVIOUS
<1>0. Kinds /\ DataInv /\ HomeInv /\ HandInv /\ OpenInv /\ Places
  BY DEF IInv, Kinds
<1>c. ASSUME NEW c \in Calls, pc[c] \in InCall
      PROVE  Of(c) \in Categories /\ <<c, Of(c)>> \in Slots
  BY <1>0, <1>c DEF HandInv, HandOK, InHand, Of, Slots
\* A call that returns, or goes on with the entry it has.
<1>r. ASSUME NEW c \in Calls, Return(c)
      PROVE  Places' /\ OnlyCall(c) /\ pc'[c] = "idle"
  BY <1>0, <1>r DEF Return, Places, PCs, OnlyCall, InCall
<1>g. ASSUME NEW c \in Calls, NEW q \in InCall, pc[c] \in InCall,
             pc' = [pc EXCEPT ![c] = q], hand' = hand
      PROVE  Places' /\ OnlyCall(c) /\ pc'[c] = q
  BY <1>0, <1>g DEF Places, PCs, OnlyCall
<1>e. ASSUME NEW c \in Calls, NEW q \in {"cleanup", "done"},
             pc' = [pc EXCEPT ![c] = q], hand' = hand
      PROVE  Places' /\ OnlyCall(c) /\ pc'[c] = q
  BY <1>0, <1>e DEF Places, PCs, OnlyCall, InCall
<1>q. ASSUME NEW c \in Calls, Quiet, Places', OnlyCall(c), pc'[c] \notin {"write", "close", "rewrite"}
      PROVE  IInv'
  <2>1. Kinds'
    BY <1>0, <1>q DEF Kinds, Quiet
  <2>2. OpenInv'
    BY <1>0, <1>q, OpenStep DEF Quiet
  <2> QED
    BY <1>0, <1>q, <2>1, <2>2, QuietStep DEF IInv
<1>1. ASSUME NEW c \in Calls, Debug(c) PROVE IInv'
  <2>1. pc'[c] = "enter" /\ \A d \in Calls \ {c} : pc'[d] = pc[d] /\ hand'[d] = hand[d]
    BY <1>0, <1>1 DEF Debug, Places
  <2>2. handle' = handle
    BY <1>1 DEF Debug, streams
  <2>3. OpenInv'
    BY <1>0, <2>1, <2>2 DEF OpenInv, Of
  <2> QED
    BY <1>0, <1>1, <2>3, DebugStep DEF IInv
<1>2. ASSUME NEW c \in Calls, End(c) PROVE IInv'
  <2>1. Quiet /\ Places' /\ OnlyCall(c) /\ pc'[c] = "cleanup"
    BY <1>2, <1>e DEF End, Quiet, entry, streams
  <2> QED
    BY <2>1, <1>q
<1>3. ASSUME NEW c \in Calls, Open(c) PROVE IInv'
  <2> DEFINE k == Of(c)
  <2>1. k \in Categories /\ <<c, k>> \in Slots
    BY <1>3, <1>c DEF Open, InCall
  <2>2. Places' /\ OnlyCall(c) /\ pc'[c] = "write"
    BY <1>3, <1>g DEF Open, entry, InCall
  <2>3. UNCHANGED <<folder, log, hand, at, buffer>>
    BY <1>3 DEF Open, entry
  <2>4. CASE handle[<<c, k>>] # "none"
    <3>1. Quiet
      BY <1>3, <2>3, <2>4 DEF Open, Quiet
    <3>2. Kinds'
      BY <1>0, <2>2, <3>1 DEF Kinds, Quiet
    <3>3. handle'[<<c, k>>] # "none" /\ handle' = handle
      BY <2>4, <3>1 DEF Quiet
    <3>4. OpenInv'
      BY <1>0, <2>2, <3>3, OpenStep
    <3> QED
      BY <1>0, <2>2, <3>1, <3>2, <3>4, QuietStep DEF IInv
  <2>5. CASE handle[<<c, k>>] = "none"
    <3>1. Mode(c, k) \in {"ab", "wb"} /\ FOpen(c, k, Mode(c, k))
      BY <1>3, <2>5 DEF Open, Mode
    <3>2. Kinds' /\ DataInv' /\ HomeInv' /\ HandInv' /\ handle'[<<c, k>>] # "none"
      <4> DEFINE mode == Mode(c, k)
      <4> HIDE DEF mode
      <4>1. mode \in {"ab", "wb"} /\ FOpen(c, k, mode)
        BY <3>1 DEF mode
      <4> HIDE DEF k
      <4> QED
        BY <1>0, <2>1, <2>2, <2>3, <4>1, FOpenStep
    <3>3. \A s \in Slots : s[1] # c => handle'[s] = handle[s]
      BY <1>0, <3>1 DEF FOpen, Kinds
    <3>4. OpenInv'
      BY <1>0, <2>2, <3>2, <3>3, OpenStep
    <3> QED
      BY <3>2, <3>4 DEF IInv
  <2> QED
    BY <2>4, <2>5
<1>4. ASSUME NEW c \in Calls, OpenFails(c) PROVE IInv'
  <2>1. Quiet /\ Places' /\ OnlyCall(c) /\ pc'[c] = "idle"
    BY <1>4, <1>r DEF OpenFails, Quiet, streams
  <2> QED
    BY <2>1, <1>q
<1>5. ASSUME NEW c \in Calls, Write(c) PROVE IInv'
  <2> DEFINE k == Of(c)
  <2>1. k \in Categories /\ <<c, k>> \in Slots /\ pc[c] \in InCall
    BY <1>5, <1>c DEF Write, InCall
  <2>2. PICK ok \in BOOLEAN :
          /\ FWrite(c, k, ok)
          /\ IF Failed(ok) THEN pc' = [pc EXCEPT ![c] = "close"] /\ UNCHANGED hand
             ELSE Return(c)
    BY <1>5 DEF Write
  <2>3. UNCHANGED <<folder, disk, log, handle, at>>
    BY <1>5 DEF Write
  <2>4. Places' /\ OnlyCall(c) /\ (pc'[c] \in InCall => ~ok)
    <3>1. CASE ok
      BY <2>2, <3>1, <1>r DEF Failed, InCall
    <3>2. CASE ~ok
      BY <2>1, <2>2, <3>2, <1>g DEF Failed, InCall
    <3> QED
      BY <3>1, <3>2
  <2>5. handle[<<c, k>>] # "none"
    BY <1>0, <1>5 DEF OpenInv, Write
  <2>6. OpenInv'
    BY <1>0, <2>3, <2>4, <2>5, OpenStep
  <2>7. Kinds' /\ DataInv' /\ HomeInv' /\ HandInv'
    <3>1. k = Of(c)
      OBVIOUS
    <3> HIDE DEF k
    <3> QED
      BY <1>0, <2>1, <2>2, <2>3, <2>4, <3>1, FWriteStep
  <2> QED
    BY <2>6, <2>7 DEF IInv
<1>6. ASSUME NEW c \in Calls, CloseBroken(c) PROVE IInv'
  <2> DEFINE k == Of(c)
  <2>1. k \in Categories /\ <<c, k>> \in Slots /\ pc[c] \in InCall
    BY <1>6, <1>c DEF CloseBroken, InCall
  <2>2. Places' /\ OnlyCall(c) /\ pc'[c] = "reopen"
    BY <1>6, <2>1, <1>g DEF CloseBroken, entry, InCall
  <2>3. FClose(c, k) /\ handle[<<c, k>>] # "none" /\ folder' = folder /\ log' = log
    BY <1>0, <1>6 DEF CloseBroken, OpenInv, entry
  <2>4. \A s \in Slots : s[1] # c => handle'[s] = handle[s]
    BY <1>0, <2>3 DEF FClose, Kinds
  <2>5. OpenInv'
    BY <1>0, <2>2, <2>4, OpenStep
  <2>6. Kinds' /\ DataInv' /\ HomeInv' /\ HandInv'
    <3> HIDE DEF k
    <3> QED
      BY <1>0, <2>1, <2>2, <2>3, FCloseStep
  <2> QED
    BY <2>5, <2>6 DEF IInv
<1>7. ASSUME NEW c \in Calls, Reopen(c) PROVE IInv'
  <2> DEFINE k == Of(c)
  <2>1. k \in Categories /\ <<c, k>> \in Slots /\ pc[c] \in InCall
    BY <1>7, <1>c DEF Reopen, InCall
  <2>2. Places' /\ OnlyCall(c) /\ pc'[c] = "rewrite"
    BY <1>7, <2>1, <1>g DEF Reopen, entry, InCall
  <2>3. FOpen(c, k, "ab") /\ UNCHANGED <<folder, log, at, buffer>>
    BY <1>7 DEF Reopen, ReopenMode, entry
  <2>4. \A s \in Slots : s[1] # c => handle'[s] = handle[s]
    BY <1>0, <2>3 DEF FOpen, Kinds
  <2>6. Kinds' /\ DataInv' /\ HomeInv' /\ HandInv' /\ handle'[<<c, k>>] = "ab"
    <3> HIDE DEF k
    <3> QED
      BY <1>0, <2>1, <2>2, <2>3, FOpenStep
  <2>5. OpenInv'
    BY <1>0, <2>2, <2>4, <2>6, OpenStep
  <2> QED
    BY <2>5, <2>6 DEF IInv
<1>8. ASSUME NEW c \in Calls, ReopenFails(c) PROVE IInv'
  <2>1. Quiet /\ Places' /\ OnlyCall(c) /\ pc'[c] = "idle"
    BY <1>8, <1>r DEF ReopenFails, Quiet, streams
  <2> QED
    BY <2>1, <1>q
<1>9. ASSUME NEW c \in Calls, Rewrite(c) PROVE IInv'
  <2> DEFINE k == Of(c)
  <2>1. k \in Categories /\ <<c, k>> \in Slots /\ pc[c] \in InCall
    BY <1>9, <1>c DEF Rewrite, InCall
  <2>2. PICK ok \in BOOLEAN : FWrite(c, k, ok)
    BY <1>9 DEF Rewrite
  <2>3. UNCHANGED <<folder, disk, log, handle, at>>
    BY <1>9 DEF Rewrite
  <2>4. Places' /\ OnlyCall(c) /\ pc'[c] = "idle"
    BY <1>9, <1>r DEF Rewrite
  <2>5. OpenInv'
    BY <1>0, <2>3, <2>4, OpenStep
  <2>6. Kinds' /\ DataInv' /\ HomeInv' /\ HandInv'
    <3>1. k = Of(c) /\ (pc'[c] \in InCall => ~ok)
      BY <2>4 DEF InCall
    <3> HIDE DEF k
    <3> QED
      BY <1>0, <2>1, <2>2, <2>3, <2>4, <3>1, FWriteStep
  <2> QED
    BY <2>5, <2>6 DEF IInv
<1>10. ASSUME NEW c \in Calls, Done(c) PROVE IInv'
  <2>1. Quiet /\ Places' /\ OnlyCall(c) /\ pc'[c] = "done"
    BY <1>10, <1>e DEF Done, Quiet, entry, streams
  <2> QED
    BY <2>1, <1>q
<1>11. ASSUME NEW c \in Calls, NEW k \in Categories, Flush(c, k) PROVE IInv'
  <2>1. UNCHANGED <<pc, hand, handle>>
    BY <1>11 DEF Flush, entry
  <2>2. OpenInv'
    BY <1>0, <2>1 DEF OpenInv, Of
  <2> QED
    BY <1>0, <1>11, <2>2, FlushStep DEF IInv
<1>12. ASSUME NEW c \in Calls, NEW k \in Categories, CloseOne(c, k) PROVE IInv'
  <2>1. UNCHANGED <<pc, hand, folder, log>> /\ FClose(c, k) /\ handle[<<c, k>>] # "none"
        /\ pc[c] = "cleanup"
    BY <1>12 DEF CloseOne, entry
  <2>2. Places' /\ OnlyCall(c)
    BY <1>0, <2>1 DEF Places, OnlyCall, InCall
  <2>3. \A s \in Slots : s[1] # c => handle'[s] = handle[s]
    BY <1>0, <2>1 DEF FClose, Kinds
  <2>4. OpenInv'
    BY <1>0, <2>1, <2>2, <2>3, OpenStep
  <2> QED
    BY <1>0, <2>1, <2>2, <2>4, FCloseStep DEF IInv
<1>13. CASE Finished \/ UNCHANGED vars
  BY <1>0, <1>13 DEF Finished, vars, IInv, Kinds, Places, DataInv, HomeInv, HandInv, HandOK, OpenInv, Of
<1> QED
  BY <1>1, <1>2, <1>3, <1>4, <1>5, <1>6, <1>7, <1>8, <1>9, <1>10, <1>11, <1>12, <1>13 DEF Next

\* The invariant holds in every reachable state.
THEOREM Invariance == Spec => []IInv
  BY InitOK, StepOK, PTL DEF Spec

\* In curl_debug_function path, size and stream of the seven categories belong
\* together: a log file holds entries of its own category only, whatever calls
\* share the folder and whatever fails.
THEOREM Apart == Spec => []CategoriesApart
<1>1. IInv => CategoriesApart
  <2> SUFFICES ASSUME IInv, NEW x \in Files, NEW i \in Entries(disk[x])
               PROVE  log[disk[x][i][1]][disk[x][i][2]] = x[2]
    BY DEF CategoriesApart
  <2> DEFINE c == disk[x][i][1]
  <2>1. i \in DOMAIN disk[x] /\ disk[x][i] \in U
    BY EntriesAssumption DEF Entries, Units, U, Positive
  <2>2. c \in Calls /\ By(disk[x][i], c)
    BY <2>1 DEF U, By
  <2>3. folder[c] = x[1]
    BY <2>1 DEF IInv, HomeInv
  <2>4. x = <<folder[c], x[2]>> /\ x[2] \in Categories
    BY <2>3 DEF Files
  <2>5. SlotOK(c, x[2], log[c], disk[<<folder[c], x[2]>>], buffer[<<c, x[2]>>],
               handle[<<c, x[2]>>], at[<<c, x[2]>>])
    BY <2>2, <2>4 DEF IInv, DataInv
  <2> QED
    BY <2>1, <2>2, <2>4, <2>5 DEF SlotOK
<1> QED
  BY <1>1, Invariance, PTL

\* In every log file the entries of one call are in the order in which it made
\* them, none of them twice, although other calls truncate the file and write
\* over each other in it.
THEOREM Ordered == Spec => []OrderKept
<1>1. IInv => OrderKept
  <2> SUFFICES ASSUME IInv, NEW x \in Files, NEW i \in Entries(disk[x]), NEW j \in Entries(disk[x]),
                      i < j, disk[x][i][1] = disk[x][j][1]
               PROVE  disk[x][i][2] < disk[x][j][2]
    BY DEF OrderKept
  <2> DEFINE c == disk[x][i][1]
  <2>1. /\ i \in DOMAIN disk[x] /\ disk[x][i] \in U
        /\ j \in DOMAIN disk[x] /\ disk[x][j] \in U
    BY EntriesAssumption DEF Entries, Units, U, Positive
  <2>2. c \in Calls /\ By(disk[x][i], c) /\ By(disk[x][j], c)
    BY <2>1 DEF U, By
  <2>3. folder[c] = x[1]
    BY <2>1 DEF IInv, HomeInv
  <2>4. x = <<folder[c], x[2]>> /\ x[2] \in Categories
    BY <2>3 DEF Files
  <2>5. Rising(disk[x], c)
    BY <2>2, <2>4 DEF IInv, DataInv, SlotOK
  <2> QED
    BY <2>1, <2>2, <2>5 DEF Rising
<1> QED
  BY <1>1, Invariance, PTL

-----------------------------------------------------------------------------
(* A call with a folder of its own *)

CloseWorks == "close" \notin Faults

\* u is in file d or in buffer b.
Among(u, d, b) == (\E i \in DOMAIN d : d[i] = u) \/ (\E i \in DOMAIN b : b[i] = u)

\* File d, of which z units have been counted together with buffer b, has nothing in it
\* but entries of c, or, while there are none, what an earlier call has left.
Counted(c, lg, d, b, z) ==
    /\ z # 0 => /\ Len(d) + Len(b) = z
                /\ \A i \in DOMAIN d : d[i][1] = c /\ d[i][2] \in DOMAIN lg
    /\ z = 0 => b = <<>> /\ Own(d) = {}

\* Call c has an entry in hand that it has not written yet.
Holds(c) == pc[c] \in InCall /\ ~hand[c].empty

\* Entry n of c is written, lost, or in hand.
Accounted(c, n, d, b, z) ==
    \/ <<c, n>> \in lost
    \/ Holds(c) /\ n = Len(log[c])
    \/ z # 0 /\ Among(<<c, n>>, d, b)

\* The stream, and the file under it, of a call that is alone: a file nothing has been
\* written to is empty once it has been opened.
StreamOK(d, b, h, a, z) ==
    /\ h = "none" => b = <<>> /\ a = 0
    /\ h # "none" /\ z = 0 => d = <<>>
    /\ h = "wb" => a = Len(d)

LoneOK(c, k) ==
    LET d == disk[<<folder[c], k>>]
        b == buffer[<<c, k>>]
        z == size[<<c, k>>]
    IN  /\ Counted(c, log[c], d, b, z)
        /\ StreamOK(d, b, handle[<<c, k>>], at[<<c, k>>], z)
        /\ pc[c] = "reopen" /\ k = Of(c) /\ z = 0 => d = <<>>
        /\ \A n \in DOMAIN log[c] : log[c][n] = k => Accounted(c, n, d, b, z)

LoneInv == \A c \in Calls : Alone(c) => \A k \in Categories : LoneOK(c, k)
SizeInv == size \in [Slots -> Nat]


\* A call that is done has closed its streams.
DoneInv == \A c \in Calls, k \in Categories : pc[c] = "done" => handle[<<c, k>>] = "none"

LInv == IInv /\ SizeInv /\ LoneInv /\ DoneInv

\* A file, and what is left in the buffer, when n units have been appended to the file.
Filled(d, b, n) == IF n = 0 THEN d ELSE WriteAt(d, Len(d), SubSeq(b, 1, n))
Rest(b, n)      == SubSeq(b, n + 1, Len(b))

-----------------------------------------------------------------------------
(* Lemmas about one file and one buffer *)

\* Writing at the end of a file appends to it.
LEMMA WriteAtEnd ==
    ASSUME NEW d \in Seq(V), NEW s \in Seq(U)
    PROVE  /\ WriteAt(d, Len(d), s) \in Seq(V)
           /\ Len(WriteAt(d, Len(d), s)) = Len(d) + Len(s)
           /\ \A i \in DOMAIN d : WriteAt(d, Len(d), s)[i] = d[i]
           /\ \A i \in DOMAIN s : WriteAt(d, Len(d), s)[Len(d) + i] = s[i]
<1> DEFINE p == Len(d)
           m == Max({p, p + Len(s)})
<1>1. p \in Nat /\ m = p + Len(s) /\ m \in Nat
  BY MaxIs
<1>2. WriteAt(d, p, s) = [i \in 1 .. m |-> IF i \in p + 1 .. p + Len(s) THEN s[i - p]
                                          ELSE IF i <= p THEN d[i] ELSE Hole]
  BY DEF WriteAt
<1>3. WriteAt(d, p, s) \in Seq(V)
  BY <1>1, WriteAtIs
<1> HIDE DEF m
<1>4. DOMAIN WriteAt(d, p, s) = 1 .. m
  BY <1>2
<1>5. Len(WriteAt(d, p, s)) = p + Len(s)
  BY <1>1, <1>3, <1>4
<1>6. \A i \in DOMAIN d : WriteAt(d, p, s)[i] = d[i]
  BY <1>1, <1>2
<1>7. \A i \in DOMAIN s : WriteAt(d, p, s)[p + i] = s[i]
  <2> TAKE i \in DOMAIN s
  <2>1. p + i \in p + 1 .. p + Len(s) /\ p + i \in 1 .. m /\ (p + i) - p = i
    BY <1>1
  <2> HIDE DEF p
  <2> QED
    BY <2>1, <1>2
<1> QED
  BY <1>3, <1>5, <1>6, <1>7

\* What moves from the buffer to the end of the file is still there, and counted.
LEMMA Moved ==
    ASSUME NEW c \in Calls, NEW lg, NEW d \in Seq(V), NEW b \in Seq(U), NEW z \in Nat,
           NEW n \in 0 .. Len(b), Counted(c, lg, d, b, z), z = 0 => d = <<>>,
           \A i \in DOMAIN b : b[i][1] = c /\ b[i][2] \in DOMAIN lg
    PROVE  /\ Counted(c, lg, Filled(d, b, n), Rest(b, n), z)
           /\ Len(Filled(d, b, n)) = Len(d) + n
           /\ z = 0 => Filled(d, b, n) = <<>>
           /\ \A u : Among(u, d, b) => Among(u, Filled(d, b, n), Rest(b, n))
<1> DEFINE D == Filled(d, b, n)
           B == Rest(b, n)
<1>0. /\ D = IF n = 0 THEN d ELSE WriteAt(d, Len(d), SubSeq(b, 1, n))
      /\ B = SubSeq(b, n + 1, Len(b))
  BY DEF Filled, Rest
<1> HIDE DEF D, B
<1> USE <1>0
<1>1. /\ SubSeq(b, 1, n) \in Seq(U) /\ Len(SubSeq(b, 1, n)) = n
      /\ \A i \in 1 .. n : SubSeq(b, 1, n)[i] = b[i]
      /\ B \in Seq(U)
      /\ \A i \in DOMAIN B : i + n \in DOMAIN b /\ B[i] = b[i + n]
  BY PartsAre
<1>2. Len(B) = Len(b) - n /\ \A i \in DOMAIN b : i > n => i - n \in DOMAIN B /\ B[i - n] = b[i]
  OBVIOUS
<1>3. /\ D \in Seq(V) /\ Len(D) = Len(d) + n
      /\ \A i \in DOMAIN d : i \in DOMAIN D /\ D[i] = d[i]
      /\ \A i \in 1 .. n : Len(d) + i \in DOMAIN D /\ D[Len(d) + i] = b[i]
  <2>1. CASE n = 0
    BY <2>1
  <2>2. CASE n # 0
    <3> DEFINE s == SubSeq(b, 1, n)
    <3>1. D = WriteAt(d, Len(d), s) /\ s \in Seq(U) /\ Len(s) = n /\ DOMAIN s = 1 .. n
      <4>1. D = WriteAt(d, Len(d), s)
        BY <2>2
      <4>2. s \in Seq(U) /\ Len(s) = n
        BY <1>1
      <4> HIDE DEF s
      <4> QED
        BY <4>1, <4>2
    <3> HIDE DEF s
    <3>2. /\ D \in Seq(V) /\ Len(D) = Len(d) + n
          /\ \A i \in DOMAIN d : D[i] = d[i]
          /\ \A i \in 1 .. n : D[Len(d) + i] = s[i]
      <4>1. /\ WriteAt(d, Len(d), s) \in Seq(V)
            /\ Len(WriteAt(d, Len(d), s)) = Len(d) + Len(s)
            /\ \A i \in DOMAIN d : WriteAt(d, Len(d), s)[i] = d[i]
            /\ \A i \in DOMAIN s : WriteAt(d, Len(d), s)[Len(d) + i] = s[i]
        BY <3>1, WriteAtEnd
      <4> QED
        BY <3>1, <4>1
    <3>3. \A i \in 1 .. n : s[i] = b[i]
      BY <1>1 DEF s
    <3> QED
      <4>1. \A i \in DOMAIN d : i \in DOMAIN D
        BY <3>2
      <4>2. \A i \in 1 .. n : Len(d) + i \in DOMAIN D
        BY <3>2
      <4> QED
        BY <3>2, <3>3, <4>1, <4>2
  <2> QED
    BY <2>1, <2>2
<1>4. \A i \in DOMAIN D : i \in DOMAIN d \/ (i - Len(d) \in 1 .. n /\ i = Len(d) + (i - Len(d)))
  BY <1>3
<1>5. \A i \in 1 .. n : i \in DOMAIN b
  OBVIOUS
<1>6. ASSUME z # 0
      PROVE  \A i \in DOMAIN D : D[i][1] = c /\ D[i][2] \in DOMAIN lg
  <2> TAKE i \in DOMAIN D
  <2>1. CASE i \in DOMAIN d
    BY <1>3, <1>6, <2>1 DEF Counted
  <2>2. CASE i - Len(d) \in 1 .. n /\ i = Len(d) + (i - Len(d))
    <3> DEFINE j == i - Len(d)
    <3>1. j \in 1 .. n /\ D[i] = b[j]
      BY <1>3, <2>2
    <3> HIDE DEF j
    <3> QED
      BY <3>1, <1>5
  <2> QED
    BY <1>4, <2>1, <2>2
<1>7. z = 0 => b = <<>> /\ D = <<>> /\ B = <<>>
  <2> SUFFICES ASSUME z = 0 PROVE b = <<>> /\ D = <<>> /\ B = <<>>
    OBVIOUS
  <2>1. b = <<>> /\ d = <<>> /\ n = 0
    BY DEF Counted
  <2>2. D = d
    BY <2>1
  <2>3. B = <<>>
    <3>1. Len(B) = 0
      BY <2>1, <1>2
    <3> QED
      BY <1>1, <3>1
  <2> QED
    BY <2>1, <2>2, <2>3
<1>8. z # 0 => Len(D) + Len(B) = z
  <2>1. Len(d) \in Nat /\ Len(b) \in Nat /\ n \in Nat
    OBVIOUS
  <2>2. z # 0 => Len(d) + Len(b) = z
    BY DEF Counted
  <2>3. Len(D) = Len(d) + n /\ Len(B) = Len(b) - n
    BY <1>2, <1>3
  <2> QED
    BY ONLY <2>1, <2>2, <2>3
<1>9. Counted(c, lg, D, B, z)
  BY <1>6, <1>7, <1>8 DEF Counted
<1>10. ASSUME NEW u, Among(u, d, b) PROVE Among(u, D, B)
  <2>1. CASE \E i \in DOMAIN d : d[i] = u
    BY <2>1, <1>3 DEF Among
  <2>2. CASE \E i \in DOMAIN b : b[i] = u
    <3>1. PICK i \in DOMAIN b : b[i] = u
      BY <2>2
    <3>2. CASE i <= n
      <4>1. i \in 1 .. n
        BY <3>2
      <4> QED
        BY <3>1, <4>1, <1>3 DEF Among
    <3>3. CASE i > n
      BY <3>1, <3>3, <1>2 DEF Among
    <3> QED
      BY <3>2, <3>3
  <2> QED
    BY <1>10, <2>1, <2>2 DEF Among
<1> QED
  BY <1>3, <1>7, <1>9, <1>10 DEF D, B

-----------------------------------------------------------------------------
(* Steps *)

\* Nothing of the slot of c and k is touched, and an entry of it that was in hand still
\* is, or is lost.
Untouched(c, k) ==
    /\ folder' = folder /\ log'[c] = log[c] /\ lost \subseteq lost'
    /\ disk'[<<folder[c], k>>] = disk[<<folder[c], k>>]
    /\ buffer'[<<c, k>>] = buffer[<<c, k>>] /\ handle'[<<c, k>>] = handle[<<c, k>>]
    /\ at'[<<c, k>>] = at[<<c, k>>] /\ size'[<<c, k>>] = size[<<c, k>>]
    /\ Holds(c) /\ log[c][Len(log[c])] = k => Holds(c)' \/ <<c, Len(log[c])>> \in lost'
    /\ pc'[c] = "reopen" => pc[c] = "reopen" /\ hand'[c] = hand[c]

LEMMA UntouchedStep ==
    ASSUME NEW c, NEW k, Untouched(c, k), LoneOK(c, k)
    PROVE  LoneOK(c, k)'
<1> DEFINE d == disk[<<folder[c], k>>]
           b == buffer[<<c, k>>]
           z == size[<<c, k>>]
<1>1. /\ Counted(c, log[c], d, b, z)'
      /\ StreamOK(d, b, handle[<<c, k>>], at[<<c, k>>], z)'
  BY DEF Untouched, LoneOK, Counted, StreamOK
<1>2. (pc[c] = "reopen" /\ k = Of(c) /\ z = 0 => d = <<>>)'
  BY DEF Untouched, LoneOK, Of
<1>3. ASSUME NEW n \in DOMAIN log[c], log[c][n] = k
      PROVE  Accounted(c, n, d, b, z)'
  <2>1. Accounted(c, n, d, b, z)
    BY <1>3 DEF LoneOK
  <2>2. CASE <<c, n>> \in lost
    BY <2>2 DEF Untouched, Accounted
  <2>3. CASE Holds(c) /\ n = Len(log[c])
    BY <1>3, <2>3 DEF Untouched, Accounted
  <2>4. CASE z # 0 /\ Among(<<c, n>>, d, b)
    BY <2>4 DEF Untouched, Accounted, Among
  <2> QED
    BY <2>1, <2>2, <2>3, <2>4 DEF Accounted
<1> QED
  BY <1>1, <1>2, <1>3 DEF Untouched, LoneOK

\* A step of call c, in which only its slot for k changes, if any.
OneCall(c, k) ==
    /\ folder' = folder /\ lost \subseteq lost'
    /\ \A e \in Calls \ {c} : pc'[e] = pc[e] /\ hand'[e] = hand[e]
    /\ log' = log
    /\ \A x \in Files : x # <<folder[c], k>> => disk'[x] = disk[x]
    /\ \A s \in Slots : s # <<c, k>> =>
         /\ buffer'[s] = buffer[s] /\ handle'[s] = handle[s]
         /\ at'[s] = at[s] /\ size'[s] = size[s]

\* It is enough to look at this slot: the calls that are alone have other files, and the
\* other slots of c have no entry in hand.
LEMMA OneCallStep ==
    ASSUME IInv, LoneInv, NEW c \in Calls, NEW k \in Categories, OneCall(c, k),
           \/ pc[c] \notin InCall
           \/ pc'[c] = pc[c] /\ hand'[c] = hand[c]
           \/ k = Of(c) /\ (pc'[c] = "reopen" => hand'[c] = hand[c]),
           Alone(c) => LoneOK(c, k)',
           pc[c] \notin InCall => pc'[c] \notin InCall
    PROVE  LoneInv'
<1>1. SUFFICES ASSUME NEW e \in Calls, Alone(e), NEW q \in Categories
               PROVE  LoneOK(e, q)'
  BY DEF LoneInv, Alone, OneCall
<1>2. LoneOK(e, q)
  BY <1>1 DEF LoneInv
<1>3. <<folder[e], q>> \in Files /\ <<e, q>> \in Slots
  BY DEF IInv, Kinds, Files, Slots
<1>4. CASE e # c
  <2>1. <<folder[e], q>> # <<folder[c], k>> /\ <<e, q>> # <<c, k>>
    BY <1>1, <1>4 DEF Alone
  <2>2. Untouched(e, q)
    BY <1>3, <1>4, <2>1 DEF OneCall, Untouched, Holds
  <2> QED
    BY <1>2, <2>2, UntouchedStep
<1>5. CASE e = c /\ q # k
  <2>1. <<folder[e], q>> # <<folder[c], k>> /\ <<e, q>> # <<c, k>>
    BY <1>5
  <2>2. Holds(c) => hand[c].of = log[c][Len(log[c])]
    BY DEF Holds, IInv, HandInv, HandOK
  <2>3. UNCHANGED <<buffer[<<c, q>>], handle[<<c, q>>], at[<<c, q>>], size[<<c, q>>],
                    disk[<<folder[c], q>>]>>
    BY <1>3, <1>5, <2>1 DEF OneCall
  <2>4. CASE pc[c] \notin InCall
    <3>1. Untouched(c, q)
      BY <2>3, <2>4 DEF OneCall, Untouched, Holds, InCall
    <3> QED
      BY <1>2, <1>5, <3>1, UntouchedStep
  <2>5. CASE pc'[c] = pc[c] /\ hand'[c] = hand[c]
    <3>1. Untouched(c, q)
      BY <2>3, <2>5 DEF OneCall, Untouched, Holds
    <3> QED
      BY <1>2, <1>5, <3>1, UntouchedStep
  <2>6. CASE k = Of(c) /\ (pc'[c] = "reopen" => hand'[c] = hand[c])
    <3>1. ~(Holds(c) /\ log[c][Len(log[c])] = q)
      BY <1>5, <2>2, <2>6 DEF Of
    <3>2. ~(pc'[c] = "reopen" /\ q = Of(c)')
      BY <1>5, <2>6 DEF Of
    <3>3. LoneOK(c, q)'
      <4> DEFINE d == disk[<<folder[c], q>>]
                 b == buffer[<<c, q>>]
                 z == size[<<c, q>>]
      <4>1. /\ Counted(c, log[c], d, b, z)'
            /\ StreamOK(d, b, handle[<<c, q>>], at[<<c, q>>], z)'
        BY <1>2, <1>5, <2>3, ZenonT(60) DEF OneCall, LoneOK, Counted, StreamOK
      <4>2. ASSUME NEW n \in DOMAIN log[c], log[c][n] = q
            PROVE  Accounted(c, n, d, b, z)'
        <5>1. Accounted(c, n, d, b, z)
          BY <1>2, <1>5, <4>2 DEF LoneOK
        <5>2. <<c, n>> \in lost \/ (z # 0 /\ Among(<<c, n>>, d, b))
          BY <3>1, <4>2, <5>1 DEF Accounted
        <5> QED
          BY <2>3, <5>2 DEF OneCall, Accounted, Among
      <4> QED
        BY <3>2, <4>1, <4>2 DEF OneCall, LoneOK
    <3> QED
      BY <1>5, <3>3
  <2> QED
    BY <2>4, <2>5, <2>6
<1> QED
  BY <1>1, <1>4, <1>5

\* A step that touches no slot but one entry of a call, which is lost if it was in hand.
LEMMA AllUntouched ==
    ASSUME LoneInv, folder' = folder,
           \A e \in Calls, q \in Categories : Untouched(e, q)
    PROVE  LoneInv'
<1> SUFFICES ASSUME NEW e \in Calls, Alone(e), NEW q \in Categories
             PROVE  LoneOK(e, q)'
  BY DEF LoneInv, Alone
<1>1. LoneOK(e, q)
  BY DEF LoneInv
<1> QED
  BY <1>1, UntouchedStep

\* A step that keeps what the slot of c and k holds, and the entry in hand.
LEMMA KeptStep ==
    ASSUME NEW c, NEW k, LoneOK(c, k),
           folder' = folder, log' = log, lost \subseteq lost', hand'[c] = hand[c],
           pc[c] \in InCall => pc'[c] \in InCall,
           NEW D, D = disk'[<<folder[c], k>>], NEW B, B = buffer'[<<c, k>>],
           NEW z, z = size[<<c, k>>], size'[<<c, k>>] = z,
           Counted(c, log[c], D, B, z),
           StreamOK(D, B, handle'[<<c, k>>], at'[<<c, k>>], z),
           pc'[c] = "reopen" /\ z = 0 => D = <<>>,
           z # 0 => \A u : Among(u, disk[<<folder[c], k>>], buffer[<<c, k>>]) => Among(u, D, B)
    PROVE  LoneOK(c, k)'
<1> DEFINE d == disk[<<folder[c], k>>]
           b == buffer[<<c, k>>]
<1>1. ASSUME NEW n \in DOMAIN log[c], log[c][n] = k
      PROVE  Accounted(c, n, D, B, z)'
  <2>1. Accounted(c, n, d, b, z)
    BY <1>1 DEF LoneOK
  <2>2. CASE <<c, n>> \in lost
    BY <2>2 DEF Accounted
  <2>3. CASE Holds(c) /\ n = Len(log[c])
    BY <2>3 DEF Accounted, Holds
  <2>4. CASE z # 0 /\ Among(<<c, n>>, d, b)
    BY <2>4 DEF Accounted, Among
  <2> QED
    BY <2>1, <2>2, <2>3, <2>4 DEF Accounted
<1>2. Counted(c, log[c], D, B, z)'
  BY DEF Counted
<1>3. StreamOK(D, B, handle[<<c, k>>], at[<<c, k>>], z)'
  BY DEF StreamOK
<1> QED
  BY <1>1, <1>2, <1>3 DEF LoneOK

\* A stream of a call that is alone writes out n units: at the end of the file, in
\* either mode.
LEMMA LoneOut ==
    ASSUME Kinds, DataInv, SizeInv, NEW c \in Calls, NEW k \in Categories, LoneOK(c, k),
           NEW n \in 0 .. Len(buffer[<<c, k>>]), handle[<<c, k>>] # "none", WriteOut(c, k, n)
    PROVE  LET d == disk[<<folder[c], k>>]
               b == buffer[<<c, k>>]
               z == size[<<c, k>>]
           IN  /\ disk'[<<folder[c], k>>] = Filled(d, b, n)
               /\ Counted(c, log[c], Filled(d, b, n), Rest(b, n), z)
               /\ Len(Filled(d, b, n)) = Len(d) + n
               /\ z = 0 => Filled(d, b, n) = <<>>
               /\ \A u : Among(u, d, b) => Among(u, Filled(d, b, n), Rest(b, n))
<1> DEFINE f == <<folder[c], k>>
           d == disk[f]
           b == buffer[<<c, k>>]
           z == size[<<c, k>>]
           h == handle[<<c, k>>]
           a == at[<<c, k>>]
<1>1. f \in Files /\ <<c, k>> \in Slots
  BY DEF Kinds, Files, Slots
<1>2. d \in Seq(V) /\ b \in Seq(U) /\ h \in {"ab", "wb"} /\ z \in Nat
  BY <1>1 DEF Kinds, Modes, SizeInv
<1>3. Counted(c, log[c], d, b, z) /\ (z = 0 => d = <<>>) /\ (h = "wb" => a = Len(d))
  BY DEF LoneOK, StreamOK
<1>4. \A i \in DOMAIN b : b[i][1] = c /\ b[i][2] \in DOMAIN log[c]
  BY ZenonT(60) DEF DataInv, SlotOK
<1>5. (IF h = "ab" THEN Len(d) ELSE a) = Len(d)
  BY <1>2, <1>3
<1>6. disk' = IF n = 0 THEN disk ELSE [disk EXCEPT ![f] = WriteAt(d, Len(d), SubSeq(b, 1, n))]
  BY <1>5 DEF WriteOut, FileOf, Label
<1>7. disk'[f] = Filled(d, b, n)
  BY <1>1, <1>6 DEF Kinds, Filled
<1>8. n \in 0 .. Len(b)
  OBVIOUS
<1> HIDE DEF d, b, z, h, a
<1>9. /\ Counted(c, log[c], Filled(d, b, n), Rest(b, n), z)
      /\ Len(Filled(d, b, n)) = Len(d) + n
      /\ z = 0 => Filled(d, b, n) = <<>>
      /\ \A u : Among(u, d, b) => Among(u, Filled(d, b, n), Rest(b, n))
  BY <1>2, <1>3, <1>4, <1>8, Moved
<1> QED
  BY <1>7, <1>9 DEF d, b, z

\* A stream writes out part of its buffer when it likes.
LEMMA LoneFlush ==
    ASSUME LInv, NEW c \in Calls, NEW k \in Categories, Flush(c, k)
    PROVE  LoneInv'
<1> DEFINE d == disk[<<folder[c], k>>]
           b == buffer[<<c, k>>]
           D == disk'[<<folder[c], k>>]
           z == size[<<c, k>>]
<1>0. Kinds /\ DataInv /\ SizeInv /\ IInv /\ LoneInv /\ <<c, k>> \in Slots /\ b \in Seq(U)
  BY DEF LInv, IInv, Kinds, Slots
<1>1. PICK n \in 1 .. Len(b) :
        /\ WriteOut(c, k, n)
        /\ at' = [at EXCEPT ![<<c, k>>] = IF handle[<<c, k>>] = "wb" THEN @ + n ELSE @]
        /\ buffer' = [buffer EXCEPT ![<<c, k>>] = SubSeq(@, n + 1, Len(@))]
  BY DEF Flush
<1> DEFINE B == Rest(b, n)
<1>2. n \in 0 .. Len(b) /\ handle[<<c, k>>] # "none"
  BY <1>0 DEF Flush
<1>3. UNCHANGED <<folder, pc, hand, log, handle, size, lost>>
  BY DEF Flush, entry
<1>4. /\ buffer'[<<c, k>>] = B
      /\ at'[<<c, k>>] = (IF handle[<<c, k>>] = "wb" THEN at[<<c, k>>] + n ELSE at[<<c, k>>])
      /\ \A s \in Slots : s # <<c, k>> => buffer'[s] = buffer[s] /\ at'[s] = at[s]
  <2>1. buffer' = [buffer EXCEPT ![<<c, k>>] = B]
    BY <1>1 DEF Rest
  <2> HIDE DEF B
  <2> QED
    BY <1>0, <1>1, <2>1 DEF Kinds
<1>5. disk' = IF n = 0 THEN disk
              ELSE [disk EXCEPT ![<<folder[c], k>>] =
                      WriteAt(@, IF handle[<<c, k>>] = "ab" THEN Len(d) ELSE at[<<c, k>>],
                              SubSeq(b, 1, n))]
  BY <1>1 DEF WriteOut, FileOf, Label
<1>6. \A x \in Files : x # <<folder[c], k>> => disk'[x] = disk[x]
  BY <1>0, <1>5 DEF Kinds
<1>7. ASSUME Alone(c) PROVE LoneOK(c, k)'
  <2>1. LoneOK(c, k)
    BY <1>0, <1>7 DEF LoneInv
  <2>2. /\ Counted(c, log[c], D, B, z)
        /\ Len(D) = Len(d) + n
        /\ z = 0 => D = <<>>
        /\ \A u : Among(u, d, b) => Among(u, D, B)
    <3>1. D = Filled(d, b, n)
      BY <1>0, <1>1, <1>2, <2>1, LoneOut
    <3> QED
      BY <1>0, <1>1, <1>2, <2>1, <3>1, LoneOut
  <2>3. StreamOK(D, B, handle'[<<c, k>>], at'[<<c, k>>], z)
    BY <1>2, <1>3, <1>4, <2>1, <2>2 DEF StreamOK, LoneOK
  <2> HIDE DEF B, D, z
  <2>4. D = disk'[<<folder[c], k>>] /\ B = buffer'[<<c, k>>] /\ z = size[<<c, k>>]
        /\ size'[<<c, k>>] = z
    BY <1>3, <1>4 DEF D, z
  <2> QED
    BY <1>3, <2>1, <2>2, <2>3, <2>4, KeptStep
<1>8. OneCall(c, k)
  BY <1>3, <1>4, <1>6 DEF OneCall
<1> QED
  BY <1>0, <1>3, <1>7, <1>8, OneCallStep

\* fclose writes out all there is.
LEMMA LoneClose ==
    ASSUME CloseWorks, LInv, NEW c \in Calls, NEW k \in Categories, FClose(c, k),
           handle[<<c, k>>] # "none", UNCHANGED <<folder, log, hand, size, lost>>,
           \A e \in Calls \ {c} : pc'[e] = pc[e],
           \/ pc[c] \notin InCall /\ pc'[c] = pc[c]
           \/ k = Of(c) /\ pc[c] \in InCall /\ pc'[c] \in InCall
    PROVE  LoneInv'
<1> DEFINE d == disk[<<folder[c], k>>]
           b == buffer[<<c, k>>]
           n == Len(b)
           D == disk'[<<folder[c], k>>]
           B == Rest(b, n)
           z == size[<<c, k>>]
<1>0. Kinds /\ DataInv /\ SizeInv /\ IInv /\ LoneInv /\ <<c, k>> \in Slots /\ b \in Seq(U)
  BY DEF LInv, IInv, Kinds, Slots
<1>1. WriteOut(c, k, n) /\ n \in 0 .. Len(b)
  BY <1>0 DEF FClose, CloseWorks
<1>2. B = <<>>
  BY <1>0 DEF Rest
<1>3. /\ buffer'[<<c, k>>] = <<>> /\ handle'[<<c, k>>] = "none" /\ at'[<<c, k>>] = 0
      /\ \A s \in Slots : s # <<c, k>> =>
           buffer'[s] = buffer[s] /\ handle'[s] = handle[s] /\ at'[s] = at[s]
  BY <1>0 DEF FClose, Kinds
<1>4. disk' = IF n = 0 THEN disk
              ELSE [disk EXCEPT ![<<folder[c], k>>] =
                      WriteAt(@, IF handle[<<c, k>>] = "ab" THEN Len(d) ELSE at[<<c, k>>],
                              SubSeq(b, 1, n))]
  BY <1>1 DEF WriteOut, FileOf, Label
<1>5. \A x \in Files : x # <<folder[c], k>> => disk'[x] = disk[x]
  BY <1>0, <1>4 DEF Kinds
<1>6. ASSUME Alone(c) PROVE LoneOK(c, k)'
  <2>1. LoneOK(c, k)
    BY <1>0, <1>6 DEF LoneInv
  <2>2. /\ Counted(c, log[c], D, B, z)
        /\ z = 0 => D = <<>>
        /\ \A u : Among(u, d, b) => Among(u, D, B)
    <3>1. D = Filled(d, b, n)
      BY <1>0, <1>1, <2>1, LoneOut
    <3> QED
      BY <1>0, <1>1, <2>1, <3>1, LoneOut
  <2>3. StreamOK(D, B, handle'[<<c, k>>], at'[<<c, k>>], z)
    BY <1>2, <1>3 DEF StreamOK
  <2> HIDE DEF B, D, z
  <2>4. D = disk'[<<folder[c], k>>] /\ B = buffer'[<<c, k>>] /\ z = size[<<c, k>>]
        /\ size'[<<c, k>>] = z
    BY <1>2, <1>3 DEF D, z
  <2> QED
    BY <2>1, <2>2, <2>3, <2>4, KeptStep
<1>7. OneCall(c, k)
  BY <1>3, <1>5 DEF OneCall
<1> QED
  BY <1>0, <1>6, <1>7, OneCallStep

\* fopen: "wb" while nothing has been counted, and then the file is empty; "ab" when
\* something has, or when what is there has just been found to be nothing.
LEMMA LoneOpen ==
    ASSUME LInv, NEW c \in Calls, NEW k \in Categories, k = Of(c), NEW mode \in {"ab", "wb"},
           FOpen(c, k, mode), UNCHANGED <<folder, at, buffer, size, log, hand, lost>>,
           \A e \in Calls \ {c} : pc'[e] = pc[e],
           pc[c] \in InCall, pc'[c] \in {"write", "rewrite"},
           mode = "wb" => handle[<<c, k>>] = "none" /\ size[<<c, k>>] = 0,
           mode = "ab" => size[<<c, k>>] # 0 \/ pc[c] = "reopen"
    PROVE  LoneInv'
<1> DEFINE f == <<folder[c], k>>
           d == disk[f]
           b == buffer[<<c, k>>]
           D == disk'[f]
           z == size[<<c, k>>]
<1>0. Kinds /\ IInv /\ LoneInv /\ <<c, k>> \in Slots /\ f \in Files /\ pc'[c] \in InCall
  BY DEF LInv, IInv, Kinds, Slots, Files, InCall
<1>1. /\ handle'[<<c, k>>] = mode
      /\ \A s \in Slots : s # <<c, k>> => handle'[s] = handle[s]
      /\ D = IF mode = "wb" THEN <<>> ELSE d
      /\ \A x \in Files : x # f => disk'[x] = disk[x]
  BY <1>0 DEF FOpen, FileOf, Label, Kinds
<1>2. ASSUME Alone(c) PROVE LoneOK(c, k)'
  <2>1. /\ LoneOK(c, k) /\ Counted(c, log[c], d, b, z)
        /\ StreamOK(d, b, handle[<<c, k>>], at[<<c, k>>], z)
        /\ pc[c] = "reopen" /\ z = 0 => d = <<>>
    BY <1>0, <1>2 DEF LoneInv, LoneOK
  <2>2. Counted(c, log[c], D, b, z)
    <3>1. D = <<>> => Own(D) = {}
      BY DEF Own
    <3> HIDE DEF D
    <3>2. CASE D = <<>> /\ mode = "wb"
      BY <1>1, <2>1, <3>1, <3>2 DEF Counted
    <3>3. CASE D = d
      BY <2>1, <3>3 DEF Counted
    <3> QED
      BY <1>1, <3>2, <3>3
  <2>3. StreamOK(D, b, handle'[<<c, k>>], at'[<<c, k>>], z)
    <3>1. CASE mode = "wb"
      <4>1. at[<<c, k>>] = 0 /\ b = <<>> /\ D = <<>>
        BY <1>1, <2>1, <3>1 DEF StreamOK
      <4> QED
        BY <1>1, <3>1, <4>1 DEF StreamOK
    <3>2. CASE mode = "ab"
      BY <1>1, <2>1, <3>2 DEF StreamOK
    <3> QED
      BY <3>1, <3>2
  <2>4. z # 0 => \A u : Among(u, d, b) => Among(u, D, b)
    BY <1>1
  <2> HIDE DEF D, b, z
  <2>5. D = disk'[<<folder[c], k>>] /\ b = buffer'[<<c, k>>] /\ z = size[<<c, k>>]
        /\ size'[<<c, k>>] = z
    BY DEF D, b, z
  <2>6. z # 0 => \A u : Among(u, disk[<<folder[c], k>>], buffer[<<c, k>>]) => Among(u, D, b)
    BY <2>4 DEF b
  <2> QED
    BY <1>0, <2>1, <2>2, <2>3, <2>5, <2>6, KeptStep
<1>3. OneCall(c, k)
  BY <1>1 DEF OneCall
<1> QED
  BY <1>0, <1>2, <1>3, OneCallStep

\* An entry that has been accepted is counted.
LEMMA Counts ==
    ASSUME NEW c, NEW lg, NEW d \in Seq(V), NEW b \in Seq(U), NEW z \in Nat, NEW u \in U,
           Counted(c, lg, d, b, z), z = 0 => d = <<>>
    PROVE  /\ Counted(c, lg, d, b \o <<u>>, z + 1)
           /\ Among(u, d, b \o <<u>>)
           /\ \A w : Among(w, d, b) => Among(w, d, b \o <<u>>)
<1> DEFINE B == b \o <<u>>
<1>1. /\ B \in Seq(U) /\ Len(B) = Len(b) + 1 /\ Len(B) \in DOMAIN B /\ B[Len(B)] = u
      /\ \A i \in DOMAIN b : i \in DOMAIN B /\ B[i] = b[i]
  OBVIOUS
<1> HIDE DEF B
<1>2. Len(d) + Len(b) = z
  BY DEF Counted
<1>3. Len(d) + Len(B) = z + 1
  BY <1>1, <1>2, SMTT(60)
<1>4. \A i \in DOMAIN d : d[i][1] = c /\ d[i][2] \in DOMAIN lg
  <2>1. CASE z = 0
    BY <2>1
  <2>2. CASE z # 0
    BY <2>2 DEF Counted
  <2> QED
    BY <2>1, <2>2
<1>5. z + 1 # 0
  OBVIOUS
<1> QED
  BY <1>1, <1>3, <1>4, <1>5 DEF B, Counted, Among

\* fwrite takes the entry in hand, which is then counted, or leaves everything as it is;
\* then the entry stays in hand, or is lost.
LEMMA LoneWrite ==
    ASSUME LInv, NEW c \in Calls, NEW k \in Categories, k = Of(c),
           pc[c] \in {"write", "rewrite"}, NEW ok \in BOOLEAN, FWrite(c, k, ok),
           size' = [size EXCEPT ![<<c, k>>] = Grown(@, ok)],
           UNCHANGED <<folder, disk, log, handle, at>>, lost \subseteq lost',
           \A e \in Calls \ {c} : pc'[e] = pc[e] /\ hand'[e] = hand[e],
           pc'[c] \in {"idle", "close"},
           ~ok /\ ~hand[c].empty => Unit(c) \in lost' \/ (pc'[c] = "close" /\ hand'[c] = hand[c])
    PROVE  LoneInv' /\ SizeInv'
<1> DEFINE f == <<folder[c], k>>
           d == disk[f]
           b == buffer[<<c, k>>]
           B == buffer'[<<c, k>>]
           z == size[<<c, k>>]
           Z == size'[<<c, k>>]
           u == <<c, Len(log[c])>>
<1>0. Kinds /\ IInv /\ LoneInv /\ SizeInv /\ <<c, k>> \in Slots /\ f \in Files /\ pc[c] \in InCall
  BY DEF LInv, IInv, Kinds, Slots, Files, InCall
<1>1. d \in Seq(V) /\ b \in Seq(U) /\ z \in Nat /\ log[c] \in Seq(Categories)
  BY <1>0 DEF Kinds, SizeInv
<1>2. HandOK(c, pc[c], hand[c], log[c]) /\ handle[<<c, k>>] # "none"
  BY <1>0 DEF IInv, HandInv, OpenInv
<1>3. hand[c].empty \in BOOLEAN /\ (~hand[c].empty => u \in U)
  BY <1>0, <1>1, <1>2 DEF HandOK, InHand, U, Positive
<1>4. /\ Z = (IF ok THEN z + 1 ELSE z) /\ SizeInv'
      /\ \A s \in Slots : s # <<c, k>> => size'[s] = size[s]
  BY <1>0, <1>1 DEF SizeInv, Grown
<1>5. \A s \in Slots : s # <<c, k>> => buffer'[s] = buffer[s]
  BY <1>0 DEF FWrite, Kinds
<1>6. \/ ok /\ ~hand[c].empty /\ B = b \o <<u>>
      \/ ~ok /\ B = b
  <2>1. CASE buffer' = buffer /\ ok = FALSE
    BY <2>1
  <2>2. CASE ok = ~hand[c].empty /\ buffer' = [buffer EXCEPT ![<<c, k>>] = @ \o Content(c)]
    <3>1. CASE hand[c].empty
      <4>1. b \o <<>> = b
        BY <1>1
      <4> QED
        BY <1>0, <2>2, <3>1, <4>1 DEF Content, Kinds
    <3>2. CASE ~hand[c].empty
      BY <1>0, <1>3, <2>2, <3>2 DEF Content, Unit, Kinds
    <3> QED
      BY <3>1, <3>2
  <2> QED
    BY <2>1, <2>2 DEF FWrite
<1>7. ASSUME Alone(c) PROVE LoneOK(c, k)'
  <2>1. /\ LoneOK(c, k) /\ Counted(c, log[c], d, b, z)
        /\ StreamOK(d, b, handle[<<c, k>>], at[<<c, k>>], z) /\ (z = 0 => d = <<>>)
    BY <1>0, <1>2, <1>7 DEF LoneInv, LoneOK, StreamOK
  <2>2. ASSUME NEW n \in DOMAIN log[c], log[c][n] = k
        PROVE  \/ <<c, n>> \in lost
               \/ ~hand[c].empty /\ <<c, n>> = u
               \/ z # 0 /\ Among(<<c, n>>, d, b)
    BY <2>1, <2>2 DEF LoneOK, Accounted, Holds
  <2>3. /\ Counted(c, log[c], d, B, Z)
        /\ ok => z + 1 # 0 /\ Among(u, d, B) /\ \A w : Among(w, d, b) => Among(w, d, B)
    <3>1. CASE ok
      <4>1. B = b \o <<u>> /\ u \in U /\ Z = z + 1
        BY <1>3, <1>4, <1>6, <3>1
      <4> HIDE DEF d, b, B, z, Z, u
      <4>2. /\ Counted(c, log[c], d, b \o <<u>>, z + 1)
            /\ Among(u, d, b \o <<u>>)
            /\ \A w : Among(w, d, b) => Among(w, d, b \o <<u>>)
        BY <1>1, <2>1, <4>1, Counts
      <4>3. z + 1 # 0
        BY <1>1
      <4> QED
        BY <4>1, <4>2, <4>3
    <3>2. CASE ~ok
      BY <1>4, <1>6, <2>1, <3>2
    <3> QED
      BY <3>1, <3>2
  <2>4. StreamOK(d, B, handle[<<c, k>>], at[<<c, k>>], Z)
    BY <1>1, <1>2, <1>4, <2>1 DEF StreamOK
  <2>5. ASSUME NEW n \in DOMAIN log[c], log[c][n] = k
        PROVE  Accounted(c, n, d, b, z)'
    <3>1. CASE ok
      <4>1. Z = z + 1 /\ Z # 0
        BY <1>4, <2>3, <3>1
      <4>2. <<c, n>> \in lost \/ Among(<<c, n>>, d, B)
        BY <2>2, <2>3, <2>5, <3>1
      <4>3. Among(<<c, n>>, d, B) => Among(<<c, n>>, d, b)'
        BY DEF Among
      <4> QED
        BY <4>1, <4>2, <4>3 DEF Accounted
    <3>2. CASE ~ok
      <4>1. Z = z /\ B = b
        BY <1>4, <1>6, <3>2
      <4>2. CASE <<c, n>> \in lost
        BY <4>2 DEF Accounted
      <4>3. CASE ~hand[c].empty /\ <<c, n>> = u
        <5>1. u \in lost' \/ (pc'[c] = "close" /\ hand'[c] = hand[c])
          BY <3>2, <4>3 DEF Unit
        <5> QED
          BY <4>3, <5>1 DEF Accounted, Holds, InCall
      <4>4. CASE z # 0 /\ Among(<<c, n>>, d, b)
        BY <4>1, <4>4 DEF Accounted, Among
      <4> QED
        BY <2>2, <2>5, <4>2, <4>3, <4>4
    <3> QED
      BY <3>1, <3>2
  <2>6. Counted(c, log[c], d, b, z)' /\ StreamOK(d, b, handle[<<c, k>>], at[<<c, k>>], z)'
    BY <2>3, <2>4 DEF Counted, StreamOK
  <2> QED
    BY <2>5, <2>6 DEF LoneOK, Accounted
<1>8. OneCall(c, k)
  BY <1>4, <1>5 DEF OneCall
<1> QED
  BY <1>0, <1>4, <1>7, <1>8, OneCallStep

\* A new entry is in hand, unless it is empty.
LEMMA LoneDebug ==
    ASSUME LInv, NEW c \in Calls, Debug(c)
    PROVE  LoneInv'
<1>0. Kinds /\ LoneInv /\ pc[c] = "idle"
  BY DEF LInv, IInv, Debug
<1>1. PICK q \in Categories, e \in BOOLEAN :
        /\ hand' = [hand EXCEPT ![c] = [of |-> q, empty |-> e]]
        /\ log' = IF e THEN log ELSE [log EXCEPT ![c] = Append(@, q)]
  BY DEF Debug
<1>2. /\ UNCHANGED <<folder, disk, handle, at, buffer, size, lost>>
      /\ pc' = [pc EXCEPT ![c] = "enter"]
  BY DEF Debug, streams
<1> DEFINE lg == log[c]
           LG == log'[c]
<1>3. lg \in Seq(Categories)
  BY <1>0 DEF Kinds
<1>4. /\ LG = IF e THEN lg ELSE Append(lg, q)
      /\ \A d \in Calls \ {c} : log'[d] = log[d] /\ pc'[d] = pc[d] /\ hand'[d] = hand[d]
      /\ pc'[c] = "enter" /\ hand'[c].empty = e
  BY <1>0, <1>1, <1>2 DEF Kinds, Places
<1>5. /\ \A n \in DOMAIN lg : n \in DOMAIN LG /\ LG[n] = lg[n]
      /\ \A n \in DOMAIN LG : n \in DOMAIN lg \/ (~e /\ n = Len(LG))
  <2> HIDE DEF lg, LG
  <2>1. CASE e
    BY <1>4, <2>1
  <2>2. CASE ~e
    BY <1>3, <1>4, <2>2
  <2> QED
    BY <2>1, <2>2
<1> SUFFICES ASSUME NEW d \in Calls, Alone(d), NEW k \in Categories
             PROVE  LoneOK(d, k)'
  BY <1>2 DEF LoneInv, Alone
<1>6. LoneOK(d, k)
  BY <1>0 DEF LoneInv
<1>7. CASE d # c
  <2>1. Untouched(d, k)
    BY <1>2, <1>4, <1>7 DEF Untouched, Holds
  <2> QED
    BY <1>6, <2>1, UntouchedStep
<1>8. CASE d = c
  <2> DEFINE x == disk[<<folder[c], k>>]
             b == buffer[<<c, k>>]
             z == size[<<c, k>>]
  <2>1. /\ Counted(c, lg, x, b, z) /\ StreamOK(x, b, handle[<<c, k>>], at[<<c, k>>], z)
        /\ \A n \in DOMAIN lg : lg[n] = k => Accounted(c, n, x, b, z)
    BY <1>6, <1>8 DEF LoneOK
  <2>2. x' = x /\ b' = b /\ z' = z
    BY <1>2
  <2>3. Counted(c, LG, x, b, z)
    BY <1>5, <2>1 DEF Counted
  <2>4. (Counted(c, log[c], x, b, z) /\ StreamOK(x, b, handle[<<c, k>>], at[<<c, k>>], z))'
    BY <1>2, <2>1, <2>3 DEF Counted, StreamOK
  <2>5. ASSUME NEW n \in DOMAIN LG, LG[n] = k
        PROVE  Accounted(c, n, x, b, z)'
    <3>1. CASE n \in DOMAIN lg
      <4>1. <<c, n>> \in lost \/ (z # 0 /\ Among(<<c, n>>, x, b))
        BY <1>0, <1>5, <2>1, <2>5, <3>1 DEF Accounted, Holds, InCall
      <4> QED
        BY <1>2, <4>1 DEF Accounted, Among
    <3>2. CASE ~e /\ n = Len(LG)
      BY <1>4, <3>2 DEF Accounted, Holds, InCall
    <3> QED
      BY <1>5, <2>5, <3>1, <3>2
  <2>6. pc'[c] # "reopen"
    BY <1>4
  <2> QED
    BY <1>8, <2>4, <2>5, <2>6 DEF LoneOK
<1> QED
  BY <1>7, <1>8

-----------------------------------------------------------------------------
(* The invariant *)

\* Initially nothing has been logged or counted, and no stream is open.
LEMMA InitLone == Init => LInv
<1> SUFFICES ASSUME Init PROVE LInv
  OBVIOUS
<1>1. IInv
  BY InitOK
<1>2. SizeInv
  BY DEF Init, SizeInv
<1>3. DoneInv
  BY DEF Init, DoneInv
<1>4. ASSUME NEW c \in Calls, NEW k \in Categories
      PROVE  LoneOK(c, k)
  <2>1. <<c, k>> \in Slots
    BY DEF Slots
  <2>2. /\ handle[<<c, k>>] = "none" /\ at[<<c, k>>] = 0 /\ buffer[<<c, k>>] = <<>>
        /\ size[<<c, k>>] = 0 /\ log[c] = <<>> /\ pc[c] = "idle"
    BY <2>1 DEF Init
  <2>3. DOMAIN log[c] = {}
    BY <2>2
  <2>4. Own(disk[<<folder[c], k>>]) = {}
    <3>1. <<folder[c], k>> \in Files
      BY DEF Init, Files
    <3>2. disk[<<folder[c], k>>] \in {<<Old>>, <<>>}
      BY <3>1 DEF Init
    <3> QED
      BY <3>2 DEF Own
  <2> QED
    BY <2>2, <2>3, <2>4 DEF LoneOK, Counted, StreamOK
<1> QED
  BY <1>1, <1>2, <1>3, <1>4 DEF LInv, LoneInv

\* A call that moves and is not done afterwards leaves the streams of those that are.
LEMMA DoneStep ==
    ASSUME DoneInv, NEW c \in Calls,
           \A e \in Calls \ {c} : pc'[e] = pc[e],
           \A s \in Slots : s[1] # c => handle'[s] = handle[s],
           pc'[c] # "done"
    PROVE  DoneInv'
<1> SUFFICES ASSUME NEW e \in Calls, NEW k \in Categories, pc'[e] = "done"
             PROVE  handle'[<<e, k>>] = "none"
  BY DEF DoneInv
<1>1. e # c /\ <<e, k>> \in Slots /\ pc[e] = "done"
  BY DEF Slots
<1> QED
  BY <1>1 DEF DoneInv

\* Every step keeps the invariant.
LEMMA StepLone == CloseWorks /\ LInv /\ [Next]_vars => LInv'
<1> SUFFICES ASSUME CloseWorks, LInv, [Next]_vars PROVE LInv'
  OBVIOUS
<1>0. IInv /\ Kinds /\ Places /\ HandInv /\ OpenInv /\ SizeInv /\ LoneInv /\ DoneInv
  BY DEF LInv, IInv, Kinds
<1>i. IInv'
  BY <1>0, StepOK
<1>c. ASSUME NEW c \in Calls, pc[c] \in InCall
      PROVE  Of(c) \in Categories /\ <<c, Of(c)>> \in Slots
  BY <1>0, <1>c DEF HandInv, HandOK, InHand, Of, Slots
\* A step that moves one call and touches no stream or file.
<1>u. ASSUME NEW c \in Calls, Quiet, UNCHANGED size, lost \subseteq lost',
             \A e \in Calls \ {c} : pc'[e] = pc[e] /\ hand'[e] = hand[e],
             pc'[c] # "reopen",
             Holds(c) => Holds(c)' \/ <<c, Len(log[c])>> \in lost',
             pc'[c] = "done" => \A k \in Categories : handle[<<c, k>>] = "none"
      PROVE  LInv'
  <2>1. ASSUME NEW e \in Calls, NEW q \in Categories PROVE Untouched(e, q)
    <3>1. CASE e = c
      BY <1>u, <3>1 DEF Untouched, Quiet
    <3>2. CASE e # c
      BY <1>u, <3>2 DEF Untouched, Quiet, Holds
    <3> QED
      BY <3>1, <3>2
  <2>2. LoneInv'
    BY <1>0, <1>u, <2>1, AllUntouched DEF Quiet
  <2>3. SizeInv'
    BY <1>0, <1>u DEF SizeInv
  <2>4. DoneInv'
    BY <1>0, <1>u DEF DoneInv, Quiet
  <2> QED
    BY <1>i, <2>2, <2>3, <2>4 DEF LInv
\* A call that returns without having written the entry has lost it.
<1>l. ASSUME NEW c \in Calls, Quiet, UNCHANGED size, Lose(c), Return(c) PROVE LInv'
  <2>1. /\ \A e \in Calls \ {c} : pc'[e] = pc[e] /\ hand'[e] = hand[e]
        /\ pc'[c] = "idle"
    BY <1>0, <1>l DEF Return, Places
  <2>2. lost \subseteq lost' /\ (Holds(c) => <<c, Len(log[c])>> \in lost')
    BY <1>l DEF Lose, Holds, Unit
  <2> QED
    BY <1>l, <1>u, <2>1, <2>2
<1>1. ASSUME NEW c \in Calls, Debug(c) PROVE LInv'
  <2>1. LoneInv'
    BY <1>1, LoneDebug
  <2>2. UNCHANGED <<size, handle>> /\ pc' = [pc EXCEPT ![c] = "enter"]
    BY <1>1 DEF Debug, streams
  <2>3. pc'[c] # "done" /\ \A e \in Calls \ {c} : pc'[e] = pc[e]
    BY <1>0, <2>2 DEF Places
  <2>4. DoneInv'
    BY <1>0, <2>2, <2>3, DoneStep
  <2> QED
    BY <1>0, <1>i, <2>1, <2>2, <2>4 DEF LInv, SizeInv
<1>2. ASSUME NEW c \in Calls, End(c) PROVE LInv'
  <2>1. Quiet /\ UNCHANGED <<size, lost, hand>> /\ ~Holds(c)
    BY <1>2 DEF End, Quiet, entry, streams, Holds, InCall
  <2>2. pc'[c] = "cleanup" /\ \A e \in Calls \ {c} : pc'[e] = pc[e]
    BY <1>0, <1>2 DEF End, Places
  <2> QED
    BY <1>u, <2>1, <2>2
<1>3. ASSUME NEW c \in Calls, Open(c) PROVE LInv'
  <2> DEFINE k == Of(c)
  <2>1. k \in Categories /\ <<c, k>> \in Slots /\ pc[c] \in InCall
    BY <1>3, <1>c DEF Open, InCall
  <2>2. UNCHANGED <<folder, log, hand, at, buffer, size, lost>>
    BY <1>3 DEF Open, entry
  <2>3. pc'[c] = "write" /\ \A e \in Calls \ {c} : pc'[e] = pc[e]
    BY <1>0, <1>3 DEF Open, Places
  <2>4. CASE handle[<<c, k>>] # "none"
    <3>1. UNCHANGED <<handle, disk>>
      BY <1>3, <2>4 DEF Open
    <3>2. Quiet /\ \A e \in Calls \ {c} : pc'[e] = pc[e] /\ hand'[e] = hand[e]
      BY <2>2, <2>3, <3>1 DEF Quiet
    <3>3. Holds(c) => Holds(c)'
      BY <2>2, <2>3 DEF Holds, InCall
    <3> QED
      BY <1>u, <2>2, <2>3, <3>2, <3>3
  <2>5. CASE handle[<<c, k>>] = "none"
    <3> DEFINE mode == Mode(c, k)
    <3>1. /\ FOpen(c, k, mode) /\ mode \in {"ab", "wb"}
          /\ mode = "wb" => size[<<c, k>>] = 0
          /\ mode = "ab" => size[<<c, k>>] # 0
      BY <1>3, <2>5 DEF Open, Mode
    <3>2. k = Of(c)
      OBVIOUS
    <3>3. \A s \in Slots : s[1] # c => handle'[s] = handle[s]
      BY <1>0, <3>1 DEF FOpen, Kinds
    <3>4. LoneInv'
      <4> HIDE DEF k, mode
      <4> QED
        BY <2>1, <2>2, <2>3, <2>5, <3>1, <3>2, LoneOpen
    <3>5. DoneInv'
      BY <1>0, <2>3, <3>3, DoneStep
    <3> QED
      BY <1>0, <1>i, <2>2, <3>4, <3>5 DEF LInv, SizeInv
  <2> QED
    BY <2>4, <2>5
<1>4. ASSUME NEW c \in Calls, OpenFails(c) PROVE LInv'
  BY <1>4, <1>l DEF OpenFails, Quiet, streams
<1>5. ASSUME NEW c \in Calls, Write(c) PROVE LInv'
  <2> DEFINE k == Of(c)
  <2>1. k \in Categories /\ k = Of(c) /\ pc[c] \in {"write", "rewrite"}
    BY <1>5, <1>c DEF Write, InCall
  <2>2. PICK ok \in BOOLEAN :
          /\ FWrite(c, k, ok)
          /\ size' = [size EXCEPT ![<<c, k>>] = Grown(@, ok)]
          /\ IF Failed(ok) THEN pc' = [pc EXCEPT ![c] = "close"] /\ UNCHANGED hand
             ELSE Return(c)
    BY <1>5 DEF Write
  <2>3. UNCHANGED <<folder, disk, log, handle, at, lost>>
    BY <1>5 DEF Write
  <2>4. \A e \in Calls \ {c} : pc'[e] = pc[e] /\ hand'[e] = hand[e]
    BY <1>0, <2>2 DEF Return, Places
  <2>5. pc'[c] = (IF ok THEN "idle" ELSE "close") /\ (~ok => hand'[c] = hand[c])
    BY <1>0, <2>2 DEF Return, Failed, Places
  <2>6. LoneInv' /\ SizeInv'
    <3> HIDE DEF k
    <3> QED
      BY <2>1, <2>2, <2>3, <2>4, <2>5, LoneWrite
  <2>7. DoneInv'
    BY <1>0, <2>3, <2>4, <2>5, DoneStep
  <2> QED
    BY <1>i, <2>6, <2>7 DEF LInv
<1>6. ASSUME NEW c \in Calls, CloseBroken(c) PROVE LInv'
  <2> DEFINE k == Of(c)
  <2>1. k \in Categories /\ k = Of(c) /\ pc[c] \in InCall /\ <<c, k>> \in Slots
    BY <1>6, <1>c DEF CloseBroken, InCall
  <2>2. /\ FClose(c, k) /\ handle[<<c, k>>] # "none"
        /\ UNCHANGED <<folder, log, hand, size, lost>>
    BY <1>0, <1>6 DEF CloseBroken, OpenInv, entry
  <2>3. pc'[c] = "reopen" /\ pc'[c] \in InCall /\ \A e \in Calls \ {c} : pc'[e] = pc[e]
    BY <1>0, <1>6 DEF CloseBroken, Places, InCall
  <2>4. \A s \in Slots : s[1] # c => handle'[s] = handle[s]
    BY <1>0, <2>1, <2>2 DEF FClose, Kinds
  <2>5. LoneInv'
    <3> HIDE DEF k
    <3> QED
      BY <2>1, <2>2, <2>3, LoneClose
  <2>6. DoneInv'
    BY <1>0, <2>3, <2>4, DoneStep
  <2> QED
    BY <1>0, <1>i, <2>2, <2>5, <2>6 DEF LInv, SizeInv
<1>7. ASSUME NEW c \in Calls, Reopen(c) PROVE LInv'
  <2> DEFINE k == Of(c)
             mode == ReopenMode
  <2>1. k \in Categories /\ k = Of(c) /\ pc[c] \in InCall /\ pc[c] = "reopen"
    BY <1>7, <1>c DEF Reopen, InCall
  <2>2. FOpen(c, k, mode) /\ mode = "ab"
        /\ UNCHANGED <<folder, at, buffer, size, log, hand, lost>>
    BY <1>7 DEF Reopen, ReopenMode, entry
  <2>3. pc'[c] = "rewrite" /\ \A e \in Calls \ {c} : pc'[e] = pc[e]
    BY <1>0, <1>7 DEF Reopen, Places
  <2>4. \A s \in Slots : s[1] # c => handle'[s] = handle[s]
    BY <1>0, <2>2 DEF FOpen, Kinds
  <2>5. LoneInv'
    <3> HIDE DEF k, mode
    <3> QED
      BY <2>1, <2>2, <2>3, LoneOpen
  <2>6. DoneInv'
    BY <1>0, <2>3, <2>4, DoneStep
  <2> QED
    BY <1>0, <1>i, <2>2, <2>5, <2>6 DEF LInv, SizeInv
<1>8. ASSUME NEW c \in Calls, ReopenFails(c) PROVE LInv'
  BY <1>8, <1>l DEF ReopenFails, Quiet, streams
<1>9. ASSUME NEW c \in Calls, Rewrite(c) PROVE LInv'
  <2> DEFINE k == Of(c)
  <2>1. k \in Categories /\ k = Of(c) /\ pc[c] \in {"write", "rewrite"}
    BY <1>9, <1>c DEF Rewrite, InCall
  <2>2. PICK ok \in BOOLEAN :
          /\ FWrite(c, k, ok)
          /\ size' = [size EXCEPT ![<<c, k>>] = Grown(@, ok)]
          /\ IF ok THEN UNCHANGED lost ELSE Lose(c)
    BY <1>9 DEF Rewrite
  <2>3. UNCHANGED <<folder, disk, log, handle, at>>
    BY <1>9 DEF Rewrite
  <2>4. /\ \A e \in Calls \ {c} : pc'[e] = pc[e] /\ hand'[e] = hand[e]
        /\ pc'[c] = "idle"
    BY <1>0, <1>9 DEF Rewrite, Return, Places
  <2>5. lost \subseteq lost' /\ (~ok /\ ~hand[c].empty => Unit(c) \in lost')
    BY <2>2 DEF Lose
  <2>6. LoneInv' /\ SizeInv'
    <3> HIDE DEF k
    <3> QED
      BY <2>1, <2>2, <2>3, <2>4, <2>5, LoneWrite
  <2>7. DoneInv'
    BY <1>0, <2>3, <2>4, DoneStep
  <2> QED
    BY <1>i, <2>6, <2>7 DEF LInv
<1>10. ASSUME NEW c \in Calls, Done(c) PROVE LInv'
  <2>1. Quiet /\ UNCHANGED <<size, lost, hand>> /\ ~Holds(c)
        /\ \A k \in Categories : handle[<<c, k>>] = "none"
    BY <1>10 DEF Done, Quiet, entry, streams, Holds, InCall
  <2>2. pc'[c] = "done" /\ \A e \in Calls \ {c} : pc'[e] = pc[e]
    BY <1>0, <1>10 DEF Done, Places
  <2> QED
    BY <1>u, <2>1, <2>2
<1>11. ASSUME NEW c \in Calls, NEW k \in Categories, Flush(c, k) PROVE LInv'
  <2>1. UNCHANGED <<pc, handle, size>>
    BY <1>11 DEF Flush
  <2>2. LoneInv'
    BY <1>11, LoneFlush
  <2> QED
    BY <1>0, <1>i, <2>1, <2>2 DEF LInv, DoneInv, SizeInv
<1>12. ASSUME NEW c \in Calls, NEW k \in Categories, CloseOne(c, k) PROVE LInv'
  <2>1. /\ FClose(c, k) /\ handle[<<c, k>>] # "none" /\ pc[c] = "cleanup"
        /\ UNCHANGED <<pc, folder, log, hand, size, lost>>
    BY <1>12 DEF CloseOne, entry
  <2>2. pc[c] \notin InCall
    BY <2>1 DEF InCall
  <2>3. LoneInv'
    BY <2>1, <2>2, LoneClose
  <2>4. \A s \in Slots : s[1] # c => handle'[s] = handle[s]
    BY <1>0, <2>1 DEF FClose, Kinds
  <2>5. DoneInv'
    BY <1>0, <2>1, <2>4, DoneStep
  <2> QED
    BY <1>0, <1>i, <2>1, <2>3, <2>5 DEF LInv, SizeInv
<1>13. CASE Finished \/ UNCHANGED vars
  <2>1. UNCHANGED vars
    BY <1>13 DEF Finished
  <2>2. Quiet /\ UNCHANGED <<size, lost, pc, hand>>
    BY <2>1 DEF vars, Quiet
  <2>3. ASSUME NEW e \in Calls, NEW q \in Categories PROVE Untouched(e, q)
    BY <2>2 DEF Untouched, Quiet, Holds
  <2>4. LoneInv'
    BY <1>0, <2>2, <2>3, AllUntouched DEF Quiet
  <2> QED
    BY <1>0, <1>i, <2>2, <2>4 DEF LInv, DoneInv, SizeInv, Quiet
<1> QED
  BY <1>1, <1>2, <1>3, <1>4, <1>5, <1>6, <1>7, <1>8, <1>9, <1>10, <1>11, <1>12, <1>13 DEF Next

\* A call that has a folder of its own loses exactly the entries that could not
\* be opened for or written, each by itself, if fclose does not fail: that
\* curl_debug_function counts what it has written, opens with "wb" only while that is
\* nothing and reopens with "ab" is enough, whatever else fails.
THEOREM LosesOnlyFailed ==
    ASSUME CloseWorks
    PROVE  Spec => []LostAlone
<1>1. Spec => []LInv
  <2>1. Init => LInv
    BY InitLone
  <2>2. LInv /\ [Next]_vars => LInv'
    BY StepLone
  <2> QED
    BY <2>1, <2>2, PTL DEF Spec
<1>2. LInv => LostAlone
  <2> SUFFICES ASSUME LInv, NEW c \in Calls, NEW k \in Categories,
                      pc[c] = "done", Alone(c)
               PROVE  LET d == disk[<<folder[c], k>>] IN
                      /\ Cardinality(Own(d)) = size[<<c, k>>]
                      /\ \A i \in Own(d) : d[i][1] = c /\ d[i][2] \in DOMAIN log[c]
                      /\ \A n \in DOMAIN log[c] :
                           log[c][n] = k => (\E i \in Own(d) : d[i] = <<c, n>>)
                                            \/ <<c, n>> \in lost
    BY DEF LostAlone
  <2> DEFINE d == disk[<<folder[c], k>>]
             b == buffer[<<c, k>>]
             z == size[<<c, k>>]
  <2>1. LoneOK(c, k) /\ handle[<<c, k>>] = "none" /\ ~Holds(c)
    BY DEF LInv, LoneInv, DoneInv, Holds, InCall
  <2>2. b = <<>> /\ Counted(c, log[c], d, b, z)
    BY <2>1 DEF LoneOK, StreamOK
  <2>3. <<folder[c], k>> \in Files /\ d \in Seq(V) /\ log[c] \in Seq(Categories)
    BY DEF LInv, IInv, Kinds, Files
  <2>4. ASSUME NEW n \in DOMAIN log[c], log[c][n] = k
        PROVE  (z # 0 /\ \E i \in DOMAIN d : d[i] = <<c, n>>) \/ <<c, n>> \in lost
    <3>1. <<c, n>> \in lost \/ (z # 0 /\ Among(<<c, n>>, d, b))
      BY <2>1, <2>4 DEF LoneOK, Accounted
    <3> QED
      BY <2>2, <3>1 DEF Among
  <2>5. CASE z = 0
    <3>1. Own(d) = {}
      BY <2>2, <2>5 DEF Counted
    <3>2. Cardinality(Own(d)) = 0
      BY <3>1, FS_EmptySet
    <3> QED
      BY <2>4, <2>5, <3>1, <3>2
  <2>6. CASE z # 0
    <3> HIDE DEF d, b, z
    <3>1. Len(d) = z
      <4>1. Len(d) + Len(b) = z /\ Len(b) = 0
        BY <2>2, <2>6 DEF Counted
      <4> QED
        BY <2>3, <4>1
    <3>2. \A i \in DOMAIN d : d[i][1] = c /\ d[i][2] \in DOMAIN log[c]
      BY <2>2, <2>6 DEF Counted
    <3>3. 0 \notin DOMAIN log[c]
      BY <2>3
    <3>4. Own(d) = 1 .. z
      BY <2>3, <3>1, <3>2, <3>3 DEF Own, Old
    <3>5. z \in Nat /\ Cardinality(1 .. z) = z
      <4>1. z \in Nat
        BY <2>3, <3>1
      <4> QED
        BY <4>1, <2>6, FS_Interval
    <3>6. DOMAIN d = Own(d)
      BY <2>3, <3>1, <3>4
    <3>7. /\ Cardinality(Own(d)) = z
          /\ \A i \in Own(d) : d[i][1] = c /\ d[i][2] \in DOMAIN log[c]
          /\ \A n \in DOMAIN log[c] :
               log[c][n] = k => (\E i \in Own(d) : d[i] = <<c, n>>) \/ <<c, n>> \in lost
      BY <2>4, <3>2, <3>4, <3>5, <3>6
    <3> QED
      BY <3>7 DEF d, z
  <2> QED
    BY <2>5, <2>6
<1> QED
  BY <1>1, <1>2, PTL

-----------------------------------------------------------------------------
(* Types and bounds *)

\* size counts entries of the call, and not the one in hand.
CountInv ==
    \A c \in Calls :
        /\ Len(log[c]) <= MaxEntries
        /\ \A k \in Categories :
             size[<<c, k>>] + (IF Holds(c) /\ Of(c) = k THEN 1 ELSE 0) <= Len(log[c])

\* What has been given to a stream is written out, or given up, before it is closed.
ClosedInv == \A s \in Slots : handle[s] = "none" => buffer[s] = <<>>

TInv == IInv /\ SizeInv /\ CountInv /\ ClosedInv /\ lost \subseteq Units

LEMMA InitTyped == Init => TInv
<1> SUFFICES ASSUME Init PROVE TInv
  OBVIOUS
<1>1. IInv
  BY InitOK
<1>2. SizeInv /\ ClosedInv /\ lost \subseteq Units
  BY DEF Init, SizeInv, ClosedInv
<1>3. CountInv
  BY EntriesAssumption DEF Init, CountInv, Holds, InCall, Slots
<1> QED
  BY <1>1, <1>2, <1>3 DEF TInv

\* Call c moves, and nothing is counted.
LEMMA CountKept ==
    ASSUME CountInv, SizeInv, Kinds, NEW c \in Calls, UNCHANGED <<log, size>>,
           \A e \in Calls \ {c} : pc'[e] = pc[e] /\ hand'[e] = hand[e],
           Holds(c)' => Holds(c) /\ Of(c)' = Of(c)
    PROVE  CountInv' /\ SizeInv'
<1>1. SizeInv'
  BY DEF SizeInv
<1>2. ASSUME NEW e \in Calls, NEW k \in Categories
      PROVE  /\ Len(log'[e]) <= MaxEntries
             /\ size'[<<e, k>>] + (IF Holds(e)' /\ Of(e)' = k THEN 1 ELSE 0) <= Len(log'[e])
  <2>1. Holds(e)' => Holds(e) /\ Of(e)' = Of(e)
    BY DEF Holds, Of
  <2>2. size[<<e, k>>] \in Nat /\ Len(log[e]) \in Nat
    BY DEF SizeInv, Kinds, Slots
  <2>3. /\ Len(log[e]) <= MaxEntries
        /\ size[<<e, k>>] + (IF Holds(e) /\ Of(e) = k THEN 1 ELSE 0) <= Len(log[e])
    BY DEF CountInv
  <2> QED
    BY <2>1, <2>2, <2>3
<1>3. ASSUME NEW e \in Calls PROVE Len(log'[e]) <= MaxEntries
  BY DEF CountInv
<1> QED
  BY <1>1, <1>2, <1>3 DEF CountInv

\* The entry in hand is counted.
LEMMA CountGrows ==
    ASSUME CountInv, SizeInv, Kinds, NEW c \in Calls, <<c, Of(c)>> \in Slots, log' = log,
           \A e \in Calls \ {c} : pc'[e] = pc[e] /\ hand'[e] = hand[e],
           Holds(c), ~Holds(c)', size' = [size EXCEPT ![<<c, Of(c)>>] = @ + 1]
    PROVE  CountInv' /\ SizeInv'
<1>1. SizeInv'
  BY DEF SizeInv
<1>2. ASSUME NEW e \in Calls, NEW k \in Categories
      PROVE  size'[<<e, k>>] + (IF Holds(e)' /\ Of(e)' = k THEN 1 ELSE 0) <= Len(log'[e])
  <2>1. /\ size[<<e, k>>] \in Nat /\ Len(log[e]) \in Nat /\ <<e, k>> \in Slots
        /\ size[<<e, k>>] + (IF Holds(e) /\ Of(e) = k THEN 1 ELSE 0) <= Len(log[e])
    BY DEF SizeInv, Kinds, Slots, CountInv
  <2>2. CASE e = c /\ k = Of(c)
    <3>1. size'[<<e, k>>] = size[<<e, k>>] + 1
      BY <2>1, <2>2 DEF SizeInv
    <3> QED
      BY <2>1, <2>2, <3>1
  <2>3. CASE ~(e = c /\ k = Of(c))
    <3>1. size'[<<e, k>>] = size[<<e, k>>]
      BY <2>1, <2>3 DEF SizeInv
    <3>2. Holds(e)' => Holds(e) /\ Of(e)' = Of(e)
      BY DEF Holds, Of
    <3> QED
      BY <2>1, <3>1, <3>2
  <2> QED
    BY <2>2, <2>3
<1>3. ASSUME NEW e \in Calls PROVE Len(log'[e]) <= MaxEntries
  BY DEF CountInv
<1> QED
  BY <1>1, <1>2, <1>3 DEF CountInv

LEMMA CountDebug ==
    ASSUME CountInv, SizeInv, Kinds, NEW c \in Calls, Debug(c)
    PROVE  CountInv' /\ SizeInv'
<1>1. PICK k \in Categories, e \in BOOLEAN :
        /\ hand' = [hand EXCEPT ![c] = [of |-> k, empty |-> e]]
        /\ log' = IF e THEN log ELSE [log EXCEPT ![c] = Append(@, k)]
  BY DEF Debug
<1>2. pc[c] = "idle" /\ pc' = [pc EXCEPT ![c] = "enter"] /\ size' = size
      /\ Len(log[c]) < MaxEntries
  BY DEF Debug
<1>3. SizeInv'
  BY <1>2 DEF SizeInv
<1>4. ASSUME NEW d \in Calls, NEW j \in Categories
      PROVE  /\ Len(log'[d]) <= MaxEntries
             /\ size'[<<d, j>>] + (IF Holds(d)' /\ Of(d)' = j THEN 1 ELSE 0) <= Len(log'[d])
  <2>1. /\ size[<<d, j>>] \in Nat /\ Len(log[d]) \in Nat /\ Len(log[d]) <= MaxEntries
        /\ size[<<d, j>>] + (IF Holds(d) /\ Of(d) = j THEN 1 ELSE 0) <= Len(log[d])
    BY DEF SizeInv, Kinds, Slots, CountInv
  <2>2. CASE d = c
    <3>1. hand'[c].empty = e
      BY <1>1 DEF Kinds, Places
    <3>2. CASE e
      <4>1. ~Holds(d)'
        BY <2>2, <3>1, <3>2 DEF Holds
      <4> QED
        BY <1>1, <1>2, <2>1, <3>2, <4>1
    <3>3. CASE ~e
      <4>1. Len(log'[d]) = Len(log[d]) + 1
        BY <1>1, <2>2, <3>3 DEF Kinds
      <4>2. ~Holds(d)
        BY <1>2, <2>2 DEF Holds, InCall
      <4> QED
        BY <1>2, <2>1, <2>2, <4>1, <4>2, EntriesAssumption
    <3> QED
      BY <3>2, <3>3
  <2>3. CASE d # c
    <3>1. log'[d] = log[d] /\ (Holds(d)' <=> Holds(d)) /\ Of(d)' = Of(d)
      BY <1>1, <1>2, <2>3 DEF Kinds, Places, Holds, Of
    <3> QED
      BY <1>2, <2>1, <3>1
  <2> QED
    BY <2>2, <2>3
<1>5. ASSUME NEW d \in Calls PROVE Len(log'[d]) <= MaxEntries
  BY <1>1, <1>2, EntriesAssumption DEF CountInv, Kinds
<1> QED
  BY <1>3, <1>4, <1>5 DEF CountInv

\* Every step keeps the types and the bounds.
LEMMA StepTyped == TInv /\ [Next]_vars => TInv'
<1> SUFFICES ASSUME TInv, [Next]_vars PROVE TInv'
  OBVIOUS
<1>0. IInv /\ Kinds /\ Places /\ HandInv /\ OpenInv /\ SizeInv /\ CountInv /\ ClosedInv
      /\ lost \subseteq Units
  BY DEF TInv, IInv, Kinds
<1>i. IInv'
  BY <1>0, StepOK
<1>c. ASSUME NEW c \in Calls, pc[c] \in InCall
      PROVE  Of(c) \in Categories /\ <<c, Of(c)>> \in Slots
  BY <1>0, <1>c DEF HandInv, HandOK, InHand, Of, Slots
\* A call that returns, and one that goes on with the entry it has.
<1>r. ASSUME NEW c \in Calls, Return(c)
      PROVE  /\ \A e \in Calls \ {c} : pc'[e] = pc[e] /\ hand'[e] = hand[e]
             /\ ~Holds(c)'
  BY <1>0, <1>r DEF Return, Places, Holds, InCall
<1>g. ASSUME NEW c \in Calls, NEW q \in PCs, pc' = [pc EXCEPT ![c] = q], hand' = hand,
             pc[c] \in InCall \/ q \notin InCall
      PROVE  /\ \A e \in Calls \ {c} : pc'[e] = pc[e] /\ hand'[e] = hand[e]
             /\ Holds(c)' => Holds(c) /\ Of(c)' = Of(c)
  BY <1>0, <1>g DEF Places, Holds, Of
<1>l. ASSUME NEW c \in Calls, Lose(c), pc[c] \in InCall
      PROVE  lost' \subseteq Units
  <2>1. CASE hand[c].empty
    BY <1>0, <1>l, <2>1 DEF Lose
  <2>2. CASE ~hand[c].empty
    <3>1. HandOK(c, pc[c], hand[c], log[c])
      BY <1>0 DEF HandInv
    <3>2. Len(log[c]) > 0
      BY <1>l, <2>2, <3>1 DEF HandOK
    <3>3. Len(log[c]) \in Nat /\ Len(log[c]) <= MaxEntries
      BY <1>0 DEF Kinds, CountInv
    <3>4. Unit(c) \in Units
      BY <3>2, <3>3, EntriesAssumption DEF Unit, Units
    <3> QED
      BY <1>0, <1>l, <2>2, <3>4 DEF Lose
  <2> QED
    BY <2>1, <2>2
<1>w. ASSUME NEW c \in Calls, NEW ok \in BOOLEAN, pc[c] \in InCall, FWrite(c, Of(c), ok),
             handle[<<c, Of(c)>>] # "none", handle' = handle
      PROVE  ClosedInv' /\ (ok => ~hand[c].empty)
  BY <1>0, <1>c, <1>w DEF FWrite, ClosedInv, Kinds
<1>f. ASSUME NEW c \in Calls, NEW k \in Categories, FClose(c, k)
      PROVE  ClosedInv'
  BY <1>0, <1>f DEF FClose, ClosedInv, Kinds
<1>1. ASSUME NEW c \in Calls, Debug(c) PROVE TInv'
  <2>1. ClosedInv' /\ lost' \subseteq Units
    BY <1>0, <1>1 DEF Debug, streams, ClosedInv
  <2> QED
    BY <1>0, <1>1, <1>i, <2>1, CountDebug DEF TInv
<1>2. ASSUME NEW c \in Calls, End(c) \/ Done(c) PROVE TInv'
  <2>1. PICK q \in {"cleanup", "done"} : pc' = [pc EXCEPT ![c] = q]
    BY <1>2 DEF End, Done
  <2>2. hand' = hand /\ UNCHANGED <<log, size>> /\ UNCHANGED streams /\ lost' = lost
    BY <1>2 DEF End, Done, entry
  <2>3. CountInv' /\ SizeInv'
    BY <1>0, <1>g, <2>1, <2>2, CountKept DEF PCs, InCall
  <2> QED
    BY <1>0, <1>i, <2>2, <2>3 DEF TInv, ClosedInv, streams
<1>3. ASSUME NEW c \in Calls, Open(c) \/ Reopen(c) PROVE TInv'
  <2>1. PICK q \in InCall : pc' = [pc EXCEPT ![c] = q] /\ pc[c] \in InCall
    BY <1>3 DEF Open, Reopen, InCall
  <2>2. /\ hand' = hand /\ UNCHANGED <<log, size>> /\ buffer' = buffer /\ lost' = lost
    BY <1>3 DEF Open, Reopen, entry
  <2>3. CountInv' /\ SizeInv'
    BY <1>0, <1>g, <2>1, <2>2, CountKept DEF PCs
  <2>4. \A s \in Slots : handle'[s] = handle[s] \/ handle'[s] \in {"ab", "wb"}
    BY <1>0, <1>3 DEF Open, Reopen, FOpen, Mode, ReopenMode, Kinds
  <2>5. ClosedInv'
    BY <1>0, <2>2, <2>4 DEF ClosedInv
  <2> QED
    BY <1>0, <1>i, <2>2, <2>3, <2>5 DEF TInv
<1>4. ASSUME NEW c \in Calls, OpenFails(c) \/ ReopenFails(c) PROVE TInv'
  <2>1. pc[c] \in InCall /\ Lose(c) /\ Return(c) /\ UNCHANGED <<log, size>> /\ UNCHANGED streams
    BY <1>4 DEF OpenFails, ReopenFails, InCall
  <2>2. CountInv' /\ SizeInv'
    BY <1>0, <1>r, <2>1, CountKept
  <2>3. lost' \subseteq Units /\ ClosedInv'
    BY <1>0, <1>l, <2>1 DEF ClosedInv, streams
  <2> QED
    BY <1>i, <2>2, <2>3 DEF TInv
<1>5. ASSUME NEW c \in Calls, Write(c) PROVE TInv'
  <2>1. PICK ok \in BOOLEAN :
          /\ FWrite(c, Of(c), ok)
          /\ size' = [size EXCEPT ![<<c, Of(c)>>] = IF ok THEN @ + 1 ELSE @]
          /\ IF ok THEN Return(c) ELSE pc' = [pc EXCEPT ![c] = "close"] /\ UNCHANGED hand
    BY <1>5 DEF Write, Grown, Failed
  <2>2. /\ pc[c] = "write" /\ UNCHANGED <<log, handle, lost>> /\ handle[<<c, Of(c)>>] # "none"
        /\ pc[c] \in InCall
    BY <1>0, <1>5 DEF Write, OpenInv, InCall
  <2>3. ClosedInv' /\ (ok => ~hand[c].empty)
    BY <1>w, <2>1, <2>2
  <2>4. CountInv' /\ SizeInv'
    <3>1. CASE ok
      <4>1. Holds(c) /\ ~Holds(c)' /\ \A e \in Calls \ {c} : pc'[e] = pc[e] /\ hand'[e] = hand[e]
        BY <1>r, <2>1, <2>2, <2>3, <3>1 DEF Holds
      <4> QED
        BY <1>0, <1>c, <2>1, <2>2, <3>1, <4>1, CountGrows
    <3>2. CASE ~ok
      <4>1. size' = size
        BY <1>0, <2>1, <3>2 DEF SizeInv
      <4>2. /\ \A e \in Calls \ {c} : pc'[e] = pc[e] /\ hand'[e] = hand[e]
            /\ Holds(c)' => Holds(c) /\ Of(c)' = Of(c)
        BY <1>g, <2>1, <2>2, <3>2 DEF PCs, InCall
      <4> QED
        BY <1>0, <2>2, <4>1, <4>2, CountKept
    <3> QED
      BY <3>1, <3>2
  <2> QED
    BY <1>0, <1>i, <2>2, <2>3, <2>4 DEF TInv
<1>6. ASSUME NEW c \in Calls, Rewrite(c) PROVE TInv'
  <2>1. PICK ok \in BOOLEAN :
          /\ FWrite(c, Of(c), ok)
          /\ size' = [size EXCEPT ![<<c, Of(c)>>] = IF ok THEN @ + 1 ELSE @]
          /\ IF ok THEN UNCHANGED lost ELSE Lose(c)
    BY <1>6 DEF Rewrite, Grown
  <2>2. /\ pc[c] = "rewrite" /\ UNCHANGED <<log, handle>> /\ handle[<<c, Of(c)>>] # "none"
        /\ pc[c] \in InCall /\ Return(c)
    BY <1>0, <1>6 DEF Rewrite, OpenInv, InCall
  <2>3. ClosedInv' /\ (ok => ~hand[c].empty)
    BY <1>w, <2>1, <2>2
  <2>4. lost' \subseteq Units
    BY <1>0, <1>l, <2>1, <2>2
  <2>5. ~Holds(c)' /\ \A e \in Calls \ {c} : pc'[e] = pc[e] /\ hand'[e] = hand[e]
    BY <1>r, <2>2
  <2>6. CountInv' /\ SizeInv'
    <3>1. CASE ok
      <4>1. Holds(c)
        BY <2>2, <2>3, <3>1 DEF Holds
      <4> QED
        BY <1>0, <1>c, <2>1, <2>2, <2>5, <3>1, <4>1, CountGrows
    <3>2. CASE ~ok
      <4>1. size' = size
        BY <1>0, <2>1, <3>2 DEF SizeInv
      <4> QED
        BY <1>0, <2>2, <2>5, <4>1, CountKept
    <3> QED
      BY <3>1, <3>2
  <2> QED
    BY <1>i, <2>3, <2>4, <2>6 DEF TInv
<1>7. ASSUME NEW c \in Calls, CloseBroken(c) PROVE TInv'
  <2>1. /\ pc[c] \in InCall /\ FClose(c, Of(c)) /\ pc' = [pc EXCEPT ![c] = "reopen"]
        /\ hand' = hand /\ UNCHANGED <<log, size>> /\ lost' = lost
    BY <1>7 DEF CloseBroken, InCall, entry
  <2>2. CountInv' /\ SizeInv'
    BY <1>0, <1>g, <2>1, CountKept DEF PCs, InCall
  <2>3. ClosedInv'
    BY <1>c, <1>f, <2>1
  <2> QED
    BY <1>0, <1>i, <2>1, <2>2, <2>3 DEF TInv
<1>8. ASSUME NEW c \in Calls, NEW k \in Categories, Flush(c, k) \/ CloseOne(c, k) PROVE TInv'
  <2>1. UNCHANGED <<pc, hand, log, size>> /\ lost' = lost
    BY <1>8 DEF Flush, CloseOne, entry
  <2>2. CountInv' /\ SizeInv'
    BY <1>0, <2>1 DEF CountInv, SizeInv, Holds, Of
  <2>3. CASE Flush(c, k)
    <3>1. PICK n : buffer' = [buffer EXCEPT ![<<c, k>>] = SubSeq(@, n + 1, Len(@))]
      BY <2>3 DEF Flush
    <3>2. handle' = handle /\ handle[<<c, k>>] # "none"
      BY <2>3 DEF Flush
    <3>3. ClosedInv'
      BY <1>0, <3>1, <3>2 DEF ClosedInv, Kinds
    <3> QED
      BY <1>0, <1>i, <2>1, <2>2, <3>3 DEF TInv
  <2>4. CASE CloseOne(c, k)
    <3>1. ClosedInv'
      BY <1>f, <2>4 DEF CloseOne
    <3> QED
      BY <1>0, <1>i, <2>1, <2>2, <3>1 DEF TInv
  <2> QED
    BY <1>8, <2>3, <2>4
<1>9. CASE Finished \/ UNCHANGED vars
  <2>1. UNCHANGED <<pc, hand, log, size>> /\ UNCHANGED <<handle, buffer, lost>>
    BY <1>9 DEF Finished, vars
  <2> QED
    BY <1>0, <1>i, <2>1 DEF TInv, CountInv, SizeInv, ClosedInv, Holds, Of
<1> QED
  BY <1>1, <1>2, <1>3, <1>4, <1>5, <1>6, <1>7, <1>8, <1>9 DEF Next

\* The bounds of the log, whatever fails: every unit in a file, in a buffer or lost is
\* an entry that has been made, and *f_size is at most their number
\* (4DPlugin-cURL.cpp:235-262).
THEOREM Typed == Spec => []TypeOK
<1>1. TInv => TypeOK
  <2> SUFFICES ASSUME TInv PROVE TypeOK
    OBVIOUS
  <2>0. IInv /\ Kinds /\ Places /\ DataInv /\ HomeInv /\ SizeInv /\ CountInv /\ ClosedInv
        /\ lost \subseteq Units
    BY DEF TInv, IInv, Kinds
  <2>1. ASSUME NEW c \in Calls, NEW n \in DOMAIN log[c] PROVE <<c, n>> \in Units
    <3>1. Len(log[c]) \in Nat /\ Len(log[c]) <= MaxEntries /\ n \in 1 .. Len(log[c])
      BY <2>0 DEF Kinds, CountInv
    <3> QED
      BY <3>1, EntriesAssumption DEF Units
  <2>2. disk \in [Files -> Seq(Units \cup {Hole, Old})]
    <3> SUFFICES ASSUME NEW x \in Files, NEW i \in DOMAIN disk[x]
                 PROVE  disk[x] \in Seq(V) /\ disk[x][i] \in Units \cup {Hole, Old}
      BY <2>0 DEF Kinds
    <3>1. disk[x] \in Seq(V) /\ disk[x][i] \in V
      BY <2>0 DEF Kinds
    <3>2. ASSUME disk[x][i] \in U PROVE disk[x][i] \in Units
      <4> DEFINE c == disk[x][i][1]
      <4>1. c \in Calls /\ By(disk[x][i], c) /\ folder[c] = x[1]
        BY <2>0, <3>2 DEF U, By, HomeInv
      <4>2. x = <<folder[c], x[2]>> /\ x[2] \in Categories
        BY <4>1 DEF Files
      <4>3. disk[x][i][2] \in DOMAIN log[c]
        BY <2>0, <4>1, <4>2, ZenonT(60) DEF DataInv, SlotOK
      <4>4. disk[x][i] = <<c, disk[x][i][2]>>
        BY <3>2 DEF U
      <4> QED
        BY <2>1, <4>1, <4>3, <4>4
    <3> QED
      BY <3>1, <3>2 DEF V
  <2>3. buffer \in [Slots -> Seq(Units)]
    <3> SUFFICES ASSUME NEW s \in Slots, NEW i \in DOMAIN buffer[s]
                 PROVE  buffer[s] \in Seq(U) /\ buffer[s][i] \in Units
      BY <2>0 DEF Kinds
    <3>1. buffer[s] \in Seq(U) /\ buffer[s][i] \in U
      BY <2>0 DEF Kinds
    <3>2. PICK c \in Calls, k \in Categories : s = <<c, k>>
      BY DEF Slots
    <3>3. buffer[s][i][1] = c /\ buffer[s][i][2] \in DOMAIN log[c]
      BY <2>0, <3>2, ZenonT(60) DEF DataInv, SlotOK
    <3>4. buffer[s][i] = <<c, buffer[s][i][2]>>
      BY <3>1, <3>3 DEF U
    <3> QED
      BY <2>1, <3>1, <3>3, <3>4
  <2>4. size \in [Slots -> 0 .. MaxEntries]
    <3> SUFFICES ASSUME NEW s \in Slots PROVE size[s] \in 0 .. MaxEntries
      BY <2>0 DEF SizeInv
    <3>1. PICK c \in Calls, k \in Categories : s = <<c, k>>
      BY DEF Slots
    <3>2. /\ size[s] \in Nat /\ Len(log[c]) \in Nat /\ Len(log[c]) <= MaxEntries
          /\ size[s] + (IF Holds(c) /\ Of(c) = k THEN 1 ELSE 0) <= Len(log[c])
      BY <2>0, <3>1 DEF SizeInv, Kinds, CountInv
    <3> QED
      BY <3>2, EntriesAssumption
  <2> QED
    BY <2>0, <2>2, <2>3, <2>4 DEF TypeOK, Kinds, Places, PCs, InCall, Modes, ClosedInv
<1> QED
  BY <1>1, InitTyped, StepTyped, PTL DEF Spec
=============================================================================
