------------------------ MODULE OptionMapperProofs ------------------------
(***************************************************************************)
(* Theorems about OptionMapper, for options objects of every size and any  *)
(* set of proxies.  The idea: half way through the pass, a setting is what *)
(* the last slot passed so far asks for.                                   *)
(***************************************************************************)
EXTENDS OptionMapper, TLAPS, WellFoundedInduction

-----------------------------------------------------------------------------
(* The table *)

\* What a concatenation holds.
LEMMA JoinedLen ==
    \A S : \A s, t \in Seq(S) : s \o t \in Seq(S) /\ Len(s \o t) = Len(s) + Len(t)
  OBVIOUS
LEMMA JoinedLeft ==
    \A S : \A s, t \in Seq(S) : \A i \in 1 .. Len(s) : (s \o t)[i] = s[i]
  OBVIOUS
LEMMA JoinedRight ==
    \A S : \A s, t \in Seq(S) : \A i \in Len(s) + 1 .. Len(s) + Len(t) : (s \o t)[i] = t[i - Len(s)]
  OBVIOUS

\* The slots in their places.
LEMMA SlotsAre ==
    /\ DOMAIN Slots = 1 .. 18 /\ Len(Slots) = 18
    /\ Slots[1]  = Slot("READDATA",  "path",    "request_path")
    /\ Slots[2]  = Slot("WRITEDATA", "path",    "response_path")
    /\ Slots[3]  = Slot("AUTOPROXY", "proxies", "PROXY")
    /\ Slots[4]  = Slot("PRIVATE",   "text",    "userInfo")
    /\ Slots[5]  = Slot("ATOMIC",    "flag",    "isAtomic")
    /\ Slots[6]  = Slot("PROXY",     "text",    "PROXY")
    /\ Slots[7]  = Slot("USERAGENT", "text",    "USERAGENT")
    /\ Slots[8]  = Slot("CAINFO",    "path",    "CAINFO")
    /\ Slots[9]  = Slot("RESUME_FROM",       "number", "RESUME_FROM_LARGE")
    /\ Slots[10] = Slot("RESUME_FROM_LARGE", "number", "RESUME_FROM_LARGE")
    /\ Slots[11] = Slot("SSH_AUTH_TYPES",    "auth",   "SSH_AUTH_TYPES")
    /\ Slots[12] = Slot("CERTINFO",  "number",  "CERTINFO")
    /\ Slots[13] = Slot("HEADEROPT", "number",  "HEADEROPT")
    /\ Slots[14] = Slot("PINNEDPUBLICKEY", "pin", "PINNEDPUBLICKEY")
    /\ Slots[15] = Slot("HTTP_VERSION", "enum", "HTTP_VERSION")
    /\ Slots[16] = Slot("PROXYTYPE",    "enum", "PROXYTYPE")
    /\ Slots[17] = Slot("HEADEROPT",    "enum", "HEADEROPT")
    /\ Slots[18] = Slot("HTTPHEADER", "list", "HTTPHEADER")
<1> DEFINE a1 == Slot("READDATA",  "path",    "request_path")
           a2 == Slot("WRITEDATA", "path",    "response_path")
           a3 == Slot("AUTOPROXY", "proxies", "PROXY")
           a4 == Slot("PRIVATE",   "text",    "userInfo")
           a5 == Slot("ATOMIC",    "flag",    "isAtomic")
           a6 == Slot("PROXY",     "text",    "PROXY")
           a7 == Slot("USERAGENT", "text",    "USERAGENT")
           a8 == Slot("CAINFO",    "path",    "CAINFO")
           a9 == Slot("RESUME_FROM",       "number", "RESUME_FROM_LARGE")
           a10 == Slot("RESUME_FROM_LARGE", "number", "RESUME_FROM_LARGE")
           a11 == Slot("SSH_AUTH_TYPES",    "auth",   "SSH_AUTH_TYPES")
           a12 == Slot("CERTINFO",  "number",  "CERTINFO")
           a13 == Slot("HEADEROPT", "number",  "HEADEROPT")
           a14 == Slot("PINNEDPUBLICKEY", "pin", "PINNEDPUBLICKEY")
           a15 == Slot("HTTP_VERSION", "enum", "HTTP_VERSION")
           a16 == Slot("PROXYTYPE",    "enum", "PROXYTYPE")
           a17 == Slot("HEADEROPT",    "enum", "HEADEROPT")
           a18 == Slot("HTTPHEADER", "list", "HTTPHEADER")
           S == {a1, a2, a3, a4, a5, a6, a7, a8, a9, a10, a11, a12, a13, a14, a15, a16, a17, a18}
           s2 == PlainSlots \o TextSlots
           s3 == s2 \o PathSlots
           s4 == s3 \o NumberSlots
           s5 == s4 \o LaterNumberSlots
           s6 == s5 \o PinSlots
           s7 == s6 \o EnumSlots
           s8 == s7 \o ListSlots
<1>31. PlainSlots = <<a1, a2, a3, a4, a5>>
  BY DEF PlainSlots
<1>32. TextSlots = <<a6, a7>>
  BY DEF TextSlots
<1>33. PathSlots = <<a8>>
  BY DEF PathSlots
<1>34. NumberSlots = <<a9, a10, a11>>
  BY DEF NumberSlots
<1>35. LaterNumberSlots = <<a12, a13>>
  BY DEF LaterNumberSlots
<1>36. PinSlots = <<a14>>
  BY DEF PinSlots
<1>37. EnumSlots = <<a15, a16, a17>>
  BY DEF EnumSlots
<1>38. ListSlots = <<a18>>
  BY DEF ListSlots
<1> HIDE DEF a1, a2, a3, a4, a5, a6, a7, a8, a9, a10, a11, a12, a13, a14, a15, a16, a17, a18, S, s2, s3, s4, s5, s6, s7, s8
<1>1. PlainSlots \in Seq(S) /\ Len(PlainSlots) = 5
  BY <1>31 DEF S
<1>2. TextSlots \in Seq(S) /\ Len(TextSlots) = 2
  BY <1>32 DEF S
<1>3. PathSlots \in Seq(S) /\ Len(PathSlots) = 1
  BY <1>33 DEF S
<1>4. NumberSlots \in Seq(S) /\ Len(NumberSlots) = 3
  BY <1>34 DEF S
<1>5. LaterNumberSlots \in Seq(S) /\ Len(LaterNumberSlots) = 2
  BY <1>35 DEF S
<1>6. PinSlots \in Seq(S) /\ Len(PinSlots) = 1
  BY <1>36 DEF S
<1>7. EnumSlots \in Seq(S) /\ Len(EnumSlots) = 3
  BY <1>37 DEF S
<1>8. ListSlots \in Seq(S) /\ Len(ListSlots) = 1
  BY <1>38 DEF S
<1>12. s2 \in Seq(S) /\ Len(s2) = 7 /\ (\A i \in 1 .. 5 : s2[i] = PlainSlots[i])
      /\ s2[6] = TextSlots[1] /\ s2[7] = TextSlots[2]
  <2>1. PlainSlots \in Seq(S) /\ TextSlots \in Seq(S)
    BY <1>1, <1>2
  <2>2. Len(s2) = Len(PlainSlots) + Len(TextSlots) /\ s2 \in Seq(S)
    BY ONLY <2>1, JoinedLen, Zenon DEF s2
  <2>3. \A i \in 1 .. Len(PlainSlots) : s2[i] = PlainSlots[i]
    BY ONLY <2>1, JoinedLeft, Zenon DEF s2
  <2>4. \A i \in Len(PlainSlots) + 1 .. Len(PlainSlots) + Len(TextSlots) : s2[i] = TextSlots[i - Len(PlainSlots)]
    BY ONLY <2>1, JoinedRight, Zenon DEF s2
  <2> QED
    BY ONLY <1>1, <1>2, <2>2, <2>3, <2>4, SMT
<1>13. s3 \in Seq(S) /\ Len(s3) = 8 /\ (\A i \in 1 .. 7 : s3[i] = s2[i])
      /\ s3[8] = PathSlots[1]
  <2>1. s2 \in Seq(S) /\ PathSlots \in Seq(S)
    BY <1>12, <1>3
  <2>2. Len(s3) = Len(s2) + Len(PathSlots) /\ s3 \in Seq(S)
    BY ONLY <2>1, JoinedLen, Zenon DEF s3
  <2>3. \A i \in 1 .. Len(s2) : s3[i] = s2[i]
    BY ONLY <2>1, JoinedLeft, Zenon DEF s3
  <2>4. \A i \in Len(s2) + 1 .. Len(s2) + Len(PathSlots) : s3[i] = PathSlots[i - Len(s2)]
    BY ONLY <2>1, JoinedRight, Zenon DEF s3
  <2> QED
    BY ONLY <1>12, <1>3, <2>2, <2>3, <2>4, SMT
<1>14. s4 \in Seq(S) /\ Len(s4) = 11 /\ (\A i \in 1 .. 8 : s4[i] = s3[i])
      /\ s4[9] = NumberSlots[1] /\ s4[10] = NumberSlots[2] /\ s4[11] = NumberSlots[3]
  <2>1. s3 \in Seq(S) /\ NumberSlots \in Seq(S)
    BY <1>13, <1>4
  <2>2. Len(s4) = Len(s3) + Len(NumberSlots) /\ s4 \in Seq(S)
    BY ONLY <2>1, JoinedLen, Zenon DEF s4
  <2>3. \A i \in 1 .. Len(s3) : s4[i] = s3[i]
    BY ONLY <2>1, JoinedLeft, Zenon DEF s4
  <2>4. \A i \in Len(s3) + 1 .. Len(s3) + Len(NumberSlots) : s4[i] = NumberSlots[i - Len(s3)]
    BY ONLY <2>1, JoinedRight, Zenon DEF s4
  <2> QED
    BY ONLY <1>13, <1>4, <2>2, <2>3, <2>4, SMT
<1>15. s5 \in Seq(S) /\ Len(s5) = 13 /\ (\A i \in 1 .. 11 : s5[i] = s4[i])
      /\ s5[12] = LaterNumberSlots[1] /\ s5[13] = LaterNumberSlots[2]
  <2>1. s4 \in Seq(S) /\ LaterNumberSlots \in Seq(S)
    BY <1>14, <1>5
  <2>2. Len(s5) = Len(s4) + Len(LaterNumberSlots) /\ s5 \in Seq(S)
    BY ONLY <2>1, JoinedLen, Zenon DEF s5
  <2>3. \A i \in 1 .. Len(s4) : s5[i] = s4[i]
    BY ONLY <2>1, JoinedLeft, Zenon DEF s5
  <2>4. \A i \in Len(s4) + 1 .. Len(s4) + Len(LaterNumberSlots) : s5[i] = LaterNumberSlots[i - Len(s4)]
    BY ONLY <2>1, JoinedRight, Zenon DEF s5
  <2> QED
    BY ONLY <1>14, <1>5, <2>2, <2>3, <2>4, SMT
<1>16. s6 \in Seq(S) /\ Len(s6) = 14 /\ (\A i \in 1 .. 13 : s6[i] = s5[i])
      /\ s6[14] = PinSlots[1]
  <2>1. s5 \in Seq(S) /\ PinSlots \in Seq(S)
    BY <1>15, <1>6
  <2>2. Len(s6) = Len(s5) + Len(PinSlots) /\ s6 \in Seq(S)
    BY ONLY <2>1, JoinedLen, Zenon DEF s6
  <2>3. \A i \in 1 .. Len(s5) : s6[i] = s5[i]
    BY ONLY <2>1, JoinedLeft, Zenon DEF s6
  <2>4. \A i \in Len(s5) + 1 .. Len(s5) + Len(PinSlots) : s6[i] = PinSlots[i - Len(s5)]
    BY ONLY <2>1, JoinedRight, Zenon DEF s6
  <2> QED
    BY ONLY <1>15, <1>6, <2>2, <2>3, <2>4, SMT
<1>17. s7 \in Seq(S) /\ Len(s7) = 17 /\ (\A i \in 1 .. 14 : s7[i] = s6[i])
      /\ s7[15] = EnumSlots[1] /\ s7[16] = EnumSlots[2] /\ s7[17] = EnumSlots[3]
  <2>1. s6 \in Seq(S) /\ EnumSlots \in Seq(S)
    BY <1>16, <1>7
  <2>2. Len(s7) = Len(s6) + Len(EnumSlots) /\ s7 \in Seq(S)
    BY ONLY <2>1, JoinedLen, Zenon DEF s7
  <2>3. \A i \in 1 .. Len(s6) : s7[i] = s6[i]
    BY ONLY <2>1, JoinedLeft, Zenon DEF s7
  <2>4. \A i \in Len(s6) + 1 .. Len(s6) + Len(EnumSlots) : s7[i] = EnumSlots[i - Len(s6)]
    BY ONLY <2>1, JoinedRight, Zenon DEF s7
  <2> QED
    BY ONLY <1>16, <1>7, <2>2, <2>3, <2>4, SMT
<1>18. s8 \in Seq(S) /\ Len(s8) = 18 /\ (\A i \in 1 .. 17 : s8[i] = s7[i])
      /\ s8[18] = ListSlots[1]
  <2>1. s7 \in Seq(S) /\ ListSlots \in Seq(S)
    BY <1>17, <1>8
  <2>2. Len(s8) = Len(s7) + Len(ListSlots) /\ s8 \in Seq(S)
    BY ONLY <2>1, JoinedLen, Zenon DEF s8
  <2>3. \A i \in 1 .. Len(s7) : s8[i] = s7[i]
    BY ONLY <2>1, JoinedLeft, Zenon DEF s8
  <2>4. \A i \in Len(s7) + 1 .. Len(s7) + Len(ListSlots) : s8[i] = ListSlots[i - Len(s7)]
    BY ONLY <2>1, JoinedRight, Zenon DEF s8
  <2> QED
    BY ONLY <1>17, <1>8, <2>2, <2>3, <2>4, SMT
<1>19. Slots = s8
  BY DEF Slots, s2, s3, s4, s5, s6, s7, s8
<1>20. DOMAIN s8 = 1 .. 18
  BY <1>18
<1>21. /\ s8[1] = a1 /\ s8[2] = a2 /\ s8[3] = a3 /\ s8[4] = a4 /\ s8[5] = a5 /\ s8[6] = a6 /\ s8[7] = a7
       /\ s8[8] = a8 /\ s8[9] = a9 /\ s8[10] = a10 /\ s8[11] = a11 /\ s8[12] = a12 /\ s8[13] = a13
       /\ s8[14] = a14 /\ s8[15] = a15 /\ s8[16] = a16 /\ s8[17] = a17 /\ s8[18] = a18
  BY <1>12, <1>13, <1>14, <1>15, <1>16, <1>17, <1>18, <1>31, <1>32, <1>33, <1>34,
     <1>35, <1>36, <1>37, <1>38
<1> QED
  BY <1>18, <1>19, <1>20, <1>21, Zenon DEF a1, a2, a3, a4, a5, a6, a7, a8, a9, a10, a11, a12, a13, a14, a15, a16, a17, a18

\* What the proofs use of the table.
SlotFacts(i) ==
    LET s == Slots[i] IN
    /\ s.key \in Keys /\ s.opt \in Opts
    /\ s.kind \in {"path", "proxies", "text", "flag", "number", "auth", "pin", "enum", "list"}
    /\ s.kind = "proxies" <=> i = 3
    /\ s.kind = "proxies" => s.key = "AUTOPROXY" /\ s.opt = "PROXY"
    /\ s.kind = "auth" => s.key = "SSH_AUTH_TYPES"
    /\ s.opt = "PROXY" => s.kind \in {"proxies", "text"}
    /\ s.opt = "PROXYTYPE" => i > 3 /\ s.key = "PROXYTYPE"
    /\ s.opt = "SSH_AUTH_TYPES" <=> s.kind = "auth"

\* Each of the 18 slots is as described.
LEMMA SlotFactsHold == \A i \in 1 .. 18 : SlotFacts(i)
<1> SUFFICES ASSUME NEW i \in 1 .. 18 PROVE SlotFacts(i)
  OBVIOUS
<1>1. Slots[i].key \in Keys /\ Slots[i].opt \in Opts
  BY SlotsAre DEF Keys, Opts
<1>2. Slots[i].kind \in {"path", "proxies", "text", "flag", "number", "auth", "pin", "enum", "list"}
  BY SlotsAre DEF Slot
<1>3. Slots[i].kind = "proxies" <=> i = 3
  BY SlotsAre DEF Slot
<1>4. Slots[3].key = "AUTOPROXY" /\ Slots[3].opt = "PROXY"
  BY SlotsAre DEF Slot
<1>5. Slots[i].opt = "PROXY" => Slots[i].kind \in {"proxies", "text"}
  BY SlotsAre DEF Slot
<1>6. Slots[i].opt = "PROXYTYPE" => i > 3 /\ Slots[i].key = "PROXYTYPE"
  BY SlotsAre DEF Slot
<1>7. Slots[i].opt = "SSH_AUTH_TYPES" <=> Slots[i].kind = "auth"
  BY SlotsAre DEF Slot
<1>8. Slots[i].kind = "auth" => Slots[i].key = "SSH_AUTH_TYPES"
  BY SlotsAre DEF Slot
<1> QED
  BY <1>1, <1>2, <1>3, <1>4, <1>5, <1>6, <1>7, <1>8 DEF SlotFacts

-----------------------------------------------------------------------------
(* The largest of some slots *)

\* A set of numbers has a least one.
LEMMA LeastIs ==
    ASSUME NEW T \in SUBSET Nat, T # {}
    PROVE  \E x \in T : \A y \in T : x <= y
<1> DEFINE R == {p \in Nat \X Nat : p[1] < p[2]}
<1>1. OpToRel(<, Nat) = R
  BY Zenon DEF OpToRel
<1>2. \A x \in Nat, y \in Nat : y < x => <<y, x>> \in R
  OBVIOUS
<1> HIDE DEF R
<1>3. \E x \in T : \A y \in T : ~(<<y, x>> \in R)
  <2>1. IsWellFoundedOn(R, Nat)
    BY <1>1, NatLessThanWellFounded, Zenon
  <2> QED
    BY <2>1, WFMin, Zenon
<1>4. PICK x \in T : \A y \in T : ~(<<y, x>> \in R)
  BY <1>3
<1>5. ASSUME NEW y \in T PROVE x <= y
  <2>1. x \in Nat /\ y \in Nat
    OBVIOUS
  <2>2. ~(y < x)
    BY <1>2, <1>4, <2>1, Zenon
  <2> QED
    BY <2>1, <2>2
<1> QED
  BY <1>5

\* Max is the largest of some of the slots.
LEMMA MaxIs ==
    ASSUME NEW S \in SUBSET (1 .. 18), S # {}
    PROVE  Max(S) \in S /\ \A y \in S : y <= Max(S)
<1> DEFINE T == {19 - x : x \in S}
<1>1. T \in SUBSET Nat /\ T # {}
  <2>1. \A x \in S : x \in 1 .. 18
    OBVIOUS
  <2>2. \A x \in 1 .. 18 : 19 - x \in Nat
    OBVIOUS
  <2>3. T \subseteq Nat
    BY <2>1, <2>2
  <2> QED
    BY <2>3
<1>2. PICK t \in T : \A y \in T : t <= y
  BY <1>1, LeastIs
<1>3. PICK x \in S : t = 19 - x
  BY <1>2
<1>4. \A y \in S : x >= y
  <2>1. \A y \in S : t <= 19 - y
    BY <1>2
  <2> QED
    BY <2>1, <1>3
<1>5. Max(S) \in S /\ \A y \in S : Max(S) >= y
  BY <1>4, Zenon DEF Max
<1> QED
  BY <1>5

-----------------------------------------------------------------------------
(* The inductive invariant *)

\* The options are the properties the plugin knows, and a boolean is one.
OptionInv ==
    /\ DOMAIN options = Keys
    /\ \A k \in Keys : options[k][1] = "boolean" => options[k][2] \in BOOLEAN

\* Nothing is set before the call.
PassInv ==
    /\ next \in 0 .. 19
    /\ DOMAIN set = Opts
    /\ next = 0 => \A o \in Opts : set[o] = Default

\* The slots of a setting the pass has been at.
Done(o) == {i \in 1 .. 18 : Slots[i].opt = o /\ Defined(Slots[i].key) /\ i < next}

Unasked(o) ==
    \/ set[o] = Default
    \/ o = "SSH_AUTH_TYPES" /\ set[o] = Str("ANY")
    \/ o = "PROXYTYPE" /\ Defined("AUTOPROXY")

Latest(o, i) == i \in Done(o) /\ \A j \in Done(o) : j <= i

Granted(o, i) == \A w \in Wish(Slots[i], options[Slots[i].key]) : set[o] = w

\* Half way through: a setting is what the last slot so far asks for.
AskedInv ==
    \A o \in Opts :
        /\ Done(o) = {} => Unasked(o)
        /\ \A i \in Done(o) : Latest(o, i) => Granted(o, i)

\* A proxy of libproxy has its type as soon as it is set.
ProxyInv ==
    ~Defined("PROXYTYPE") =>
        \A s \in Schemes : set["PROXY"] = Proxy(s) =>
            s # "direct" /\ (s # "other" => set["PROXYTYPE"] = TypeOf(s))

IInv == OptionInv /\ PassInv /\ AskedInv /\ ProxyInv

\* It holds at the start.
LEMMA InitHolds == Init => IInv
<1> SUFFICES ASSUME Init PROVE IInv
  OBVIOUS
<1>1. OptionInv
  BY DEF Init, OptionInv, Undefined
<1>2. PassInv
  <2>1. next = 0
    BY Zenon DEF Init
  <2>2. DOMAIN set = Opts /\ \A o \in Opts : set[o] = Default
    BY DEF Init
  <2> QED
    BY <2>1, <2>2 DEF PassInv
<1>3. \A o \in Opts : Done(o) = {} /\ Unasked(o)
  <2>1. next = 0
    BY Zenon DEF Init
  <2>2. \A o \in Opts : Done(o) = {}
    BY <2>1 DEF Done
  <2> QED
    BY <2>2 DEF Init, Unasked
<1>4. AskedInv
  BY <1>3 DEF AskedInv
<1>5. "PROXY" \in Opts
  BY SlotsAre, SlotFactsHold DEF SlotFacts
<1>6. ProxyInv
  BY <1>5 DEF Init, ProxyInv, Default, Proxy
<1> QED
  BY <1>1, <1>2, <1>4, <1>6 DEF IInv

\* The options that lead to a proxy.
LEMMA ProxyNames == "PROXY" \in Opts /\ "PROXYTYPE" \in Opts /\ "PROXYTYPE" \in Keys
<1>1. Slots[3].opt = "PROXY" /\ Slots[16].opt = "PROXYTYPE" /\ Slots[16].key = "PROXYTYPE"
  BY SlotsAre DEF Slot
<1>2. 3 \in 1 .. 18 /\ 16 \in 1 .. 18
  OBVIOUS
<1> QED
  BY <1>1, <1>2, SlotFactsHold DEF SlotFacts

\* While the 4D method builds the object, no setting has been asked for yet.
LEMMA BuildKeeps == IInv /\ SetProperty => IInv'
<1> SUFFICES ASSUME IInv, SetProperty PROVE IInv'
  OBVIOUS
<1> USE DEF IInv
<1>1. PICK k \in Keys : \E v \in ValuesOf(k) :
         ~Defined(k) /\ options' = [options EXCEPT ![k] = v]
  BY DEF SetProperty
<1>2. PICK v \in ValuesOf(k) : options' = [options EXCEPT ![k] = v]
  BY <1>1
<1>3. next = 0 /\ next' = 0 /\ set' = set
  BY DEF SetProperty
<1>4. v[1] = "boolean" => v[2] \in BOOLEAN
  <2>1. \/ v \in {Text(k), Text(""), Number(1), Boolean(TRUE)}
        \/ \E n : v = Text(n)
        \/ \E l : v = Texts(l)
    BY Zenon DEF ValuesOf
  <2>2. CASE v = Boolean(TRUE)
    <3>1. v[2] = TRUE
      BY <2>2, Zenon DEF Boolean
    <3> QED
      BY <3>1, Zenon
  <2>3. v # Boolean(TRUE) => v[1] \in {"text", "number", "collection"}
    <3>1. \A n : Text(n)[1] = "text" /\ Number(n)[1] = "number" /\ Texts(n)[1] = "collection"
      BY DEF Text, Number, Texts
    <3> QED
      BY <2>1, <3>1
  <2> QED
    BY <2>2, <2>3
<1>5. OptionInv'
  BY <1>2, <1>4 DEF OptionInv
<1>6. PassInv'
  BY <1>3 DEF PassInv
<1>7. \A o \in Opts : (Done(o))' = {} /\ set'[o] = Default
  BY <1>3 DEF Done, PassInv
<1>8. AskedInv'
  BY <1>7 DEF AskedInv, Unasked
<1>9. ProxyInv'
  BY <1>7, ProxyNames DEF ProxyInv, Default, Proxy
<1> QED
  BY <1>5, <1>6, <1>8, <1>9

\* The call itself sets nothing.
LEMMA CallKeeps == IInv /\ Call => IInv'
<1> SUFFICES ASSUME IInv, Call PROVE IInv'
  OBVIOUS
<1> USE DEF IInv
<1>1. next = 0 /\ next' = 1 /\ options' = options /\ set' = set
  BY DEF Call
<1>2. OptionInv'
  BY <1>1 DEF OptionInv
<1>3. PassInv'
  BY <1>1 DEF PassInv
<1>4. \A o \in Opts : (Done(o))' = {} /\ set'[o] = Default
  BY <1>1 DEF Done, PassInv
<1>5. AskedInv'
  BY <1>4 DEF AskedInv, Unasked
<1>6. ProxyInv'
  BY <1>4, ProxyNames DEF ProxyInv, Default, Proxy
<1> QED
  BY <1>2, <1>3, <1>5, <1>6

\* A step of the pass that leaves the settings alone because there is no
\* property, or sets what no property is for.
LEMMA NotAsked ==
    ASSUME IInv, next \in 1 .. 18, ~Defined(Key), Advance,
           DOMAIN set' = Opts,
           \A o \in Opts : set'[o] = set[o] \/ (Done(o) = {} /\ Unasked(o)')
    PROVE  AskedInv'
<1>1. options' = options /\ next' = next + 1
  BY DEF Advance
<1>2. \A o : (Done(o))' = Done(o)
  BY <1>1 DEF Done, Defined, Key
<1> SUFFICES ASSUME NEW o \in Opts
             PROVE  /\ (Done(o))' = {} => Unasked(o)'
                    /\ \A i \in (Done(o))' : (Latest(o, i) => Granted(o, i))'
  BY DEF AskedInv
<1>3. CASE set'[o] = set[o]
  <2>1. Done(o) = {} => Unasked(o)'
    BY <1>1, <1>3 DEF IInv, AskedInv, Unasked, Defined
  <2>2. ASSUME NEW i \in Done(o), Latest(o, i)' PROVE Granted(o, i)'
    <3>1. Latest(o, i)
      BY <2>2, <1>2 DEF Latest
    <3>2. Granted(o, i)
      BY <3>1 DEF IInv, AskedInv, Latest
    <3> QED
      BY <3>2, <1>1, <1>3 DEF Granted
  <2> QED
    BY <2>1, <2>2, <1>2
<1>4. CASE Done(o) = {} /\ Unasked(o)'
  BY <1>4, <1>2
<1> QED
  BY <1>3, <1>4

\* A step of the pass that does what the property of this slot asks for, and
\* no more, except that AUTOPROXY may choose a type of proxy as well.
LEMMA OneAsked ==
    ASSUME IInv, next \in 1 .. 18, Defined(Key), Advance,
           \A o \in Opts \ {Opt} :
               set'[o] = set[o] \/ (o = "PROXYTYPE" /\ next = 3),
           \A w \in Wish(Slots[next], options[Key]) : set'[Opt] = w
    PROVE  AskedInv'
<1>1. options' = options /\ next' = next + 1
  BY DEF Advance
<1>2. ASSUME NEW o \in Opts, o # Opt PROVE (Done(o))' = Done(o)
  BY <1>1, <1>2 DEF Done, Defined, Opt
<1> PICK p \in Opts : p = Opt
  BY SlotFactsHold DEF SlotFacts, Opt
<1>3. (Done(p))' = Done(p) \cup {next}
  BY <1>1 DEF Done, Defined, Opt, Key
<1> SUFFICES ASSUME NEW o \in Opts
             PROVE  /\ (Done(o))' = {} => Unasked(o)'
                    /\ \A i \in (Done(o))' : (Latest(o, i) => Granted(o, i))'
  BY DEF AskedInv
<1>4. CASE o # Opt /\ set'[o] = set[o]
  <2>1. Done(o) = {} => Unasked(o)'
    BY <1>1, <1>4 DEF IInv, AskedInv, Unasked, Defined
  <2>2. ASSUME NEW i \in Done(o), Latest(o, i)' PROVE Granted(o, i)'
    <3>1. Latest(o, i)
      BY <2>2, <1>2, <1>4 DEF Latest
    <3>2. Granted(o, i)
      BY <3>1 DEF IInv, AskedInv, Latest
    <3> QED
      BY <3>2, <1>1, <1>4 DEF Granted
  <2> QED
    BY <2>1, <2>2, <1>2, <1>4
<1>5. CASE o # Opt /\ o = "PROXYTYPE" /\ next = 3
  <2>1. Done(o) = {}
    BY <1>5, SlotFactsHold DEF SlotFacts, Done
  <2>2. Key = "AUTOPROXY"
    BY <1>5, SlotFactsHold DEF SlotFacts, Key
  <2>3. Unasked(o)'
    BY <2>2, <1>1, <1>5 DEF Unasked, Defined
  <2> QED
    BY <2>1, <2>3, <1>2, <1>5
<1>6. CASE o = p
  <2>1. next \in (Done(o))'
    BY <1>3, <1>6
  <2>2. \A i \in (Done(o))' : Latest(o, i)' => i = next
    <3>1. \A i \in (Done(o))' : i \in 1 .. 18 /\ i <= next
      BY <1>1 DEF Done
    <3> QED
      BY <2>1, <3>1 DEF Latest
  <2>3. PICK n : n = next
    OBVIOUS
  <2>4. Granted(o, n)'
    <3>1. \A w \in Wish(Slots[n], options[Slots[n].key]) : set'[o] = w
      BY <1>6, <2>3 DEF Key
    <3> QED
      BY <3>1, <1>1, <2>3 DEF Granted
  <2> QED
    BY <2>1, <2>2, <2>3, <2>4
<1> QED
  BY <1>4, <1>5, <1>6

\* A slot without a property.
LEMMA SkipKeeps == IInv /\ Skip => AskedInv' /\ set' = set
<1> SUFFICES ASSUME IInv, Skip PROVE AskedInv' /\ set' = set
  OBVIOUS
<1>1. next \in 1 .. 18 /\ ~Defined(Key) /\ Advance /\ set' = set
  BY SlotsAre DEF Skip
<1>2. DOMAIN set' = Opts
  BY <1>1 DEF IInv, PassInv
<1> QED
  BY <1>1, <1>2, NotAsked

\* What every Take needs: the setting of the slot becomes v, and nothing else.
LEMMA SetGrants ==
    ASSUME IInv, next \in 1 .. 18, Defined(Key), Advance,
           NEW v, set' = [set EXCEPT ![Opt] = v],
           \A w \in Wish(Slots[next], options[Key]) : v = w
    PROVE  AskedInv'
<1>1. Opt \in DOMAIN set
  BY SlotFactsHold DEF SlotFacts, Opt, IInv, PassInv
<1>2. set'[Opt] = v
  BY <1>1
<1>3. \A o \in Opts \ {Opt} : set'[o] = set[o]
  BY DEF IInv, PassInv
<1> QED
  BY <1>2, <1>3, OneAsked

\* A text is set as it is.
LEMMA TextKeeps == IInv /\ TakeText => AskedInv'
<1> SUFFICES ASSUME IInv, TakeText PROVE AskedInv'
  OBVIOUS
<1>1. next \in 1 .. 18 /\ Slots[next].kind = "text" /\ Defined(Key) /\ Advance
  BY SlotsAre DEF TakeText, At
<1>2. PICK v : v = Str(Read(options[Key]))
  OBVIOUS
<1>3. set' = [set EXCEPT ![Opt] = v]
  BY <1>2 DEF TakeText, SetTo
<1>4. \A w \in Wish(Slots[next], options[Key]) : v = w
  BY <1>1, <1>2 DEF Wish, Read
<1> QED
  BY <1>1, <1>3, <1>4, SetGrants

\* A path is converted.
LEMMA PathKeeps == IInv /\ TakePath => AskedInv'
<1> SUFFICES ASSUME IInv, TakePath PROVE AskedInv'
  OBVIOUS
<1>1. next \in 1 .. 18 /\ Slots[next].kind = "path" /\ Defined(Key) /\ Advance
  BY SlotsAre DEF TakePath, At
<1>2. PICK v : v = Path(Read(options[Key]))
  OBVIOUS
<1>3. set' = [set EXCEPT ![Opt] = v]
  BY <1>2 DEF TakePath, SetTo
<1>4. \A w \in Wish(Slots[next], options[Key]) : v = w
  BY <1>1, <1>2 DEF Wish, Read
<1> QED
  BY <1>1, <1>3, <1>4, SetGrants

\* A boolean is a flag.
LEMMA FlagKeeps == IInv /\ TakeFlag => AskedInv'
<1> SUFFICES ASSUME IInv, TakeFlag PROVE AskedInv'
  OBVIOUS
<1>1. next \in 1 .. 18 /\ Slots[next].kind = "flag" /\ Defined(Key) /\ Advance
  BY SlotsAre DEF TakeFlag, At
<1>2. PICK v : v = Flag(AsFlag(options[Key]))
  OBVIOUS
<1>3. set' = [set EXCEPT ![Opt] = v]
  BY <1>2 DEF TakeFlag, SetTo
<1>4. \A w \in Wish(Slots[next], options[Key]) : v = w
  BY <1>1, <1>2, SlotFactsHold DEF Wish, AsFlag, SlotFacts, Key, IInv, OptionInv
<1> QED
  BY <1>1, <1>3, <1>4, SetGrants

\* A number is a long.
LEMMA NumberKeeps == IInv /\ TakeNumber => AskedInv'
<1> SUFFICES ASSUME IInv, TakeNumber PROVE AskedInv'
  OBVIOUS
<1>1. next \in 1 .. 18 /\ Slots[next].kind = "number" /\ Defined(Key) /\ Advance
  BY SlotsAre DEF TakeNumber, At
<1>2. PICK v : v = Long(AsNumber(options[Key]))
  OBVIOUS
<1>3. set' = [set EXCEPT ![Opt] = v]
  BY <1>2 DEF TakeNumber, SetTo
<1>4. \A w \in Wish(Slots[next], options[Key]) : v = w
  BY <1>1, <1>2 DEF Wish, AsNumber
<1> QED
  BY <1>1, <1>3, <1>4, SetGrants

\* A pin is a text, everything else a path.
LEMMA PinKeeps == IInv /\ TakePin => AskedInv'
<1> SUFFICES ASSUME IInv, TakePin PROVE AskedInv'
  OBVIOUS
<1>1. next \in 1 .. 18 /\ Slots[next].kind = "pin" /\ Defined(Key) /\ Advance
  BY SlotsAre DEF TakePin, At
<1>2. PICK v : v = IF Read(options[Key]) = Pin THEN Str(Read(options[Key]))
                                               ELSE Path(Read(options[Key]))
  OBVIOUS
<1>3. set' = [set EXCEPT ![Opt] = v]
  BY <1>2 DEF TakePin, SetTo
<1>4. \A w \in Wish(Slots[next], options[Key]) : v = w
  BY <1>1, <1>2 DEF Wish, Read
<1> QED
  BY <1>1, <1>3, <1>4, SetGrants

\* A name that is known has its value.
LEMMA EnumKeeps == IInv /\ TakeEnum => AskedInv'
<1> SUFFICES ASSUME IInv, TakeEnum PROVE AskedInv'
  OBVIOUS
<1>1. next \in 1 .. 18 /\ Slots[next].kind = "enum" /\ Defined(Key) /\ Advance
  BY SlotsAre DEF TakeEnum, At
<1>2. PICK v : v = Long(IF Read(options[Key]) \in DOMAIN Enum
                          THEN Enum[Read(options[Key])] ELSE 0)
  OBVIOUS
<1>3. set' = [set EXCEPT ![Opt] = v]
  BY <1>2 DEF TakeEnum, SetTo
<1>4. \A w \in Wish(Slots[next], options[Key]) : v = w
  BY <1>1, <1>2 DEF Wish, Read
<1> QED
  BY <1>1, <1>3, <1>4, SetGrants

\* The lines of a collection, if there are any.
LEMMA ListKeeps == IInv /\ TakeList => AskedInv'
<1> SUFFICES ASSUME IInv, TakeList PROVE AskedInv'
  OBVIOUS
<1>1. next \in 1 .. 18 /\ Slots[next].kind = "list" /\ Defined(Key) /\ Advance
  BY SlotsAre DEF TakeList, At
<1>2. \A list : Lines(list) = Asked(list)
  BY DEF Lines, Asked
<1>3. PICK l : l = Lines(AsTexts(options[Key]))
  OBVIOUS
<1>4. \A w \in Wish(Slots[next], options[Key]) : w = List(l) /\ l # <<>>
  <2>1. \A w \in Wish(Slots[next], options[Key]) :
           options[Key][1] = "collection"
           /\ \E m : m = Asked(options[Key][2]) /\ m # <<>> /\ w = List(m)
    BY <1>1 DEF Wish
  <2> QED
    BY <2>1, <1>2, <1>3 DEF AsTexts
<1>5. CASE l = <<>>
  <2>1. set' = set
    BY <1>3, <1>5 DEF TakeList
  <2> QED
    BY <1>1, <1>4, <1>5, <2>1, OneAsked
<1>6. CASE l # <<>>
  <2>1. PICK v : v = List(l)
    OBVIOUS
  <2>2. set' = [set EXCEPT ![Opt] = v]
    BY <1>3, <1>6, <2>1 DEF TakeList, SetTo
  <2> QED
    BY <1>1, <1>4, <2>1, <2>2, SetGrants
<1> QED
  BY <1>5, <1>6

\* SSH_AUTH_TYPES is set even if nobody asked for it.
LEMMA AuthKeeps == IInv /\ TakeAuth => AskedInv'
<1> SUFFICES ASSUME IInv, TakeAuth PROVE AskedInv'
  OBVIOUS
<1>1. next \in 1 .. 18 /\ Slots[next].kind = "auth" /\ Advance
  BY SlotsAre DEF TakeAuth, At
<1>2. PICK v : v = IF Defined(Key) THEN Long(AsNumber(options[Key])) ELSE Str("ANY")
  OBVIOUS
<1>3. set' = [set EXCEPT ![Opt] = v]
  BY <1>2 DEF TakeAuth, SetTo
<1>4. CASE Defined(Key)
  <2>1. \A w \in Wish(Slots[next], options[Key]) : v = w
    BY <1>1, <1>2, <1>4 DEF Wish, AsNumber
  <2> QED
    BY <1>1, <1>3, <1>4, <2>1, SetGrants
<1>5. CASE ~Defined(Key)
  <2>1. Opt = "SSH_AUTH_TYPES" /\ Key = "SSH_AUTH_TYPES" /\ Opt \in Opts
    BY <1>1, SlotFactsHold DEF SlotFacts, Opt, Key
  <2>2. Done("SSH_AUTH_TYPES") = {}
    BY <2>1, <1>5, SlotFactsHold DEF SlotFacts, Done
  <2>3. DOMAIN set' = Opts /\ set'["SSH_AUTH_TYPES"] = Str("ANY")
    BY <1>2, <1>3, <1>5, <2>1 DEF IInv, PassInv
  <2>4. \A o \in Opts : o # "SSH_AUTH_TYPES" => set'[o] = set[o]
    BY <1>3, <2>1 DEF IInv, PassInv
  <2>5. Unasked("SSH_AUTH_TYPES")'
    BY <2>3 DEF Unasked
  <2> QED
    BY <1>1, <1>5, <2>2, <2>3, <2>4, <2>5, NotAsked
<1> QED
  BY <1>4, <1>5

\* What TakeProxies does to the proxy and its type.
LEMMA ProxiesTaken ==
    ASSUME IInv, TakeProxies
    PROVE  /\ next = 3 /\ Defined(Key) /\ Advance
           /\ DOMAIN set' = Opts
           /\ \A o \in Opts \ {"PROXY", "PROXYTYPE"} : set'[o] = set[o]
           /\ \/ set'["PROXY"] = set["PROXY"] /\ set'["PROXYTYPE"] = set["PROXYTYPE"]
              \/ \E s \in Schemes : /\ s # "direct" /\ set'["PROXY"] = Proxy(s)
                                    /\ s # "other" => set'["PROXYTYPE"] = TypeOf(s)
<1>1. next \in 1 .. 18 /\ Slots[next].kind = "proxies" /\ Defined(Key) /\ Advance
  BY SlotsAre DEF TakeProxies, At
<1>2. next = 3
  BY <1>1, SlotFactsHold DEF SlotFacts
<1>3. PICK found \in {<<>>} \cup {<<s>> : s \in Schemes} \cup (Schemes \X Schemes) :
         LET use   == {i \in DOMAIN found : found[i] # "direct"}
             typed == {i \in use : TypeOf(found[i]) # Default}
         IN  set' = [set EXCEPT
                !["PROXY"] = IF use = {} THEN @ ELSE Proxy(found[Max(use)]),
                !["PROXYTYPE"] = IF typed = {} THEN @ ELSE TypeOf(found[Max(typed)])]
  BY Zenon DEF TakeProxies
<1> DEFINE use   == {i \in DOMAIN found : found[i] # "direct"}
           typed == {i \in use : TypeOf(found[i]) # Default}
<1>4. DOMAIN found \subseteq 1 .. 2 /\ \A i \in DOMAIN found : found[i] \in Schemes
  OBVIOUS
<1>5. use \in SUBSET (1 .. 18) /\ typed \subseteq use
  BY <1>4
<1>6. \A i \in use : found[i] \in Schemes /\ found[i] # "direct"
  BY <1>4
<1>7. \A i \in use : i \in typed <=> TypeOf(found[i]) # Default
  OBVIOUS
<1>8. set' = [set EXCEPT
                !["PROXY"] = IF use = {} THEN @ ELSE Proxy(found[Max(use)]),
                !["PROXYTYPE"] = IF typed = {} THEN @ ELSE TypeOf(found[Max(typed)])]
  BY <1>3, Zenon
<1> HIDE DEF use, typed
<1>9. /\ DOMAIN set' = Opts
      /\ \A o \in Opts \ {"PROXY", "PROXYTYPE"} : set'[o] = set[o]
  BY <1>8 DEF IInv, PassInv
<1>10. set'["PROXY"] = IF use = {} THEN set["PROXY"] ELSE Proxy(found[Max(use)])
  BY <1>8, ProxyNames DEF IInv, PassInv
<1>11. set'["PROXYTYPE"] = IF typed = {} THEN set["PROXYTYPE"] ELSE TypeOf(found[Max(typed)])
  BY <1>8, ProxyNames DEF IInv, PassInv
<1>12. CASE use = {}
  BY <1>1, <1>2, <1>5, <1>9, <1>10, <1>11, <1>12
<1>13. CASE use # {}
  <2>1. Max(use) \in use /\ \A y \in use : y <= Max(use)
    BY <1>5, <1>13, MaxIs
  <2>2. PICK s : s = found[Max(use)]
    OBVIOUS
  <2>3. s \in Schemes /\ s # "direct" /\ set'["PROXY"] = Proxy(s)
    BY <2>1, <2>2, <1>6, <1>10, <1>13
  <2>4. s # "other" => set'["PROXYTYPE"] = TypeOf(s)
    <3>1. s # "other" => TypeOf(s) # Default
      BY <2>3, SchemesAssumption DEF TypeOf, Starts, Long, Default
    <3>2. SUFFICES ASSUME s # "other" PROVE set'["PROXYTYPE"] = TypeOf(s)
      OBVIOUS
    <3>3. Max(use) \in typed
      BY <3>1, <3>2, <2>1, <2>2, <1>7
    <3>4. Max(typed) \in typed /\ \A y \in typed : y <= Max(typed)
      BY <3>3, <1>5, MaxIs
    <3>5. Max(typed) = Max(use)
      <4>1. Max(typed) \in Int /\ Max(use) \in Int
        <5>1. \A y \in use : y \in Int
          BY <1>5
        <5> QED
          BY <5>1, <3>4, <2>1, <1>5
      <4>2. Max(typed) <= Max(use) /\ Max(use) <= Max(typed)
        BY <3>3, <3>4, <2>1, <1>5
      <4> QED
        BY <4>1, <4>2
    <3> QED
      BY <3>3, <3>5, <2>2, <1>11
  <2> QED
    BY <1>1, <1>2, <1>9, <2>3, <2>4
<1> QED
  BY <1>12, <1>13

\* What AUTOPROXY should come to is up to libproxy.
LEMMA ProxiesKeep == IInv /\ TakeProxies => AskedInv'
<1> SUFFICES ASSUME IInv, TakeProxies PROVE AskedInv'
  OBVIOUS
<1>1. next = 3 /\ Defined(Key) /\ Advance /\ DOMAIN set' = Opts
  BY ProxiesTaken
<1>2. Slots[next].kind = "proxies" /\ Opt = "PROXY"
  BY <1>1, SlotFactsHold DEF SlotFacts, Opt
<1>3. \A w \in Wish(Slots[next], options[Key]) : set'[Opt] = w
  BY <1>2 DEF Wish
<1>4. \A o \in Opts \ {Opt} : set'[o] = set[o] \/ (o = "PROXYTYPE" /\ next = 3)
  BY <1>1, <1>2, ProxiesTaken
<1> QED
  BY <1>1, <1>3, <1>4, OneAsked

-----------------------------------------------------------------------------
(* The rest of the invariant *)

\* The pass does not touch the options object and walks along the slots.
LEMMA PassKeeps ==
    ASSUME IInv, [Next]_vars, next # 0
    PROVE  /\ options' = options
           /\ next' \in 1 .. 19
           /\ DOMAIN set' = Opts
<1>1. options' = options
  BY DEF Next, SetProperty, Call, Skip, TakeText, TakePath, TakeProxies, TakeFlag,
     TakeNumber, TakeAuth, TakePin, TakeEnum, TakeList, Finished, Advance, vars
<1>2. next' = next \/ (next \in 1 .. 18 /\ next' = next + 1)
  BY SlotsAre DEF Next, SetProperty, Call, Skip, TakeText, TakePath, TakeProxies, TakeFlag,
     TakeNumber, TakeAuth, TakePin, TakeEnum, TakeList, Finished, Advance, At, vars
<1>3. DOMAIN set' = DOMAIN set
  BY DEF Next, SetProperty, Call, Skip, TakeText, TakePath, TakeProxies, TakeFlag,
     TakeNumber, TakeAuth, TakePin, TakeEnum, TakeList, Finished, SetTo, vars
<1> QED
  BY <1>1, <1>2, <1>3 DEF IInv, PassInv

\* Only a proxy libproxy has found is marked as one, and after it the type of the
\* proxy is for PROXYTYPE only.
LEMMA ProxyKeeps ==
    ASSUME IInv, Next, next # 0
    PROVE  ProxyInv'
<1>1. options' = options
  BY PassKeeps
<1> SUFFICES ASSUME ~Defined("PROXYTYPE"), NEW s \in Schemes, set'["PROXY"] = Proxy(s)
             PROVE  s # "direct" /\ (s # "other" => set'["PROXYTYPE"] = TypeOf(s))
  BY <1>1 DEF ProxyInv, Defined
<1>2. CASE set'["PROXY"] = set["PROXY"] /\ set'["PROXYTYPE"] = set["PROXYTYPE"]
  BY <1>2 DEF IInv, ProxyInv
<1>3. CASE TakeProxies
  <2>1. CASE set'["PROXY"] = set["PROXY"] /\ set'["PROXYTYPE"] = set["PROXYTYPE"]
    BY <2>1, <1>2
  <2>2. CASE \E t \in Schemes : /\ t # "direct" /\ set'["PROXY"] = Proxy(t)
                                /\ t # "other" => set'["PROXYTYPE"] = TypeOf(t)
    BY <2>2 DEF Proxy
  <2> QED
    BY <2>1, <2>2, <1>3, ProxiesTaken
<1>4. CASE Skip \/ Finished
  BY <1>2, <1>4 DEF Skip, Finished, vars
<1>5. CASE TakeText \/ TakePath \/ TakeFlag \/ TakeNumber \/ TakeAuth \/ TakePin
           \/ TakeEnum \/ TakeList
  <2>1. next \in 1 .. 18 /\ Slots[next].kind # "proxies"
        /\ (Slots[next].kind # "auth" => Defined(Key))
    BY <1>5, SlotsAre DEF TakeText, TakePath, TakeFlag, TakeNumber, TakeAuth, TakePin,
       TakeEnum, TakeList, At
  <2>2. Opt # "PROXYTYPE"
    BY <2>1, SlotFactsHold DEF SlotFacts, Opt, Key
  <2>3. \A o \in Opts \ {Opt} : set'[o] = set[o]
    BY <1>5 DEF TakeText, TakePath, TakeFlag, TakeNumber, TakeAuth, TakePin,
       TakeEnum, TakeList, SetTo, IInv, PassInv
  <2>4. set'["PROXYTYPE"] = set["PROXYTYPE"]
    BY <2>2, <2>3, ProxyNames
  <2>5. CASE Opt # "PROXY"
    BY <2>3, <2>4, <2>5, <1>2, ProxyNames
  <2>6. CASE Opt = "PROXY"
    <3>1. Slots[next].kind = "text"
      BY <2>1, <2>6, SlotFactsHold DEF SlotFacts, Opt
    <3>2. TakeText
      BY <3>1, <1>5 DEF TakePath, TakeFlag, TakeNumber, TakeAuth, TakePin, TakeEnum,
         TakeList, At
    <3>3. set'["PROXY"] = Str(text')
      BY <3>2, <2>6, ProxyNames DEF TakeText, SetTo, IInv, PassInv
    <3> QED
      BY <3>3 DEF Str, Proxy
  <2> QED
    BY <2>5, <2>6
<1> QED
  BY <1>3, <1>4, <1>5 DEF Next, SetProperty, Call

\* The invariant holds in every reachable state.
THEOREM Invariance == Spec => []IInv
<1>1. IInv /\ [Next]_vars => IInv'
  <2> SUFFICES ASSUME IInv, [Next]_vars PROVE IInv'
    OBVIOUS
  <2>1. CASE UNCHANGED vars
    <3>1. OptionInv' /\ PassInv' /\ ProxyInv'
      BY <2>1 DEF vars, IInv, OptionInv, PassInv, ProxyInv, Defined
    <3>2. AskedInv'
      BY <2>1 DEF vars, IInv, AskedInv, Done, Defined, Unasked, Latest, Granted
    <3> QED
      BY <3>1, <3>2 DEF IInv
  <2>2. CASE SetProperty
    BY <2>2, BuildKeeps
  <2>3. CASE Call
    BY <2>3, CallKeeps
  <2>4. CASE next # 0 /\ Next
    <3>1. options' = options /\ next' \in 1 .. 19 /\ DOMAIN set' = Opts
      BY <2>4, PassKeeps
    <3>2. OptionInv' /\ PassInv'
      BY <3>1 DEF IInv, OptionInv, PassInv
    <3>3. ProxyInv'
      BY <2>4, ProxyKeeps
    <3>4. AskedInv'
      <4>1. CASE Finished
        BY <4>1 DEF Finished, vars, IInv, AskedInv, Done, Defined, Unasked, Latest, Granted
      <4> QED
        BY <2>4, <4>1, SkipKeeps, TextKeeps, PathKeeps, ProxiesKeep, FlagKeeps, NumberKeeps,
           AuthKeeps, PinKeeps, EnumKeeps, ListKeeps DEF Next, SetProperty, Call
    <3> QED
      BY <3>2, <3>3, <3>4 DEF IInv
  <2>5. Next => SetProperty \/ Call \/ next # 0
    <3>1. 0 \notin DOMAIN Slots /\ Len(Slots) = 18
      BY SlotsAre
    <3> QED
      BY <3>1 DEF Next, Skip, TakeText, TakePath, TakeProxies, TakeFlag, TakeNumber,
         TakeAuth, TakePin, TakeEnum, TakeList, Finished, Over, At
  <2> QED
    BY <2>1, <2>2, <2>3, <2>4, <2>5
<1> QED
  BY <1>1, InitHolds, PTL DEF Spec

-----------------------------------------------------------------------------
(* What the caller gets *)

\* Whatever the options object holds, a setting is at the end what the last of its
\* properties asks for, if that is clear, and its default if it has none.
THEOREM Settings == Spec => []AsAskedFor
<1>1. IInv => AsAskedFor
  <2> SUFFICES ASSUME IInv, Over, NEW o \in Opts
               PROVE  IF SlotsOf(o) = {}
                        THEN Unasked(o)
                        ELSE Granted(o, Max(SlotsOf(o)))
    BY DEF AsAskedFor, Unasked, Granted
  <2>1. next = 19
    BY SlotsAre DEF Over
  <2>2. SlotsOf(o) = Done(o)
    BY <2>1, SlotsAre DEF SlotsOf, Done
  <2>3. CASE Done(o) = {}
    BY <2>2, <2>3 DEF IInv, AskedInv
  <2>4. CASE Done(o) # {}
    <3>1. Done(o) \in SUBSET (1 .. 18)
      BY DEF Done
    <3>2. Latest(o, Max(Done(o)))
      BY <3>1, <2>4, MaxIs DEF Latest
    <3>3. Granted(o, Max(Done(o)))
      BY <3>2 DEF IInv, AskedInv, Latest
    <3> QED
      BY <3>3, <2>2, <2>4
  <2> QED
    BY <2>3, <2>4
<1> QED
  BY <1>1, Invariance, PTL

\* A proxy of libproxy of the types HTTP, HTTPS and SOCKS 4 is used with its own
\* type unless PROXYTYPE asks for another.
THEOREM ProxyType == Spec => []TypeOfProxy
<1>1. IInv => TypeOfProxy
  <2> SUFFICES ASSUME IInv, ~Defined("PROXYTYPE"), NEW s \in Schemes,
                      set["PROXY"] = Proxy(s), s \notin {"other", "socks5"}
               PROVE  set["PROXYTYPE"] = Long(CASE s = "https"  -> 2
                                                [] s = "http"   -> 0
                                                [] s = "socks4" -> 4)
    BY DEF TypeOfProxy
  <2>1. s # "direct" /\ set["PROXYTYPE"] = TypeOf(s)
    BY DEF IInv, ProxyInv
  <2>2. s \in {"https", "http", "socks4"}
    BY <2>1, SchemesAssumption
  <2>3. CASE s = "https"
    BY <2>1, <2>3 DEF TypeOf, Starts
  <2>4. CASE s = "http"
    BY <2>1, <2>4 DEF TypeOf, Starts
  <2>5. CASE s = "socks4"
    BY <2>1, <2>5 DEF TypeOf, Starts
  <2> QED
    BY <2>2, <2>3, <2>4, <2>5
<1> QED
  BY <1>1, Invariance, PTL
=============================================================================
