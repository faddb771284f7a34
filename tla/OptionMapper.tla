---------------------------- MODULE OptionMapper ----------------------------
(***************************************************************************)
(* curl_set_options of 4DPlugin-cURL.cpp: one pass over the properties the  *)
(* plugin knows, in the order of the source, which turns the options object *)
(* into settings of the easy handle and a few variables of the call.  Every *)
(* text is read through one variable, `stringValue`, and the getter         *)
(* ob_get_a of 4DPlugin-JSON.cpp says "there is such a property", not "it   *)
(* is a text".                                                             *)
(*                                                                         *)
(* Of the 150 properties, which fall into few kinds, every kind is here     *)
(* with those of its members that share a setting with another, and one or  *)
(* two others; Slots lists them in the order of the source.                *)
(***************************************************************************)
EXTENDS Integers, Sequences, FiniteSetsExt

CONSTANTS
    MaxDefined,     \* properties in the options object
    Schemes         \* of the proxies libproxy may find

ASSUME DefinedAssumption == MaxDefined \in Nat
ASSUME SchemesAssumption ==
    Schemes \subseteq {"direct", "http", "https", "socks4", "socks5", "other"}

\* 4D values.  A text is the name of the property it was meant for, a name of
\* an enumeration, a pin, or empty.
Undefined   == <<"undefined">>
Text(s)     == <<"text", s>>
Number(n)   == <<"number", n>>
Boolean(b)  == <<"boolean", b>>
Texts(list) == <<"collection", list>>

\* Settings.  `Default` is libcurl's, or the plugin's initial value.
Default  == <<"default">>
Str(s)   == <<"string", s>>
Path(s)  == <<"path", s>>       \* converted to a POSIX path (macOS)
Proxy(s) == <<"proxy", s>>      \* a URL libproxy has found
Long(n)  == <<"long", n>>
Flag(b)  == <<"flag", b>>
List(l)  == <<"list", l>>

Slot(key, kind, opt) == [key |-> key, kind |-> kind, opt |-> opt]

PlainSlots == <<
    Slot("READDATA",  "path",    "request_path"),
    Slot("WRITEDATA", "path",    "response_path"),
    Slot("AUTOPROXY", "proxies", "PROXY"),
    Slot("PRIVATE",   "text",    "userInfo"),
    Slot("ATOMIC",    "flag",    "isAtomic") >>
TextSlots == <<
    Slot("PROXY",     "text",    "PROXY"),
    Slot("USERAGENT", "text",    "USERAGENT") >>
PathSlots == <<
    Slot("CAINFO",    "path",    "CAINFO") >>
NumberSlots == <<
    Slot("RESUME_FROM",       "number", "RESUME_FROM_LARGE"),
    Slot("RESUME_FROM_LARGE", "number", "RESUME_FROM_LARGE"),
    Slot("SSH_AUTH_TYPES",    "auth",   "SSH_AUTH_TYPES") >>
LaterNumberSlots == <<
    Slot("CERTINFO",  "number",  "CERTINFO"),
    Slot("HEADEROPT", "number",  "HEADEROPT") >>
PinSlots == <<
    Slot("PINNEDPUBLICKEY", "pin", "PINNEDPUBLICKEY") >>
EnumSlots == <<
    Slot("HTTP_VERSION", "enum", "HTTP_VERSION"),
    Slot("PROXYTYPE",    "enum", "PROXYTYPE"),
    Slot("HEADEROPT",    "enum", "HEADEROPT") >>
ListSlots == <<
    Slot("HTTPHEADER", "list", "HTTPHEADER") >>

Slots == PlainSlots \o TextSlots \o PathSlots \o NumberSlots
         \o LaterNumberSlots \o PinSlots \o EnumSlots \o ListSlots

Keys == {Slots[i].key : i \in DOMAIN Slots}
Opts == {Slots[i].opt : i \in DOMAIN Slots}

\* The names curl_easy_setopt_enum knows, one table for all its options, and
\* libcurl's values of them.
Enum == [n \in {"HTTP_VERSION_2", "PROXY_SOCKS5", "HEADER_SEPARATE"} |->
            CASE n = "HTTP_VERSION_2"  -> 3
              [] n = "PROXY_SOCKS5"    -> 5
              [] n = "HEADER_SEPARATE" -> 1]
Pin == "sha256//"

VARIABLES
    options,    \* the options object
    next,       \* the slot that is looked at next; 0 before the call
    text,       \* stringValue
    set         \* what has been set

vars == <<options, next, text, set>>

\* What a 4D method may put into a property: what the property is meant for, and
\* what it is not.
ValuesOf(key) ==
    {Text(key), Text(""), Number(1), Boolean(TRUE)}
    \cup {Text(n) : n \in {m \in DOMAIN Enum :
                            \E i \in DOMAIN Slots : Slots[i].key = key /\ Slots[i].kind = "enum"}}
    \cup {Text(Pin) : k \in {"PINNEDPUBLICKEY"} \cap {key}}
    \cup {Texts(<<Text(""), Number(1), Text(key)>>) : k \in {"HTTPHEADER"} \cap {key}}

Init ==
    /\ options = [k \in Keys |-> Undefined]
    /\ next = 0
    /\ text = ""
    /\ set = [o \in Opts |-> Default]

Defined(key) == options[key] # Undefined

\* The 4D method builds the options object ...
SetProperty ==
    /\ next = 0
    /\ Cardinality({k \in Keys : Defined(k)}) < MaxDefined
    /\ \E k \in Keys : \E v \in ValuesOf(k) :
         /\ ~Defined(k)
         /\ options' = [options EXCEPT ![k] = v]
    /\ UNCHANGED <<next, text, set>>

\* ... and calls the plugin.
Call ==
    /\ next = 0
    /\ next' = 1
    /\ UNCHANGED <<options, text, set>>

-----------------------------------------------------------------------------
(* The getters of 4DPlugin-JSON.cpp *)

\* Mutant: an empty text is not converted, and the old one stays.
Read_NotEmpty(v) == IF v[1] = "text" /\ v[2] # "" THEN v[2] ELSE text

\* ob_get_a: stringValue afterwards.
Read(v) == IF v[1] = "text" THEN v[2] ELSE text

\* ob_get_n, ob_get_b, ob_get_c
AsNumber(v) == IF v[1] = "number" THEN v[2] ELSE 0
AsFlag(v)   == v[1] = "boolean" /\ v[2]
AsTexts(v)  == IF v[1] = "collection" THEN v[2] ELSE <<>>

-----------------------------------------------------------------------------
(* curl_set_options *)

At(kind) == next \in DOMAIN Slots /\ Slots[next].kind = kind
Key == Slots[next].key
Opt == Slots[next].opt
SetTo(v) == set' = [set EXCEPT ![Opt] = v]
Advance == next' = next + 1 /\ UNCHANGED options

\* if (!ob_get_a(...)) or if (!ob_is_defined(...))
Skip ==
    /\ next \in DOMAIN Slots /\ ~Defined(Key) /\ Slots[next].kind # "auth"
    /\ Advance
    /\ UNCHANGED <<text, set>>

TakeText ==
    /\ At("text") /\ Defined(Key)
    /\ text' = Read(options[Key])
    /\ SetTo(Str(text'))
    /\ Advance

TakePath ==
    /\ At("path") /\ Defined(Key)
    /\ text' = Read(options[Key])
    /\ SetTo(Path(text'))
    /\ Advance

\* The prefixes of a proxy URL that strncmp is asked for: five characters of
\* "https", four of "http", and five of "socks4" and of "socks5" alike.
Starts(s) ==
    CASE s = "https"               -> {"https", "http"}
      [] s \in {"socks4", "socks5"} -> {"socks"}
      [] OTHER                     -> {s}

\* Mutant: "http" is tested first.
TypeOf_HttpFirst(s) ==
    IF "http" \in Starts(s) THEN Long(0)
    ELSE IF "https" \in Starts(s) THEN Long(2)
    ELSE IF "socks" \in Starts(s) THEN Long(4)
    ELSE Default

\* CURLPROXY_HTTPS, _HTTP, _SOCKS4, _SOCKS5.  The last branch is never taken:
\* five characters do not tell "socks5" from "socks4".
TypeOf(s) ==
    IF "https" \in Starts(s) THEN Long(2)
    ELSE IF "http" \in Starts(s) THEN Long(0)
    ELSE IF "socks" \in Starts(s) THEN Long(4)
    ELSE IF "socks" \in Starts(s) THEN Long(5)
    ELSE Default

\* libproxy (external) finds up to two proxies; all but "direct://" are set one
\* after the other, so that the last one counts, and its type if it has one.
TakeProxies ==
    /\ At("proxies") /\ Defined(Key)
    /\ text' = Read(options[Key])
    /\ \E found \in {<<>>} \cup {<<s>> : s \in Schemes} \cup (Schemes \X Schemes) :
         LET use   == {i \in DOMAIN found : found[i] # "direct"}
             typed == {i \in use : TypeOf(found[i]) # Default}
         IN  set' = [set EXCEPT
                !["PROXY"] = IF use = {} THEN @ ELSE Proxy(found[Max(use)]),
                !["PROXYTYPE"] = IF typed = {} THEN @ ELSE TypeOf(found[Max(typed)])]
    /\ Advance

TakeFlag ==
    /\ At("flag") /\ Defined(Key)
    /\ SetTo(Flag(AsFlag(options[Key])))
    /\ Advance
    /\ UNCHANGED text

TakeNumber ==
    /\ At("number") /\ Defined(Key)
    /\ SetTo(Long(AsNumber(options[Key])))
    /\ Advance
    /\ UNCHANGED text

\* CURLSSH_AUTH_ANY unless the property is there; set in any case.
TakeAuth ==
    /\ At("auth")
    /\ SetTo(IF Defined(Key) THEN Long(AsNumber(options[Key])) ELSE Str("ANY"))
    /\ Advance
    /\ UNCHANGED text

TakePin ==
    /\ At("pin") /\ Defined(Key)
    /\ text' = Read(options[Key])
    /\ SetTo(IF text' = Pin THEN Str(text') ELSE Path(text'))
    /\ Advance

\* curl_easy_setopt_enum: a name it does not know is 0.  The branch for numbers
\* is never taken, since ob_get_a is true for them as well.
TakeEnum ==
    /\ At("enum") /\ Defined(Key)
    /\ text' = Read(options[Key])
    /\ SetTo(Long(IF text' \in DOMAIN Enum THEN Enum[text'] ELSE 0))
    /\ Advance

\* Mutant: every element becomes a line.
Lines_All(l) == l

\* The texts that are not empty.
IsLine(v) == v[1] = "text" /\ v # Text("")
Lines(l)  == SelectSeq(l, IsLine)

\* curl_easy_setopt_array: nothing is set without a line.
TakeList ==
    /\ At("list") /\ Defined(Key)
    /\ IF Lines(AsTexts(options[Key])) = <<>>
         THEN UNCHANGED set
         ELSE SetTo(List(Lines(AsTexts(options[Key]))))
    /\ Advance
    /\ UNCHANGED text

Over == next = Len(Slots) + 1
Finished == Over /\ UNCHANGED vars

Next ==
    \/ SetProperty \/ Call
    \/ Skip \/ TakeText \/ TakePath \/ TakeProxies \/ TakeFlag \/ TakeNumber
    \/ TakeAuth \/ TakePin \/ TakeEnum \/ TakeList
    \/ Finished

Spec == Init /\ [][Next]_vars

-----------------------------------------------------------------------------
(* Properties *)

\* What an option object asks for where the documentation is clear: the setting
\* a slot makes of a value of its type, if any; a collection without a line of
\* text asks for nothing.
Asked(list) == SelectSeq(list, IsLine)
Wish(slot, v) ==
    CASE slot.kind = "text" /\ v[1] = "text" -> {Str(v[2])}
      [] slot.kind = "path" /\ v[1] = "text" -> {Path(v[2])}
      [] slot.kind = "pin"  /\ v[1] = "text" ->
            {IF v[2] = Pin THEN Str(Pin) ELSE Path(v[2])}
      [] slot.kind = "flag" /\ v[1] = "boolean" -> {Flag(v[2])}
      [] slot.kind \in {"number", "auth"} /\ v[1] = "number" -> {Long(v[2])}
      [] slot.kind = "enum" /\ v[1] = "text" /\ v[2] \in DOMAIN Enum ->
            {Long(Enum[v[2]])}
      [] slot.kind = "list" /\ v[1] = "collection" ->
            {List(l) : l \in {Asked(v[2])} \ {<<>>}}
      [] OTHER -> {}

SlotsOf(o) == {i \in DOMAIN Slots : Slots[i].opt = o /\ Defined(Slots[i].key)}

\* Whatever nonsense the other properties hold, and in whichever order the
\* object was built: a setting is what the property for it asks for (the last
\* one in the order of the source), and a setting no property is for keeps its
\* default.  In particular an empty text is one.
AsAskedFor ==
    Over => \A o \in Opts :
        IF SlotsOf(o) = {}
          THEN \/ set[o] = Default
               \/ o = "SSH_AUTH_TYPES" /\ set[o] = Str("ANY")
               \/ o = "PROXYTYPE" /\ Defined("AUTOPROXY")
          ELSE LET i == Max(SlotsOf(o)) IN
               \A w \in Wish(Slots[i], options[Slots[i].key]) : set[o] = w

\* A proxy of HTTP, HTTPS or SOCKS 4 that libproxy has found is used with its own
\* type, whatever was found before it, unless another type was asked for.  (One
\* of no known type may inherit that of the one before; SOCKS 5 is below.)
TypeOfProxy ==
    Over /\ ~Defined("PROXYTYPE") =>
        \A s \in Schemes :
            set["PROXY"] = Proxy(s) /\ s \notin {"other", "socks5"} =>
                set["PROXYTYPE"] = Long(CASE s = "https"  -> 2
                                          [] s = "http"   -> 0
                                          [] s = "socks4" -> 4)

-----------------------------------------------------------------------------
(* What the documentation says of the options, and the pass does not do *)

\* README.md, "Behavior / plugin-specific options": the text in PRIVATE is for
\* the callback method, not sent to the server (as the user agent, say).
PrivateIsNotSent == set["USERAGENT"] # Str("PRIVATE")

\* README.md, the same table: AUTOPROXY sets PROXY and PROXYTYPE for the caller; so
\* a SOCKS 5 proxy is used with the type SOCKS 5.
Socks5IsTyped ==
    Over /\ ~Defined("PROXYTYPE") /\ set["PROXY"] = Proxy("socks5") =>
        set["PROXYTYPE"] = Long(5)
=============================================================================
