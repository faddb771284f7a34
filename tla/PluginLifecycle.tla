--------------------------- MODULE PluginLifecycle ---------------------------
(***************************************************************************)
(* The plug-in from kInitPlugin to kDeinitPlugin: the commands cURL and     *)
(* cURL_FTP_* that 4D processes run meanwhile, from curl_easy_init to the  *)
(* return, with what each of them allocates; the proxy factory `pf` that   *)
(* they share under the lock `mutexPf`; libcurl's global state; exceptions,*)
(* which PluginMain swallows.                                              *)
(***************************************************************************)
EXTENDS Integers

CONSTANTS
    Calls,      \* commands that are run
    Exit,       \* OnExit, as an owner of the lock
    NoOne       \* the lock is free

ASSUME OwnersAssumption == Exit \notin Calls /\ NoOne \notin Calls /\ NoOne # Exit

VARIABLES
    waits,      \* the host lets commands finish before it unloads the plug-in
    plugin,     \* where OnStartup and OnExit are
    curl,       \* libcurl's global state
    factory,    \* the proxy factory
    pf,         \* the variable pf points to it
    owner,      \* of mutexPf
    pc,         \* where each call is
    uses,       \* what a lookup has been called with
    handle,     \* the easy handle of each call
    slists,     \* its slists
    streams     \* its files

vars == <<waits, plugin, curl, factory, pf, owner, pc, uses, handle, slists, streams>>
globals == <<waits, plugin, curl, factory, pf>>
resources == <<handle, slists, streams>>

Ended == {"returned", "threw"}

Init ==
    /\ waits \in BOOLEAN
    /\ plugin = "off"
    /\ curl = "none" /\ factory = "none" /\ pf = "NULL"
    /\ owner = NoOne
    /\ pc = [c \in Calls |-> "new"]
    /\ uses = [c \in Calls |-> "NULL"]
    /\ handle = [c \in Calls |-> FALSE]
    /\ slists = [c \in Calls |-> FALSE]
    /\ streams = [c \in Calls |-> FALSE]

\* Mutant: OnExit does not take the lock.
MayLock_ExitAnyway(p) == p = Exit \/ owner = NoOne

\* Mutant: commands share the lock.
MayLock_Shared(p) == owner = NoOne \/ (p # Exit /\ owner # Exit)

\* std::lock_guard: p may go on.
MayLock(p) == owner = NoOne

-----------------------------------------------------------------------------
(* OnStartup and OnExit.  While they run the host starts no command. *)

\* Mutant: there is no curl_global_init.
CurlAfterStart_None == curl

CurlAfterStart == "live"

StartCurl ==
    /\ plugin = "off"
    /\ curl' = CurlAfterStart
    /\ plugin' = "starting"
    /\ UNCHANGED <<waits, factory, pf, owner, pc, uses, resources>>

\* px_proxy_factory_new may find no memory.
MakeFactory ==
    /\ plugin = "starting"
    /\ \/ factory' = "live" /\ pf' = "set"
       \/ UNCHANGED <<factory, pf>>
    /\ plugin' = "on"
    /\ UNCHANGED <<waits, curl, owner, pc, uses, resources>>

\* 4D unloads the plug-in.
Unload ==
    /\ plugin = "on"
    /\ waits => \A c \in Calls : pc[c] \in {"new"} \cup Ended
    /\ plugin' = "locking"
    /\ UNCHANGED <<waits, curl, factory, pf, owner, pc, uses, resources>>

ExitLocks ==
    /\ plugin = "locking" /\ MayLock(Exit)
    /\ owner' = Exit
    /\ plugin' = "freeing"
    /\ UNCHANGED <<waits, curl, factory, pf, pc, uses, resources>>

\* Mutant: pf is not tested, and NULL is freed.
FactoryAfterExit_Untested == IF pf = "set" THEN "freed" ELSE "NULL freed"

FactoryAfterExit == IF pf = "set" THEN "freed" ELSE factory

FreeFactory ==
    /\ plugin = "freeing"
    /\ factory' = FactoryAfterExit
    /\ plugin' = "clearing"
    /\ UNCHANGED <<waits, curl, pf, owner, pc, uses, resources>>

\* Mutant: the pointer is left as it is.
PfAfterExit_Same == pf

PfAfterExit == "NULL"

ClearFactory ==
    /\ plugin = "clearing"
    /\ pf' = PfAfterExit
    /\ owner' = NoOne
    /\ plugin' = "leaving"
    /\ UNCHANGED <<waits, curl, factory, pc, uses, resources>>

\* curl_global_cleanup, after the lock has been given back.
CleanCurl ==
    /\ plugin = "leaving"
    /\ curl' = "cleaned"
    /\ plugin' = "off again"
    /\ UNCHANGED <<waits, factory, pf, owner, pc, uses, resources>>

-----------------------------------------------------------------------------
(* A command *)

\* PluginMain is called with a command.  curl_easy_init may fail.
Begin(c) ==
    /\ pc[c] = "new" /\ plugin = "on"
    /\ \/ handle' = [handle EXCEPT ![c] = TRUE] /\ pc' = [pc EXCEPT ![c] = "options"]
       \/ pc' = [pc EXCEPT ![c] = "returned"] /\ UNCHANGED handle
    /\ UNCHANGED <<globals, owner, uses, slists, streams>>

\* curl_set_options, which may make slists, and of which AUTOPROXY needs the lock.
SetOptions(c) ==
    /\ pc[c] = "options"
    /\ \E made \in BOOLEAN : slists' = [slists EXCEPT ![c] = made]
    /\ \E auto \in BOOLEAN : pc' = [pc EXCEPT ![c] = IF auto THEN "locking" ELSE "perform"]
    /\ UNCHANGED <<globals, owner, uses, handle, streams>>

CallLocks(c) ==
    /\ pc[c] = "locking" /\ MayLock(c)
    /\ owner' = c
    /\ uses' = [uses EXCEPT ![c] = pf]
    /\ pc' = [pc EXCEPT ![c] = "lookup"]
    /\ UNCHANGED <<globals, resources>>

\* Mutant: the lock is given back where proxies have been found.
OwnerAfterLookup_IfFound(found) == IF found THEN NoOne ELSE owner

\* The lock_guard goes out of scope.
OwnerAfterLookup(found) == NoOne

\* px_proxy_factory_get_proxies returns; there may be none.
LookupReturns(c) ==
    /\ pc[c] = "lookup"
    /\ \E found \in BOOLEAN : owner' = OwnerAfterLookup(found)
    /\ uses' = [uses EXCEPT ![c] = "NULL"]
    /\ pc' = [pc EXCEPT ![c] = "perform"]
    /\ UNCHANGED <<globals, resources>>

\* The transfer; the callbacks may open files.
Perform(c) ==
    /\ pc[c] = "perform"
    /\ \E opened \in BOOLEAN : streams' = [streams EXCEPT ![c] = opened]
    /\ pc' = [pc EXCEPT ![c] = "freeing"]
    /\ UNCHANGED <<globals, owner, uses, handle, slists>>

\* Mutant: the files are closed before the easy handle is cleaned up.
After_FilesFirst(place) ==
    CASE place = "freeing" -> "closing"
      [] place = "closing" -> "cleanup"
      [] place = "cleanup" -> "returned"

\* The order of release.
After(place) ==
    CASE place = "freeing" -> "cleanup"
      [] place = "cleanup" -> "closing"
      [] place = "closing" -> "returned"

FreeSlists(c) ==
    /\ pc[c] = "freeing"
    /\ slists' = [slists EXCEPT ![c] = FALSE]
    /\ pc' = [pc EXCEPT ![c] = After("freeing")]
    /\ UNCHANGED <<globals, owner, uses, handle, streams>>

\* curl_easy_cleanup closes connections, of which it tells curl_debug_function, which
\* may open a log.
EasyCleanup(c) ==
    /\ pc[c] = "cleanup"
    /\ handle' = [handle EXCEPT ![c] = FALSE]
    /\ \E opened \in BOOLEAN : streams' = [streams EXCEPT ![c] = @ \/ opened]
    /\ pc' = [pc EXCEPT ![c] = After("cleanup")]
    /\ UNCHANGED <<globals, owner, uses, slists>>

CloseStreams(c) ==
    /\ pc[c] = "closing"
    /\ streams' = [streams EXCEPT ![c] = FALSE]
    /\ pc' = [pc EXCEPT ![c] = After("closing")]
    /\ UNCHANGED <<globals, owner, uses, handle, slists>>

\* Mutant: lock and unlock are called without a lock_guard.
OwnerAfterThrow_Same(c) == owner

\* Unwinding runs the destructor of the lock_guard, if there is one.
OwnerAfterThrow(c) == IF owner = c THEN NoOne ELSE owner

\* An exception leaves the command, from where its own code runs.  PluginMain swallows
\* it: nobody releases what the command holds, and nothing is returned.
Throw(c) ==
    /\ pc[c] \in {"options", "lookup", "perform", "freeing"}
    /\ owner' = OwnerAfterThrow(c)
    /\ uses' = [uses EXCEPT ![c] = "NULL"]
    /\ pc' = [pc EXCEPT ![c] = "threw"]
    /\ UNCHANGED <<globals, resources>>

-----------------------------------------------------------------------------
OnStartup == StartCurl \/ MakeFactory
OnExit    == ExitLocks \/ FreeFactory \/ ClearFactory \/ CleanCurl
Work(c)   == SetOptions(c) \/ LookupReturns(c) \/ Perform(c) \/ FreeSlists(c)
             \/ EasyCleanup(c) \/ CloseStreams(c)
CallStep(c) == Begin(c) \/ CallLocks(c) \/ Work(c) \/ Throw(c)

Next == OnStartup \/ Unload \/ OnExit \/ (\E c \in Calls : CallStep(c))

Spec == Init /\ [][Next]_vars

\* A command that runs goes on, and comes back from libproxy and from libcurl; OnExit
\* goes on.  Each command takes the lock once, so that nobody is passed over for ever.
Fairness ==
    /\ WF_vars(OnExit)
    /\ \A c \in Calls : WF_vars(CallLocks(c) \/ Work(c))

LiveSpec == Spec /\ Fairness

-----------------------------------------------------------------------------
TypeOK ==
    /\ waits \in BOOLEAN
    /\ plugin \in {"off", "starting", "on", "locking", "freeing", "clearing", "leaving", "off again"}
    /\ curl \in {"none", "live", "cleaned"}
    /\ factory \in {"none", "live", "freed"}
    /\ pf \in {"NULL", "set"}
    /\ owner \in Calls \cup {Exit, NoOne}
    /\ pc \in [Calls -> {"new", "options", "locking", "lookup", "perform", "freeing", "cleanup", "closing", "returned", "threw"}]
    /\ uses \in [Calls -> {"NULL", "set"}]
    /\ handle \in [Calls -> BOOLEAN]
    /\ slists \in [Calls -> BOOLEAN]
    /\ streams \in [Calls -> BOOLEAN]

\* A command inside libproxy is there alone, and the factory it has given to it is
\* not freed under it, even when the host unloads the plug-in while commands run
\* (lines 1126-1155 against 26-33).
LookupIsSafe ==
    \A c \in Calls : pc[c] = "lookup" =>
        /\ \A d \in Calls : pc[d] = "lookup" => d = c
        /\ uses[c] = "set" => factory = "live"

\* If the host waits for the commands, libcurl's global state is there as long as a
\* command uses an easy handle, and no command gives libproxy NULL for a factory
\* that has been made (line 34 has no lock, line 1128 does not test pf).
GlobalsOutliveCalls ==
    waits => \A c \in Calls :
        /\ handle[c] /\ pc[c] # "threw" => curl = "live"
        /\ pc[c] = "lookup" => uses[c] = "set" \/ factory = "none"

\* A command that returns has released all it had allocated, also the logs that
\* curl_easy_cleanup has made curl_debug_function open (lines 2166-2217).
AllReleased ==
    \A c \in Calls : pc[c] = "returned" => ~handle[c] /\ ~slists[c] /\ ~streams[c]

\* A command that waits for the proxy factory gets it, whatever exceptions other
\* commands end with (lines 1126, 106-109).
LookupIsGranted ==
    \A c \in Calls : pc[c] = "locking" ~> pc[c] # "locking"

\* Unloading the plug-in comes to its end.
ExitEnds == plugin = "locking" ~> plugin = "off again"
=============================================================================
