------------------------ MODULE PluginLifecycleProofs ------------------------
(***************************************************************************)
(* Machine-checked proofs about PluginLifecycle, for any number of commands.*)
(***************************************************************************)
EXTENDS PluginLifecycle, TLAPS

\* Places in OnExit, and in a command.
Before == {"off", "starting"}
Locked == {"freeing", "clearing"}
Idle   == {"new"} \cup Ended

\* The lock: a command owns it exactly while it is inside libproxy, OnExit
\* exactly while it frees the factory.
LockInv ==
    /\ \A c \in Calls : pc[c] = "lookup" <=> owner = c
    /\ plugin \in Locked <=> owner = Exit

\* The factory and the pointer: they disagree only inside OnExit.
FactoryInv ==
    /\ plugin \in Before => factory = "none" /\ pf = "NULL"
    /\ pf = "set" => factory = "live" \/ plugin = "clearing"
    /\ factory = "live" => pf = "set"
    /\ factory = "freed" => plugin \in {"clearing", "leaving", "off again"}
    /\ plugin \in {"clearing", "leaving", "off again"} => factory # "live"
    /\ plugin \in {"leaving", "off again"} => pf = "NULL"

\* What a command has given to libproxy is what the pointer was, and still is.
UsesInv ==
    \A c \in Calls :
        /\ uses[c] = "set" => pc[c] = "lookup"
        /\ pc[c] = "lookup" => uses[c] = pf

\* Before the plug-in is on nothing runs; while it is, libcurl is there; and
\* when the host waits, nothing runs afterwards.
PlaceInv ==
    /\ plugin \in Before => \A c \in Calls : pc[c] = "new"
    /\ plugin \notin {"off", "off again"} => curl = "live"
    /\ waits /\ plugin \notin Before \cup {"on"} => \A c \in Calls : pc[c] \in Idle

\* What a command holds goes with where it is.
HoldsInv ==
    \A c \in Calls :
        /\ handle[c] => pc[c] \notin {"new", "closing", "returned"}
        /\ slists[c] => pc[c] \notin {"new", "options", "cleanup", "closing", "returned"}
        /\ streams[c] => pc[c] \notin {"new", "options", "locking", "lookup", "returned"}

IInv == TypeOK /\ LockInv /\ FactoryInv /\ UsesInv /\ PlaceInv /\ HoldsInv

-----------------------------------------------------------------------------
\* The plug-in starts in the invariant.
THEOREM InitInv == Init => IInv
BY OwnersAssumption DEF Init, IInv, TypeOK, LockInv, FactoryInv, UsesInv, PlaceInv, HoldsInv,
   Before, Locked, Idle, Ended

(* The steps, one lemma per action or per group of actions that touch the  *)
(* same part of the state.                                                 *)

\* OnStartup makes the global state and the factory before there is a command.
LEMMA StartupStep == ASSUME IInv, OnStartup PROVE IInv'
<1>1. CASE StartCurl
  BY <1>1 DEF StartCurl, CurlAfterStart, IInv, TypeOK, LockInv, FactoryInv, UsesInv, PlaceInv,
     HoldsInv, Before, Locked, Idle, resources
<1>2. CASE MakeFactory
  BY <1>2 DEF MakeFactory, IInv, TypeOK, LockInv, FactoryInv, UsesInv, PlaceInv, HoldsInv,
     Before, Locked, Idle, resources
<1> QED
  BY <1>1, <1>2 DEF OnStartup

\* If the host waits, no command runs when it unloads the plug-in.
LEMMA UnloadStep == ASSUME IInv, Unload PROVE IInv'
BY DEF Unload, IInv, TypeOK, LockInv, FactoryInv, UsesInv, PlaceInv, HoldsInv, Before, Locked,
   Idle, resources

\* OnExit: it finds the lock free, hence no command inside libproxy, and
\* keeps it until the pointer is cleared.
LEMMA ExitStep == ASSUME IInv, OnExit PROVE IInv'
<1>1. CASE ExitLocks
  BY <1>1, OwnersAssumption DEF ExitLocks, MayLock, IInv, TypeOK, LockInv, FactoryInv, UsesInv,
     PlaceInv, HoldsInv, Before, Locked, Idle, resources
<1>2. CASE FreeFactory
  BY <1>2, OwnersAssumption DEF FreeFactory, FactoryAfterExit, IInv, TypeOK, LockInv, FactoryInv,
     UsesInv, PlaceInv, HoldsInv, Before, Locked, Idle, resources
<1>3. CASE ClearFactory
  <2>1. owner = Exit /\ \A c \in Calls : pc[c] # "lookup"
    BY <1>3, OwnersAssumption DEF ClearFactory, IInv, LockInv, Locked
  <2>2. TypeOK'
    BY <1>3 DEF ClearFactory, PfAfterExit, IInv, TypeOK, resources
  <2>3. LockInv' /\ UsesInv'
    BY <1>3, <2>1, OwnersAssumption DEF ClearFactory, IInv, LockInv, UsesInv, Locked
  <2>4. FactoryInv'
    BY <1>3 DEF ClearFactory, PfAfterExit, IInv, FactoryInv, TypeOK, Before
  <2>5. PlaceInv' /\ HoldsInv'
    BY <1>3 DEF ClearFactory, IInv, PlaceInv, HoldsInv, Before, Idle, resources
  <2> QED
    BY <2>2, <2>3, <2>4, <2>5 DEF IInv
<1>4. CASE CleanCurl
  BY <1>4, OwnersAssumption DEF CleanCurl, IInv, TypeOK, LockInv, FactoryInv, UsesInv, PlaceInv,
     HoldsInv, Before, Locked, Idle, resources
<1> QED
  BY <1>1, <1>2, <1>3, <1>4 DEF OnExit

\* The steps of a command that leave the lock alone.
LEMMA QuietStep ==
    ASSUME IInv, NEW c \in Calls,
           Begin(c) \/ SetOptions(c) \/ Perform(c) \/ FreeSlists(c) \/ EasyCleanup(c)
               \/ CloseStreams(c)
    PROVE  IInv'
<1> USE DEF IInv, globals, resources
<1>1. pc[c] \in {"new", "options", "perform", "freeing", "cleanup", "closing"}
      /\ pc'[c] \in {"options", "locking", "perform", "freeing", "cleanup", "closing", "returned"}
      /\ \A d \in Calls \ {c} : pc'[d] = pc[d]
  BY DEF Begin, SetOptions, Perform, FreeSlists, EasyCleanup, CloseStreams, After, TypeOK
<1>2. UNCHANGED <<globals, owner, uses>>
  BY DEF Begin, SetOptions, Perform, FreeSlists, EasyCleanup, CloseStreams
<1>3. TypeOK'
  <2>1. CASE Begin(c) \/ SetOptions(c)
    BY <2>1, ZenonT(60) DEF TypeOK, Begin, SetOptions
  <2>2. CASE Perform(c) \/ FreeSlists(c)
    BY <2>2, ZenonT(60) DEF TypeOK, Perform, FreeSlists, After
  <2>3. CASE EasyCleanup(c)
    BY <2>3 DEF TypeOK, EasyCleanup, After
  <2>4. CASE CloseStreams(c)
    BY <2>4 DEF TypeOK, CloseStreams, After
  <2> QED
    BY <2>1, <2>2, <2>3, <2>4
<1>4. LockInv' /\ FactoryInv' /\ UsesInv'
  BY <1>1, <1>2, ZenonT(60) DEF LockInv, FactoryInv, UsesInv, TypeOK
<1>5. PlaceInv'
  <2>1. pc[c] = "new" => plugin = "on"
    BY DEF Begin, SetOptions, Perform, FreeSlists, EasyCleanup, CloseStreams
  <2>2. pc[c] # "new" => plugin \notin Before
    BY DEF PlaceInv
  <2>3. waits => plugin = "on"
    BY <2>1, <2>2, <1>1 DEF PlaceInv, Idle, Ended, Before, TypeOK
  <2> QED
    BY <2>1, <2>2, <2>3, <1>1, <1>2 DEF PlaceInv, Before
<1>6. HoldsInv'
  <2>1. ASSUME NEW d \in Calls, d # c
        PROVE  /\ handle'[d] = handle[d] /\ slists'[d] = slists[d] /\ streams'[d] = streams[d]
               /\ pc'[d] = pc[d]
    BY <2>1 DEF TypeOK, Begin, SetOptions, Perform, FreeSlists, EasyCleanup, CloseStreams
  <2>2. /\ handle'[c] => pc'[c] \notin {"new", "closing", "returned"}
        /\ slists'[c] => pc'[c] \notin {"new", "options", "cleanup", "closing", "returned"}
        /\ streams'[c] => pc'[c] \notin {"new", "options", "locking", "lookup", "returned"}
    <3>1. CASE Begin(c)
      BY <3>1 DEF Begin, HoldsInv, TypeOK
    <3>2. CASE SetOptions(c)
      BY <3>2 DEF SetOptions, HoldsInv, TypeOK
    <3>3. CASE Perform(c)
      BY <3>3 DEF Perform, HoldsInv, TypeOK
    <3>4. CASE FreeSlists(c)
      BY <3>4 DEF FreeSlists, After, HoldsInv, TypeOK
    <3>5. CASE EasyCleanup(c)
      BY <3>5 DEF EasyCleanup, After, HoldsInv, TypeOK
    <3>6. CASE CloseStreams(c)
      BY <3>6 DEF CloseStreams, After, HoldsInv, TypeOK
    <3> QED
      BY <3>1, <3>2, <3>3, <3>4, <3>5, <3>6
  <2> QED
    BY <2>1, <2>2 DEF HoldsInv
<1> QED
  BY <1>3, <1>4, <1>5, <1>6

\* The steps that take the lock and give it back, by a return or by unwinding.
LEMMA LockStep ==
    ASSUME IInv, NEW c \in Calls, CallLocks(c) \/ LookupReturns(c) \/ Throw(c)
    PROVE  IInv'
<1> USE DEF IInv, globals, resources
<1>1. CASE CallLocks(c)
  <2>1. owner = NoOne /\ owner' = c /\ c # Exit /\ pc'[c] = "lookup" /\ uses'[c] = pf
        /\ plugin \notin Locked
    BY <1>1, OwnersAssumption DEF CallLocks, MayLock, TypeOK, LockInv
  <2>2. \A d \in Calls \ {c} : pc'[d] = pc[d] /\ pc[d] # "lookup" /\ uses'[d] = uses[d]
    BY <1>1, <2>1, OwnersAssumption DEF CallLocks, TypeOK, LockInv
  <2>3. TypeOK'
    BY <1>1, <2>1 DEF TypeOK, CallLocks
  <2>4. LockInv' /\ FactoryInv' /\ UsesInv'
    BY <1>1, <2>1, <2>2 DEF CallLocks, TypeOK, LockInv, FactoryInv, UsesInv, Locked
  <2>5. PlaceInv' /\ HoldsInv'
    BY <1>1, <2>1, <2>2 DEF CallLocks, TypeOK, PlaceInv, HoldsInv, Idle, Ended
  <2> QED
    BY <2>3, <2>4, <2>5
<1>2. CASE LookupReturns(c) \/ Throw(c)
  <2>1. pc'[c] \in {"perform", "threw"} /\ uses'[c] = "NULL"
        /\ \A d \in Calls \ {c} : pc'[d] = pc[d] /\ uses'[d] = uses[d]
    BY <1>2 DEF LookupReturns, Throw, TypeOK
  <2>2. owner' = (IF owner = c THEN NoOne ELSE owner)
    BY <1>2 DEF LookupReturns, OwnerAfterLookup, Throw, OwnerAfterThrow, LockInv
  <2>3. TypeOK'
    BY <1>2, <2>2, ZenonT(60) DEF TypeOK, LookupReturns, Throw
  <2>4. LockInv'
    BY <1>2, <2>1, <2>2, OwnersAssumption DEF LockInv, LookupReturns, Throw
  <2>5. FactoryInv' /\ UsesInv'
    BY <1>2, <2>1 DEF FactoryInv, UsesInv, LookupReturns, Throw
  <2>6. PlaceInv' /\ HoldsInv'
    <3>1. pc[c] \in {"options", "lookup", "perform", "freeing"}
      BY <1>2 DEF LookupReturns, Throw
    <3>2. LookupReturns(c) => pc[c] = "lookup"
      BY DEF LookupReturns
    <3>3. plugin \notin Before /\ (waits => plugin = "on")
      BY <3>1 DEF PlaceInv, Idle, Ended, TypeOK, Before
    <3>4. UNCHANGED <<globals, resources>>
      BY <1>2 DEF LookupReturns, Throw
    <3>5. PlaceInv'
      BY <2>1, <3>3, <3>4 DEF PlaceInv, Before
    <3>6. HoldsInv'
      BY <2>1, <3>1, <3>4 DEF HoldsInv
    <3> QED
      BY <3>5, <3>6
  <2> QED
    BY <2>3, <2>4, <2>5, <2>6
<1> QED
  BY <1>1, <1>2

\* Every step preserves the invariant.
THEOREM StepInv == IInv /\ [Next]_vars => IInv'
<1> SUFFICES ASSUME IInv, [Next]_vars PROVE IInv'
  OBVIOUS
<1>1. CASE OnStartup
  BY <1>1, StartupStep
<1>2. CASE Unload
  BY <1>2, UnloadStep
<1>3. CASE OnExit
  BY <1>3, ExitStep
<1>4. ASSUME NEW c \in Calls, CallStep(c) PROVE IInv'
  BY <1>4, QuietStep, LockStep DEF CallStep, Work
<1>5. CASE UNCHANGED vars
  BY <1>5, ZenonT(60) DEF vars, IInv, TypeOK, LockInv, FactoryInv, UsesInv, PlaceInv, HoldsInv
<1> QED
  BY <1>1, <1>2, <1>3, <1>4, <1>5 DEF Next

\* The invariant, strong enough to be inductive, holds throughout.
THEOREM Invariant == Spec => []IInv
BY InitInv, StepInv, PTL DEF Spec

-----------------------------------------------------------------------------
(* What it gives. *)

\* The plug-in's globals and every command's resources keep their types.
THEOREM TypeCorrect == Spec => []TypeOK
<1>1. IInv => TypeOK
  BY DEF IInv
<1> QED
  BY <1>1, Invariant, PTL

\* A command inside libproxy is there alone, with a factory nobody frees, even
\* if the host unloads the plug-in while commands run.
THEOREM LookupsAreSafe == Spec => []LookupIsSafe
<1>1. IInv => LookupIsSafe
  <2> SUFFICES ASSUME IInv, NEW c \in Calls, pc[c] = "lookup"
               PROVE  /\ \A d \in Calls : pc[d] = "lookup" => d = c
                      /\ uses[c] = "set" => factory = "live"
    BY DEF LookupIsSafe
  <2>1. owner = c /\ uses[c] = pf
    BY DEF IInv, LockInv, UsesInv
  <2>2. \A d \in Calls : pc[d] = "lookup" => d = c
    BY <2>1 DEF IInv, LockInv
  <2>3. plugin # "clearing"
    BY <2>1, OwnersAssumption DEF IInv, LockInv, Locked
  <2>4. uses[c] = "set" => factory = "live"
    BY <2>1, <2>3 DEF IInv, FactoryInv
  <2> QED
    BY <2>2, <2>4
<1> QED
  BY <1>1, Invariant, PTL

\* When the host waits for the commands before it unloads the plug-in,
\* libcurl and the factory are there as long as a command needs them.
THEOREM GlobalsAreThere == Spec => []GlobalsOutliveCalls
<1>1. IInv => GlobalsOutliveCalls
  <2> SUFFICES ASSUME IInv, waits, NEW c \in Calls
               PROVE  /\ handle[c] /\ pc[c] # "threw" => curl = "live"
                      /\ pc[c] = "lookup" => uses[c] = "set" \/ factory = "none"
    BY DEF GlobalsOutliveCalls
  <2>1. pc[c] \notin Idle => plugin = "on"
    BY DEF IInv, PlaceInv, Before, Idle, TypeOK
  <2>2. handle[c] /\ pc[c] # "threw" => pc[c] \notin Idle
    BY DEF IInv, HoldsInv, Idle, Ended
  <2>3. pc[c] = "lookup" => plugin = "on" /\ uses[c] = pf
    BY <2>1 DEF Idle, Ended, IInv, UsesInv
  <2>4. plugin = "on" => curl = "live" /\ (pf = "set" \/ factory = "none")
    BY DEF IInv, PlaceInv, FactoryInv, TypeOK
  <2> QED
    BY <2>1, <2>2, <2>3, <2>4
<1> QED
  BY <1>1, Invariant, PTL

\* A command that returns has released its handle, its slists and its files.
THEOREM ReturnedReleased == Spec => []AllReleased
<1>1. IInv => AllReleased
  BY DEF IInv, HoldsInv, AllReleased
<1> QED
  BY <1>1, Invariant, PTL
=============================================================================
