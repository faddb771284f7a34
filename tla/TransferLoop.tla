--------------------------- MODULE TransferLoop ---------------------------
(***************************************************************************)
(* curl_perform_atomic and curl_perform_non_atomic of 4DPlugin-cURL.cpp:   *)
(* the two ways a command drives one libcurl transfer.  The polling loop   *)
(* interleaves with the wall clock, with the user or the debugger aborting *)
(* the 4D process, with the callback method, and with whatever the network *)
(* lets libcurl do; each of these is an action of its own here.            *)
(*                                                                         *)
(* libcurl is external: a transfer is `Chunks` pieces long; every          *)
(* curl_multi_perform moves some of them and may end the transfer.  The    *)
(* payload itself is left out (DownloadWriter and UploadReader model it).  *)
(***************************************************************************)
EXTENDS Integers, FiniteSets

CONSTANTS
    Chunks,         \* length of a complete transfer
    ErrorCodes,     \* CURLcodes a transfer can fail with
    Faults          \* which libcurl or OS calls may fail in this instance

FaultKinds == {"multi_init", "add_handle", "fdset", "select"}

OK         == "CURLE_OK"
Aborted    == "CURLE_ABORTED_BY_CALLBACK"
FailedInit == "CURLE_FAILED_INIT"
Pending    == "pending"

Codes == {OK, Aborted, FailedInit} \cup ErrorCodes

ASSUME ChunksAssumption == Chunks \in Nat
ASSUME CodesAssumption  == OK \notin ErrorCodes /\ Pending \notin ErrorCodes
ASSUME FaultsAssumption == Faults \subseteq FaultKinds

Absent == -1        \* no transferInfo property in the returned object

LateCap == 3        \* the history `late` stops counting here

VARIABLES
    mode,       \* "atomic" or "polling": the ATOMIC option
    callback,   \* "none", "byID" (a project method), "byName" (EXECUTE METHOD)
    pc,         \* where the call is
    result,     \* CURLcode result
    running,    \* running_handles # 0
    due,        \* more than 100ms since startTime
    why,        \* what made the loop break early, "none" if nothing did
    info,       \* transferInfo in the returned object: the pieces it counts
    told,       \* pieces counted by the last transferInfo given to a callback
    toldEnd,    \* the callback at completion has been made
    yes,        \* a progress callback returned True
    multi,      \* the multi handle: "none", "open", "closed"
    attached,   \* the easy handle is in the multi handle
    moved,      \* libcurl: pieces moved
    outcome,    \* libcurl: result of the transfer, or Pending
    unread,     \* libcurl: its CURLMSG_DONE message has not been read
    dying,      \* 4D: the process is being aborted
    late        \* curl_multi_perform calls made since it is (a history)

libcurl == <<multi, attached, moved, outcome, unread>>
told4D  == <<told, toldEnd, yes>>
fixed   == <<mode, callback>>
vars == <<mode, callback, pc, result, running, due, why, info, told, toldEnd,
          yes, multi, attached, moved, outcome, unread, dying, late>>

Init ==
    /\ mode \in {"atomic", "polling"}
    /\ callback \in {"none", "byID", "byName"}
    /\ pc = "begin"
    /\ result = OK
    /\ running = FALSE
    /\ due = FALSE
    /\ why = "none"
    /\ info = Absent
    /\ told = 0 /\ toldEnd = FALSE /\ yes = FALSE
    /\ multi = "none" /\ attached = FALSE
    /\ moved = 0 /\ outcome = Pending /\ unread = FALSE
    /\ dying \in BOOLEAN
    /\ late = 0

-----------------------------------------------------------------------------
(* libcurl *)

\* A transfer that has moved n pieces may end in these ways.
Endings(n) == ErrorCodes \cup {c \in {OK} : n = Chunks}

\* The transfer moves on and may end; ending queues the DONE message.
Advance ==
    \E n \in moved .. Chunks : \E c \in {Pending} \cup Endings(n) :
        /\ moved' = n
        /\ outcome' = c
        /\ unread' = (c # Pending)

\* curl_multi_perform(mcurl, &running_handles).
MultiPerform ==
    /\ \/ /\ attached /\ outcome = Pending
          /\ Advance
          /\ running' = (outcome' = Pending)
       \/ /\ ~attached \/ outcome # Pending
          /\ running' = FALSE
          /\ UNCHANGED <<moved, outcome, unread>>
    /\ late' = IF dying /\ late < LateCap THEN late + 1 ELSE late
    /\ UNCHANGED multi

-----------------------------------------------------------------------------
(* curl_perform_atomic *)

EasyPerform ==
    /\ pc = "begin" /\ mode = "atomic"
    /\ \E n \in 0 .. Chunks : \E c \in Endings(n) :
         /\ moved' = n
         /\ outcome' = c
         /\ result' = c
    /\ pc' = "easyInfo"
    /\ UNCHANGED <<fixed, running, due, why, info, told4D, multi, attached,
                   unread, dying, late>>

EasyInfo ==
    /\ pc = "easyInfo"
    /\ info' = moved
    /\ pc' = "returned"
    /\ UNCHANGED <<fixed, result, running, due, why, told4D, libcurl, dying, late>>

-----------------------------------------------------------------------------
(* curl_perform_non_atomic *)

\* curl_multi_init() == NULL: return before anything else, no transferInfo.
NoMulti ==
    /\ pc = "begin" /\ mode = "polling" /\ "multi_init" \in Faults
    /\ result' = FailedInit
    /\ pc' = "returned"
    /\ UNCHANGED <<fixed, running, due, why, info, told4D, libcurl, dying, late>>

\* Its own multi handle; the callback parameters; startTime = now.
Begin ==
    /\ pc = "begin" /\ mode = "polling"
    /\ multi' = "open"
    /\ due' = FALSE
    /\ pc' = "kickoff"
    /\ UNCHANGED <<fixed, result, running, why, info, told4D, attached, moved,
                   outcome, unread, dying, late>>

\* curl_multi_add_handle, whose result is not looked at, and a first
\* curl_multi_perform.
AddHandle ==
    /\ pc = "kickoff" /\ ~attached
    /\ \/ attached' = TRUE /\ pc' = "first"
       \/ "add_handle" \in Faults /\ attached' = FALSE /\ pc' = "first"
    /\ UNCHANGED <<fixed, result, running, due, why, info, told4D, multi, moved,
                   outcome, unread, dying, late>>

FirstPerform ==
    /\ pc = "first"
    /\ MultiPerform
    /\ pc' = "wait"
    /\ UNCHANGED <<fixed, result, due, why, info, told4D, attached, dying>>

\* Mutant: only an abort ends the loop.
LoopTest_Forever == pc' = "wait"

\* while (running_handles)
LoopTest == pc' = IF running THEN "wait" ELSE "settle"

\* curl_multi_fdset may report sockets only for a transfer under way.
HasSockets == attached /\ outcome = Pending

FdsetFails ==
    /\ pc = "wait" /\ "fdset" \in Faults
    /\ result' = FailedInit
    /\ why' = "fdset"
    /\ pc' = "settle"
    /\ UNCHANGED <<fixed, running, due, info, told4D, libcurl, dying, late>>

\* No socket to watch (maxfd = -1): DELAY PROCESS, rc = 0.
Delay ==
    /\ pc = "wait"
    /\ pc' = "perform"
    /\ UNCHANGED <<fixed, result, running, due, why, info, told4D, libcurl,
                   dying, late>>

Watch ==
    /\ pc = "wait" /\ HasSockets
    /\ pc' = "select"
    /\ UNCHANGED <<fixed, result, running, due, why, info, told4D, libcurl,
                   dying, late>>

\* select() woke up or timed out (a second at most).
SelectReturns ==
    /\ pc = "select"
    /\ pc' = "perform"
    /\ UNCHANGED <<fixed, result, running, due, why, info, told4D, libcurl,
                   dying, late>>

\* Mutant: a select error leaves the loop.
AfterSelectError_Leave == pc' = "settle"

\* case -1 breaks out of the switch only.
AfterSelectError == LoopTest

\* rc = -1: neither perform, nor callback, nor Process aborted, this round.
SelectFails ==
    /\ pc = "select" /\ "select" \in Faults
    /\ AfterSelectError
    /\ UNCHANGED <<fixed, result, running, due, why, info, told4D, libcurl,
                   dying, late>>

Perform ==
    /\ pc = "perform"
    /\ MultiPerform
    /\ pc' = IF callback # "none" /\ due THEN "offer" ELSE "poll"
    /\ UNCHANGED <<fixed, result, due, why, info, told4D, attached, dying>>

\* startTime = now; the method is called with a fresh transferInfo ...
Offer ==
    /\ pc = "offer"
    /\ due' = FALSE
    /\ told' = moved
    /\ pc' = "answer"
    /\ UNCHANGED <<fixed, result, running, why, info, toldEnd, yes, libcurl,
                   dying, late>>

\* Mutant: True sets the result, and the loop goes on.
AfterYes_GoOn == "poll"

\* goto curl_abort_transfer
AfterYes == "settle"

\* ... and when it comes back, only a Boolean True aborts.
Answer ==
    /\ pc = "answer"
    /\ \/ /\ yes' = TRUE
          /\ result' = Aborted
          /\ why' = "callback"
          /\ pc' = AfterYes
       \/ /\ pc' = "poll"
          /\ UNCHANGED <<yes, result, why>>
    /\ UNCHANGED <<fixed, running, due, info, told, toldEnd, libcurl, dying, late>>

\* Mutant: the check is made only in rounds without a callback method.
AbortSeen_WithoutCallback == dying /\ callback = "none"

\* Process aborted (command 672)
AbortSeen == dying

\* The check, then the loop test.
Poll ==
    /\ pc = "poll"
    /\ \/ /\ AbortSeen
          /\ result' = Aborted
          /\ why' = "process"
          /\ pc' = "settle"
       \/ /\ ~AbortSeen
          /\ LoopTest
          /\ UNCHANGED <<result, why>>
    /\ UNCHANGED <<fixed, running, due, info, told4D, libcurl, dying, late>>

\* Mutant: an abort keeps its result although the transfer has ended.
SettledResult_AbortWins == IF unread /\ why = "none" THEN outcome ELSE result

\* Mutant: the message is used without looking whether there is one.
SettledResult_NoMessage == outcome

\* The DONE message, when there is one, gives the result, also after an abort.
SettledResult == IF unread THEN outcome ELSE result

\* Mutant: no callback at completion once the loop was left by an abort.
LastCall_NotAfterAbort == unread /\ callback # "none" /\ why = "none"

\* The callback is made one last time for a transfer that has ended.
LastCall == unread /\ callback # "none"

\* curl_abort_transfer: curl_multi_info_read
Settle ==
    /\ pc = "settle"
    /\ result' = SettledResult
    /\ unread' = FALSE
    /\ pc' = IF LastCall THEN "notify" ELSE "report"
    /\ UNCHANGED <<fixed, running, due, why, info, told4D, multi, attached,
                   moved, outcome, dying, late>>

\* One last callback; what it returns is not looked at.
Notify ==
    /\ pc = "notify"
    /\ told' = moved
    /\ toldEnd' = TRUE
    /\ pc' = "report"
    /\ UNCHANGED <<fixed, result, running, due, why, info, yes, libcurl, dying,
                   late>>

\* Mutant: the transferInfo object is filled before the transfer.
Snapshot_Early == 0

\* curl_get_info
Snapshot == moved

\* Mutant: the easy handle is left in the multi handle.
Removed_Not == attached

\* curl_multi_remove_handle
Removed == FALSE

\* transferInfo is returned and the easy handle removed ...
Detach ==
    /\ pc = "report"
    /\ info' = Snapshot
    /\ attached' = Removed
    /\ pc' = "cleanup"
    /\ UNCHANGED <<fixed, result, running, due, why, told4D, multi, moved,
                   outcome, unread, dying, late>>

\* ... before the multi handle is cleaned up.
Cleanup ==
    /\ pc = "cleanup"
    /\ multi' = "closed"
    /\ pc' = "returned"
    /\ UNCHANGED <<fixed, result, running, due, why, info, told4D, attached,
                   moved, outcome, unread, dying, late>>

-----------------------------------------------------------------------------
(* The 4D host *)

\* The wall clock passes startTime + 100ms.
Tick ==
    /\ pc \notin {"begin", "returned"} /\ ~due
    /\ due' = TRUE
    /\ UNCHANGED <<fixed, pc, result, running, why, info, told4D, libcurl,
                   dying, late>>

\* The Runtime Explorer aborts the process.
Kill ==
    /\ pc # "returned" /\ ~dying
    /\ dying' = TRUE
    /\ UNCHANGED <<fixed, pc, result, running, due, why, info, told4D, libcurl,
                   late>>

\* The call is over.
Finished == pc = "returned" /\ UNCHANGED vars

-----------------------------------------------------------------------------
LoopStep ==
    \/ Begin \/ AddHandle \/ FirstPerform \/ Delay \/ Watch
    \/ SelectReturns \/ SelectFails \/ Perform \/ Offer \/ Answer \/ Poll
    \/ Settle \/ Notify \/ Detach \/ Cleanup

Next ==
    \/ EasyPerform \/ EasyInfo
    \/ NoMulti \/ FdsetFails \/ LoopStep
    \/ Tick \/ Kill
    \/ Finished

Spec == Init /\ [][Next]_vars

\* 4D keeps scheduling the process and user methods come back.  Nothing is
\* assumed of the network, of the clock, or of who aborts what.
FairSpec == Spec /\ WF_vars(LoopStep)

\* In addition a select() that keeps being called does not fail for ever.
LiveSpec == FairSpec /\ SF_vars(SelectReturns)
-----------------------------------------------------------------------------
(* Properties *)

FlagsOK ==
    /\ running \in BOOLEAN /\ due \in BOOLEAN
    /\ toldEnd \in BOOLEAN /\ yes \in BOOLEAN
    /\ attached \in BOOLEAN /\ unread \in BOOLEAN
    /\ dying \in BOOLEAN

DataOK ==
    /\ mode \in {"atomic", "polling"}
    /\ callback \in {"none", "byID", "byName"}
    /\ pc \in {"begin", "easyInfo", "kickoff", "first", "wait", "select",
              "perform", "offer", "answer", "poll", "settle", "notify",
              "report", "cleanup", "returned"}
    /\ result \in Codes
    /\ why \in {"none", "fdset", "callback", "process"}
    /\ info \in {Absent} \cup 0 .. Chunks
    /\ told \in 0 .. Chunks
    /\ multi \in {"none", "open", "closed"}
    /\ moved \in 0 .. Chunks
    /\ outcome \in {Pending, OK} \cup ErrorCodes
    /\ late \in 0 .. LateCap

\* Types.  `result` in particular is a CURLcode also when Settle copies it.
TypeOK == FlagsOK /\ DataOK

\* The status that comes back is the transfer's own result whenever it has
\* one, even if an abort or a failing fdset broke the loop in the same round;
\* a call cut short says by what.  In particular CURLE_OK never stands for a
\* transfer that did not end.  (Lines 644-668: result is set in four places.)
StatusIsOutcome ==
    pc = "returned" =>
        result = IF outcome # Pending THEN outcome
                 ELSE IF why \in {"callback", "process"} THEN Aborted
                 ELSE FailedInit

\* The callback method hears of the end exactly when the transfer ended, after
\* every progress call, and is then shown what the caller gets in transferInfo.
EndIsTold ==
    pc = "returned" /\ mode = "polling" =>
        /\ toldEnd <=> (callback # "none" /\ outcome # Pending)
        /\ toldEnd => info = told

\* No path leaks a multi handle or cleans one up that still holds the easy
\* handle, which curl_easy_cleanup is about to free.
HandlesReleased ==
    /\ attached => multi = "open"
    /\ pc = "returned" => multi # "open"

\* Once the process is being aborted, libcurl is driven at most twice more:
\* by the first curl_multi_perform and by the round that notices.
AbortIsPrompt == late <= 2

\* Progress only moves forward as a callback method sees it, no progress call
\* follows the call at completion, and transferInfo is never behind it.
ProgressOnlyGrows ==
    [][/\ told' >= told
       /\ toldEnd => UNCHANGED <<told, toldEnd>>
       /\ info' # Absent => info' >= told]_vars

\* A polling call comes back, although the network may stall and the callback
\* method be silent, once the process is being aborted, a callback method has
\* returned True, or the transfer has ended, although nobody waits for it.
CallEnds ==
    mode = "polling" /\ (dying \/ yes \/ outcome # Pending) ~> pc = "returned"

Contract == INSTANCE TransferContract WITH
    asked  <- yes \/ dying,
    status <- IF pc = "returned" THEN result ELSE "none"

\* The loop implements the contract of a call.
ImplementsContract == Contract!ContractSpec

=============================================================================
