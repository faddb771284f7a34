-------------------------- MODULE TransferProofs --------------------------
(***************************************************************************)
(* Theorems about the transfer loop, for every length of transfer and      *)
(* every set of error codes, about the writer, for bodies and chunks of     *)
(* every length, and about a whole download call: it is a behaviour of the *)
(* loop and of the writer at once, and what each of them guarantees         *)
(* carries over to what the caller gets.                                   *)
(***************************************************************************)
EXTENDS DownloadCall, TLAPS

\* Parts of the call.
Adding  == {"begin", "kickoff"}
InLoop  == {"wait", "select", "perform", "offer", "answer", "poll"}
Settled == {"notify", "report", "cleanup", "returned"}

\* Where the call is and the handles it holds go together.
PlaceInv ==
    /\ mode = "atomic" => pc \in {"begin", "easyInfo", "returned"} /\ multi = "none"
    /\ mode = "polling" => pc # "easyInfo"
    /\ pc \in {"begin", "easyInfo"} => multi = "none" /\ ~attached
    /\ pc \notin {"begin", "easyInfo", "returned"} => multi = "open"
    /\ pc = "returned" => multi # "open"
    /\ pc \in Adding \cup {"cleanup", "returned"} => ~attached

\* Before the loop nothing has happened to the transfer; in it, running_handles
\* says whether it is under way, and `why` is set on the way out only.
LoopInv ==
    /\ pc \in Adding \cup {"first"} => moved = 0 /\ outcome = Pending /\ ~unread
    /\ pc \in Adding \cup {"first", "easyInfo"} \cup InLoop => why = "none"
    /\ pc \in InLoop => (running <=> attached /\ outcome = Pending)

\* The DONE message is unread until Settle, and says what the transfer ended
\* with; after it there is no other.
MessageInv ==
    /\ pc \in InLoop \cup {"first", "settle"} => (unread <=> outcome # Pending)
    /\ pc \in Settled \cup {"easyInfo"} => ~unread
    /\ pc = "easyInfo" => outcome # Pending /\ result = outcome

\* A process that is being aborted lets two performs through at most: the
\* first one of all, and the one of the round that was waiting.
LateInv ==
    /\ ~dying => late = 0
    /\ pc \in Adding \cup {"first", "easyInfo"} => late = 0
    /\ pc \in {"wait", "select", "perform"} => late <= 1
    /\ late <= 2

\* What the callback method was told, and what is returned, is never ahead of
\* the transfer; it is told of the end between Settle and Detach or not at all.
ToldInv ==
    /\ told <= moved
    /\ pc = "begin" => told = 0
    /\ pc \notin {"report", "cleanup", "returned"} => ~toldEnd
    /\ pc = "notify" => outcome # Pending /\ callback # "none"
    /\ pc \in {"report", "cleanup", "returned"} /\ mode = "polling" =>
         (toldEnd <=> callback # "none" /\ outcome # Pending)
    /\ toldEnd => told = moved
    /\ pc \notin {"cleanup", "returned"} => info = Absent
    /\ info # Absent => info = moved
    /\ pc = "cleanup" \/ (pc = "returned" /\ toldEnd) => info = moved

\* An early exit has the reason it claims.
AskedInv ==
    /\ why = "callback" => yes
    /\ why = "process" => dying

IInv == /\ TypeOK /\ PlaceInv /\ LoopInv /\ MessageInv /\ LateInv
        /\ ToldInv /\ AskedInv

-----------------------------------------------------------------------------
(* A step's disjuncts, named once so that each proof can go through them. *)

\* Advancing keeps the transfer's state well-typed and queues a message
\* exactly when the transfer ends.
LEMMA AdvanceTypes ==
    ASSUME moved \in 0 .. Chunks, Advance
    PROVE  /\ moved' \in 0 .. Chunks
           /\ moved' >= moved
           /\ outcome' \in {Pending, OK} \cup ErrorCodes
           /\ unread' = (outcome' # Pending)
<1>1. PICK n \in moved .. Chunks : \E c \in {Pending} \cup Endings(n) :
          moved' = n /\ outcome' = c /\ unread' = (c # Pending)
  BY DEF Advance
<1>2. PICK c \in {Pending} \cup Endings(n) :
          moved' = n /\ outcome' = c /\ unread' = (c # Pending)
  BY <1>1
<1> QED
  BY <1>2, ChunksAssumption DEF Endings

\* The same of a whole curl_multi_perform.
LEMMA PerformTypes ==
    ASSUME TypeOK, MultiPerform
    PROVE  /\ moved' \in 0 .. Chunks
           /\ moved' >= moved
           /\ outcome' \in {Pending, OK} \cup ErrorCodes
           /\ outcome # Pending => outcome' = outcome
           /\ late' \in 0 .. LateCap /\ multi' = multi
<1>1. CASE attached /\ outcome = Pending /\ Advance
  BY <1>1, AdvanceTypes DEF TypeOK, DataOK, MultiPerform, LateCap
<1>2. CASE ~attached \/ outcome # Pending
  BY <1>2, ChunksAssumption DEF TypeOK, DataOK, MultiPerform, LateCap
<1> QED
  BY <1>1, <1>2 DEF MultiPerform

\* ... and of the flags it sets.
LEMMA PerformFlags ==
    ASSUME TypeOK, MultiPerform
    PROVE  running' \in BOOLEAN /\ unread' \in BOOLEAN
<1>1. CASE attached /\ outcome = Pending /\ Advance /\ running' = (outcome' = Pending)
  <2>1. moved \in 0 .. Chunks
    BY DEF TypeOK, DataOK
  <2>2. unread' = (outcome' # Pending)
    BY <1>1, <2>1, AdvanceTypes
  <2> QED
    BY <1>1, <2>2
<1>2. CASE running' = FALSE /\ UNCHANGED unread
  BY <1>2 DEF TypeOK, FlagsOK
<1> QED
  BY <1>1, <1>2 DEF MultiPerform

\* ... and it queues a message exactly when it ends the transfer.
LEMMA PerformMessage ==
    ASSUME TypeOK, MultiPerform, unread <=> outcome # Pending
    PROVE  unread' <=> outcome' # Pending
<1>1. CASE attached /\ outcome = Pending /\ Advance
  BY <1>1, AdvanceTypes DEF TypeOK, DataOK
<1>2. CASE UNCHANGED <<outcome, unread>>
  BY <1>2
<1> QED
  BY <1>1, <1>2 DEF MultiPerform

-----------------------------------------------------------------------------
(* Type correctness *)

\* The flags stay Booleans.
LEMMA FlagsStep ==
    ASSUME IInv, [Next]_vars
    PROVE  FlagsOK'
<1> USE DEF IInv, TypeOK, FlagsOK, fixed, libcurl, told4D
<1>1. CASE EasyPerform
  BY <1>1 DEF EasyPerform
<1>2. CASE EasyInfo
  BY <1>2 DEF EasyInfo
<1>3. CASE NoMulti
  BY <1>3 DEF NoMulti
<1>4. CASE FdsetFails
  BY <1>4 DEF FdsetFails
<1>5. CASE Begin
  BY <1>5 DEF Begin
<1>6. CASE AddHandle
  BY <1>6 DEF AddHandle
<1>7. CASE FirstPerform
  BY <1>7, PerformFlags DEF FirstPerform
<1>8. CASE Delay \/ Watch \/ SelectReturns
  BY <1>8 DEF Delay, Watch, SelectReturns
<1>9. CASE SelectFails
  BY <1>9 DEF SelectFails, AfterSelectError, LoopTest
<1>10. CASE Perform
  BY <1>10,
     PerformFlags DEF Perform
<1>11. CASE Offer
  BY <1>11 DEF Offer
<1>12. CASE Answer
  BY <1>12 DEF Answer, AfterYes
<1>13. CASE Poll
  BY <1>13 DEF Poll, AbortSeen, LoopTest
<1>14. CASE Settle
  BY <1>14 DEF Settle, SettledResult, LastCall
<1>15. CASE Notify
  BY <1>15 DEF Notify
<1>16. CASE Detach
  BY <1>16 DEF Detach, Snapshot, Removed
<1>17. CASE Cleanup
  BY <1>17 DEF Cleanup
<1>18. CASE Tick
  BY <1>18 DEF Tick
<1>19. CASE Kill
  BY <1>19 DEF Kill
<1>20. CASE Finished \/ UNCHANGED vars
  BY <1>20 DEF Finished, vars
<1> QED
  BY <1>1, <1>2, <1>3, <1>4, <1>5, <1>6, <1>7, <1>8, <1>9, <1>10,
     <1>11, <1>12, <1>13, <1>14, <1>15, <1>16, <1>17, <1>18, <1>19, <1>20 DEF Next, LoopStep

\* Every other variable keeps its type: `result` is a CURLcode although Settle
\* may copy it from a message.
LEMMA DataStep ==
    ASSUME IInv, [Next]_vars
    PROVE  DataOK'
<1> USE ChunksAssumption DEF IInv, TypeOK, DataOK, fixed, libcurl, told4D,
        Codes, OK, Aborted, FailedInit, Absent
<1>1. CASE EasyPerform
  <2>1. PICK n \in 0 .. Chunks : \E c \in Endings(n) :
            moved' = n /\ outcome' = c /\ result' = c
    BY <1>1 DEF EasyPerform
  <2>2. moved' \in 0 .. Chunks /\ outcome' \in {OK} \cup ErrorCodes /\ result' = outcome'
    BY <2>1 DEF Endings
  <2> QED
    BY <1>1, <2>2 DEF EasyPerform
<1>2. CASE EasyInfo
  BY <1>2 DEF EasyInfo
<1>3. CASE NoMulti
  BY <1>3 DEF NoMulti
<1>4. CASE FdsetFails
  BY <1>4 DEF FdsetFails
<1>5. CASE Begin
  BY <1>5 DEF Begin
<1>6. CASE AddHandle
  BY <1>6 DEF AddHandle
<1>7. CASE FirstPerform
  BY <1>7, PerformTypes DEF FirstPerform
<1>8. CASE Delay \/ Watch \/ SelectReturns
  BY <1>8 DEF Delay, Watch, SelectReturns
<1>9. CASE SelectFails
  BY <1>9 DEF SelectFails, AfterSelectError, LoopTest
<1>10. CASE Perform
  BY <1>10,
     PerformTypes DEF Perform
<1>11. CASE Offer
  BY <1>11 DEF Offer
<1>12. CASE Answer
  BY <1>12 DEF Answer, AfterYes
<1>13. CASE Poll
  BY <1>13 DEF Poll, AbortSeen, LoopTest
<1>14. CASE Settle
  BY <1>14 DEF Settle, SettledResult, LastCall, MessageInv, InLoop
<1>15. CASE Notify
  BY <1>15 DEF Notify
<1>16. CASE Detach
  BY <1>16 DEF Detach, Snapshot, Removed
<1>17. CASE Cleanup
  BY <1>17 DEF Cleanup
<1>18. CASE Tick
  BY <1>18 DEF Tick
<1>19. CASE Kill
  BY <1>19 DEF Kill
<1>20. CASE Finished \/ UNCHANGED vars
  BY <1>20 DEF Finished, vars
<1> QED
  BY <1>1, <1>2, <1>3, <1>4, <1>5, <1>6, <1>7, <1>8, <1>9, <1>10,
     <1>11, <1>12, <1>13, <1>14, <1>15, <1>16, <1>17, <1>18, <1>19, <1>20 DEF Next, LoopStep

-----------------------------------------------------------------------------
(* The other parts of the inductive invariant *)

\* Handles are opened and closed where the call says they are.
LEMMA PlaceStep ==
    ASSUME IInv, [Next]_vars
    PROVE  PlaceInv'
<1> USE DEF IInv, PlaceInv, Adding, fixed, libcurl, told4D
<1>1. CASE EasyPerform
  BY <1>1 DEF EasyPerform
<1>2. CASE EasyInfo
  BY <1>2 DEF EasyInfo
<1>3. CASE NoMulti
  BY <1>3 DEF NoMulti
<1>4. CASE FdsetFails
  BY <1>4 DEF FdsetFails
<1>5. CASE Begin
  BY <1>5 DEF Begin
<1>6. CASE AddHandle
  BY <1>6 DEF AddHandle
<1>7. CASE FirstPerform
  BY <1>7 DEF FirstPerform, MultiPerform
<1>8. CASE Delay \/ Watch \/ SelectReturns
  BY <1>8 DEF Delay, Watch, SelectReturns
<1>9. CASE SelectFails
  BY <1>9 DEF SelectFails, AfterSelectError, LoopTest
<1>10. CASE Perform
  BY <1>10 DEF Perform, MultiPerform
<1>11. CASE Offer
  BY <1>11 DEF Offer
<1>12. CASE Answer
  BY <1>12 DEF Answer, AfterYes
<1>13. CASE Poll
  BY <1>13 DEF Poll, AbortSeen, LoopTest
<1>14. CASE Settle
  BY <1>14 DEF Settle, SettledResult, LastCall
<1>15. CASE Notify
  BY <1>15 DEF Notify
<1>16. CASE Detach
  BY <1>16 DEF Detach, Snapshot, Removed
<1>17. CASE Cleanup
  BY <1>17 DEF Cleanup
<1>18. CASE Tick
  BY <1>18 DEF Tick
<1>19. CASE Kill
  BY <1>19 DEF Kill
<1>20. CASE Finished \/ UNCHANGED vars
  BY <1>20 DEF Finished, vars
<1> QED
  BY <1>1, <1>2, <1>3, <1>4, <1>5, <1>6, <1>7, <1>8, <1>9, <1>10,
     <1>11, <1>12, <1>13, <1>14, <1>15, <1>16, <1>17, <1>18, <1>19, <1>20 DEF Next, LoopStep

\* running_handles follows the transfer.
LEMMA LoopStepInv ==
    ASSUME IInv, [Next]_vars
    PROVE  LoopInv'
<1> USE DEF IInv, LoopInv, Adding, InLoop, fixed, libcurl, told4D
<1>1. CASE EasyPerform
  BY <1>1 DEF EasyPerform
<1>2. CASE EasyInfo
  BY <1>2 DEF EasyInfo
<1>3. CASE NoMulti
  BY <1>3 DEF NoMulti
<1>4. CASE FdsetFails
  BY <1>4 DEF FdsetFails
<1>5. CASE Begin
  BY <1>5 DEF Begin
<1>6. CASE AddHandle
  BY <1>6 DEF AddHandle
<1>7. CASE FirstPerform
  BY <1>7 DEF FirstPerform, MultiPerform
<1>8. CASE Delay \/ Watch \/ SelectReturns
  BY <1>8 DEF Delay, Watch, SelectReturns
<1>9. CASE SelectFails
  BY <1>9 DEF SelectFails, AfterSelectError, LoopTest
<1>10. CASE Perform
  BY <1>10 DEF Perform, MultiPerform
<1>11. CASE Offer
  BY <1>11 DEF Offer
<1>12. CASE Answer
  BY <1>12 DEF Answer, AfterYes
<1>13. CASE Poll
  BY <1>13 DEF Poll, AbortSeen, LoopTest
<1>14. CASE Settle
  BY <1>14 DEF Settle, SettledResult, LastCall
<1>15. CASE Notify
  BY <1>15 DEF Notify
<1>16. CASE Detach
  BY <1>16 DEF Detach, Snapshot, Removed
<1>17. CASE Cleanup
  BY <1>17 DEF Cleanup
<1>18. CASE Tick
  BY <1>18 DEF Tick
<1>19. CASE Kill
  BY <1>19 DEF Kill
<1>20. CASE Finished \/ UNCHANGED vars
  BY <1>20 DEF Finished, vars
<1> QED
  BY <1>1, <1>2, <1>3, <1>4, <1>5, <1>6, <1>7, <1>8, <1>9, <1>10,
     <1>11, <1>12, <1>13, <1>14, <1>15, <1>16, <1>17, <1>18, <1>19, <1>20 DEF Next, LoopStep

\* The message follows the transfer.
LEMMA MessageStep ==
    ASSUME IInv, [Next]_vars
    PROVE  MessageInv'
<1> USE DEF IInv, LoopInv, MessageInv, Adding, InLoop, Settled, fixed, libcurl, told4D
<1>1. CASE EasyPerform
  <2>1. PICK n \in 0 .. Chunks : \E c \in Endings(n) : outcome' = c /\ result' = c
    BY <1>1 DEF EasyPerform
  <2>2. outcome' # Pending /\ result' = outcome'
    BY <2>1, CodesAssumption DEF Endings, OK, Pending
  <2> QED
    BY <1>1, <2>2 DEF EasyPerform
<1>2. CASE EasyInfo
  BY <1>2 DEF EasyInfo
<1>3. CASE NoMulti
  BY <1>3 DEF NoMulti
<1>4. CASE FdsetFails
  BY <1>4 DEF FdsetFails
<1>5. CASE Begin
  BY <1>5 DEF Begin
<1>6. CASE AddHandle
  BY <1>6 DEF AddHandle
<1>7. CASE FirstPerform
  BY <1>7, PerformMessage DEF FirstPerform
<1>8. CASE Delay \/ Watch \/ SelectReturns
  BY <1>8 DEF Delay, Watch, SelectReturns
<1>9. CASE SelectFails
  BY <1>9 DEF SelectFails, AfterSelectError, LoopTest
<1>10. CASE Perform
  BY <1>10,
     PerformMessage DEF Perform
<1>11. CASE Offer
  BY <1>11 DEF Offer
<1>12. CASE Answer
  BY <1>12 DEF Answer, AfterYes
<1>13. CASE Poll
  BY <1>13 DEF Poll, AbortSeen, LoopTest
<1>14. CASE Settle
  BY <1>14 DEF Settle, SettledResult, LastCall
<1>15. CASE Notify
  BY <1>15 DEF Notify
<1>16. CASE Detach
  BY <1>16 DEF Detach, Snapshot, Removed
<1>17. CASE Cleanup
  BY <1>17 DEF Cleanup
<1>18. CASE Tick
  BY <1>18 DEF Tick
<1>19. CASE Kill
  BY <1>19 DEF Kill
<1>20. CASE Finished \/ UNCHANGED vars
  BY <1>20 DEF Finished, vars
<1> QED
  BY <1>1, <1>2, <1>3, <1>4, <1>5, <1>6, <1>7, <1>8, <1>9, <1>10,
     <1>11, <1>12, <1>13, <1>14, <1>15, <1>16, <1>17, <1>18, <1>19, <1>20 DEF Next, LoopStep

\* Performs after the abort are counted.
LEMMA LateStep ==
    ASSUME IInv, [Next]_vars
    PROVE  LateInv'
<1> USE DEF IInv, LateInv, Adding, fixed, libcurl, told4D
<1>1. CASE EasyPerform
  BY <1>1 DEF EasyPerform
<1>2. CASE EasyInfo
  BY <1>2 DEF EasyInfo
<1>3. CASE NoMulti
  BY <1>3 DEF NoMulti
<1>4. CASE FdsetFails
  BY <1>4 DEF FdsetFails
<1>5. CASE Begin
  BY <1>5 DEF Begin
<1>6. CASE AddHandle
  BY <1>6 DEF AddHandle
<1>7. CASE FirstPerform
  BY <1>7 DEF FirstPerform, MultiPerform, TypeOK, DataOK
<1>8. CASE Delay \/ Watch \/ SelectReturns
  BY <1>8 DEF Delay, Watch, SelectReturns
<1>9. CASE SelectFails
  BY <1>9 DEF SelectFails, AfterSelectError, LoopTest
<1>10. CASE Perform
  BY <1>10 DEF Perform, MultiPerform, TypeOK, DataOK
<1>11. CASE Offer
  BY <1>11 DEF Offer
<1>12. CASE Answer
  BY <1>12 DEF Answer, AfterYes
<1>13. CASE Poll
  BY <1>13 DEF Poll, AbortSeen, LoopTest
<1>14. CASE Settle
  BY <1>14 DEF Settle, SettledResult, LastCall
<1>15. CASE Notify
  BY <1>15 DEF Notify
<1>16. CASE Detach
  BY <1>16 DEF Detach, Snapshot, Removed
<1>17. CASE Cleanup
  BY <1>17 DEF Cleanup
<1>18. CASE Tick
  BY <1>18 DEF Tick
<1>19. CASE Kill
  BY <1>19 DEF Kill
<1>20. CASE Finished \/ UNCHANGED vars
  BY <1>20 DEF Finished, vars
<1> QED
  BY <1>1, <1>2, <1>3, <1>4, <1>5, <1>6, <1>7, <1>8, <1>9, <1>10,
     <1>11, <1>12, <1>13, <1>14, <1>15, <1>16, <1>17, <1>18, <1>19, <1>20 DEF Next, LoopStep

\* What is told follows the transfer.
LEMMA ToldStep ==
    ASSUME IInv, [Next]_vars
    PROVE  ToldInv'
<1> USE ChunksAssumption DEF IInv, TypeOK, DataOK, PlaceInv, LoopInv, MessageInv,
        ToldInv, Adding, Settled, fixed, libcurl, told4D, Absent
<1>1. CASE EasyPerform
  BY <1>1 DEF EasyPerform
<1>2. CASE EasyInfo
  BY <1>2 DEF EasyInfo
<1>3. CASE NoMulti
  BY <1>3 DEF NoMulti
<1>4. CASE FdsetFails
  BY <1>4 DEF FdsetFails
<1>5. CASE Begin
  BY <1>5 DEF Begin
<1>6. CASE AddHandle
  BY <1>6 DEF AddHandle
<1>7. CASE FirstPerform
  BY <1>7, PerformTypes DEF FirstPerform
<1>8. CASE Delay \/ Watch \/ SelectReturns
  BY <1>8 DEF Delay, Watch, SelectReturns
<1>9. CASE SelectFails
  BY <1>9 DEF SelectFails, AfterSelectError, LoopTest
<1>10. CASE Perform
  BY <1>10,
     PerformTypes DEF Perform
<1>11. CASE Offer
  BY <1>11 DEF Offer
<1>12. CASE Answer
  BY <1>12 DEF Answer, AfterYes
<1>13. CASE Poll
  BY <1>13 DEF Poll, AbortSeen, LoopTest
<1>14. CASE Settle
  BY <1>14 DEF Settle, SettledResult, LastCall
<1>15. CASE Notify
  BY <1>15 DEF Notify
<1>16. CASE Detach
  BY <1>16 DEF Detach, Snapshot, Removed
<1>17. CASE Cleanup
  BY <1>17 DEF Cleanup
<1>18. CASE Tick
  BY <1>18 DEF Tick
<1>19. CASE Kill
  BY <1>19 DEF Kill
<1>20. CASE Finished \/ UNCHANGED vars
  BY <1>20 DEF Finished, vars
<1> QED
  BY <1>1, <1>2, <1>3, <1>4, <1>5, <1>6, <1>7, <1>8, <1>9, <1>10,
     <1>11, <1>12, <1>13, <1>14, <1>15, <1>16, <1>17, <1>18, <1>19, <1>20 DEF Next, LoopStep

\* Reasons stay true: nothing takes back a True or an abort.
LEMMA AskedStep ==
    ASSUME IInv, [Next]_vars
    PROVE  AskedInv'
<1> USE DEF IInv, LoopInv, AskedInv, Adding, InLoop, fixed, libcurl, told4D
<1>1. CASE EasyPerform
  BY <1>1 DEF EasyPerform
<1>2. CASE EasyInfo
  BY <1>2 DEF EasyInfo
<1>3. CASE NoMulti
  BY <1>3 DEF NoMulti
<1>4. CASE FdsetFails
  BY <1>4 DEF FdsetFails
<1>5. CASE Begin
  BY <1>5 DEF Begin
<1>6. CASE AddHandle
  BY <1>6 DEF AddHandle
<1>7. CASE FirstPerform
  BY <1>7 DEF FirstPerform
<1>8. CASE Delay \/ Watch \/ SelectReturns
  BY <1>8 DEF Delay, Watch, SelectReturns
<1>9. CASE SelectFails
  BY <1>9 DEF SelectFails, AfterSelectError, LoopTest
<1>10. CASE Perform
  BY <1>10 DEF Perform
<1>11. CASE Offer
  BY <1>11 DEF Offer
<1>12. CASE Answer
  BY <1>12 DEF Answer, AfterYes
<1>13. CASE Poll
  BY <1>13 DEF Poll, AbortSeen, LoopTest
<1>14. CASE Settle
  BY <1>14 DEF Settle, SettledResult, LastCall
<1>15. CASE Notify
  BY <1>15 DEF Notify
<1>16. CASE Detach
  BY <1>16 DEF Detach, Snapshot, Removed
<1>17. CASE Cleanup
  BY <1>17 DEF Cleanup
<1>18. CASE Tick
  BY <1>18 DEF Tick
<1>19. CASE Kill
  BY <1>19 DEF Kill
<1>20. CASE Finished \/ UNCHANGED vars
  BY <1>20 DEF Finished, vars
<1> QED
  BY <1>1, <1>2, <1>3, <1>4, <1>5, <1>6, <1>7, <1>8, <1>9, <1>10,
     <1>11, <1>12, <1>13, <1>14, <1>15, <1>16, <1>17, <1>18, <1>19, <1>20 DEF Next, LoopStep

-----------------------------------------------------------------------------
(* The invariant, and what follows from it *)

\* The initial states satisfy the inductive invariant.
LEMMA InitInv == Init => IInv
<1> SUFFICES ASSUME Init PROVE IInv
  OBVIOUS
<1>1. FlagsOK
  BY DEF Init, FlagsOK
<1>2. DataOK
  BY ChunksAssumption DEF Init, DataOK, Codes, OK, Absent, LateCap
<1>3. PlaceInv /\ LoopInv /\ MessageInv
  BY DEF Init, PlaceInv, LoopInv, MessageInv, Adding, InLoop, Settled
<1>4. LateInv /\ ToldInv /\ AskedInv
  BY DEF Init, LateInv, ToldInv, AskedInv
<1> QED
  BY <1>1, <1>2, <1>3, <1>4 DEF IInv, TypeOK

\* Every reachable state satisfies the inductive invariant.
THEOREM Invariance == Spec => []IInv
<1>1. IInv /\ [Next]_vars => IInv'
  BY FlagsStep, DataStep, PlaceStep, LoopStepInv, MessageStep, LateStep,
     ToldStep, AskedStep
  DEF IInv, TypeOK
<1> QED
  BY InitInv, <1>1, PTL DEF Spec

\* Type correctness of the polling loop and of the atomic call.
THEOREM TypeCorrect == Spec => []TypeOK
BY Invariance, PTL DEF IInv

\* After the process starts being aborted, libcurl is driven at most twice,
\* however long the transfer is and whatever select and the callback do.
THEOREM AbortPrompt == Spec => []AbortIsPrompt
<1>1. IInv => AbortIsPrompt
  BY DEF IInv, LateInv, AbortIsPrompt
<1> QED
  BY <1>1, Invariance, PTL

\* No call returns holding a multi handle, and no easy handle is ever in a
\* multi handle that is gone.
THEOREM HandlesAreReleased == Spec => []HandlesReleased
<1>1. IInv => HandlesReleased
  BY DEF IInv, TypeOK, FlagsOK, DataOK, PlaceInv, Adding, HandlesReleased
<1> QED
  BY <1>1, Invariance, PTL

\* The callback method is told of the end when there is one, and of nothing
\* that the caller's transferInfo contradicts.
THEOREM EndAlwaysTold == Spec => []EndIsTold
<1>1. IInv => EndIsTold
  BY DEF IInv, TypeOK, DataOK, PlaceInv, ToldInv, EndIsTold, Absent
<1> QED
  BY <1>1, Invariance, PTL

\* Progress as seen by a callback method never goes back, and nothing is told
\* after the end.
THEOREM ProgressGrows == Spec => ProgressOnlyGrows
<1>1. IInv /\ IInv' /\ [Next]_vars =>
        [/\ told' >= told
         /\ toldEnd => UNCHANGED <<told, toldEnd>>
         /\ info' # Absent => info' >= told]_vars
  <2> SUFFICES ASSUME IInv, IInv', Next
               PROVE  /\ told' >= told
                      /\ toldEnd => UNCHANGED <<told, toldEnd>>
                      /\ info' # Absent => info' >= told
    OBVIOUS
  <2> USE DEF IInv, TypeOK, DataOK, ToldInv, Absent, fixed, libcurl, told4D
  <2>1. CASE Offer
    BY <2>1 DEF Offer
  <2>2. CASE Notify
    BY <2>2 DEF Notify
  <2>3. CASE UNCHANGED <<told, toldEnd>>
    BY <2>3, ChunksAssumption
  <2> QED
    BY <2>1, <2>2, <2>3
    DEF Next, LoopStep, EasyPerform, EasyInfo, NoMulti, FdsetFails, Begin,
        AddHandle, FirstPerform, Delay, Watch, SelectReturns, SelectFails,
        Perform, Answer, Poll, Settle, Detach, Cleanup, Tick, Kill, Finished,
        vars
<1> QED
  BY <1>1, Invariance, PTL DEF Spec, ProgressOnlyGrows

-----------------------------------------------------------------------------
(* The status, when curl_multi_add_handle does not fail *)

AddWorks == "add_handle" \notin Faults

\* The result of a call whose transfer did not end.
CutShort == IF why \in {"callback", "process"} THEN Aborted ELSE FailedInit

\* The loop holds an added handle, so that it ends only with the transfer or
\* with a reason, and Settle puts the transfer's own result first.
ResultInv ==
    /\ pc \in InLoop \cup {"first", "settle", "notify", "report"} => attached
    /\ pc = "settle" /\ why = "none" => outcome # Pending
    /\ pc = "settle" /\ why # "none" => result = CutShort
    /\ pc \in Settled => result = IF outcome # Pending THEN outcome ELSE CutShort

\* Where the handle is added for sure, every way out of the loop leaves the
\* right result behind.
LEMMA ResultStep ==
    ASSUME AddWorks, IInv, ResultInv, [Next]_vars
    PROVE  ResultInv'
<1> USE DEF AddWorks, IInv, TypeOK, FlagsOK, DataOK, LoopInv, MessageInv, ResultInv, Adding, InLoop,
        Settled, CutShort, fixed, libcurl, told4D
<1>1. CASE EasyPerform
  BY <1>1 DEF EasyPerform, Endings
<1>2. CASE EasyInfo
  BY <1>2 DEF EasyInfo
<1>3. CASE NoMulti
  BY <1>3 DEF NoMulti
<1>4. CASE FdsetFails
  BY <1>4 DEF FdsetFails
<1>5. CASE Begin
  BY <1>5 DEF Begin
<1>6. CASE AddHandle
  BY <1>6 DEF AddHandle
<1>7. CASE FirstPerform
  BY <1>7 DEF FirstPerform, MultiPerform
<1>8. CASE Delay \/ Watch \/ SelectReturns
  BY <1>8 DEF Delay, Watch, SelectReturns
<1>9. CASE SelectFails
  BY <1>9 DEF SelectFails, AfterSelectError, LoopTest
<1>10. CASE Perform
  BY <1>10 DEF Perform, MultiPerform
<1>11. CASE Offer
  BY <1>11 DEF Offer
<1>12. CASE Answer
  BY <1>12 DEF Answer, AfterYes
<1>13. CASE Poll
  BY <1>13 DEF Poll, AbortSeen, LoopTest
<1>14. CASE Settle
  BY <1>14 DEF Settle, SettledResult, LastCall
<1>15. CASE Notify
  BY <1>15 DEF Notify
<1>16. CASE Detach
  BY <1>16 DEF Detach, Snapshot, Removed
<1>17. CASE Cleanup
  BY <1>17 DEF Cleanup
<1>18. CASE Tick
  BY <1>18 DEF Tick
<1>19. CASE Kill
  BY <1>19 DEF Kill
<1>20. CASE Finished \/ UNCHANGED vars
  BY <1>20 DEF Finished, vars
<1> QED
  BY <1>1, <1>2, <1>3, <1>4, <1>5, <1>6, <1>7, <1>8, <1>9, <1>10,
     <1>11, <1>12, <1>13, <1>14, <1>15, <1>16, <1>17, <1>18, <1>19, <1>20 DEF Next, LoopStep

\* Every reachable state has the right result.
LEMMA ResultInvariance ==
    ASSUME AddWorks
    PROVE  Spec => []ResultInv
<1>1. Init => ResultInv
  BY DEF Init, ResultInv, InLoop, Settled
<1>2. IInv /\ ResultInv /\ [Next]_vars => ResultInv'
  BY ResultStep
<1> QED
  BY <1>1, <1>2, Invariance, PTL DEF Spec

\* The status of every call is the transfer's own result when it has one, and
\* otherwise the reason it was cut short: CURLE_OK always means it is complete.
THEOREM StatusCorrect ==
    ASSUME AddWorks
    PROVE  Spec => []StatusIsOutcome
<1>1. ResultInv => StatusIsOutcome
  BY DEF ResultInv, StatusIsOutcome, CutShort, Settled
<1> QED
  BY <1>1, ResultInvariance, PTL

-----------------------------------------------------------------------------
(* Refinement of TransferContract *)

\* What the contract's steps are made of.
CStep == [Contract!ContractNext]_(Contract!cvars)

\* A curl_multi_perform is a move of the transfer, or nothing.
LEMMA PerformMoves ==
    ASSUME TypeOK, MultiPerform, pc # "returned", pc' # "returned",
           UNCHANGED <<told, toldEnd, yes, dying>>
    PROVE  CStep
<1> USE DEF CStep, Contract!cvars
<1>1. CASE attached /\ outcome = Pending /\ Advance
  <2>1. PICK n \in moved .. Chunks : \E c \in {Pending} \cup Endings(n) :
            moved' = n /\ outcome' = c
    BY <1>1 DEF Advance
  <2>2. Contract!Move
    BY <1>1, <2>1 DEF Contract!Move, Contract!Endings, Contract!Pending,
       Contract!None, Contract!OK, Endings, Pending, OK
  <2> QED
    BY <2>2 DEF Contract!ContractNext
<1>2. CASE UNCHANGED <<moved, outcome>>
  BY <1>2
<1> QED
  BY <1>1, <1>2 DEF MultiPerform

\* Every step of the loop is a step of the contract, or changes nothing that
\* the contract speaks of.
LEMMA StepImplements ==
    ASSUME AddWorks, IInv, ResultInv, [Next]_vars
    PROVE  CStep
<1> USE DEF CStep, Contract!cvars, Contract!None, IInv, TypeOK, fixed, libcurl,
        told4D
<1>1. CASE EasyPerform
  <2>1. PICK n \in 0 .. Chunks : \E c \in Endings(n) : moved' = n /\ outcome' = c
    BY <1>1 DEF EasyPerform
  <2>2. Contract!Move
    BY <1>1, <2>1
    DEF EasyPerform, LoopInv, Adding, Contract!Move, Contract!Endings,
        Contract!Pending, Contract!OK, Endings, Pending, OK
  <2> QED
    BY <2>2 DEF Contract!ContractNext
<1>2. CASE EasyInfo
  <2>1. Contract!Report
    BY <1>2 DEF EasyInfo, MessageInv, Contract!Report, Contract!Pending, Pending
  <2> QED
    BY <2>1 DEF Contract!ContractNext
<1>3. CASE NoMulti
  <2>1. Contract!Report
    BY <1>3 DEF NoMulti, LoopInv, Adding, Contract!Report, Contract!Pending,
       Pending, FailedInit, Contract!FailedInit
  <2> QED
    BY <2>1 DEF Contract!ContractNext
<1>4. CASE FirstPerform
  BY <1>4, PerformMoves DEF FirstPerform
<1>5. CASE Perform
  BY <1>5, PerformMoves DEF Perform
<1>6. CASE Offer
  <2>1. Contract!Tell
    BY <1>6 DEF Offer, ToldInv, Contract!Tell
  <2> QED
    BY <2>1 DEF Contract!ContractNext
<1>7. CASE Answer
  <2>1. CASE yes' = TRUE
    <3>1. Contract!Ask
      BY <1>7, <2>1 DEF Answer, AfterYes, Contract!Ask
    <3> QED
      BY <3>1 DEF Contract!ContractNext
  <2>2. CASE UNCHANGED yes
    BY <1>7, <2>2 DEF Answer, AfterYes
  <2> QED
    BY <1>7, <2>1, <2>2 DEF Answer
<1>8. CASE Notify
  <2>1. Contract!TellEnd
    BY <1>8 DEF Notify, ToldInv, Contract!TellEnd, Contract!Pending, Pending
  <2> QED
    BY <2>1 DEF Contract!ContractNext
<1>9. CASE Cleanup
  <2>1. Contract!Report
    BY <1>9 DEF Cleanup, ResultInv, CutShort, Settled, AskedInv, DataOK,
       Contract!Report, Contract!Pending, Pending, Aborted, FailedInit,
       Contract!Aborted, Contract!FailedInit
  <2> QED
    BY <2>1 DEF Contract!ContractNext
<1>10. CASE Kill
  <2>1. Contract!Ask
    BY <1>10 DEF Kill, Contract!Ask
  <2> QED
    BY <2>1 DEF Contract!ContractNext
<1>11. CASE UNCHANGED <<moved, outcome, yes, dying, told, toldEnd>>
            /\ pc # "returned" /\ pc' # "returned"
  BY <1>11
<1>12. CASE Finished \/ UNCHANGED vars
  BY <1>12 DEF Finished, vars
<1> QED
  BY <1>1, <1>2, <1>3, <1>4, <1>5, <1>6, <1>7, <1>8, <1>9, <1>10, <1>11, <1>12
  DEF Next, LoopStep, FdsetFails, Begin, AddHandle, Delay, Watch,
      SelectReturns, SelectFails, AfterSelectError, LoopTest, Poll, Settle,
      Detach, Tick

\* The polling loop and the atomic call implement the contract of a call.
THEOREM LoopImplementsContract ==
    ASSUME AddWorks
    PROVE  Spec => ImplementsContract
<1>1. Init => Contract!ContractInit
  BY DEF Init, Contract!ContractInit, Contract!Pending, Contract!None, Pending
<1>2. IInv /\ ResultInv /\ [Next]_vars => CStep
  BY StepImplements
<1> QED
  BY <1>1, <1>2, Invariance, ResultInvariance, PTL
  DEF Spec, CStep, Contract!ContractSpec, ImplementsContract

-----------------------------------------------------------------------------
(***************************************************************************)
(* The writer                                                              *)
(*                                                                         *)
(* The file, the buffer of its stream and the chunk in hand are three       *)
(* consecutive stretches of the body; ctx->size counts the first two.  The  *)
(* theorems hold for bodies and chunks of every length and every set of     *)
(* faults without a failing fclose.                                        *)
(***************************************************************************)

\* s is the stretch of the body that follows its first n units.
Follows(s, n) == \A i \in 1 .. Len(s) : s[i] = n + i

\* Before the body of the callback has dealt with the chunk in hand.
Before == {"enter", "write", "close", "reopen", "retry"}

\* What has been dealt with of the units handed over.
Dealt ==
    CASE place \in Before   -> given - Len(chunk)
      [] place = "return"   -> given - Len(chunk) + back
      [] OTHER           -> given

WriterPlace ==
    /\ place \in {"write", "close", "reopen", "retry"} => use_path
    /\ place \in {"write", "close", "retry"} => open
    /\ place = "reopen" => ~open
    /\ place \in {"reopen", "retry"} => fresh
    /\ ~open => buffer = <<>>
    /\ open => fresh
    /\ fresh => use_path
    /\ place = "done" => ~open

WriterStatus ==
    /\ place \in Before \cup {"idle", "return"} => status = W!Running
    /\ status = W!OK => given = length
    /\ place \notin Before \cup {"return"} => chunk = <<>>

WriterCount ==
    /\ given <= length
    /\ Len(chunk) <= given
    /\ place = "return" => back <= Len(chunk) /\ (~use_path => back = Len(chunk))
    /\ use_path  => IF status = W!WriteError THEN size <= given ELSE size = Dealt
    /\ ~use_path => size = 0 /\ status # W!WriteError /\ Len(blob) = Dealt
    /\ ~fresh    => size = 0
    /\ fresh     => size = Len(disk) + Len(buffer)

WriterData ==
    /\ Follows(chunk, given - Len(chunk))
    /\ Follows(blob, 0)
    /\ fresh => Follows(disk, 0) /\ Follows(buffer, Len(disk))

WriterTypes ==
    /\ length \in 0 .. Chunks
    /\ use_path \in BOOLEAN /\ fresh \in BOOLEAN /\ open \in BOOLEAN
    /\ place \in {"idle", "enter", "write", "close", "reopen", "retry", "return",
                 "cleanup", "done"}
    /\ blob \in Seq(1 .. Chunks)
    /\ disk \in Seq(0 .. Chunks)
    /\ buffer \in Seq(1 .. Chunks)
    /\ chunk \in Seq(1 .. Chunks)
    /\ size \in 0 .. Chunks /\ given \in 0 .. Chunks
    /\ back \in 0 .. Chunks
    /\ status \in {W!Running, W!OK, W!WriteError, W!OtherError}

WriterInv == WriterTypes /\ WriterPlace /\ WriterStatus /\ WriterCount /\ WriterData

\* fclose is not among the calls that fail.
CloseWorks == "close" \notin FileFaults

-----------------------------------------------------------------------------
(* Stretches of a body *)

\* The first n units of a sequence.
LEMMA PartIs ==
    ASSUME NEW S, NEW s \in Seq(S), NEW n \in 0 .. Len(s), NEW a \in Int, Follows(s, a)
    PROVE  W!Part(s, n) \in Seq(S) /\ Len(W!Part(s, n)) = n /\ Follows(W!Part(s, n), a)
  BY DEF W!Part, Follows

\* The others.
LEMMA RestIs ==
    ASSUME NEW S, NEW s \in Seq(S), NEW n \in 0 .. Len(s), NEW a \in Int, Follows(s, a)
    PROVE  W!Rest(s, n) \in Seq(S) /\ Len(W!Rest(s, n)) = Len(s) - n /\ Follows(W!Rest(s, n), a + n)
  BY DEF W!Rest, Follows

\* Two consecutive stretches make one.
LEMMA JoinIs ==
    ASSUME NEW S, NEW s \in Seq(S), NEW t \in Seq(S), NEW a \in Int,
           Follows(s, a), Follows(t, a + Len(s))
    PROVE  s \o t \in Seq(S) /\ Len(s \o t) = Len(s) + Len(t) /\ Follows(s \o t, a)
  BY DEF Follows

\* A stretch from the beginning is the beginning of the body.
LEMMA BodyIs ==
    ASSUME NEW S, NEW s \in Seq(S), Follows(s, 0)
    PROVE  s = Body(Len(s))
  BY DEF Body, Follows

\* Units of a body may be stored in a file.
LEMMA FileUnits ==
    ASSUME NEW s \in Seq(1 .. Chunks)
    PROVE  s \in Seq(0 .. Chunks)
  BY ChunksAssumption

-----------------------------------------------------------------------------
(* The calls of the C library *)

\* What is known of the stream before each of them.
StreamOK ==
    /\ disk \in Seq(0 .. Chunks) /\ buffer \in Seq(1 .. Chunks)
    /\ Follows(disk, 0) /\ Follows(buffer, Len(disk))

\* fwrite takes the beginning of the chunk, which is what the file and the buffer
\* lack.
LEMMA FWriteKeeps ==
    ASSUME StreamOK, chunk \in Seq(1 .. Chunks),
           NEW k \in 0 .. Len(chunk), W!FWrite(k),
           Follows(chunk, Len(disk) + Len(buffer))
    PROVE  /\ buffer' \in Seq(1 .. Chunks)
           /\ Len(buffer') = Len(buffer) + k
           /\ Follows(buffer', Len(disk))
<1>1. Len(disk) \in Int /\ Len(buffer) \in Int /\ Len(disk) + Len(buffer) \in Int
  BY DEF StreamOK
<1>2. /\ W!Part(chunk, k) \in Seq(1 .. Chunks)
      /\ Len(W!Part(chunk, k)) = k
      /\ Follows(W!Part(chunk, k), Len(disk) + Len(buffer))
  BY <1>1, PartIs
<1>3. buffer \in Seq(1 .. Chunks) /\ Follows(buffer, Len(disk))
  BY DEF StreamOK
<1>4. LET b == buffer \o W!Part(chunk, k)
      IN  /\ b \in Seq(1 .. Chunks)
          /\ Len(b) = Len(buffer) + Len(W!Part(chunk, k))
          /\ Follows(b, Len(disk))
  BY <1>1, <1>2, <1>3, JoinIs
<1> QED
  BY <1>2, <1>4 DEF W!FWrite

\* Writing out n units of the buffer moves them to the end of the file.
LEMMA WriteOutKeeps ==
    ASSUME StreamOK, NEW n \in 0 .. Len(buffer)
    PROVE  LET d == disk \o W!Part(buffer, n)
               b == W!Rest(buffer, n)
           IN  /\ d \in Seq(0 .. Chunks) /\ b \in Seq(1 .. Chunks)
               /\ Len(d) = Len(disk) + n /\ Len(b) = Len(buffer) - n
               /\ Follows(d, 0) /\ Follows(b, Len(d))
<1>1. Len(disk) \in Nat
  BY DEF StreamOK
<1>2. /\ W!Part(buffer, n) \in Seq(1 .. Chunks)
      /\ Len(W!Part(buffer, n)) = n
      /\ Follows(W!Part(buffer, n), Len(disk))
  BY <1>1, PartIs DEF StreamOK
<1>3. W!Part(buffer, n) \in Seq(0 .. Chunks)
  BY <1>2, FileUnits
<1>4. Follows(W!Part(buffer, n), 0 + Len(disk)) /\ disk \in Seq(0 .. Chunks) /\ Follows(disk, 0)
  BY <1>1, <1>2 DEF StreamOK
<1>5. /\ disk \o W!Part(buffer, n) \in Seq(0 .. Chunks)
      /\ Len(disk \o W!Part(buffer, n)) = Len(disk) + n
      /\ Follows(disk \o W!Part(buffer, n), 0)
  BY <1>2, <1>3, <1>4, JoinIs
<1>6. /\ W!Rest(buffer, n) \in Seq(1 .. Chunks)
      /\ Len(W!Rest(buffer, n)) = Len(buffer) - n
      /\ Follows(W!Rest(buffer, n), Len(disk) + n)
  BY <1>1, RestIs DEF StreamOK
<1> QED
  BY <1>5, <1>6

\* fclose does so with all of it.
LEMMA FCloseKeeps ==
    ASSUME CloseWorks, StreamOK, W!FClose
    PROVE  /\ disk' \in Seq(0 .. Chunks) /\ buffer' = <<>> /\ ~open'
           /\ Len(disk') = Len(disk) + Len(buffer)
           /\ Follows(disk', 0)
<1>1. disk' = disk \o W!Part(buffer, Len(buffer))
  BY DEF W!FClose, CloseWorks
<1>2. Len(buffer) \in 0 .. Len(buffer)
  BY DEF StreamOK
<1> QED
  BY <1>1, <1>2, WriteOutKeeps DEF W!FClose

-----------------------------------------------------------------------------
(* The invariant *)

\* Every initial state satisfies the invariant.
LEMMA WriterInit == W!Init => WriterInv
<1> SUFFICES ASSUME W!Init PROVE WriterInv
  OBVIOUS
<1>1. WriterTypes
  <2>1. disk \in Seq(0 .. Chunks)
    <3>1. CASE disk = <<>>
      BY <3>1
    <3>2. CASE disk = <<W!Old>>
      BY <3>2, ChunksAssumption DEF W!Old
    <3> QED
      BY <3>1, <3>2 DEF W!Init
  <2>2. blob \in Seq(1 .. Chunks) /\ buffer \in Seq(1 .. Chunks)
          /\ chunk \in Seq(1 .. Chunks)
    BY DEF W!Init
  <2>3. use_path \in BOOLEAN /\ fresh \in BOOLEAN /\ open \in BOOLEAN
    BY DEF W!Init
  <2> QED
    BY <2>1, <2>2, <2>3, ChunksAssumption DEF W!Init, WriterTypes
<1>2. WriterPlace /\ WriterStatus
  BY DEF W!Init, WriterPlace, WriterStatus, Before, W!Running, W!OK
<1>3. WriterCount
  BY DEF W!Init, WriterCount, Dealt, Before, W!Running, W!WriteError
<1>4. WriterData
  BY DEF W!Init, WriterData, Follows
<1> QED
  BY <1>1, <1>2, <1>3, <1>4 DEF WriterInv

\* Streams are open where they are used, and closed in the end.
LEMMA WriterPlaceStep ==
    ASSUME WriterInv, [W!Next]_(W!vars)
    PROVE  WriterPlace'
<1> USE DEF WriterInv, WriterPlace, W!stream, W!fixed
<1>1. CASE W!Deliver
  BY <1>1 DEF W!Deliver
<1>2. CASE W!Flush
  BY <1>2 DEF W!Flush
<1>3. CASE W!Return
  BY <1>3 DEF W!Return
<1>4. CASE W!End
  BY <1>4 DEF W!End
<1>5. CASE W!ToBlob
  BY <1>5 DEF W!ToBlob
<1>6. CASE W!ToOpenFile
  BY <1>6 DEF W!ToOpenFile
<1>7. CASE W!OpenFile
  BY <1>7 DEF W!OpenFile
<1>8. CASE W!OpenFails
  BY <1>8 DEF W!OpenFails
<1>9. CASE W!Write
  BY <1>9 DEF W!Write, W!NeedsRetry
<1>10. CASE W!CloseBroken
  BY <1>10 DEF W!CloseBroken, W!FClose
<1>11. CASE W!Reopen
  BY <1>11 DEF W!Reopen
<1>12. CASE W!ReopenFails
  BY <1>12 DEF W!ReopenFails
<1>13. CASE W!Retry
  BY <1>13 DEF W!Retry
<1>14. CASE W!CloseFile
  BY <1>14 DEF W!CloseFile, W!FClose
<1>15. CASE W!NothingToClose
  BY <1>15 DEF W!NothingToClose
<1>16. CASE W!Finished \/ UNCHANGED W!vars
  BY <1>16 DEF W!Finished, W!vars, W!writer
<1> QED
  BY <1>1, <1>2, <1>3, <1>4, <1>5, <1>6, <1>7, <1>8, <1>9, <1>10, <1>11, <1>12, <1>13, <1>14, <1>15, <1>16 DEF W!Next

\* The status is fixed when the transfer ends, and a success is complete.
LEMMA WriterStatusStep ==
    ASSUME WriterInv, [W!Next]_(W!vars)
    PROVE  WriterStatus'
<1> USE DEF WriterInv, WriterStatus, Before, W!stream, W!fixed, W!Running, W!OK, W!WriteError, W!OtherError
<1>1. CASE W!Deliver
  BY <1>1 DEF W!Deliver
<1>2. CASE W!Flush
  BY <1>2 DEF W!Flush
<1>3. CASE W!Return
  BY <1>3 DEF W!Return
<1>4. CASE W!End
  BY <1>4 DEF W!End
<1>5. CASE W!ToBlob
  BY <1>5 DEF W!ToBlob
<1>6. CASE W!ToOpenFile
  BY <1>6 DEF W!ToOpenFile
<1>7. CASE W!OpenFile
  BY <1>7 DEF W!OpenFile
<1>8. CASE W!OpenFails
  BY <1>8 DEF W!OpenFails
<1>9. CASE W!Write
  BY <1>9 DEF W!Write, W!NeedsRetry
<1>10. CASE W!CloseBroken
  BY <1>10 DEF W!CloseBroken
<1>11. CASE W!Reopen
  BY <1>11 DEF W!Reopen
<1>12. CASE W!ReopenFails
  BY <1>12 DEF W!ReopenFails
<1>13. CASE W!Retry
  BY <1>13 DEF W!Retry
<1>14. CASE W!CloseFile
  BY <1>14 DEF W!CloseFile
<1>15. CASE W!NothingToClose
  BY <1>15 DEF W!NothingToClose
<1>16. CASE W!Finished \/ UNCHANGED W!vars
  BY <1>16 DEF W!Finished, W!vars, W!writer
<1> QED
  BY <1>1, <1>2, <1>3, <1>4, <1>5, <1>6, <1>7, <1>8, <1>9, <1>10, <1>11, <1>12, <1>13, <1>14, <1>15, <1>16 DEF W!Next

\* The file, the buffer and the chunk are consecutive stretches of the body.
LEMMA WriterDataStep ==
    ASSUME CloseWorks, WriterInv, [W!Next]_(W!vars)
    PROVE  WriterTypes' /\ WriterCount' /\ WriterData'
<1> USE DEF WriterInv, WriterPlace, WriterStatus, W!stream, W!fixed, W!Running, W!OK, W!WriteError, W!OtherError
<1>a. /\ length \in Nat /\ given \in Nat /\ size \in Nat /\ back \in Nat
      /\ Len(chunk) \in Nat /\ Len(disk) \in Nat /\ Len(buffer) \in Nat /\ Len(blob) \in Nat
  BY ChunksAssumption DEF WriterTypes
<1>b. fresh => StreamOK
  BY DEF WriterTypes, WriterData, StreamOK
<1>1. CASE W!Deliver
  <2>1. WriterTypes'
    BY <1>1, ChunksAssumption DEF W!Deliver, WriterTypes
  <2>2. WriterCount'
    BY <1>1, <1>a, ChunksAssumption, SMTT(60) DEF W!Deliver, WriterTypes, WriterCount, Dealt, Before
  <2>3. WriterData'
    BY <1>1 DEF W!Deliver, WriterTypes, WriterCount, WriterData, Follows
  <2> QED
    BY <2>1, <2>2, <2>3
<1>2. CASE W!Return
  <2>1. WriterTypes'
    BY <1>2, ChunksAssumption DEF W!Return, WriterTypes
  <2>2. WriterCount'
    BY <1>2, <1>a, ChunksAssumption DEF W!Return, WriterTypes, WriterCount, Dealt, Before
  <2>3. WriterData'
    BY <1>2 DEF W!Return, WriterTypes, WriterCount, WriterData, Follows
  <2> QED
    BY <2>1, <2>2, <2>3
<1>3. CASE W!End
  <2>1. WriterTypes'
    BY <1>3, ChunksAssumption DEF W!End, WriterTypes
  <2>2. WriterCount'
    BY <1>3, ChunksAssumption DEF W!End, WriterTypes, WriterCount, Dealt, Before
  <2>3. WriterData'
    BY <1>3 DEF W!End, WriterTypes, WriterCount, WriterData, Follows
  <2> QED
    BY <2>1, <2>2, <2>3
<1>4. CASE W!ToBlob
  <2>1. Follows(blob, 0) /\ Follows(chunk, 0 + Len(blob))
    BY <1>4, <1>a DEF W!ToBlob, WriterCount, WriterData, Dealt, Before
  <2>2. /\ blob' \in Seq(1 .. Chunks)
        /\ Len(blob') = Len(blob) + Len(chunk)
        /\ Follows(blob', 0)
    BY <1>4, <2>1, JoinIs DEF W!ToBlob, WriterTypes
  <2>3. Len(chunk) \in 0 .. Chunks
    BY <1>a, ChunksAssumption DEF WriterTypes, WriterCount
  <2>4. WriterTypes'
    BY <1>4, <2>2, <2>3 DEF W!ToBlob, WriterTypes
  <2>5. WriterCount'
    <3>1. Len(blob) = given - Len(chunk) /\ size = 0 /\ ~use_path /\ ~fresh
      BY <1>4 DEF W!ToBlob, WriterCount, Dealt, Before
    <3>2. Len(blob') = given - Len(chunk) + Len(chunk)
      BY <1>a, <2>2, <3>1
    <3> QED
      BY <1>4, <1>a, <3>1, <3>2 DEF W!ToBlob, WriterCount, Dealt, Before
  <2>6. WriterData'
    BY <1>4, <2>2 DEF W!ToBlob, WriterData
  <2> QED
    BY <2>4, <2>5, <2>6
<1>5. CASE W!ToOpenFile
  <2>1. WriterTypes'
    BY <1>5, ChunksAssumption DEF W!ToOpenFile, WriterTypes
  <2>2. WriterCount'
    BY <1>5, ChunksAssumption DEF W!ToOpenFile, WriterTypes, WriterCount, Dealt, Before
  <2>3. WriterData'
    BY <1>5 DEF W!ToOpenFile, WriterTypes, WriterCount, WriterData, Follows
  <2> QED
    BY <2>1, <2>2, <2>3
<1>6. CASE W!OpenFile
  <2>1. disk' \in Seq(0 .. Chunks)
    <3>1. CASE disk' = disk
      BY <3>1 DEF WriterTypes
    <3>2. CASE disk' = <<>>
      BY <3>2
    <3> QED
      BY <1>6, <3>1, <3>2 DEF W!OpenFile
  <2>2. WriterTypes'
    BY <1>6, <2>1 DEF W!OpenFile, WriterTypes
  <2>3. WriterCount'
    BY <1>6, ChunksAssumption DEF W!OpenFile, WriterTypes, WriterCount, Dealt, Before
  <2>4. WriterData'
    BY <1>6 DEF W!OpenFile, WriterTypes, WriterCount, WriterData, Follows
  <2> QED
    BY <2>2, <2>3, <2>4
<1>7. CASE W!OpenFails
  <2>1. WriterTypes'
    BY <1>7, ChunksAssumption DEF W!OpenFails, WriterTypes
  <2>2. WriterCount'
    BY <1>7, ChunksAssumption DEF W!OpenFails, WriterTypes, WriterCount, Dealt, Before
  <2>3. WriterData'
    BY <1>7 DEF W!OpenFails, WriterTypes, WriterCount, WriterData, Follows
  <2> QED
    BY <2>1, <2>2, <2>3
<1>8. CASE W!Reopen
  <2>1. WriterTypes'
    BY <1>8, ChunksAssumption DEF W!Reopen, WriterTypes, W!Reopened
  <2>2. WriterCount'
    BY <1>8, ChunksAssumption DEF W!Reopen, WriterTypes, WriterCount, Dealt, Before, W!Reopened
  <2>3. WriterData'
    BY <1>8 DEF W!Reopen, WriterTypes, WriterCount, WriterData, Follows, W!Reopened
  <2> QED
    BY <2>1, <2>2, <2>3
<1>9. CASE W!ReopenFails
  <2>1. WriterTypes'
    BY <1>9, ChunksAssumption DEF W!ReopenFails, WriterTypes
  <2>2. WriterCount'
    BY <1>9, ChunksAssumption DEF W!ReopenFails, WriterTypes, WriterCount, Dealt, Before
  <2>3. WriterData'
    BY <1>9 DEF W!ReopenFails, WriterTypes, WriterCount, WriterData, Follows
  <2> QED
    BY <2>1, <2>2, <2>3
<1>10. CASE W!NothingToClose
  <2>1. WriterTypes'
    BY <1>10, ChunksAssumption DEF W!NothingToClose, WriterTypes
  <2>2. WriterCount'
    BY <1>10, ChunksAssumption DEF W!NothingToClose, WriterTypes, WriterCount, Dealt, Before
  <2>3. WriterData'
    BY <1>10 DEF W!NothingToClose, WriterTypes, WriterCount, WriterData, Follows
  <2> QED
    BY <2>1, <2>2, <2>3
<1>11. CASE W!Flush
  <2>1. PICK n \in 1 .. Len(buffer) :
            disk' = disk \o W!Part(buffer, n) /\ buffer' = W!Rest(buffer, n)
    BY <1>11 DEF W!Flush
  <2>2. fresh /\ StreamOK /\ n \in 0 .. Len(buffer)
    BY <1>11, <1>a, <1>b DEF W!Flush
  <2>3. /\ disk' \in Seq(0 .. Chunks) /\ buffer' \in Seq(1 .. Chunks)
        /\ Len(disk') = Len(disk) + n /\ Len(buffer') = Len(buffer) - n
        /\ Follows(disk', 0) /\ Follows(buffer', Len(disk'))
    BY <2>1, <2>2, WriteOutKeeps
  <2>4. WriterTypes'
    BY <1>11, <2>3 DEF W!Flush, WriterTypes
  <2>5. WriterCount'
    BY <1>11, <1>a, <2>2, <2>3 DEF W!Flush, WriterCount, Dealt, Before
  <2>6. WriterData'
    BY <1>11, <2>3 DEF W!Flush, WriterData
  <2> QED
    BY <2>4, <2>5, <2>6
<1>12. CASE W!Write
  <2>1. PICK k \in 0 .. Len(chunk) :
            W!FWrite(k) /\ size' = size + k 
            /\ \/ k = 0 /\ place' = "close" /\ back' = back
               \/ place' = "return" /\ back' = k
    BY <1>12 DEF W!Write, W!Counted, W!NeedsRetry
  <2>2. fresh /\ use_path /\ StreamOK /\ chunk \in Seq(1 .. Chunks)
    BY <1>12, <1>b DEF W!Write, WriterTypes
  <2>3. /\ size = Len(disk) + Len(buffer) /\ size = given - Len(chunk)
        /\ Follows(chunk, Len(disk) + Len(buffer))
    BY <1>12, <2>2 DEF W!Write, WriterCount, WriterData, Dealt, Before
  <2>4. /\ buffer' \in Seq(1 .. Chunks)
        /\ Len(buffer') = Len(buffer) + k
        /\ Follows(buffer', Len(disk))
    BY <2>1, <2>2, <2>3, FWriteKeeps
  <2>5. given <= length /\ length <= Chunks /\ k \in 0 .. Chunks
    BY <1>a, ChunksAssumption DEF WriterTypes, WriterCount
  <2>6. size' \in 0 .. Chunks /\ back' \in 0 .. Chunks
    <3>1. Len(chunk) \in Nat /\ k \in 0 .. Len(chunk) /\ size \in 0 .. Chunks
      BY <2>2, <1>a DEF WriterTypes
    <3>2. given \in Nat /\ length \in Nat /\ back \in 0 .. Chunks
      BY <1>a, ChunksAssumption DEF WriterTypes
    <3>3. size' = size + k /\ (back' = back \/ back' = k)
      BY <2>1
    <3>4. size + k \in 0 .. Chunks
      BY <2>3, <2>5, <3>1, <3>2, ChunksAssumption
    <3> QED
      BY <2>5, <3>2, <3>3, <3>4
  <2>7. WriterTypes'
    BY <1>12, <2>1, <2>4, <2>6 DEF W!Write, WriterTypes
  <2>8. WriterCount'
    <3>1. CASE k = 0 /\ place' = "close"
      BY <1>12, <1>a, <2>1, <2>2, <2>3, <2>4, <3>1 DEF W!Write, WriterCount, Dealt, Before
    <3>2. CASE place' = "return" /\ back' = k
      BY <1>12, <1>a, <2>1, <2>2, <2>3, <2>4, <3>2 DEF W!Write, WriterCount, Dealt, Before
    <3> QED
      BY <2>1, <3>1, <3>2
  <2>9. WriterData'
    BY <1>12, <2>4 DEF W!Write, WriterData
  <2> QED
    BY <2>7, <2>8, <2>9
<1>13. CASE W!CloseBroken
  <2>1. fresh /\ use_path /\ StreamOK
    BY <1>13, <1>b DEF W!CloseBroken
  <2>2. /\ disk' \in Seq(0 .. Chunks) /\ buffer' = <<>> /\ ~open'
        /\ Len(disk') = Len(disk) + Len(buffer)
        /\ Follows(disk', 0)
    BY <1>13, <2>1, FCloseKeeps DEF W!CloseBroken
  <2>3. open' \in BOOLEAN
    BY <1>13 DEF W!CloseBroken, W!FClose
  <2>4. WriterTypes'
    BY <1>13, <2>2, <2>3 DEF W!CloseBroken, WriterTypes
  <2>5. WriterCount'
    BY <1>13, <1>a, <2>1, <2>2 DEF W!CloseBroken, WriterCount, Dealt, Before
  <2>6. WriterData'
    BY <1>13, <2>2 DEF W!CloseBroken, WriterData, Follows
  <2> QED
    BY <2>4, <2>5, <2>6
<1>14. CASE W!Retry
  <2>1. PICK k \in 0 .. Len(chunk) :
            W!FWrite(k) /\ size' = size + k /\ place' = "return" /\ back' = k
    BY <1>14 DEF W!Retry, W!Counted, W!Taken
  <2>2. fresh /\ use_path /\ StreamOK /\ chunk \in Seq(1 .. Chunks)
    BY <1>14, <1>b DEF W!Retry, WriterTypes
  <2>3. /\ size = Len(disk) + Len(buffer) /\ size = given - Len(chunk)
        /\ Follows(chunk, Len(disk) + Len(buffer))
    BY <1>14, <2>2 DEF W!Retry, WriterCount, WriterData, Dealt, Before
  <2>4. /\ buffer' \in Seq(1 .. Chunks)
        /\ Len(buffer') = Len(buffer) + k
        /\ Follows(buffer', Len(disk))
    BY <2>1, <2>2, <2>3, FWriteKeeps
  <2>5. given <= length /\ length <= Chunks /\ k \in 0 .. Chunks
    BY <1>a, ChunksAssumption DEF WriterTypes, WriterCount
  <2>6. size' \in 0 .. Chunks /\ back' \in 0 .. Chunks
    <3>1. Len(chunk) \in Nat /\ k \in 0 .. Len(chunk) /\ size \in 0 .. Chunks
      BY <2>2, <1>a DEF WriterTypes
    <3>2. given \in Nat /\ length \in Nat /\ back \in 0 .. Chunks
      BY <1>a, ChunksAssumption DEF WriterTypes
    <3>3. size' = size + k /\ (back' = k)
      BY <2>1
    <3>4. size + k \in 0 .. Chunks
      BY <2>3, <2>5, <3>1, <3>2, ChunksAssumption
    <3> QED
      BY <2>5, <3>2, <3>3, <3>4
  <2>7. WriterTypes'
    BY <1>14, <2>1, <2>4, <2>6 DEF W!Retry, WriterTypes
  <2>8. WriterCount'
    BY <1>14, <1>a, <2>1, <2>2, <2>3, <2>4 DEF W!Retry, WriterCount, Dealt, Before
  <2>9. WriterData'
    BY <1>14, <2>4 DEF W!Retry, WriterData
  <2> QED
    BY <2>7, <2>8, <2>9
<1>15. CASE W!CloseFile
  <2>1. fresh /\ use_path /\ StreamOK
    BY <1>15, <1>b DEF W!CloseFile
  <2>2. /\ disk' \in Seq(0 .. Chunks) /\ buffer' = <<>> /\ ~open'
        /\ Len(disk') = Len(disk) + Len(buffer)
        /\ Follows(disk', 0)
    BY <1>15, <2>1, FCloseKeeps DEF W!CloseFile
  <2>3. open' \in BOOLEAN
    BY <1>15 DEF W!CloseFile, W!FClose
  <2>4. WriterTypes'
    BY <1>15, <2>2, <2>3 DEF W!CloseFile, WriterTypes
  <2>5. WriterCount'
    BY <1>15, <1>a, <2>1, <2>2 DEF W!CloseFile, WriterCount, Dealt, Before
  <2>6. WriterData'
    BY <1>15, <2>2 DEF W!CloseFile, WriterData, Follows
  <2> QED
    BY <2>4, <2>5, <2>6
<1>16. CASE W!Finished \/ UNCHANGED W!vars
  <2>1. UNCHANGED W!vars
    BY <1>16 DEF W!Finished
  <2>2. WriterTypes'
    BY <1>a, <2>1 DEF W!vars, W!writer, WriterTypes
  <2>3. WriterCount'
    BY <1>a, <2>1 DEF W!vars, W!writer, WriterCount, Dealt, Before
  <2>4. WriterData'
    BY <1>a, <2>1 DEF W!vars, W!writer, WriterData, Follows
  <2> QED
    BY <2>2, <2>3, <2>4
<1> QED
  BY <1>1, <1>2, <1>3, <1>4, <1>5, <1>6, <1>7, <1>8, <1>9, <1>10, <1>11, <1>12, <1>13, <1>14, <1>15, <1>16 DEF W!Next

\* The invariant holds in every state of a download whose fclose works.
LEMMA WriterInvariance ==
    ASSUME CloseWorks
    PROVE  W!Spec => []WriterInv
<1>1. WriterInv /\ [W!Next]_(W!vars) => WriterInv'
  <2> SUFFICES ASSUME WriterInv, [W!Next]_(W!vars) PROVE WriterInv'
    OBVIOUS
  <2>1. WriterPlace'
    BY WriterPlaceStep
  <2>2. WriterStatus'
    BY WriterStatusStep
  <2>3. WriterTypes' /\ WriterCount' /\ WriterData'
    BY WriterDataStep
  <2> QED
    BY <2>1, <2>2, <2>3 DEF WriterInv
<1> QED
  BY <1>1, WriterInit, PTL DEF W!Spec

-----------------------------------------------------------------------------
(* Theorems *)

\* Every variable of the download keeps its type; in particular ctx->size never
\* counts more than the body has.
THEOREM DownloadTypes ==
    ASSUME CloseWorks
    PROVE  W!Spec => []WriterTypeOK
<1>1. ASSUME WriterInv PROVE WriterTypeOK
  <2>1. WriterTypes /\ length \in Nat /\ given \in 0 .. length
    BY <1>1, ChunksAssumption DEF WriterInv, WriterTypes, WriterCount
  <2>2. blob \in Seq(Nat) /\ disk \in Seq(Nat) /\ buffer \in Seq(Nat) /\ chunk \in Seq(Nat)
    BY <2>1, ChunksAssumption DEF WriterTypes
  <2>3. size \in 0 .. length
    <3>1. size \in Nat /\ Len(chunk) \in Nat /\ back \in Nat
      BY <2>1 DEF WriterTypes
    <3>2. Dealt <= given
      BY <1>1, <2>1, <3>1 DEF WriterInv, WriterCount, WriterPlace, Dealt, Before
    <3>3. size <= given
      BY <1>1, <2>1, <3>1, <3>2 DEF WriterInv, WriterCount, WriterTypes
    <3> QED
      BY <2>1, <3>1, <3>3
  <2> QED
    BY <2>1, <2>2, <2>3 DEF WriterTypes, WriterTypeOK, W!Running, W!OK, W!WriteError, W!OtherError
<1> QED
  BY <1>1, WriterInvariance, PTL

\* ctx->size counts what the file and the stream hold together.
THEOREM SizeCounts ==
    ASSUME CloseWorks
    PROVE  W!Spec => []SizeIsAccepted
<1>1. WriterInv => SizeIsAccepted
  BY DEF WriterInv, WriterCount, SizeIsAccepted
<1> QED
  BY <1>1, WriterInvariance, PTL

\* However often writing fails and is recovered, the file is a beginning of the
\* body.
THEOREM PrefixKept ==
    ASSUME CloseWorks
    PROVE  W!Spec => []FileIsPrefix
<1>1. ASSUME WriterInv, fresh PROVE disk = Body(Len(disk))
  <2>1. disk \in Seq(0 .. Chunks) /\ Follows(disk, 0)
    BY <1>1 DEF WriterInv, WriterTypes, WriterData
  <2> QED
    BY <2>1, BodyIs
<1>2. WriterInv => FileIsPrefix
  BY <1>1 DEF FileIsPrefix
<1> QED
  BY <1>2, WriterInvariance, PTL

\* A download that reports success is complete, in the file or in the blob.
THEOREM SuccessIsComplete ==
    ASSUME CloseWorks
    PROVE  W!Spec => []OKIsComplete
<1>1. ASSUME WriterInv, place = "done", status = W!OK, use_path, fresh
      PROVE  disk = Body(length)
  <2>1. disk \in Seq(0 .. Chunks) /\ Follows(disk, 0) /\ buffer = <<>>
    BY <1>1 DEF WriterInv, WriterTypes, WriterData, WriterPlace
  <2>2. Len(disk) = length
    BY <1>1, <2>1 DEF WriterInv, WriterTypes, WriterCount, WriterStatus, Dealt, Before, W!OK, W!WriteError
  <2> QED
    BY <2>1, <2>2, BodyIs
<1>2. ASSUME WriterInv, place = "done", status = W!OK, ~use_path
      PROVE  blob = Body(length)
  <2>1. blob \in Seq(1 .. Chunks) /\ Follows(blob, 0)
    BY <1>2 DEF WriterInv, WriterTypes, WriterData
  <2>2. Len(blob) = length
    BY <1>2 DEF WriterInv, WriterCount, WriterStatus, Dealt, Before
  <2> QED
    BY <2>1, <2>2, BodyIs
<1>3. WriterInv => OKIsComplete
  BY <1>1, <1>2 DEF OKIsComplete, W!OK
<1> QED
  BY <1>3, WriterInvariance, PTL

\* What has reached the file stays there, through reopening and closing.
THEOREM NothingTruncated ==
    ASSUME CloseWorks
    PROVE  W!Spec => NeverTruncated
<1>1. ASSUME WriterInv, [W!Next]_(W!vars), fresh
      PROVE  Len(disk') >= Len(disk)
  <2>1. StreamOK /\ Len(disk) \in Nat /\ Len(buffer) \in Nat
    BY <1>1 DEF WriterInv, WriterTypes, WriterData, StreamOK
  <2>2. CASE W!OpenFile
    <3>1. size = Len(disk)
      BY <1>1, <2>1, <2>2 DEF W!OpenFile, WriterInv, WriterPlace, WriterCount
    <3> QED
      BY <2>1, <2>2, <3>1 DEF W!OpenFile
  <2>3. CASE W!Reopen
    BY <2>1, <2>3 DEF W!Reopen, W!Reopened
  <2>4. CASE W!Flush
    <3>1. PICK n \in 1 .. Len(buffer) : disk' = disk \o W!Part(buffer, n)
      BY <2>4 DEF W!Flush
    <3>2. Len(disk') = Len(disk) + n
      BY <2>1, <3>1, WriteOutKeeps
    <3> QED
      BY <2>1, <3>2
  <2>5. CASE W!CloseBroken \/ W!CloseFile
    <3>1. Len(disk') = Len(disk) + Len(buffer)
      BY <1>1, <2>1, <2>5, FCloseKeeps DEF W!CloseBroken, W!CloseFile
    <3> QED
      BY <2>1, <3>1
  <2>6. CASE UNCHANGED disk
    BY <2>1, <2>6
  <2> QED
    BY <1>1, <2>2, <2>3, <2>4, <2>5, <2>6
       DEF W!Next, W!vars, W!writer, W!Deliver, W!Return, W!End, W!ToBlob, W!ToOpenFile, W!OpenFails, W!Write,
           W!ReopenFails, W!Retry, W!NothingToClose, W!Finished
<1>2. WriterInv /\ [W!Next]_(W!vars) => [fresh => Len(disk') >= Len(disk)]_(W!vars)
  BY <1>1
<1> QED
  BY <1>2, WriterInvariance, PTL DEF W!Spec, NeverTruncated, W!vars, W!writer, writer

-----------------------------------------------------------------------------
(* The whole call *)

\* What the loop knows of the transfer is what the callback has seen of it,
\* except inside a perform, where the callback is ahead.
Agree ==
    /\ outcome = OK => status = W!OK
    /\ status = W!WriteError /\ ~InPerform => outcome = WriteErrorCode

-----------------------------------------------------------------------------
\* The whole call, callbacks included, is a behaviour of the loop: curl_write_function
\* changes nothing the loop sees but how the transfer ends.
THEOREM CallIsLoop == CallSpec => Spec
<1>1. CallInit => Init
  BY DEF CallInit
<1>2. [CallNext]_callVars => [Next]_vars
  <2> SUFFICES ASSUME CallNext PROVE [Next]_vars
    BY DEF callVars
  <2>1. CASE PerformReturns
    BY <2>1 DEF PerformReturns, Next, LoopStep
  <2>2. CASE OuterStep
    BY <2>2 DEF OuterStep, Next, LoopStep
  <2>3. CASE UNCHANGED vars
    BY <2>3
  <2> QED
    BY <2>1, <2>2, <2>3
    DEF CallNext, InnerStep, FlushStep, GiveUp, CloseStep, callVars
<1> QED
  BY <1>1, <1>2, PTL DEF CallSpec, Spec

\* The whole call is a behaviour of the writer: the loop only decides when libcurl
\* calls it, and when the file is closed.
THEOREM CallIsWriter == CallSpec => W!Spec
<1>1. CallInit => W!Init
  BY DEF CallInit
<1>2. [CallNext]_callVars => [W!Next]_(W!vars)
  <2> SUFFICES ASSUME CallNext PROVE W!Next \/ UNCHANGED W!vars
    BY DEF callVars, writer, W!vars, W!writer
  <2>1. CASE Libcurl
    BY <2>1 DEF Libcurl, W!Next
  <2>2. CASE Callback
    BY <2>2 DEF Callback, W!Next
  <2>3. CASE W!Flush \/ W!End \/ W!CloseFile \/ W!NothingToClose
    BY <2>3 DEF W!Next
  <2>4. CASE UNCHANGED writer
    BY <2>4 DEF writer, W!vars, W!writer
  <2> QED
    BY <2>1, <2>2, <2>3, <2>4
    DEF CallNext, InnerStep, PerformReturns, OuterStep, FlushStep, GiveUp, CloseStep, callVars
<1> QED
  BY <1>1, <1>2, PTL DEF CallSpec, W!Spec

-----------------------------------------------------------------------------
(* Between them they agree on how the transfer went. *)

\* Nothing has happened yet.
LEMMA AgreeInit == CallInit => Agree
BY CodesAssumption DEF CallInit, Init, W!Init, Agree, OK, Pending, W!Running, W!WriteError, W!OK

\* A perform hands over what the callback has seen; no other step changes both.
LEMMA AgreeStep == IInv /\ Agree /\ [CallNext]_callVars => Agree'
<1> SUFFICES ASSUME IInv, Agree, [CallNext]_callVars PROVE Agree'
  OBVIOUS
<1> USE DEF W!OK, W!WriteError, W!OtherError, W!Running
<1>1. InPerform => outcome = Pending
  BY DEF InPerform, IInv, LoopInv, Adding
<1>2. CASE InnerStep
  BY <1>1, <1>2 DEF InnerStep, InPerform, Agree, vars, OK, Pending
<1>3. CASE PerformReturns
  <2>1. CASE InPerform
    <3>1. Committed
      BY <1>3, <2>1 DEF PerformReturns
    <3>2. UNCHANGED status
      BY <1>3 DEF PerformReturns, writer
    <3> QED
      BY <3>1, <3>2, CodesAssumption, WriteErrorAssumption DEF Committed, Agree, Pending, OK
  <2>2. CASE ~InPerform
    <3>1. UNCHANGED outcome
      BY <1>3, <2>2 DEF PerformReturns, InPerform, EasyPerform, FirstPerform, Perform,
         MultiPerform
    <3>2. UNCHANGED status
      BY <1>3 DEF PerformReturns, writer
    <3> QED
      BY <2>2, <3>1, <3>2 DEF Agree
  <2> QED
    BY <2>1, <2>2
<1>4. CASE OuterStep
  <2>1. UNCHANGED <<outcome, status>>
    BY <1>4 DEF OuterStep, writer, libcurl, EasyInfo, NoMulti, Begin, AddHandle, FdsetFails,
       Delay, Watch, SelectReturns, SelectFails, Offer, Answer, Poll, Settle, Notify, Detach,
       Cleanup, Tick, Kill
  <2>2. InPerform => InPerform'
    BY <1>4 DEF OuterStep, InPerform, libcurl, fixed, EasyInfo, NoMulti, Begin, AddHandle,
       FdsetFails, Delay, Watch, SelectReturns, SelectFails, Offer, Answer, Poll, Settle,
       Notify, Detach, Cleanup, Tick, Kill
  <2> QED
    BY <2>1, <2>2 DEF Agree
<1>5. CASE FlushStep \/ CloseStep
  BY <1>5 DEF FlushStep, CloseStep, W!Flush, W!CloseFile, W!NothingToClose, Agree, InPerform, vars
<1>6. CASE GiveUp
  BY <1>6 DEF GiveUp, W!End, Agree, InPerform, vars
<1>7. CASE UNCHANGED callVars
  BY <1>7 DEF callVars, vars, writer, Agree, InPerform
<1> QED
  BY <1>2, <1>3, <1>4, <1>5, <1>6, <1>7 DEF CallNext

\* They agree throughout.
LEMMA Agreement == CallSpec => []Agree
<1>1. CallSpec => []IInv
  BY CallIsLoop, Invariance, PTL
<1> QED
  BY <1>1, AgreeInit, AgreeStep, PTL DEF CallSpec

-----------------------------------------------------------------------------
(* What the caller gets. *)

\* A chunk that could not be written is what the caller hears of, whatever
\* aborts the call meanwhile.
THEOREM WriteErrorReported ==
    ASSUME AddWorks
    PROVE  CallSpec => []WriteErrorIsReported
<1>1. CallSpec => []StatusIsOutcome
  BY CallIsLoop, StatusCorrect, PTL
<1>2. Agree /\ StatusIsOutcome => WriteErrorIsReported
  BY CodesAssumption, WriteErrorAssumption
  DEF Agree, StatusIsOutcome, WriteErrorIsReported, InPerform
<1> QED
  BY <1>1, <1>2, Agreement, PTL

\* A call that returns CURLE_OK has the whole body, for bodies and chunks of
\* every length, whatever else fails but curl_multi_add_handle and fclose.
THEOREM SuccessHasAll ==
    ASSUME AddWorks, CloseWorks
    PROVE  CallSpec => []OKHasAll
<1>1. CallSpec => []StatusIsOutcome
  BY CallIsLoop, StatusCorrect, PTL
<1>2. CallSpec => []OKIsComplete
  BY CallIsWriter, SuccessIsComplete, PTL
<1>3. Agree /\ StatusIsOutcome /\ OKIsComplete => OKHasAll
  BY DEF Agree, StatusIsOutcome, OKHasAll, Over, OKIsComplete, W!OK, OK, Aborted, FailedInit
<1> QED
  BY <1>1, <1>2, <1>3, Agreement, PTL
=============================================================================
