-------------------------- MODULE UploadReaderProofs --------------------------
(***************************************************************************)
(* Machine-checked proofs about UploadReader, for files, blobs and reads   *)
(* of every length and for every set of faults.                            *)
(***************************************************************************)
EXTENDS UploadReader, TLAPS

\* Places inside curl_read_function.
InFile == {"read", "reopen", "reread"}
Asked  == {"enter"} \cup InFile

\* Where the call is: nothing has happened before the length is known, only a
\* file is read, and the status is open until the end.
PlaceInv ==
    /\ pc = "probe" => size = 0 /\ cursor = 0 /\ pos = 0 /\ ~open /\ sent = <<>>
    /\ pc \in InFile => FromFile /\ open
    /\ pc # "done" => status = Running

\* What the call has declared goes with the source it has chosen.
LengthInv ==
    \/ size > 0 /\ declared = size /\ probed = size
    \/ size = 0 /\ probed = 0
    \/ size = 0 /\ probed = Unopened /\ (pc = "probe" \/ declared = blob)
    \/ size = -1 /\ declared = blob /\ probed # Unopened

\* The stream and the cursor stand where what has been sent ends.
SentInv ==
    /\ FromFile  => sent = FileUnits(0, pos) /\ cursor = 0
    /\ ~FromFile => sent = BlobUnits(0, cursor) /\ pos = 0 /\ ~open
    /\ open => at = pos
    /\ pos <= MaxFile

\* libcurl does not ask for more than it was told, nor takes less for success.
AskInv ==
    /\ pc \in Asked => Len(sent) + ask <= declared
    /\ status = OK => Len(sent) = declared

IInv == TypeOK /\ PlaceInv /\ LengthInv /\ SentInv /\ AskInv

-----------------------------------------------------------------------------
(* Facts about the operators *)

\* The smaller of two numbers.
LEMMA MinIs ==
    ASSUME NEW a \in Int, NEW b \in Int
    PROVE  Min({a, b}) = IF a <= b THEN a ELSE b
<1>1. PICK m \in {a, b} : \A y \in {a, b} : m <= y
  OBVIOUS
<1>2. /\ Min({a, b}) \in {a, b}
      /\ \A y \in {a, b} : Min({a, b}) <= y
  BY <1>1 DEF Min
<1> QED
  BY <1>2

\* The larger of two numbers.
LEMMA MaxIs ==
    ASSUME NEW a \in Int, NEW b \in Int
    PROVE  Max({a, b}) = IF a >= b THEN a ELSE b
<1>1. PICK m \in {a, b} : \A y \in {a, b} : m >= y
  OBVIOUS
<1>2. /\ Max({a, b}) \in {a, b}
      /\ \A y \in {a, b} : Max({a, b}) >= y
  BY <1>1 DEF Max
<1> QED
  BY <1>2

\* Units of the file, in order.
LEMMA FileUnitsAre ==
    ASSUME NEW p \in Nat, NEW k \in Nat
    PROVE  /\ FileUnits(p, k) \in Seq(Int)
           /\ Len(FileUnits(p, k)) = k
           /\ FileUnits(0, p) \o FileUnits(p, k) = FileUnits(0, p + k)
           /\ p + k <= MaxFile => FileUnits(p, k) \in Seq(1 .. MaxFile \cup -MaxBlob .. -1)
  BY SizesAssumption DEF FileUnits

\* Units of the blob, in order.
LEMMA BlobUnitsAre ==
    ASSUME NEW p \in Nat, NEW k \in Nat
    PROVE  /\ BlobUnits(p, k) \in Seq(Int)
           /\ Len(BlobUnits(p, k)) = k
           /\ BlobUnits(0, p) \o BlobUnits(p, k) = BlobUnits(0, p + k)
           /\ p + k <= MaxBlob => BlobUnits(p, k) \in Seq(1 .. MaxFile \cup -MaxBlob .. -1)
  BY SizesAssumption DEF BlobUnits

\* fread returns no more than was asked for, nor than there is.
LEMMA FReadIs ==
    ASSUME file \in Nat, ask \in Nat, NEW p \in Nat, NEW k \in 0 .. ask, NEW end \in BOOLEAN,
           FRead(p, k, end)
    PROVE  k = 0 \/ p + k <= file
<1>1. Min({ask, file - p}) = IF ask <= file - p THEN ask ELSE file - p
  BY MinIs
<1>2. There(p) = IF 0 >= Min({ask, file - p}) THEN 0 ELSE Min({ask, file - p})
  BY <1>1, MaxIs DEF There
<1> QED
  BY <1>1, <1>2 DEF FRead

-----------------------------------------------------------------------------
(* The invariant *)

\* Every initial state satisfies the invariant.
LEMMA InitInv == Init => IInv
<1> SUFFICES ASSUME Init PROVE IInv
  OBVIOUS
<1>1. 0 \in 0 .. Max({MaxFile, MaxBlob})
  BY MaxIs, SizesAssumption
<1>2. FileUnits(0, 0) = <<>> /\ BlobUnits(0, 0) = <<>>
  BY FileUnitsAre, BlobUnitsAre
<1>3. sent \in Seq(1 .. MaxFile \cup -MaxBlob .. -1)
  BY DEF Init
<1>4. TypeOK
  <2>1. /\ file \in 0 .. MaxFile /\ probed \in Unopened .. MaxFile
        /\ blob \in 0 .. MaxBlob /\ cursor \in 0 .. blob /\ size \in -1 .. MaxFile
        /\ ask \in 0 .. MaxAsk /\ back \in ReadAbort .. MaxAsk
    BY SizesAssumption, AskAssumption DEF Init, ReadAbort, Unopened
  <2>2. declared \in 0 .. Max({MaxFile, MaxBlob})
    BY <1>1 DEF Init
  <2> QED
    BY <1>3, <2>1, <2>2 DEF Init, TypeOK
<1>5. PlaceInv /\ LengthInv /\ SentInv /\ AskInv
  BY <1>2, SizesAssumption DEF Init, PlaceInv, LengthInv, SentInv, AskInv, FromFile, InFile,
     Asked, Running, OK
<1> QED
  BY <1>4, <1>5 DEF IInv

\* The length is taken and declared; nothing is sent yet.
LEMMA ProbeStep ==
    ASSUME IInv, ProbeNothing \/ ProbeFile \/ ProbeUnknown
    PROVE  IInv'
<1>1. /\ declared' \in {blob, file}
      /\ size' \in {-1, 0, file}
  BY DEF IInv, PlaceInv, ProbeNothing, ProbeFile, ProbeUnknown, Declared
<1>2. declared' \in 0 .. Max({MaxFile, MaxBlob})
  BY <1>1, MaxIs, SizesAssumption DEF IInv, TypeOK
<1>3. FileUnits(0, 0) = <<>> /\ BlobUnits(0, 0) = <<>>
  BY FileUnitsAre, BlobUnitsAre
<1>4. TypeOK'
  BY <1>1, <1>2, SizesAssumption DEF IInv, TypeOK, PlaceInv, ProbeNothing, ProbeFile, ProbeUnknown, source,
     stream, Unopened
<1>5. PlaceInv' /\ LengthInv' /\ AskInv'
  BY DEF IInv, TypeOK, PlaceInv, LengthInv, AskInv, ProbeNothing, ProbeFile, ProbeUnknown, Declared,
     source, stream, InFile, Asked, Running, OK, Unopened
<1>6. SentInv'
  BY <1>3 DEF IInv, TypeOK, PlaceInv, SentInv, ProbeNothing, ProbeFile, ProbeUnknown,
     source, stream, FromFile, FileUnits, BlobUnits
<1> QED
  BY <1>4, <1>5, <1>6 DEF IInv

\* libcurl asks, takes what it gets, and ends; the file changes.
LEMMA OutsideStep ==
    ASSUME IInv, Ask \/ Return \/ End \/ ChangeFile
    PROVE  IInv'
<1> USE DEF IInv, source, lengths, stream
<1>1. CASE Ask
  <2>1. declared \in Int /\ Len(sent) \in Int
    BY MaxIs, SizesAssumption DEF TypeOK
  <2>2. PICK n \in 1 .. Min({MaxAsk, declared - Len(sent)}) : ask' = n
    BY <1>1 DEF Ask
  <2>3. ask' \in 1 .. MaxAsk /\ Len(sent) + ask' <= declared
    BY <2>1, <2>2, MinIs, AskAssumption
  <2>4. TypeOK'
    BY <1>1, <2>3 DEF Ask, TypeOK
  <2> QED
    BY <1>1, <2>3, <2>4 DEF Ask, PlaceInv, LengthInv, SentInv, AskInv, FromFile, FileUnits, BlobUnits,
       InFile, Asked, Running, OK
<1>2. CASE Return
  <2>1. status' \in {Running, Aborted, ReadError} /\ pc' \in {"idle", "done"}
    BY <1>2 DEF Return
  <2>2. pc' = "idle" => status' = Running
    BY <1>2, AskAssumption DEF Return, TypeOK, ReadAbort
  <2>3. TypeOK'
    BY <1>2, <2>1 DEF Return, TypeOK
  <2> QED
    BY <1>2, <2>1, <2>2, <2>3 DEF Return, PlaceInv, LengthInv, SentInv, AskInv, FromFile,
       FileUnits, BlobUnits, InFile, Asked, Running, OK, Aborted, ReadError
<1>3. CASE End
  BY <1>3 DEF End, TypeOK, PlaceInv, LengthInv, SentInv, AskInv, FromFile, FileUnits, BlobUnits,
     InFile, Asked, Running, OK, OtherError
<1>4. CASE ChangeFile
  BY <1>4 DEF ChangeFile, TypeOK, PlaceInv, LengthInv, SentInv, AskInv, FromFile, FileUnits, BlobUnits,
     InFile, Asked, Running, OK
<1> QED
  BY <1>1, <1>2, <1>3, <1>4

\* The blob gives what is left of it.
LEMMA BlobStep == ASSUME IInv, ReadBlob PROVE IInv'
<1> USE DEF IInv, source, lengths, stream
<1>1. PICK k : /\ k = Min({ask, blob - cursor})
               /\ back' = k /\ cursor' = cursor + k
               /\ sent' = sent \o BlobUnits(cursor, k)
  BY DEF ReadBlob
<1>2. k \in 0 .. ask /\ cursor + k <= blob
  BY <1>1, MinIs, SizesAssumption, AskAssumption, SMTT(30) DEF TypeOK
<1>3. /\ sent = BlobUnits(0, cursor) /\ cursor \in Nat /\ k \in Nat
      /\ cursor + k <= MaxBlob
  BY <1>2, AskAssumption, SizesAssumption DEF ReadBlob, SentInv, TypeOK
<1>4. sent' = BlobUnits(0, cursor') /\ BlobUnits(0, cursor') \in Seq(1 .. MaxFile \cup -MaxBlob .. -1)
  <2>1. sent' = BlobUnits(0, cursor')
    BY <1>1, <1>3, BlobUnitsAre
  <2>2. cursor' \in Nat /\ 0 + cursor' <= MaxBlob
    BY <1>1, <1>3
  <2> QED
    BY <2>1, <2>2, BlobUnitsAre
<1>5. TypeOK'
  <2>1. back' \in ReadAbort .. MaxAsk /\ cursor' \in 0 .. blob'
    BY <1>1, <1>2, AskAssumption, SizesAssumption DEF ReadBlob, TypeOK, ReadAbort
  <2> QED
    BY <1>4, <2>1 DEF ReadBlob, TypeOK
<1> QED
  BY <1>4, <1>5 DEF ReadBlob, PlaceInv, LengthInv, SentInv, AskInv, FromFile, BlobUnits,
     InFile, Asked, Running, OK

\* The stream is opened, used again, or opened anew at ctx->pos; or that fails.
LEMMA OpenStep ==
    ASSUME IInv, UseOpen \/ OpenFile \/ OpenFails \/ Reopen \/ ReopenFails
    PROVE  IInv'
<1> USE DEF IInv, source, lengths, stream
<1>1. TypeOK'
  <2>1. back' \in ReadAbort .. MaxAsk
    BY AskAssumption DEF TypeOK, UseOpen, OpenFile, OpenFails, Reopen, ReopenFails, ReadAbort
  <2>2. open' \in BOOLEAN /\ eof' \in BOOLEAN /\ at' \in Nat
    BY DEF TypeOK, UseOpen, OpenFile, OpenFails, Reopen, ReopenFails, Sought
  <2> QED
    BY <2>1, <2>2 DEF TypeOK, UseOpen, OpenFile, OpenFails, Reopen, ReopenFails
<1>2. PlaceInv' /\ LengthInv' /\ AskInv'
  BY DEF PlaceInv, LengthInv, AskInv, UseOpen, OpenFile, OpenFails, Reopen, ReopenFails, FromFile,
     InFile, Asked, Running, OK
<1>3. SentInv'
  BY DEF SentInv, PlaceInv, UseOpen, OpenFile, OpenFails, Reopen, ReopenFails, Sought, FromFile,
     FileUnits, BlobUnits, InFile
<1> QED
  BY <1>1, <1>2, <1>3

\* Units read are those that come next, and are counted.
LEMMA ReadStep ==
    ASSUME IInv, Read \/ Reread
    PROVE  IInv'
<1> USE DEF IInv, source, lengths, stream
<1>1. pc \in InFile /\ FromFile /\ open /\ at = pos /\ sent = FileUnits(0, pos)
  BY DEF Read, Reread, PlaceInv, SentInv, InFile
<1>2. PICK k \in 0 .. ask, end \in BOOLEAN :
         /\ FRead(at, k, end)
         /\ at' = at + k /\ eof' = (eof \/ end)
         /\ \/ /\ k = 0 /\ UNCHANGED <<sent, pos>>
               /\ \/ pc' = "reopen" /\ UNCHANGED back
                  \/ pc' = "return" /\ back' = ReadAbort
            \/ Give(k)
  BY DEF Read, Reread, IsError
<1>3. k = 0 \/ at + k <= file
  BY <1>2, FReadIs, SizesAssumption, AskAssumption DEF TypeOK
<1>4. k \in Nat /\ pos \in Nat /\ pos + k <= MaxFile
  BY <1>1, <1>2, <1>3, AskAssumption, SizesAssumption DEF TypeOK, SentInv
<1>5. UNCHANGED <<file, has_path, blob, probed, size, declared, cursor, open, ask, status>>
  BY DEF Read, Reread
<1>6. /\ sent' = FileUnits(0, pos') /\ pos' = pos + k /\ at' = pos'
      /\ FileUnits(0, pos') \in Seq(1 .. MaxFile \cup -MaxBlob .. -1)
      /\ back' \in ReadAbort .. MaxAsk
      /\ pc' \in {"reopen", "return"}
      /\ pc' = "reopen" => k = 0
  <2>1. CASE Give(k)
    <3>1. sent' = FileUnits(0, pos') /\ pos' = pos + k /\ at' = pos'
      BY <1>1, <1>2, <1>4, <2>1, FileUnitsAre DEF Give, Got
    <3>2. pos' \in Nat /\ 0 + pos' <= MaxFile
      BY <1>4, <3>1
    <3>3. FileUnits(0, pos') \in Seq(1 .. MaxFile \cup -MaxBlob .. -1)
      BY <3>2, FileUnitsAre
    <3>4. back' \in ReadAbort .. MaxAsk /\ pc' = "return"
      BY <2>1, AskAssumption DEF Give, Got, TypeOK, ReadAbort
    <3> QED
      BY <3>1, <3>3, <3>4
  <2>2. CASE ~Give(k)
    BY <1>1, <1>2, <1>4, <2>2, AskAssumption DEF TypeOK, ReadAbort
  <2> QED
    BY <2>1, <2>2
<1>7. TypeOK'
  BY <1>2, <1>4, <1>5, <1>6 DEF TypeOK
<1>8. PlaceInv' /\ LengthInv' /\ SentInv'
  BY <1>1, <1>4, <1>5, <1>6 DEF PlaceInv, LengthInv, SentInv, FromFile, FileUnits, InFile
<1>9. AskInv'
  BY <1>1, <1>4, <1>5, <1>6 DEF AskInv, PlaceInv, FromFile, InFile, Asked, Running, OK
<1> QED
  BY <1>7, <1>8, <1>9

\* Every step preserves the invariant.
LEMMA StepInv == IInv /\ [Next]_vars => IInv'
<1> SUFFICES ASSUME IInv, [Next]_vars PROVE IInv'
  OBVIOUS
<1>1. CASE UNCHANGED vars
  BY <1>1 DEF vars, IInv, TypeOK, PlaceInv, LengthInv, SentInv, AskInv, FromFile, FileUnits, BlobUnits
<1>2. CASE Next
  BY <1>1, <1>2, ProbeStep, OutsideStep, BlobStep, OpenStep, ReadStep DEF Next, Finished
<1> QED
  BY <1>1, <1>2

\* The invariant, strong enough to be inductive, holds throughout.
THEOREM Invariance == Spec => []IInv
BY InitInv, StepInv, PTL DEF Spec

-----------------------------------------------------------------------------
(* What it gives *)

\* Every variable of an upload keeps its type.
THEOREM UploadTypes == Spec => []TypeOK
<1>1. IInv => TypeOK
  BY DEF IInv
<1> QED
  BY <1>1, Invariance, PTL

\* libcurl is given the beginning of one source, in order, through every failing
\* read and reopening, and while another program changes the file.
THEOREM StreamInOrder == Spec => []SentInOrder
<1>1. IInv => SentInOrder
  <2> SUFFICES ASSUME IInv PROVE SentInOrder
    OBVIOUS
  <2>1. pos \in Nat /\ cursor \in Nat
    BY SizesAssumption DEF IInv, TypeOK
  <2> QED
    <3>1. CASE FromFile
      BY <2>1, <3>1, FileUnitsAre DEF IInv, SentInv, SentInOrder
    <3>2. CASE ~FromFile
      BY <2>1, <3>2, BlobUnitsAre DEF IInv, SentInv, SentInOrder
    <3> QED
      BY <3>1, <3>2
<1> QED
  BY <1>1, Invariance, PTL

\* Between two calls of the callback ctx->pos, the stream and what was sent agree.
THEOREM PosCounts == Spec => []PosIsSent
<1>1. IInv => PosIsSent
  BY FileUnitsAre, SizesAssumption DEF IInv, TypeOK, SentInv, PosIsSent
<1> QED
  BY <1>1, Invariance, PTL

\* A successful upload has sent the whole of its source as it was when the call
\* looked, unless that was an empty file.
THEOREM SuccessSentAll == Spec => []OKSentAll
<1>1. IInv => OKSentAll
  <2> SUFFICES ASSUME IInv, pc = "done", status = OK PROVE OKSentAll
    BY DEF OKSentAll
  <2>1. pos \in Nat /\ cursor \in Nat /\ Len(sent) = declared
    BY SizesAssumption DEF IInv, TypeOK, AskInv
  <2>2. CASE FromFile
    <3>1. sent = FileUnits(0, declared) /\ sent = FileUnits(0, Len(sent))
      BY <2>1, <2>2, FileUnitsAre DEF IInv, SentInv
    <3>2. probed # Unopened /\ (size = probed => declared = probed)
      BY <2>2 DEF IInv, LengthInv, FromFile, Unopened
    <3> QED
      BY <3>1, <3>2 DEF OKSentAll
  <2>3. CASE ~FromFile
    <3>1. sent = BlobUnits(0, declared)
      BY <2>1, <2>3, BlobUnitsAre DEF IInv, SentInv
    <3>2. probed = 0 \/ (probed = Unopened /\ declared = blob)
      BY <2>3 DEF IInv, LengthInv, FromFile
    <3> QED
      BY <3>1, <3>2 DEF OKSentAll, Unopened
  <2> QED
    BY <2>2, <2>3
<1> QED
  BY <1>1, Invariance, PTL
=============================================================================
